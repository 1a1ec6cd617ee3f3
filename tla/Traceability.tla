------------------------------ MODULE Traceability ------------------------------
(***************************************************************************)
(* tools/orphan_detector.py on the main branch: pull requests branch off   *)
(* main, the traceability gate checks each against main, and a checked one *)
(* is merged, without having to be up to date.  The depth pillars of       *)
(* loop_gate.py are the same check as an agent runs it locally.            *)
(*                                                                         *)
(* A tree is [units, has_model, items]: the Python files, whether          *)
(* feature_list.json is there, and its items by id.  A unit is [ids,       *)
(* exempt, encoding]: the ids its text names, its exemption marker ("none",*)
(* "bare" or "reason") and whether it is "utf-8".  An item is [evidence,   *)
(* link, in_scope]: whether it carries evidence, whether it carries a      *)
(* traceability link, evidence records or an artifact mark, and its scope. *)
(***************************************************************************)
EXTENDS Naturals, FiniteSets

CONSTANTS
    Files, Allowed,     \* Python files; those under tools/
    Excluded,           \* those under tests/ or db/migrations/, __init__.py
    Ids,                \* requirement ids of the model
    WireIds,            \* REQ-WIRE ids, never looked up
    NoFile, NoItem, NoPR,
    Units, Items,       \* what a file or an item may be
    PRs,
    FirstTree,
    MaxPRs              \* bound: pull requests opened

ASSUME TraceabilityConstants ==
    /\ Allowed \subseteq Files /\ Excluded \subseteq Files
    /\ NoFile \notin Units /\ NoItem \notin Items
    /\ MaxPRs \in Nat

VARIABLES
    main,     \* the tree of the main branch
    pr,       \* open pull requests: [base, head, ci], the verdict on head
    opened,
    excused   \* history: why a merged pull request was not fully checked

vars == <<main, pr, opened, excused>>
--------------------------------------------------------------------------------
(*---------------------------- orphan_detector.py -----------------------*)
(* Mutant of _impl_unit_is_exempt: a marker without a reason exempts. *)
exempt_without_reason(unit) == unit.exempt # "none"

_impl_unit_is_exempt(unit) == unit.exempt = "reason"

_impl_unit_req_ids(unit) == unit.ids

_scan_repo_impl_units(tree) == {f \in Files \ Excluded : tree.units[f] # NoFile}

_requirements_from_feature_list(tree) == {id \in Ids : tree.items[id] # NoItem}

_requirement_has_artifact(tree, id, referenced) ==
    id \in referenced \/ tree.items[id].evidence \/ tree.items[id].link

(* Files without an id and without an exemption, references to an id that  *)
(* a non-empty model does not know, and all the ids referred to.           *)
_forward_pass(tree, files, known) ==
    [orphans |-> {f \in files : /\ _impl_unit_req_ids(tree.units[f]) = {}
                                /\ ~_impl_unit_is_exempt(tree.units[f])},
     dangling |-> IF known = {} THEN {}
                  ELSE (UNION {_impl_unit_req_ids(tree.units[f]) : f \in files})
                           \ (known \cup WireIds),
     referenced |-> UNION {_impl_unit_req_ids(tree.units[f]) : f \in files}]

_backward_pass(tree, requirements, referenced) ==
    {id \in requirements : ~_requirement_has_artifact(tree, id, referenced)}

(* Mutant of detect_orphans: the dangling references are taken out of the  *)
(* forward list before the verdict is.                                     *)
detect_orphans_lists(tree, files, requirements, known) ==
    LET forward == _forward_pass(tree, files, known)
        backward == _backward_pass(tree, requirements, forward.referenced)
    IN  [forward |-> forward.orphans, dangling |-> forward.dangling, backward |-> backward,
         ok |-> forward.orphans = {} /\ backward = {}]

detect_orphans(tree, files, requirements, known) ==
    LET forward == _forward_pass(tree, files, known)
        backward == _backward_pass(tree, requirements, forward.referenced)
    IN  [forward |-> forward.orphans, dangling |-> forward.dangling, backward |-> backward,
         ok |-> forward.orphans = {} /\ forward.dangling = {} /\ backward = {}]

(* git diff, git show: what changed between two trees. *)
_get_changed_files(base, head) == {f \in Files : base.units[f] # head.units[f]}

(* The fields that count as a change of an item; its links do not.         *)
_proj(item) == [evidence |-> item.evidence, in_scope |-> item.in_scope]

(* Mutant of _get_model_delta_ids: the list of fields forgets the scope. *)
delta_of_evidence(base, head) ==
    {id \in _requirements_from_feature_list(head) :
        \/ base.items[id] = NoItem
        \/ base.items[id].evidence # head.items[id].evidence}

_get_model_delta_ids(base, head) ==
    {id \in _requirements_from_feature_list(head) :
        base.items[id] = NoItem \/ _proj(base.items[id]) # _proj(head.items[id])}

_filter_forward_units_by_changed(files, changed) == (files \cap changed) \ Allowed

(* Of the units those of changed files outside the allowlist, of the       *)
(* requirements those the change adds or modifies; all of them if the base *)
(* has no readable model.                                                  *)
detect_orphans_diff(units, base, head, requirements, known, git) ==
    LET changed == IF git = "no_diff" THEN {} ELSE _get_changed_files(base, head)
        delta == _get_model_delta_ids(base, head)
    IN  detect_orphans(head, _filter_forward_units_by_changed(units, changed),
                       IF git = "no_show" \/ ~base.has_model THEN requirements
                       ELSE requirements \cap delta, known)

(* The gate's exit code.  git may fail: without a merge base the check     *)
(* fails closed, without a diff no file counts as changed, without the     *)
(* old model every requirement is looked at.                               *)
GitFaults == {"ok", "no_base", "no_diff", "no_show"}

gate(base, head, git) ==
    \/ ~head.has_model
    \/ /\ git # "no_base"
       /\ LET known == _requirements_from_feature_list(head)
          IN  detect_orphans_diff(_scan_repo_impl_units(head), base, head, known, known, git).ok

(*---------------- depth_feed.py, evidence_gate.py, loop_gate.py --------*)
(* What changed since the branch left main; nothing if git fails.          *)
compute_depth_feed(base, head, git) ==
    LET readable == git \notin {"no_base", "no_diff"}
    IN  [files |-> IF readable THEN _get_changed_files(base, head) ELSE {},
         model |-> /\ readable
                   /\ base.has_model # head.has_model \/ base.items # head.items]

nothing_changed(feed) == feed.files = {} /\ ~feed.model

(* A run of Semgrep is "clean", "blocking" or "error".                     *)
check_slice_semgrep(feed, semgrep) == nothing_changed(feed) \/ semgrep # "blocking"

(* The changed files that are there and decode; none of them is excluded.  *)
_build_impl_units(head, files) ==
    {f \in files : head.units[f] # NoFile /\ head.units[f].encoding = "utf-8"}

(* Mutant of check_slice_orphans: no baseline model is passed on. *)
check_without_baseline(base, head, feed, git, orphans) ==
    LET known == _requirements_from_feature_list(head)
        in_scope == {id \in known : head.items[id].in_scope}
    IN  \/ nothing_changed(feed) \/ orphans = "error"
        \/ detect_orphans_diff(_build_impl_units(head, feed.files), base, head,
                               IF feed.model THEN in_scope ELSE {}, known, "no_show").ok

(* The core of the gate's check, on the changed files and with the items   *)
(* in scope of a model that changed.  If it raises, the branch passes.     *)
check_slice_orphans(base, head, feed, git, orphans) ==
    LET known == _requirements_from_feature_list(head)
        in_scope == {id \in known : head.items[id].in_scope}
    IN  \/ nothing_changed(feed) \/ orphans = "error"
        \/ detect_orphans_diff(_build_impl_units(head, feed.files), base, head,
                               IF feed.model THEN in_scope ELSE {}, known, git).ok

(* The two depth pillars of an advance whose evidence was accepted.        *)
gated_advance(base, head, git, semgrep, orphans) ==
    LET feed == compute_depth_feed(base, head, git)
    IN  /\ check_slice_semgrep(feed, semgrep)
        /\ check_slice_orphans(base, head, feed, git, orphans)
--------------------------------------------------------------------------------
(*-------------------------- git: three-way merges ----------------------*)
Pick(base, head, other) == IF head = base THEN other ELSE head
Clash(base, head, other) == head # base /\ other # base /\ head # other

(* Mutant of merge_tree: the branch's model replaces main's. *)
merge_tree_stale(base, head, other) ==
    [units |-> [f \in Files |-> Pick(base.units[f], head.units[f], other.units[f])],
     has_model |-> Pick(base.has_model, head.has_model, other.has_model),
     items |-> head.items]

merge_tree(base, head, other) ==
    [units |-> [f \in Files |-> Pick(base.units[f], head.units[f], other.units[f])],
     has_model |-> Pick(base.has_model, head.has_model, other.has_model),
     items |-> [id \in Ids |-> Pick(base.items[id], head.items[id], other.items[id])]]

conflicts(base, head, other) ==
    \/ \E f \in Files : Clash(base.units[f], head.units[f], other.units[f])
    \/ \E id \in Ids : Clash(base.items[id], head.items[id], other.items[id])
    \/ base.has_model # head.has_model /\ base.items # other.items
    \/ base.has_model # other.has_model /\ base.items # head.items

(* What a pull request does to its base: one file, one item, both, or the  *)
(* removal of the model.                                                   *)
Changes(base) ==
    LET no_items == [id \in Ids |-> NoItem]
        unit_changes == {base.units} \cup
            {[base.units EXCEPT ![f] = u] : f \in Files, u \in Units \cup {NoFile}}
        item_changes == {base.items} \cup
            {[base.items EXCEPT ![id] = i] : id \in Ids, i \in Items \cup {NoItem}}
        models == {[has_model |-> TRUE, items |-> i] : i \in item_changes}
                  \cup {[has_model |-> FALSE, items |-> no_items]}
    IN  {[units |-> u, has_model |-> m.has_model, items |-> m.items] :
             u \in unit_changes, m \in models}

Trees == [units : [Files -> Units \cup {NoFile}], has_model : BOOLEAN,
          items : [Ids -> Items \cup {NoItem}]]

(* Without the file there are no items. *)
Consistent(tree) == ~tree.has_model => _requirements_from_feature_list(tree) = {}

(* The files the gate looks at, and among them those it may refuse.        *)
Scanned == Files \ Excluded
Gated == Scanned \ Allowed

(* A file names a requirement or is exempted with a reason.                *)
Traced(unit) == unit # NoFile => unit.ids # {} \/ unit.exempt = "reason"

(* The ids a file names. *)
Refers(unit) == IF unit = NoFile THEN {} ELSE unit.ids

HasArtifact(item) == item.evidence \/ item.link

(* A requirement has an artifact or a scanned file that names it. *)
Backed(tree, id) ==
    HasArtifact(tree.items[id]) \/ \E f \in Scanned : id \in Refers(tree.units[f])

(* main when the gate is introduced. *)
ASSUME FirstTreeTraced ==
    /\ FirstTree \in Trees /\ Consistent(FirstTree)
    /\ \A f \in Gated :
          /\ Traced(FirstTree.units[f])
          /\ Refers(FirstTree.units[f]) \subseteq
                 _requirements_from_feature_list(FirstTree) \cup WireIds
    /\ \A id \in _requirements_from_feature_list(FirstTree) : Backed(FirstTree, id)

Init ==
    /\ main = FirstTree
    /\ pr = [p \in PRs |-> NoPR]
    /\ opened = 0
    /\ excused = IF _requirements_from_feature_list(FirstTree) = {} THEN {"empty_model"} ELSE {}

Branch(p, head) ==
    /\ pr[p] = NoPR /\ opened < MaxPRs /\ head # main
    /\ pr' = [pr EXCEPT ![p] = [base |-> main, head |-> head, ci |-> "none"]]
    /\ opened' = opened + 1
    /\ UNCHANGED <<main, excused>>

(* main is merged into the branch. *)
Update(p) ==
    /\ pr[p] # NoPR /\ pr[p].base # main
    /\ ~conflicts(pr[p].base, pr[p].head, main)
    /\ pr' = [pr EXCEPT ![p] = [base |-> main,
                                head |-> merge_tree(pr[p].base, pr[p].head, main),
                                ci |-> "none"]]
    /\ UNCHANGED <<main, opened, excused>>

(* The gate runs on the merge of the branch with main. *)
Check(p, git) ==
    /\ pr[p] # NoPR /\ pr[p].ci = "none"
    /\ ~conflicts(pr[p].base, pr[p].head, main)
    /\ LET merged == merge_tree(pr[p].base, pr[p].head, main)
       IN  pr' = [pr EXCEPT ![p].ci = IF ~gate(main, merged, git) THEN "failed"
                                      ELSE IF ~merged.has_model THEN "skipped"
                                      ELSE IF git = "no_diff" THEN "no_diff"
                                      ELSE "passed"]
    /\ UNCHANGED <<main, opened, excused>>

(* An item keeps what the gate compares and loses its only artifact.       *)
Unlinked(old, new) ==
    /\ old # NoItem /\ new # NoItem
    /\ _proj(old) = _proj(new)
    /\ HasArtifact(old) /\ ~HasArtifact(new)

(* Reasons for which main may hold what a later check would refuse. *)
Reasons(old, new, ci) ==
    (IF ci \in {"skipped", "no_diff"} THEN {ci} ELSE {})
    \cup (IF _requirements_from_feature_list(new) = {} THEN {"empty_model"} ELSE {})
    \cup (IF _requirements_from_feature_list(old) \subseteq _requirements_from_feature_list(new)
          THEN {} ELSE {"item_removed"})
    \cup (IF \A f \in Scanned : Refers(old.units[f]) \subseteq Refers(new.units[f])
          THEN {} ELSE {"reference_dropped"})
    \cup (IF \E id \in Ids : Unlinked(old.items[id], new.items[id])
          THEN {"link_removed"} ELSE {})

(* It is merged into main as main is now (strict: false). *)
Merge(p) ==
    /\ pr[p] # NoPR /\ pr[p].ci \in {"passed", "skipped", "no_diff"}
    /\ ~conflicts(pr[p].base, pr[p].head, main)
    /\ LET merged == merge_tree(pr[p].base, pr[p].head, main)
       IN  /\ main' = merged
           /\ excused' = excused \cup Reasons(main, merged, pr[p].ci)
    /\ pr' = [pr EXCEPT ![p] = NoPR]
    /\ UNCHANGED opened

Close(p) ==
    /\ pr[p] # NoPR
    /\ pr' = [pr EXCEPT ![p] = NoPR]
    /\ UNCHANGED <<main, opened, excused>>

Next ==
    \E p \in PRs :
        \/ \E head \in Changes(main) : Branch(p, head)
        \/ Update(p)
        \/ \E git \in GitFaults : Check(p, git)
        \/ Merge(p)
        \/ Close(p)

Spec == Init /\ [][Next]_vars
--------------------------------------------------------------------------------
(*------------------------------ properties ------------------------------*)
PullRequests == [base : Trees, head : Trees,
                 ci : {"none", "failed", "passed", "skipped", "no_diff"}]

(* Every tree is a tree, and a merge that conflicts with nothing leaves no *)
(* items without a model.                                                  *)
TypeOK ==
    /\ main \in Trees /\ Consistent(main)
    /\ pr \in [PRs -> PullRequests \cup {NoPR}]
    /\ opened \in 0 .. MaxPRs
    /\ excused \subseteq {"skipped", "no_diff", "empty_model", "item_removed",
                          "reference_dropped", "link_removed"}

(* REQ-6.3: a gate that looks only at changed files keeps every file it    *)
(* may refuse traced to a requirement or exempted with a reason, though    *)
(* pull requests overlap; unless a run was skipped for want of a model or  *)
(* git diff failed.                                                        *)
ForwardTraced ==
    excused \cap {"skipped", "no_diff"} = {} =>
        \A f \in Gated : Traced(main.units[f])

(* A reference on main in such a file names an item of the model, as long  *)
(* as no pull request removed an item or met an empty model.               *)
NoDangling ==
    excused \cap {"skipped", "no_diff", "empty_model", "item_removed"} = {} =>
        \A f \in Gated :
            Refers(main.units[f]) \subseteq _requirements_from_feature_list(main) \cup WireIds

(* A requirement on main has an artifact or a scanned file that names it,  *)
(* as long as no pull request dropped a reference from a file, or took the *)
(* only link off an item it did not change otherwise: the gate compares    *)
(* neither (orphan_detector.py:423-424).                                   *)
BackwardTraced ==
    excused \cap {"reference_dropped", "link_removed"} = {} =>
        \A id \in _requirements_from_feature_list(main) : Backed(main, id)

(* What a file may be refused for, and whether it names a requirement, as  *)
(* long as it is not under tools/.                                         *)
Offends(tree, f) ==
    /\ f \notin Allowed
    /\ \/ ~Traced(tree.units[f])
       \/ /\ _requirements_from_feature_list(tree) # {}
          /\ ~(Refers(tree.units[f]) \subseteq
                  _requirements_from_feature_list(tree) \cup WireIds)

Names(tree, f) ==
    /\ f \notin Allowed
    /\ Refers(tree.units[f]) \cap _requirements_from_feature_list(tree) # {}

(* Of the files a branch changes, those that only the local check reads    *)
(* (tests, package markers and migrations, evidence_gate.py:326-340) and   *)
(* those that only the gate does: the local check passes over a file that  *)
(* is not UTF-8.                                                           *)
LocalOnly(base, head) ==
    {f \in _get_changed_files(base, head) \cap Excluded :
        head.units[f] # NoFile /\ head.units[f].encoding = "utf-8"}

GateOnly(base, head) ==
    {f \in _get_changed_files(base, head) \ Excluded :
        head.units[f] # NoFile /\ head.units[f].encoding # "utf-8"}

(* The check an agent runs before it pushes and the gate: on a branch off  *)
(* the current main the local one accepts what the gate accepts, also when *)
(* Semgrep cannot run, but for a file that only it reads: that is refused  *)
(* itself, or was the only one to name a requirement.  It refuses what the *)
(* gate refuses, unless it failed open, but for such files and for         *)
(* unproven items that are out of scope.  An old model that cannot be read *)
(* makes both stricter, never laxer.                                       *)
LocalAgrees ==
    \A p \in PRs : pr[p] # NoPR /\ pr[p].base = main /\ pr[p].head.has_model =>
        LET head == pr[p].head
            remote == [git \in {"ok", "no_show"} |-> gate(main, head, git)]
            local_only == LocalOnly(main, head)
            gate_only == GateOnly(main, head)
        IN  /\ remote["no_show"] => remote["ok"]
            /\ \A semgrep \in {"clean", "error"}, orphans \in {"ok", "error"} :
                  LET local == [git \in {"ok", "no_show"} |->
                                    gated_advance(main, head, git, semgrep, orphans)]
                  IN  /\ remote["ok"] =>
                            \/ local["ok"]
                            \/ \E f \in local_only : Offends(head, f)
                            \/ \E f \in gate_only : Names(head, f)
                      /\ local["no_show"] => local["ok"]
                      /\ local["ok"] /\ orphans # "error" =>
                            \/ remote["ok"]
                            \/ \E f \in gate_only : Offends(head, f)
                            \/ \E f \in local_only : Names(head, f)
                            \/ \E id \in _requirements_from_feature_list(head) :
                                  ~head.items[id].in_scope /\ ~HasArtifact(head.items[id])
================================================================================
