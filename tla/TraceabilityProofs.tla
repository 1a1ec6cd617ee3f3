-------------------------- MODULE TraceabilityProofs --------------------------
(***************************************************************************)
(* Proofs about Traceability: for any files, requirements and pull         *)
(* requests, a gate that looks only at what changed keeps all of main      *)
(* traced.                                                                 *)
(***************************************************************************)
EXTENDS Traceability, TLAPS

Open(p) == pr[p] # NoPR

(* The tree a merge of p into main as it is now would give. *)
Merged(p) == merge_tree(pr[p].base, pr[p].head, main)

Known(tree) == _requirements_from_feature_list(tree)

(* Branch, Update, Check and Close leave main alone. *)
TypeInv ==
    /\ TypeOK
    /\ \A p \in PRs : Open(p) => Consistent(pr[p].base) /\ Consistent(pr[p].head)

(* What a checked pull request changes is traced by itself.                *)
ForwardInv ==
    excused \cap {"skipped", "no_diff"} = {} =>
        /\ \A f \in Gated : Traced(main.units[f])
        /\ \A p \in PRs : Open(p) /\ pr[p].ci = "passed" =>
              \A f \in Gated :
                  pr[p].head.units[f] # pr[p].base.units[f] => Traced(pr[p].head.units[f])

(* Its references name items of the tree a merge would give now, unless    *)
(* that merge would remove an item.                                        *)
DanglingInv ==
    excused \cap {"skipped", "no_diff", "empty_model", "item_removed"} = {} =>
        /\ Known(main) # {}
        /\ \A f \in Gated : Refers(main.units[f]) \subseteq Known(main) \cup WireIds
        /\ \A p \in PRs : Open(p) /\ pr[p].ci = "passed" /\ Known(main) \subseteq Known(Merged(p)) =>
              \A f \in Gated :
                  pr[p].head.units[f] # pr[p].base.units[f] =>
                      Refers(pr[p].head.units[f]) \subseteq Known(Merged(p)) \cup WireIds

(* The requirements it adds or changes have an artifact, or a file it      *)
(* changes or one on main that names them, unless it only takes their last *)
(* artifact from them.                                                     *)
Supported(p, id) ==
    \/ HasArtifact(pr[p].head.items[id])
    \/ \E f \in Scanned : /\ pr[p].head.units[f] # pr[p].base.units[f]
                          /\ id \in Refers(pr[p].head.units[f])
    \/ \E f \in Scanned : id \in Refers(main.units[f])

Unlinks(p, id) == Unlinked(pr[p].base.items[id], pr[p].head.items[id])

Mergeable == {"passed", "skipped", "no_diff"}

BackwardInv ==
    excused \cap {"reference_dropped", "link_removed"} = {} =>
        /\ \A id \in Known(main) : Backed(main, id)
        /\ \A p \in PRs : Open(p) /\ pr[p].ci \in Mergeable =>
              \A id \in Known(pr[p].head) :
                  pr[p].head.items[id] # pr[p].base.items[id] =>
                      Supported(p, id) \/ Unlinks(p, id)
--------------------------------------------------------------------------------
(* A three-way merge takes each file and each item from one side.          *)
LEMMA MergeTakes ==
    ASSUME NEW base \in Trees, NEW head \in Trees, NEW other \in Trees
    PROVE  LET m == merge_tree(base, head, other)
           IN  /\ m \in Trees
               /\ m.has_model = Pick(base.has_model, head.has_model, other.has_model)
               /\ \A f \in Files :
                     m.units[f] = Pick(base.units[f], head.units[f], other.units[f])
               /\ \A id \in Ids :
                     m.items[id] = Pick(base.items[id], head.items[id], other.items[id])
<1> DEFINE u == [f \in Files |-> Pick(base.units[f], head.units[f], other.units[f])]
           i == [id \in Ids |-> Pick(base.items[id], head.items[id], other.items[id])]
           h == Pick(base.has_model, head.has_model, other.has_model)
<1>1. u \in [Files -> Units \cup {NoFile}]
  BY DEF Trees, Pick
<1>2. i \in [Ids -> Items \cup {NoItem}]
  BY DEF Trees, Pick
<1>3. h \in BOOLEAN
  BY DEF Trees, Pick
<1>4. merge_tree(base, head, other) = [units |-> u, has_model |-> h, items |-> i]
  BY DEF merge_tree
<1> HIDE DEF u, i, h
<1>5. merge_tree(base, head, other) \in Trees
  BY <1>1, <1>2, <1>3, <1>4 DEF Trees
<1>6. \A f \in Files : u[f] = Pick(base.units[f], head.units[f], other.units[f])
  BY DEF u
<1>7. \A id \in Ids : i[id] = Pick(base.items[id], head.items[id], other.items[id])
  BY DEF i
<1> QED
  BY <1>4, <1>5, <1>6, <1>7 DEF h

(* A merge without a conflict leaves no items without a model: whoever     *)
(* removes the model conflicts with whoever changes an item.               *)
LEMMA MergeConsistent ==
    ASSUME NEW base \in Trees, NEW head \in Trees, NEW other \in Trees,
           Consistent(base), Consistent(head), Consistent(other),
           ~conflicts(base, head, other)
    PROVE  Consistent(merge_tree(base, head, other))
<1> DEFINE m == merge_tree(base, head, other)
<1> SUFFICES ASSUME ~m.has_model, NEW id \in Ids PROVE m.items[id] = NoItem
  BY DEF Consistent, _requirements_from_feature_list
<1>1. m.items[id] = Pick(base.items[id], head.items[id], other.items[id])
  BY MergeTakes
<1>2. ~Pick(base.has_model, head.has_model, other.has_model)
  BY MergeTakes
<1> HIDE DEF m
<1>3. \A tree \in {base, head, other} : ~tree.has_model => tree.items[id] = NoItem
  BY DEF Consistent, _requirements_from_feature_list
<1>4. {base.has_model, head.has_model, other.has_model} \subseteq BOOLEAN
  BY DEF Trees
<1>5. CASE head.has_model = base.has_model
  <2>1. ~other.has_model
    BY <1>2, <1>5 DEF Pick
  <2>2. CASE base.has_model
    <3>1. base.items = head.items
      BY <1>4, <2>1, <2>2 DEF conflicts
    <3> QED
      BY <1>1, <1>3, <2>1, <3>1 DEF Pick
  <2>3. CASE ~base.has_model
    BY <1>1, <1>3, <1>5, <2>1, <2>3 DEF Pick
  <2> QED
    BY <2>2, <2>3
<1>6. CASE head.has_model # base.has_model
  <2>1. ~head.has_model
    BY <1>2, <1>6 DEF Pick
  <2>2. base.items = other.items
    BY <1>6 DEF conflicts
  <2> QED
    BY <1>1, <1>3, <2>1, <2>2 DEF Pick
<1> QED
  BY <1>5, <1>6

(* What a pull request starts as. *)
LEMMA ChangesAreTrees ==
    ASSUME NEW base \in Trees, NEW head \in Changes(base)
    PROVE  head \in Trees /\ Consistent(head)
<1> DEFINE no_items == [id \in Ids |-> NoItem]
           unit_changes == {base.units} \cup
               {[base.units EXCEPT ![f] = u] : f \in Files, u \in Units \cup {NoFile}}
           item_changes == {base.items} \cup
               {[base.items EXCEPT ![id] = i] : id \in Ids, i \in Items \cup {NoItem}}
           models == {[has_model |-> TRUE, items |-> i] : i \in item_changes}
                     \cup {[has_model |-> FALSE, items |-> no_items]}
<1>1. unit_changes \subseteq [Files -> Units \cup {NoFile}]
  BY DEF Trees
<1>2. item_changes \subseteq [Ids -> Items \cup {NoItem}]
  BY DEF Trees
<1>3. \A m \in models : /\ m.has_model \in BOOLEAN
                        /\ m.items \in [Ids -> Items \cup {NoItem}]
                        /\ m.has_model = TRUE \/ m.items = no_items
  <2>1. no_items \in [Ids -> Items \cup {NoItem}]
    OBVIOUS
  <2> HIDE DEF item_changes, no_items
  <2> TAKE m \in models
  <2>2. \/ \E i \in item_changes : m = [has_model |-> TRUE, items |-> i]
        \/ m = [has_model |-> FALSE, items |-> no_items]
    OBVIOUS
  <2>3. m.has_model = TRUE \/ (m.has_model = FALSE /\ m.items = no_items)
    BY <2>2
  <2>4. m.items \in item_changes \/ m.items = no_items
    BY <2>2
  <2>5. m.has_model \in BOOLEAN
    BY <2>3
  <2>6. m.items \in [Ids -> Items \cup {NoItem}]
    BY <1>2, <2>1, <2>4
  <2> QED
    BY <2>3, <2>5, <2>6
<1>4. Changes(base) = {[units |-> u, has_model |-> m.has_model, items |-> m.items] :
                          u \in unit_changes, m \in models}
  BY DEF Changes
<1> HIDE DEF unit_changes, item_changes, models
<1>5. PICK u \in unit_changes, m \in models :
          head = [units |-> u, has_model |-> m.has_model, items |-> m.items]
  BY <1>4
<1>6. head.units = u /\ head.has_model = m.has_model /\ head.items = m.items
  BY <1>5
<1>7. head \in Trees
  <2>1. u \in [Files -> Units \cup {NoFile}]
    BY <1>1
  <2> QED
    BY <1>3, <1>5, <2>1 DEF Trees
<1> HIDE DEF no_items
<1>8. head.has_model = TRUE \/ head.items = no_items
  BY <1>3, <1>6
<1> QED
  BY <1>7, <1>8 DEF Consistent, _requirements_from_feature_list, no_items

(* What a gate that passes has seen. *)
LEMMA GateSees ==
    ASSUME NEW old \in Trees, NEW new \in Trees, NEW git,
           new.has_model, gate(old, new, git)
    PROVE  /\ git # "no_diff" =>
                  \A f \in Gated : new.units[f] # old.units[f] =>
                      /\ Traced(new.units[f])
                      /\ Known(new) # {} =>
                            Refers(new.units[f]) \subseteq Known(new) \cup WireIds
           /\ \A id \in Known(new) :
                  old.items[id] = NoItem \/ _proj(new.items[id]) # _proj(old.items[id]) =>
                      \/ HasArtifact(new.items[id])
                      \/ \E f \in Scanned : /\ new.units[f] # old.units[f]
                                            /\ id \in Refers(new.units[f])
<1> DEFINE changed == IF git = "no_diff" THEN {} ELSE _get_changed_files(old, new)
           files == _filter_forward_units_by_changed(_scan_repo_impl_units(new), changed)
           requirements == IF git = "no_show" \/ ~old.has_model THEN Known(new)
                           ELSE Known(new) \cap _get_model_delta_ids(old, new)
           forward == _forward_pass(new, files, Known(new))
           backward == _backward_pass(new, requirements, forward.referenced)
<1>1. forward.orphans = {} /\ forward.dangling = {} /\ backward = {}
  BY DEF gate, detect_orphans_diff, detect_orphans, Known
<1>2. forward.orphans = {f \in files : /\ new.units[f].ids = {}
                                       /\ new.units[f].exempt # "reason"}
  BY DEF _forward_pass, _impl_unit_req_ids, _impl_unit_is_exempt
<1>3. forward.referenced = UNION {new.units[f].ids : f \in files}
  BY DEF _forward_pass, _impl_unit_req_ids
<1>4. Known(new) # {} =>
          forward.dangling = (UNION {new.units[g].ids : g \in files}) \ (Known(new) \cup WireIds)
  BY DEF _forward_pass, _impl_unit_req_ids
<1>5. backward = {id \in requirements :
                     ~(id \in forward.referenced \/ HasArtifact(new.items[id]))}
  BY DEF _backward_pass, _requirement_has_artifact, HasArtifact
<1>6. files \subseteq {f \in Scanned : new.units[f] # NoFile /\ old.units[f] # new.units[f]}
  BY DEF _filter_forward_units_by_changed, _scan_repo_impl_units, _get_changed_files, Scanned
<1>7. git # "no_diff" => \A f \in Gated :
          new.units[f] # NoFile /\ new.units[f] # old.units[f] => f \in files
  BY DEF _filter_forward_units_by_changed, _scan_repo_impl_units, _get_changed_files,
         Gated, Scanned
<1>8. \A id \in Known(new) :
          old.items[id] = NoItem \/ _proj(new.items[id]) # _proj(old.items[id]) =>
              id \in requirements
  BY DEF _get_model_delta_ids, Known
<1> HIDE DEF changed, files, requirements, forward, backward
<1>9. ASSUME git # "no_diff", NEW f \in Gated, new.units[f] # old.units[f]
      PROVE  /\ Traced(new.units[f])
             /\ Known(new) # {} => Refers(new.units[f]) \subseteq Known(new) \cup WireIds
  <2>1. CASE new.units[f] = NoFile
    BY <2>1 DEF Traced, Refers
  <2>2. CASE new.units[f] # NoFile
    <3>1. f \in files
      BY <1>7, <1>9, <2>2
    <3>2. new.units[f].ids # {} \/ new.units[f].exempt = "reason"
      BY <1>1, <1>2, <3>1
    <3>3. ASSUME Known(new) # {}, NEW id \in new.units[f].ids
          PROVE  id \in Known(new) \cup WireIds
      <4> DEFINE refs == UNION {new.units[g].ids : g \in files}
      <4>1. id \in refs
        BY <3>1, <3>3
      <4>2. refs \ (Known(new) \cup WireIds) = {}
        BY <1>1, <1>4, <3>3
      <4> HIDE DEF refs
      <4> QED
        BY <4>1, <4>2
    <3> QED
      BY <2>2, <3>2, <3>3 DEF Traced, Refers
  <2> QED
    BY <2>1, <2>2
<1>10. ASSUME NEW id \in Known(new),
              old.items[id] = NoItem \/ _proj(new.items[id]) # _proj(old.items[id])
       PROVE  \/ HasArtifact(new.items[id])
              \/ \E f \in Scanned : new.units[f] # old.units[f] /\ id \in Refers(new.units[f])
  BY <1>1, <1>3, <1>5, <1>6, <1>8, <1>10 DEF Refers
<1> QED
  BY <1>9, <1>10
--------------------------------------------------------------------------------
LEMMA PullRequestFields ==
    ASSUME TypeOK, NEW p \in PRs, Open(p)
    PROVE  /\ pr[p] \in PullRequests
           /\ pr[p].base \in Trees /\ pr[p].head \in Trees
BY DEF TypeOK, Open, PullRequests

(* Every action replaces at most the entry of one pull request.            *)
LEMMA OthersKeep ==
    ASSUME TypeOK, NEW p \in PRs, NEW x, pr' = [pr EXCEPT ![p] = x]
    PROVE  /\ pr'[p] = x
           /\ \A q \in PRs : q # p => pr'[q] = pr[q]
BY DEF TypeOK

LEMMA CheckWrites ==
    ASSUME TypeOK, NEW p \in PRs, NEW git, Check(p, git)
    PROVE  /\ pr'[p].base = pr[p].base /\ pr'[p].head = pr[p].head
           /\ \A q \in PRs : q # p => pr'[q] = pr[q]
           /\ pr'[p] \in PullRequests
           /\ pr'[p].ci \in Mergeable => gate(main, Merged(p), git)
           /\ pr'[p].ci = "skipped" => ~Merged(p).has_model
           /\ pr'[p].ci \in {"no_diff", "passed"} => Merged(p).has_model
           /\ pr'[p].ci = "passed" => git # "no_diff"
<1> DEFINE verdict == IF ~gate(main, Merged(p), git) THEN "failed"
                      ELSE IF ~Merged(p).has_model THEN "skipped"
                      ELSE IF git = "no_diff" THEN "no_diff" ELSE "passed"
<1>1. pr' = [pr EXCEPT ![p].ci = verdict]
  BY DEF Check, Merged
<1>2. verdict \in {"failed", "passed", "skipped", "no_diff"}
  OBVIOUS
<1>3. /\ verdict \in Mergeable => gate(main, Merged(p), git)
      /\ verdict = "skipped" => ~Merged(p).has_model
      /\ verdict \in {"no_diff", "passed"} => Merged(p).has_model
      /\ verdict = "passed" => git # "no_diff"
  BY DEF Mergeable
<1> HIDE DEF verdict
<1>4. pr[p] \in PullRequests
  BY PullRequestFields DEF Check, Open
<1>5. /\ pr'[p] = [pr[p] EXCEPT !.ci = verdict]
      /\ \A q \in PRs : q # p => pr'[q] = pr[q]
  BY <1>1 DEF TypeOK
<1>6. /\ pr'[p].base = pr[p].base /\ pr'[p].head = pr[p].head
      /\ pr'[p].ci = verdict /\ pr'[p] \in PullRequests
  BY <1>2, <1>4, <1>5 DEF PullRequests
<1> QED
  BY <1>3, <1>5, <1>6

LEMMA TypeHolds == Spec => []TypeInv
<1>1. Init => TypeInv
  BY FirstTreeTraced, TraceabilityConstants DEF Init, TypeInv, TypeOK, Open
<1>2. TypeInv /\ [Next]_vars => TypeInv'
  <2> SUFFICES ASSUME TypeInv, [Next]_vars PROVE TypeInv'
    OBVIOUS
  <2> USE DEF TypeInv
  <2>0. ASSUME NEW p \in PRs, NEW x \in PullRequests \cup {NoPR}, pr' = [pr EXCEPT ![p] = x],
               x # NoPR => Consistent(x.base) /\ Consistent(x.head)
        PROVE  /\ pr' \in [PRs -> PullRequests \cup {NoPR}]
               /\ \A q \in PRs : pr'[q] # NoPR => /\ Consistent(pr'[q].base)
                                                 /\ Consistent(pr'[q].head)
    BY <2>0, OthersKeep DEF TypeOK, Open
  <2>1. ASSUME NEW p \in PRs, NEW head \in Changes(main), Branch(p, head)
        PROVE  TypeInv'
    <3>1. head \in Trees /\ Consistent(head)
      BY ChangesAreTrees DEF TypeOK
    <3>2. [base |-> main, head |-> head, ci |-> "none"] \in PullRequests
      BY <3>1 DEF TypeOK, PullRequests
    <3>3. opened' \in 0 .. MaxPRs
      BY <2>1, TraceabilityConstants DEF Branch, TypeOK
    <3> QED
      BY <2>0, <2>1, <3>1, <3>2, <3>3 DEF Branch, TypeOK, Open
  <2>2. ASSUME NEW p \in PRs, Update(p)
        PROVE  TypeInv'
    <3>1. Merged(p) \in Trees /\ Consistent(Merged(p))
      BY <2>2, PullRequestFields, MergeTakes, MergeConsistent DEF Update, Merged, Open, TypeOK
    <3>2. [base |-> main, head |-> Merged(p), ci |-> "none"] \in PullRequests
      BY <3>1 DEF TypeOK, PullRequests
    <3> QED
      BY <2>0, <2>2, <3>1, <3>2 DEF Update, TypeOK, Open, Merged
  <2>3. ASSUME NEW p \in PRs, NEW git, Check(p, git)
        PROVE  TypeInv'
    <3>1. pr' \in [PRs -> PullRequests \cup {NoPR}]
      BY <2>3, CheckWrites DEF Check, TypeOK
    <3> QED
      BY <2>3, <3>1, CheckWrites DEF Check, TypeOK, Open
  <2>4. ASSUME NEW p \in PRs, Merge(p)
        PROVE  TypeInv'
    <3>1. Merged(p) \in Trees /\ Consistent(Merged(p))
      BY <2>4, PullRequestFields, MergeTakes, MergeConsistent DEF Merge, Merged, Open, TypeOK
    <3>2. excused' \subseteq {"skipped", "no_diff", "empty_model", "item_removed",
                             "reference_dropped", "link_removed"}
      BY <2>4 DEF Merge, Reasons, TypeOK
    <3> QED
      BY <2>0, <2>4, <3>1, <3>2 DEF Merge, Merged, TypeOK, Open
  <2>5. ASSUME NEW p \in PRs, Close(p)
        PROVE  TypeInv'
    BY <2>0, <2>5 DEF Close, TypeOK, Open
  <2>6. CASE UNCHANGED vars
    BY <2>6 DEF vars, TypeOK, Open
  <2> QED
    BY <2>1, <2>2, <2>3, <2>4, <2>5, <2>6 DEF Next
<1> QED
  BY <1>1, <1>2, PTL DEF Spec

(* Every tree is a tree and has no items without a model: merges that      *)
(* conflict with nothing keep the model and its items together.            *)
THEOREM TypeCorrect == Spec => []TypeOK
BY TypeHolds, PTL DEF TypeInv

--------------------------------------------------------------------------------
(* Of a step on p, the entries it leaves are as before. *)
LEMMA EntryWritten ==
    ASSUME TypeInv, NEW p \in PRs,
           \/ \E head \in Changes(main) : Branch(p, head)
           \/ Update(p) \/ Merge(p) \/ Close(p)
    PROVE  /\ \A q \in PRs : q # p => pr'[q] = pr[q]
           /\ pr'[p] # NoPR => pr'[p].ci = "none"
<1> USE DEF TypeInv
<1>1. CASE \E head \in Changes(main) : Branch(p, head)
  <2>1. PICK head \in Changes(main) : Branch(p, head)
    BY <1>1
  <2> DEFINE new == [base |-> main, head |-> head, ci |-> "none"]
  <2>2. pr' = [pr EXCEPT ![p] = new]
    BY <2>1 DEF Branch
  <2>3. new.ci = "none"
    OBVIOUS
  <2> HIDE DEF new
  <2> QED
    BY <2>2, <2>3, OthersKeep
<1>2. CASE Update(p)
  <2> DEFINE new == [base |-> main, head |-> Merged(p), ci |-> "none"]
  <2>1. pr' = [pr EXCEPT ![p] = new]
    BY <1>2 DEF Update, Merged
  <2>2. new.ci = "none"
    OBVIOUS
  <2> HIDE DEF new
  <2> QED
    BY <2>1, <2>2, OthersKeep
<1>3. CASE Merge(p) \/ Close(p)
  BY <1>3, OthersKeep DEF Merge, Close
<1> QED
  BY <1>1, <1>2, <1>3

(* What main is after a merge, and what it was excused for. *)
LEMMA MergeWrites ==
    ASSUME TypeInv, NEW p \in PRs, Merge(p)
    PROVE  /\ Open(p) /\ pr[p].ci \in Mergeable
           /\ main' = Merged(p) /\ main' \in Trees
           /\ \A f \in Files : main'.units[f] =
                 Pick(pr[p].base.units[f], pr[p].head.units[f], main.units[f])
           /\ \A id \in Ids : main'.items[id] =
                 Pick(pr[p].base.items[id], pr[p].head.items[id], main.items[id])
           /\ excused \subseteq excused'
           /\ pr[p].ci # "passed" => pr[p].ci \in excused'
           /\ Known(main') = {} => "empty_model" \in excused'
           /\ ~(Known(main) \subseteq Known(main')) => "item_removed" \in excused'
           /\ (\E f \in Scanned : ~(Refers(main.units[f]) \subseteq Refers(main'.units[f])))
                 => "reference_dropped" \in excused'
           /\ (\E id \in Ids : Unlinked(main.items[id], main'.items[id]))
                 => "link_removed" \in excused'
           /\ \A id \in Ids :
                 ~Clash(pr[p].base.items[id], pr[p].head.items[id], main.items[id])
<1>1. Open(p) /\ pr[p].ci \in Mergeable
  BY DEF Merge, Open, Mergeable
<1>2. main' = Merged(p) /\ excused' = excused \cup Reasons(main, main', pr[p].ci)
  BY DEF Merge, Merged
<1>3. main \in Trees /\ pr[p].base \in Trees /\ pr[p].head \in Trees
  BY <1>1, PullRequestFields DEF TypeInv, TypeOK
<1>4. /\ main' \in Trees
      /\ \A f \in Files : main'.units[f] =
            Pick(pr[p].base.units[f], pr[p].head.units[f], main.units[f])
      /\ \A id \in Ids : main'.items[id] =
            Pick(pr[p].base.items[id], pr[p].head.items[id], main.items[id])
  BY <1>2, <1>3, MergeTakes DEF Merged
<1>5. /\ excused \subseteq excused'
      /\ pr[p].ci # "passed" => pr[p].ci \in excused'
      /\ Known(main') = {} => "empty_model" \in excused'
      /\ ~(Known(main) \subseteq Known(main')) => "item_removed" \in excused'
      /\ (\E f \in Scanned : ~(Refers(main.units[f]) \subseteq Refers(main'.units[f])))
            => "reference_dropped" \in excused'
      /\ (\E id \in Ids : Unlinked(main.items[id], main'.items[id]))
            => "link_removed" \in excused'
  BY <1>1, <1>2 DEF Reasons, Known, Mergeable
<1>6. \A id \in Ids : ~Clash(pr[p].base.items[id], pr[p].head.items[id], main.items[id])
  BY DEF Merge, conflicts
<1> QED
  BY <1>1, <1>2, <1>4, <1>5, <1>6

LEMMA MainKept ==
    ASSUME NEW p \in PRs,
           \/ \E head \in Changes(main) : Branch(p, head)
           \/ Update(p) \/ (\E git \in GitFaults : Check(p, git)) \/ Close(p)
    PROVE  main' = main /\ excused' = excused
BY DEF Branch, Update, Check, Close

(* The gate has seen what p changes, as the merge would bring it to main.  *)
LEMMA CheckSees ==
    ASSUME TypeInv, NEW p \in PRs, NEW git \in GitFaults, Check(p, git)
    PROVE  LET m == Merged(p)
           IN  /\ m \in Trees /\ Consistent(m)
               /\ \A f \in Files :
                     m.units[f] = Pick(pr[p].base.units[f], pr[p].head.units[f], main.units[f])
               /\ \A id \in Ids :
                     m.items[id] = Pick(pr[p].base.items[id], pr[p].head.items[id], main.items[id])
               /\ \A id \in Ids :
                     ~Clash(pr[p].base.items[id], pr[p].head.items[id], main.items[id])
<1>1. Open(p) /\ ~conflicts(pr[p].base, pr[p].head, main)
  BY DEF Check, Open
<1>4. \A id \in Ids : ~Clash(pr[p].base.items[id], pr[p].head.items[id], main.items[id])
  BY <1>1 DEF conflicts
<1>2. main \in Trees /\ pr[p].base \in Trees /\ pr[p].head \in Trees
  BY <1>1, PullRequestFields DEF TypeInv, TypeOK
<1>3. Consistent(main) /\ Consistent(pr[p].base) /\ Consistent(pr[p].head)
  BY <1>1 DEF TypeInv, TypeOK
<1> QED
  BY <1>1, <1>2, <1>3, <1>4, MergeTakes, MergeConsistent DEF Merged

LEMMA ForwardHolds == Spec => []ForwardInv
<1> DEFINE Spared == excused \cap {"skipped", "no_diff"} = {}
<1>1. Init => ForwardInv
  BY FirstTreeTraced DEF Init, ForwardInv, Open
<1>2. TypeInv /\ ForwardInv /\ [Next]_vars => ForwardInv'
  <2> SUFFICES ASSUME TypeInv, ForwardInv, [Next]_vars, Spared' PROVE ForwardInv'
    BY DEF ForwardInv
  <2>1. ASSUME NEW p \in PRs,
               \/ \E head \in Changes(main) : Branch(p, head)
               \/ Update(p) \/ Close(p)
        PROVE  ForwardInv'
    BY <2>1, EntryWritten, MainKept DEF ForwardInv, Open
  <2>2. ASSUME NEW p \in PRs, NEW git \in GitFaults, Check(p, git)
        PROVE  ForwardInv'
    <3>1. main' = main /\ Spared
      BY <2>2 DEF Check
    <3>2. ASSUME pr'[p].ci = "passed", NEW f \in Gated,
                 pr[p].head.units[f] # pr[p].base.units[f]
          PROVE  Traced(pr[p].head.units[f])
      <4>1. Merged(p).units[f] = pr[p].head.units[f] /\ Merged(p) \in Trees
        BY <2>2, <3>2, CheckSees DEF Pick, Gated, Scanned
      <4>2. Merged(p).has_model /\ gate(main, Merged(p), git) /\ git # "no_diff"
        BY <2>2, <3>2, CheckWrites DEF TypeInv, Mergeable
      <4>3. CASE main.units[f] = pr[p].head.units[f]
        BY <3>1, <4>3 DEF ForwardInv
      <4>4. CASE main.units[f] # pr[p].head.units[f]
        BY <4>1, <4>2, <4>4, GateSees DEF TypeInv, TypeOK
      <4> QED
        BY <4>3, <4>4
    <3> QED
      BY <2>2, <3>1, <3>2, CheckWrites DEF ForwardInv, Open, TypeInv
  <2>3. ASSUME NEW p \in PRs, Merge(p)
        PROVE  ForwardInv'
    <3>1. Spared /\ pr[p].ci = "passed" /\ Open(p)
      BY <2>3, MergeWrites DEF Mergeable
    <3>2. \A f \in Gated : Traced(main'.units[f])
      BY <2>3, <3>1, MergeWrites DEF ForwardInv, Pick, Gated, Scanned
    <3> QED
      BY <2>3, <3>1, <3>2, EntryWritten DEF ForwardInv, Open
  <2>4. CASE UNCHANGED vars
    BY <2>4 DEF vars, ForwardInv, Open
  <2> QED
    BY <2>1, <2>2, <2>3, <2>4 DEF Next
<1> QED
  BY <1>1, <1>2, TypeHolds, PTL DEF Spec

(* A gate that looks only at changed files keeps every file of main it may *)
(* refuse traced, for any number of files and of overlapping pull requests.*)
THEOREM AllForwardTraced == Spec => []ForwardTraced
<1>1. ForwardInv => ForwardTraced
  BY DEF ForwardInv, ForwardTraced
<1> QED
  BY <1>1, ForwardHolds, PTL

--------------------------------------------------------------------------------
(* For any merge, what Pick makes of an item decides whether it is known.  *)
LEMMA KnownAfter ==
    ASSUME TypeInv, NEW p \in PRs, Open(p), NEW id
    PROVE  id \in Known(Merged(p)) <=>
               /\ id \in Ids
               /\ Pick(pr[p].base.items[id], pr[p].head.items[id], main.items[id]) # NoItem
<1>1. main \in Trees /\ pr[p].base \in Trees /\ pr[p].head \in Trees
  BY PullRequestFields DEF TypeInv, TypeOK
<1> QED
  BY <1>1, MergeTakes DEF Merged, Known, _requirements_from_feature_list

LEMMA DanglingHolds == Spec => []DanglingInv
<1> DEFINE Spared ==
               excused \cap {"skipped", "no_diff", "empty_model", "item_removed"} = {}
<1>1. Init => DanglingInv
  BY FirstTreeTraced DEF Init, DanglingInv, Open, Known
<1>2. TypeInv /\ DanglingInv /\ [Next]_vars => DanglingInv'
  <2> SUFFICES ASSUME TypeInv, DanglingInv, [Next]_vars, Spared' PROVE DanglingInv'
    BY DEF DanglingInv
  <2>1. ASSUME NEW p \in PRs,
               \/ \E head \in Changes(main) : Branch(p, head)
               \/ Update(p) \/ Close(p)
        PROVE  DanglingInv'
    BY <2>1, EntryWritten, MainKept DEF DanglingInv, Open, Merged, Known
  <2>2. ASSUME NEW p \in PRs, NEW git \in GitFaults, Check(p, git)
        PROVE  DanglingInv'
    <3>1. main' = main /\ Spared
      BY <2>2 DEF Check
    <3>2. ASSUME pr'[p].ci = "passed", Known(main) \subseteq Known(Merged(p)),
                 NEW f \in Gated,
                 pr[p].head.units[f] # pr[p].base.units[f]
          PROVE  Refers(pr[p].head.units[f]) \subseteq Known(Merged(p)) \cup WireIds
      <4>1. Merged(p).units[f] = pr[p].head.units[f] /\ Merged(p) \in Trees
        BY <2>2, <3>2, CheckSees DEF Pick, Gated, Scanned
      <4>2. Merged(p).has_model /\ gate(main, Merged(p), git) /\ git # "no_diff"
        BY <2>2, <3>2, CheckWrites DEF TypeInv, Mergeable
      <4>3. Known(main) # {} /\ Refers(main.units[f]) \subseteq Known(main) \cup WireIds
        BY <3>1 DEF DanglingInv
      <4>4. CASE main.units[f] = pr[p].head.units[f]
        BY <3>2, <4>3, <4>4
      <4>5. CASE main.units[f] # pr[p].head.units[f]
        <5>1. Known(Merged(p)) # {}
          BY <3>2, <4>3
        <5> QED
          BY <4>1, <4>2, <4>5, <5>1, GateSees DEF TypeInv, TypeOK
      <4> QED
        BY <4>4, <4>5
    <3>3. \A q \in PRs : pr'[q].base = pr[q].base /\ pr'[q].head = pr[q].head
      BY <2>2, CheckWrites DEF TypeInv
    <3>4. \A q \in PRs : Merged(q)' = Merged(q)
      BY <3>1, <3>3 DEF Merged
    <3> QED
      BY <2>2, <3>1, <3>2, <3>3, <3>4, CheckWrites DEF DanglingInv, Open, TypeInv, Known
  <2>3. ASSUME NEW p \in PRs, Merge(p)
        PROVE  DanglingInv'
    <3>1. Spared /\ pr[p].ci = "passed" /\ Open(p)
      BY <2>3, MergeWrites DEF Mergeable
    <3>2. /\ Known(main') # {} /\ Known(main) \subseteq Known(main')
          /\ main' = Merged(p)
      BY <2>3, MergeWrites
    <3>3. \A f \in Gated : Refers(main'.units[f]) \subseteq Known(main') \cup WireIds
      <4> TAKE f \in Gated
      <4>1. main'.units[f] = Pick(pr[p].base.units[f], pr[p].head.units[f], main.units[f])
        BY <2>3, MergeWrites DEF Gated, Scanned
      <4>2. CASE pr[p].head.units[f] = pr[p].base.units[f]
        BY <3>1, <3>2, <4>1, <4>2 DEF DanglingInv, Pick
      <4>3. CASE pr[p].head.units[f] # pr[p].base.units[f]
        BY <3>1, <3>2, <4>1, <4>3 DEF DanglingInv, Pick
      <4> QED
        BY <4>2, <4>3
    <3>4. ASSUME NEW q \in PRs, Open(q)', pr'[q].ci = "passed",
                 Known(main') \subseteq Known(Merged(q)'), NEW f \in Gated,
                 pr'[q].head.units[f] # pr'[q].base.units[f]
          PROVE  Refers(pr'[q].head.units[f]) \subseteq Known(Merged(q)') \cup WireIds
      <4>1. q # p /\ pr'[q] = pr[q] /\ Open(q)
        BY <2>3, <3>4, EntryWritten DEF Open
      <4>2. \A id : id \in Known(Merged(q)') <=>
                /\ id \in Ids
                /\ Pick(pr[q].base.items[id], pr[q].head.items[id], main'.items[id]) # NoItem
        <5>1. pr[q].base \in Trees /\ pr[q].head \in Trees /\ main' \in Trees
          BY <2>3, <4>1, PullRequestFields, MergeWrites DEF TypeInv
        <5> QED
          BY <4>1, <5>1, MergeTakes DEF Merged, Known, _requirements_from_feature_list
      <4>3. \A id \in Known(main) : id \in Ids /\ main.items[id] # NoItem /\ main'.items[id] # NoItem
        BY <3>2 DEF Known, _requirements_from_feature_list
      <4>4. Known(main) \subseteq Known(Merged(q))
        <5> SUFFICES ASSUME NEW id \in Known(main) PROVE id \in Known(Merged(q))
          OBVIOUS
        <5>1. id \in Known(Merged(q)')
          BY <3>2, <3>4
        <5> QED
          BY <4>1, <4>2, <4>3, <5>1, KnownAfter DEF Pick
      <4>5. Known(Merged(q)) \subseteq Known(Merged(q)')
        <5> SUFFICES ASSUME NEW id \in Known(Merged(q)) PROVE id \in Known(Merged(q)')
          OBVIOUS
        <5>1. /\ id \in Ids
              /\ Pick(pr[q].base.items[id], pr[q].head.items[id], main.items[id]) # NoItem
          BY <4>1, KnownAfter
        <5>2. main.items[id] # NoItem => id \in Known(main)
          BY <5>1 DEF Known, _requirements_from_feature_list
        <5> QED
          BY <4>2, <4>3, <5>1, <5>2 DEF Pick
      <4>6. Refers(pr[q].head.units[f]) \subseteq Known(Merged(q)) \cup WireIds
        BY <3>1, <3>4, <4>1, <4>4 DEF DanglingInv
      <4> QED
        BY <4>1, <4>5, <4>6
    <3> QED
      BY <3>2, <3>3, <3>4 DEF DanglingInv, Open, Known
  <2>4. CASE UNCHANGED vars
    BY <2>4 DEF vars, DanglingInv, Open, Merged, Known
  <2> QED
    BY <2>1, <2>2, <2>3, <2>4 DEF Next
<1> QED
  BY <1>1, <1>2, TypeHolds, PTL DEF Spec

(* No file the gate may refuse names a requirement main does not have.    *)
THEOREM NoneDangling == Spec => []NoDangling
<1>1. DanglingInv => NoDangling
  BY DEF DanglingInv, NoDangling, Known
<1> QED
  BY <1>1, DanglingHolds, PTL

--------------------------------------------------------------------------------
LEMMA BackwardHolds == Spec => []BackwardInv
<1> DEFINE Spared == excused \cap {"reference_dropped", "link_removed"} = {}
<1>1. Init => BackwardInv
  BY FirstTreeTraced DEF Init, BackwardInv, Open, Known
<1>2. TypeInv /\ BackwardInv /\ [Next]_vars => BackwardInv'
  <2> SUFFICES ASSUME TypeInv, BackwardInv, [Next]_vars, Spared' PROVE BackwardInv'
    BY DEF BackwardInv
  <2>1. ASSUME NEW p \in PRs,
               \/ \E head \in Changes(main) : Branch(p, head)
               \/ Update(p) \/ Close(p)
        PROVE  BackwardInv'
    <3>1. main' = main /\ Spared
      BY <2>1, MainKept
    <3>2. /\ \A q \in PRs : q # p => pr'[q] = pr[q]
          /\ pr'[p] # NoPR => pr'[p].ci \notin Mergeable
      BY <2>1, EntryWritten DEF Mergeable
    <3>3. \A q \in PRs : \A id : q # p => /\ Supported(q, id)' = Supported(q, id)
                                          /\ Unlinks(q, id)' = Unlinks(q, id)
      BY <3>1, <3>2 DEF Supported, Unlinks
    <3> QED
      BY <3>1, <3>2, <3>3 DEF BackwardInv, Open, Known, Backed
  <2>2. ASSUME NEW p \in PRs, NEW git \in GitFaults, Check(p, git)
        PROVE  BackwardInv'
    <3>1. main' = main /\ Spared
      BY <2>2 DEF Check
    <3>2. ASSUME pr'[p].ci \in Mergeable, NEW id \in Known(pr[p].head),
                 pr[p].head.items[id] # pr[p].base.items[id]
          PROVE  Supported(p, id) \/ Unlinks(p, id)
      <4> DEFINE m == Merged(p)
      <4>1. /\ m \in Trees /\ Consistent(m) /\ id \in Ids
            /\ m.items[id] = pr[p].head.items[id]
            /\ main.items[id] \in {pr[p].base.items[id], m.items[id]}
        BY <2>2, <3>2, CheckSees DEF Pick, Clash, Known, _requirements_from_feature_list
      <4>2. id \in Known(m) /\ m.has_model
        BY <3>2, <4>1 DEF Consistent, Known, _requirements_from_feature_list
      <4>3. gate(main, m, git)
        BY <2>2, <3>2, CheckWrites DEF TypeInv
      <4> HIDE DEF m
      <4>4. CASE main.items[id] = m.items[id]
        <5>1. id \in Known(main)
          BY <4>2, <4>4 DEF Known, _requirements_from_feature_list
        <5>2. Backed(main, id)
          BY <3>1, <5>1 DEF BackwardInv
        <5> QED
          BY <4>1, <4>4, <5>2 DEF Backed, Supported
      <4>5. CASE \/ main.items[id] = NoItem
                 \/ _proj(main.items[id]) # _proj(m.items[id])
        <5>1. \/ HasArtifact(m.items[id])
              \/ \E f \in Scanned : m.units[f] # main.units[f] /\ id \in Refers(m.units[f])
          BY <4>1, <4>2, <4>3, <4>5, GateSees DEF TypeInv, TypeOK
        <5>2. CASE HasArtifact(m.items[id])
          BY <4>1, <5>2 DEF Supported
        <5>3. ASSUME NEW f \in Scanned, m.units[f] # main.units[f], id \in Refers(m.units[f])
              PROVE  Supported(p, id)
          <6>0. f \in Files
            BY DEF Scanned
          <6>1. m.units[f] = Pick(pr[p].base.units[f], pr[p].head.units[f], main.units[f])
            BY <2>2, <6>0, CheckSees DEF m
          <6>2. pr[p].head.units[f] # pr[p].base.units[f] /\ m.units[f] = pr[p].head.units[f]
            BY <5>3, <6>1 DEF Pick
          <6> QED
            BY <5>3, <6>2 DEF Supported
        <5> QED
          BY <5>1, <5>2, <5>3
      <4>6. CASE /\ main.items[id] # m.items[id] /\ main.items[id] # NoItem
                 /\ _proj(main.items[id]) = _proj(m.items[id])
        <5>1. main.items[id] = pr[p].base.items[id] /\ id \in Known(main)
          BY <4>1, <4>6 DEF Known, _requirements_from_feature_list
        <5>2. HasArtifact(main.items[id]) \/ \E f \in Scanned : id \in Refers(main.units[f])
          BY <3>1, <5>1 DEF BackwardInv, Backed
        <5>3. m.items[id] # NoItem
          BY <4>2 DEF Known, _requirements_from_feature_list
        <5> QED
          BY <4>1, <4>6, <5>1, <5>2, <5>3 DEF Supported, Unlinks, Unlinked
      <4> QED
        BY <4>4, <4>5, <4>6
    <3>3. \A q \in PRs : /\ pr'[q].base = pr[q].base /\ pr'[q].head = pr[q].head
                         /\ q # p => pr'[q] = pr[q]
      BY <2>2, CheckWrites DEF TypeInv
    <3>4. \A q \in PRs : \A id : /\ Supported(q, id)' = Supported(q, id)
                                 /\ Unlinks(q, id)' = Unlinks(q, id)
      BY <3>1, <3>3 DEF Supported, Unlinks
    <3> QED
      BY <2>2, <3>1, <3>2, <3>3, <3>4 DEF BackwardInv, Open, Known, Backed, Check
  <2>3. ASSUME NEW p \in PRs, Merge(p)
        PROVE  BackwardInv'
    <3>1. Spared /\ Open(p) /\ pr[p].ci \in Mergeable
      BY <2>3, MergeWrites
    <3>2. \A f \in Scanned : Refers(main.units[f]) \subseteq Refers(main'.units[f])
      BY <2>3, MergeWrites
    <3>3. ASSUME NEW id \in Known(main') PROVE Backed(main, id)' 
      <4>1. /\ id \in Ids /\ main'.items[id] # NoItem
            /\ main'.items[id] =
                  Pick(pr[p].base.items[id], pr[p].head.items[id], main.items[id])
        BY <2>3, MergeWrites DEF Known, _requirements_from_feature_list
      <4>2. CASE pr[p].head.items[id] = pr[p].base.items[id]
        <5>1. main'.items[id] = main.items[id] /\ id \in Known(main)
          BY <4>1, <4>2 DEF Pick, Known, _requirements_from_feature_list
        <5>2. Backed(main, id)
          BY <3>1, <5>1 DEF BackwardInv
        <5> QED
          BY <3>2, <5>1, <5>2 DEF Backed
      <4>3. CASE pr[p].head.items[id] # pr[p].base.items[id]
        <5>1. main'.items[id] = pr[p].head.items[id] /\ id \in Known(pr[p].head)
          BY <4>1, <4>3 DEF Pick, Known, _requirements_from_feature_list
        <5>2. CASE Supported(p, id)
          <6>1. ASSUME NEW f \in Scanned, pr[p].head.units[f] # pr[p].base.units[f]
                PROVE  main'.units[f] = pr[p].head.units[f]
            BY <2>3, <6>1, MergeWrites DEF Pick, Scanned
          <6> QED
            BY <3>2, <5>1, <5>2, <6>1 DEF Backed, Supported
        <5>3. CASE Unlinks(p, id)
          <6>1. ~Unlinked(main.items[id], main'.items[id])
            BY <2>3, <4>1, MergeWrites
          <6>2. main.items[id] = main'.items[id]
            BY <2>3, <4>1, <4>3, <5>1, <5>3, <6>1, MergeWrites DEF Clash, Unlinks
          <6>3. id \in Known(main)
            BY <4>1, <6>2 DEF Known, _requirements_from_feature_list
          <6>4. Backed(main, id)
            BY <3>1, <6>3 DEF BackwardInv
          <6> QED
            BY <3>2, <6>2, <6>4 DEF Backed
        <5> QED
          BY <3>1, <4>3, <5>1, <5>2, <5>3 DEF BackwardInv
      <4> QED
        BY <4>2, <4>3
    <3>4. \A q \in PRs : \A id : Open(q)' /\ pr'[q].ci \in Mergeable =>
              /\ q # p /\ pr'[q] = pr[q] /\ Open(q)
              /\ Supported(q, id) => Supported(q, id)'
              /\ Unlinks(q, id) => Unlinks(q, id)'
      <4> SUFFICES ASSUME NEW q \in PRs, NEW id, Open(q)', pr'[q].ci \in Mergeable
                   PROVE  /\ q # p /\ pr'[q] = pr[q] /\ Open(q)
                          /\ Supported(q, id) => Supported(q, id)'
                          /\ Unlinks(q, id) => Unlinks(q, id)'
        OBVIOUS
      <4>1. q # p /\ pr'[q] = pr[q] /\ Open(q)
        BY <2>3, EntryWritten DEF Open, Mergeable
      <4> QED
        BY <3>2, <4>1 DEF Supported, Unlinks
    <3> QED
      BY <3>1, <3>3, <3>4 DEF BackwardInv, Known
  <2>4. CASE UNCHANGED vars
    BY <2>4 DEF vars, BackwardInv, Open, Known, Backed, Supported, Unlinks
  <2> QED
    BY <2>1, <2>2, <2>3, <2>4 DEF Next
<1> QED
  BY <1>1, <1>2, TypeHolds, PTL DEF Spec

(* Every requirement on main has an artifact or a scanned file that names  *)
(* it, as long as no merge drops a reference or an item's only link.       *)
THEOREM AllBackwardTraced == Spec => []BackwardTraced
<1>1. BackwardInv => BackwardTraced
  BY DEF BackwardInv, BackwardTraced, Known
<1> QED
  BY <1>1, BackwardHolds, PTL

--------------------------------------------------------------------------------
(* What detect_orphans_diff refuses a tree for, file by file and item by   *)
(* item: the units of changed files, and the requirements of the delta.    *)
Examined(units, base, head, git) ==
    _filter_forward_units_by_changed(
        units, IF git = "no_diff" THEN {} ELSE _get_changed_files(base, head))

Looked(base, head, requirements, git) ==
    IF git = "no_show" \/ ~base.has_model THEN requirements
    ELSE requirements \cap _get_model_delta_ids(base, head)

Unreferenced(tree, files, id) ==
    ~HasArtifact(tree.items[id]) /\ \A f \in files : id \notin Refers(tree.units[f])

LEMMA DiffVerdict ==
    ASSUME NEW base, NEW head, NEW requirements, NEW git,
           NEW units, \A f \in units : head.units[f] # NoFile
    PROVE  detect_orphans_diff(units, base, head, requirements, Known(head), git).ok <=>
             /\ \A f \in Examined(units, base, head, git) : ~Offends(head, f)
             /\ \A id \in Looked(base, head, requirements, git) :
                   ~Unreferenced(head, Examined(units, base, head, git), id)
<1> DEFINE files == Examined(units, base, head, git)
           looked == Looked(base, head, requirements, git)
           forward == _forward_pass(head, files, Known(head))
           known == Known(head)
           backward == _backward_pass(head, looked, forward.referenced)
<1>1. detect_orphans_diff(units, base, head, requirements, known, git).ok <=>
          forward.orphans = {} /\ forward.dangling = {} /\ backward = {}
  BY DEF detect_orphans_diff, detect_orphans, Examined, Looked
<1>2. \A f \in files : f \notin Allowed /\ head.units[f] # NoFile
  BY DEF Examined, _filter_forward_units_by_changed
<1> HIDE DEF files, looked
<1>3. forward.orphans = {} <=> \A f \in files : Traced(head.units[f])
  BY <1>2 DEF _forward_pass, _impl_unit_req_ids, _impl_unit_is_exempt, Traced
<1>4. \A f \in files : Refers(head.units[f]) = _impl_unit_req_ids(head.units[f])
  BY <1>2 DEF Refers, _impl_unit_req_ids
<1>5. forward.dangling = {} <=>
          known = {} \/ \A f \in files : Refers(head.units[f]) \subseteq known \cup WireIds
  <2>1. CASE known = {}
    BY <2>1 DEF _forward_pass
  <2>2. CASE known # {}
    <3>1. forward.dangling =
              (UNION {_impl_unit_req_ids(head.units[f]) : f \in files}) \ (known \cup WireIds)
      BY <2>2 DEF _forward_pass
    <3> HIDE DEF forward, known
    <3> QED
      BY <1>4, <2>2, <3>1
  <2> QED
    BY <2>1, <2>2
<1>6. backward = {} <=> \A id \in looked : ~Unreferenced(head, files, id)
  <2>1. \A id : id \in forward.referenced <=> \E f \in files : id \in Refers(head.units[f])
    BY <1>4 DEF _forward_pass
  <2> HIDE DEF forward
  <2> QED
    BY <2>1 DEF _backward_pass, _requirement_has_artifact, Unreferenced, HasArtifact
<1>7. \A f \in files : ~Offends(head, f) <=>
          /\ Traced(head.units[f])
          /\ known = {} \/ Refers(head.units[f]) \subseteq known \cup WireIds
  BY <1>2 DEF Offends, Known
<1> HIDE DEF forward, backward, known
<1> QED
  BY <1>1, <1>3, <1>5, <1>6, <1>7 DEF files, looked, known

(* With the old model unreadable every requirement is looked at, so what   *)
(* passes then passes with it; the files looked at are the same.           *)
LEMMA UnreadableIsStricter ==
    ASSUME NEW base, NEW head, NEW requirements,
           NEW units, \A f \in units : head.units[f] # NoFile,
           detect_orphans_diff(units, base, head, requirements, Known(head), "no_show").ok
    PROVE  detect_orphans_diff(units, base, head, requirements, Known(head), "ok").ok
<1>1. Examined(units, base, head, "ok") = Examined(units, base, head, "no_show")
  BY DEF Examined
<1>2. Looked(base, head, requirements, "ok") \subseteq Looked(base, head, requirements, "no_show")
  BY DEF Looked
<1> QED
  BY <1>1, <1>2, DiffVerdict

(* What the local check looks at: the changed files that decode, and the   *)
(* items in scope if the model changed.                                    *)
LocalUnits(base, head) == _build_impl_units(head, _get_changed_files(base, head))

InScope(base, head) ==
    IF compute_depth_feed(base, head, "ok").model
    THEN {id \in Known(head) : head.items[id].in_scope} ELSE {}

LEMMA LocalVerdict ==
    ASSUME NEW base, NEW head, NEW git \in {"ok", "no_show"}, NEW semgrep \in {"clean", "error"},
           NEW orphans
    PROVE  gated_advance(base, head, git, semgrep, orphans) <=>
             \/ nothing_changed(compute_depth_feed(base, head, "ok"))
             \/ orphans = "error"
             \/ detect_orphans_diff(LocalUnits(base, head), base, head, InScope(base, head),
                                    Known(head), git).ok
<1>1. /\ compute_depth_feed(base, head, git) = compute_depth_feed(base, head, "ok")
      /\ compute_depth_feed(base, head, "ok").files = _get_changed_files(base, head)
  BY DEF compute_depth_feed
<1>2. check_slice_semgrep(compute_depth_feed(base, head, "ok"), semgrep)
  BY DEF check_slice_semgrep
<1> QED
  BY <1>1, <1>2 DEF gated_advance, check_slice_orphans, InScope, Known, LocalUnits

LEMMA GateVerdict ==
    ASSUME NEW base, NEW head, head.has_model, NEW git \in {"ok", "no_show"}
    PROVE  gate(base, head, git) <=>
             detect_orphans_diff(_scan_repo_impl_units(head), base, head, Known(head),
                                 Known(head), git).ok
BY DEF gate, Known

(* The two checks look at the same files but for those only one reads.     *)
LEMMA FilesCompared ==
    ASSUME NEW base, NEW head
    PROVE  LET remote == Examined(_scan_repo_impl_units(head), base, head, "ok")
               local == Examined(LocalUnits(base, head), base, head, "ok")
           IN  /\ local \subseteq remote \cup LocalOnly(base, head)
               /\ remote \subseteq local \cup GateOnly(base, head)
               /\ \A f \in remote \cup local :
                     f \notin Allowed /\ f \in _get_changed_files(base, head)
BY DEF Examined, _filter_forward_units_by_changed, _scan_repo_impl_units, LocalUnits,
       _build_impl_units, LocalOnly, GateOnly, _get_changed_files

(* A file examined by one check and not by the other, that names no        *)
(* requirement, leaves referenced what the others leave referenced.        *)
LEMMA NamersSuffice ==
    ASSUME NEW head, NEW id \in Known(head), NEW here, NEW there, NEW extra,
           here \subseteq there \cup extra,
           \A f \in here : f \notin Allowed,
           \A f \in extra : ~Names(head, f),
           ~Unreferenced(head, here, id)
    PROVE  ~Unreferenced(head, there, id)
BY DEF Unreferenced, Names, Known

(* The check an agent runs before it pushes and the one that guards main   *)
(* agree on a branch of the current main, whatever the branch changes, but *)
(* for files that only one of them reads and for items that are out of     *)
(* scope and without proof.                                                *)
THEOREM LocalGateAgrees == Spec => []LocalAgrees
<1>1. TypeInv => LocalAgrees
  <2> SUFFICES ASSUME TypeInv, NEW p \in PRs, Open(p), pr[p].base = main, pr[p].head.has_model,
                      NEW semgrep \in {"clean", "error"}, NEW orphans \in {"ok", "error"}
               PROVE  LET head == pr[p].head
                          remote(git) == gate(main, head, git)
                          local(git) == gated_advance(main, head, git, semgrep, orphans)
                          local_only == LocalOnly(main, head)
                          gate_only == GateOnly(main, head)
                      IN  /\ remote("no_show") => remote("ok")
                          /\ remote("ok") =>
                               \/ local("ok")
                               \/ \E f \in local_only : Offends(head, f)
                               \/ \E f \in gate_only : Names(head, f)
                          /\ local("no_show") => local("ok")
                          /\ local("ok") /\ orphans # "error" =>
                               \/ remote("ok")
                               \/ \E f \in gate_only : Offends(head, f)
                               \/ \E f \in local_only : Names(head, f)
                               \/ \E id \in Known(head) :
                                     ~head.items[id].in_scope /\ ~HasArtifact(head.items[id])
    BY DEF LocalAgrees, Open, Known
  <2> DEFINE head == pr[p].head
             scanned == _scan_repo_impl_units(head)
             units == LocalUnits(main, head)
             remote(git) ==
                 detect_orphans_diff(scanned, main, head, Known(head), Known(head), git).ok
             local(git) ==
                 detect_orphans_diff(units, main, head, InScope(main, head), Known(head), git).ok
             feed == compute_depth_feed(main, head, "ok")
             ours == Examined(units, main, head, "ok")
             theirs == Examined(scanned, main, head, "ok")
  <2>1. \A git \in {"ok", "no_show"} : gate(main, head, git) <=> remote(git)
    BY GateVerdict
  <2>2. \A git \in {"ok", "no_show"} :
            gated_advance(main, head, git, semgrep, orphans) <=>
                nothing_changed(feed) \/ orphans = "error" \/ local(git)
    BY LocalVerdict
  <2>3. /\ \A f \in scanned : head.units[f] # NoFile
        /\ \A f \in units : head.units[f] # NoFile
    BY DEF _scan_repo_impl_units, LocalUnits, _build_impl_units
  <2>4. /\ remote("ok") <=>
             /\ \A f \in theirs : ~Offends(head, f)
             /\ \A id \in Looked(main, head, Known(head), "ok") : ~Unreferenced(head, theirs, id)
        /\ local("ok") <=>
             /\ \A f \in ours : ~Offends(head, f)
             /\ \A id \in Looked(main, head, InScope(main, head), "ok") :
                   ~Unreferenced(head, ours, id)
    BY <2>3, DiffVerdict
  <2>5. /\ ours \subseteq theirs \cup LocalOnly(main, head)
        /\ theirs \subseteq ours \cup GateOnly(main, head)
        /\ \A f \in theirs \cup ours : f \notin Allowed /\ f \in _get_changed_files(main, head)
    BY FilesCompared
  <2>6. /\ Looked(main, head, InScope(main, head), "ok") \subseteq
               Looked(main, head, Known(head), "ok")
        /\ Looked(main, head, Known(head), "ok") \subseteq Known(head)
    BY DEF Looked, InScope
  <2>7. nothing_changed(feed) => remote("ok")
    <3> SUFFICES ASSUME nothing_changed(feed) PROVE remote("ok")
      OBVIOUS
    <3>1. /\ main.has_model = head.has_model /\ main.items = head.items
          /\ _get_changed_files(main, head) = {}
      BY DEF nothing_changed, compute_depth_feed
    <3>2. theirs = {}
      BY <2>5, <3>1
    <3>3. Looked(main, head, Known(head), "ok") = {}
      BY <3>1 DEF Looked, _get_model_delta_ids, Known, _requirements_from_feature_list
    <3> QED
      BY <2>4, <3>2, <3>3
  <2>8. remote("no_show") => remote("ok")
    BY <2>3, UnreadableIsStricter
  <2>9. local("no_show") => local("ok")
    BY <2>3, UnreadableIsStricter
  <2>10. ASSUME \A id \in Known(head) : head.items[id].in_scope \/ HasArtifact(head.items[id]),
                NEW id \in Looked(main, head, Known(head), "ok"), ~HasArtifact(head.items[id])
         PROVE  id \in Looked(main, head, InScope(main, head), "ok")
    <3>1. id \in Known(head) /\ head.items[id].in_scope
      BY <2>6, <2>10
    <3>2. main.has_model # head.has_model \/ main.items # head.items
      BY <2>10 DEF Looked, _get_model_delta_ids, Known, _requirements_from_feature_list
    <3>3. compute_depth_feed(main, head, "ok").model
      BY <3>2 DEF compute_depth_feed
    <3> QED
      BY <2>10, <3>1, <3>3 DEF Looked, InScope
  <2> HIDE DEF head, remote, local, feed, ours, theirs, scanned, units
  <2>11. ASSUME remote("ok"), \A f \in LocalOnly(main, head) : ~Offends(head, f),
                \A f \in GateOnly(main, head) : ~Names(head, f)
         PROVE  local("ok")
    <3>1. \A f \in ours : ~Offends(head, f)
      BY <2>4, <2>5, <2>11
    <3>2. \A id \in Looked(main, head, Known(head), "ok") : ~Unreferenced(head, ours, id)
      BY <2>4, <2>5, <2>6, <2>11, NamersSuffice
    <3> QED
      BY <2>4, <2>6, <3>1, <3>2
  <2>12. ASSUME local("ok"), \A f \in GateOnly(main, head) : ~Offends(head, f),
                \A f \in LocalOnly(main, head) : ~Names(head, f),
                \A id \in Known(head) : head.items[id].in_scope \/ HasArtifact(head.items[id])
         PROVE  remote("ok")
    <3>1. \A f \in theirs : ~Offends(head, f)
      BY <2>4, <2>5, <2>12
    <3>2. ASSUME NEW id \in Looked(main, head, Known(head), "ok"), ~HasArtifact(head.items[id])
          PROVE  ~Unreferenced(head, theirs, id)
      <4>1. id \in Looked(main, head, InScope(main, head), "ok") /\ id \in Known(head)
        BY <2>6, <2>10, <2>12, <3>2
      <4>2. ~Unreferenced(head, ours, id)
        BY <2>4, <2>12, <4>1
      <4> QED
        BY <2>5, <2>12, <4>1, <4>2, NamersSuffice
    <3>3. \A id \in Looked(main, head, Known(head), "ok") : ~Unreferenced(head, theirs, id)
      BY <3>2 DEF Unreferenced
    <3> QED
      BY <2>4, <3>1, <3>3
  <2> QED
    BY <2>1, <2>2, <2>7, <2>8, <2>9, <2>11, <2>12 DEF head
<1> QED
  BY <1>1, TypeHolds, PTL
================================================================================
