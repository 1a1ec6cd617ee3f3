----------------------------- MODULE CoverageLedger -----------------------------
(***************************************************************************)
(* feature_list.json, read and rewritten as a whole by processes that do   *)
(* not lock it (wiring_ingest.py, prove_trivial_slice.py, the verifier     *)
(* agents), and the pull request that carries it past the CI check and the *)
(* merge gate.  A writer takes a step when it reads the file and another   *)
(* when it replaces it; a text write that is not a rename has a moment in  *)
(* which the file does not parse.                                          *)
(***************************************************************************)
EXTENDS MergeGates, WiringAnalysis

CONSTANTS
    Procs,          \* processes that write the file
    CodeBases,      \* the revisions of the source tree, sequences of files
    FirstCode,
    SlicedId,       \* the item prove_trivial_slice proves: HOME-RND-001
    MaxId,          \* the last number a three-digit id can hold (999)
    Semgrep,        \* Semgrep's candidates: [qualname, status] records
    Verifier, Implementer,   \* sessions in the dispatch ledger
    Forged,         \* evidence records nobody collected
    PRs,            \* the baseline and the ledger the gates are given
    MaxEdits,       \* bound: revisions of the source tree
    MaxWrites       \* bound: started rewrites of the file

IsSeq(s) == s \in Seq(ToSet(s))

(* Lists are lists, None is no record, and what is written where a session *)
(* belongs is a session or nothing.                                        *)
ASSUME LedgerConstants ==
    /\ FirstCode \in CodeBases
    /\ \A c \in CodeBases : IsSeq(c) /\ \A n \in DOMAIN c : IsSeq(c[n].defs)
    /\ IsSeq(Semgrep)
    /\ {Verifier, Implementer} \subseteq RawSessions
    /\ \A c \in Contents : collect(c, c, "integration", Verifier, Implementer) # None
    /\ \A e \in Forged :
          {e.verifier_session_id, e.implementer_session_id} \subseteq RawSessions \cup {None}
    /\ {MaxEdits, MaxWrites} \subseteq Nat

VARIABLES
    code,            \* the source tree
    feature_list,    \* the file: [kind, items]
    captured,        \* artifact file -> content, or None
    work,            \* the rewrite each process is in, or None
    pr,              \* the pull request at the gates, or None
    edits, writes,
    stale,           \* history: a rewrite replaced a file it had not read
    written, proved  \* history: qualnames ever in the file, ever proven there

vars == <<code, feature_list, captured, work, pr, edits, writes, stale, written, proved>>
--------------------------------------------------------------------------------
Model(items) == [kind |-> "model", items |-> items]
Unreadable == [kind |-> "unreadable", items |-> <<>>]

(* init_feature_list with one functional item, normalized: of the defaults *)
(* it fills in, only the missing evidence matters here.                    *)
normalize_item(c) ==
    [f \in DOMAIN c \cup {"evidence"} |-> IF f \in DOMAIN c THEN c[f] ELSE None]

init_feature_list ==
    Model(<<normalize_item([id |-> SlicedId, type |-> "functional", status |-> "unproven",
                            in_scope |-> "True", qualname |-> None, file |-> None,
                            reachable |-> None])>>)

(* validate_against_schema; ids need not be unique for it. *)
schema_valid_item(item) ==
    /\ item.id <= MaxId
    /\ item.in_scope \in {"True", "False"}
    /\ item.status = "proven" => item.evidence # None
    /\ item.evidence # None => validate_evidence_record(item.evidence)
    /\ item.type = "WIRING" /\ item.status = "proven" =>
           item.evidence.evidence_kind = "integration"

validate_against_schema(items) == \A n \in DOMAIN items : schema_valid_item(items[n])

Init ==
    /\ code = FirstCode
    /\ feature_list = init_feature_list
    /\ captured = [f \in Contents |-> None]
    /\ work = [p \in Procs |-> None]
    /\ pr = None
    /\ edits = 0 /\ writes = 0
    /\ stale = FALSE
    /\ written = {} /\ proved = {}

(* A developer commits another revision. *)
EditCode(c) ==
    /\ edits < MaxEdits /\ edits' = edits + 1
    /\ c # code /\ code' = c
    /\ UNCHANGED <<feature_list, captured, work, pr, writes, stale, written, proved>>

(*--------------------------- rewrites of the file ----------------------*)
(* A process has read the file and knows what it will write. *)
Begin(p, op, items) ==
    /\ work[p] = None /\ pr = None
    /\ writes < MaxWrites /\ writes' = writes + 1
    /\ work' = [work EXCEPT ![p] = [op |-> op, read |-> feature_list, next |-> items]]

(* The WIRING candidates of a revision: the checker's, or their union with *)
(* Semgrep's findings.                                                     *)
Candidates(union) ==
    LET ast == emit_wiring_items(analyze(code))
    IN  IF union THEN merge(ast, Semgrep) ELSE ast

(* ingest_wiring_candidates: nothing is written if the file cannot be read,*)
(* nothing is new, or the grown model is not schema-valid.                 *)
Ingest(p, union) ==
    /\ feature_list.kind = "model"
    /\ LET new == _select_new_candidates(Candidates(union), feature_list.items)
           items == feature_list.items \o [n \in DOMAIN new |-> normalize_item(new[n])]
       IN  /\ new # <<>>
           /\ validate_against_schema(items)
           /\ Begin(p, "replace", items)
    /\ UNCHANGED <<code, feature_list, captured, pr, edits, stale, written, proved>>

(* Mutant of marked_failed: a proven item fails too. *)
marked_failed_any(items, unreachable) ==
    [n \in DOMAIN items |->
        IF /\ items[n].type = "WIRING"
           /\ items[n].reachable = FALSE
           /\ items[n].qualname \in unreachable
        THEN [items[n] EXCEPT !.status = "failed"] ELSE items[n]]

marked_failed(items, unreachable) ==
    [n \in DOMAIN items |->
        IF /\ items[n].type = "WIRING"
           /\ items[n].status = "unproven"
           /\ items[n].reachable = FALSE
           /\ items[n].qualname \in unreachable
        THEN [items[n] EXCEPT !.status = "failed"] ELSE items[n]]

(* mark_wiring_failed with the dead code of the revision at hand. *)
MarkWiringFailed(p) ==
    /\ feature_list.kind = "model"
    /\ LET items == marked_failed(feature_list.items, dead_code(code))
       IN  items # feature_list.items /\ Begin(p, "replace", items)
    /\ UNCHANGED <<code, feature_list, captured, pr, edits, stale, written, proved>>

(* prove_trivial_slice: the artifact, the record, the checks, and the      *)
(* status of every item with the id.                                       *)
ProveSlice(p, content) ==
    /\ feature_list.kind = "model"
    /\ assert_transition("unproven", "proven")
    /\ assert_field_authority("status", VERIFIER_ROLE, FALSE)
    /\ LET record == collect(content, content, "integration", Verifier, Implementer)
           old == feature_list.items
       IN  Begin(p, "text", [n \in DOMAIN old |->
               IF old[n].id = SlicedId
               THEN [old[n] EXCEPT !.status = "proven", !.evidence = record] ELSE old[n]])
    /\ captured' = [captured EXCEPT ![content] = content]
    /\ UNCHANGED <<code, feature_list, pr, edits, stale, written, proved>>

(* A verifier agent proves one unproven WIRING item. *)
VerifierProves(p, n, content) ==
    /\ feature_list.kind = "model" /\ n \in DOMAIN feature_list.items
    /\ feature_list.items[n].type = "WIRING"
    /\ assert_transition(feature_list.items[n].status, "proven")
    /\ Begin(p, "text",
             [feature_list.items EXCEPT ![n].status = "proven",
                 ![n].evidence = collect(content, content, "integration",
                                         Verifier, Implementer)])
    /\ captured' = [captured EXCEPT ![content] = content]
    /\ UNCHANGED <<code, feature_list, pr, edits, stale, written, proved>>

(* write_text has truncated the file. *)
Truncate(p) ==
    /\ work[p] # None /\ work[p].op = "text" /\ pr = None
    /\ feature_list' = Unreadable
    /\ stale' = (stale \/ feature_list # work[p].read)
    /\ work' = [work EXCEPT ![p].op = "truncated", ![p].read = Unreadable]
    /\ UNCHANGED <<code, captured, pr, edits, writes, written, proved>>

(* The new text is in place, by rename or at the end of write_text. *)
Finish(p) ==
    /\ work[p] # None /\ work[p].op \in {"replace", "truncated"} /\ pr = None
    /\ feature_list' = Model(work[p].next)
    /\ stale' = (stale \/ feature_list # work[p].read)
    /\ written' = written \cup {i.qualname : i \in ToSet(work[p].next)}
    /\ proved' = proved \cup {i.qualname : i \in {j \in ToSet(work[p].next) : j.status = "proven"}}
    /\ work' = [work EXCEPT ![p] = None]
    /\ UNCHANGED <<code, captured, pr, edits, writes>>

(* The process dies: a temporary file is left over, or a truncated model. *)
Die(p) ==
    /\ work[p] # None /\ pr = None
    /\ work' = [work EXCEPT ![p] = None]
    /\ UNCHANGED <<code, feature_list, captured, pr, edits, writes, stale, written, proved>>

(*------------------------------ the pull request -----------------------*)
(* What the payload may carry: the model, the model after an agent changed *)
(* one item or appended a copy of one, or no model.                        *)
Payloads ==
    LET items == feature_list.items
        changes(i) == {[i EXCEPT !.in_scope = s] : s \in {"False", "truthy"}}
                      \cup {[i EXCEPT !.status = "proven", !.evidence = e] : e \in Forged}
    IN  {feature_list, [kind |-> "absent", items |-> <<>>], Model(Append(items, Junk))}
        \cup (UNION {{Model([items EXCEPT ![n] = c]) : c \in changes(items[n])} :
                        n \in DOMAIN items})
        \cup {Model(Append([items EXCEPT ![n].in_scope = "False"], items[n])) :
                 n \in DOMAIN items}

(* It is opened at a quiet moment: what the file and the artifacts hold at *)
(* a busy one they also hold after the writers died.  Nothing follows it.  *)
OpenPR(doc, rest) ==
    /\ pr = None /\ \A p \in Procs : work[p] = None
    /\ pr' = [doc |-> doc, baseline |-> rest.baseline, ledger |-> rest.ledger]
    /\ UNCHANGED <<code, feature_list, captured, work, edits, writes, stale, written, proved>>
Next ==
    \/ \E c \in CodeBases : EditCode(c)
    \/ \E p \in Procs :
          \/ \E union \in BOOLEAN : Ingest(p, union)
          \/ MarkWiringFailed(p)
          \/ \E content \in Contents :
                \/ ProveSlice(p, content)
                \/ \E n \in DOMAIN feature_list.items : VerifierProves(p, n, content)
          \/ Truncate(p)
          \/ Finish(p)
          \/ Die(p)
    \/ \E doc \in Payloads, rest \in PRs : OpenPR(doc, rest)

Spec == Init /\ [][Next]_vars
--------------------------------------------------------------------------------
(*------------------------------ properties ------------------------------*)
Evidences ==
    {collect(c, c, "integration", Verifier, Implementer) : c \in Contents} \cup {None}

(* The file is a list of items of the three statuses, whatever the writers *)
(* interrupt; what they collect is complete evidence.                      *)
TypeOK ==
    /\ code \in CodeBases
    /\ feature_list.kind \in {"model", "unreadable"}
    /\ \A item \in ToSet(feature_list.items) :
          /\ item.status \in {"unproven", "proven", "failed"}
          /\ item.evidence \in Evidences
          /\ item.status = "proven" <=> item.evidence # None
    /\ \A c \in Contents : captured[c] \in {None, c}
    /\ \A p \in Procs : work[p] # None => work[p].op \in {"replace", "text", "truncated"}
    /\ stale \in BOOLEAN
    /\ edits \in 0 .. MaxEdits /\ writes \in 0 .. MaxWrites

(* wiring_ingest: as long as no rewrite replaced a file it had not read,   *)
(* an obligation that once entered the model is in it exactly once,        *)
(* whatever revisions of the code are analysed again, and a proven one     *)
(* stays proven.                                                           *)
LedgerKept ==
    ~stale /\ feature_list.kind = "model" =>
        LET items == feature_list.items
        IN  /\ \A q \in written :
                  Cardinality({n \in DOMAIN items : items[n].qualname = q}) = 1
            /\ \A n \in DOMAIN items :
                  items[n].qualname \in proved => items[n].status = "proven"

(* The two merge checks together, either of which is skipped without a     *)
(* model: under a baseline with ids, a pull request that passes both       *)
(* carries every one of them, in scope, and with a dispatch ledger each is *)
(* proven by evidence whose hash is that of captured output and whose two  *)
(* sessions are distinct and dispatched.                                   *)
MergeSound ==
    /\ pr # None
    /\ ci_run(pr.doc, pr.ledger, captured, pr.baseline)
    /\ python_gate(pr.doc)
    /\ pr.baseline.kind = "ids" /\ pr.baseline.ids # {}
    =>
    \A rid \in pr.baseline.ids :
        \E n \in DOMAIN pr.doc.items :
            LET item == pr.doc.items[n]
                ev == item.evidence
            IN  /\ item.id = rid /\ _first_occurrence(pr.doc.items, n)
                /\ item.in_scope # "False"
                /\ pr.ledger # None =>
                      /\ item.status = "proven" /\ ev.form = "valid"
                      /\ ev.output_hash \in {captured[c] : c \in Contents}
                      /\ Norm[ev.verifier_session_id] # Norm[ev.implementer_session_id]
                      /\ {ev.verifier_session_id, ev.implementer_session_id} \subseteq
                            {s \in RawSessions : Norm[s] \in {Norm[t] : t \in pr.ledger}}
                /\ item.in_scope = "True" =>
                      /\ item.status = "proven"
                      /\ item.type = "WIRING" => ev.evidence_kind = "integration"

(* The gates do not contradict each other: a model the evidence gate       *)
(* accepts is merged if its wiring evidence is of the integration kind and *)
(* something is in scope; one that is merged tells Conftest nothing        *)
(* missing and is complete, if every scope is a Boolean and every element  *)
(* an object.  There they do contradict each other: with an element that   *)
(* is not one deny_merge may accept (it passes over it, coverage_gate.py:  *)
(* 209-211), while the completion query and the Conftest input raise.      *)
GatesAgree ==
    pr # None /\ pr.doc.kind = "model" =>
        LET items == pr.doc.items
            objects == {items[n] : n \in DOMAIN items} \ {Junk}
        IN  /\ /\ Junk \notin ToSet(items)
               /\ pr.ledger # None
               /\ check_model(pr.doc, pr.ledger, ci_artifacts(items, captured))
               /\ \E i \in objects : i.in_scope = "True"
               /\ \A i \in objects : i.type = "WIRING" /\ i.evidence # None =>
                                         i.evidence.evidence_kind = "integration"
               => ~deny_merge(pr.doc)
            /\ ~deny_merge(pr.doc) /\ (\A i \in objects : i.in_scope # "truthy") =>
                  \/ /\ is_complete(items)
                     /\ build_opa_input(pr.doc) =
                            [unproven_in_scope |-> {}, missing_evidence |-> {}]
                  \/ /\ Junk \in ToSet(items)
                     /\ ~is_complete(items)
                     /\ build_opa_input(pr.doc) = Raises

(* ingest_wiring_candidates, "A candidate whose id already exists is       *)
(* skipped": no two items of the file have one id.                         *)
UniqueIds ==
    \A m, n \in DOMAIN feature_list.items :
        m # n => feature_list.items[m].id # feature_list.items[n].id
================================================================================
