----------------------------- MODULE EvidenceStore -----------------------------
(***************************************************************************)
(* tools/store.py: requirements, coverage_items, evidence_records and      *)
(* run_state in one sqlite file, written by several processes.  Every      *)
(* write opens a transaction and the commit() after it ends it, so one     *)
(* call is a series of one-statement transactions: an action per commit.   *)
(* Between two commits another writer may commit, and a statement may fail *)
(* (locked, disk, a killed process): the call ends there and what it has   *)
(* committed stays.  A call a check refuses changes nothing: no action.    *)
(***************************************************************************)
EXTENDS Naturals, Sequences, FiniteSets

CONSTANTS
    Items,            \* requirement ids
    Writers,          \* processes with a Store on the file
    Sessions,         \* run_state keys
    Hashes,           \* complete Evidence_Records, told apart by output_hash
    Partial,          \* an Evidence_Record validate_evidence_record refuses
    Routings,         \* type, priority, ears and provenance of a requirement
    DefaultRouting,   \* the keyword defaults of upsert_requirement
    None,
    StoreError,       \* the exception of an ambiguous read
    MaxRows,          \* bound: evidence rows
    MaxFaults         \* bound: calls cut short

ASSUME StoreConstants ==
    /\ DefaultRouting \in Routings
    /\ None \notin Hashes \cup Items \cup Routings
    /\ Partial \notin Hashes
    /\ {MaxRows, MaxFaults} \subseteq Nat

VARIABLES
    requirements,     \* routing of a row, or None
    coverage_items,   \* [status, in_scope] of a row, or None
    evidence_records, \* the rows in id order
    run_state,        \* [status, current_item_id] of a row, or None
    calls,            \* the write call each process is in, or None
    stated,           \* history: routing a caller last stated for the item
    torn,             \* history: items a proven upsert was cut short on
    faults

tables == <<requirements, coverage_items, evidence_records, run_state>>
vars == <<tables, calls, stated, torn, faults>>
--------------------------------------------------------------------------------
COVERAGE_STATUSES == {"unproven", "proven", "failed"}
RUN_STATE_STATUSES == {"running", "complete", "handoff", "blocked"}

_ALLOWED_TRANSITIONS ==
    {<<"unproven", "proven">>, <<"unproven", "failed">>,
     <<"failed", "unproven">>, <<"proven", "unproven">>}

validate_evidence_record(record) == record \in Hashes

Init ==
    /\ requirements = [i \in Items |-> None]
    /\ coverage_items = [i \in Items |-> None]
    /\ evidence_records = <<>>
    /\ run_state = [s \in Sessions |-> None]
    /\ calls = [w \in Writers |-> None]
    /\ stated = [i \in Items |-> None]
    /\ torn = {}
    /\ faults = 0

(*------------------------------- the reads -----------------------------*)
_current_status(i) ==
    IF coverage_items[i] = None THEN None ELSE coverage_items[i].status

(* The ids of its rows, and the record of the last one. *)
get_evidence(i) == {n \in DOMAIN evidence_records : evidence_records[n].item = i}

_latest_evidence(i) ==
    LET rows == get_evidence(i)
    IN  IF rows = {} THEN None
        ELSE evidence_records[CHOOSE n \in rows : \A m \in rows : m <= n].hash

(* The join of coverage with requirements, the last evidence row added. *)
get_coverage ==
    {[id |-> i, status |-> coverage_items[i].status, in_scope |-> coverage_items[i].in_scope,
      routing |-> requirements[i], evidence |-> _latest_evidence(i)] :
        i \in {j \in Items : coverage_items[j] # None /\ requirements[j] # None}}

query_uncovered == {item \in get_coverage : item.in_scope /\ item.status # "proven"}

(* Without a session: the only row, and an error if there are several. *)
load_run_state(session) ==
    IF session # None THEN run_state[session]
    ELSE LET rows == {s \in Sessions : run_state[s] # None}
         IN  IF rows = {} THEN None
             ELSE IF Cardinality(rows) > 1 THEN StoreError
             ELSE run_state[CHOOSE s \in rows : TRUE]

(*------------------------------- the writes ----------------------------*)
Call(op, pc, i, status, scope, hash) ==
    [op |-> op, pc |-> pc, item |-> i, status |-> status, in_scope |-> scope,
     hash |-> hash, raced |-> FALSE]

(* A commit of w to the coverage row of i; calls in progress on i that     *)
(* have read the row before are marked.                                    *)
WriteCoverage(w, i, row, next) ==
    /\ coverage_items' = [coverage_items EXCEPT ![i] = row]
    /\ calls' = [v \in Writers |->
                    IF v = w THEN next
                    ELSE IF calls[v] # None /\ calls[v].item = i
                         THEN [calls[v] EXCEPT !.raced = TRUE] ELSE calls[v]]

Goto(w, pc) == calls' = [calls EXCEPT ![w].pc = pc]

(* Mutant of UpsertCoverageItem: the four-field gate is left out. *)
UpsertUngated(w, i, status, scope, routing, evidence) ==
    /\ calls[w] = None
    /\ requirements' = [requirements EXCEPT ![i] = routing]
    /\ stated' = [stated EXCEPT ![i] = routing]
    /\ calls' = [calls EXCEPT ![w] = Call("upsert", "coverage", i, status, scope,
                                          IF status = "proven" THEN evidence ELSE None)]
    /\ UNCHANGED <<coverage_items, evidence_records, run_state, torn, faults>>

(* upsert_coverage_item: the proven gate, then the first commit, the       *)
(* requirement with the item's routing fields.                             *)
UpsertCoverageItem(w, i, status, scope, routing, evidence) ==
    /\ calls[w] = None
    /\ status = "proven" => validate_evidence_record(evidence)
    /\ requirements' = [requirements EXCEPT ![i] = routing]
    /\ stated' = [stated EXCEPT ![i] = routing]
    /\ calls' = [calls EXCEPT ![w] = Call("upsert", "coverage", i, status, scope,
                                          IF status = "proven" THEN evidence ELSE None)]
    /\ UNCHANGED <<coverage_items, evidence_records, run_state, torn, faults>>

(* Mutant of UpsertCoverageRow: the proof row is left to store_evidence. *)
UpsertRowOnly(w) ==
    /\ calls[w] # None /\ calls[w].pc = "coverage"
    /\ WriteCoverage(w, calls[w].item,
           [status |-> calls[w].status, in_scope |-> calls[w].in_scope], None)
    /\ UNCHANGED <<requirements, evidence_records, run_state, stated, torn, faults>>

(* Its second commit: the coverage row, whatever status it had.  A proven  *)
(* item goes on to _store_evidence_row.                                    *)
UpsertCoverageRow(w) ==
    /\ calls[w] # None /\ calls[w].pc = "coverage"
    /\ LET c == calls[w]
       IN  WriteCoverage(w, c.item, [status |-> c.status, in_scope |-> c.in_scope],
                IF c.status = "proven"
                THEN [c EXCEPT !.pc = "parent"] ELSE None)
    /\ UNCHANGED <<requirements, evidence_records, run_state, stated, torn, faults>>

(* Mutant of StoreEvidence: a failed item may be proven as it stands. *)
StoreEvidenceAnyStatus(w, i, record, flip_to_proven) ==
    /\ calls[w] = None
    /\ validate_evidence_record(record)
    /\ calls' = [calls EXCEPT ![w] =
                    Call(IF flip_to_proven THEN "prove" ELSE "record", "parent", i,
                         "proven", TRUE, record)]
    /\ UNCHANGED <<tables, stated, torn, faults>>

(* store_evidence: the checks on the record and on the status the row has  *)
(* now; an item without a row counts as unproven.                          *)
StoreEvidence(w, i, record, flip_to_proven) ==
    /\ calls[w] = None
    /\ validate_evidence_record(record)
    /\ LET current == _current_status(i)
           origin == IF current = None THEN "unproven" ELSE current
       IN  flip_to_proven => <<origin, "proven">> \in _ALLOWED_TRANSITIONS
    /\ calls' = [calls EXCEPT ![w] =
                    Call(IF flip_to_proven THEN "prove" ELSE "record", "parent", i,
                         "proven", TRUE, record)]
    /\ UNCHANGED <<tables, stated, torn, faults>>

(* _store_evidence_row, first commit: upsert_requirement(requirement_id),  *)
(* every other field at its default.                                       *)
EvidenceParent(w) ==
    /\ calls[w] # None /\ calls[w].pc = "parent"
    /\ requirements' = [requirements EXCEPT ![calls[w].item] = DefaultRouting]
    /\ Goto(w, "row")
    /\ UNCHANGED <<coverage_items, evidence_records, run_state, stated, torn, faults>>

(* _store_evidence_row, second commit: the row itself. *)
EvidenceRow(w) ==
    /\ calls[w] # None /\ calls[w].pc = "row"
    /\ Len(evidence_records) < MaxRows
    /\ evidence_records' =
           Append(evidence_records, [item |-> calls[w].item, hash |-> calls[w].hash])
    /\ IF calls[w].op = "prove" THEN Goto(w, "flip")
       ELSE calls' = [calls EXCEPT ![w] = None]
    /\ UNCHANGED <<requirements, coverage_items, run_state, stated, torn, faults>>

(* store_evidence, last commit: insert a proven row, or set the status of  *)
(* the row there is and leave its scope.                                   *)
FlipToProven(w) ==
    /\ calls[w] # None /\ calls[w].pc = "flip"
    /\ LET i == calls[w].item
       IN  WriteCoverage(w, i,
               IF coverage_items[i] = None THEN [status |-> "proven", in_scope |-> TRUE]
               ELSE [coverage_items[i] EXCEPT !.status = "proven"], None)
    /\ UNCHANGED <<requirements, evidence_records, run_state, stated, torn, faults>>

(* A statement of the call fails, or the process dies. *)
CutShort(w) ==
    /\ calls[w] # None
    /\ faults < MaxFaults
    /\ faults' = faults + 1
    /\ torn' = IF calls[w].op = "upsert" /\ calls[w].pc \in {"parent", "row"}
               THEN torn \cup {calls[w].item} ELSE torn
    /\ calls' = [calls EXCEPT ![w] = None]
    /\ UNCHANGED <<tables, stated>>

(* save_run_state: the whole row is replaced; current_item_id is a foreign *)
(* key, so an unknown id is refused.                                       *)
SaveRunState(s, status, item) ==
    /\ item # None => requirements[item] # None
    /\ run_state' = [run_state EXCEPT ![s] = [status |-> status, current_item_id |-> item]]
    /\ UNCHANGED <<requirements, coverage_items, evidence_records, calls, stated, torn, faults>>

Next ==
    \/ \E w \in Writers :
          \/ \E i \in Items, status \in COVERAGE_STATUSES, scope \in BOOLEAN,
                routing \in Routings, evidence \in Hashes \cup {Partial, None} :
                UpsertCoverageItem(w, i, status, scope, routing, evidence)
          \/ \E i \in Items, record \in Hashes \cup {Partial}, flip \in BOOLEAN :
                StoreEvidence(w, i, record, flip)
          \/ UpsertCoverageRow(w) \/ EvidenceParent(w) \/ EvidenceRow(w)
          \/ FlipToProven(w) \/ CutShort(w)
    \/ \E s \in Sessions, status \in RUN_STATE_STATUSES, item \in Items \cup {None} :
          SaveRunState(s, status, item)

Spec == Init /\ [][Next]_vars
--------------------------------------------------------------------------------
CallRecord ==
    [op : {"upsert", "prove", "record"}, pc : {"coverage", "parent", "row", "flip"},
     item : Items, status : COVERAGE_STATUSES, in_scope : BOOLEAN,
     hash : Hashes \cup {Partial, None}, raced : BOOLEAN]

ASSUME NoneIsNoCall == None \notin CallRecord
ASSUME NoneIsNoRow ==
    None \notin COVERAGE_STATUSES \cup [status : COVERAGE_STATUSES, in_scope : BOOLEAN]

(* Every table holds rows of its columns' domains, and every coverage row, *)
(* evidence row and current item names a requirement that exists: no write *)
(* of the store fails on a foreign key.                                    *)
TypeOK ==
    /\ requirements \in [Items -> Routings \cup {None}]
    /\ coverage_items \in
           [Items -> [status : COVERAGE_STATUSES, in_scope : BOOLEAN] \cup {None}]
    /\ evidence_records \in Seq([item : Items, hash : Hashes])
    /\ Len(evidence_records) <= MaxRows
    /\ run_state \in [Sessions -> [status : RUN_STATE_STATUSES,
                                   current_item_id : Items \cup {None}] \cup {None}]
    /\ calls \in [Writers -> CallRecord \cup {None}]
    /\ stated \in [Items -> Routings \cup {None}]
    /\ torn \subseteq Items
    /\ faults \in 0 .. MaxFaults
    /\ \A i \in Items : coverage_items[i] # None => requirements[i] # None
    /\ \A n \in DOMAIN evidence_records : requirements[evidence_records[n].item] # None
    /\ \A s \in Sessions \cup {None} :
          LET row == load_run_state(s)
          IN  row \notin {None, StoreError} /\ row.current_item_id # None =>
                  requirements[row.current_item_id] # None

(* The write a call has still to make: its proof row. *)
RowPending(i) ==
    \E w \in Writers : /\ calls[w] # None
                       /\ calls[w].item = i
                       /\ calls[w].op = "upsert"
                       /\ calls[w].pc \in {"parent", "row"}

(* store.py:457: "a proven item always has its row of proof".  So has what *)
(* get_coverage reports as proven or query_uncovered no longer lists,      *)
(* except while the upsert that made it proven is between its commits, and *)
(* for good if that upsert is cut short there.                             *)
ProvenHasRow ==
    \A row \in get_coverage :
        row.status = "proven" \/ (row.in_scope /\ row \notin query_uncovered) =>
            row.evidence # None \/ RowPending(row.id) \/ row.id \in torn

(* store_evidence checks the move into proven before it writes: the item   *)
(* is then still unproven, unless another writer committed the item's row  *)
(* in between.  Proving neither adds an item to the scope nor removes one. *)
ProvenFromUnproven ==
    [][\A w \in Writers :
          (calls[w] # None /\ calls[w].op = "prove" /\ calls'[w] = None
              /\ coverage_items' # coverage_items) =>
              LET i == calls[w].item
              IN  /\ _current_status(i) \in {None, "unproven"} \/ calls[w].raced
                  /\ coverage_items[i] # None =>
                         coverage_items'[i].in_scope = coverage_items[i].in_scope]_vars

(* store.py:496 and :715: the parent row is only ensured to exist, and the *)
(* routing fields the caller supplied are carried over.  Once no call is   *)
(* in progress an item has the routing stated for it.                      *)
RoutingKept ==
    (\A w \in Writers : calls[w] = None) =>
        \A i \in Items : stated[i] # None => requirements[i] = stated[i]
================================================================================
