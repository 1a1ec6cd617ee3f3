-------------------------- MODULE EvidenceStoreProofs --------------------------
(***************************************************************************)
(* Proofs about EvidenceStore, for any number of items and writers and     *)
(* wherever their calls are cut short.                                     *)
(***************************************************************************)
EXTENDS EvidenceStore, WellFoundedInduction, TLAPS

Busy(w) == calls[w] # None
HasRow(records, i) == \E n \in DOMAIN records : records[n].item = i

(* The parent of every row exists; a call that is past its first commit    *)
(* has made sure of it.                                                    *)
ParentsExist ==
    /\ \A i \in Items : coverage_items[i] # None => requirements[i] # None
    /\ \A n \in DOMAIN evidence_records : requirements[evidence_records[n].item] # None
    /\ \A s \in Sessions :
          run_state[s] # None /\ run_state[s].current_item_id # None =>
              requirements[run_state[s].current_item_id] # None
    /\ \A w \in Writers : Busy(w) /\ calls[w].pc # "parent" => requirements[calls[w].item] # None

(* What a call carries fits the commit it is before. *)
CallsFit ==
    \A w \in Writers : Busy(w) =>
        /\ calls[w].pc = "coverage" => calls[w].op = "upsert"
        /\ calls[w].op = "upsert" => calls[w].pc # "flip"
        /\ calls[w].status = "proven" => calls[w].hash \in Hashes
        /\ calls[w].pc # "coverage" => calls[w].status = "proven"

ColumnsOK ==
    /\ requirements \in [Items -> Routings \cup {None}]
    /\ coverage_items \in
           [Items -> [status : COVERAGE_STATUSES, in_scope : BOOLEAN] \cup {None}]
    /\ evidence_records \in Seq([item : Items, hash : Hashes])
    /\ Len(evidence_records) <= MaxRows
    /\ run_state \in [Sessions -> [status : RUN_STATE_STATUSES,
                                   current_item_id : Items \cup {None}] \cup {None}]
    /\ calls \in [Writers -> CallRecord \cup {None}]
    /\ stated \in [Items -> Routings \cup {None}]
    /\ torn \subseteq Items
    /\ faults \in 0 .. MaxFaults

TypeInv == ColumnsOK /\ ParentsExist /\ CallsFit

(* A proven item has its row, or the writer that owes it, or was torn; the *)
(* writer that proves one has written the row before it flips the status.  *)
RowInv ==
    /\ \A i \in Items :
          coverage_items[i] # None /\ coverage_items[i].status = "proven" =>
              HasRow(evidence_records, i) \/ RowPending(i) \/ i \in torn
    /\ \A w \in Writers : Busy(w) /\ calls[w].pc = "flip" => HasRow(evidence_records, calls[w].item)

(* What store_evidence has checked still holds, or the call was overtaken. *)
Unproven(rows, i) == rows[i] = None \/ rows[i].status = "unproven"

OriginInv ==
    \A w \in Writers : Busy(w) /\ calls[w].op = "prove" /\ ~calls[w].raced =>
        Unproven(coverage_items, calls[w].item)
--------------------------------------------------------------------------------
LEMMA InSeq == ASSUME NEW S, NEW s \in Seq(S), NEW n \in DOMAIN s PROVE s[n] \in S
OBVIOUS

LEMMA Appended ==
    ASSUME NEW S, NEW s \in Seq(S), NEW e
    PROVE  /\ \A n \in DOMAIN s : n \in DOMAIN Append(s, e) /\ Append(s, e)[n] = s[n]
           /\ \E n \in DOMAIN Append(s, e) : Append(s, e)[n] = e
<1>1. Append(s, e)[Len(s) + 1] = e /\ Len(s) + 1 \in DOMAIN Append(s, e)
  OBVIOUS
<1>2. \A n \in DOMAIN s : n \in DOMAIN Append(s, e) /\ Append(s, e)[n] = s[n]
  OBVIOUS
<1> QED
  BY <1>1, <1>2

(* A commit to a coverage row marks the other calls on it. *)
CoverageStep(w, i, row, next) ==
    /\ coverage_items' \in
           [Items -> [status : COVERAGE_STATUSES, in_scope : BOOLEAN] \cup {None}]
    /\ coverage_items'[i] = row
    /\ \A j \in Items : j # i => coverage_items'[j] = coverage_items[j]
    /\ calls' \in [Writers -> CallRecord \cup {None}]
    /\ calls'[w] = next
    /\ \A v \in Writers : v # w =>
          /\ calls'[v] = None <=> calls[v] = None
          /\ calls[v] # None =>
                /\ calls'[v].op = calls[v].op /\ calls'[v].pc = calls[v].pc
                /\ calls'[v].item = calls[v].item
                /\ calls'[v].status = calls[v].status
                /\ calls'[v].hash = calls[v].hash
                /\ calls[v].item = i => calls'[v].raced = TRUE
                /\ calls[v].item # i => calls'[v].raced = calls[v].raced

LEMMA CoverageWritten ==
    ASSUME ColumnsOK, NEW w \in Writers, NEW i \in Items,
           NEW row \in [status : COVERAGE_STATUSES, in_scope : BOOLEAN],
           NEW next \in CallRecord \cup {None},
           WriteCoverage(w, i, row, next)
    PROVE  CoverageStep(w, i, row, next)
<1>1. /\ coverage_items' = [coverage_items EXCEPT ![i] = row]
      /\ calls' = [v \in Writers |->
                      IF v = w THEN next
                      ELSE IF calls[v] # None /\ calls[v].item = i
                           THEN [calls[v] EXCEPT !.raced = TRUE] ELSE calls[v]]
  BY DEF WriteCoverage
<1>2. ASSUME NEW v \in Writers, v # w
      PROVE  /\ calls'[v] \in CallRecord \cup {None}
             /\ calls'[v] = None <=> calls[v] = None
             /\ Busy(v) =>
                   /\ calls'[v].op = calls[v].op /\ calls'[v].pc = calls[v].pc
                   /\ calls'[v].item = calls[v].item
                   /\ calls'[v].status = calls[v].status
                   /\ calls'[v].hash = calls[v].hash
                   /\ calls[v].item = i => calls'[v].raced = TRUE
                   /\ calls[v].item # i => calls'[v].raced = calls[v].raced
  <2>1. CASE calls[v] # None /\ calls[v].item = i
    <3>1. calls[v] \in CallRecord
      BY <2>1 DEF ColumnsOK
    <3>2. calls'[v] = [calls[v] EXCEPT !.raced = TRUE]
      BY <1>1, <1>2, <2>1
    <3>3. calls'[v] \in CallRecord
      BY <3>1, <3>2 DEF CallRecord
    <3> QED
      BY <2>1, <3>1, <3>2, <3>3, NoneIsNoCall DEF CallRecord, Busy
  <2>2. CASE ~(calls[v] # None /\ calls[v].item = i)
    BY <1>1, <1>2, <2>2 DEF ColumnsOK, Busy
  <2> QED
    BY <2>1, <2>2
<1>3. coverage_items' \in
          [Items -> [status : COVERAGE_STATUSES, in_scope : BOOLEAN] \cup {None}]
  BY <1>1 DEF ColumnsOK
<1>4. calls' \in [Writers -> CallRecord \cup {None}] /\ calls'[w] = next
  BY <1>1, <1>2
<1> QED
  BY <1>1, <1>2, <1>3, <1>4 DEF ColumnsOK, CoverageStep, Busy

LEMMA GotoWritten ==
    ASSUME ColumnsOK, NEW w \in Writers, Busy(w),
           NEW pc \in {"coverage", "parent", "row", "flip"}, Goto(w, pc)
    PROVE  /\ calls' \in [Writers -> CallRecord \cup {None}]
           /\ \A v \in Writers : v # w => calls'[v] = calls[v]
           /\ calls'[w] # None /\ calls'[w].pc = pc
           /\ calls'[w].op = calls[w].op /\ calls'[w].item = calls[w].item
           /\ calls'[w].status = calls[w].status /\ calls'[w].hash = calls[w].hash
           /\ calls'[w].raced = calls[w].raced
<1>1. calls[w] \in CallRecord
  BY DEF ColumnsOK, Busy
<1>2. calls' = [calls EXCEPT ![w] = [calls[w] EXCEPT !.pc = pc]]
  BY DEF Goto
<1>3. [calls[w] EXCEPT !.pc = pc] \in CallRecord
  BY <1>1 DEF CallRecord
<1>4. calls'[w] = [calls[w] EXCEPT !.pc = pc] /\ \A v \in Writers : v # w => calls'[v] = calls[v]
  BY <1>2 DEF ColumnsOK
<1> QED
  BY <1>1, <1>2, <1>3, <1>4, NoneIsNoCall DEF CallRecord, ColumnsOK

(* An upsert of a requirement never takes a parent away. *)
LEMMA ParentWritten ==
    ASSUME ColumnsOK, NEW i \in Items, NEW routing \in Routings,
           requirements' = [requirements EXCEPT ![i] = routing]
    PROVE  /\ requirements' \in [Items -> Routings \cup {None}]
           /\ requirements'[i] # None
           /\ \A j : requirements[j] # None /\ j \in Items => requirements'[j] # None
BY StoreConstants DEF ColumnsOK

(* The commits of the coverage row, by an upsert and by a proof. *)
UpsertRowStep(w, row, next) ==
    /\ Busy(w) /\ calls[w].op = "upsert" /\ calls[w].pc = "coverage" /\ calls[w].item \in Items
    /\ CoverageStep(w, calls[w].item, row, next)
    /\ row # None /\ row.status = calls[w].status
    /\ calls[w].status # "proven" => next = None
    /\ calls[w].status = "proven" =>
          /\ next # None /\ next.pc = "parent" /\ next.op = "upsert"
          /\ next.item = calls[w].item /\ next.status = "proven" /\ next.hash = calls[w].hash

LEMMA UpsertRowWrites ==
    ASSUME TypeInv, NEW w \in Writers, UpsertCoverageRow(w)
    PROVE  \E row, next : UpsertRowStep(w, row, next)
<1> DEFINE c == calls[w]
           row == [status |-> c.status, in_scope |-> c.in_scope]
           next == IF c.status = "proven" THEN [c EXCEPT !.pc = "parent"] ELSE None
<1>1. Busy(w) /\ c.pc = "coverage" /\ c \in CallRecord /\ c.item \in Items
  BY DEF UpsertCoverageRow, Busy, TypeInv, ColumnsOK, CallRecord
<1>2. c.op = "upsert"
  BY <1>1 DEF TypeInv, CallsFit
<1>3. row \in [status : COVERAGE_STATUSES, in_scope : BOOLEAN] /\ row.status = c.status
  BY <1>1 DEF CallRecord
<1>4. next \in CallRecord \cup {None}
  BY <1>1 DEF CallRecord
<1>5. c.status = "proven" =>
          /\ next # None /\ next.pc = "parent" /\ next.op = "upsert"
          /\ next.item = c.item /\ next.status = "proven" /\ next.hash = c.hash
  <2>1. [c EXCEPT !.pc = "parent"] \in CallRecord
    BY <1>1 DEF CallRecord
  <2> QED
    BY <1>1, <1>2, <2>1, NoneIsNoCall DEF CallRecord
<1>6. c.status # "proven" => next = None
  OBVIOUS
<1>7. WriteCoverage(w, c.item, row, next)
  BY DEF UpsertCoverageRow
<1>8. row # None
  BY <1>3, NoneIsNoRow
<1> HIDE DEF row, next, c
<1>9. CoverageStep(w, c.item, row, next)
  BY <1>1, <1>3, <1>4, <1>7, CoverageWritten DEF TypeInv
<1> QED
  BY <1>1, <1>2, <1>3, <1>5, <1>6, <1>8, <1>9 DEF UpsertRowStep, c

FlipStep(w, row) ==
    /\ Busy(w) /\ calls[w].pc = "flip" /\ calls[w].item \in Items
    /\ CoverageStep(w, calls[w].item, row, None)
    /\ row.status = "proven"
    /\ coverage_items[calls[w].item] # None =>
          row.in_scope = coverage_items[calls[w].item].in_scope

LEMMA FlipWrites ==
    ASSUME TypeInv, NEW w \in Writers, FlipToProven(w)
    PROVE  \E row : FlipStep(w, row)
<1> DEFINE i == calls[w].item
           row == IF coverage_items[i] = None THEN [status |-> "proven", in_scope |-> TRUE]
                  ELSE [coverage_items[i] EXCEPT !.status = "proven"]
<1>1. Busy(w) /\ calls[w].pc = "flip" /\ i \in Items
  BY DEF FlipToProven, Busy, TypeInv, ColumnsOK, CallRecord
<1>2. /\ row \in [status : COVERAGE_STATUSES, in_scope : BOOLEAN] /\ row.status = "proven"
      /\ coverage_items[i] # None => row.in_scope = coverage_items[i].in_scope
  BY <1>1 DEF TypeInv, ColumnsOK, COVERAGE_STATUSES
<1>3. WriteCoverage(w, i, row, None)
  BY DEF FlipToProven
<1> HIDE DEF row, i
<1>4. CoverageStep(w, i, row, None)
  BY <1>1, <1>2, <1>3, CoverageWritten DEF TypeInv
<1> QED
  BY <1>1, <1>2, <1>4 DEF FlipStep, i

LEMMA TypeStep == TypeInv /\ [Next]_vars => TypeInv'
<1> SUFFICES ASSUME TypeInv, [Next]_vars PROVE TypeInv'
  OBVIOUS
<1> USE DEF TypeInv
<1>0. ASSUME NEW n \in DOMAIN evidence_records
      PROVE  evidence_records[n].item \in Items
  <2>0. evidence_records \in Seq([item : Items, hash : Hashes])
    BY DEF ColumnsOK
  <2>1. evidence_records[n] \in [item : Items, hash : Hashes]
    BY <1>0, <2>0, InSeq
  <2> QED
    BY <2>1
<1>1. ASSUME NEW w \in Writers, NEW i \in Items, NEW status \in COVERAGE_STATUSES,
             NEW scope \in BOOLEAN, NEW routing \in Routings,
             NEW evidence \in Hashes \cup {Partial, None},
             UpsertCoverageItem(w, i, status, scope, routing, evidence)
      PROVE  TypeInv'
  <2> DEFINE hash == IF status = "proven" THEN evidence ELSE None
             call == Call("upsert", "coverage", i, status, scope, hash)
  <2>0. hash \in Hashes \cup {Partial, None}
    OBVIOUS
  <2>1. /\ call \in CallRecord /\ call.op = "upsert" /\ call.pc = "coverage" /\ call.item = i
        /\ call.status = status /\ call.hash = hash
    <3> HIDE DEF hash
    <3> QED
      BY <2>0 DEF Call, CallRecord
  <2>2. status = "proven" => hash \in Hashes
    BY <1>1 DEF UpsertCoverageItem, validate_evidence_record
  <2>3. calls' = [calls EXCEPT ![w] = call]
    BY <1>1 DEF UpsertCoverageItem
  <2> HIDE DEF call, hash
  <2>4. calls' \in [Writers -> CallRecord \cup {None}] /\ calls'[w] = call
        /\ \A v \in Writers : v # w => calls'[v] = calls[v]
    BY <2>1, <2>3 DEF ColumnsOK
  <2>5. /\ requirements' \in [Items -> Routings \cup {None}]
        /\ requirements'[i] # None
        /\ \A j \in Items : requirements[j] # None => requirements'[j] # None
    BY <1>1, ParentWritten DEF UpsertCoverageItem
  <2>6. ColumnsOK'
    BY <1>1, <2>4, <2>5 DEF UpsertCoverageItem, ColumnsOK
  <2>7. ParentsExist'
    BY <1>0, <1>1, <2>1, <2>4, <2>5 DEF UpsertCoverageItem, ParentsExist, ColumnsOK, Busy, CallRecord
  <2>8. CallsFit'
    BY <2>1, <2>2, <2>4 DEF CallsFit, Busy
  <2> QED
    BY <2>6, <2>7, <2>8
<1>2. ASSUME NEW w \in Writers, NEW i \in Items, NEW record \in Hashes \cup {Partial},
             NEW flip \in BOOLEAN, StoreEvidence(w, i, record, flip)
      PROVE  TypeInv'
  <2> DEFINE op == IF flip THEN "prove" ELSE "record"
             call == Call(op, "parent", i, "proven", TRUE, record)
  <2>0. op \in {"upsert", "prove", "record"}
    OBVIOUS
  <2>1. /\ call \in CallRecord /\ call.op = op /\ call.pc = "parent" /\ call.item = i
        /\ call.status = "proven" /\ call.hash = record
    <3> HIDE DEF op
    <3> QED
      BY <2>0 DEF Call, CallRecord, COVERAGE_STATUSES
  <2>2. record \in Hashes
    BY <1>2 DEF StoreEvidence, validate_evidence_record
  <2>3. calls' = [calls EXCEPT ![w] = call] /\ op # "upsert"
    BY <1>2 DEF StoreEvidence
  <2> HIDE DEF call, op
  <2>4. calls' \in [Writers -> CallRecord \cup {None}] /\ calls'[w] = call
        /\ \A v \in Writers : v # w => calls'[v] = calls[v]
    BY <2>1, <2>3 DEF ColumnsOK
  <2>5. ColumnsOK'
    BY <1>2, <2>4 DEF StoreEvidence, tables, ColumnsOK
  <2>6. ParentsExist'
    BY <1>2, <2>1, <2>4 DEF StoreEvidence, tables, ParentsExist, Busy
  <2>7. CallsFit'
    BY <2>1, <2>2, <2>3, <2>4 DEF CallsFit, Busy
  <2> QED
    BY <2>5, <2>6, <2>7
<1>3. ASSUME NEW w \in Writers, UpsertCoverageRow(w)
      PROVE  TypeInv'
  <2>1. PICK row, next : UpsertRowStep(w, row, next)
    BY <1>3, UpsertRowWrites
  <2>2. requirements[calls[w].item] # None /\ (calls[w].status = "proven" => calls[w].hash \in Hashes)
    BY <2>1 DEF ParentsExist, CallsFit, UpsertRowStep, Busy
  <2>3. ColumnsOK'
    BY <1>3, <2>1 DEF UpsertCoverageRow, UpsertRowStep, CoverageStep, ColumnsOK
  <2>4. ParentsExist'
    <3>1. \A j \in Items : coverage_items'[j] # None => requirements'[j] # None
      BY <1>3, <2>1, <2>2 DEF UpsertCoverageRow, UpsertRowStep, CoverageStep, ParentsExist
    <3>2. \A v \in Writers : calls'[v] # None /\ calls'[v].pc # "parent" =>
              requirements'[calls'[v].item] # None
      BY <1>3, <2>1, <2>2 DEF UpsertCoverageRow, UpsertRowStep, CoverageStep, ParentsExist, Busy
    <3> QED
      BY <1>3, <3>1, <3>2 DEF UpsertCoverageRow, ParentsExist, Busy
  <2>5. CallsFit'
    BY <2>1, <2>2 DEF UpsertRowStep, CoverageStep, CallsFit, Busy
  <2> QED
    BY <2>3, <2>4, <2>5
<1>4. ASSUME NEW w \in Writers, EvidenceParent(w)
      PROVE  TypeInv'
  <2>1. Busy(w) /\ calls[w].pc = "parent" /\ calls[w].item \in Items /\ Goto(w, "row")
    BY <1>4 DEF EvidenceParent, Busy, ColumnsOK, CallRecord
  <2>2. /\ requirements' \in [Items -> Routings \cup {None}]
        /\ requirements'[calls[w].item] # None
        /\ \A j \in Items : requirements[j] # None => requirements'[j] # None
    BY <1>4, <2>1, ParentWritten, StoreConstants DEF EvidenceParent
  <2>3. ColumnsOK'
    BY <1>4, <2>1, <2>2, GotoWritten DEF EvidenceParent, ColumnsOK
  <2>4. ParentsExist'
    <3>1. \A v \in Writers : Busy(v) => calls[v].item \in Items
      BY DEF ColumnsOK, Busy, CallRecord
    <3>2. \A s \in Sessions : run_state[s] # None =>
              run_state[s].current_item_id \in Items \cup {None}
      BY DEF ColumnsOK
    <3>3. \A v \in Writers : calls'[v] # None /\ calls'[v].pc # "parent" =>
              requirements'[calls'[v].item] # None
      BY <2>1, <2>2, <3>1, GotoWritten DEF ParentsExist, Busy
    <3> QED
      BY <1>0, <1>4, <2>2, <3>2, <3>3 DEF EvidenceParent, ParentsExist, Busy
  <2>5. CallsFit'
    BY <2>1, GotoWritten DEF CallsFit, Busy
  <2> QED
    BY <2>3, <2>4, <2>5
<1>5. ASSUME NEW w \in Writers, EvidenceRow(w)
      PROVE  TypeInv'
  <2> DEFINE new == [item |-> calls[w].item, hash |-> calls[w].hash]
  <2>1. Busy(w) /\ calls[w].pc = "row" /\ calls[w].item \in Items /\ calls[w].hash \in Hashes
    BY <1>5 DEF EvidenceRow, Busy, ColumnsOK, CallRecord, CallsFit
  <2>2. new \in [item : Items, hash : Hashes] /\ new.item = calls[w].item
    BY <2>1
  <2>3. evidence_records' = Append(evidence_records, new)
    BY <1>5 DEF EvidenceRow
  <2> HIDE DEF new
  <2>4. /\ evidence_records' \in Seq([item : Items, hash : Hashes])
        /\ Len(evidence_records') <= MaxRows
        /\ \A n \in DOMAIN evidence_records' :
              \/ n \in DOMAIN evidence_records /\ evidence_records'[n] = evidence_records[n]
              \/ evidence_records'[n].item = calls[w].item
    BY <1>5, <2>2, <2>3, StoreConstants DEF EvidenceRow, ColumnsOK
  <2>5. /\ calls' \in [Writers -> CallRecord \cup {None}]
        /\ \A v \in Writers : v # w => calls'[v] = calls[v]
        /\ calls'[w] # None =>
              /\ calls'[w].pc = "flip" /\ calls'[w].item = calls[w].item
              /\ calls'[w].op = "prove" /\ calls'[w].op = calls[w].op
              /\ calls'[w].status = calls[w].status /\ calls'[w].hash = calls[w].hash
    <3>1. CASE calls[w].op = "prove"
      BY <1>5, <2>1, <3>1, GotoWritten DEF EvidenceRow
    <3>2. CASE calls[w].op # "prove"
      BY <1>5, <3>2 DEF EvidenceRow, ColumnsOK
    <3> QED
      BY <3>1, <3>2
  <2>6. ColumnsOK'
    BY <1>5, <2>4, <2>5 DEF EvidenceRow, ColumnsOK
  <2>7. ParentsExist'
    <3>1. requirements[calls[w].item] # None
      BY <2>1 DEF ParentsExist
    <3> QED
      BY <1>5, <2>1, <2>4, <2>5, <3>1 DEF EvidenceRow, ParentsExist, Busy
  <2>8. CallsFit'
    BY <2>1, <2>5 DEF CallsFit, Busy
  <2> QED
    BY <2>6, <2>7, <2>8
<1>6. ASSUME NEW w \in Writers, FlipToProven(w)
      PROVE  TypeInv'
  <2>1. PICK row : FlipStep(w, row)
    BY <1>6, FlipWrites
  <2>2. requirements[calls[w].item] # None
    BY <2>1 DEF ParentsExist, FlipStep, Busy
  <2>3. ColumnsOK'
    BY <1>6, <2>1 DEF FlipToProven, FlipStep, CoverageStep, ColumnsOK
  <2>4. ParentsExist'
    BY <1>6, <2>1, <2>2 DEF FlipToProven, FlipStep, CoverageStep, ParentsExist, Busy
  <2>5. CallsFit'
    BY <2>1 DEF FlipStep, CoverageStep, CallsFit, Busy
  <2> QED
    BY <2>3, <2>4, <2>5
<1>7. ASSUME NEW w \in Writers, CutShort(w)
      PROVE  TypeInv'
  <2>1. calls' = [calls EXCEPT ![w] = None] /\ torn' \subseteq torn \cup {calls[w].item}
    BY <1>7 DEF CutShort
  <2>2. calls[w].item \in Items
    BY <1>7 DEF CutShort, ColumnsOK, CallRecord
  <2>3. faults' \in 0 .. MaxFaults
    BY <1>7, StoreConstants DEF CutShort, ColumnsOK
  <2>4. ColumnsOK'
    BY <1>7, <2>1, <2>2, <2>3 DEF CutShort, tables, ColumnsOK
  <2>5. \A v \in Writers : calls'[v] # None => calls'[v] = calls[v] /\ calls[v] # None
    BY <2>1 DEF ColumnsOK
  <2> QED
    BY <1>7, <2>4, <2>5 DEF CutShort, tables, ParentsExist, CallsFit, Busy
<1>8. ASSUME NEW s \in Sessions, NEW status \in RUN_STATE_STATUSES,
             NEW item \in Items \cup {None}, SaveRunState(s, status, item)
      PROVE  TypeInv'
  <2> DEFINE row == [status |-> status, current_item_id |-> item]
  <2>1. run_state' = [run_state EXCEPT ![s] = row] /\ (item # None => requirements[item] # None)
    BY <1>8 DEF SaveRunState
  <2>2. row \in [status : RUN_STATE_STATUSES, current_item_id : Items \cup {None}]
        /\ row.current_item_id = item
    OBVIOUS
  <2> HIDE DEF row
  <2>3. ColumnsOK'
    BY <1>8, <2>1, <2>2 DEF SaveRunState, ColumnsOK
  <2> QED
    BY <1>8, <2>1, <2>2, <2>3 DEF SaveRunState, ColumnsOK, ParentsExist, CallsFit, Busy
<1>9. CASE UNCHANGED vars
  BY <1>9 DEF vars, tables, ColumnsOK, ParentsExist, CallsFit, Busy
<1> QED
  BY <1>1, <1>2, <1>3, <1>4, <1>5, <1>6, <1>7, <1>8, <1>9 DEF Next

LEMMA TypeHolds == Spec => []TypeInv
<1>1. Init => TypeInv
  BY StoreConstants DEF Init, TypeInv, ColumnsOK, ParentsExist, CallsFit, Busy
<1> QED
  BY <1>1, TypeStep, PTL DEF Spec

(* The columns hold what their domains allow, and no write ever meets a    *)
(* foreign key without its parent.                                         *)
THEOREM TypeCorrect == Spec => []TypeOK
<1>1. TypeInv => TypeOK
  <2> SUFFICES ASSUME TypeInv, NEW s \in Sessions \cup {None},
                      load_run_state(s) \notin {None, StoreError},
                      load_run_state(s).current_item_id # None
               PROVE  requirements[load_run_state(s).current_item_id] # None
    BY DEF TypeInv, ColumnsOK, ParentsExist, TypeOK
  <2>1. PICK t \in Sessions : load_run_state(s) = run_state[t]
    BY DEF load_run_state
  <2> QED
    BY <2>1 DEF TypeInv, ParentsExist
<1> QED
  BY <1>1, TypeHolds, PTL

--------------------------------------------------------------------------------
(* Among the rows of an item there is a last one. *)
LEMMA LastRow ==
    ASSUME ColumnsOK, NEW i \in Items, HasRow(evidence_records, i)
    PROVE  _latest_evidence(i) \in Hashes
<1> DEFINE rows == get_evidence(i)
           Room == {Len(evidence_records) - n : n \in rows}
           less == OpToRel(<, Nat)
           last == CHOOSE n \in rows : \A m \in rows : m <= n
<1>0. evidence_records \in Seq([item : Items, hash : Hashes])
  BY DEF ColumnsOK
<1>1. rows \subseteq 1 .. Len(evidence_records) /\ Len(evidence_records) \in Nat
      /\ rows \subseteq DOMAIN evidence_records
  <2>1. DOMAIN evidence_records = 1 .. Len(evidence_records) /\ Len(evidence_records) \in Nat
    BY <1>0
  <2> QED
    BY <2>1 DEF get_evidence
<1>2. rows # {}
  BY DEF HasRow, get_evidence
<1> HIDE DEF rows
<1>3. Room \subseteq Nat /\ Room # {}
  BY <1>1, <1>2
<1>4. PICK x \in Room : \A y \in Room : <<y, x>> \notin less
  <2> HIDE DEF Room, less
  <2>1. IsWellFoundedOn(less, Nat)
    BY NatLessThanWellFounded DEF less
  <2> QED
    BY <1>3, <2>1, WFMin
<1>5. \A y \in Room : ~(y < x)
  BY <1>3, <1>4 DEF OpToRel
<1>6. PICK n \in rows : x = Len(evidence_records) - n
  OBVIOUS
<1>7. \A m \in rows : m <= n
  <2> TAKE m \in rows
  <2>1. ~(Len(evidence_records) - m < Len(evidence_records) - n)
    BY <1>5, <1>6
  <2> QED
    BY <1>1, <2>1
<1>8. last \in rows
  BY <1>7
<1>9. evidence_records[last] \in [item : Items, hash : Hashes]
  <2> HIDE DEF last
  <2> QED
    BY <1>0, <1>1, <1>8, InSeq
<1>10. _latest_evidence(i) = evidence_records[last].hash
  BY <1>2 DEF _latest_evidence, rows
<1> HIDE DEF last
<1> QED
  BY <1>9, <1>10

LEMMA RowStep == TypeInv /\ RowInv /\ [Next]_vars => RowInv'
<1> SUFFICES ASSUME TypeInv, RowInv, [Next]_vars PROVE RowInv'
  OBVIOUS
<1> USE DEF TypeInv
(* A step of w that leaves the rows of both tables alone. *)
<1>0. ASSUME NEW w \in Writers, UNCHANGED <<coverage_items, evidence_records>>,
             torn \subseteq torn', \A v \in Writers : v # w => calls'[v] = calls[v],
             Busy(w) => \/ calls[w].item \in torn'
                        \/ calls[w].op # "upsert" \/ calls[w].pc \notin {"parent", "row"}
                        \/ /\ calls'[w] # None /\ calls'[w].item = calls[w].item
                           /\ calls'[w].op = "upsert" /\ calls'[w].pc \in {"parent", "row"},
             calls'[w] # None => calls'[w].pc # "flip"
      PROVE  RowInv'
  <2>1. \A i : HasRow(evidence_records', i) = HasRow(evidence_records, i)
    BY <1>0 DEF HasRow
  <2>2. \A i : RowPending(i) => RowPending(i)' \/ i \in torn'
    BY <1>0 DEF RowPending, Busy
  <2>3. \A i \in Items : coverage_items'[i] # None /\ coverage_items'[i].status = "proven" =>
            HasRow(evidence_records', i) \/ RowPending(i)' \/ i \in torn'
    BY <1>0, <2>1, <2>2 DEF RowInv
  <2>4. \A v \in Writers : calls'[v] # None /\ calls'[v].pc = "flip" => HasRow(evidence_records', calls'[v].item)
    BY <1>0, <2>1 DEF RowInv, Busy
  <2> QED
    BY <2>3, <2>4 DEF RowInv, Busy, HasRow, RowPending
<1>1. ASSUME NEW w \in Writers, NEW i \in Items, NEW status \in COVERAGE_STATUSES,
             NEW scope \in BOOLEAN, NEW routing \in Routings,
             NEW evidence \in Hashes \cup {Partial, None},
             UpsertCoverageItem(w, i, status, scope, routing, evidence)
      PROVE  RowInv'
  <2> DEFINE call == Call("upsert", "coverage", i, status, scope,
                          IF status = "proven" THEN evidence ELSE None)
  <2>1. call.pc = "coverage"
    BY DEF Call
  <2>2. calls[w] = None /\ calls' = [calls EXCEPT ![w] = call]
    BY <1>1 DEF UpsertCoverageItem
  <2> HIDE DEF call
  <2>3. calls'[w] = call /\ \A v \in Writers : v # w => calls'[v] = calls[v]
    BY <2>2 DEF ColumnsOK
  <2> QED
    BY <1>0, <1>1, <2>1, <2>2, <2>3 DEF UpsertCoverageItem, Busy
<1>2. ASSUME NEW w \in Writers, NEW i \in Items, NEW record \in Hashes \cup {Partial},
             NEW flip \in BOOLEAN, StoreEvidence(w, i, record, flip)
      PROVE  RowInv'
  <2> DEFINE call == Call(IF flip THEN "prove" ELSE "record", "parent", i, "proven", TRUE, record)
  <2>1. call.pc = "parent"
    BY DEF Call
  <2>2. calls[w] = None /\ calls' = [calls EXCEPT ![w] = call]
    BY <1>2 DEF StoreEvidence
  <2> HIDE DEF call
  <2>3. calls'[w] = call /\ \A v \in Writers : v # w => calls'[v] = calls[v]
    BY <2>2 DEF ColumnsOK
  <2> QED
    BY <1>0, <1>2, <2>1, <2>2, <2>3 DEF StoreEvidence, tables, Busy
<1>3. ASSUME NEW w \in Writers, UpsertCoverageRow(w)
      PROVE  RowInv'
  <2>1. PICK row, next : UpsertRowStep(w, row, next)
    BY <1>3, UpsertRowWrites
  <2>2. UNCHANGED <<evidence_records, torn>>
    BY <1>3 DEF UpsertCoverageRow
  <2>3. \A i : HasRow(evidence_records', i) = HasRow(evidence_records, i)
    BY <2>2 DEF HasRow
  <2>4. \A i : RowPending(i) => RowPending(i)'
    BY <2>1 DEF UpsertRowStep, CoverageStep, RowPending
  <2>5. calls[w].status = "proven" => RowPending(calls[w].item)'
    BY <2>1 DEF UpsertRowStep, CoverageStep, RowPending
  <2>6. ASSUME NEW i \in Items, coverage_items'[i] # None, coverage_items'[i].status = "proven"
        PROVE  HasRow(evidence_records', i) \/ RowPending(i)' \/ i \in torn'
    <3>1. CASE i = calls[w].item
      BY <2>1, <2>5, <2>6, <3>1 DEF UpsertRowStep, CoverageStep
    <3>2. CASE i # calls[w].item
      BY <2>1, <2>2, <2>3, <2>4, <2>6, <3>2 DEF UpsertRowStep, CoverageStep, RowInv
    <3> QED
      BY <3>1, <3>2
  <2>7. ASSUME NEW v \in Writers, calls'[v] # None, calls'[v].pc = "flip"
        PROVE  HasRow(evidence_records', calls'[v].item)
    BY <2>1, <2>3, <2>7 DEF UpsertRowStep, CoverageStep, RowInv, Busy
  <2> QED
    BY <2>6, <2>7 DEF RowInv, Busy
<1>4. ASSUME NEW w \in Writers, EvidenceParent(w)
      PROVE  RowInv'
  <2>1. Busy(w) /\ calls[w].pc = "parent" /\ Goto(w, "row")
    BY <1>4 DEF EvidenceParent, Busy
  <2> QED
    BY <1>0, <1>4, <2>1, GotoWritten DEF EvidenceParent
<1>5. ASSUME NEW w \in Writers, EvidenceRow(w)
      PROVE  RowInv'
  <2> DEFINE new == [item |-> calls[w].item, hash |-> calls[w].hash]
  <2>0. evidence_records \in Seq([item : Items, hash : Hashes]) /\ new.item = calls[w].item
    BY DEF ColumnsOK
  <2>1. Busy(w) /\ calls[w].pc = "row" /\ evidence_records' = Append(evidence_records, new)
    BY <1>5 DEF EvidenceRow, Busy
  <2> HIDE DEF new
  <2>2. /\ \A n \in DOMAIN evidence_records : /\ n \in DOMAIN evidence_records'
                                              /\ evidence_records'[n] = evidence_records[n]
        /\ \E n \in DOMAIN evidence_records' : evidence_records'[n] = new
    BY <2>0, <2>1, Appended
  <2>3. /\ \A i : HasRow(evidence_records, i) => HasRow(evidence_records', i)
        /\ HasRow(evidence_records', calls[w].item)
    <3>1. ASSUME NEW i, HasRow(evidence_records, i) PROVE HasRow(evidence_records', i)
      <4>1. PICK n \in DOMAIN evidence_records : evidence_records[n].item = i
        BY <3>1 DEF HasRow
      <4>2. n \in DOMAIN evidence_records' /\ evidence_records'[n].item = i
        BY <2>2, <4>1
      <4> QED
        BY <4>2 DEF HasRow
    <3>2. PICK n \in DOMAIN evidence_records' : evidence_records'[n] = new
      BY <2>2
    <3>3. evidence_records'[n].item = calls[w].item
      BY <2>0, <3>2
    <3> QED
      BY <3>1, <3>3 DEF HasRow
  <2>4. /\ \A v \in Writers : v # w => calls'[v] = calls[v]
        /\ calls'[w] # None => calls'[w].item = calls[w].item
    <3>1. CASE calls[w].op = "prove"
      BY <1>5, <2>1, <3>1, GotoWritten DEF EvidenceRow
    <3>2. CASE calls[w].op # "prove"
      BY <1>5, <3>2 DEF EvidenceRow, ColumnsOK
    <3> QED
      BY <3>1, <3>2
  <2>5. \A i : RowPending(i) => RowPending(i)' \/ i = calls[w].item
    BY <2>4 DEF RowPending
  <2>6. UNCHANGED <<coverage_items, torn>>
    BY <1>5 DEF EvidenceRow
  <2>7. ASSUME NEW i \in Items, coverage_items'[i] # None, coverage_items'[i].status = "proven"
        PROVE  HasRow(evidence_records', i) \/ RowPending(i)' \/ i \in torn'
    BY <2>3, <2>5, <2>6, <2>7 DEF RowInv
  <2>8. ASSUME NEW v \in Writers, calls'[v] # None, calls'[v].pc = "flip"
        PROVE  HasRow(evidence_records', calls'[v].item)
    BY <2>3, <2>4, <2>8 DEF RowInv, Busy
  <2> QED
    BY <2>7, <2>8 DEF RowInv, Busy
<1>6. ASSUME NEW w \in Writers, FlipToProven(w)
      PROVE  RowInv'
  <2>1. PICK row : FlipStep(w, row)
    BY <1>6, FlipWrites
  <2>2. UNCHANGED <<evidence_records, torn>>
    BY <1>6 DEF FlipToProven
  <2>3. \A i : HasRow(evidence_records', i) = HasRow(evidence_records, i)
    BY <2>2 DEF HasRow
  <2>4. HasRow(evidence_records, calls[w].item) /\ calls[w].pc = "flip"
    BY <2>1 DEF FlipStep, RowInv
  <2>5. \A i : RowPending(i) => RowPending(i)'
    BY <2>1 DEF FlipStep, CoverageStep, RowPending
  <2>6. ASSUME NEW i \in Items, coverage_items'[i] # None, coverage_items'[i].status = "proven"
        PROVE  HasRow(evidence_records', i) \/ RowPending(i)' \/ i \in torn'
    BY <2>1, <2>2, <2>3, <2>4, <2>5, <2>6 DEF FlipStep, CoverageStep, RowInv
  <2>7. ASSUME NEW v \in Writers, calls'[v] # None, calls'[v].pc = "flip"
        PROVE  HasRow(evidence_records', calls'[v].item)
    BY <2>1, <2>3, <2>7 DEF FlipStep, CoverageStep, RowInv, Busy
  <2> QED
    BY <2>6, <2>7 DEF RowInv, Busy
<1>7. ASSUME NEW w \in Writers, CutShort(w)
      PROVE  RowInv'
  <2>1. calls'[w] = None /\ \A v \in Writers : v # w => calls'[v] = calls[v]
    BY <1>7 DEF CutShort, ColumnsOK
  <2> QED
    BY <1>0, <1>7, <2>1 DEF CutShort, tables, Busy
<1>8. ASSUME NEW s \in Sessions, NEW status \in RUN_STATE_STATUSES,
             NEW item \in Items \cup {None}, SaveRunState(s, status, item)
      PROVE  RowInv'
  BY <1>8 DEF SaveRunState, RowInv, HasRow, RowPending, Busy
<1>9. CASE UNCHANGED vars
  BY <1>9 DEF vars, tables, RowInv, HasRow, RowPending, Busy
<1> QED
  BY <1>1, <1>2, <1>3, <1>4, <1>5, <1>6, <1>7, <1>8, <1>9 DEF Next

(* Whatever is reported proven, or no longer reported uncovered, has its   *)
(* row of proof, is about to get it, or belongs to an upsert that was cut  *)
(* short, for any number of writers.                                       *)
THEOREM ProvenItemsHaveRows == Spec => []ProvenHasRow
<1>1. Init => RowInv
  BY DEF Init, RowInv, Busy
<1>2. TypeInv /\ RowInv => ProvenHasRow
  <2> SUFFICES ASSUME TypeInv, RowInv, NEW row \in get_coverage,
                      row.status = "proven" \/ (row.in_scope /\ row \notin query_uncovered)
               PROVE  row.evidence # None \/ RowPending(row.id) \/ row.id \in torn
    BY DEF ProvenHasRow
  <2>1. row.status = "proven"
    BY DEF query_uncovered
  <2>2. PICK i \in Items : /\ coverage_items[i] # None /\ row.id = i
                           /\ row.status = coverage_items[i].status
                           /\ row.evidence = _latest_evidence(i)
    BY DEF get_coverage
  <2>3. HasRow(evidence_records, i) => row.evidence # None
    BY <2>2, LastRow, StoreConstants DEF TypeInv
  <2> QED
    BY <2>1, <2>2, <2>3 DEF RowInv
<1> QED
  BY <1>1, <1>2, RowStep, TypeHolds, PTL DEF Spec

--------------------------------------------------------------------------------
LEMMA OriginStep == TypeInv /\ OriginInv /\ [Next]_vars => OriginInv'
<1> SUFFICES ASSUME TypeInv, OriginInv, [Next]_vars PROVE OriginInv'
  OBVIOUS
<1> USE DEF TypeInv
(* A step of w that leaves the coverage rows alone and starts no proof. *)
<1>0. ASSUME NEW w \in Writers, UNCHANGED coverage_items,
             \A v \in Writers : v # w => calls'[v] = calls[v],
             calls'[w] # None /\ calls'[w].op = "prove" =>
                 /\ Busy(w) /\ calls[w].op = "prove"
                 /\ calls'[w].item = calls[w].item /\ calls'[w].raced = calls[w].raced
      PROVE  OriginInv'
  BY <1>0 DEF OriginInv, Busy, Unproven
(* A commit of w to the row of i: the other calls on i are overtaken. *)
<1>c. ASSUME NEW w \in Writers, NEW i \in Items, NEW row, NEW next, CoverageStep(w, i, row, next),
             next # None => next.op = "upsert"
      PROVE  OriginInv'
  <2> SUFFICES ASSUME NEW v \in Writers, calls'[v] # None, calls'[v].op = "prove", ~calls'[v].raced
               PROVE  Unproven(coverage_items', calls'[v].item)
    BY DEF OriginInv, Busy
  <2>1. v # w /\ calls[v] # None
    BY <1>c DEF CoverageStep
  <2>2. /\ calls'[v].item = calls[v].item /\ calls[v].op = "prove" /\ calls[v].item # i
        /\ ~calls[v].raced
    BY <1>c, <2>1 DEF CoverageStep
  <2>3. calls[v].item \in Items
    BY <2>1 DEF ColumnsOK, CallRecord
  <2>4. coverage_items'[calls[v].item] = coverage_items[calls[v].item]
    BY <1>c, <2>2, <2>3 DEF CoverageStep
  <2> QED
    BY <2>1, <2>2, <2>4 DEF OriginInv, Busy, Unproven
<1>1. ASSUME NEW w \in Writers, NEW i \in Items, NEW status \in COVERAGE_STATUSES,
             NEW scope \in BOOLEAN, NEW routing \in Routings,
             NEW evidence \in Hashes \cup {Partial, None},
             UpsertCoverageItem(w, i, status, scope, routing, evidence)
      PROVE  OriginInv'
  <2> DEFINE call == Call("upsert", "coverage", i, status, scope,
                          IF status = "proven" THEN evidence ELSE None)
  <2>1. call.op = "upsert"
    BY DEF Call
  <2>2. calls' = [calls EXCEPT ![w] = call]
    BY <1>1 DEF UpsertCoverageItem
  <2> HIDE DEF call
  <2>3. calls'[w] = call /\ \A v \in Writers : v # w => calls'[v] = calls[v]
    BY <2>2 DEF ColumnsOK
  <2> QED
    BY <1>0, <1>1, <2>1, <2>3 DEF UpsertCoverageItem
<1>2. ASSUME NEW w \in Writers, NEW i \in Items, NEW record \in Hashes \cup {Partial},
             NEW flip \in BOOLEAN, StoreEvidence(w, i, record, flip)
      PROVE  OriginInv'
  <2> DEFINE op == IF flip THEN "prove" ELSE "record"
             call == Call(op, "parent", i, "proven", TRUE, record)
  <2>1. call.op = op /\ call.item = i
    BY DEF Call
  <2>2. calls' = [calls EXCEPT ![w] = call] /\ UNCHANGED coverage_items
    BY <1>2 DEF StoreEvidence, tables
  <2>3. op = "prove" => Unproven(coverage_items, i)
    <3>1. ASSUME flip PROVE Unproven(coverage_items, i)
      <4>1. _current_status(i) \in {None, "unproven"}
        BY <1>2, <3>1 DEF StoreEvidence, _ALLOWED_TRANSITIONS
      <4>2. coverage_items[i] # None => coverage_items[i].status # None
        BY NoneIsNoRow DEF ColumnsOK
      <4> QED
        BY <4>1, <4>2 DEF _current_status, Unproven
    <3> QED
      BY <3>1
  <2> HIDE DEF call, op
  <2>4. calls'[w] = call /\ \A v \in Writers : v # w => calls'[v] = calls[v]
    BY <2>2 DEF ColumnsOK
  <2> QED
    BY <2>1, <2>2, <2>3, <2>4 DEF OriginInv, Busy, Unproven
<1>3. ASSUME NEW w \in Writers, UpsertCoverageRow(w)
      PROVE  OriginInv'
  <2>1. PICK row, next : UpsertRowStep(w, row, next)
    BY <1>3, UpsertRowWrites
  <2> QED
    BY <1>c, <2>1 DEF UpsertRowStep
<1>4. ASSUME NEW w \in Writers, EvidenceParent(w)
      PROVE  OriginInv'
  <2>1. Busy(w) /\ Goto(w, "row") /\ UNCHANGED coverage_items
    BY <1>4 DEF EvidenceParent, Busy
  <2> QED
    BY <1>0, <2>1, GotoWritten
<1>5. ASSUME NEW w \in Writers, EvidenceRow(w)
      PROVE  OriginInv'
  <2>1. Busy(w) /\ UNCHANGED coverage_items
    BY <1>5 DEF EvidenceRow, Busy
  <2>2. CASE calls[w].op = "prove"
    BY <1>0, <1>5, <2>1, <2>2, GotoWritten DEF EvidenceRow
  <2>3. CASE calls[w].op # "prove"
    <3>1. calls' = [calls EXCEPT ![w] = None]
      BY <1>5, <2>3 DEF EvidenceRow
    <3> QED
      BY <1>0, <2>1, <3>1 DEF ColumnsOK
  <2> QED
    BY <2>2, <2>3
<1>6. ASSUME NEW w \in Writers, FlipToProven(w)
      PROVE  OriginInv'
  <2>1. PICK row : FlipStep(w, row)
    BY <1>6, FlipWrites
  <2> QED
    BY <1>c, <2>1 DEF FlipStep
<1>7. ASSUME NEW w \in Writers, CutShort(w)
      PROVE  OriginInv'
  <2>1. calls'[w] = None /\ \A v \in Writers : v # w => calls'[v] = calls[v]
    BY <1>7 DEF CutShort, ColumnsOK
  <2> QED
    BY <1>0, <1>7, <2>1 DEF CutShort, tables
<1>8. ASSUME NEW s \in Sessions, NEW status \in RUN_STATE_STATUSES,
             NEW item \in Items \cup {None}, SaveRunState(s, status, item)
      PROVE  OriginInv'
  BY <1>8 DEF SaveRunState, OriginInv, Busy, Unproven
<1>9. CASE UNCHANGED vars
  BY <1>9 DEF vars, tables, OriginInv, Busy, Unproven
<1> QED
  BY <1>1, <1>2, <1>3, <1>4, <1>5, <1>6, <1>7, <1>8, <1>9 DEF Next

(* Of the writer w, what ProvenFromUnproven says of a step. *)
ProvedFairly(w) ==
    (calls[w] # None /\ calls[w].op = "prove" /\ calls'[w] = None
        /\ coverage_items' # coverage_items) =>
        LET i == calls[w].item
        IN  /\ _current_status(i) \in {None, "unproven"} \/ calls[w].raced
            /\ coverage_items[i] # None =>
                   coverage_items'[i].in_scope = coverage_items[i].in_scope

(* store_evidence proves an item that is still unproven when the status is *)
(* written, or that another writer has moved since the check, and leaves   *)
(* its scope, for any number of writers.                                   *)
THEOREM ProofStartsUnproven == Spec => ProvenFromUnproven
<1>1. Init => OriginInv
  BY DEF Init, OriginInv, Busy
<1>2. ASSUME TypeInv, OriginInv, [Next]_vars PROVE [\A w \in Writers : ProvedFairly(w)]_vars
  <2> SUFFICES ASSUME Next, NEW w \in Writers, calls[w] # None, calls[w].op = "prove",
                      calls'[w] = None, coverage_items' # coverage_items
               PROVE  /\ _current_status(calls[w].item) \in {None, "unproven"} \/ calls[w].raced
                      /\ coverage_items[calls[w].item] # None =>
                             coverage_items'[calls[w].item].in_scope
                                 = coverage_items[calls[w].item].in_scope
    BY <1>2 DEF ProvedFairly
  <2>1. \/ \E v \in Writers : UpsertCoverageRow(v)
        \/ \E v \in Writers : FlipToProven(v)
    BY DEF Next, UpsertCoverageItem, StoreEvidence, EvidenceParent, EvidenceRow, CutShort,
           SaveRunState, tables
  <2>2. ASSUME NEW v \in Writers, UpsertCoverageRow(v) PROVE FALSE
    <3>1. PICK row, next : UpsertRowStep(v, row, next)
      BY <1>2, <2>2, UpsertRowWrites
    <3> QED
      BY <3>1 DEF UpsertRowStep, CoverageStep
  <2>3. ASSUME NEW v \in Writers, FlipToProven(v)
        PROVE  \E row : FlipStep(w, row)
    <3>1. PICK row : FlipStep(v, row)
      BY <1>2, <2>3, FlipWrites
    <3> QED
      BY <3>1 DEF FlipStep, CoverageStep
  <2>4. PICK row : FlipStep(w, row)
    BY <2>1, <2>2, <2>3
  <2>5. coverage_items'[calls[w].item] = row
    BY <2>4 DEF FlipStep, CoverageStep
  <2> QED
    BY <1>2, <2>4, <2>5 DEF FlipStep, OriginInv, Busy, Unproven, _current_status
<1>3. TypeInv /\ OriginInv /\ [Next]_vars => [\A w \in Writers : ProvedFairly(w)]_vars
  BY <1>2
<1>4. Spec => [][\A w \in Writers : ProvedFairly(w)]_vars
  BY <1>1, <1>3, OriginStep, TypeHolds, PTL DEF Spec
<1> QED
  BY <1>4 DEF ProvenFromUnproven, ProvedFairly
================================================================================
