------------------------------- MODULE AuditLog -------------------------------
(***************************************************************************)
(* tools/audit_log.py (producer) and tools/audit_verify.py (verifier): the *)
(* hash-chained log of gate decisions, as operators on a log in memory and *)
(* on the lines of its JSONL mirror.                                       *)
(*                                                                         *)
(* Every row carries its creation time, so no two rows are equal and their *)
(* sha256 digests differ: a digest is named by the log (one per process)   *)
(* and the seq of the row it was computed from.  Tampering with a mirrored *)
(* row is not modelled, so every digest recomputes.                        *)
(***************************************************************************)
EXTENDS Naturals, Sequences

GENESIS_PREV_HASH == <<>>

(* A log in memory: the process it lives in and the entries appended. *)
NewLog(process) == [process |-> process, size |-> 0]

entry_hash(e) == <<e.process, e.seq>>

(* Mutant of tip_hash: every entry is chained to genesis. *)
tip_genesis(log) == GENESIS_PREV_HASH

tip_hash(log) == IF log.size = 0 THEN GENESIS_PREV_HASH ELSE <<log.process, log.size>>

(* The entry append() creates: seq pre-assigned, chained onto the tip. *)
NextEntry(log, about, decision) ==
    [process |-> log.process, seq |-> log.size + 1, prev_hash |-> tip_hash(log),
     about |-> about, decision |-> decision]

(* The log after append(): the entry is in memory before it is mirrored. *)
Appended(log) == [process |-> log.process, size |-> log.size + 1]

(* A line that is not an AuditEntry (the dispatcher's plain JSON fallback).*)
PlainLine(about, decision) ==
    [process |-> 0, seq |-> 0, prev_hash |-> GENESIS_PREV_HASH,
     about |-> about, decision |-> decision]

(* A line of the file shows a decision, or it is "partial", the last one   *)
(* and without its newline, or "garbled", a torn line with the next one    *)
(* glued to it: neither of the two can be read any more.                   *)
Decisions == {"allow", "block"}
IsRow(line) == line.decision \in Decisions
IsTorn(lines) == lines # <<>> /\ lines[Len(lines)].decision = "partial"

(* The file after a line was appended to it. *)
Mirrored(lines, line) ==
    IF IsTorn(lines) THEN [lines EXCEPT ![Len(lines)] = PlainLine(line.about, "garbled")]
    ELSE Append(lines, line)

(* The file after a part of a line was appended to it. *)
Torn(lines, about) ==
    IF IsTorn(lines) THEN lines ELSE Append(lines, PlainLine(about, "partial"))

(* The lines before line k in seq order; sorted() is stable.               *)
Before(lines, k) ==
    {i \in DOMAIN lines : \/ lines[i].seq < lines[k].seq
                          \/ lines[i].seq = lines[k].seq /\ i < k}

(* audit_verify.verify_chain: every line readable; in seq order, each      *)
(* prev_hash is the hash of the row before (genesis for the first).        *)
verify_chain(lines) ==
    \A k \in DOMAIN lines :
        /\ lines[k].seq > 0
        /\ \/ Before(lines, k) = {} /\ lines[k].prev_hash = GENESIS_PREV_HASH
           \/ \E last \in Before(lines, k) :
                 /\ Before(lines, k) = Before(lines, last) \cup {last}
                 /\ lines[k].prev_hash = entry_hash(lines[last])
================================================================================
