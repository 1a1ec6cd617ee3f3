--------------------------- MODULE DispatcherProofs ---------------------------
(***************************************************************************)
(* Proofs about Dispatcher, for every set of lines, every MAX_ATTEMPTS,    *)
(* SeenCap and every number of crashes and I/O errors.                     *)
(*                                                                         *)
(* A key's counters are bounded by what the last readable state knew of it *)
(* plus the allowance each failure buys: Inv says so for the persisted     *)
(* copy while no drain runs and for drain()'s working copy while one does, *)
(* which is why a failure, that falls back from the second to the first,   *)
(* costs one unit of the allowance and no more.  LostBounded does the same *)
(* for the decisions that cannot be read: a torn line has cost a failure   *)
(* by the time it swallows the next one.                                   *)
(***************************************************************************)
EXTENDS Dispatcher, FiniteSetTheorems, TLAPS

Failures == crashes + faults

(* Draining: the working copies seen, attempts are the ones that count. *)
Draining == pc \in {"job", "invoked", "except"}
AtKey(k) == todo # <<>> /\ k = Key

(* Runs that returned, beyond those a settled key explains. *)
OksBound(k) ==
    /\ oks[k] <= 1 + Failures
    /\ ~Draining => k \in stateFile.seen \/ oks[k] <= Failures
    /\ Draining /\ ~(pc = "invoked" /\ AtKey(k)) => k \in seen \/ oks[k] <= Failures

RunsBound(k) ==
    /\ runs[k] <= MAX_ATTEMPTS * (1 + Failures)
    /\ ~Draining =>
          k \in stateFile.seen \/ runs[k] <= MAX_ATTEMPTS * Failures + stateFile.attempts[k]
    /\ Draining /\ ~(pc \in {"invoked", "except"} /\ AtKey(k)) =>
          k \in seen \/ runs[k] <= MAX_ATTEMPTS * Failures + attempts[k]
    /\ pc \in {"invoked", "except"} /\ AtKey(k) =>
          runs[k] <= MAX_ATTEMPTS * Failures + attempts[k] + 1

(* A decision is in the file, or its line was glued to a torn one.         *)
Recorded(k, d) == HasRow(k, d) \/ <<k, d>> \in lost
HasAllow(i) == \E k \in Keys : k[2] = i /\ Recorded(k, "allow")

OksInv == \A k \in Keys \ evicted : OksBound(k)
RunsInv == \A k \in Keys \ evicted : RunsBound(k)
SeenAudited == \A k \in seen \cup stateFile.seen : \E d \in Decisions : Recorded(k, d)
IdsAudited ==
    /\ \A i \in ids : HasAllow(i)
    /\ baseline # None => \A i \in baseline : HasAllow(i)

(* A torn line has cost a failure already, and will swallow one decision.  *)
LostBounded ==
    /\ IsFiniteSet(lost)
    /\ Cardinality(lost) <= Failures
    /\ IsTorn(auditFile) => Cardinality(lost) + 1 <= Failures
--------------------------------------------------------------------------------
(* A job in hand is a line of the queue, and its key and issue are known.  *)
LEMMA JobInHand ==
    ASSUME TypeOK, todo # <<>>
    PROVE  /\ Job \in JobLines /\ Key \in Keys
           /\ Tail(todo) \in Seq(JobLines)
           /\ {Job.issue} \ {None} \subseteq Issues
BY DEF TypeOK, Job, Key, Keys, Issues

(* What audit() appends is a row of the file's type. *)
LEMMA RowType ==
    ASSUME TypeOK, NEW k \in Keys, NEW d \in Decisions \cup {"partial", "garbled"}
    PROVE  /\ NextEntry(log, k, d) \in Rows
           /\ PlainLine(k, d) \in Rows
           /\ Appended(log) \in [process: Nat, size: Nat]
<1>1. log.process \in Nat /\ log.size \in Nat
  BY DEF TypeOK
<1>2. tip_hash(log) \in Seq(Nat)
  BY <1>1 DEF tip_hash, GENESIS_PREV_HASH
<1>3. GENESIS_PREV_HASH \in Seq(Nat)
  BY DEF GENESIS_PREV_HASH
<1>4. Appended(log) \in [process: Nat, size: Nat]
  BY <1>1 DEF Appended, TypeOK
<1> QED
  BY <1>1, <1>2, <1>3, <1>4 DEF NextEntry, PlainLine, Rows

LEMMA PlainRow ==
    ASSUME NEW k \in Keys, NEW d \in Decisions \cup {"partial", "garbled"}
    PROVE  /\ PlainLine(k, d) \in Rows
           /\ PlainLine(k, d).about = k /\ PlainLine(k, d).decision = d
BY DEF PlainLine, Rows, GENESIS_PREV_HASH

(* A line that is appended is a line of its own, and the file is whole, or *)
(* it is glued to a torn one; no row that was there is lost.               *)
LEMMA MirroredLine ==
    ASSUME NEW lines \in Seq(Rows), NEW line \in Rows, IsRow(line)
    PROVE  /\ Mirrored(lines, line) \in Seq(Rows)
           /\ ~IsTorn(Mirrored(lines, line))
           /\ \A r \in DOMAIN lines : IsRow(lines[r]) =>
                 r \in DOMAIN Mirrored(lines, line) /\ Mirrored(lines, line)[r] = lines[r]
           /\ ~IsTorn(lines) =>
                 \E r \in DOMAIN Mirrored(lines, line) : Mirrored(lines, line)[r] = line
<1>1. CASE IsTorn(lines)
  <2> DEFINE n == Len(lines)
             bad == PlainLine(line.about, "garbled")
  <2>1. n \in DOMAIN lines /\ lines[n].decision = "partial"
    BY <1>1 DEF IsTorn
  <2>2. bad \in Rows /\ bad.decision = "garbled"
    BY PlainRow DEF Rows
  <2>3. Mirrored(lines, line) = [lines EXCEPT ![n] = bad]
    BY <1>1 DEF Mirrored
  <2> HIDE DEF bad
  <2>4. /\ Mirrored(lines, line) \in Seq(Rows) /\ Len(Mirrored(lines, line)) = n
        /\ DOMAIN Mirrored(lines, line) = DOMAIN lines
        /\ Mirrored(lines, line)[n] = bad
        /\ \A r \in DOMAIN lines : r # n => Mirrored(lines, line)[r] = lines[r]
    BY <2>1, <2>2, <2>3
  <2> QED
    BY <1>1, <2>1, <2>2, <2>4 DEF IsTorn, IsRow, Decisions
<1>2. CASE ~IsTorn(lines)
  <2>1. Mirrored(lines, line) = Append(lines, line)
    BY <1>2 DEF Mirrored
  <2>2. /\ Len(Append(lines, line)) = Len(lines) + 1 /\ Append(lines, line) \in Seq(Rows)
        /\ Append(lines, line)[Len(lines) + 1] = line
        /\ Len(lines) + 1 \in DOMAIN Append(lines, line)
        /\ \A r \in DOMAIN lines : /\ r \in DOMAIN Append(lines, line)
                                   /\ Append(lines, line)[r] = lines[r]
    OBVIOUS
  <2> QED
    BY <2>1, <2>2 DEF IsTorn, IsRow, Decisions
<1> QED
  BY <1>1, <1>2

LEMMA TornLine ==
    ASSUME NEW lines \in Seq(Rows), NEW k \in Keys
    PROVE  /\ Torn(lines, k) \in Seq(Rows) /\ IsTorn(Torn(lines, k))
           /\ \A r \in DOMAIN lines : r \in DOMAIN Torn(lines, k) /\ Torn(lines, k)[r] = lines[r]
<1>1. PlainLine(k, "partial") \in Rows /\ PlainLine(k, "partial").decision = "partial"
  BY PlainRow
<1>2. ASSUME NEW bad \in Rows
      PROVE  /\ Append(lines, bad) \in Seq(Rows) /\ Append(lines, bad) # <<>>
             /\ Append(lines, bad)[Len(Append(lines, bad))] = bad
             /\ \A r \in DOMAIN lines : /\ r \in DOMAIN Append(lines, bad)
                                        /\ Append(lines, bad)[r] = lines[r]
  <2>1. /\ Append(lines, bad) \in Seq(Rows)
        /\ Len(Append(lines, bad)) = Len(lines) + 1 /\ Len(lines) \in Nat
        /\ DOMAIN lines = 1..Len(lines)
        /\ DOMAIN Append(lines, bad) = 1..Len(lines) + 1
        /\ Append(lines, bad)[Len(lines) + 1] = bad
        /\ \A r \in 1..Len(lines) : Append(lines, bad)[r] = lines[r]
    OBVIOUS
  <2>2. Append(lines, bad) # <<>>
    BY <2>1
  <2> QED
    BY <2>1, <2>2
<1> QED
  BY <1>1, <1>2 DEF Torn, IsTorn

(* Rows stay, so what is recorded stays recorded.                          *)
LEMMA RecordsStay ==
    ASSUME lost \subseteq lost',
           \A r \in DOMAIN auditFile : IsRow(auditFile[r]) =>
              r \in DOMAIN auditFile' /\ auditFile'[r] = auditFile[r]
    PROVE  /\ \A k, d : d \in Decisions /\ Recorded(k, d) => Recorded(k, d)'
           /\ \A i : HasAllow(i) => HasAllow(i)'
<1>1. \A k, d : d \in Decisions /\ Recorded(k, d) => Recorded(k, d)'
  BY DEF Recorded, HasRow, IsRow
<1> QED
  BY <1>1 DEF HasAllow, Decisions

(* One audited decision: it is recorded, the file ends in a whole line,    *)
(* and what is lost was paid for by a torn line or by a failure.           *)
LEMMA AuditedType ==
    ASSUME TypeOK, NEW k \in Keys, NEW d \in Decisions, Audited(k, d)
    PROVE  /\ log' \in [process: Nat, size: Nat]
           /\ auditFile' \in Seq(Rows)
           /\ faults' \in Nat /\ faults' >= faults
           /\ lost' \subseteq Keys \X Decisions
           /\ lost \subseteq lost'
           /\ \A r \in DOMAIN auditFile : IsRow(auditFile[r]) =>
                 r \in DOMAIN auditFile' /\ auditFile'[r] = auditFile[r]
           /\ Recorded(k, d)'
           /\ ~IsTorn(auditFile')
           /\ \/ lost' = lost
              \/ /\ lost' = lost \cup {<<k, d>>}
                 /\ IsTorn(auditFile) \/ faults' = faults + 1
<1> DEFINE row == NextEntry(log, k, d)
           plain == PlainLine(k, d)
<1>1. /\ row \in Rows /\ IsRow(row) /\ row.about = k /\ row.decision = d
      /\ plain \in Rows /\ IsRow(plain) /\ plain.about = k /\ plain.decision = d
  <2>1. row \in Rows /\ plain \in Rows
    BY RowType
  <2>2. row.about = k /\ row.decision = d /\ plain.about = k /\ plain.decision = d
    BY DEF NextEntry, PlainLine
  <2> QED
    BY <2>1, <2>2 DEF IsRow
<1>2. faults \in Nat /\ auditFile \in Seq(Rows) /\ lost \subseteq Keys \X Decisions
      /\ Torn(auditFile, k) \in Seq(Rows)
  BY TornLine DEF TypeOK
<1>3. PICK line \in {row, plain}, file \in {auditFile, Torn(auditFile, k)} :
         /\ auditFile' = Mirrored(file, line)
         /\ \/ /\ file = auditFile /\ faults' \in Nat /\ faults' >= faults
               /\ lost' = IF IsTorn(auditFile) THEN lost \cup {<<k, d>>} ELSE lost
            \/ lost' = lost \cup {<<k, d>>} /\ faults' = faults + 1
  BY <1>2 DEF Audited, Fault
<1> HIDE DEF row, plain
<1>4. line \in Rows /\ IsRow(line) /\ line.about = k /\ line.decision = d
  BY <1>1, <1>3
<1>5. file \in Seq(Rows)
  BY <1>2, <1>3
<1>6. /\ auditFile' \in Seq(Rows) /\ ~IsTorn(auditFile')
      /\ \A r \in DOMAIN file : IsRow(file[r]) =>
            r \in DOMAIN auditFile' /\ auditFile'[r] = file[r]
      /\ ~IsTorn(file) => \E r \in DOMAIN auditFile' : auditFile'[r] = line
  BY <1>3, <1>4, <1>5, MirroredLine
<1>7. \A r \in DOMAIN auditFile : r \in DOMAIN file /\ file[r] = auditFile[r]
  BY <1>2, <1>3, TornLine
<1>8. Recorded(k, d)'
  <2>1. CASE lost' = lost \cup {<<k, d>>}
    BY <2>1 DEF Recorded
  <2>2. CASE file = auditFile /\ ~IsTorn(auditFile)
    BY <1>4, <1>6, <2>2 DEF Recorded, HasRow
  <2> QED
    BY <1>3, <2>1, <2>2
<1>9. log' \in [process: Nat, size: Nat]
  BY RowType DEF Audited
<1>10. faults' \in Nat /\ faults' >= faults
  BY <1>2, <1>3
<1>11. /\ lost' \subseteq Keys \X Decisions /\ lost \subseteq lost'
       /\ \/ lost' = lost
          \/ lost' = lost \cup {<<k, d>>} /\ (IsTorn(auditFile) \/ faults' = faults + 1)
  BY <1>2, <1>3
<1> QED
  BY <1>6, <1>7, <1>8, <1>9, <1>10, <1>11

LEMMA AuditRaisesType ==
    ASSUME TypeOK, NEW k \in Keys, AuditRaises(k)
    PROVE  /\ log' \in [process: Nat, size: Nat]
           /\ auditFile' \in Seq(Rows)
           /\ \A r \in DOMAIN auditFile :
                 r \in DOMAIN auditFile' /\ auditFile'[r] = auditFile[r]
           /\ faults' = faults + 1 /\ faults' \in Nat
           /\ lost' = lost
<1>1. log' \in [process: Nat, size: Nat]
  BY DEF AuditRaises, TypeOK, Appended
<1>2. auditFile \in Seq(Rows)
  BY DEF TypeOK
<1> QED
  BY <1>1, <1>2, TornLine DEF AuditRaises, Fault, TypeOK

LEMMA NoAttemptsType == NoAttempts \in Attempts /\ EmptyState \in [seen: SUBSET Keys, attempts: Attempts]
<1>1. 0 \in 0..MAX_ATTEMPTS - 1
  BY DispatcherConstants
<1> QED
  BY <1>1 DEF NoAttempts, EmptyState, Attempts

(* drain() ends and its locals are dropped. *)
LEMMA LeaveType ==
    ASSUME Leave
    PROVE  /\ pc' = "idle" /\ todo' = <<>> /\ todo' \in Seq(JobLines)
           /\ seen' \subseteq Keys /\ attempts' \in Attempts /\ ids' \subseteq Issues
BY NoAttemptsType DEF Leave

(* Every step of the dispatcher, the receiver or a crash keeps the types.  *)
LEMMA TypeStep == TypeOK /\ [Next]_vars => TypeOK'
<1> SUFFICES ASSUME TypeOK, [Next]_vars PROVE TypeOK'
  OBVIOUS
<1>1. CASE UNCHANGED vars
  BY <1>1 DEF TypeOK, vars, diskVars, drainVars, histVars, Key, Job
<1>2. CASE \E l \in JobLines : Enqueue(l)
  BY <1>2, DispatcherConstants DEF Enqueue, TypeOK, drainVars, histVars, Key, Job
<1>3. CASE StartDrain
  BY <1>3 DEF StartDrain, TypeOK, diskVars, histVars
<1>4. CASE Skip
  <2>1. todo # <<>> /\ pc' = "job" /\ todo' = Tail(todo)
    BY <1>4 DEF Skip, AtJob, NextJob
  <2> QED
    BY <1>4, <2>1, JobInHand DEF Skip, TypeOK, diskVars, histVars
<1>5. CASE Reject
  <2>1. todo # <<>> /\ Key \in Keys /\ Tail(todo) \in Seq(JobLines)
    BY <1>5, JobInHand DEF Reject, IsNewJob, AtJob
  <2>2. CASE /\ Audited(Key, "block") /\ NextJob
             /\ seen' = seen \cup {Key} /\ UNCHANGED <<attempts, ids>>
    <3>1. /\ log' \in [process: Nat, size: Nat] /\ auditFile' \in Seq(Rows)
          /\ faults' \in Nat /\ lost' \subseteq Keys \X Decisions
      BY <2>1, <2>2, AuditedType DEF Decisions
    <3> QED
      BY <1>5, <2>1, <2>2, <3>1 DEF Reject, NextJob, TypeOK
  <2>3. CASE AuditRaises(Key) /\ Leave
    <3>1. /\ log' \in [process: Nat, size: Nat] /\ auditFile' \in Seq(Rows)
          /\ faults' \in Nat /\ lost' = lost
      BY <2>1, <2>3, AuditRaisesType
    <3> QED
      BY <1>5, <2>3, <3>1, LeaveType DEF Reject, TypeOK
  <2> QED
    BY <1>5, <2>2, <2>3 DEF Reject
<1>6. CASE Invoke
  <2>1. todo # <<>> /\ Key \notin seen /\ Key \in Keys
    BY <1>6, JobInHand DEF Invoke, IsNewJob, AtJob
  <2>2. runs' \in [Keys -> Nat] /\ oks' \in [Keys -> Nat] /\ pc' \in {"invoked", "except"}
    <3>1. runs \in [Keys -> Nat] /\ oks \in [Keys -> Nat]
      BY DEF TypeOK
    <3>2. /\ runs' = [runs EXCEPT ![Key] = runs[Key] + 1]
          /\ \/ oks' = [oks EXCEPT ![Key] = oks[Key] + 1] /\ pc' = "invoked"
             \/ oks' = oks /\ pc' = "except"
      BY <1>6 DEF Invoke
    <3> QED
      BY <2>1, <3>1, <3>2
  <2> QED
    BY <1>6, <2>1, <2>2 DEF Invoke, TypeOK, diskVars, drainVars, Key, Job
<1>7. CASE Allow
  <2>1. todo # <<>> /\ Key \notin seen
    BY <1>7 DEF Allow, TypeOK
  <2>2. /\ Key \in Keys /\ Tail(todo) \in Seq(JobLines)
        /\ {Job.issue} \ {None} \subseteq Issues
    BY <2>1, JobInHand
  <2>3. CASE /\ Audited(Key, "allow") /\ Settle(Key) /\ NextJob
             /\ ids' = ids \cup ({Job.issue} \ {None})
       <3>1. seen' \subseteq Keys /\ attempts' \in Attempts
      BY <2>2, <2>3, DispatcherConstants DEF Settle, TypeOK, Attempts
    <3>2. ids' \subseteq Issues
      BY <2>2, <2>3 DEF TypeOK
    <3>3. pc' = "job" /\ todo' \in Seq(JobLines)
      BY <2>2, <2>3 DEF NextJob
    <3>4. /\ log' \in [process: Nat, size: Nat] /\ auditFile' \in Seq(Rows)
          /\ faults' \in Nat /\ lost' \subseteq Keys \X Decisions
      BY <2>2, <2>3, AuditedType DEF Decisions
    <3> QED
      BY <1>7, <3>1, <3>2, <3>3, <3>4 DEF Allow, TypeOK
  <2>4. CASE AuditRaises(Key) /\ pc' = "except" /\ UNCHANGED drainVars
    <3>1. /\ log' \in [process: Nat, size: Nat] /\ auditFile' \in Seq(Rows)
          /\ faults' \in Nat /\ lost' = lost
      BY <2>2, <2>4, AuditRaisesType
    <3> QED
      BY <1>7, <2>1, <2>4, <3>1 DEF Allow, TypeOK, drainVars, Key, Job
  <2> QED
    BY <1>7, <2>3, <2>4 DEF Allow
<1>8. CASE Failed
  <2>1. todo # <<>> /\ Key \in Keys /\ Tail(todo) \in Seq(JobLines) /\ attempts[Key] \in Nat
    BY <1>8, JobInHand DEF Failed, TypeOK, Attempts
  <2>2. CASE AuditRaises(Key) /\ Leave
    <3>1. /\ log' \in [process: Nat, size: Nat] /\ auditFile' \in Seq(Rows)
          /\ faults' \in Nat /\ lost' = lost
      BY <2>1, <2>2, AuditRaisesType
    <3> QED
      BY <1>8, <2>2, <3>1, LeaveType DEF Failed, TypeOK
  <2>3. CASE Audited(Key, "block") /\ NextJob /\ UNCHANGED ids
    <3>1. seen' \subseteq Keys /\ attempts' \in Attempts
      <4>1. CASE Exhausted(attempts[Key] + 1) /\ Settle(Key)
        BY <2>1, <4>1, DispatcherConstants DEF Settle, TypeOK, Attempts
      <4>2. CASE /\ ~Exhausted(attempts[Key] + 1) /\ UNCHANGED seen
                 /\ attempts' = [attempts EXCEPT ![Key] = attempts[Key] + 1]
        <5>1. attempts[Key] + 1 \in 0..MAX_ATTEMPTS - 1
          BY <2>1, <4>2, DispatcherConstants DEF Exhausted
        <5> QED
          BY <2>1, <4>2, <5>1 DEF TypeOK, Attempts
      <4>3. CASE AuditRaises(Key) /\ Leave
        BY <4>3, LeaveType
      <4> QED
        BY <1>8, <4>1, <4>2, <4>3 DEF Failed
    <3>2. pc' = "job" /\ todo' \in Seq(JobLines)
      BY <2>1, <2>3 DEF NextJob
    <3>3. /\ log' \in [process: Nat, size: Nat] /\ auditFile' \in Seq(Rows)
          /\ faults' \in Nat /\ lost' \subseteq Keys \X Decisions
      BY <2>1, <2>3, AuditedType DEF Decisions
    <3> QED
      BY <1>8, <2>3, <3>1, <3>2, <3>3 DEF Failed, TypeOK
  <2> QED
    BY <1>8, <2>2, <2>3 DEF Failed
<1>9. CASE Save
  <2>1. CASE /\ \E kept \in Kept(seen) :
                   /\ stateFile' = [seen |-> kept, attempts |-> attempts]
                   /\ evicted' = evicted \cup (seen \ kept)
             /\ UNCHANGED faults
    <3>1. stateFile' \in [seen: SUBSET Keys, attempts: Attempts] /\ evicted' \subseteq Keys
      BY <2>1 DEF Kept, TypeOK
    <3>2. CASE ids = {} /\ Leave
      BY <1>9, <2>1, <3>1, <3>2, LeaveType DEF Save, TypeOK
    <3>3. CASE pc' = "baseline" /\ UNCHANGED drainVars
      BY <1>9, <2>1, <3>1, <3>3 DEF Save, TypeOK, drainVars
    <3>4. CASE Leave
      BY <1>9, <2>1, <3>1, <3>4, LeaveType DEF Save, TypeOK
    <3> QED
      BY <1>9, <3>2, <3>3, <3>4 DEF Save
  <2>2. CASE /\ stateFile' \in {stateFile, EmptyState} /\ Fault
             /\ Leave /\ UNCHANGED evicted
    BY <1>9, <2>2, LeaveType, NoAttemptsType DEF Save, TypeOK, Fault
  <2> QED
    BY <1>9, <2>1, <2>2 DEF Save
<1>10. CASE WriteBaseline
  <2>1. CASE baseline' = ids /\ Leave /\ UNCHANGED faults
    BY <1>10, <2>1, LeaveType DEF WriteBaseline, TypeOK, histVars
  <2>2. CASE baseline' \in {baseline, None} /\ Fault /\ Leave
    BY <1>10, <2>2, LeaveType DEF WriteBaseline, TypeOK, histVars, Fault
  <2> QED
    BY <1>10, <2>1, <2>2 DEF WriteBaseline
<1>11. CASE CrashRestart
  <2>1. crashes' \in Nat /\ log' \in [process: Nat, size: Nat]
    BY <1>11 DEF CrashRestart, TypeOK, NewLog
  <2>2. /\ stateFile' \in [seen: SUBSET Keys, attempts: Attempts]
        /\ baseline' \in (SUBSET Issues) \cup {None}
    BY <1>11, NoAttemptsType DEF CrashRestart, TypeOK
  <2>3. auditFile' \in Seq(Rows)
    <3>1. CASE Auditing /\ auditFile' = Torn(auditFile, Key)
      <4>1. Key \in Keys /\ auditFile \in Seq(Rows)
        BY <3>1, JobInHand DEF Auditing, IsNewJob, AtJob, TypeOK
      <4> QED
        BY <3>1, <4>1, TornLine
    <3> QED
      BY <1>11, <3>1 DEF CrashRestart, TypeOK
  <2> QED
    BY <1>11, <2>1, <2>2, <2>3, LeaveType DEF CrashRestart, TypeOK, histVars
<1> QED
  BY <1>1, <1>2, <1>3, <1>4, <1>5, <1>6, <1>7, <1>8, <1>9, <1>10, <1>11 DEF Next, Step

(* Every reachable state has its variables in range: in particular a       *)
(* failure counter stays below MAX_ATTEMPTS (drain's quarantine).          *)
THEOREM TypeCorrect == Spec => []TypeOK
<1>1. Init => TypeOK
  <2> SUFFICES ASSUME Init PROVE TypeOK
    OBVIOUS
  <2>1. runs \in [Keys -> Nat] /\ oks \in [Keys -> Nat]
    BY DEF Init
  <2> QED
    BY <2>1, NoAttemptsType, DispatcherConstants DEF Init, TypeOK, NewLog
<1> QED
  BY <1>1, TypeStep, PTL DEF Spec
--------------------------------------------------------------------------------
(* A drain that is cut short costs one failure, and that pays for whatever *)
(* it did to a key since the state was last persisted.                     *)
LEMMA OksLoss ==
    ASSUME TypeOK, NEW k \in Keys, OksBound(k), pc' = "idle",
           Failures' = Failures + 1, UNCHANGED oks
    PROVE  OksBound(k)'
<1>1. oks[k] \in Nat /\ Failures \in Nat
  BY DEF TypeOK, Failures
<1> QED
  BY <1>1 DEF OksBound, Draining

LEMMA OksStep == TypeOK /\ OksInv /\ [Next]_vars => OksInv'
<1> SUFFICES ASSUME TypeOK, OksInv, [Next]_vars, NEW k \in Keys, k \notin evicted'
             PROVE  OksBound(k)'
  BY DEF OksInv
<1> USE DEF Failures, Draining
<1>a. oks[k] \in Nat /\ crashes \in Nat /\ faults \in Nat
  BY DEF TypeOK
<1>b. evicted \subseteq evicted'
  BY DEF vars, histVars, Next, Step, Enqueue, StartDrain, Skip, Reject, Invoke, Allow,
         Failed, Save, WriteBaseline, CrashRestart
<1>c. OksBound(k)
  BY <1>b DEF OksInv
<1>1. CASE UNCHANGED vars
  BY <1>1, <1>c DEF OksBound, AtKey, Key, Job, vars, diskVars, drainVars, histVars
<1>2. CASE \E l \in JobLines : Enqueue(l)
  BY <1>2, <1>c DEF Enqueue, OksBound, AtKey, Key, Job, drainVars, histVars
<1>3. CASE StartDrain
  BY <1>3, <1>c DEF StartDrain, OksBound, AtKey, diskVars, histVars
<1>4. CASE Skip
  BY <1>4, <1>c DEF Skip, AtJob, NextJob, OksBound, AtKey, diskVars, histVars
<1>5. CASE Reject
  <2>1. CASE Audited(Key, "block") /\ NextJob /\ seen' = seen \cup {Key}
    <3>1. faults' \in Nat /\ faults' >= faults
      BY <2>1, <1>a DEF Audited, Fault
    <3> QED
      BY <1>5, <1>a, <1>c, <2>1, <3>1
      DEF Reject, IsNewJob, AtJob, NextJob, OksBound, AtKey
  <2>2. CASE AuditRaises(Key) /\ Leave
    BY <1>5, <1>c, <2>2, OksLoss DEF Reject, AuditRaises, Fault, Leave, TypeOK
  <2> QED
    BY <1>5, <2>1, <2>2 DEF Reject
<1>6. CASE Invoke
  <2>1. pc = "job" /\ Key \notin seen /\ todo # <<>> /\ Key \in Keys
    BY <1>6, JobInHand DEF Invoke, IsNewJob, AtJob
  <2>2. todo' = todo /\ Key' = Key /\ UNCHANGED <<seen, stateFile, crashes, faults>>
    BY <1>6 DEF Invoke, Key, Job, diskVars, drainVars
  <2>3. k = Key => oks[k] <= crashes + faults
    BY <1>c, <2>1 DEF OksBound
  <2>4. CASE oks' = [oks EXCEPT ![Key] = @ + 1] /\ pc' = "invoked"
    BY <1>a, <1>c, <2>1, <2>2, <2>3, <2>4 DEF OksBound, AtKey, TypeOK
  <2>5. CASE UNCHANGED oks /\ pc' = "except"
    BY <1>a, <1>c, <2>1, <2>2, <2>5 DEF OksBound, AtKey
  <2> QED
    BY <1>6, <2>4, <2>5 DEF Invoke
<1>7. CASE Allow
  <2>1. CASE Audited(Key, "allow") /\ Settle(Key) /\ NextJob
    <3>1. faults' \in Nat /\ faults' >= faults
      BY <2>1, <1>a DEF Audited, Fault
    <3> QED
      BY <1>7, <1>a, <1>c, <2>1, <3>1
      DEF Allow, NextJob, Settle, OksBound, AtKey, TypeOK
  <2>2. CASE AuditRaises(Key) /\ pc' = "except" /\ UNCHANGED drainVars
    BY <1>7, <1>a, <1>c, <2>2 DEF Allow, AuditRaises, Fault, OksBound, drainVars
  <2> QED
    BY <1>7, <2>1, <2>2 DEF Allow
<1>8. CASE Failed
  <2>1. CASE Audited(Key, "block") /\ NextJob /\ UNCHANGED ids
    <3>1. faults' \in Nat /\ faults' >= faults
      BY <2>1, <1>a DEF Audited, Fault
    <3>2. seen \subseteq seen' \/ (AuditRaises(Key) /\ Leave)
      BY <1>8, <2>1 DEF Failed, Settle
    <3>3. CASE AuditRaises(Key) /\ Leave
      BY <1>8, <1>c, <3>3, OksLoss DEF Failed, AuditRaises, Fault, Leave, TypeOK
    <3>4. CASE seen \subseteq seen'
      BY <1>8, <1>a, <1>c, <2>1, <3>1, <3>4 DEF Failed, NextJob, OksBound, AtKey
    <3> QED
      BY <3>2, <3>3, <3>4
  <2>2. CASE AuditRaises(Key) /\ Leave
    BY <1>8, <1>c, <2>2, OksLoss DEF Failed, AuditRaises, Fault, Leave, TypeOK
  <2> QED
    BY <1>8, <2>1, <2>2 DEF Failed
<1>9. CASE Save
  <2>1. CASE /\ \E kept \in Kept(seen) :
                   /\ stateFile' = [seen |-> kept, attempts |-> attempts]
                   /\ evicted' = evicted \cup (seen \ kept)
             /\ \/ ids = {} /\ Leave
                \/ ids # {} /\ pc' = "baseline" /\ UNCHANGED drainVars
             /\ UNCHANGED faults
    BY <1>9, <1>a, <1>c, <2>1 DEF Save, OksBound, Leave, AtKey, drainVars
  <2>2. CASE Fault /\ Leave
    BY <1>9, <1>c, <2>2, OksLoss DEF Save, Fault, Leave, TypeOK
  <2> QED
    BY <1>9, <2>1, <2>2 DEF Save
<1>10. CASE WriteBaseline
  <2>1. CASE Leave /\ UNCHANGED faults
    BY <1>10, <1>c, <2>1 DEF WriteBaseline, histVars, Leave, OksBound
  <2>2. CASE Fault /\ Leave
    BY <1>10, <1>c, <2>2, OksLoss DEF WriteBaseline, histVars, Fault, Leave, TypeOK
  <2> QED
    BY <1>10, <2>1, <2>2 DEF WriteBaseline
<1>11. CASE CrashRestart
  BY <1>11, <1>c, OksLoss DEF CrashRestart, histVars, Leave, TypeOK
<1> QED
  BY <1>1, <1>2, <1>3, <1>4, <1>5, <1>6, <1>7, <1>8, <1>9, <1>10, <1>11 DEF Next, Step

(* The dispatcher's dedup: an invocation that returned is repeated at most *)
(* once per crash or I/O error, for a key never evicted from the state.    *)
THEOREM DuplicatesBounded == Spec => []DuplicatesNeedFailure
<1>1. Init => OksInv
  BY DEF Init, OksInv, OksBound, Failures, Draining
<1>2. TypeOK /\ OksInv => DuplicatesNeedFailure
  BY DEF TypeOK, OksInv, OksBound, DuplicatesNeedFailure, Failures
<1> QED
  BY <1>1, <1>2, OksStep, TypeCorrect, PTL DEF Spec
--------------------------------------------------------------------------------
(* (Needed by name where the summands are primed.) *)
LEMMA SumIsNat == \A a, b \in Nat : a + b \in Nat
OBVIOUS

(* The allowance grows by MAX_ATTEMPTS with each failure. *)
LEMMA Allowance ==
    ASSUME NEW f \in Nat
    PROVE  /\ MAX_ATTEMPTS * f \in Nat
           /\ MAX_ATTEMPTS * (1 + f) = MAX_ATTEMPTS * f + MAX_ATTEMPTS
           /\ \A g \in Nat : g >= f => MAX_ATTEMPTS * g >= MAX_ATTEMPTS * f
<1>1. MAX_ATTEMPTS \in Nat
  BY DispatcherConstants
<1> QED
  BY <1>1

LEMMA RunsLoss ==
    ASSUME TypeOK, stateFile'.attempts \in Attempts, NEW k \in Keys, RunsBound(k), pc' = "idle",
           Failures' = Failures + 1, UNCHANGED runs
    PROVE  RunsBound(k)'
<1>1. runs[k] \in Nat /\ Failures \in Nat
  BY DEF TypeOK, Failures
<1>2. Failures' = 1 + Failures /\ Failures' \in Nat
  BY <1>1
<1>3. MAX_ATTEMPTS * Failures' \in Nat /\ MAX_ATTEMPTS * (1 + Failures') \in Nat
      /\ MAX_ATTEMPTS * (1 + Failures') >= MAX_ATTEMPTS * Failures'
  BY <1>2, Allowance
<1>4. stateFile'.attempts[k] \in Nat
  BY DEF Attempts
<1>5. runs'[k] <= MAX_ATTEMPTS * Failures'
  BY <1>2 DEF RunsBound
<1>6. runs'[k] <= MAX_ATTEMPTS * (1 + Failures')
  BY <1>1, <1>3, <1>5
<1>7. runs'[k] <= MAX_ATTEMPTS * Failures' + stateFile'.attempts[k]
  BY <1>1, <1>3, <1>4, <1>5
<1> QED
  BY <1>6, <1>7 DEF RunsBound, Draining

LEMMA RunsStep == TypeOK /\ RunsInv /\ [Next]_vars => RunsInv'
<1> SUFFICES ASSUME TypeOK, RunsInv, [Next]_vars, NEW k \in Keys, k \notin evicted'
             PROVE  RunsBound(k)'
  BY DEF RunsInv
<1>t. TypeOK'
  BY TypeStep
<1>a. runs[k] \in Nat /\ Failures \in Nat /\ attempts[k] \in 0..MAX_ATTEMPTS - 1
  BY DEF TypeOK, Failures, Attempts
<1>b. evicted \subseteq evicted'
  BY DEF vars, histVars, Next, Step, Enqueue, StartDrain, Skip, Reject, Invoke, Allow,
         Failed, Save, WriteBaseline, CrashRestart
<1>c. RunsBound(k)
  BY <1>b DEF RunsInv
<1>d. Failures' \in Nat /\ stateFile'.attempts \in Attempts
  <2>1. crashes' \in Nat /\ faults' \in Nat /\ stateFile'.attempts \in Attempts
    BY <1>t DEF TypeOK, Attempts
  <2> QED
    BY <2>1, SumIsNat DEF Failures
<1> DEFINE Low(f) == MAX_ATTEMPTS * f
<1>e. /\ Low(Failures) \in Nat /\ Low(Failures') \in Nat
      /\ Low(1 + Failures) = Low(Failures) + MAX_ATTEMPTS
      /\ Low(1 + Failures') = Low(Failures') + MAX_ATTEMPTS
      /\ Failures' >= Failures => Low(Failures') >= Low(Failures)
  BY <1>a, <1>d, Allowance
<1>f. MAX_ATTEMPTS \in Nat
  BY DispatcherConstants
<1>1. CASE UNCHANGED vars
  BY <1>1, <1>c DEF RunsBound, Draining, Failures, AtKey, Key, Job, vars, diskVars,
                    drainVars, histVars
<1>2. CASE \E l \in JobLines : Enqueue(l)
  BY <1>2, <1>c DEF Enqueue, RunsBound, Draining, Failures, AtKey, Key, Job, drainVars,
                    histVars
<1>3. CASE StartDrain
  BY <1>3, <1>c DEF StartDrain, RunsBound, Draining, Failures, diskVars, histVars
<1>4. CASE Skip
  BY <1>4, <1>c DEF Skip, AtJob, NextJob, RunsBound, Draining, Failures, diskVars, histVars
<1>5. CASE Reject
  <2>1. CASE Audited(Key, "block") /\ NextJob /\ seen' = seen \cup {Key} /\ UNCHANGED attempts
    <3>1. Failures' >= Failures
      BY <1>5, <2>1 DEF Audited, Fault, Reject, Failures, TypeOK
    <3>2. pc = "job" /\ pc' = "job" /\ UNCHANGED <<runs, attempts>>
      BY <1>5, <2>1 DEF Reject, IsNewJob, AtJob, NextJob
    <3>3. k \in seen \/ runs[k] <= Low(Failures) + attempts[k]
      BY <1>c, <3>2 DEF RunsBound, Draining
    <3>4. k \in seen' \/ runs[k] <= Low(Failures') + attempts[k]
      BY <1>a, <1>e, <2>1, <3>1, <3>3
    <3>5. runs[k] <= Low(1 + Failures')
      BY <1>a, <1>c, <1>e, <1>f, <3>1 DEF RunsBound
    <3> QED
      BY <3>2, <3>4, <3>5 DEF RunsBound, Draining
  <2>2. CASE AuditRaises(Key) /\ Leave
    BY <1>5, <1>c, <1>d, <2>2, RunsLoss DEF Reject, AuditRaises, Fault, Leave, TypeOK, Failures
  <2> QED
    BY <1>5, <2>1, <2>2 DEF Reject
<1>6. CASE Invoke
  <2>1. pc = "job" /\ Key \notin seen /\ todo # <<>> /\ Key \in Keys
    BY <1>6, JobInHand DEF Invoke, IsNewJob, AtJob
  <2>2. /\ todo' = todo /\ Key' = Key /\ UNCHANGED <<seen, attempts, stateFile>>
        /\ Failures' = Failures /\ pc' \in {"invoked", "except"}
        /\ runs' = [runs EXCEPT ![Key] = @ + 1]
    BY <1>6 DEF Invoke, Key, Job, diskVars, drainVars, Failures
  <2>3. k \in seen \/ runs[k] <= Low(Failures) + attempts[k]
    BY <1>c, <2>1 DEF RunsBound, Draining
  <2>4. CASE k = Key
    <3>1. runs'[k] = runs[k] + 1
      BY <2>1, <2>2, <2>4 DEF TypeOK
    <3>2. runs'[k] <= Low(Failures) + attempts[k] + 1
      BY <1>a, <1>e, <2>1, <2>3, <2>4, <3>1
    <3>3. runs'[k] <= Low(1 + Failures)
      BY <1>a, <1>e, <1>f, <3>1, <3>2
    <3> QED
      BY <2>1, <2>2, <2>4, <3>2, <3>3 DEF RunsBound, Draining, AtKey
  <2>5. CASE k # Key
    <3>1. runs'[k] = runs[k]
      BY <2>1, <2>2, <2>5 DEF TypeOK
    <3> QED
      BY <1>c, <2>1, <2>2, <2>3, <2>5, <3>1 DEF RunsBound, Draining, AtKey
  <2> QED
    BY <2>4, <2>5
<1>7. CASE Allow
  <2>1. CASE Audited(Key, "allow") /\ Settle(Key) /\ NextJob
    <3>1. Failures' >= Failures
      BY <1>7, <2>1 DEF Audited, Fault, Allow, Failures, TypeOK
    <3>2. todo # <<>> /\ pc = "invoked" /\ pc' = "job" /\ UNCHANGED runs
      BY <1>7, <2>1 DEF Allow, NextJob, TypeOK
    <3>3. k # Key => attempts'[k] = attempts[k]
      BY <2>1 DEF Settle, TypeOK, Attempts
    <3>4. k \in seen' \/ runs[k] <= Low(Failures') + attempts'[k]
      BY <1>a, <1>c, <1>e, <2>1, <3>1, <3>2, <3>3 DEF RunsBound, Draining, AtKey, Settle
    <3>5. runs[k] <= Low(1 + Failures')
      BY <1>a, <1>c, <1>e, <1>f, <3>1 DEF RunsBound
    <3> QED
      BY <3>2, <3>4, <3>5 DEF RunsBound, Draining
  <2>2. CASE AuditRaises(Key) /\ pc' = "except" /\ UNCHANGED drainVars
    <3>1. Failures' >= Failures
      BY <1>7, <2>2 DEF AuditRaises, Fault, Allow, Failures, TypeOK
    <3>2. /\ pc = "invoked" /\ Key' = Key /\ UNCHANGED <<runs, seen, attempts, todo>>
      BY <1>7, <2>2 DEF Allow, drainVars, Key, Job
    <3>3. runs[k] <= Low(1 + Failures')
      BY <1>a, <1>c, <1>e, <1>f, <3>1 DEF RunsBound
    <3>4. AtKey(k) => runs[k] <= Low(Failures') + attempts[k] + 1
      BY <1>a, <1>c, <1>e, <3>1, <3>2 DEF RunsBound
    <3>5. ~AtKey(k) => k \in seen \/ runs[k] <= Low(Failures') + attempts[k]
      BY <1>a, <1>c, <1>e, <3>1, <3>2 DEF RunsBound, Draining
    <3> QED
      BY <2>2, <3>2, <3>3, <3>4, <3>5 DEF RunsBound, Draining, AtKey
  <2> QED
    BY <1>7, <2>1, <2>2 DEF Allow
<1>8. CASE Failed
  <2>1. CASE /\ Audited(Key, "block") /\ NextJob
             /\ \/ Settle(Key)
                \/ attempts' = [attempts EXCEPT ![Key] = attempts[Key] + 1] /\ UNCHANGED seen
    <3>1. Failures' >= Failures
      BY <1>8, <2>1 DEF Audited, Fault, Failed, Failures, TypeOK
    <3>2. todo # <<>> /\ pc = "except" /\ pc' = "job" /\ UNCHANGED runs
      BY <1>8, <2>1 DEF Failed, NextJob, TypeOK
    <3>3. k # Key => attempts'[k] = attempts[k]
      BY <2>1 DEF Settle, TypeOK, Attempts
    <3>4. k = Key => k \in seen' \/ attempts'[k] = attempts[k] + 1
      BY <2>1 DEF Settle, TypeOK, Attempts
    <3>5. CASE k = Key
      <4>1. runs[k] <= Low(Failures) + attempts[k] + 1
        BY <1>c, <3>2, <3>5 DEF RunsBound, AtKey
      <4>2. k \in seen' \/ runs[k] <= Low(Failures') + attempts'[k]
        BY <1>a, <1>e, <3>1, <3>4, <3>5, <4>1
      <4>3. runs[k] <= Low(1 + Failures')
        BY <1>a, <1>c, <1>e, <1>f, <3>1 DEF RunsBound
      <4> QED
        BY <3>2, <4>2, <4>3 DEF RunsBound, Draining
    <3>6. CASE k # Key
      <4>1. k \in seen \/ runs[k] <= Low(Failures) + attempts[k]
        BY <1>c, <3>2, <3>6 DEF RunsBound, Draining, AtKey
      <4>2. seen \subseteq seen'
        BY <2>1 DEF Settle
      <4>3. k \in seen' \/ runs[k] <= Low(Failures') + attempts'[k]
        BY <1>a, <1>e, <3>1, <3>3, <3>6, <4>1, <4>2
      <4>4. runs[k] <= Low(1 + Failures')
        BY <1>a, <1>c, <1>e, <1>f, <3>1 DEF RunsBound
      <4> QED
        BY <3>2, <4>3, <4>4 DEF RunsBound, Draining
    <3> QED
      BY <3>5, <3>6
  <2>2. CASE AuditRaises(Key) /\ Leave
    BY <1>8, <1>c, <1>d, <2>2, RunsLoss DEF Failed, AuditRaises, Fault, Leave, TypeOK, Failures
  <2> QED
    BY <1>8, <2>1, <2>2 DEF Failed
<1>9. CASE Save
  <2>1. CASE /\ \E kept \in Kept(seen) :
                   /\ stateFile' = [seen |-> kept, attempts |-> attempts]
                   /\ evicted' = evicted \cup (seen \ kept)
             /\ \/ ids = {} /\ Leave
                \/ ids # {} /\ pc' = "baseline" /\ UNCHANGED drainVars
             /\ UNCHANGED faults
    <3>1. pc = "job" /\ pc' \in {"idle", "baseline"} /\ UNCHANGED runs /\ Failures' = Failures
      BY <1>9, <2>1 DEF Save, Leave, Failures
    <3>2. k \in seen \/ runs[k] <= Low(Failures) + attempts[k]
      BY <1>c, <3>1 DEF RunsBound, Draining
    <3>3. k \in stateFile'.seen \/ runs[k] <= Low(Failures) + stateFile'.attempts[k]
      BY <2>1, <3>2
    <3> QED
      BY <1>c, <3>1, <3>3 DEF RunsBound, Draining
  <2>2. CASE Fault /\ Leave
    BY <1>9, <1>c, <1>d, <2>2, RunsLoss DEF Save, Fault, Leave, TypeOK, Failures
  <2> QED
    BY <1>9, <2>1, <2>2 DEF Save
<1>10. CASE WriteBaseline
  <2>1. CASE Leave /\ UNCHANGED faults
    BY <1>10, <1>c, <2>1 DEF WriteBaseline, histVars, Leave, RunsBound, Draining, Failures
  <2>2. CASE Fault /\ Leave
    BY <1>10, <1>c, <1>d, <2>2, RunsLoss DEF WriteBaseline, histVars, Fault, Leave, TypeOK, Failures
  <2> QED
    BY <1>10, <2>1, <2>2 DEF WriteBaseline
<1>11. CASE CrashRestart
  BY <1>11, <1>c, <1>d, RunsLoss DEF CrashRestart, histVars, Leave, TypeOK, Failures
<1> QED
  BY <1>1, <1>2, <1>3, <1>4, <1>5, <1>6, <1>7, <1>8, <1>9, <1>10, <1>11 DEF Next, Step

(* A job is invoked at most MAX_ATTEMPTS times, and that often again for   *)
(* each crash or I/O error: a poison job cannot be invoked for ever.       *)
THEOREM PoisonBounded == Spec => []RetriesBounded
<1>1. Init => RunsInv
  <2> SUFFICES ASSUME Init, NEW k \in Keys PROVE RunsBound(k)
    BY DEF RunsInv
  <2>1. Failures = 0 /\ runs[k] = 0 /\ stateFile.attempts[k] = 0 /\ pc = "idle"
    BY DEF Init, Failures, EmptyState, NoAttempts
  <2>2. MAX_ATTEMPTS * 0 \in Nat /\ MAX_ATTEMPTS * (1 + 0) \in Nat
    BY DispatcherConstants
  <2> QED
    BY <2>1, <2>2 DEF RunsBound, Draining
<1>2. TypeOK /\ RunsInv => RetriesBounded
  <2> SUFFICES ASSUME TypeOK, RunsInv, NEW k \in Keys \ evicted
               PROVE  runs[k] <= MAX_ATTEMPTS * (1 + crashes + faults)
    BY DEF RetriesBounded
  <2>1. 1 + Failures = 1 + crashes + faults
    BY DEF Failures, TypeOK
  <2> QED
    BY <2>1 DEF RunsInv, RunsBound
<1> QED
  BY <1>1, <1>2, RunsStep, TypeCorrect, PTL DEF Spec
--------------------------------------------------------------------------------
AuditInv == SeenAudited /\ IdsAudited

LEMMA RecordsKept ==
    ASSUME UNCHANGED <<auditFile, lost>>
    PROVE  /\ \A k, d : Recorded(k, d)' = Recorded(k, d)
           /\ \A i : HasAllow(i)' = HasAllow(i)
<1>1. \A k, d : Recorded(k, d)' = Recorded(k, d)
  BY DEF Recorded, HasRow
<1> QED
  BY <1>1 DEF HasAllow

(* An audited decision about the key in hand: the invariant's two parts.   *)
LEMMA AuditedRow ==
    ASSUME TypeOK, todo # <<>>, NEW d \in Decisions, Audited(Key, d)
    PROVE  /\ \A k, e : e \in Decisions /\ Recorded(k, e) => Recorded(k, e)'
           /\ \A k : k = Key => Recorded(k, d)'
           /\ \A i : HasAllow(i) \/ (d = "allow" /\ i = Job.issue) => HasAllow(i)'
<1>1. Key \in Keys /\ Key[2] = Job.issue
  BY JobInHand DEF Key, job_key
<1>2. /\ \A k, e : e \in Decisions /\ Recorded(k, e) => Recorded(k, e)'
      /\ \A i : HasAllow(i) => HasAllow(i)'
  BY <1>1, AuditedType, RecordsStay
<1>3. \A k : k = Key => Recorded(k, d)'
  BY <1>1, AuditedType
<1> QED
  BY <1>1, <1>2, <1>3 DEF HasAllow

LEMMA AuditRaisesRow ==
    ASSUME TypeOK, NEW key \in Keys, AuditRaises(key)
    PROVE  /\ \A k, e : e \in Decisions /\ Recorded(k, e) => Recorded(k, e)'
           /\ \A i : HasAllow(i) => HasAllow(i)'
BY AuditRaisesType, RecordsStay

LEMMA LocalsDropped ==
    ASSUME Leave PROVE seen' = {} /\ ids' = {}
BY DEF Leave

(* The invariant holds after a step that loses no record and settles only  *)
(* what is recorded.                                                       *)
LEMMA AuditGrows ==
    ASSUME AuditInv,
           \A k, e : e \in Decisions /\ Recorded(k, e) => Recorded(k, e)',
           \A i : HasAllow(i) => HasAllow(i)',
           \A k \in seen' \cup stateFile'.seen :
              k \in seen \cup stateFile.seen \/ \E d \in Decisions : Recorded(k, d)',
           \A i \in ids' : i \in ids \/ HasAllow(i)',
           baseline' \in {baseline, ids, None}
    PROVE  AuditInv'
<1>1. \A k \in seen' \cup stateFile'.seen : \E d \in Decisions : Recorded(k, d)'
  BY DEF AuditInv, SeenAudited
<1>2. \A i \in ids' : HasAllow(i)'
  BY DEF AuditInv, IdsAudited
<1>3. baseline' # None => \A i \in baseline' : HasAllow(i)'
  BY DEF AuditInv, IdsAudited
<1> QED
  BY <1>1, <1>2, <1>3 DEF AuditInv, SeenAudited, IdsAudited

LEMMA AuditStep == TypeOK /\ AuditInv /\ [Next]_vars => AuditInv'
<1> SUFFICES ASSUME TypeOK, AuditInv, [Next]_vars PROVE AuditInv'
  OBVIOUS
<1>1. ASSUME UNCHANGED <<auditFile, lost>>, seen' \subseteq seen \cup stateFile.seen,
             stateFile'.seen \subseteq seen \cup stateFile.seen, ids' \subseteq ids,
             baseline' \in {baseline, ids, None}
      PROVE  AuditInv'
  BY <1>1, RecordsKept, AuditGrows
<1>2. CASE UNCHANGED vars \/ \E l \in JobLines : Enqueue(l)
  BY <1>1, <1>2 DEF Enqueue, vars, diskVars, drainVars, histVars
<1>3. CASE StartDrain \/ Skip \/ Invoke
  BY <1>1, <1>3 DEF StartDrain, Skip, Invoke, diskVars, drainVars, histVars
<1>4. CASE Save
  <2>1. stateFile'.seen \subseteq seen \cup stateFile.seen
    BY <1>4 DEF Save, Kept, EmptyState, TypeOK
  <2>2. seen' \subseteq seen /\ ids' \subseteq ids
    BY <1>4, LocalsDropped DEF Save, drainVars
  <2> QED
    BY <1>1, <1>4, <2>1, <2>2 DEF Save
<1>5. CASE WriteBaseline
  BY <1>1, <1>5, LocalsDropped DEF WriteBaseline, histVars
<1>6. ASSUME todo # <<>>, AuditRaises(Key), UNCHANGED <<stateFile, baseline>>,
             seen' \subseteq seen, ids' \subseteq ids
      PROVE  AuditInv'
  <2>1. Key \in Keys
    BY <1>6, JobInHand
  <2>2. /\ \A k, e : e \in Decisions /\ Recorded(k, e) => Recorded(k, e)'
        /\ \A i : HasAllow(i) => HasAllow(i)'
    BY <1>6, <2>1, AuditRaisesRow
  <2> QED
    BY <1>6, <2>2, AuditGrows
<1>7. CASE Reject
  <2>1. todo # <<>>
    BY <1>7 DEF Reject, IsNewJob, AtJob
  <2>2. CASE Audited(Key, "block") /\ seen' = seen \cup {Key} /\ UNCHANGED ids
    BY <1>7, <2>1, <2>2, AuditedRow, AuditGrows DEF Reject, Decisions
  <2>3. CASE AuditRaises(Key) /\ Leave
    BY <1>6, <1>7, <2>1, <2>3, LocalsDropped DEF Reject
  <2> QED
    BY <1>7, <2>2, <2>3 DEF Reject
<1>8. CASE Allow
  <2>1. todo # <<>>
    BY <1>8 DEF Allow, TypeOK
  <2>2. CASE Audited(Key, "allow") /\ Settle(Key) /\ ids' = ids \cup ({Job.issue} \ {None})
    BY <1>8, <2>1, <2>2, AuditedRow, AuditGrows DEF Allow, Settle, Decisions
  <2>3. CASE AuditRaises(Key) /\ UNCHANGED drainVars
    BY <1>6, <1>8, <2>1, <2>3 DEF Allow, drainVars
  <2> QED
    BY <1>8, <2>2, <2>3 DEF Allow
<1>9. CASE Failed
  <2>1. todo # <<>>
    BY <1>9 DEF Failed, TypeOK
  <2>2. CASE Audited(Key, "block") /\ seen' \subseteq seen \cup {Key} /\ UNCHANGED ids
    BY <1>9, <2>1, <2>2, AuditedRow, AuditGrows DEF Failed, Decisions
  <2>3. CASE AuditRaises(Key) /\ Leave
    BY <1>6, <1>9, <2>1, <2>3, LocalsDropped DEF Failed
  <2> QED
    BY <1>9, <2>2, <2>3 DEF Failed, Settle
<1>10. CASE CrashRestart
  <2>1. CASE UNCHANGED auditFile
    BY <1>1, <1>10, <2>1, LocalsDropped DEF CrashRestart, EmptyState, histVars
  <2>2. CASE /\ Auditing /\ auditFile' = Torn(auditFile, Key)
             /\ UNCHANGED <<stateFile, baseline>>
    <3>1. lost' = lost /\ seen' = {} /\ ids' = {}
      BY <1>10, LocalsDropped DEF CrashRestart, histVars
    <3>2. Key \in Keys /\ auditFile \in Seq(Rows)
      BY <2>2, JobInHand DEF Auditing, IsNewJob, AtJob, TypeOK
    <3>3. \A r \in DOMAIN auditFile :
             r \in DOMAIN auditFile' /\ auditFile'[r] = auditFile[r]
      BY <2>2, <3>2, TornLine
    <3>4. /\ \A k, e : e \in Decisions /\ Recorded(k, e) => Recorded(k, e)'
          /\ \A i : HasAllow(i) => HasAllow(i)'
      BY <3>1, <3>3, RecordsStay
    <3> QED
      BY <2>2, <3>1, <3>4, AuditGrows
  <2> QED
    BY <1>10, <2>1, <2>2 DEF CrashRestart
<1> QED
  BY <1>2, <1>3, <1>4, <1>5, <1>7, <1>8, <1>9, <1>10 DEF Next, Step

(* A decision is lost on a torn line, that cost a failure, or with one.    *)
LEMMA LostPaid ==
    ASSUME TypeOK, LostBounded, NEW n \in Nat, NEW pair, NEW now, Failures <= n,
           \/ now = lost
           \/ now = lost \cup {pair} /\ (IsTorn(auditFile) \/ n = Failures + 1)
    PROVE  IsFiniteSet(now) /\ Cardinality(now) <= n
<1>1. Failures \in Nat /\ IsFiniteSet(lost) /\ Cardinality(lost) <= Failures
  BY DEF TypeOK, LostBounded, Failures
<1>2. Cardinality(lost) \in Nat
  BY <1>1, FS_CardinalityType
<1>3. CASE now = lost
  BY <1>1, <1>2, <1>3
<1>4. CASE now = lost \cup {pair} /\ (IsTorn(auditFile) \/ n = Failures + 1)
  <2>1. IsFiniteSet(now)
    BY <1>1, <1>4, FS_AddElement
  <2>2. Cardinality(now) = Cardinality(lost) \/ Cardinality(now) = Cardinality(lost) + 1
    BY <1>1, <1>4, FS_AddElement
  <2> QED
    BY <1>1, <1>2, <1>4, <2>1, <2>2 DEF LostBounded
<1> QED
  BY <1>3, <1>4

(* No step loses a decision that no failure paid for.                      *)
LEMMA LostStep == TypeOK /\ LostBounded /\ [Next]_vars => LostBounded'
<1> SUFFICES ASSUME TypeOK, LostBounded, [Next]_vars PROVE LostBounded'
  OBVIOUS
<1>1. Failures \in Nat /\ crashes \in Nat /\ faults \in Nat
  BY DEF Failures, TypeOK
<1>2. ASSUME lost' = lost, auditFile' = auditFile, Failures' \in Nat, Failures <= Failures'
      PROVE  LostBounded'
  <2>1. IsFiniteSet(lost) /\ Cardinality(lost) <= Failures
        /\ (IsTorn(auditFile) => Cardinality(lost) + 1 <= Failures)
    BY DEF LostBounded
  <2>2. Cardinality(lost) \in Nat
    BY <2>1, FS_CardinalityType
  <2>3. Cardinality(lost') <= Failures' /\ IsFiniteSet(lost')
        /\ (IsTorn(auditFile') => Cardinality(lost') + 1 <= Failures')
    BY <1>1, <1>2, <2>1, <2>2
  <2> QED
    BY <2>3 DEF LostBounded
<1>3. ASSUME NEW k \in Keys, NEW d \in Decisions, Audited(k, d), crashes' = crashes
      PROVE  LostBounded'
  <2>1. /\ faults' \in Nat /\ faults' >= faults /\ ~IsTorn(auditFile')
        /\ \/ lost' = lost
           \/ lost' = lost \cup {<<k, d>>} /\ (IsTorn(auditFile) \/ faults' = faults + 1)
    BY <1>3, AuditedType
  <2>2. Failures' \in Nat /\ Failures <= Failures'
        /\ (faults' = faults + 1 => Failures' = Failures + 1)
    <3>1. faults' \in Nat /\ faults' >= faults /\ crashes' = crashes
      BY <1>3, <2>1
    <3>2. Failures' = crashes + faults' /\ Failures = crashes + faults
      BY <3>1 DEF Failures
    <3>3. Failures' \in Nat /\ Failures <= Failures'
      <4>1. \A c, f, g \in Nat : g >= f => c + g \in Nat /\ c + f <= c + g
        OBVIOUS
      <4> QED
        BY <1>1, <3>1, <3>2, <4>1, Zenon
    <3>4. faults' = faults + 1 => Failures' = Failures + 1
      BY <1>1, <3>1, <3>2
    <3> QED
      BY <3>3, <3>4
  <2>3. \A n \in Nat : Failures <= n /\ (IsTorn(auditFile) \/ n = Failures + 1 \/ lost' = lost)
           => IsFiniteSet(lost') /\ Cardinality(lost') <= n
    BY <2>1, LostPaid
  <2>4. IsTorn(auditFile) \/ Failures' = Failures + 1 \/ lost' = lost
    BY <2>1, <2>2
  <2>5. IsFiniteSet(lost') /\ Cardinality(lost') <= Failures'
    BY <2>2, <2>3, <2>4
  <2> QED
    BY <2>1, <2>5 DEF LostBounded
<1>4. ASSUME lost' = lost, Failures' = Failures + 1
      PROVE  LostBounded'
  <2>1. IsFiniteSet(lost) /\ Cardinality(lost) <= Failures /\ Cardinality(lost) \in Nat
    BY FS_CardinalityType DEF LostBounded
  <2>2. Cardinality(lost') + 1 <= Failures' /\ Cardinality(lost') <= Failures'
        /\ IsFiniteSet(lost')
    BY <1>1, <1>4, <2>1
  <2> QED
    BY <2>2 DEF LostBounded
<1>5. ASSUME NEW k \in Keys, AuditRaises(k), crashes' = crashes
      PROVE  LostBounded'
  <2>1. lost' = lost /\ faults' = faults + 1
    BY <1>5, AuditRaisesType
  <2>2. Failures' = Failures + 1
    BY <1>1, <1>5, <2>1 DEF Failures
  <2> QED
    BY <1>4, <2>1, <2>2
<1>6. CASE \/ UNCHANGED vars \/ (\E l \in JobLines : Enqueue(l))
           \/ StartDrain \/ Skip \/ Invoke \/ Save \/ WriteBaseline
  <2>1. /\ lost' = lost /\ auditFile' = auditFile /\ crashes' = crashes
        /\ faults' = faults \/ faults' = faults + 1
    BY <1>6 DEF Enqueue, StartDrain, Skip, Invoke, Save, WriteBaseline, Fault, vars,
                diskVars, drainVars, histVars
  <2>2. Failures' \in Nat /\ Failures <= Failures'
    BY <1>1, <2>1 DEF Failures
  <2> QED
    BY <1>2, <2>1, <2>2
<1>7. CASE Reject \/ Allow \/ Failed
  <2>1. todo # <<>> /\ crashes' = crashes
    BY <1>7 DEF Reject, Allow, Failed, IsNewJob, AtJob, TypeOK
  <2>2. Key \in Keys
    BY <2>1, JobInHand
  <2>3. (\E d \in Decisions : Audited(Key, d)) \/ AuditRaises(Key)
    BY <1>7 DEF Reject, Allow, Failed, Decisions
  <2> QED
    BY <1>3, <1>5, <2>1, <2>2, <2>3
<1>8. CASE CrashRestart
  <2>1. lost' = lost /\ crashes' = crashes + 1 /\ faults' = faults
    BY <1>8 DEF CrashRestart, histVars
  <2>2. Failures' = Failures + 1
    BY <1>1, <2>1 DEF Failures
  <2> QED
    BY <1>4, <2>1, <2>2
<1> QED
  BY <1>6, <1>7, <1>8 DEF Next, Step

(* A key is settled on disk only with a decision about it in the audit     *)
(* file, unless that decision's line was glued to a torn one; and no more  *)
(* decisions are lost that way than there were crashes and I/O errors:     *)
(* audit() comes first, save_state only writes settled keys, and a torn    *)
(* line swallows one decision.                                             *)
THEOREM SettledKeysAudited == Spec => []SettledIsAudited
<1>1. Init => AuditInv
  BY DEF Init, AuditInv, SeenAudited, IdsAudited, EmptyState
<1>2. Init => LostBounded
  <2> SUFFICES ASSUME Init PROVE LostBounded
    OBVIOUS
  <2>1. lost = {} /\ Failures = 0 /\ auditFile = <<>>
    BY DEF Init, Failures
  <2> QED
    BY <2>1, FS_EmptySet DEF LostBounded, IsTorn
<1>3. AuditInv /\ LostBounded => SettledIsAudited
  BY DEF AuditInv, SeenAudited, LostBounded, SettledIsAudited, Recorded, Failures
<1> QED
  BY <1>1, <1>2, <1>3, AuditStep, LostStep, TypeCorrect, PTL DEF Spec

(* The trusted coverage baseline names only issues whose dispatch was      *)
(* audited as allowed, in a row of the file or in one of those lines.      *)
THEOREM BaselineAudited == Spec => []BaselineIsAudited
<1>1. Init => AuditInv
  BY DEF Init, AuditInv, SeenAudited, IdsAudited, EmptyState
<1>2. AuditInv => BaselineIsAudited
  BY DEF AuditInv, IdsAudited, BaselineIsAudited, HasAllow, Recorded
<1> QED
  BY <1>1, <1>2, AuditStep, TypeCorrect, PTL DEF Spec

(* As long as nothing failed, the file holds the rows of one log, in the   *)
(* order of their seq, each chained onto the one before.                   *)
Chained(lines, n) ==
    /\ Len(lines) = n
    /\ \A i \in 1..n :
          /\ lines[i].process = 0 /\ lines[i].seq = i /\ IsRow(lines[i])
          /\ lines[i].prev_hash = IF i = 1 THEN GENESIS_PREV_HASH ELSE <<0, i - 1>>

ChainInv == crashes = 0 /\ faults = 0 => log.process = 0 /\ Chained(auditFile, log.size)

(* The row append() makes continues the chain.                             *)
LEMMA ChainGrows ==
    ASSUME TypeOK, log.process = 0, Chained(auditFile, log.size),
           NEW k \in Keys, NEW d \in Decisions,
           auditFile' = Append(auditFile, NextEntry(log, k, d)), log' = Appended(log)
    PROVE  log'.process = 0 /\ Chained(auditFile', log'.size)
<1> DEFINE n == log.size
           row == NextEntry(log, k, d)
<1>1. n \in Nat /\ auditFile \in Seq(Rows) /\ Len(auditFile) = n /\ row \in Rows
  BY RowType DEF TypeOK, Chained
<1>2. row.process = 0 /\ row.seq = n + 1 /\ row.prev_hash = tip_hash(log) /\ IsRow(row)
  BY DEF NextEntry, IsRow
<1>3. tip_hash(log) = IF n = 0 THEN GENESIS_PREV_HASH ELSE <<0, n>>
  BY DEF tip_hash
<1>4. row.prev_hash = IF n + 1 = 1 THEN GENESIS_PREV_HASH ELSE <<0, (n + 1) - 1>>
  <2>1. (n + 1 = 1 <=> n = 0) /\ (n + 1) - 1 = n
    BY <1>1
  <2> QED
    BY <1>2, <1>3, <2>1
<1> HIDE DEF row
<1>5. /\ Len(auditFile') = n + 1 /\ auditFile'[n + 1] = row
      /\ \A i \in 1..n : auditFile'[i] = auditFile[i]
  BY <1>1 DEF row
<1>6. log'.process = 0 /\ log'.size = n + 1
  BY DEF Appended
<1>7. ASSUME NEW i \in 1..n + 1
      PROVE  /\ auditFile'[i].process = 0 /\ auditFile'[i].seq = i /\ IsRow(auditFile'[i])
             /\ auditFile'[i].prev_hash = IF i = 1 THEN GENESIS_PREV_HASH ELSE <<0, i - 1>>
  <2>1. CASE i \in 1..n
    BY <1>5, <2>1 DEF Chained
  <2>2. CASE i = n + 1
    BY <1>2, <1>4, <1>5, <2>2
  <2> QED
    BY <1>1, <2>1, <2>2
<1> QED
  BY <1>5, <1>6, <1>7 DEF Chained

(* What a step can do to the log and to its mirror.                        *)
LEMMA LogSteps ==
    ASSUME TypeOK, [Next]_vars, crashes' = 0, faults' = 0
    PROVE  /\ crashes = 0 /\ faults = 0
           /\ \/ UNCHANGED <<auditFile, log>>
              \/ \E k \in Keys, d \in Decisions :
                    auditFile' = Mirrored(auditFile, NextEntry(log, k, d)) /\ log' = Appended(log)
<1>1. crashes \in Nat /\ faults \in Nat
  BY DEF TypeOK
<1>2. ~CrashRestart /\ ~Fault /\ \A k : ~AuditRaises(k)
  BY <1>1 DEF CrashRestart, Fault, AuditRaises
<1>3. ASSUME NEW k \in Keys, NEW d \in Decisions, Audited(k, d)
      PROVE  /\ faults = 0
             /\ auditFile' = Mirrored(auditFile, NextEntry(log, k, d)) /\ log' = Appended(log)
  BY <1>2, <1>3 DEF Audited
<1>4. CASE Reject
  <2>1. Key \in Keys /\ Audited(Key, "block") /\ crashes' = crashes
    BY <1>2, <1>4, JobInHand DEF Reject, IsNewJob, AtJob
  <2> QED
    BY <1>3, <2>1 DEF Decisions
<1>5. CASE Allow
  <2>1. Key \in Keys /\ Audited(Key, "allow") /\ crashes' = crashes
    BY <1>2, <1>5, JobInHand DEF Allow, TypeOK
  <2> QED
    BY <1>3, <2>1 DEF Decisions
<1>6. CASE Failed
  <2>1. Key \in Keys /\ Audited(Key, "block") /\ crashes' = crashes
    BY <1>2, <1>6, JobInHand DEF Failed, TypeOK
  <2> QED
    BY <1>3, <2>1 DEF Decisions
<1>7. CASE Save \/ WriteBaseline
  BY <1>2, <1>7 DEF Save, WriteBaseline
<1>8. CASE (\E l \in JobLines : Enqueue(l)) \/ StartDrain \/ Skip \/ Invoke \/ UNCHANGED vars
  BY <1>8 DEF Enqueue, StartDrain, Skip, Invoke, vars, diskVars
<1> QED
  BY <1>2, <1>4, <1>5, <1>6, <1>7, <1>8 DEF Next, Step

LEMMA ChainStep == TypeOK /\ ChainInv /\ [Next]_vars => ChainInv'
<1> SUFFICES ASSUME TypeOK, ChainInv, [Next]_vars, crashes' = 0, faults' = 0
             PROVE  log'.process = 0 /\ Chained(auditFile', log'.size)
  BY DEF ChainInv, Chained
<1>1. log.process = 0 /\ Chained(auditFile, log.size)
  BY LogSteps DEF ChainInv
<1>2. CASE UNCHANGED <<auditFile, log>>
  BY <1>1, <1>2
<1>3. CASE \E k \in Keys, d \in Decisions :
              auditFile' = Mirrored(auditFile, NextEntry(log, k, d)) /\ log' = Appended(log)
  <2>1. ~IsTorn(auditFile)
    <3>1. auditFile \in Seq(Rows) /\ Len(auditFile) = log.size
      BY <1>1 DEF TypeOK, Chained
    <3>2. auditFile # <<>> => Len(auditFile) \in 1..log.size
      BY <3>1
    <3>3. auditFile # <<>> => IsRow(auditFile[Len(auditFile)])
      BY <1>1, <3>2 DEF Chained
    <3> QED
      BY <3>3 DEF IsTorn, IsRow, Decisions
  <2> QED
    BY <1>1, <1>3, <2>1, ChainGrows DEF Mirrored
<1> QED
  BY <1>2, <1>3, LogSteps

(* Sorting by seq leaves such a file as it is.                             *)
LEMMA ChainVerifies ==
    ASSUME NEW lines \in Seq(Rows), NEW n \in Nat, Chained(lines, n)
    PROVE  verify_chain(lines)
<1>1. /\ DOMAIN lines = 1..n
      /\ \A i \in 1..n : /\ lines[i].process = 0 /\ lines[i].seq = i
                         /\ i # 1 => lines[i].prev_hash = <<0, i - 1>>
  <2>1. Len(lines) = n /\ DOMAIN lines = 1..Len(lines)
    BY DEF Chained
  <2>2. \A i \in 1..n : /\ lines[i].process = 0 /\ lines[i].seq = i
                        /\ i # 1 => lines[i].prev_hash = <<0, i - 1>>
    BY Zenon DEF Chained
  <2> QED
    BY <2>1, <2>2
<1>2. \A k \in 1..n : Before(lines, k) = 1..k - 1
  BY <1>1 DEF Before
<1> SUFFICES ASSUME NEW k \in 1..n
             PROVE  /\ lines[k].seq > 0
                    /\ \/ Before(lines, k) = {} /\ lines[k].prev_hash = GENESIS_PREV_HASH
                       \/ \E last \in Before(lines, k) :
                             /\ Before(lines, k) = Before(lines, last) \cup {last}
                             /\ lines[k].prev_hash = entry_hash(lines[last])
  BY <1>1 DEF verify_chain
<1>3. lines[k].seq > 0
  BY <1>1
<1>4. CASE k = 1
  <2>1. 1..k - 1 = {}
    BY <1>4
  <2> QED
    BY <1>2, <1>3, <1>4, <2>1 DEF Chained
<1>5. CASE k > 1
  <2>1. k - 1 \in 1..n /\ k - 1 \in 1..k - 1 /\ 1..k - 1 = (1..(k - 1) - 1) \cup {k - 1}
    BY <1>5
  <2>2. lines[k].prev_hash = entry_hash(lines[k - 1])
    <3>1. lines[k].prev_hash = <<0, k - 1>>
      BY <1>1, <1>5
    <3>2. lines[k - 1].process = 0 /\ lines[k - 1].seq = k - 1
      BY <1>1, <2>1
    <3> QED
      BY <3>1, <3>2, Zenon DEF entry_hash
  <2> QED
    BY <1>2, <1>3, <2>1, <2>2
<1> QED
  BY <1>4, <1>5

(* The audit file of a process that nothing went wrong for verifies,       *)
(* whatever it decided about whatever jobs (audit, AuditLog.append).       *)
THEOREM AuditFileVerifies == Spec => []AuditVerifies
<1>1. Init => ChainInv
  BY DEF Init, ChainInv, Chained, NewLog
<1>2. TypeOK /\ ChainInv => AuditVerifies
  BY ChainVerifies DEF TypeOK, ChainInv, AuditVerifies
<1> QED
  BY <1>1, <1>2, ChainStep, TypeCorrect, PTL DEF Spec
================================================================================
