------------------------------- MODULE Dispatcher -------------------------------
(***************************************************************************)
(* plane-integration/dispatcher.py: the consumer that drains the queue     *)
(* file, invokes an agent per job, audits every decision, persists its     *)
(* cursor and writes the trusted coverage baseline.                        *)
(*                                                                         *)
(* One process; a step ends at every write that survives a crash.  Between *)
(* two steps the process may die (CrashRestart).  An I/O error is a Fault. *)
(***************************************************************************)
EXTENDS AuditLog, FiniteSets

CONSTANTS
    JobLines,       \* the lines the receiver may append to the queue
    None,           \* Python None
    VALID_ROLES,    \* the roles an agent can be invoked in
    MAX_ATTEMPTS,   \* failures of one job before it is quarantined
    SeenCap,        \* keys kept in the state file (10000)
    MaxQueue,       \* bound: lines in the queue file
    MaxCrashes,     \* bound: deaths (or clean exits) of the process
    MaxFaults       \* bound: I/O errors

ASSUME DispatcherConstants ==
    /\ MAX_ATTEMPTS \in Nat \ {0}
    /\ SeenCap \in Nat
    /\ {MaxQueue, MaxCrashes, MaxFaults} \subseteq Nat

VARIABLES
    queue,                    \* .agent_queue.jsonl
    stateFile,                \* .dispatcher_state.json
    auditFile,                \* .dispatch_audit.jsonl
    baseline,                 \* coverage_baseline.json, or None
    pc,                       \* where drain() is
    todo,                     \* jobs of this drain still to be looked at
    seen, attempts,           \* drain()'s working copies of the state
    ids,                      \* dispatched_ids
    log,                      \* the process's AuditLog
    runs, oks,                \* history: invocations, and those that returned
    evicted,                  \* history: keys cut off by SeenCap
    lost,                     \* history: decisions whose line was glued to a torn one
    crashes, faults

diskVars == <<queue, stateFile, auditFile, baseline>>
drainVars == <<todo, seen, attempts, ids>>
histVars == <<runs, oks, evicted, lost>>
vars == <<diskVars, pc, drainVars, log, histVars, crashes, faults>>
--------------------------------------------------------------------------------
(* job_key: the role is not part of it. *)
job_key(job) == <<job.delivery, job.issue, job.state, job.kind>>

Keys == {job_key(l) : l \in JobLines}

NoAttempts == [k \in Keys |-> 0]
EmptyState == [seen |-> {}, attempts |-> NoAttempts]

Init ==
    /\ queue = <<>>
    /\ stateFile = EmptyState
    /\ auditFile = <<>>
    /\ baseline = None
    /\ pc = "idle"
    /\ todo = <<>>
    /\ seen = {} /\ attempts = NoAttempts /\ ids = {}
    /\ log = NewLog(0)
    /\ runs = [k \in Keys |-> 0] /\ oks = [k \in Keys |-> 0]
    /\ evicted = {} /\ lost = {}
    /\ crashes = 0 /\ faults = 0

(* The receiver appends a line. *)
Enqueue(l) ==
    /\ Len(queue) < MaxQueue
    /\ queue' = Append(queue, l)
    /\ UNCHANGED <<stateFile, auditFile, baseline, pc, drainVars, log, histVars,
                   crashes, faults>>

Fault == faults < MaxFaults /\ faults' = faults + 1

(* drain() ends and its local variables are gone. *)
Leave ==
    /\ pc' = "idle"
    /\ todo' = <<>> /\ seen' = {} /\ attempts' = NoAttempts /\ ids' = {}

(* Mutant of StartDrain: the last line of the queue is taken for torn. *)
StartDrainEarly ==
    /\ pc = "idle"
    /\ todo' = IF queue = <<>> THEN queue ELSE SubSeq(queue, 1, Len(queue) - 1)
    /\ seen' = stateFile.seen
    /\ attempts' = stateFile.attempts
    /\ ids' = {}
    /\ pc' = "job"
    /\ UNCHANGED <<diskVars, log, histVars, crashes, faults>>

(* drain() begins: load_state, read_jobs. *)
StartDrain ==
    /\ pc = "idle"
    /\ todo' = queue
    /\ seen' = stateFile.seen
    /\ attempts' = stateFile.attempts
    /\ ids' = {}
    /\ pc' = "job"
    /\ UNCHANGED <<diskVars, log, histVars, crashes, faults>>

(*------------------------- audit(): one decision -----------------------*)
(* Mutant of Audited: a failed mirror write is not made up for. *)
AuditedInMemory(about, decision) ==
    /\ log' = Appended(log)
    /\ \/ auditFile' = Mirrored(auditFile, NextEntry(log, about, decision)) /\ UNCHANGED faults
       \/ UNCHANGED auditFile /\ Fault
    /\ lost' = IF IsTorn(auditFile) /\ auditFile' # auditFile
               THEN lost \cup {<<about, decision>>} ELSE lost

(* The entry is chained in memory, then mirrored.  If the mirror fails,    *)
(* with or without a part of the row written, the plain fallback line is   *)
(* tried; if that fails too, audit() raises.                               *)
Audited(about, decision) ==
    LET row == NextEntry(log, about, decision)
        plain == PlainLine(about, decision) IN
    /\ log' = Appended(log)
    /\ \/ /\ auditFile' = Mirrored(auditFile, row)
          /\ lost' = IF IsTorn(auditFile) THEN lost \cup {<<about, decision>>} ELSE lost
          /\ UNCHANGED faults
       \/ /\ auditFile' = Mirrored(auditFile, plain)
          /\ lost' = IF IsTorn(auditFile) THEN lost \cup {<<about, decision>>} ELSE lost
          /\ Fault
       \/ /\ auditFile' = Mirrored(Torn(auditFile, about), plain)
          /\ lost' = lost \cup {<<about, decision>>}
          /\ Fault

AuditRaises(about) ==
    /\ log' = Appended(log)
    /\ auditFile' \in {auditFile, Torn(auditFile, about)}
    /\ Fault
    /\ UNCHANGED lost

(*--------------------------- the loop over jobs ------------------------*)
Job == Head(todo)
Key == job_key(Job)
AtJob == pc = "job" /\ todo # <<>>
NextJob == todo' = Tail(todo) /\ pc' = "job"

Skip ==
    /\ AtJob
    /\ Job.kind # "agent_dispatch" \/ Key \in seen
    /\ NextJob
    /\ UNCHANGED <<diskVars, seen, attempts, ids, log, histVars, crashes, faults>>

IsNewJob == AtJob /\ Job.kind = "agent_dispatch" /\ Key \notin seen

(* An unknown role is blocked for good; this audit() is outside the try,   *)
(* so its exception leaves drain(): watch() logs it and polls again.       *)
Reject ==
    /\ IsNewJob
    /\ Job.role \notin VALID_ROLES
    /\ \/ /\ Audited(Key, "block")
          /\ seen' = seen \cup {Key}
          /\ NextJob
          /\ UNCHANGED <<attempts, ids>>
       \/ AuditRaises(Key) /\ Leave
    /\ UNCHANGED <<queue, stateFile, baseline, runs, oks, evicted, crashes>>

(* invoker(job): the agent has been started when it returns or raises. *)
Invoke ==
    /\ IsNewJob
    /\ Job.role \in VALID_ROLES
    /\ runs' = [runs EXCEPT ![Key] = @ + 1]
    /\ \/ oks' = [oks EXCEPT ![Key] = @ + 1] /\ pc' = "invoked"
       \/ UNCHANGED oks /\ pc' = "except"
    /\ UNCHANGED <<diskVars, drainVars, log, evicted, lost, crashes, faults>>

(* Mutant of Settle: the key is settled but the attempt counter stays. *)
SettleNothing(k) == UNCHANGED <<seen, attempts>>

Settle(k) == seen' = seen \cup {k} /\ attempts' = [attempts EXCEPT ![k] = 0]

(* The invoker returned: audit "allow", settle the key, remember the issue.*)
Allow ==
    /\ pc = "invoked"
    /\ \/ /\ Audited(Key, "allow")
          /\ Settle(Key)
          /\ ids' = ids \cup ({Job.issue} \ {None})
          /\ NextJob
       \/ /\ AuditRaises(Key)
          /\ pc' = "except"
          /\ UNCHANGED drainVars
    /\ UNCHANGED <<queue, stateFile, baseline, runs, oks, evicted, crashes>>

(* Mutant of Exhausted: off by one, the quarantine comes a failure later. *)
ExhaustedLate(n) == n > MAX_ATTEMPTS
Exhausted(n) == n >= MAX_ATTEMPTS

(* The except branch: count the failure, quarantine at MAX_ATTEMPTS. *)
Failed ==
    LET n == attempts[Key] + 1 IN
    /\ pc = "except"
    /\ \/ /\ Audited(Key, "block")
          /\ \/ Exhausted(n) /\ Settle(Key)
             \/ ~Exhausted(n) /\ attempts' = [attempts EXCEPT ![Key] = n] /\ UNCHANGED seen
          /\ NextJob
          /\ UNCHANGED ids
       \/ AuditRaises(Key) /\ Leave
    /\ UNCHANGED <<queue, stateFile, baseline, runs, oks, evicted, crashes>>

(*------------------------------ after the loop -------------------------*)
(* save_state: list(set)[-10000:] keeps an arbitrary part of a larger set. *)
Kept(S) == {T \in SUBSET S :
    Cardinality(T) = IF Cardinality(S) > SeenCap THEN SeenCap ELSE Cardinality(S)}

(* STATE.write_text truncates the file before it writes: an error may      *)
(* leave nothing load_state can read.                                      *)
Save ==
    /\ pc = "job" /\ todo = <<>>
    /\ \/ /\ \E kept \in Kept(seen) :
                /\ stateFile' = [seen |-> kept, attempts |-> attempts]
                /\ evicted' = evicted \cup (seen \ kept)
          /\ \/ ids = {} /\ Leave
             \/ ids # {} /\ pc' = "baseline" /\ UNCHANGED drainVars
          /\ UNCHANGED faults
       \/ /\ stateFile' \in {stateFile, EmptyState}
          /\ Fault
          /\ Leave
          /\ UNCHANGED evicted
    /\ UNCHANGED <<queue, auditFile, baseline, log, runs, oks, lost, crashes>>

(* _write_baseline_fail_closed: this drain's ids replace the file. *)
WriteBaseline ==
    /\ pc = "baseline"
    /\ \/ /\ baseline' = ids
          /\ Leave
          /\ UNCHANGED faults
       \/ /\ baseline' \in {baseline, None}
          /\ Fault
          /\ Leave
    /\ UNCHANGED <<queue, stateFile, auditFile, log, histVars, crashes>>

(* audit() is about to be called, or is under way. *)
Auditing ==
    \/ pc \in {"invoked", "except"}
    \/ IsNewJob /\ Job.role \notin VALID_ROLES

(* The process dies (or a --once run ends) and is started again.  A death  *)
(* in the middle of a write_text leaves a file that reads as empty, one in *)
(* audit() a torn line at the end of the audit file.                       *)
CrashRestart ==
    /\ crashes < MaxCrashes
    /\ crashes' = crashes + 1
    /\ Leave
    /\ log' = NewLog(crashes')
    /\ \/ UNCHANGED <<stateFile, baseline, auditFile>>
       \/ /\ pc = "job" /\ todo = <<>> /\ stateFile' = EmptyState
          /\ UNCHANGED <<baseline, auditFile>>
       \/ pc = "baseline" /\ baseline' = None /\ UNCHANGED <<stateFile, auditFile>>
       \/ /\ Auditing /\ auditFile' = Torn(auditFile, Key)
          /\ UNCHANGED <<stateFile, baseline>>
    /\ UNCHANGED <<queue, histVars, faults>>

Step == StartDrain \/ Skip \/ Reject \/ Invoke \/ Allow \/ Failed \/ Save \/ WriteBaseline

Next == (\E l \in JobLines : Enqueue(l)) \/ Step \/ CrashRestart

Spec == Init /\ [][Next]_vars

(* watch() polls for ever and the process is restarted when it dies. *)
FairSpec == Spec /\ WF_vars(Step)
--------------------------------------------------------------------------------
Attempts == [Keys -> 0..MAX_ATTEMPTS - 1]
Issues == {l.issue : l \in JobLines} \ {None}
Rows == [process: Nat, seq: Nat, prev_hash: Seq(Nat), about: Keys,
         decision: Decisions \cup {"partial", "garbled"}]

(* Every variable in its range; a failure counter never reaches the limit. *)
TypeOK ==
    /\ queue \in Seq(JobLines) /\ Len(queue) <= MaxQueue
    /\ stateFile \in [seen: SUBSET Keys, attempts: Attempts]
    /\ auditFile \in Seq(Rows)
    /\ baseline \in (SUBSET Issues) \cup {None}
    /\ pc \in {"idle", "job", "invoked", "except", "baseline"}
    /\ todo \in Seq(JobLines)
    /\ pc \in {"invoked", "except"} => todo # <<>> /\ Key \notin seen
    /\ seen \subseteq Keys /\ attempts \in Attempts /\ ids \subseteq Issues
    /\ log \in [process: Nat, size: Nat]
    /\ runs \in [Keys -> Nat] /\ oks \in [Keys -> Nat]
    /\ evicted \subseteq Keys /\ lost \subseteq Keys \X Decisions
    /\ crashes \in Nat /\ faults \in Nat

(* At-least-once with dedup: an agent run that returned is repeated at     *)
(* most once for every crash or I/O error, however they fall between the   *)
(* invocation, the audit row and the save of the cursor (drain).           *)
DuplicatesNeedFailure ==
    \A k \in Keys \ evicted : oks[k] <= 1 + crashes + faults

(* A poison job cannot be invoked for ever: MAX_ATTEMPTS times, over all   *)
(* drains, and as often again for every crash or I/O error that loses the  *)
(* persisted counters (drain, save_state, load_state).                     *)
RetriesBounded ==
    \A k \in Keys \ evicted : runs[k] <= MAX_ATTEMPTS * (1 + crashes + faults)

HasRow(k, d) == \E r \in DOMAIN auditFile : auditFile[r].about = k /\ auditFile[r].decision = d

(* A key is in the persisted cursor only after a decision about it was     *)
(* written to the audit file, where it can be read unless it was glued to  *)
(* a line that a death or a short write had torn.  A torn line swallows    *)
(* one decision, so no more are lost than there were failures (drain:      *)
(* audit() precedes seen.add, save_state comes last; _mirror_to_file).     *)
SettledIsAudited ==
    /\ \A k \in stateFile.seen : \E d \in Decisions : HasRow(k, d) \/ <<k, d>> \in lost
    /\ Cardinality(lost) <= crashes + faults

(* The trusted baseline names only issues whose dispatch was audited as    *)
(* allowed, in a row that can be read or was glued to a torn line (drain,  *)
(* _write_baseline_fail_closed).                                           *)
BaselineIsAudited ==
    baseline # None => \A i \in baseline : \E k \in Keys :
        k[2] = i /\ (HasRow(k, "allow") \/ <<k, "allow">> \in lost)

(* The chain a process mirrors to its file verifies, as long as it is the  *)
(* only process that ever wrote there and no mirror write failed.          *)
AuditVerifies == crashes = 0 /\ faults = 0 => verify_chain(auditFile)

(* "One bad job can't wedge the queue": whatever the invoker does, every   *)
(* queued job is dispatched, blocked or quarantined and its key persisted. *)
JobsSettle ==
    \A l \in JobLines :
        (\E k \in DOMAIN queue : queue[k] = l) /\ l.kind = "agent_dispatch"
            ~> job_key(l) \in stateFile.seen \cup evicted
================================================================================
