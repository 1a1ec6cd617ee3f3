---------------------------- MODULE DurableWorkflow ----------------------------
(***************************************************************************)
(* tools/durable_orchestrator.py: an event-sourced workflow.  A host runs  *)
(* execute() on one workflow, persists checkpoint() now and then, and after*)
(* a crash resumes from the stored blob, perhaps with a new version of the *)
(* body.  The body issues one command after the other; it is deterministic *)
(* in the outcomes of its commands, and sees of a payload what JSON keeps. *)
(***************************************************************************)
EXTENDS Integers, Sequences, SequencesExt

CONSTANTS
    Activities, Timers,  \* names of the commands bodies issue
    Versions, Body,      \* Body[v][outcomes]: the next command, or Return,
                         \* or Raise: an exception leaves the body
    Values,              \* JSON-serializable results of activities
    Loaded,              \* Loaded[v]: v written as JSON and read back
    Canonical,           \* Canonical[v]: the bytes of _canonical_json(v)
    Fired, Failed,       \* payloads of TIMER_FIRED and WORKFLOW_HANDOFF
    None,                \* no payload, no name, no blob
    max_attempts,        \* RetryPolicy.max_attempts
    MaxCommands,         \* bound: commands a body issues
    MaxCrashes,          \* bound: crashes of the process
    MaxUpgrades,         \* bound: deployments of another version
    MaxDamages           \* bound: damages to the stored blob

Commands == [type : {"activity"}, name : Activities]
              \cup [type : {"timer"}, name : Timers]
Return == [type |-> "return", name |-> None]
Raise == [type |-> "raise", name |-> None]
Outcomes == Values \cup {Fired, Failed}

(* What JSON makes of a payload, and the bytes of a payload. *)
Load(p) == IF p \in Values THEN Loaded[p] ELSE p
Bytes(p) == IF p \in Values THEN Canonical[p] ELSE p

ASSUME WorkflowConstants ==
    /\ max_attempts \in Nat \ {0}
    /\ {MaxCommands, MaxCrashes, MaxUpgrades, MaxDamages} \subseteq Nat
    /\ Loaded \in [Values -> Values] /\ Canonical \in [Values -> Values]
    /\ \A v \in Values : Loaded[Loaded[v]] = Loaded[v]
    /\ {Fired, Failed, None} \cap Values = {} /\ Fired # Failed

(* A body has a next step for every run it can get to. *)
ASSUME BodyConstants ==
    \A v \in Versions :
        /\ <<>> \in DOMAIN Body[v]
        /\ \A r \in DOMAIN Body[v] :
              /\ r \in Seq(Outcomes)
              /\ Body[v][r] \in Commands \cup {Return, Raise}
              /\ Body[v][r] \in Commands =>
                    /\ Len(r) < MaxCommands
                    /\ \A o \in Outcomes : Append(r, Bytes(o)) \in DOMAIN Body[v]

VARIABLES
    history,    \* events recorded so far
    cursor,     \* _cursor: events consumed by this execution
    results,    \* the outcomes the body has been given in this execution
    pc,         \* where the host is
    attempt,    \* run_activity: number of the current attempt
    version,    \* deployed version of the body
    ended,      \* how the last execute() or resume() ended
    blob,       \* the stored checkpoint: its events and its hash
    attempts,   \* history: calls of fn for the n-th command
    crashes, upgrades, damages   \* counters for the bounds

process == <<history, cursor, results, pc, attempt, ended>>
counters == <<crashes, upgrades, damages>>
vars == <<process, version, blob, attempts, counters>>
--------------------------------------------------------------------------------
Event(type, name, payload) == [type |-> type, name |-> name, payload |-> payload]
Started == Event("started", None, None)
Completed == Event("completed", None, None)

Has(type, events) == \E i \in DOMAIN events : events[i].type = type

Reloaded(event) == [event EXCEPT !.payload = Load(@)]
Hashed(event) == [event EXCEPT !.payload = Bytes(@)]

Reload(events) == [i \in DOMAIN events |-> Reloaded(events[i])]

(* _history_hash: SHA-256 of the canonical bytes, taken to be collision-free. *)
history_hash(events) == [i \in DOMAIN events |-> Hashed(events[i])]

Init ==
    /\ history = <<>> /\ cursor = 0 /\ results = <<>>
    /\ pc = "idle" /\ attempt = 0
    /\ version \in Versions
    /\ ended = "none"
    /\ blob = None
    /\ attempts = [n \in 1..MaxCommands |-> 0]
    /\ crashes = 0 /\ upgrades = 0 /\ damages = 0

Seen == [n \in DOMAIN results |-> Bytes(results[n])]
Asked == Body[version][Seen]
Ordinal == Len(results) + 1
Live == cursor = Len(history)
Give(outcome) == results' = Append(results, outcome)

(*-------------------------------- execute ------------------------------*)
(* Mutant of FirstCommand: the cursor stays at the live frontier. *)
LastCommand(events) == Len(events)

FirstCommand(events) == IF Head(events).type = "started" THEN 1 ELSE 0

Execute ==
    /\ pc = "idle"
    /\ history' = IF history = <<>> THEN <<Started>> ELSE history
    /\ cursor' = FirstCommand(history')
    /\ results' = <<>>
    /\ pc' = "body" /\ ended' = "none"
    /\ UNCHANGED <<attempt, version, blob, attempts, counters>>

End(how) == pc' = "idle" /\ ended' = how

WithCompleted(events) ==
    IF Has("completed", events) THEN events ELSE Append(events, Completed)

BodyReturns ==
    /\ pc = "body" /\ Asked = Return
    /\ history' = WithCompleted(history)
    /\ End("returned")
    /\ UNCHANGED <<cursor, results, attempt, version, blob, attempts, counters>>

BodyRaises ==
    /\ pc = "body" /\ Asked = Raise
    /\ End("raised")
    /\ UNCHANGED <<history, cursor, results, attempt, version, blob, attempts,
                   counters>>

(*-------------------------- commands: replayed -------------------------*)
(* Mutant of Matches: the name of the command is not compared. *)
MatchesType(event, command) == event.type = command.type

Matches(event, command) == event.type = command.type /\ event.name = command.name

(* The recorded payload is returned, or NonDeterminismError is raised. *)
Replay ==
    LET recorded == history[cursor + 1] IN
    /\ pc = "body" /\ Asked \in Commands /\ ~Live
    /\ \/ /\ Matches(recorded, Asked)
          /\ cursor' = cursor + 1
          /\ Give(recorded.payload)
          /\ UNCHANGED <<pc, ended>>
       \/ /\ ~Matches(recorded, Asked)
          /\ End("diverged")
          /\ UNCHANGED <<cursor, results>>
    /\ UNCHANGED <<history, attempt, version, blob, attempts, counters>>

(*---------------------------- commands: live ---------------------------*)
Record(type, name, payload) ==
    /\ history' = Append(history, Event(type, name, payload))
    /\ cursor' = Len(history')

FireTimer ==
    /\ pc = "body" /\ Asked \in Commands /\ Live
    /\ Asked.type = "timer"
    /\ Record("timer", Asked.name, Fired)
    /\ Give(Fired)
    /\ UNCHANGED <<pc, attempt, version, ended, blob, attempts, counters>>

CallFn == pc' = "fn" /\ attempts' = [attempts EXCEPT ![Ordinal] = @ + 1]

StartActivity ==
    /\ pc = "body" /\ Asked \in Commands /\ Live
    /\ Asked.type = "activity"
    /\ attempt' = 1
    /\ CallFn
    /\ UNCHANGED <<history, cursor, results, version, ended, blob, counters>>

AttemptReturns(v) ==
    /\ pc = "fn"
    /\ Record("activity", Asked.name, v)
    /\ Give(v)
    /\ pc' = "body" /\ attempt' = 0
    /\ UNCHANGED <<version, ended, blob, attempts, counters>>

(* fn raised a retryable error, caught in the retry loop. *)
AttemptRaises ==
    /\ pc = "fn"
    /\ pc' = "caught"
    /\ UNCHANGED <<history, cursor, results, attempt, version, ended, blob,
                   attempts, counters>>

Exhausted == attempt >= max_attempts

(* Mutant of Again: the attempt is not counted. *)
AgainUncounted == pc' = "fn" /\ UNCHANGED <<attempt, attempts>>

Again == attempt' = attempt + 1 /\ CallFn

NextAttempt ==
    /\ pc = "caught" /\ ~Exhausted
    /\ Again
    /\ UNCHANGED <<history, cursor, results, version, ended, blob, counters>>

(* Mutant of RecordHandoff: the Handoff only propagates. *)
NoHandoffEvent == UNCHANGED <<history, cursor>>

RecordHandoff == Record("handoff", Asked.name, Failed)

(* The Handoff is recorded and raised into the body. *)
HandsOff ==
    /\ RecordHandoff
    /\ Give(Failed)
    /\ pc' = "body" /\ attempt' = 0
    /\ UNCHANGED <<version, ended, blob, attempts, counters>>

BudgetExhausted == pc = "caught" /\ Exhausted /\ HandsOff

(* fn raised a non-retryable error or a Handoff of its own. *)
FailsFast == pc = "fn" /\ HandsOff

(*--------------------------- checkpoint, resume ------------------------*)
Checkpoint ==
    /\ pc \notin {"down", "refused"}
    /\ blob' = [events |-> history, hash |-> history_hash(history)]
    /\ UNCHANGED <<process, version, attempts, counters>>

(* The storage loses the tail of the stored events. *)
Damage ==
    /\ blob # None /\ damages < MaxDamages
    /\ \E n \in 0..Len(blob.events) - 1 : blob' = [blob EXCEPT !.events = SubSeq(@, 1, n)]
    /\ damages' = damages + 1
    /\ UNCHANGED <<process, version, attempts, crashes, upgrades>>

Crash ==
    /\ pc \notin {"down", "refused"} /\ crashes < MaxCrashes
    /\ crashes' = crashes + 1
    /\ history' = <<>> /\ cursor' = 0 /\ results' = <<>>
    /\ pc' = "down" /\ attempt' = 0 /\ ended' = "none"
    /\ UNCHANGED <<version, blob, attempts, upgrades, damages>>

Deploy ==
    /\ pc = "down" /\ upgrades < MaxUpgrades
    /\ upgrades' = upgrades + 1
    /\ version' \in Versions
    /\ UNCHANGED <<process, blob, attempts, crashes, damages>>

(* Mutant of Intact: the recorded hash is not compared. *)
IntactAlways(stored) == TRUE

Intact(stored) == history_hash(Reload(stored.events)) = stored.hash

(* Without a blob the host starts afresh; a blob that does not match its   *)
(* hash raises NonDeterminismError.                                        *)
Resume ==
    /\ pc = "down"
    /\ \/ /\ blob = None
          /\ pc' = "idle"
          /\ UNCHANGED <<history, ended>>
       \/ /\ blob # None /\ Intact(blob)
          /\ history' = Reload(blob.events)
          /\ pc' = "idle"
          /\ UNCHANGED ended
       \/ /\ blob # None /\ ~Intact(blob)
          /\ pc' = "refused" /\ ended' = "refused"
          /\ UNCHANGED history
    /\ UNCHANGED <<cursor, results, attempt, version, blob, attempts, counters>>

BodyStep == BodyReturns \/ BodyRaises \/ Replay \/ FireTimer \/ StartActivity
Retry == NextAttempt \/ BudgetExhausted
FnEnds == (\E v \in Values : AttemptReturns(v)) \/ AttemptRaises \/ FailsFast

Next ==
    \/ Execute \/ BodyStep \/ FnEnds \/ Retry
    \/ Checkpoint \/ Crash \/ Deploy \/ Resume \/ Damage

Spec == Init /\ [][Next]_vars

(* The process runs, calls of fn end, and the host restarts the workflow   *)
(* and executes it until an execution ends.                                *)
FairSpec ==
    /\ Spec
    /\ WF_vars(BodyStep) /\ WF_vars(Retry) /\ WF_vars(FnEnds)
    /\ WF_vars(Resume) /\ WF_vars(ended = "none" /\ Execute)
--------------------------------------------------------------------------------
Names == Activities \cup Timers \cup {None}
CommandEvents == {"activity", "timer", "handoff"}
Events ==
    {e \in [type : CommandEvents \cup {"started", "completed"},
            name : Names, payload : Outcomes \cup {None}] :
        e.type \in CommandEvents => e.payload \in Outcomes}

Blobs == [events : Seq(Events), hash : Seq(Events)]

(* No blob is told from every blob. *)
ASSUME NoBlob == None \notin Blobs

(* Every variable in its range; an attempt never exceeds the policy, and   *)
(* the cursor never passes the recorded events.                            *)
TypeOK ==
    /\ history \in Seq(Events) /\ cursor \in 0..Len(history)
    /\ results \in Seq(Outcomes)
    /\ pc \in {"idle", "body", "fn", "caught", "down", "refused"}
    /\ attempt \in 0..max_attempts
    /\ pc \in {"fn", "caught"} => attempt > 0 /\ Asked.type = "activity" /\ Live
    /\ version \in Versions
    /\ ended \in {"none", "returned", "raised", "diverged", "refused"}
    /\ blob \in {None} \cup Blobs
    /\ attempts \in [1..MaxCommands -> Nat]
    /\ crashes \in Nat /\ upgrades \in Nat /\ damages \in Nat

(* "a crash-restart yields IDENTICAL decisions": the body is given for a   *)
(* command whatever the last checkpoint says its outcome was, in whatever  *)
(* process and however often it is executed (execute, resume).             *)
DecisionsReplayed ==
    blob # None => \A n \in DOMAIN results :
        n < Len(blob.hash) => blob.hash[n + 1].payload = Bytes(results[n])

(* "re-runs no side effects": fn is not called again for a command whose   *)
(* outcome is in the checkpoint, nor for any command once the checkpoint   *)
(* says the workflow completed (_replay_or_execute, resume).               *)
Sealed(n) == blob # None /\ (n < Len(blob.hash) \/ Has("completed", blob.hash))

RecordedNotRerun ==
    [][\A n \in 1..MaxCommands : Sealed(n) => attempts'[n] = attempts[n]]_vars

(* "NEVER loops forever": the retry budget of a command is spent once, and *)
(* once more for each crash that loses its outcome, however often the host *)
(* executes the workflow again (run_activity).                             *)
AttemptsBounded ==
    \A n \in 1..MaxCommands : attempts[n] <= max_attempts * (1 + crashes)

(* WORKFLOW_COMPLETED is recorded once, and nothing is recorded after it,  *)
(* by no later execution and no later version (execute).                   *)
CompletedIsLast ==
    \A i \in DOMAIN history : history[i].type = "completed" => i = Len(history)

(* The workflow comes to an end again and again: it returns, hands off, or *)
(* the engine refuses to go on; no activity is retried for ever and no     *)
(* crash leaves it half-way (run_activity, execute, resume).               *)
WorkflowEnds == []<>(ended # "none")

(* What is durable is one run of the body, extended by the deployed one.   *)
Decision(event) ==
    [command |-> [type |-> IF event.type = "timer" THEN "timer" ELSE "activity",
                  name |-> event.name],
     outcome |-> event.payload]

(* What is recorded between the start and the completion, if they are there. *)
Decisions(events) ==
    LET last == IF Has("completed", events) THEN Len(events) - 1 ELSE Len(events)
    IN  [n \in 1 .. last - 1 |-> Decision(events[n + 1])]

Durable == IF blob = None THEN <<>> ELSE blob.hash

WR == INSTANCE WorkflowRun
        WITH run <- Decisions(Durable), complete <- Has("completed", Durable)

(* Checkpoints, crashes, damaged blobs and upgrades of the body never make *)
(* the durable history anything but a growing run of a workflow body that  *)
(* ends when the body returns (execute, checkpoint, resume).               *)
ImplementsRun == WR!Spec

(* "a replay sees the same terminal outcome": while the body is the one    *)
(* that made the history, executing it again never diverges, also when one *)
(* of its activities handed off (run_activity).                            *)
SameBodyReplays == upgrades = 0 => ended # "diverged"
================================================================================
