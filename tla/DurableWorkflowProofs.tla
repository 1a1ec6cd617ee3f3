------------------------- MODULE DurableWorkflowProofs -------------------------
(***************************************************************************)
(* Proofs about DurableWorkflow, for every set of bodies, every retry      *)
(* budget and every number of crashes, upgrades and damages.               *)
(*                                                                         *)
(* While the body runs, its n-th command answers to the event n + 1 of the *)
(* history (Shape), so what a command may still cost (Budget) and what the *)
(* body was told (Told) can be read off the history; and a living process  *)
(* has a history that starts with the one sealed in the blob (SealInv).    *)
(***************************************************************************)
EXTENDS DurableWorkflow, SequenceTheorems, TLAPS

USE DEF Blobs

Alive == pc \notin {"down", "refused"}
Running == pc \in {"body", "fn", "caught"}
StartsRight(events) == events # <<>> => events[1].type = "started"
LastOnly(events) == \A i \in 1..Len(events) : events[i].type = "completed" => i = Len(events)

Shape ==
    /\ StartsRight(history)
    /\ blob # None => StartsRight(blob.events)
    /\ Running => /\ history # <<>>
                  /\ cursor = Len(results) + 1
                  /\ Seen \in DOMAIN Body[version]
    /\ ~Alive => history = <<>> /\ cursor = 0 /\ results = <<>>

Told == \A n \in 1..Len(results) : n < Len(history) /\ results[n] = history[n + 1].payload

SealInv ==
    Alive /\ blob # None =>
        /\ Len(blob.hash) <= Len(history)
        /\ \A i \in 1..Len(blob.hash) : blob.hash[i] = history_hash(history)[i]

DoneInv ==
    /\ LastOnly(history)
    /\ blob # None => LastOnly(blob.events)
    /\ Running => \A i \in 1..cursor : history[i].type # "completed"

Lost == max_attempts * crashes

Budget(n) ==
    IF n < Len(history) THEN attempts[n] <= Lost + max_attempts
    ELSE IF pc \in {"fn", "caught"} /\ n = Ordinal THEN attempts[n] <= Lost + attempt
    ELSE attempts[n] <= Lost

BudgetInv == \A n \in 1..MaxCommands : Budget(n)

TypeInv == TypeOK /\ Shape
IInv == TypeInv /\ Told /\ SealInv /\ DoneInv /\ BudgetInv
--------------------------------------------------------------------------------
(* JSON turns outcomes into outcomes.                                      *)
LEMMA PayloadType ==
    /\ \A p \in Outcomes : Bytes(p) \in Outcomes /\ Load(p) \in Outcomes
    /\ \A p \in Outcomes \cup {None} :
          Bytes(p) \in Outcomes \cup {None} /\ Load(p) \in Outcomes \cup {None}
BY WorkflowConstants DEF Outcomes, Bytes, Load

(* Reading a history back, or hashing it, changes payloads only.           *)
LEMMA EventType ==
    ASSUME NEW e \in Events
    PROVE  /\ Reloaded(e) \in Events /\ Reloaded(e).type = e.type
           /\ Hashed(e) \in Events /\ Hashed(e).type = e.type
           /\ Hashed(e).payload = Bytes(e.payload)
BY PayloadType DEF Events, Reloaded, Hashed

LEMMA HistoryType ==
    ASSUME NEW h \in Seq(Events)
    PROVE  /\ Reload(h) \in Seq(Events) /\ Len(Reload(h)) = Len(h)
           /\ history_hash(h) \in Seq(Events) /\ Len(history_hash(h)) = Len(h)
           /\ \A i \in 1..Len(h) :
                 /\ Reload(h)[i].type = h[i].type
                 /\ history_hash(h)[i].type = h[i].type
                 /\ history_hash(h)[i].payload = Bytes(h[i].payload)
                 /\ history_hash(h)[i] = Hashed(h[i])
<1>1. Len(h) \in Nat /\ DOMAIN h = 1..Len(h) /\ \A i \in 1..Len(h) : h[i] \in Events
  BY LenProperties, ElementOfSeq
<1>2. \A i \in 1..Len(h) : /\ Reload(h)[i] \in Events
                           /\ history_hash(h)[i] \in Events
                           /\ Reload(h)[i].type = h[i].type
                           /\ history_hash(h)[i].type = h[i].type
                           /\ history_hash(h)[i].payload = Bytes(h[i].payload)
                           /\ history_hash(h)[i] = Hashed(h[i])
  BY <1>1, EventType DEF Reload, history_hash
<1>3. Reload(h) \in [1..Len(h) -> Events] /\ history_hash(h) \in [1..Len(h) -> Events]
  BY <1>1, <1>2 DEF Reload, history_hash
<1>4. Reload(h) \in Seq(Events) /\ history_hash(h) \in Seq(Events)
  BY <1>1, <1>3, SeqDef
<1>5. Len(Reload(h)) = Len(h) /\ Len(history_hash(h)) = Len(h)
  BY <1>1, <1>3, <1>4, LenProperties
<1> QED
  BY <1>2, <1>4, <1>5

(* What the running body asks for.                                         *)
LEMMA AskedType ==
    ASSUME TypeInv, Running
    PROVE  /\ Asked \in Commands \cup {Return, Raise}
           /\ Asked \in Commands <=> Asked.type \in {"activity", "timer"}
           /\ Asked \in Commands =>
                 /\ Asked.name \in Activities \cup Timers
                 /\ Ordinal \in 1..MaxCommands
                 /\ \A o \in Outcomes : Append(Seen, Bytes(o)) \in DOMAIN Body[version]
<1>1. version \in Versions /\ Seen \in DOMAIN Body[version] /\ results \in Seq(Outcomes)
  BY DEF TypeInv, TypeOK, Shape
<1>2. Asked \in Commands \cup {Return, Raise}
  BY <1>1, BodyConstants DEF Asked
<1>3. Asked \in Commands => Len(Seen) < MaxCommands
  BY <1>1, BodyConstants DEF Asked
<1>4. Len(Seen) = Len(results) /\ Len(results) \in Nat
  <2>1. DOMAIN results = 1..Len(results) /\ Len(results) \in Nat
    BY <1>1, LenProperties
  <2>2. Seen \in Seq(Outcomes) /\ DOMAIN Seen = 1..Len(results)
    BY <1>1, <2>1, BodyConstants DEF Seen
  <2> QED
    BY <2>1, <2>2, LenProperties
<1>5. Asked \in Commands <=> Asked.type \in {"activity", "timer"}
  BY <1>2 DEF Commands, Return, Raise
<1>6. Asked \in Commands => Asked.name \in Activities \cup Timers
  BY DEF Commands
<1>7. Asked \in Commands => \A o \in Outcomes : Append(Seen, Bytes(o)) \in DOMAIN Body[version]
  BY <1>1, BodyConstants DEF Asked
<1>8. MaxCommands \in Nat
  BY WorkflowConstants
<1> QED
  BY <1>2, <1>3, <1>4, <1>5, <1>6, <1>7, <1>8 DEF Ordinal

(* Another outcome keeps the body inside its domain.                       *)
LEMMA GiveType ==
    ASSUME TypeInv, Running, Asked \in Commands, NEW o \in Outcomes, Give(o),
           UNCHANGED version
    PROVE  /\ results' \in Seq(Outcomes)
           /\ Len(results') = Len(results) + 1
           /\ Seen' \in DOMAIN Body[version']
           /\ results'[Len(results) + 1] = o
           /\ \A n \in 1..Len(results) : results'[n] = results[n]
<1>1. results \in Seq(Outcomes) /\ Len(results) \in Nat /\ results' = Append(results, o)
  BY LenProperties DEF TypeInv, TypeOK, Give
<1>2. /\ results' \in Seq(Outcomes) /\ Len(results') = Len(results) + 1
      /\ results'[Len(results) + 1] = o
      /\ \A n \in 1..Len(results) : results'[n] = results[n]
  BY <1>1
<1>3. Seen' = Append(Seen, Bytes(o))
  <2>1. DOMAIN results = 1..Len(results) /\ DOMAIN results' = 1..Len(results) + 1
    BY <1>1, <1>2, LenProperties
  <2>2. \A p \in Outcomes : Bytes(p) \in Outcomes
    BY PayloadType
  <2>3. Seen \in [1..Len(results) -> Outcomes] /\ Seen' \in [1..Len(results) + 1 -> Outcomes]
    BY <1>1, <1>2, <2>1, <2>2, ElementOfSeq DEF Seen
  <2>4. Seen \in Seq(Outcomes) /\ Seen' \in Seq(Outcomes)
    BY <1>1, <2>3, SeqDef
  <2>5. Len(Seen) = Len(results) /\ Len(Seen') = Len(results) + 1
    BY <1>1, <2>3, <2>4, LenProperties
  <2>6. /\ Append(Seen, Bytes(o)) \in Seq(Outcomes)
        /\ Len(Append(Seen, Bytes(o))) = Len(results) + 1
        /\ Append(Seen, Bytes(o))[Len(results) + 1] = Bytes(o)
        /\ \A n \in 1..Len(results) : Append(Seen, Bytes(o))[n] = Seen[n]
    BY <2>2, <2>4, <2>5
  <2>7. \A n \in 1..Len(results) + 1 : Seen'[n] = Append(Seen, Bytes(o))[n]
    BY <1>1, <1>2, <2>1, <2>6 DEF Seen
  <2> QED
    BY <2>4, <2>5, <2>6, <2>7, SeqEqual
<1> QED
  BY <1>2, <1>3, AskedType
(* A recorded command is the last event, and the cursor is behind it.      *)
LEMMA RecordType ==
    ASSUME TypeInv, NEW type \in CommandEvents, NEW name \in Activities \cup Timers,
           NEW payload \in Outcomes, Record(type, name, payload)
    PROVE  /\ history' \in Seq(Events)
           /\ Len(history) \in Nat /\ Len(history') = Len(history) + 1
           /\ cursor' = Len(history')
           /\ history'[Len(history) + 1].type = type
           /\ history'[Len(history) + 1].payload = payload
           /\ \A i \in 1..Len(history) : history'[i] = history[i]
<1>1. history \in Seq(Events) /\ Len(history) \in Nat
  BY LenProperties DEF TypeInv, TypeOK
<1>2. Event(type, name, payload) \in Events
  BY DEF Event, Events, Names, CommandEvents
<1>3. Event(type, name, payload).type = type /\ Event(type, name, payload).payload = payload
  BY DEF Event
<1> QED
  BY <1>1, <1>2, <1>3 DEF Record

(* The step of a command that ends with a recorded outcome.                *)
LEMMA OutcomeType ==
    ASSUME TypeInv, Running, Live, Asked \in Commands, NEW type \in CommandEvents,
           NEW o \in Outcomes, Record(type, Asked.name, o), Give(o),
           pc' = "body", attempt' \in 0..max_attempts,
           UNCHANGED <<version, ended, blob, attempts, counters>>
    PROVE  TypeInv'
<1>1. Asked.name \in Activities \cup Timers
  BY AskedType
<1>2. /\ history' \in Seq(Events) /\ Len(history) \in Nat
      /\ Len(history') = Len(history) + 1 /\ cursor' = Len(history')
      /\ \A i \in 1..Len(history) : history'[i] = history[i]
  BY <1>1, RecordType
<1>3. /\ results' \in Seq(Outcomes) /\ Len(results') = Len(results) + 1
      /\ Seen' \in DOMAIN Body[version']
  BY GiveType
<1>4. history # <<>> /\ cursor = Len(results) + 1 /\ history \in Seq(Events)
  BY DEF TypeInv, TypeOK, Shape
<1>5. Len(history) >= 1 /\ history[1].type = "started" /\ history' # <<>>
  BY <1>2, <1>4, EmptySeq DEF TypeInv, Shape, StartsRight
<1>6. TypeOK'
  BY <1>2, <1>3 DEF TypeInv, TypeOK, counters
<1>7. Shape'
  BY <1>2, <1>3, <1>4, <1>5 DEF TypeInv, Shape, StartsRight, Running, Alive, Live
<1> QED
  BY <1>6, <1>7 DEF TypeInv

(* Inside an activity the command is a live one.                           *)
LEMMA InActivity ==
    ASSUME TypeInv, pc \in {"fn", "caught"}
    PROVE  /\ Running /\ Live /\ Asked \in Commands /\ Ordinal \in 1..MaxCommands
           /\ Asked.type = "activity"
<1>1. Running /\ Live /\ Asked.type = "activity"
  BY DEF TypeInv, TypeOK, Running
<1> QED
  BY <1>1, AskedType

(* Every step of the host, the body or the storage keeps types and shape.  *)
LEMMA TypeStep == TypeInv /\ [Next]_vars => TypeInv'
<1> SUFFICES ASSUME TypeInv, [Next]_vars PROVE TypeInv'
  OBVIOUS
<1> USE DEF TypeInv
<1>0. max_attempts \in Nat \ {0} /\ MaxCommands \in Nat
  BY WorkflowConstants
<1>h. history \in Seq(Events) /\ Len(history) \in Nat /\ (history # <<>> => Len(history) >= 1)
  BY LenProperties, EmptySeq DEF TypeOK
<1>1. CASE Execute
  <2>1. Started \in Events /\ Started.type = "started"
    BY DEF Started, Event, Events, Names, CommandEvents
  <2>2. history' \in Seq(Events) /\ history' # <<>> /\ history'[1].type = "started"
    BY <1>1, <1>h, <2>1 DEF Execute, Shape, StartsRight
  <2>3. Len(history') \in Nat /\ Len(history') >= 1
    BY <2>2, LenProperties, EmptySeq
  <2>4. cursor' = 1
    BY <1>1, <2>2, <2>3 DEF Execute, FirstCommand
  <2>5. results' = <<>> /\ results' \in Seq(Outcomes) /\ Len(results') = 0
    BY <1>1 DEF Execute
  <2>6. Seen' = <<>>
    BY <2>5 DEF Seen
  <2>7. <<>> \in DOMAIN Body[version'] /\ version' \in Versions
    BY <1>1, BodyConstants DEF Execute, TypeOK
  <2>8. TypeOK'
    BY <1>1, <2>2, <2>3, <2>4, <2>5 DEF Execute, TypeOK, counters
  <2> QED
    BY <1>1, <2>2, <2>3, <2>4, <2>5, <2>6, <2>7, <2>8 DEF Execute, Shape, StartsRight, Alive
<1>2. CASE BodyReturns
  <2>1. Completed \in Events /\ Completed.type = "completed"
    BY DEF Completed, Event, Events, Names, CommandEvents
  <2>2. /\ history' \in Seq(Events) /\ Len(history') >= Len(history) /\ history' # <<>>
        /\ Len(history') \in Nat /\ history'[1].type = "started"
    BY <1>2, <1>h, <2>1 DEF BodyReturns, WithCompleted, Shape, Running, StartsRight
  <2>3. TypeOK'
    BY <1>2, <1>h, <2>2 DEF BodyReturns, End, TypeOK, counters
  <2> QED
    BY <1>2, <2>2, <2>3 DEF BodyReturns, End, Shape, StartsRight, Running, Alive
<1>3. CASE BodyRaises
  BY <1>3 DEF BodyRaises, End, TypeOK, counters, Shape, StartsRight, Running, Alive
<1>4. CASE Replay
  <2>1. /\ Running /\ Asked \in Commands /\ cursor < Len(history) /\ cursor + 1 \in 1..Len(history)
    BY <1>4, <1>h DEF Replay, Running, Live, TypeOK
  <2>2. CASE /\ Matches(history[cursor + 1], Asked) /\ cursor' = cursor + 1
             /\ Give(history[cursor + 1].payload) /\ UNCHANGED <<pc, ended>>
    <3>1. history[cursor + 1] \in Events
      BY <1>h, <2>1, ElementOfSeq
    <3>2. history[cursor + 1].type \in CommandEvents
      BY <2>1, <2>2, AskedType DEF Matches, CommandEvents
    <3>3. history[cursor + 1].payload \in Outcomes
      BY <3>1, <3>2 DEF Events
    <3>4. /\ results' \in Seq(Outcomes) /\ Len(results') = Len(results) + 1
          /\ Seen' \in DOMAIN Body[version']
      BY <1>4, <2>1, <2>2, <3>3, GiveType DEF Replay
    <3>5. TypeOK'
      BY <1>4, <1>h, <2>1, <2>2, <3>4 DEF Replay, TypeOK, counters
    <3> QED
      BY <1>4, <2>1, <2>2, <3>4, <3>5 DEF Replay, Shape, StartsRight, Running, Alive
  <2>3. CASE End("diverged") /\ UNCHANGED <<cursor, results>>
    BY <1>4, <2>3 DEF Replay, End, TypeOK, counters, Shape, StartsRight, Running, Alive
  <2> QED
    BY <1>4, <2>2, <2>3 DEF Replay
<1>5. CASE FireTimer
  <2>1. Running /\ Live /\ Asked \in Commands
    BY <1>5 DEF FireTimer, Running
  <2> QED
    BY <1>5, <2>1, OutcomeType DEF FireTimer, Outcomes, CommandEvents, TypeOK
<1>6. CASE StartActivity
  <2>1. Running /\ Ordinal \in 1..MaxCommands
    BY <1>6, AskedType DEF StartActivity, Running
  <2>2. Seen' = Seen /\ Asked' = Asked /\ Live'
    BY <1>6 DEF StartActivity, Seen, Asked, Live
  <2>3. attempts' \in [1..MaxCommands -> Nat]
    BY <1>6, <2>1 DEF StartActivity, CallFn, TypeOK
  <2>4. TypeOK'
    BY <1>0, <1>6, <2>2, <2>3 DEF StartActivity, CallFn, TypeOK, counters
  <2> QED
    BY <1>6, <2>1, <2>2, <2>4 DEF StartActivity, CallFn, Shape, StartsRight, Running, Alive
<1>7. CASE \E v \in Values : AttemptReturns(v)
  <2>1. PICK v \in Values : AttemptReturns(v)
    BY <1>7
  <2>2. Running /\ Live /\ Asked \in Commands
    BY <2>1, InActivity DEF AttemptReturns
  <2>3. 0 \in 0..max_attempts /\ v \in Outcomes /\ "activity" \in CommandEvents
    BY <1>0 DEF Outcomes, CommandEvents
  <2> QED
    BY <2>1, <2>2, <2>3, OutcomeType DEF AttemptReturns
<1>8. CASE AttemptRaises
  <2>1. Seen' = Seen /\ Asked' = Asked /\ Live' = Live
    BY <1>8 DEF AttemptRaises, Seen, Asked, Live
  <2>2. TypeOK'
    BY <1>8, <2>1 DEF AttemptRaises, TypeOK, counters
  <2> QED
    BY <1>8, <2>1, <2>2 DEF AttemptRaises, Shape, StartsRight, Running, Alive
<1>9. CASE FailsFast \/ BudgetExhausted
  <2>1. pc \in {"fn", "caught"} /\ HandsOff
    BY <1>9 DEF FailsFast, BudgetExhausted
  <2>2. Running /\ Live /\ Asked \in Commands
    BY <2>1, InActivity
  <2>3. 0 \in 0..max_attempts /\ Failed \in Outcomes /\ "handoff" \in CommandEvents
    BY <1>0 DEF Outcomes, CommandEvents
  <2> QED
    BY <2>1, <2>2, <2>3, OutcomeType DEF HandsOff, RecordHandoff
<1>10. CASE NextAttempt
  <2>1. Running /\ Ordinal \in 1..MaxCommands
    BY <1>10, InActivity DEF NextAttempt
  <2>2. Seen' = Seen /\ Asked' = Asked /\ Live' = Live
    BY <1>10 DEF NextAttempt, Seen, Asked, Live
  <2>3. attempts' \in [1..MaxCommands -> Nat]
    BY <1>10, <2>1 DEF NextAttempt, Again, CallFn, TypeOK
  <2>4. attempt' \in 0..max_attempts /\ attempt' > 0
    BY <1>0, <1>10 DEF NextAttempt, Again, Exhausted, TypeOK
  <2>5. TypeOK'
    BY <1>10, <2>2, <2>3, <2>4 DEF NextAttempt, Again, CallFn, TypeOK, counters
  <2> QED
    BY <1>10, <2>1, <2>2, <2>5 DEF NextAttempt, Again, CallFn, Shape, StartsRight, Running, Alive
<1>11. CASE Checkpoint
  <2>1. Seen' = Seen /\ Asked' = Asked /\ Live' = Live
    BY <1>11 DEF Checkpoint, process, Seen, Asked, Live
  <2>2. history_hash(history) \in Seq(Events)
    BY <1>h, HistoryType
  <2>3. blob'.events = history /\ blob'.hash = history_hash(history)
    BY <1>11 DEF Checkpoint
  <2>4. TypeOK'
    BY <1>11, <1>h, <2>1, <2>2, <2>3 DEF Checkpoint, process, TypeOK, counters
  <2> QED
    BY <1>11, <2>1, <2>3, <2>4 DEF Checkpoint, process, Shape, StartsRight, Running, Alive
<1>12. CASE Damage
  <2>1. PICK n \in 0..Len(blob.events) - 1 : blob' = [blob EXCEPT !.events = SubSeq(@, 1, n)]
    BY <1>12 DEF Damage
  <2>2. blob.events \in Seq(Events) /\ Len(blob.events) \in Nat /\ n \in Nat
    BY <1>12, <2>1, LenProperties DEF Damage, TypeOK
  <2>3. /\ SubSeq(blob.events, 1, n) \in Seq(Events)
        /\ Len(SubSeq(blob.events, 1, n)) = n
        /\ \A i \in 1..n : SubSeq(blob.events, 1, n)[i] = blob.events[i]
    BY <2>1, <2>2
  <2>4. StartsRight(SubSeq(blob.events, 1, n))
    BY <1>12, <2>1, <2>2, <2>3, EmptySeq DEF Damage, Shape, StartsRight
  <2>5. Seen' = Seen /\ Asked' = Asked /\ Live' = Live
    BY <1>12 DEF Damage, process, Seen, Asked, Live
  <2>6. /\ blob' \in Blobs
        /\ blob'.events = SubSeq(blob.events, 1, n)
    BY <1>12, <2>1, <2>3 DEF Damage, TypeOK
  <2>7. TypeOK'
    <3>1. /\ UNCHANGED <<history, cursor, results, pc, attempt, ended, version, attempts>>
          /\ UNCHANGED <<crashes, upgrades>> /\ damages' = damages + 1
      BY <1>12 DEF Damage, process
    <3> QED
      BY <2>5, <2>6, <3>1 DEF TypeOK
  <2> QED
    BY <1>12, <2>4, <2>5, <2>6, <2>7 DEF Damage, process, Shape, StartsRight, Running, Alive
<1>13. CASE Crash
  <2>1. <<>> \in Seq(Events) /\ <<>> \in Seq(Outcomes) /\ Len(<<>>) = 0
    BY EmptySeq
  <2>2. TypeOK'
    BY <1>0, <1>13, <2>1 DEF Crash, TypeOK
  <2> QED
    BY <1>13, <2>2 DEF Crash, Shape, StartsRight, Running, Alive
<1>14. CASE Deploy
  BY <1>14 DEF Deploy, process, TypeOK, Shape, StartsRight, Running, Alive
<1>15. CASE Resume
  <2>1. CASE UNCHANGED history /\ pc' \in {"idle", "refused"} /\ ended' \in {ended, "refused"}
    BY <1>15, <2>1 DEF Resume, TypeOK, counters, Shape, StartsRight, Running, Alive
  <2>2. CASE blob # None /\ history' = Reload(blob.events) /\ pc' = "idle" /\ UNCHANGED ended
    <3>1. blob.events \in Seq(Events)
      BY <2>2 DEF TypeOK
    <3>2. /\ history' \in Seq(Events) /\ Len(history') = Len(blob.events)
          /\ \A i \in 1..Len(blob.events) : history'[i].type = blob.events[i].type
      BY <2>2, <3>1, HistoryType
    <3>3. StartsRight(history')
      BY <2>2, <3>1, <3>2, EmptySeq, LenProperties DEF Shape, StartsRight
    <3>4. cursor' \in 0..Len(history')
      BY <1>15, <3>2, LenProperties DEF Resume, Shape, Alive
    <3>5. TypeOK'
      BY <1>15, <2>2, <3>2, <3>4 DEF Resume, TypeOK, counters
    <3> QED
      BY <1>15, <2>2, <3>3, <3>5 DEF Resume, Shape, StartsRight, Running, Alive
  <2> QED
    BY <1>15, <2>1, <2>2 DEF Resume
<1>16. CASE UNCHANGED vars
  BY <1>16 DEF vars, process, counters, TypeOK, Shape, StartsRight, Running, Alive, Seen, Asked, Live
<1> QED
  BY <1>1, <1>2, <1>3, <1>4, <1>5, <1>6, <1>7, <1>8, <1>9, <1>10, <1>11, <1>12, <1>13,
     <1>14, <1>15, <1>16 DEF Next, BodyStep, FnEnds, Retry
--------------------------------------------------------------------------------
(* A command is answered: its outcome is recorded and given to the body.   *)
Answered(type, o) ==
    /\ Running /\ Live /\ Asked \in Commands
    /\ type = "timer" <=> Asked.type = "timer"
    /\ Record(type, Asked.name, o) /\ Give(o)
    /\ pc' = "body"
    /\ UNCHANGED <<version, ended, blob, attempts, counters>>

LEMMA AnswerSteps ==
    ASSUME TypeInv, \/ FireTimer
                    \/ \E v \in Values : AttemptReturns(v)
                    \/ FailsFast \/ BudgetExhausted
    PROVE  \E type \in CommandEvents, o \in Outcomes : Answered(type, o)
<1>1. CASE FireTimer
  <2>1. Answered("timer", Fired)
    BY <1>1 DEF FireTimer, Answered, Running
  <2> QED
    BY <2>1 DEF CommandEvents, Outcomes
<1>2. CASE \E v \in Values : AttemptReturns(v)
  <2>1. PICK v \in Values : AttemptReturns(v)
    BY <1>2
  <2>2. Answered("activity", v)
    BY <2>1, InActivity DEF AttemptReturns, Answered
  <2> QED
    BY <2>2 DEF CommandEvents, Outcomes
<1>3. CASE FailsFast \/ BudgetExhausted
  <2>1. pc \in {"fn", "caught"} /\ HandsOff
    BY <1>3 DEF FailsFast, BudgetExhausted
  <2>2. Answered("handoff", Failed)
    BY <2>1, InActivity DEF HandsOff, RecordHandoff, Answered
  <2> QED
    BY <2>2 DEF CommandEvents, Outcomes
<1> QED
  BY <1>1, <1>2, <1>3

LEMMA AnsweredEffect ==
    ASSUME TypeInv, NEW type \in CommandEvents, NEW o \in Outcomes, Answered(type, o)
    PROVE  /\ Len(history) \in Nat /\ Len(history) = Len(results) + 1
           /\ cursor = Len(history) /\ Len(history') = Len(history) + 1
           /\ cursor' = Len(history')
           /\ history'[Len(history) + 1].type = type
           /\ history'[Len(history) + 1].payload = o
           /\ \A i \in 1..Len(history) : history'[i] = history[i]
           /\ Len(results') = Len(results) + 1
           /\ results'[Len(results) + 1] = o
           /\ \A n \in 1..Len(results) : results'[n] = results[n]
<1>1. Asked.name \in Activities \cup Timers
  BY AskedType DEF Answered
<1>2. cursor = Len(results) + 1 /\ cursor = Len(history)
  BY DEF TypeInv, Shape, Answered, Live
<1> QED
  BY <1>1, <1>2, RecordType, GiveType DEF Answered

(* Steps that touch neither the history nor what a command costs.          *)
Quiet ==
    /\ UNCHANGED <<history, cursor, results, attempt, blob, attempts, crashes>>
    /\ \/ pc' = pc
       \/ pc = "fn" /\ pc' = "caught"
       \/ pc' = "idle" /\ pc = "body"

(* The steps, sorted by what they do to the invariant.                     *)
LEMMA StepKinds ==
    ASSUME TypeInv, [Next]_vars
    PROVE  \/ \E type \in CommandEvents, o \in Outcomes : Answered(type, o)
           \/ Execute \/ BodyReturns \/ Replay
           \/ StartActivity \/ NextAttempt
           \/ Checkpoint \/ Damage \/ Crash \/ Resume
           \/ Quiet
<1>1. BodyRaises \/ AttemptRaises \/ Deploy \/ UNCHANGED vars => Quiet
  BY DEF BodyRaises, End, AttemptRaises, Deploy, process, counters, vars, Quiet
<1> QED
  BY <1>1, AnswerSteps DEF Next, BodyStep, FnEnds, Retry

(* While the process lives its history only grows.                         *)
LEMMA HistoryGrows ==
    ASSUME TypeInv, [Next]_vars, Alive, Alive'
    PROVE  /\ Len(history) <= Len(history')
           /\ \A i \in 1..Len(history) : history'[i] = history[i]
<1>1. history \in Seq(Events) /\ Len(history) \in Nat
  BY LenProperties DEF TypeInv, TypeOK
<1>2. ASSUME NEW type \in CommandEvents, NEW o \in Outcomes, Answered(type, o)
      PROVE  /\ Len(history) <= Len(history')
             /\ \A i \in 1..Len(history) : history'[i] = history[i]
  BY <1>2, AnsweredEffect
<1>3. CASE Execute
  <2>1. CASE history = <<>>
    BY <1>1, <1>3, <2>1 DEF Execute
  <2>2. CASE history # <<>>
    BY <1>1, <1>3, <2>2 DEF Execute
  <2> QED
    BY <2>1, <2>2
<1>4. CASE BodyReturns
  <2>1. Completed \in Events
    BY DEF Completed, Event, Events, Names, CommandEvents
  <2> QED
    BY <1>1, <1>4, <2>1 DEF BodyReturns, WithCompleted
<1>5. CASE Replay \/ StartActivity \/ NextAttempt \/ Checkpoint \/ Damage \/ Quiet
  <2>1. UNCHANGED history
    BY <1>5 DEF Replay, StartActivity, NextAttempt, Checkpoint, Damage, process, Quiet
  <2> QED
    BY <1>1, <2>1
<1>6. ~Crash /\ ~Resume
  BY DEF Crash, Resume, Alive
<1> QED
  BY <1>2, <1>3, <1>4, <1>5, <1>6, StepKinds
--------------------------------------------------------------------------------
(* What the body was told is what the history says.                        *)
LEMMA ToldStep == TypeInv /\ Told /\ [Next]_vars => Told'
<1> SUFFICES ASSUME TypeInv, Told, [Next]_vars PROVE Told'
  OBVIOUS
<1>1. /\ history \in Seq(Events) /\ Len(history) \in Nat
      /\ results \in Seq(Outcomes) /\ Len(results) \in Nat
  BY LenProperties DEF TypeInv, TypeOK
<1>2. ASSUME NEW type \in CommandEvents, NEW o \in Outcomes, Answered(type, o) PROVE Told'
  <2>1. /\ Len(history) = Len(results) + 1 /\ Len(history') = Len(history) + 1
        /\ history'[Len(history) + 1].payload = o
        /\ \A i \in 1..Len(history) : history'[i] = history[i]
        /\ Len(results') = Len(results) + 1 /\ results'[Len(results) + 1] = o
        /\ \A n \in 1..Len(results) : results'[n] = results[n]
    BY <1>2, AnsweredEffect
  <2>2. \A n \in 1..Len(results) : n + 1 \in 1..Len(history)
    BY <1>1, <2>1
  <2> SUFFICES ASSUME NEW n \in 1..Len(results')
               PROVE  n < Len(history') /\ results'[n] = history'[n + 1].payload
    BY DEF Told
  <2>3. CASE n \in 1..Len(results)
    BY <1>1, <2>1, <2>2, <2>3 DEF Told
  <2>4. CASE n = Len(results) + 1
    BY <1>1, <2>1, <2>4
  <2> QED
    BY <1>1, <2>1, <2>3, <2>4
<1>3. CASE UNCHANGED results /\ Alive /\ Alive'
  <2>1. /\ Len(history) <= Len(history')
        /\ \A i \in 1..Len(history) : history'[i] = history[i]
    BY <1>3, HistoryGrows
  <2>2. Len(history') \in Nat
    BY TypeStep, LenProperties DEF TypeInv, TypeOK
  <2>3. \A n \in 1..Len(results) : n < Len(history) => n + 1 \in 1..Len(history)
    BY <1>1
  <2> QED
    BY <1>1, <1>3, <2>1, <2>2, <2>3 DEF Told
<1>4. CASE Execute \/ Crash \/ Resume
  <2>1. results' = <<>>
    BY <1>4 DEF Execute, Crash, Resume, TypeInv, Shape, Alive
  <2> QED
    BY <2>1, EmptySeq DEF Told
<1>5. CASE Replay
  <2>1. Running /\ Asked \in Commands /\ cursor = Len(results) + 1 /\ cursor < Len(history)
    BY <1>1, <1>5 DEF Replay, Running, Live, TypeInv, TypeOK, Shape
  <2>2. CASE /\ Matches(history[cursor + 1], Asked) /\ cursor' = cursor + 1
             /\ Give(history[cursor + 1].payload)
    <3>1. results' = Append(results, history[cursor + 1].payload) /\ history' = history
      BY <1>5, <2>2 DEF Replay, Give
    <3>2. history[cursor + 1] \in Events
      BY <1>1, <2>1, ElementOfSeq
    <3>3. history[cursor + 1].payload \in Outcomes
      BY <2>1, <2>2, <3>2, AskedType DEF Matches, CommandEvents, Events
    <3>4. /\ Len(results') = Len(results) + 1
          /\ results'[Len(results) + 1] = history[cursor + 1].payload
          /\ \A n \in 1..Len(results) : results'[n] = results[n]
      BY <1>1, <3>1, <3>3
    <3> QED
      BY <1>1, <2>1, <3>1, <3>4 DEF Told
  <2>3. CASE UNCHANGED results
    BY <1>5, <2>3 DEF Replay, Told
  <2> QED
    BY <1>5, <2>2, <2>3 DEF Replay
<1>6. CASE BodyReturns \/ StartActivity \/ NextAttempt \/ Checkpoint
  BY <1>3, <1>6 DEF BodyReturns, End, StartActivity, NextAttempt, Again, CallFn, Checkpoint,
                    process, Alive
<1>7. CASE Quiet \/ Damage
  BY <1>7 DEF Quiet, Damage, process, Told
<1> QED
  BY <1>2, <1>4, <1>5, <1>6, <1>7, StepKinds

(* A living process goes on from the sealed history.                       *)
LEMMA SealStep == TypeInv /\ SealInv /\ [Next]_vars => SealInv'
<1> SUFFICES ASSUME TypeInv, SealInv, [Next]_vars, Alive', blob' # None
             PROVE  /\ Len(blob'.hash) <= Len(history')
                    /\ \A i \in 1..Len(blob'.hash) : blob'.hash[i] = history_hash(history')[i]
  BY DEF SealInv
<1>1. history \in Seq(Events) /\ Len(history) \in Nat
  BY LenProperties DEF TypeInv, TypeOK
<1>2. history' \in Seq(Events) /\ Len(history') \in Nat
  BY TypeStep, LenProperties DEF TypeInv, TypeOK
<1>3. CASE Checkpoint
  <2>1. history' = history /\ blob'.hash = history_hash(history)
    BY <1>3 DEF Checkpoint, process
  <2> QED
    BY <1>1, <2>1, HistoryType
<1>4. CASE Resume
  <2>1. /\ blob' = blob /\ Intact(blob) /\ history' = Reload(blob.events)
    BY <1>4 DEF Resume, Alive
  <2>2. history_hash(history') = blob'.hash
    BY <2>1 DEF Intact
  <2> QED
    BY <1>2, <2>2, HistoryType
<1>5. CASE Alive /\ blob # None /\ blob'.hash = blob.hash
  <2>1. /\ Len(blob.hash) <= Len(history)
        /\ \A i \in 1..Len(blob.hash) : blob.hash[i] = history_hash(history)[i]
    BY <1>5 DEF SealInv
  <2>2. Len(blob.hash) \in Nat
    BY <1>5, LenProperties DEF TypeInv, TypeOK
  <2>3. /\ Len(history) <= Len(history')
        /\ \A i \in 1..Len(history) : history'[i] = history[i]
    BY <1>5, HistoryGrows
  <2>4. \A i \in 1..Len(history) : history_hash(history')[i] = history_hash(history)[i]
    <3>1. \A i \in 1..Len(history) : history_hash(history)[i] = Hashed(history[i])
      BY <1>1, HistoryType
    <3>2. \A i \in 1..Len(history') : history_hash(history')[i] = Hashed(history'[i])
      BY <1>2, HistoryType
    <3>3. \A i \in 1..Len(history) : i \in 1..Len(history')
      BY <1>1, <1>2, <2>3
    <3> QED
      BY <2>3, <3>1, <3>2, <3>3, Zenon
  <2> QED
    BY <1>1, <1>2, <1>5, <2>1, <2>2, <2>3, <2>4
<1>6. CASE Damage
  <2>1. blob # None /\ blob'.hash = blob.hash /\ Alive' = Alive
    BY <1>6 DEF Damage, process, Alive, TypeInv, TypeOK
  <2> QED
    BY <1>5, <2>1
<1>7. CASE ~Checkpoint /\ ~Resume /\ ~Damage
  <2>1. UNCHANGED blob
    BY <1>7, StepKinds DEF Answered, Execute, BodyReturns, Replay, StartActivity, NextAttempt,
                           Crash, Quiet
  <2>2. Alive
    BY <1>7, StepKinds DEF Answered, Running, Execute, BodyReturns, Replay, StartActivity,
                           NextAttempt, Crash, Quiet, Alive
  <2> QED
    BY <1>5, <2>1, <2>2
<1> QED
  BY <1>3, <1>4, <1>6, <1>7

(* Nothing follows the completion, and a running body has not replayed it. *)
LEMMA DoneStep == TypeInv /\ DoneInv /\ [Next]_vars => DoneInv'
<1> SUFFICES ASSUME TypeInv, DoneInv, [Next]_vars PROVE DoneInv'
  OBVIOUS
<1>1. history \in Seq(Events) /\ Len(history) \in Nat /\ cursor \in 0..Len(history)
  BY LenProperties DEF TypeInv, TypeOK
<1>2. history' \in Seq(Events) /\ Len(history') \in Nat
  BY TypeStep, LenProperties DEF TypeInv, TypeOK
<1>3. ASSUME NEW type \in CommandEvents, NEW o \in Outcomes, Answered(type, o) PROVE DoneInv'
  <2>1. /\ cursor = Len(history) /\ Len(history') = Len(history) + 1
        /\ history'[Len(history) + 1].type = type
        /\ \A i \in 1..Len(history) : history'[i] = history[i]
        /\ cursor' = Len(history')
    BY <1>3, AnsweredEffect
  <2>2. \A i \in 1..Len(history) : history[i].type # "completed"
    BY <1>1, <1>3, <2>1 DEF DoneInv, Answered
  <2>3. \A i \in 1..Len(history') : history'[i].type # "completed"
    BY <1>1, <2>1, <2>2 DEF CommandEvents
  <2> QED
    BY <1>3, <2>1, <2>3 DEF DoneInv, LastOnly, Answered
<1>4. CASE Execute
  <2>1. history' = IF history = <<>> THEN <<Started>> ELSE history
    BY <1>4 DEF Execute
  <2>2. LastOnly(history')
    BY <2>1 DEF DoneInv, LastOnly, Started, Event
  <2>3. history' # <<>> /\ history'[1].type = "started" /\ cursor' = Len(results') + 1
    BY <1>4, TypeStep DEF TypeInv, Shape, StartsRight, Execute, Running
  <2>4. results' = <<>>
    BY <1>4 DEF Execute
  <2> QED
    BY <1>4, <2>2, <2>3, <2>4 DEF DoneInv, Execute
<1>5. CASE BodyReturns
  <2>1. Completed \in Events
    BY DEF Completed, Event, Events, Names, CommandEvents
  <2>2. LastOnly(history')
    <3>1. CASE Has("completed", history)
      BY <1>5, <3>1 DEF BodyReturns, WithCompleted, DoneInv
    <3>2. CASE ~Has("completed", history)
      <4>1. \A i \in 1..Len(history) : history[i].type # "completed"
        BY <1>1, <3>2, LenProperties DEF Has
      <4>2. history' = Append(history, Completed)
        BY <1>5, <3>2 DEF BodyReturns, WithCompleted
      <4> QED
        BY <1>1, <2>1, <4>1, <4>2 DEF LastOnly
    <3> QED
      BY <3>1, <3>2
  <2> QED
    BY <1>5, <2>2 DEF BodyReturns, End, DoneInv, Running
<1>6. CASE Replay
  <2>1. /\ history' = history /\ blob' = blob /\ cursor < Len(history)
        /\ Running /\ Asked \in Commands
    BY <1>1, <1>6 DEF Replay, Live, Running
  <2>2. CASE cursor' = cursor + 1 /\ Matches(history[cursor + 1], Asked)
    <3>1. history[cursor + 1].type # "completed"
      BY <2>1, <2>2, AskedType DEF Matches
    <3> QED
      BY <1>1, <2>1, <2>2, <3>1 DEF DoneInv, Running
  <2>3. CASE pc' = "idle"
    BY <2>1, <2>3 DEF DoneInv, Running
  <2> QED
    BY <1>6, <2>2, <2>3 DEF Replay, End
<1>7. CASE StartActivity \/ NextAttempt \/ Quiet
  BY <1>7 DEF StartActivity, NextAttempt, Again, CallFn, Quiet, DoneInv, Running
<1>8. CASE Checkpoint
  <2>1. UNCHANGED <<history, cursor, pc>> /\ blob'.events = history
    BY <1>8 DEF Checkpoint, process
  <2> QED
    BY <2>1 DEF DoneInv, Running
<1>9. CASE Damage
  <2>1. PICK n \in 0..Len(blob.events) - 1 : blob' = [blob EXCEPT !.events = SubSeq(@, 1, n)]
    BY <1>9 DEF Damage
  <2>2. blob.events \in Seq(Events) /\ Len(blob.events) \in Nat /\ LastOnly(blob.events)
    BY <1>9, LenProperties DEF Damage, TypeInv, TypeOK, DoneInv
  <2>3. blob'.events = SubSeq(blob.events, 1, n)
    BY <1>9, <2>1 DEF Damage, TypeInv, TypeOK
  <2>4. /\ Len(SubSeq(blob.events, 1, n)) = n
        /\ \A i \in 1..n : SubSeq(blob.events, 1, n)[i] = blob.events[i]
    BY <2>1, <2>2
  <2>5. LastOnly(blob'.events)
    BY <2>1, <2>2, <2>3, <2>4 DEF LastOnly
  <2>6. UNCHANGED <<history, cursor, pc>>
    BY <1>9 DEF Damage, process
  <2> QED
    BY <2>5, <2>6 DEF DoneInv, Running
<1>10. CASE Crash
  <2>1. history' = <<>> /\ pc' = "down" /\ blob' = blob
    BY <1>10 DEF Crash
  <2> QED
    BY <2>1, EmptySeq DEF DoneInv, LastOnly, Running
<1>11. CASE Resume
  <2>1. LastOnly(history')
    <3>1. CASE history' = history
      BY <3>1 DEF DoneInv
    <3>2. CASE blob # None /\ history' = Reload(blob.events)
      <4>1. blob.events \in Seq(Events) /\ LastOnly(blob.events)
        BY <3>2 DEF TypeInv, TypeOK, DoneInv
      <4> QED
        BY <3>2, <4>1, HistoryType DEF LastOnly
    <3> QED
      BY <1>11, <3>1, <3>2 DEF Resume
  <2> QED
    BY <1>11, <2>1 DEF Resume, DoneInv, Running
<1> QED
  BY <1>3, <1>4, <1>5, <1>6, <1>7, <1>8, <1>9, <1>10, <1>11, StepKinds

(* A call of fn belongs to a command the history does not answer.          *)
LEMMA CallEffect ==
    ASSUME TypeInv, StartActivity \/ NextAttempt
    PROVE  /\ Ordinal \in 1..MaxCommands /\ Ordinal = Len(history) /\ Running /\ Live
           /\ attempts' = [attempts EXCEPT ![Ordinal] = @ + 1]
           /\ pc' = "fn" /\ attempt' \in 1..max_attempts
           /\ \/ pc = "body" /\ attempt' = 1
              \/ pc = "caught" /\ attempt' = attempt + 1
           /\ UNCHANGED <<history, results, blob, crashes>>
<1>1. max_attempts \in Nat \ {0}
  BY WorkflowConstants
<1>2. Running /\ Live /\ Ordinal \in 1..MaxCommands
  BY InActivity, AskedType DEF StartActivity, NextAttempt, Running
<1>3. Ordinal = Len(history)
  BY <1>2 DEF TypeInv, Shape, Ordinal, Live
<1> QED
  BY <1>1, <1>2, <1>3 DEF StartActivity, NextAttempt, Again, CallFn, Exhausted, counters,
                          TypeInv, TypeOK

LEMMA BudgetStep == TypeInv /\ BudgetInv /\ [Next]_vars => BudgetInv'
<1> SUFFICES ASSUME TypeInv, BudgetInv, [Next]_vars, NEW n \in 1..MaxCommands
             PROVE  Budget(n)'
  BY DEF BudgetInv
<1>0. max_attempts \in Nat \ {0} /\ MaxCommands \in Nat /\ crashes \in Nat
  BY WorkflowConstants DEF TypeInv, TypeOK
<1>1. /\ Len(history) \in Nat /\ Len(results) \in Nat /\ attempts[n] \in Nat
      /\ attempt \in 0..max_attempts /\ Budget(n) /\ n \in Nat \ {0}
  BY <1>0, LenProperties DEF TypeInv, TypeOK, BudgetInv
<1>2. Len(history') \in Nat
  BY TypeStep, LenProperties DEF TypeInv, TypeOK
<1>3. Lost \in Nat
  BY <1>0 DEF Lost
<1>4. ASSUME NEW type \in CommandEvents, NEW o \in Outcomes, Answered(type, o)
      PROVE  Budget(n)'
  <2>1. /\ Ordinal = Len(history) /\ Len(history') = Len(history) + 1
        /\ UNCHANGED <<attempts, crashes>> /\ pc' = "body"
    BY <1>4, AnsweredEffect DEF Ordinal, Answered, counters
  <2>2. Lost' = Lost
    BY <2>1 DEF Lost
  <2> QED
    BY <1>0, <1>1, <1>3, <2>1, <2>2 DEF Budget
<1>5. CASE Execute \/ BodyReturns
  <2>1. /\ UNCHANGED <<attempts, crashes>> /\ pc \in {"idle", "body"} /\ pc' \in {"body", "idle"}
        /\ Alive /\ Alive'
    BY <1>5 DEF Execute, BodyReturns, End, counters, Alive
  <2>2. Len(history) <= Len(history')
    BY <2>1, HistoryGrows
  <2>3. Lost' = Lost
    BY <2>1 DEF Lost
  <2> QED
    BY <1>0, <1>1, <1>2, <1>3, <2>1, <2>2, <2>3 DEF Budget
<1>6. CASE Replay \/ Checkpoint \/ Damage
  <2>1. /\ UNCHANGED <<history, attempts, crashes>>
        /\ \/ pc = "body" /\ pc' \in {"body", "idle"}
           \/ UNCHANGED <<pc, results, attempt>>
    BY <1>6 DEF Replay, End, Checkpoint, Damage, process, counters
  <2>2. Lost' = Lost
    BY <2>1 DEF Lost
  <2> QED
    BY <1>1, <2>1, <2>2 DEF Budget, Ordinal
<1>7. CASE StartActivity \/ NextAttempt
  <2>1. /\ Ordinal = Len(history) /\ Ordinal \in 1..MaxCommands
        /\ attempts' = [attempts EXCEPT ![Ordinal] = @ + 1]
        /\ pc' = "fn" /\ attempt' \in 1..max_attempts
        /\ \/ pc = "body" /\ attempt' = 1
           \/ pc = "caught" /\ attempt' = attempt + 1
        /\ UNCHANGED <<history, results, crashes>>
    BY <1>7, CallEffect
  <2>2. Lost' = Lost /\ Ordinal' = Ordinal
    BY <2>1 DEF Lost, Ordinal
  <2>3. attempts'[n] = IF n = Ordinal THEN attempts[n] + 1 ELSE attempts[n]
    BY <2>1 DEF TypeInv, TypeOK
  <2> QED
    BY <1>1, <1>3, <2>1, <2>2, <2>3 DEF Budget
<1>8. CASE Crash
  <2>1. crashes' = crashes + 1 /\ history' = <<>> /\ pc' = "down" /\ attempts' = attempts
    BY <1>8 DEF Crash
  <2>2. Lost' = Lost + max_attempts
    BY <1>0, <2>1 DEF Lost
  <2> QED
    BY <1>0, <1>1, <1>3, <2>1, <2>2, EmptySeq DEF Budget
<1>9. CASE Resume
  <2>1. pc = "down" /\ pc' \in {"idle", "refused"} /\ UNCHANGED <<attempts, crashes>>
    BY <1>9 DEF Resume, counters
  <2>2. Len(history) = 0
    BY <2>1, EmptySeq DEF TypeInv, Shape, Alive
  <2>3. Lost' = Lost
    BY <2>1 DEF Lost
  <2> QED
    BY <1>0, <1>1, <1>2, <1>3, <2>1, <2>2, <2>3 DEF Budget
<1>10. CASE Quiet
  <2>1. Lost' = Lost /\ Ordinal' = Ordinal
    BY <1>10 DEF Quiet, Lost, Ordinal
  <2> QED
    BY <1>1, <1>10, <2>1 DEF Quiet, Budget
<1> QED
  BY <1>4, <1>5, <1>6, <1>7, <1>8, <1>9, <1>10, StepKinds
--------------------------------------------------------------------------------
LEMMA Initially == Init => IInv
<1> SUFFICES ASSUME Init PROVE IInv
  OBVIOUS
<1>1. /\ <<>> \in Seq(Events) /\ <<>> \in Seq(Outcomes) /\ Len(<<>>) = 0
      /\ max_attempts \in Nat \ {0} /\ MaxCommands \in Nat
  BY EmptySeq, WorkflowConstants
<1>2. TypeOK
  BY <1>1 DEF Init, TypeOK
<1>3. Shape /\ Told /\ SealInv /\ DoneInv
  BY <1>1 DEF Init, Shape, StartsRight, Running, Alive, Told, SealInv, DoneInv, LastOnly
<1>4. Lost = 0
  BY <1>1 DEF Init, Lost
<1>5. BudgetInv
  BY <1>1, <1>4 DEF Init, BudgetInv, Budget
<1> QED
  BY <1>2, <1>3, <1>5 DEF IInv, TypeInv

LEMMA Inductive == IInv /\ [Next]_vars => IInv'
BY TypeStep, ToldStep, SealStep, DoneStep, BudgetStep DEF IInv

LEMMA Invariance == Spec => []IInv
<1>1. Init => IInv
  BY Initially
<1>2. IInv /\ [Next]_vars => IInv'
  BY Inductive
<1> QED
  BY <1>1, <1>2, PTL DEF Spec

(* Every variable keeps its range; the attempt number never passes the     *)
(* policy's max_attempts (run_activity).                                   *)
THEOREM TypeCorrect == Spec => []TypeOK
<1>1. IInv => TypeOK
  BY DEF IInv, TypeInv
<1> QED
  BY <1>1, Invariance, PTL

(* Replay gives the body the outcomes of the last checkpoint, whatever     *)
(* crashed, was damaged or deployed in between (execute, resume).          *)
THEOREM ReplayFaithful == Spec => []DecisionsReplayed
<1>1. IInv => DecisionsReplayed
  <2> SUFFICES ASSUME IInv, blob # None, NEW n \in DOMAIN results, n < Len(blob.hash)
               PROVE  blob.hash[n + 1].payload = Bytes(results[n])
    BY DEF DecisionsReplayed
  <2>1. /\ results \in Seq(Outcomes) /\ Len(results) \in Nat /\ DOMAIN results = 1..Len(results)
        /\ history \in Seq(Events) /\ Len(history) \in Nat
        /\ blob.hash \in Seq(Events) /\ Len(blob.hash) \in Nat
    BY LenProperties DEF IInv, TypeInv, TypeOK
  <2>2. Alive
    BY <2>1 DEF IInv, TypeInv, Shape
  <2>3. n + 1 \in 1..Len(blob.hash) /\ Len(blob.hash) <= Len(history)
    BY <2>1, <2>2 DEF IInv, SealInv
  <2>4. blob.hash[n + 1] = history_hash(history)[n + 1]
    BY <2>2, <2>3 DEF IInv, SealInv
  <2>5. n + 1 \in 1..Len(history)
    BY <2>1, <2>3
  <2>6. history_hash(history)[n + 1].payload = Bytes(history[n + 1].payload)
    BY <2>1, <2>5, HistoryType
  <2>7. results[n] = history[n + 1].payload
    BY <2>1 DEF IInv, Told
  <2> QED
    BY <2>4, <2>6, <2>7
<1> QED
  BY <1>1, Invariance, PTL

(* The retry budget bounds the calls of fn for a command, however often    *)
(* the workflow is executed, for every number of crashes (run_activity).   *)
THEOREM BudgetHolds == Spec => []AttemptsBounded
<1>1. IInv => AttemptsBounded
  <2> SUFFICES ASSUME IInv, NEW n \in 1..MaxCommands
               PROVE  attempts[n] <= max_attempts * (1 + crashes)
    BY DEF AttemptsBounded
  <2>1. /\ max_attempts \in Nat /\ crashes \in Nat /\ MaxCommands \in Nat
        /\ attempts[n] \in Nat /\ attempt \in 0..max_attempts
    BY WorkflowConstants DEF IInv, TypeInv, TypeOK
  <2>2. Lost \in Nat /\ max_attempts * (1 + crashes) = Lost + max_attempts
    BY <2>1 DEF Lost
  <2>3. Budget(n)
    BY DEF IInv, BudgetInv
  <2> QED
    BY <2>1, <2>2, <2>3 DEF Budget
<1> QED
  BY <1>1, Invariance, PTL

(* Nothing is recorded after WORKFLOW_COMPLETED, by no execution of no     *)
(* version (execute).                                                      *)
THEOREM CompletionFinal == Spec => []CompletedIsLast
<1>1. IInv => CompletedIsLast
  BY LenProperties DEF IInv, TypeInv, TypeOK, DoneInv, LastOnly, CompletedIsLast
<1> QED
  BY <1>1, Invariance, PTL

(* No side effect is repeated once its outcome, or the completion of the   *)
(* workflow, is in the checkpoint (_replay_or_execute).                    *)
THEOREM SideEffectsOnce == Spec => RecordedNotRerun
<1>1. IInv /\ [Next]_vars
         => [\A n \in 1..MaxCommands : Sealed(n) => attempts'[n] = attempts[n]]_vars
  <2> SUFFICES ASSUME IInv, [Next]_vars, NEW n \in 1..MaxCommands, Sealed(n)
               PROVE  attempts'[n] = attempts[n]
    OBVIOUS
  <2>1. TypeInv /\ SealInv /\ DoneInv
    BY DEF IInv
  <2>2. CASE StartActivity \/ NextAttempt
    <3>1. /\ Ordinal \in 1..MaxCommands /\ Ordinal = Len(history) /\ Running /\ Live
          /\ attempts' = [attempts EXCEPT ![Ordinal] = @ + 1]
      BY <2>1, <2>2, CallEffect
    <3>2. /\ history \in Seq(Events) /\ Len(history) \in Nat /\ cursor = Len(history)
          /\ blob # None /\ blob.hash \in Seq(Events) /\ Len(blob.hash) \in Nat
          /\ DOMAIN blob.hash = 1..Len(blob.hash)
      BY <2>1, <3>1, LenProperties DEF TypeInv, TypeOK, Live, Sealed
    <3>3. /\ Len(blob.hash) <= Len(history)
          /\ \A i \in 1..Len(blob.hash) : blob.hash[i] = history_hash(history)[i]
      BY <2>1, <3>1, <3>2 DEF SealInv, Running, Alive
    <3>4. \A i \in 1..Len(history) : history_hash(history)[i].type # "completed"
      BY <2>1, <3>1, <3>2, HistoryType DEF DoneInv
    <3>5. \A i \in 1..Len(blob.hash) : blob.hash[i].type # "completed"
      BY <3>2, <3>3, <3>4
    <3>6. n < Len(blob.hash)
      BY <3>2, <3>5 DEF Sealed, Has
    <3>7. n # Ordinal
      BY <3>1, <3>2, <3>3, <3>6
    <3> QED
      BY <2>1, <3>1, <3>7 DEF TypeInv, TypeOK
  <2>3. CASE ~(StartActivity \/ NextAttempt)
    <3>1. UNCHANGED attempts
      BY <2>1, <2>3, StepKinds DEF Answered, Execute, BodyReturns, Replay, Checkpoint, Damage,
                                   Crash, Resume, Quiet
    <3> QED
      BY <3>1
  <2> QED
    BY <2>2, <2>3
<1> QED
  BY <1>1, Invariance, PTL DEF Spec, RecordedNotRerun

--------------------------------------------------------------------------------
(* The refinement of WorkflowRun: what the live history would make of the  *)
(* durable run if it were checkpointed now.                                *)
Hash == history_hash(history)
Run == Decisions(Hash)

Decided == {Decision(e) : e \in Events}
WellEnded(h) == StartsRight(h) /\ LastOnly(h)

(* The decisions of a history lie one behind its events, up to the end.    *)
LEMMA DecisionsShape ==
    ASSUME NEW h \in Seq(Events), WellEnded(h)
    PROVE  /\ Decisions(h) \in Seq(Decided) /\ Len(Decisions(h)) \in Nat /\ Len(h) \in Nat
           /\ h = <<>> => Decisions(h) = <<>> /\ Len(Decisions(h)) = 0 /\ Len(h) = 0
           /\ h # <<>> => Len(Decisions(h)) = IF Has("completed", h) THEN Len(h) - 2 ELSE Len(h) - 1
           /\ \A n \in 1 .. Len(Decisions(h)) :
                 n + 1 \in 1 .. Len(h) /\ Decisions(h)[n] = Decision(h[n + 1])
<1> DEFINE c == IF h = <<>> THEN 0 ELSE IF Has("completed", h) THEN Len(h) - 2 ELSE Len(h) - 1
<1>1. Len(h) \in Nat /\ DOMAIN h = 1 .. Len(h) /\ (h = <<>> <=> Len(h) = 0)
  BY LenProperties, EmptySeq
<1>2. h # <<>> /\ Has("completed", h) => Len(h) >= 2
  <2> SUFFICES ASSUME h # <<>>, NEW i \in 1 .. Len(h), h[i].type = "completed" PROVE Len(h) >= 2
    BY <1>1 DEF Has
  <2>1. i = Len(h) /\ h[1].type = "started"
    BY DEF WellEnded, StartsRight, LastOnly
  <2>2. i # 1
    BY <2>1
  <2> QED
    BY <1>1, <2>1, <2>2
<1>3. h = <<>> => ~Has("completed", h)
  BY <1>1 DEF Has
<1>4. c \in Nat /\ \A n \in 1 .. c : n + 1 \in 1 .. Len(h)
  BY <1>1, <1>2
<1>5. 1 .. c = 1 .. (IF Has("completed", h) THEN Len(h) - 1 ELSE Len(h)) - 1
  BY <1>1, <1>2, <1>3
<1> HIDE DEF c
<1>6. Decisions(h) = [n \in 1 .. c |-> Decision(h[n + 1])]
  BY <1>5 DEF Decisions
<1>7. \A n \in 1 .. c : h[n + 1] \in Events
  BY <1>1, <1>4, ElementOfSeq
<1>8. \A n \in 1 .. c : Decision(h[n + 1]) \in Decided
  BY <1>7 DEF Decided
<1>9. Decisions(h) \in [1 .. c -> Decided]
  BY <1>6, <1>8
<1>10. Decisions(h) \in Seq(Decided) /\ Len(Decisions(h)) = c
  BY <1>4, <1>9, SeqDef, LenProperties
<1>11. h = <<>> => Decisions(h) = <<>>
  BY <1>10, EmptySeq DEF c
<1>12. \A n \in 1 .. c : Decisions(h)[n] = Decision(h[n + 1])
  BY <1>6
<1> QED
  BY <1>1, <1>4, <1>10, <1>11, <1>12 DEF c

(* Two runs that agree on their first k decisions are asked the same.      *)
LEMMA AgreeAsks ==
    ASSUME NEW r \in Seq(Decided), NEW s \in Seq(Decided), NEW k \in Nat,
           k <= Len(r), k <= Len(s), \A i \in 1 .. k : r[i] = s[i], NEW v
    PROVE  /\ WR!Asks(v, r, k) = WR!Asks(v, s, k)
           /\ WR!Makes(v, r, k) => WR!Makes(v, s, k)
<1>1. ASSUME NEW n \in 0 .. k PROVE WR!Asks(v, r, n) = WR!Asks(v, s, n)
  <2>1. /\ SubSeq(r, 1, n) \in Seq(Decided) /\ Len(SubSeq(r, 1, n)) = n
        /\ SubSeq(s, 1, n) \in Seq(Decided) /\ Len(SubSeq(s, 1, n)) = n
        /\ \A i \in 1 .. n : SubSeq(r, 1, n)[i] = r[i] /\ SubSeq(s, 1, n)[i] = s[i]
    BY SubSeqProperties
  <2>2. SubSeq(r, 1, n) = SubSeq(s, 1, n)
    BY <2>1, SeqEqual
  <2> QED
    BY <2>2, Zenon DEF WR!Asks
<1>2. \A n \in 1 .. k : n - 1 \in 0 .. k
  OBVIOUS
<1>3. ASSUME WR!Makes(v, r, k) PROVE WR!Makes(v, s, k)
  <2> SUFFICES ASSUME NEW n \in 1 .. k PROVE WR!Asks(v, s, n - 1) = s[n].command
    BY DEF WR!Makes
  <2>1. WR!Asks(v, r, n - 1) = r[n].command
    BY <1>3 DEF WR!Makes
  <2> QED
    BY <1>1, <1>2, <2>1
<1> QED
  BY <1>1, <1>3

(* The deployed body has made the decisions it was given again, all of a   *)
(* run that is longer than the durable one, and a return that is not yet   *)
(* durable.                                                                *)
MadeGiven == Running => WR!Makes(version, Run, Len(results))
MadePast ==
    /\ Len(Run) > Len(Decisions(Durable)) => WR!Makes(version, Run, Len(Run))
    /\ Has("completed", Hash) /\ ~Has("completed", Durable) =>
          \E k \in 0 .. Len(Run) :
             WR!Makes(version, Run, k) /\ WR!Asks(version, Run, k) = Return
MadeInv == MadeGiven /\ MadePast

(* The shape of the live run, and what the running body was told of it.    *)
LEMMA RunShape ==
    ASSUME TypeInv, Told, DoneInv
    PROVE  /\ Hash \in Seq(Events) /\ Len(Hash) = Len(history) /\ Len(history) \in Nat
           /\ WellEnded(Hash) /\ DOMAIN Hash = 1 .. Len(history)
           /\ Has("completed", Hash) <=> Has("completed", history)
           /\ Run \in Seq(Decided) /\ Len(Run) \in Nat /\ Len(results) \in Nat
           /\ \A i \in 1 .. Len(history) : Hash[i] = Hashed(history[i])
           /\ Running => Len(results) <= Len(Run) /\ WR!Asks(version, Run, Len(results)) = Asked
<1>1. /\ history \in Seq(Events) /\ Len(history) \in Nat /\ DOMAIN history = 1 .. Len(history)
      /\ results \in Seq(Outcomes) /\ Len(results) \in Nat /\ DOMAIN results = 1 .. Len(results)
      /\ cursor \in 0 .. Len(history)
  BY LenProperties DEF TypeInv, TypeOK
<1>2. /\ Hash \in Seq(Events) /\ Len(Hash) = Len(history) /\ DOMAIN Hash = 1 .. Len(history)
      /\ \A i \in 1 .. Len(history) : /\ Hash[i].type = history[i].type
                                      /\ Hash[i].payload = Bytes(history[i].payload)
                                      /\ Hash[i] = Hashed(history[i])
  BY <1>1, HistoryType, LenProperties DEF Hash
<1> HIDE DEF Hash
<1>3. WellEnded(Hash)
  <2>1. Hash # <<>> => history # <<>> /\ 1 \in 1 .. Len(history)
    BY <1>1, <1>2, EmptySeq, LenProperties
  <2>2. StartsRight(Hash)
    BY <1>2, <2>1 DEF StartsRight, TypeInv, Shape
  <2>3. LastOnly(Hash)
    BY <1>1, <1>2 DEF LastOnly, DoneInv
  <2> QED
    BY <2>2, <2>3 DEF WellEnded
<1>4. Has("completed", Hash) <=> Has("completed", history)
  BY <1>1, <1>2 DEF Has
<1>5. /\ Run \in Seq(Decided) /\ Len(Run) \in Nat
      /\ Hash # <<>> => Len(Run) = IF Has("completed", Hash) THEN Len(Hash) - 2 ELSE Len(Hash) - 1
      /\ \A n \in 1 .. Len(Run) : n + 1 \in 1 .. Len(Hash) /\ Run[n] = Decision(Hash[n + 1])
  BY <1>2, <1>3, DecisionsShape DEF Run
<1> HIDE DEF Run
<1>6. ASSUME Running
      PROVE  Len(results) <= Len(Run) /\ WR!Asks(version, Run, Len(results)) = Asked
  <2>1. /\ cursor = Len(results) + 1 /\ Hash # <<>>
        /\ \A i \in 1 .. cursor : history[i].type # "completed"
    BY <1>1, <1>2, <1>6, EmptySeq, LenProperties DEF TypeInv, Shape, DoneInv
  <2>2. Has("completed", history) => cursor < Len(history)
    <3> SUFFICES ASSUME NEW i \in 1 .. Len(history), history[i].type = "completed"
                 PROVE  cursor < Len(history)
      BY <1>1 DEF Has
    <3> QED
      BY <1>1, <2>1
  <2>3. Len(results) <= Len(Run)
    <3>1. Len(Run) = IF Has("completed", history) THEN Len(history) - 2 ELSE Len(history) - 1
      BY <1>2, <1>4, <1>5, <2>1
    <3>2. CASE Has("completed", history)
      <4>1. Len(Run) = Len(history) - 2 /\ cursor < Len(history)
        BY <2>2, <3>1, <3>2
      <4> QED
        BY <1>1, <2>1, <4>1
    <3>3. CASE ~Has("completed", history)
      <4>1. Len(Run) = Len(history) - 1
        BY <3>1, <3>3
      <4> QED
        BY <1>1, <2>1, <4>1
    <3> QED
      BY <3>2, <3>3
  <2> DEFINE m == Len(results)
             told == SubSeq(Run, 1, m)
  <2>4. told \in Seq(Decided) /\ Len(told) = m /\ \A n \in 1 .. m : told[n] = Run[n]
    BY <1>1, <1>5, <2>3, SubSeqProperties
  <2>5. DOMAIN told = 1 .. m
    BY <2>4, LenProperties
  <2>6. ASSUME NEW n \in 1 .. m PROVE told[n].outcome = Bytes(results[n])
    <3>1. n \in 1 .. Len(Run)
      BY <1>1, <1>5, <2>3
    <3>2. n + 1 \in 1 .. Len(history) /\ Run[n] = Decision(Hash[n + 1])
      BY <1>2, <1>5, <3>1
    <3>4. Run[n].outcome = Bytes(history[n + 1].payload)
      BY <1>2, <3>2 DEF Decision
    <3>3. results[n] = history[n + 1].payload
      BY DEF Told
    <3> QED
      BY <2>4, <3>4, <3>3
  <2> HIDE DEF told
  <2>7. WR!OutcomesOf(told) = Seen
    BY <1>1, <2>5, <2>6 DEF WR!OutcomesOf, Seen
  <2>8. WR!Asks(version, Run, m) = Body[version][WR!OutcomesOf(told)]
    BY Zenon DEF WR!Asks, told
  <2> QED
    BY <2>3, <2>7, <2>8, Zenon DEF Asked
<1> QED
  BY <1>1, <1>2, <1>3, <1>4, <1>5, <1>6

(* The body is changed only while the process is down.                     *)
LEMMA VersionKept ==
    ASSUME [Next]_vars
    PROVE  UNCHANGED version \/ Deploy
BY DEF Next, BodyStep, FnEnds, Retry, Execute, BodyReturns, BodyRaises, Replay, FireTimer,
       StartActivity, AttemptReturns, AttemptRaises, FailsFast, BudgetExhausted, HandsOff,
       NextAttempt, Checkpoint, process, Crash, Resume, Damage, vars

(* A checkpoint makes the live history the durable one; nothing else       *)
(* changes what is durable.                                                *)
LEMMA DurableKept ==
    ASSUME TypeInv, [Next]_vars
    PROVE  \/ Durable' = Durable
           \/ Checkpoint /\ Durable' = Hash /\ UNCHANGED <<history, version>>
<1>1. CASE Checkpoint
  <2>1. blob' = [events |-> history, hash |-> Hash] /\ UNCHANGED <<history, version>>
    BY <1>1 DEF Checkpoint, process, Hash
  <2>2. blob' # None
    <3>1. blob' \in Blobs
      BY <2>1, HistoryType DEF TypeInv, TypeOK, Hash, Blobs
    <3> QED
      BY <3>1, NoBlob
  <2> QED
    BY <1>1, <2>1, <2>2 DEF Durable
<1>2. CASE Damage
  <2>1. blob # None /\ blob' # None /\ blob'.hash = blob.hash
    <3>1. PICK n \in 0..Len(blob.events) - 1 : blob' = [blob EXCEPT !.events = SubSeq(@, 1, n)]
      BY <1>2 DEF Damage
    <3>2. blob # None /\ blob \in Blobs
      BY <1>2 DEF Damage, TypeInv, TypeOK
    <3>3. blob'.hash = blob.hash
      BY <3>1, <3>2 DEF Blobs
    <3>4. blob' \in Blobs
      <4>1. blob.events \in Seq(Events) /\ Len(blob.events) \in Nat
        BY <3>2, LenProperties
      <4>2. SubSeq(blob.events, 1, n) \in Seq(Events)
        BY <4>1
      <4> QED
        BY <3>1, <3>2, <4>2
    <3> QED
      BY <3>2, <3>3, <3>4, NoBlob
  <2> QED
    BY <2>1 DEF Durable
<1>3. CASE ~Checkpoint /\ ~Damage
  <2>1. UNCHANGED blob
    BY <1>3, StepKinds DEF Answered, Execute, BodyReturns, Replay, StartActivity, NextAttempt,
                           Crash, Resume, Quiet
  <2> QED
    BY <2>1 DEF Durable
<1> QED
  BY <1>1, <1>2, <1>3

(* The decisions of a recorded history, one behind its events.             *)
LEMMA RunOf ==
    ASSUME NEW h \in Seq(Events), WellEnded(h)
    PROVE  /\ Decisions(history_hash(h)) \in Seq(Decided)
           /\ Len(Decisions(history_hash(h))) \in Nat /\ Len(h) \in Nat
           /\ Has("completed", history_hash(h)) <=> Has("completed", h)
           /\ h = <<>> => Len(Decisions(history_hash(h))) = 0 /\ ~Has("completed", h)
           /\ h # <<>> => Len(Decisions(history_hash(h))) =
                            IF Has("completed", h) THEN Len(h) - 2 ELSE Len(h) - 1
           /\ \A n \in 1 .. Len(Decisions(history_hash(h))) :
                 /\ n + 1 \in 1 .. Len(h)
                 /\ Decisions(history_hash(h))[n] = Decision(Hashed(h[n + 1]))
<1> DEFINE g == history_hash(h)
<1>1. /\ g \in Seq(Events) /\ Len(g) = Len(h) /\ Len(h) \in Nat
      /\ DOMAIN h = 1 .. Len(h) /\ DOMAIN g = 1 .. Len(h)
      /\ \A i \in 1 .. Len(h) : g[i].type = h[i].type /\ g[i] = Hashed(h[i])
  BY HistoryType, LenProperties
<1>2. (h = <<>> <=> Len(h) = 0) /\ (g = <<>> <=> h = <<>>)
  BY <1>1, EmptySeq, LenProperties
<1> HIDE DEF g
<1>3. Has("completed", g) <=> Has("completed", h)
  BY <1>1 DEF Has
<1>4. WellEnded(g)
  <2>1. h # <<>> => 1 \in 1 .. Len(h)
    BY <1>1, <1>2
  <2> QED
    BY <1>1, <1>2, <2>1 DEF WellEnded, StartsRight, LastOnly
<1>5. /\ Decisions(g) \in Seq(Decided) /\ Len(Decisions(g)) \in Nat
      /\ g = <<>> => Len(Decisions(g)) = 0
      /\ g # <<>> => Len(Decisions(g)) = IF Has("completed", g) THEN Len(g) - 2 ELSE Len(g) - 1
      /\ \A n \in 1 .. Len(Decisions(g)) :
            n + 1 \in 1 .. Len(g) /\ Decisions(g)[n] = Decision(g[n + 1])
  BY <1>1, <1>4, DecisionsShape
<1>6. h = <<>> => ~Has("completed", h)
  BY <1>1, <1>2 DEF Has
<1>7. \A n \in 1 .. Len(Decisions(g)) : Decisions(g)[n] = Decision(Hashed(h[n + 1]))
  BY <1>1, <1>5
<1>8. h # <<>> => Len(Decisions(g)) = IF Has("completed", h) THEN Len(h) - 2 ELSE Len(h) - 1
  BY <1>1, <1>2, <1>3, <1>5, Zenon
<1> QED
  BY <1>1, <1>2, <1>3, <1>5, <1>6, <1>7, <1>8 DEF g

(* The live run is that of a well-ended history, before and after a step.  *)
LEMMA LiveRun ==
    ASSUME IInv, [Next]_vars
    PROVE  /\ history \in Seq(Events) /\ WellEnded(history)
           /\ history' \in Seq(Events) /\ WellEnded(history')
           /\ Run = Decisions(history_hash(history)) /\ Hash = history_hash(history)
           /\ Run' = Decisions(history_hash(history')) /\ Hash' = history_hash(history')
           /\ Len(results) \in Nat /\ Len(results') \in Nat
<1>1. TypeInv /\ DoneInv /\ TypeInv' /\ DoneInv'
  BY Inductive DEF IInv
<1>2. history \in Seq(Events) /\ WellEnded(history) /\ Len(results) \in Nat
  BY <1>1, LenProperties DEF TypeInv, TypeOK, Shape, DoneInv, WellEnded
<1>3. history' \in Seq(Events) /\ WellEnded(history') /\ Len(results') \in Nat
  BY <1>1, LenProperties DEF TypeInv, TypeOK, Shape, DoneInv, WellEnded
<1> QED
  BY <1>2, <1>3 DEF Run, Hash

(* Steps that leave the history alone, but for a checkpoint of it.         *)
LEMMA PastStill ==
    ASSUME MadePast, UNCHANGED <<history, version>>, Durable' = Durable \/ Durable' = Hash
    PROVE  MadePast'
<1>1. Hash' = Hash /\ Run' = Run /\ Run = Decisions(Hash) /\ version' = version
  BY DEF Run, Hash
<1>2. (Len(Run) > Len(Decisions(Durable)))' => WR!Makes(version, Run, Len(Run))'
  <2>1. CASE Durable' = Durable
    BY <1>1, <2>1, Zenon DEF MadePast, WR!Makes, WR!Asks
  <2>2. CASE Durable' = Hash
    <3>1. Decisions(Durable)' = Run /\ Run' = Run
      BY <1>1, <2>2 DEF Decisions, Has, Decision
    <3> QED
      BY <3>1
  <2> QED
    BY <2>1, <2>2
<1>3. (Has("completed", Hash) /\ ~Has("completed", Durable))' =>
         (\E k \in 0 .. Len(Run) :
             WR!Makes(version, Run, k) /\ WR!Asks(version, Run, k) = Return)'
  <2>1. Has("completed", Hash)' <=> Has("completed", Hash)
    BY <1>1 DEF Has
  <2>2. Has("completed", Durable)' <=> \/ Durable' = Durable /\ Has("completed", Durable)
                                       \/ Durable' = Hash /\ Has("completed", Hash)
    BY DEF Has
  <2>3. (\E k \in 0 .. Len(Run) :
             WR!Makes(version, Run, k) /\ WR!Asks(version, Run, k) = Return)' <=>
        (\E k \in 0 .. Len(Run) :
             WR!Makes(version, Run, k) /\ WR!Asks(version, Run, k) = Return)
    BY <1>1, Zenon DEF WR!Makes, WR!Asks
  <2> QED
    BY <2>1, <2>2, <2>3, Zenon DEF MadePast
<1> QED
  BY <1>2, <1>3 DEF MadePast

(* The host may leave the body, but gives it nothing.                      *)
LEMMA MadeStill ==
    ASSUME MadeInv, UNCHANGED <<history, version>>, Running' => Running /\ UNCHANGED results,
           Durable' = Durable \/ Durable' = Hash
    PROVE  MadeInv'
<1>1. Run' = Run /\ version' = version
  BY DEF Run, Hash
<1>2. MadeGiven'
  BY <1>1, Zenon DEF MadeInv, MadeGiven, WR!Makes, WR!Asks
<1> QED
  BY <1>2, PastStill DEF MadeInv

(* Decisions of whatever events are a sequence.                            *)
LEMMA DecisionsType ==
    ASSUME NEW h \in Seq(Events)
    PROVE  Decisions(h) \in Seq(Decided) /\ Len(Decisions(h)) \in Nat
<1> DEFINE last == IF Has("completed", h) THEN Len(h) - 1 ELSE Len(h)
           c == IF last - 1 >= 0 THEN last - 1 ELSE 0
<1>1. Len(h) \in Nat
  BY LenProperties
<1>2. last \in Int /\ last <= Len(h)
  <2>1. CASE Has("completed", h)
    BY <1>1, <2>1
  <2>2. CASE ~Has("completed", h)
    BY <1>1, <2>2
  <2> QED
    BY <2>1, <2>2
<1>3. Decisions(h) = [n \in 1 .. last - 1 |-> Decision(h[n + 1])]
  BY DEF Decisions
<1> HIDE DEF last
<1>4. c \in Nat /\ 1 .. c = 1 .. last - 1 /\ \A n \in 1 .. c : n + 1 \in 1 .. Len(h)
  BY <1>1, <1>2
<1>5. \A n \in 1 .. c : Decision(h[n + 1]) \in Decided
  BY <1>4, ElementOfSeq DEF Decided
<1> HIDE DEF c
<1>6. Decisions(h) \in [1 .. c -> Decided]
  BY <1>3, <1>4, <1>5
<1> QED
  BY <1>4, <1>6, SeqDef, LenProperties

LEMMA DurableType ==
    ASSUME TypeInv
    PROVE  /\ Durable \in Seq(Events)
           /\ Decisions(Durable) \in Seq(Decided) /\ Len(Decisions(Durable)) \in Nat
<1>1. Durable \in Seq(Events)
  BY EmptySeq DEF TypeInv, TypeOK, Durable
<1> QED
  BY <1>1, DecisionsType

(* A body that starts afresh has decided nothing.                          *)
LEMMA MadeFresh ==
    ASSUME IInv, [Next]_vars, Durable' = Durable, history' \in {<<>>, <<Started>>},
           Running' => results' = <<>>
    PROVE  MadeInv'
<1>1. /\ history' \in Seq(Events) /\ WellEnded(history')
      /\ Run' = Decisions(history_hash(history')) /\ Hash' = history_hash(history')
  BY LiveRun
<1>3. Len(Run') = 0 /\ ~Has("completed", Hash')
  <2>1. CASE history' = <<Started>>
    <3>1. /\ Len(history') = 1 /\ history' # <<>> /\ history'[1].type = "started"
          /\ DOMAIN history' = 1 .. 1
      BY <2>1 DEF Started, Event
    <3>2. ~Has("completed", history')
      BY <3>1 DEF Has
    <3> QED
      BY <1>1, <3>1, <3>2, RunOf
  <2>2. CASE history' = <<>>
    BY <1>1, <2>2, RunOf
  <2> QED
    BY <2>1, <2>2
<1>4. Len(Decisions(Durable')) \in Nat
  BY DurableType DEF IInv
<1>5. MadePast'
  BY <1>3, <1>4 DEF MadePast
<1>6. Running' => Len(results') = 0
  BY EmptySeq
<1>7. MadeGiven'
  BY <1>6 DEF MadeGiven, WR!Makes
<1> QED
  BY <1>5, <1>7 DEF MadeInv

(* The decision after those a body made is its own when it asked for it.   *)
LEMMA MakesMore ==
    ASSUME NEW v, NEW r, NEW k \in Nat, WR!Makes(v, r, k), WR!Asks(v, r, k) = r[k + 1].command
    PROVE  WR!Makes(v, r, k + 1)
<1> SUFFICES ASSUME NEW n \in 1 .. k + 1 PROVE WR!Asks(v, r, n - 1) = r[n].command
  BY DEF WR!Makes
<1>1. CASE n \in 1 .. k
  BY <1>1 DEF WR!Makes
<1>2. CASE n = k + 1
  BY <1>2
<1> QED
  BY <1>1, <1>2

(* An event that answers a command is the decision to issue that command.  *)
LEMMA DecisionIs ==
    ASSUME NEW e \in Events, NEW c \in Commands, e.name = c.name,
           e.type = "timer" <=> c.type = "timer"
    PROVE  Decision(Hashed(e)).command = c
<1>1. Hashed(e).type = e.type /\ Hashed(e).name = e.name
  BY DEF Hashed, Events
<1>2. c.type = IF e.type = "timer" THEN "timer" ELSE "activity"
  BY DEF Commands
<1>3. c = [type |-> c.type, name |-> c.name]
  BY DEF Commands
<1> QED
  BY <1>1, <1>2, <1>3 DEF Decision

(* A live answer is the decision the running body asked for.               *)
LEMMA MadeAnswered ==
    ASSUME IInv, MadeInv, [Next]_vars,
           NEW type \in CommandEvents, NEW o \in Outcomes, Answered(type, o)
    PROVE  MadeInv'
<1> DEFINE m == Len(results)
<1>1. /\ history \in Seq(Events) /\ WellEnded(history)
      /\ history' \in Seq(Events) /\ WellEnded(history')
      /\ Run = Decisions(history_hash(history)) /\ Hash = history_hash(history)
      /\ Run' = Decisions(history_hash(history')) /\ Hash' = history_hash(history')
      /\ m \in Nat /\ TypeInv /\ Told /\ DoneInv
  BY LiveRun DEF IInv
<1>2. /\ Len(history) = m + 1 /\ cursor = Len(history) /\ Len(history') = m + 2
      /\ history'[m + 2].type = type
      /\ \A i \in 1 .. m + 1 : history'[i] = history[i]
      /\ Len(results') = m + 1
  BY <1>1, AnsweredEffect
<1>3. Running /\ Asked \in Commands /\ version' = version
  BY DEF Answered
<1>4. \A i \in 1 .. m + 1 : history[i].type # "completed"
  BY <1>1, <1>2, <1>3 DEF DoneInv
<1>5. \A i \in 1 .. m + 2 : history'[i].type # "completed"
  BY <1>1, <1>2, <1>4 DEF CommandEvents
<1>6. ~Has("completed", history) /\ ~Has("completed", history')
  BY <1>1, <1>2, <1>4, <1>5, LenProperties DEF Has
<1>7. /\ Run \in Seq(Decided) /\ Len(Run) = m /\ ~Has("completed", Hash')
      /\ Run' \in Seq(Decided) /\ Len(Run') = m + 1
      /\ \A n \in 1 .. m : Run[n] = Decision(Hashed(history[n + 1]))
      /\ \A n \in 1 .. m + 1 : Run'[n] = Decision(Hashed(history'[n + 1]))
  <2>1. history # <<>> /\ history' # <<>>
    BY <1>1, <1>2, EmptySeq
  <2>2. Len(Run) = m /\ Len(Run') = m + 1
    BY <1>1, <1>2, <1>6, <2>1, RunOf
  <2> QED
    BY <1>1, <1>6, <2>2, RunOf
<1>8. \A n \in 1 .. m : Run'[n] = Run[n]
  <2>1. \A n \in 1 .. m : n + 1 \in 1 .. m + 1 /\ n \in 1 .. m + 1
    BY <1>1
  <2> QED
    BY <1>2, <1>7, <2>1
<1>9. WR!Makes(version, Run, m) /\ WR!Asks(version, Run, m) = Asked
  BY <1>1, <1>3, RunShape DEF MadeInv, MadeGiven
<1>10. WR!Makes(version, Run', m) /\ WR!Asks(version, Run', m) = Asked
  <2>1. /\ WR!Asks(version, Run, m) = WR!Asks(version, Run', m)
        /\ WR!Makes(version, Run, m) => WR!Makes(version, Run', m)
    <3>1. m <= Len(Run) /\ m <= Len(Run') /\ \A n \in 1 .. m : Run[n] = Run'[n]
      BY <1>1, <1>7, <1>8
    <3>2. m \in Nat /\ Run \in Seq(Decided) /\ Run' \in Seq(Decided)
      BY <1>1, <1>7
    <3> HIDE DEF m
    <3>3. WR!Asks(version, Run, m) = WR!Asks(version, Run', m)
      BY <3>1, <3>2, AgreeAsks, Zenon
    <3>4. WR!Makes(version, Run, m) => WR!Makes(version, Run', m)
      BY <3>1, <3>2, AgreeAsks, Zenon
    <3> QED
      BY <3>3, <3>4
  <2> QED
    BY <1>9, <2>1
<1>11. Run'[m + 1].command = Asked
  <2>1. history'[m + 2] = Event(type, Asked.name, o)
    <3>1. Asked.name \in Activities \cup Timers
      BY <1>1, <1>3, AskedType
    <3>2. Event(type, Asked.name, o) \in Events
      BY <3>1 DEF Event, Events, Names, CommandEvents
    <3> QED
      BY <1>1, <1>2, <3>2 DEF Answered, Record
  <2>2. history'[m + 2].name = Asked.name /\ (history'[m + 2].type = "timer" <=> Asked.type = "timer")
    BY <1>2, <2>1 DEF Event, Answered
  <2>3. history'[m + 2] \in Events
    BY <1>1, <1>2, ElementOfSeq
  <2>4. Run'[m + 1] = Decision(Hashed(history'[m + 2]))
    BY <1>1, <1>7
  <2> QED
    BY <1>3, <2>2, <2>3, <2>4, DecisionIs
<1>12. WR!Makes(version, Run', m + 1)
  BY <1>1, <1>10, <1>11, MakesMore
<1>13. MadeGiven'
  BY <1>2, <1>3, <1>12, Zenon DEF MadeGiven, WR!Makes, WR!Asks
<1>14. MadePast'
  BY <1>3, <1>7, <1>12, Zenon DEF MadePast, WR!Makes, WR!Asks
<1> QED
  BY <1>13, <1>14 DEF MadeInv

(* The recorded answer to what the body asked for is one of its decisions. *)
LEMMA MadeReplayed ==
    ASSUME IInv, MadeInv, [Next]_vars, Replay
    PROVE  MadeInv'
<1> DEFINE m == Len(results)
<1>1. /\ history \in Seq(Events) /\ WellEnded(history) /\ Len(history) \in Nat
      /\ Run = Decisions(history_hash(history)) /\ Hash = history_hash(history)
      /\ m \in Nat /\ TypeInv /\ Told /\ DoneInv /\ cursor \in 0 .. Len(history)
  BY LiveRun, LenProperties DEF IInv, TypeInv, TypeOK
<1>2. /\ Running /\ Asked \in Commands /\ UNCHANGED <<history, version, blob>>
      /\ cursor = m + 1 /\ m + 2 \in 1 .. Len(history) /\ history # <<>>
  BY <1>1 DEF Replay, Running, Live, TypeInv, Shape
<1>3. Durable' = Durable /\ Run' = Run
  BY <1>2 DEF Durable, Run, Hash
<1>4. CASE Matches(history[m + 2], Asked) /\ Len(results') = m + 1
  <2>1. /\ history[m + 2].type = Asked.type /\ history[m + 2].name = Asked.name
        /\ history[m + 2] \in Events
    BY <1>1, <1>2, <1>4, ElementOfSeq DEF Matches
  <2>2. history[m + 2].type # "completed"
    BY <1>1, <1>2, <2>1, AskedType
  <2>3. Has("completed", history) => m + 2 < Len(history)
    <3> SUFFICES ASSUME NEW i \in 1 .. Len(history), history[i].type = "completed"
                 PROVE  m + 2 < Len(history)
      BY <1>1, LenProperties DEF Has
    <3>1. i = Len(history)
      BY <1>1 DEF WellEnded, LastOnly
    <3> QED
      BY <1>1, <1>2, <2>2, <3>1
  <2>4. m + 1 \in 1 .. Len(Run) /\ Run[m + 1] = Decision(Hashed(history[m + 2]))
    <3>1. /\ Len(Run) \in Nat
          /\ \A n \in 1 .. Len(Run) : Run[n] = Decision(Hashed(history[n + 1]))
      BY <1>1, RunOf
    <3>2. CASE Has("completed", history)
      <4>1. Len(Run) = Len(history) - 2 /\ m + 2 < Len(history)
        BY <1>1, <1>2, <2>3, <3>2, RunOf
      <4> QED
        BY <1>1, <3>1, <4>1
    <3>3. CASE ~Has("completed", history)
      <4>1. Len(Run) = Len(history) - 1
        BY <1>1, <1>2, <3>3, RunOf
      <4> QED
        BY <1>1, <1>2, <3>1, <4>1
    <3> QED
      BY <3>2, <3>3
  <2>5. Run[m + 1].command = Asked
    BY <1>2, <2>1, <2>4, DecisionIs
  <2>6. WR!Makes(version, Run, m) /\ WR!Asks(version, Run, m) = Asked
    BY <1>1, <1>2, RunShape DEF MadeInv, MadeGiven
  <2>7. WR!Makes(version, Run, m + 1)
    BY <1>1, <2>5, <2>6, MakesMore
  <2>8. MadeGiven'
    BY <1>2, <1>3, <1>4, <2>7, Zenon DEF MadeGiven, WR!Makes, WR!Asks
  <2> QED
    BY <1>2, <1>3, <2>8, PastStill DEF MadeInv
<1>5. CASE Matches(history[m + 2], Asked) /\ Give(history[m + 2].payload)
  <2>1. history[m + 2] \in Events /\ history[m + 2].type \in CommandEvents
    BY <1>1, <1>2, <1>5, ElementOfSeq, AskedType DEF Matches, CommandEvents
  <2>2. history[m + 2].payload \in Outcomes
    BY <2>1 DEF Events
  <2>3. Len(results') = m + 1
    BY <1>1, <1>2, <1>5, <2>2, GiveType
  <2> QED
    BY <1>4, <1>5, <2>3
<1>6. CASE End("diverged") /\ UNCHANGED results
  BY <1>2, <1>3, <1>6, MadeStill DEF End, Running
<1>7. cursor + 1 = m + 2
  BY <1>1, <1>2
<1> QED
  BY <1>5, <1>6, <1>7 DEF Replay

(* The body returns after the decisions it was given.                      *)
LEMMA MadeReturned ==
    ASSUME IInv, MadeInv, [Next]_vars, BodyReturns
    PROVE  MadeInv'
<1>1. /\ history \in Seq(Events) /\ WellEnded(history) /\ Len(history) \in Nat
      /\ history' \in Seq(Events) /\ WellEnded(history')
      /\ Run = Decisions(history_hash(history)) /\ Hash = history_hash(history)
      /\ Run' = Decisions(history_hash(history')) /\ Hash' = history_hash(history')
      /\ TypeInv /\ Told /\ DoneInv
  BY LiveRun, LenProperties DEF IInv, TypeInv, TypeOK
<1>2. /\ Running /\ Asked = Return /\ ~Running' /\ UNCHANGED <<version, blob>>
      /\ history' = WithCompleted(history) /\ history # <<>>
  BY <1>1 DEF BodyReturns, End, Running, TypeInv, Shape
<1>3. Durable' = Durable
  BY <1>2 DEF Durable
<1>4. CASE Has("completed", history)
  <2>1. UNCHANGED history
    BY <1>2, <1>4 DEF WithCompleted
  <2> QED
    BY <1>2, <1>3, <2>1, MadeStill
<1>5. CASE ~Has("completed", history)
  <2>1. Completed \in Events /\ Completed.type = "completed"
    BY DEF Completed, Event, Events, Names, CommandEvents
  <2>2. history' = Append(history, Completed)
    BY <1>2, <1>5 DEF WithCompleted
  <2>3. /\ Len(history') = Len(history) + 1 /\ history'[Len(history) + 1] = Completed
        /\ \A i \in 1 .. Len(history) : history'[i] = history[i]
    BY <1>1, <2>1, <2>2
  <2>4. Has("completed", history') /\ history' # <<>>
    BY <1>1, <2>1, <2>3, LenProperties, EmptySeq DEF Has
  <2>5. /\ Run \in Seq(Decided) /\ Len(Run) = Len(history) - 1 /\ Len(Run) \in Nat
        /\ \A n \in 1 .. Len(Run) : /\ n + 1 \in 1 .. Len(history)
                                    /\ Run[n] = Decision(Hashed(history[n + 1]))
    BY <1>1, <1>2, <1>5, RunOf
  <2>6. /\ Run' \in Seq(Decided) /\ Len(Run') = Len(history') - 2
        /\ \A n \in 1 .. Len(Run') : Run'[n] = Decision(Hashed(history'[n + 1]))
    BY <1>1, <2>4, RunOf
  <2>7. Len(Run') = Len(Run)
    BY <1>1, <2>3, <2>5, <2>6
  <2>8. \A n \in 1 .. Len(Run) : Run'[n] = Run[n]
    BY <2>3, <2>5, <2>6, <2>7
  <2>9. Run' = Run
    BY <2>5, <2>6, <2>7, <2>8, SeqEqual
  <2>10. /\ Len(results) \in 0 .. Len(Run)
         /\ WR!Makes(version, Run, Len(results)) /\ WR!Asks(version, Run, Len(results)) = Return
    BY <1>1, <1>2, <2>5, RunShape DEF MadeInv, MadeGiven
  <2>11. MadePast'
    BY <1>2, <1>3, <2>9, <2>10, Zenon DEF MadeInv, MadePast, WR!Makes, WR!Asks
  <2> QED
    BY <1>2, <2>11 DEF MadeInv, MadeGiven
<1> QED
  BY <1>4, <1>5

LEMMA MadeStep == IInv /\ MadeInv /\ [Next]_vars => MadeInv'
<1> SUFFICES ASSUME IInv, MadeInv, [Next]_vars PROVE MadeInv'
  OBVIOUS
<1>1. TypeInv
  BY DEF IInv
<1>2. Durable' = Durable \/ Durable' = Hash
  BY <1>1, DurableKept
<1>3. ASSUME ~Alive PROVE history = <<>> /\ results = <<>>
  BY <1>1, <1>3 DEF TypeInv, Shape
<1>4. CASE Crash
  <2>1. history' = <<>> /\ ~Running' /\ Durable' = Durable
    BY <1>4 DEF Crash, Running, Durable
  <2> QED
    BY <2>1, MadeFresh
<1>5. CASE Resume
  <2>1. ~Running' /\ Durable' = Durable /\ UNCHANGED version
    BY <1>5 DEF Resume, Running, Durable
  <2>2. CASE UNCHANGED history
    BY <2>1, <2>2, MadeStill
  <2>3. CASE blob # None /\ Intact(blob) /\ history' = Reload(blob.events)
    <3>1. Hash' = Durable
      BY <2>3 DEF Intact, Durable, Hash
    <3>2. Run' = Decisions(Durable)' /\ Len(Decisions(Durable')) \in Nat
      BY <1>1, <2>1, <3>1, DurableType DEF Run, Decisions, Has, Decision
    <3>3. MadePast'
      BY <2>1, <3>1, <3>2 DEF MadePast
    <3> QED
      BY <2>1, <3>3 DEF MadeInv, MadeGiven
  <2> QED
    BY <1>5, <2>2, <2>3 DEF Resume
<1>6. CASE Execute
  <2>1. results' = <<>> /\ UNCHANGED version /\ Durable' = Durable
    BY <1>6 DEF Execute, Durable
  <2>2. CASE history = <<>>
    BY <1>6, <2>1, <2>2, MadeFresh DEF Execute
  <2>3. CASE history # <<>>
    <3>1. MadePast'
      BY <1>6, <2>1, <2>3, PastStill DEF Execute, MadeInv
    <3>2. Len(results') = 0
      BY <2>1, EmptySeq
    <3>3. MadeGiven'
      BY <3>2 DEF MadeGiven, WR!Makes
    <3> QED
      BY <3>1, <3>3 DEF MadeInv
  <2> QED
    BY <2>2, <2>3
<1>7. CASE StartActivity \/ NextAttempt \/ Checkpoint \/ Damage
  <2>1. UNCHANGED <<history, version, results>> /\ (Running' => Running)
    BY <1>1, <1>7, InActivity DEF StartActivity, NextAttempt, Again, CallFn, Checkpoint, Damage, process, Running
  <2> QED
    BY <1>2, <2>1, MadeStill
<1>8. CASE Quiet
  <2>1. UNCHANGED <<history, results>> /\ (Running' => Running) /\ Durable' = Durable
    BY <1>8 DEF Quiet, Running, Durable
  <2>2. CASE UNCHANGED version
    BY <2>1, <2>2, MadeStill
  <2>3. CASE Deploy
    <3>1. history' = <<>> /\ ~Running'
      BY <1>3, <2>1, <2>3 DEF Deploy, process, Running, Alive
    <3> QED
      BY <2>1, <3>1, MadeFresh
  <2> QED
    BY <2>2, <2>3, VersionKept
<1> QED
  BY <1>1, <1>4, <1>5, <1>6, <1>7, <1>8, MadeAnswered, MadeReplayed, MadeReturned, StepKinds

(* Nothing is durable before the first checkpoint.                         *)
LEMMA RunInit == Init => WR!Init /\ MadeInv
<1> SUFFICES ASSUME Init PROVE WR!Init /\ MadeInv
  OBVIOUS
<1>1. /\ Durable = <<>> /\ history = <<>> /\ <<>> \in Seq(Events) /\ WellEnded(<<>>)
      /\ version \in Versions /\ ~Running /\ Len(<<>>) = 0
  BY EmptySeq DEF Init, Durable, WellEnded, StartsRight, LastOnly, Running
<1>2. Decisions(<<>>) = <<>> /\ Len(Decisions(<<>>)) = 0
  BY <1>1, DecisionsShape
<1>3. ~Has("completed", <<>>)
  BY DEF Has
<1>4. WR!Init
  BY <1>1, <1>2, <1>3 DEF WR!Init
<1>5. Len(Run) = 0 /\ ~Has("completed", Hash)
  BY <1>1, RunOf DEF Run, Hash
<1>6. MadeInv
  BY <1>1, <1>2, <1>5 DEF MadeInv, MadeGiven, MadePast
<1> QED
  BY <1>4, <1>6

(* A checkpoint commits more of the run.                                   *)
LEMMA CheckpointCommits ==
    ASSUME IInv, MadeInv, [Next]_vars, Checkpoint, Durable' = Hash, Durable' # Durable,
           UNCHANGED <<history, version>>
    PROVE  WR!Commit
<1>1. /\ TypeInv /\ Alive /\ Hash \in Seq(Events) /\ WellEnded(Hash)
      /\ DOMAIN Hash = 1 .. Len(Hash) /\ Len(Hash) \in Nat /\ Run = Decisions(Hash)
      /\ Run \in Seq(Decided) /\ Len(Run) \in Nat
  BY RunShape, LenProperties DEF IInv, Checkpoint, Alive, Run
<1>2. /\ Durable \in Seq(Events) /\ Len(Durable) \in Nat /\ DOMAIN Durable = 1 .. Len(Durable)
      /\ Decisions(Durable) \in Seq(Decided) /\ Len(Decisions(Durable)) \in Nat
  BY <1>1, DurableType, LenProperties
<1>3. Len(Durable) <= Len(Hash) /\ \A i \in 1 .. Len(Durable) : Durable[i] = Hash[i]
  <2>1. CASE blob = None
    BY <1>1, <2>1, EmptySeq DEF Durable
  <2>2. CASE blob # None
    BY <1>1, <2>2, RunShape DEF IInv, SealInv, Durable, Hash
  <2> QED
    BY <2>1, <2>2
<1>4. Len(Durable) < Len(Hash)
  <2>1. Len(Durable) # Len(Hash)
    BY <1>1, <1>2, <1>3, SeqEqual
  <2>2. ASSUME NEW a \in Nat, NEW b \in Nat, a <= b, a # b PROVE a < b
    BY <2>2
  <2>3. Len(Durable) \in Nat /\ Len(Hash) \in Nat /\ Len(Durable) <= Len(Hash)
    BY <1>1, <1>2, <1>3
  <2> QED
    BY <2>1, <2>2, <2>3, Zenon
<1>5. ~Has("completed", Durable)
  <2> SUFFICES ASSUME NEW i \in 1 .. Len(Durable), Durable[i].type = "completed" PROVE FALSE
    BY <1>2 DEF Has
  <2>1. i \in 1 .. Len(Hash) /\ Hash[i].type = "completed"
    BY <1>1, <1>2, <1>3
  <2>2. i = Len(Hash)
    BY <1>1, <2>1 DEF WellEnded, LastOnly
  <2> QED
    BY <1>1, <1>2, <1>4, <2>2
<1>6. WellEnded(Durable)
  <2>1. Durable # <<>> => 1 \in 1 .. Len(Durable) /\ Hash # <<>>
    BY <1>1, <1>2, <1>3, EmptySeq
  <2>2. StartsRight(Durable)
    BY <1>1, <1>3, <2>1 DEF WellEnded, StartsRight
  <2>3. LastOnly(Durable)
    BY <1>2, <1>5 DEF LastOnly, Has
  <2> QED
    BY <2>2, <2>3 DEF WellEnded
<1> DEFINE old == Decisions(Durable)
<1>7. Len(old) <= Len(Run) /\ \A n \in 1 .. Len(old) : old[n] = Run[n]
  <2>1. /\ Hash # <<>>
        /\ \A n \in 1 .. Len(Run) : Run[n] = Decision(Hash[n + 1])
        /\ \A n \in 1 .. Len(old) : n + 1 \in 1 .. Len(Durable) /\ old[n] = Decision(Durable[n + 1])
    <3>1. Hash # <<>>
      BY <1>1, <1>2, <1>4, EmptySeq
    <3>2. \A n \in 1 .. Len(Run) : Run[n] = Decision(Hash[n + 1])
      BY <1>1, DecisionsShape
    <3>3. \A n \in 1 .. Len(old) : n + 1 \in 1 .. Len(Durable) /\ old[n] = Decision(Durable[n + 1])
      BY <1>2, <1>6, DecisionsShape
    <3> QED
      BY <3>1, <3>2, <3>3
  <2>2. Len(old) <= Len(Run)
    <3>1. CASE Durable = <<>>
      <4>1. Len(old) = 0
        BY <1>2, <1>6, <3>1, DecisionsShape
      <4> QED
        BY <1>1, <4>1
    <3>2. CASE Durable # <<>>
      <4>1. Len(old) = Len(Durable) - 1
        BY <1>2, <1>5, <1>6, <3>2, DecisionsShape
      <4>2. Len(Run) >= Len(Hash) - 2
        <5>1. CASE Has("completed", Hash)
          BY <1>1, <2>1, <5>1, DecisionsShape
        <5>2. CASE ~Has("completed", Hash)
          BY <1>1, <2>1, <5>2, DecisionsShape
        <5> QED
          BY <5>1, <5>2
      <4> QED
        BY <1>1, <1>2, <1>4, <4>1, <4>2
    <3> QED
      BY <3>1, <3>2
  <2>3. \A n \in 1 .. Len(old) : n \in 1 .. Len(Run)
    BY <1>1, <1>2, <2>2
  <2> QED
    BY <1>3, <2>1, <2>2, <2>3
<1>8. old' = Run
  BY <1>1 DEF Decisions, Has, Decision
<1> HIDE DEF old
<1>9. IsPrefix(old, Run)
  <2>1. /\ SubSeq(old, 1, Len(old)) \in Seq(Decided) /\ Len(SubSeq(old, 1, Len(old))) = Len(old)
        /\ SubSeq(Run, 1, Len(old)) \in Seq(Decided) /\ Len(SubSeq(Run, 1, Len(old))) = Len(old)
        /\ \A n \in 1 .. Len(old) : /\ SubSeq(old, 1, Len(old))[n] = old[n]
                                    /\ SubSeq(Run, 1, Len(old))[n] = Run[n]
    BY <1>1, <1>2, <1>7, SubSeqProperties DEF old
  <2>2. SubSeq(old, 1, Len(old)) = SubSeq(Run, 1, Len(old))
    BY <1>7, <2>1, SeqEqual
  <2> QED
    BY <1>7, <2>2, Zenon DEF IsPrefix
<1>10. Run # old => WR!Makes(version, Run, Len(Run))
  <2>1. Run # old => Len(Run) # Len(old)
    BY <1>1, <1>2, <1>7, SeqEqual DEF old
  <2>2. Run # old => Len(Run) > Len(old)
    BY <1>1, <1>2, <1>7, <2>1 DEF old
  <2> QED
    BY <2>2 DEF MadeInv, MadePast, old
<1>11. Has("completed", Hash) =>
          \E k \in 0 .. Len(Run) :
             WR!Makes(version, Run, k) /\ WR!Asks(version, Run, k) = Return
  BY <1>5 DEF MadeInv, MadePast
<1>12. Has("completed", Durable)' <=> Has("completed", Hash)
  BY DEF Has
<1>13. Has("completed", Durable)' \in BOOLEAN
  BY DEF Has
<1> DEFINE now == Decisions(Durable)'
<1>14. now = Run /\ (now # Decisions(Durable) => WR!Makes(version, now, Len(now)))
  BY <1>8, <1>10 DEF old
<1>15. WR!IsPrefix(Decisions(Durable), now)
  BY <1>8, <1>9, Zenon DEF old, IsPrefix, WR!IsPrefix
<1>16. Has("completed", Durable)' =>
          \E k \in 0 .. Len(now) :
             WR!Makes(version, now, k) /\ WR!Asks(version, now, k) = Return
  BY <1>11, <1>12, <1>14, Zenon
<1> QED
  BY <1>5, <1>13, <1>14, <1>15, <1>16, Zenon DEF WR!Commit

LEMMA RunStep == IInv /\ MadeInv /\ [Next]_vars => [WR!Commit \/ WR!Upgrade]_(WR!runVars)
<1> SUFFICES ASSUME IInv, MadeInv, [Next]_vars
             PROVE  [WR!Commit \/ WR!Upgrade]_(WR!runVars)
  OBVIOUS
<1>1. TypeInv
  BY DEF IInv
<1>2. CASE Durable' = Durable
  <2>1. /\ Decisions(Durable)' = Decisions(Durable)
        /\ Has("completed", Durable)' = Has("completed", Durable)
    BY <1>2 DEF Decisions, Has, Decision
  <2>2. CASE UNCHANGED version
    BY <2>1, <2>2 DEF WR!runVars
  <2>3. CASE Deploy
    BY <2>1, <2>3 DEF Deploy, WR!Upgrade
  <2> QED
    BY <2>2, <2>3, VersionKept
<1>3. CASE Durable' # Durable
  BY <1>1, <1>3, DurableKept, CheckpointCommits
<1> QED
  BY <1>2, <1>3

(* What is durable is one growing run of the deployed bodies that ends     *)
(* when the body returns, whatever crashes, is damaged, checkpointed or    *)
(* deployed on the way (execute, checkpoint, resume).                      *)
THEOREM RefinesRun == Spec => ImplementsRun
<1>1. Init => IInv /\ MadeInv /\ WR!Init
  BY Initially, RunInit
<1>2. IInv /\ MadeInv /\ [Next]_vars => IInv' /\ MadeInv'
  BY Inductive, MadeStep
<1>3. IInv /\ MadeInv /\ [Next]_vars => [WR!Commit \/ WR!Upgrade]_(WR!runVars)
  BY RunStep
<1> QED
  BY <1>1, <1>2, <1>3, PTL DEF Spec, ImplementsRun, WR!Spec
================================================================================
