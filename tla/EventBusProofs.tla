----------------------------- MODULE EventBusProofs -----------------------------
(***************************************************************************)
(* Proofs about EventBus, for any number of threads, handlers, events and  *)
(* steps, and a snapshot and a crash anywhere.                             *)
(***************************************************************************)
EXTENDS EventBus, SequenceTheorems, TLAPS

Delivering(t) == pc[t] \in {"dispatch", "handler", "mark"}

(* A thread that is not delivering an event has no handlers to call.       *)
TypeInv == TypeOK /\ \A t \in Threads : ~Delivering(t) => todo[t] = <<>>

(* A restored snapshot never knows a step the live ledger does not.        *)
StepInv == OneOutcome /\ DOMAIN saved.steps \subseteq DOMAIN steps
--------------------------------------------------------------------------------
LEMMA InSeq == ASSUME NEW S, NEW s \in Seq(S), NEW i \in DOMAIN s PROVE s[i] \in S
OBVIOUS

(* What Tail leaves is what Head does not take.                            *)
LEMMA HeadAndTail ==
    ASSUME NEW S, NEW s \in Seq(S), s # <<>>
    PROVE  /\ Head(s) \in S /\ Tail(s) \in Seq(S)
           /\ 1 \in DOMAIN s /\ s[1] = Head(s)
           /\ \A i \in DOMAIN Tail(s) : i + 1 \in DOMAIN s /\ Tail(s)[i] = s[i + 1]
           /\ \A i \in DOMAIN s : i = 1 \/ (i - 1 \in DOMAIN Tail(s) /\ Tail(s)[i - 1] = s[i])
           /\ Elems(s) = {Head(s)} \cup Elems(Tail(s))
<1>1. Head(s) \in S /\ Tail(s) \in Seq(S) /\ 1 \in DOMAIN s /\ s[1] = Head(s)
  OBVIOUS
<1>2. \A i \in DOMAIN Tail(s) : i + 1 \in DOMAIN s /\ Tail(s)[i] = s[i + 1]
  OBVIOUS
<1>3. \A i \in DOMAIN s : i = 1 \/ (i - 1 \in DOMAIN Tail(s) /\ Tail(s)[i - 1] = s[i])
  OBVIOUS
<1>4. Elems(s) = {Head(s)} \cup Elems(Tail(s))
  <2>1. ASSUME NEW x \in Elems(s) PROVE x \in {Head(s)} \cup Elems(Tail(s))
    BY <1>1, <1>3 DEF Elems
  <2>2. ASSUME NEW x \in {Head(s)} \cup Elems(Tail(s)) PROVE x \in Elems(s)
    BY <1>1, <1>2 DEF Elems
  <2> QED
    BY <2>1, <2>2
<1> QED
  BY <1>1, <1>2, <1>3, <1>4

LEMMA Appended ==
    ASSUME NEW S, NEW s \in Seq(S), NEW e \in S
    PROVE  /\ Append(s, e) \in Seq(S)
           /\ Len(Append(s, e)) = Len(s) + 1 /\ Append(s, e)[Len(s) + 1] = e
           /\ Len(s) + 1 \in DOMAIN Append(s, e)
           /\ \A i \in DOMAIN s : i \in DOMAIN Append(s, e) /\ Append(s, e)[i] = s[i]
           /\ \A i \in DOMAIN Append(s, e) : i \in DOMAIN s \/ Append(s, e)[i] = e
           /\ Elems(Append(s, e)) = Elems(s) \cup {e}
<1>1. /\ Append(s, e) \in Seq(S)
      /\ Len(Append(s, e)) = Len(s) + 1 /\ Append(s, e)[Len(s) + 1] = e
      /\ Len(s) + 1 \in DOMAIN Append(s, e)
  OBVIOUS
<1>2. \A i \in DOMAIN s : i \in DOMAIN Append(s, e) /\ Append(s, e)[i] = s[i]
  OBVIOUS
<1>3. \A i \in DOMAIN Append(s, e) : i \in DOMAIN s \/ Append(s, e)[i] = e
  OBVIOUS
<1>4. Elems(Append(s, e)) = Elems(s) \cup {e}
  <2>1. ASSUME NEW x \in Elems(Append(s, e)) PROVE x \in Elems(s) \cup {e}
    BY <1>2, <1>3 DEF Elems
  <2>2. ASSUME NEW x \in Elems(s) \cup {e} PROVE x \in Elems(Append(s, e))
    BY <1>1, <1>2 DEF Elems
  <2> QED
    BY <2>1, <2>2
<1> QED
  BY <1>1, <1>2, <1>3, <1>4

LEMMA Removed ==
    ASSUME NEW S, NEW s \in Seq(S), NEW i \in DOMAIN s
    PROVE  RemoveAt(s, i) \in Seq(S)
<1>1. SubSeq(s, 1, i - 1) \in Seq(S) /\ SubSeq(s, i + 1, Len(s)) \in Seq(S)
  OBVIOUS
<1> QED
  BY <1>1 DEF RemoveAt

LEMMA LedgerIs == \A f : f \in Ledger <=> DOMAIN f \subseteq StepIds /\ f \in [DOMAIN f -> Outcomes]
BY DEF Ledger

LEMMA TypeInit == Init => TypeInv
<1> SUFFICES ASSUME Init PROVE TypeInv
  OBVIOUS
<1>1. NoSteps \in Ledger
  BY LedgerIs DEF NoSteps
<1> QED
  BY <1>1, BusConstants DEF Init, TypeInv, TypeOK, Delivering

LEMMA TypeStep == TypeInv /\ [Next]_vars => TypeInv'
<1> SUFFICES ASSUME TypeInv, [Next]_vars PROVE TypeInv'
  OBVIOUS
<1> USE DEF TypeInv, TypeOK, Delivering
<1>1. ASSUME NEW t \in Threads, NEW e \in Events, emit(t, e)
      PROVE  TypeInv'
  <2>1. log' \in Seq(Events) /\ queue' \in Seq(1..Len(log'))
    <3>1. CASE e \notin Elems(log) /\ log' = Append(log, e) /\ queue' = Append(queue, Len(log'))
      <4>1. log' \in Seq(Events) /\ Len(log') = Len(log) + 1 /\ Len(log) \in Nat
        BY <3>1, Appended
      <4>2. queue \in Seq(1..Len(log')) /\ Len(log') \in 1..Len(log')
        BY <4>1
      <4> QED
        BY <3>1, <4>1, <4>2, Appended
    <3>2. ASSUME NEW i \in DOMAIN log, queue' = Append(queue, i), UNCHANGED log
          PROVE  queue' \in Seq(1..Len(log'))
      BY <3>2
    <3> QED
      BY <1>1, <3>1, <3>2 DEF emit, Logged
  <2> QED
    BY <1>1, <2>1 DEF emit, threadVars, stepHist, Pairs
<1>2. ASSUME NEW t \in Threads, NEW h \in Handlers, on(t, h) \/ unsubscribe(t, h)
      PROVE  TypeInv'
  <2>1. handlers' \in Seq(Handlers)
    <3>1. CASE on(t, h)
      BY <3>1, Appended DEF on
    <3>2. CASE unsubscribe(t, h)
      <4>1. PICK i \in DOMAIN handlers : handlers' = RemoveAt(handlers, i)
        BY <3>2 DEF unsubscribe
      <4> QED
        BY <4>1, Removed
    <3> QED
      BY <1>2, <3>1, <3>2
  <2> QED
    BY <1>2, <2>1 DEF on, unsubscribe, threadVars, stepHist, eventHist
<1>3. ASSUME NEW t \in Threads, NEW s \in StepIds, run_step_replay(t, s)
      PROVE  TypeInv'
  <2>1. steps[s] \in Outcomes
    BY <1>3, LedgerIs DEF run_step_replay
  <2> QED
    BY <1>3, <2>1 DEF run_step_replay, Observe, busVars, threadVars, eventHist
<1>4. ASSUME NEW t \in Threads, NEW s \in StepIds, run_step_call(t, s)
      PROVE  TypeInv'
  BY <1>4 DEF run_step_call, Goto, Take, busVars, eventHist
<1>5. ASSUME NEW t \in Threads, NEW o \in Outcomes, run_step_record(t, o)
      PROVE  TypeInv'
  <2>1. inHand[t] \in StepIds
    BY <1>5 DEF run_step_record
  <2>2. steps' \in Ledger /\ steps'[inHand[t]] \in Outcomes
    <3>1. steps' = Recorded(inHand[t], o)
      BY <1>5 DEF run_step_record
    <3>2. DOMAIN steps \subseteq StepIds /\ steps \in [DOMAIN steps -> Outcomes]
      BY LedgerIs
    <3>3. DOMAIN steps' = DOMAIN steps \cup {inHand[t]}
      BY <3>1 DEF Recorded
    <3>4. \A s \in DOMAIN steps' : steps'[s] = IF s \in DOMAIN steps THEN steps[s] ELSE o
      BY <3>1 DEF Recorded
    <3>5. steps' \in [DOMAIN steps' -> Outcomes]
      BY <3>1, <3>2, <3>3, <3>4 DEF Recorded
    <3> QED
      BY <2>1, <3>2, <3>3, <3>5, LedgerIs
  <2> QED
    BY <1>5, <2>1, <2>2 DEF run_step_record, Observe, Goto, Take, eventHist
<1>6. ASSUME NEW t \in Threads, run_step_reject(t)
      PROVE  TypeInv'
  BY <1>6 DEF run_step_reject, Goto, Take, busVars, stepHist, eventHist
<1>7. ASSUME NEW t \in Threads, deliver(t)
      PROVE  TypeInv'
  BY <1>7 DEF deliver, Goto, busVars, stepHist, eventHist
<1>8. ASSUME NEW t \in Threads, Pop(t)
      PROVE  TypeInv'
  <2>1. CASE queue = <<>> /\ Goto(t, "idle") /\ UNCHANGED <<queue, inHand, todo, overlapped, excused>>
    BY <1>8, <2>1 DEF Pop, Goto, stepHist
  <2>2. CASE queue # <<>>
    <3>1. Head(queue) \in 1..Len(log) /\ Tail(queue) \in Seq(1..Len(log))
      BY <2>2, HeadAndTail
    <3>2. log[Head(queue)] \in Events
      BY <3>1
    <3> QED
      BY <1>8, <2>2, <3>1, <3>2 DEF Pop, Goto, Take, stepHist, Pairs
  <2> QED
    BY <1>8, <2>1, <2>2 DEF Pop
<1>9. ASSUME NEW t \in Threads, Dispatch(t)
      PROVE  TypeInv'
  <2>1. todo[t] # <<>> => Tail(todo[t]) \in Seq(Handlers)
    BY HeadAndTail
  <2> QED
    BY <1>9, <2>1 DEF Dispatch, Goto, Take, busVars, stepHist, eventHist
<1>10. ASSUME NEW t \in Threads, HandlerReturns(t)
       PROVE  TypeInv'
  <2>1. Head(todo[t]) \in Handlers
    BY <1>10, HeadAndTail DEF HandlerReturns
  <2> QED
    BY <1>10, <2>1 DEF HandlerReturns, Goto, busVars, stepHist, Pairs
<1>11. ASSUME NEW t \in Threads, Mark(t)
       PROVE  TypeInv'
  <2>1. Head(todo[t]) \in Handlers /\ Tail(todo[t]) \in Seq(Handlers)
    BY <1>11, HeadAndTail DEF Mark
  <2> QED
    BY <1>11, <2>1, BusConstants DEF Mark, Goto, stepHist, eventHist
<1>12. ASSUME NEW t \in Threads, HandlerRaises(t)
       PROVE  TypeInv'
  <2>1. Elems(todo[t]) \subseteq Handlers
    BY InSeq DEF Elems
  <2> QED
    BY <1>12, <2>1 DEF HandlerRaises, Goto, Take, busVars, stepHist, Pairs
<1>13. CASE snapshot
  <2>1. \A t \in Threads : {inHand[t]} \X Elems(todo[t]) \subseteq Pairs
    <3> SUFFICES ASSUME NEW t \in Threads, NEW h \in Elems(todo[t])
                 PROVE  inHand[t] \in Events /\ h \in Handlers
      BY DEF Pairs
    <3>1. h \in Handlers /\ todo[t] # <<>>
      BY InSeq DEF Elems
    <3> QED
      BY <3>1
  <2>2. UNION {{inHand[t]} \X Elems(todo[t]) : t \in Threads} \subseteq Pairs
    BY <2>1
  <2> QED
    BY <1>13, <2>2 DEF snapshot, Snapshot, busVars, threadVars, stepHist
<1>14. CASE crash_restore
  BY <1>14 DEF crash_restore, RestoredSteps
<1>15. CASE UNCHANGED vars
  BY <1>15 DEF vars, busVars, threadVars, stepHist, eventHist
<1> QED
  BY <1>1, <1>2, <1>3, <1>4, <1>5, <1>6, <1>7, <1>8, <1>9, <1>10, <1>11, <1>12, <1>13, <1>14, <1>15
     DEF Next, ThreadStep, Delivery, CallEnds

LEMMA TypeHolds == Spec => []TypeInv
BY TypeInit, TypeStep, PTL DEF Spec

(* Every variable in its range, for any threads, events and handlers: a    *)
(* queue index always points into the log, also after a restore.           *)
THEOREM TypeCorrect == Spec => []TypeOK
<1>1. TypeInv => TypeOK
  BY DEF TypeInv
<1> QED
  BY <1>1, TypeHolds, PTL
--------------------------------------------------------------------------------
(* What a step may do to the step ledger and to those who read it.         *)
Untouched == UNCHANGED <<steps, saved, observed, calls>>
Returned(s) == observed' = [observed EXCEPT ![s] = @ \cup {steps'[s]}]

LEMMA StepCases ==
    ASSUME TypeInv, [Next]_vars
    PROVE  \/ Untouched
           \/ /\ \E s \in DOMAIN steps : Returned(s)
              /\ UNCHANGED <<steps, saved, calls>>
           \/ /\ \E s \in StepIds \ DOMAIN steps : calls' = [calls EXCEPT ![s] = @ + 1]
              /\ UNCHANGED <<steps, saved, observed>>
           \/ /\ \E s \in StepIds, o \in Outcomes : steps' = Recorded(s, o) /\ Returned(s)
              /\ UNCHANGED <<saved, calls>>
           \/ snapshot
           \/ crash_restore
<1>1. ASSUME NEW t \in Threads, NEW o \in Outcomes, run_step_record(t, o)
      PROVE  /\ \E s \in StepIds, p \in Outcomes : steps' = Recorded(s, p) /\ Returned(s)
             /\ UNCHANGED <<saved, calls>>
  <2>1. inHand[t] \in StepIds
    BY <1>1 DEF run_step_record, TypeInv, TypeOK
  <2>2. /\ steps' = Recorded(inHand[t], o) /\ Returned(inHand[t])
        /\ UNCHANGED <<saved, calls>>
    BY <1>1 DEF run_step_record, Observe, Returned
  <2> QED
    BY <2>1, <2>2
<1>2. ASSUME NEW t \in Threads, NEW s \in StepIds, run_step_replay(t, s)
      PROVE  (\E r \in DOMAIN steps : Returned(r)) /\ UNCHANGED <<steps, saved, calls>>
  BY <1>2 DEF run_step_replay, Observe, Returned, busVars
<1>3. ASSUME NEW t \in Threads, NEW s \in StepIds, run_step_call(t, s)
      PROVE  /\ \E r \in StepIds \ DOMAIN steps : calls' = [calls EXCEPT ![r] = @ + 1]
             /\ UNCHANGED <<steps, saved, observed>>
  BY <1>3 DEF run_step_call, busVars
<1>4. ASSUME NEW t \in Threads, NEW e \in Events, emit(t, e) PROVE Untouched
  BY <1>4 DEF emit, stepHist, Untouched
<1>5. ASSUME NEW t \in Threads, NEW h \in Handlers, on(t, h) \/ unsubscribe(t, h)
      PROVE  Untouched
  BY <1>5 DEF on, unsubscribe, stepHist, Untouched
<1>6. ASSUME NEW t \in Threads, \/ run_step_reject(t) \/ deliver(t) \/ Pop(t) \/ Dispatch(t)
                                \/ Mark(t) \/ HandlerReturns(t) \/ HandlerRaises(t)
      PROVE  Untouched
  BY <1>6 DEF run_step_reject, deliver, Pop, Dispatch, Mark, HandlerReturns, HandlerRaises,
              busVars, stepHist, Untouched
<1>7. UNCHANGED vars => Untouched
  BY DEF vars, busVars, stepHist, Untouched
<1> QED
  BY <1>1, <1>2, <1>3, <1>4, <1>5, <1>6, <1>7 DEF Next, ThreadStep, Delivery, CallEnds

LEMMA StepInvStep == TypeInv /\ StepInv /\ [Next]_vars => StepInv'
<1> SUFFICES ASSUME TypeInv, StepInv, [Next]_vars PROVE StepInv'
  OBVIOUS
<1>0. observed \in [StepIds -> SUBSET Outcomes] /\ DOMAIN steps \subseteq StepIds
  BY LedgerIs DEF TypeInv, TypeOK
<1>1. CASE Untouched
  BY <1>1 DEF Untouched, StepInv, OneOutcome
<1>2. ASSUME NEW s \in DOMAIN steps, Returned(s), UNCHANGED <<steps, saved, calls>>
      PROVE  StepInv'
  BY <1>0, <1>2 DEF Returned, StepInv, OneOutcome
<1>3. CASE UNCHANGED <<steps, saved, observed>>
  BY <1>3 DEF StepInv, OneOutcome
<1>4. ASSUME NEW s \in StepIds, NEW o \in Outcomes, steps' = Recorded(s, o), Returned(s),
             UNCHANGED saved
      PROVE  StepInv'
  <2>1. /\ DOMAIN steps' = DOMAIN steps \cup {s}
        /\ \A r \in DOMAIN steps : steps'[r] = steps[r]
    BY <1>4 DEF Recorded
  <2> QED
    BY <1>0, <1>4, <2>1 DEF Returned, StepInv, OneOutcome
<1>5. CASE snapshot
  BY <1>5 DEF snapshot, Snapshot, busVars, stepHist, StepInv, OneOutcome
<1>6. CASE crash_restore
  BY <1>6 DEF crash_restore, RestoredSteps, StepInv, OneOutcome
<1> QED
  BY <1>1, <1>2, <1>3, <1>4, <1>5, <1>6, StepCases

LEMMA StepHolds == Spec => []StepInv
<1>1. Init => StepInv
  BY DEF Init, StepInv, OneOutcome
<1> QED
  BY <1>1, StepInvStep, TypeHolds, PTL DEF Spec

(* run_step: between two restarts every caller is given the one outcome in *)
(* the ledger, also those that ran fn themselves to another one.           *)
THEOREM StepsHaveOneOutcome == Spec => []OneOutcome
<1>1. StepInv => OneOutcome
  BY DEF StepInv
<1> QED
  BY <1>1, StepHolds, PTL

(* A step in a persisted snapshot is not executed again, before a crash or *)
(* after it.                                                               *)
THEOREM PersistedStepsStand == Spec => PersistedStepsNotRerun
<1>1. ASSUME TypeInv, StepInv, [Next]_vars
      PROVE  [\A s \in DOMAIN saved.steps : calls'[s] = calls[s]]_vars
  <2>1. \A s \in DOMAIN saved.steps : s \in DOMAIN steps
    BY <1>1 DEF StepInv
  <2>2. calls \in [StepIds -> Nat]
    BY <1>1 DEF TypeInv, TypeOK
  <2>3. calls' = calls \/ \E s \in StepIds \ DOMAIN steps : calls' = [calls EXCEPT ![s] = @ + 1]
    BY <1>1, StepCases DEF Untouched, snapshot, stepHist, crash_restore
  <2>4. ASSUME NEW s \in DOMAIN saved.steps PROVE calls'[s] = calls[s]
    <3>1. ASSUME NEW r \in StepIds \ DOMAIN steps, calls' = [calls EXCEPT ![r] = @ + 1]
          PROVE  calls'[s] = calls[s]
      <4>1. s # r
        BY <2>1
      <4> QED
        BY <2>2, <3>1, <4>1
    <3> QED
      BY <2>3, <3>1
  <2> QED
    BY <2>4
<1>2. TypeInv /\ StepInv /\ [Next]_vars => [\A s \in DOMAIN saved.steps : calls'[s] = calls[s]]_vars
  BY <1>1
<1>3. Spec => [][\A s \in DOMAIN saved.steps : calls'[s] = calls[s]]_vars
  BY <1>2, StepHolds, TypeHolds, PTL DEF Spec
<1> QED
  BY <1>3 DEF PersistedStepsNotRerun

--------------------------------------------------------------------------------
(* What each thread, and the bus as a whole, owes to a handler.            *)
Served(e, h) == <<e, h>> \in done \cup excused
Upcoming(t) == Head(todo[t])

(* A mark in the ledger, live or saved, is for handlers that returned; a   *)
(* thread about to set one has seen its handler return.                    *)
MarksInv ==
    /\ \A e \in Events, h \in Handlers :
          <<e, KeyOf[h]>> \in delivered \cup saved.delivered => <<e, h>> \in done
    /\ \A t \in Threads : pc[t] = "mark" => <<inHand[t], Upcoming(t)>> \in done

(* The same for the snapshot, in which nothing is being delivered.         *)
SavedServed(e, h) ==
    \/ \E i \in DOMAIN saved.queue : saved.log[saved.queue[i]] = e
    \/ <<e, h>> \in done \cup savedExcused

ServeInv ==
    /\ \A e \in Elems(log), h \in Handlers : IsQueued(e) \/ Owed(e, h) \/ Served(e, h)
    /\ \A e \in Elems(saved.log), h \in Handlers : SavedServed(e, h)

LEMMA MarksStep == TypeInv /\ DistinctKeys /\ MarksInv /\ [Next]_vars => MarksInv'
<1> SUFFICES ASSUME TypeInv, DistinctKeys, MarksInv, [Next]_vars PROVE MarksInv'
  OBVIOUS
<1> USE DEF TypeInv, TypeOK, Delivering
(* A step that delivers nothing.                                           *)
<1>0. ASSUME UNCHANGED <<delivered, saved, done>>,
             \A t \in Threads : pc'[t] = "mark" =>
                 pc[t] = "mark" /\ inHand'[t] = inHand[t] /\ todo'[t] = todo[t]
      PROVE  MarksInv'
  BY <1>0 DEF MarksInv, Upcoming
<1>1. ASSUME NEW t \in Threads, NEW e \in Events, emit(t, e)
      PROVE  MarksInv'
  BY <1>0, <1>1 DEF emit, threadVars
<1>2. ASSUME NEW t \in Threads, NEW h \in Handlers, on(t, h) \/ unsubscribe(t, h)
      PROVE  MarksInv'
  BY <1>0, <1>2 DEF on, unsubscribe, threadVars, eventHist
<1>3. ASSUME NEW t \in Threads, NEW s \in StepIds, run_step_replay(t, s) \/ run_step_call(t, s)
      PROVE  MarksInv'
  BY <1>0, <1>3 DEF run_step_replay, run_step_call, Goto, Take, busVars, threadVars, eventHist
<1>4. ASSUME NEW t \in Threads, (\E o \in Outcomes : run_step_record(t, o)) \/ run_step_reject(t)
      PROVE  MarksInv'
  BY <1>0, <1>4 DEF run_step_record, run_step_reject, Goto, Take, busVars, eventHist
<1>5. ASSUME NEW t \in Threads, deliver(t) \/ Pop(t)
      PROVE  MarksInv'
  BY <1>0, <1>5 DEF deliver, Pop, Goto, Take, busVars, eventHist
<1>6. ASSUME NEW t \in Threads, Dispatch(t)
      PROVE  MarksInv'
  BY <1>0, <1>6 DEF Dispatch, Goto, Take, busVars, eventHist
<1>7. ASSUME NEW t \in Threads, HandlerReturns(t)
      PROVE  MarksInv'
  <2>1. done' = done \cup {<<inHand[t], Upcoming(t)>>} /\ UNCHANGED <<delivered, saved, inHand, todo>>
    BY <1>7 DEF HandlerReturns, busVars, Upcoming
  <2>2. \A u \in Threads : u # t => pc'[u] = pc[u]
    BY <1>7 DEF HandlerReturns, Goto
  <2> QED
    BY <2>1, <2>2 DEF MarksInv, Upcoming
<1>8. ASSUME NEW t \in Threads, Mark(t)
      PROVE  MarksInv'
  <2> DEFINE e == inHand[t]
             h == Upcoming(t)
  <2>1. e \in Events /\ h \in Handlers /\ <<e, h>> \in done
    BY <1>8, HeadAndTail DEF Mark, MarksInv, Upcoming
  <2>2. delivered' = delivered \cup {<<e, KeyOf[h]>>} /\ UNCHANGED <<saved, done, inHand>>
    BY <1>8 DEF Mark, eventHist, Upcoming
  <2>3. \A u \in Threads : pc'[u] = "mark" => u # t /\ pc[u] = "mark" /\ todo'[u] = todo[u]
    BY <1>8 DEF Mark, Goto
  <2>4. ASSUME NEW d \in Events, NEW g \in Handlers, <<d, KeyOf[g]>> \in delivered' \cup saved'.delivered
        PROVE  <<d, g>> \in done'
    <3>1. CASE <<d, KeyOf[g]>> \in delivered \cup saved.delivered
      BY <2>2, <3>1 DEF MarksInv
    <3>2. CASE <<d, KeyOf[g]>> = <<e, KeyOf[h]>>
      BY <2>1, <2>2, <3>2 DEF DistinctKeys
    <3> QED
      BY <2>2, <2>4, <3>1, <3>2
  <2> QED
    BY <2>2, <2>3, <2>4 DEF MarksInv, Upcoming
<1>9. ASSUME NEW t \in Threads, HandlerRaises(t)
      PROVE  MarksInv'
  BY <1>0, <1>9 DEF HandlerRaises, Goto, Take, busVars
<1>10. CASE snapshot
  <2>1. saved'.delivered = delivered /\ UNCHANGED <<delivered, done, pc, inHand, todo>>
    BY <1>10 DEF snapshot, Snapshot, busVars, threadVars
  <2> QED
    BY <2>1 DEF MarksInv, Upcoming
<1>11. CASE crash_restore
  BY <1>11 DEF crash_restore, MarksInv, Upcoming
<1>12. CASE UNCHANGED vars
  BY <1>12 DEF vars, busVars, threadVars, eventHist, MarksInv, Upcoming
<1> QED
  BY <1>1, <1>2, <1>3, <1>4, <1>5, <1>6, <1>7, <1>8, <1>9, <1>10, <1>11, <1>12
     DEF Next, ThreadStep, Delivery, CallEnds

LEMMA ServeStep == TypeInv /\ DistinctKeys /\ MarksInv /\ ServeInv /\ [Next]_vars => ServeInv'
<1> SUFFICES ASSUME TypeInv, DistinctKeys, MarksInv, ServeInv, [Next]_vars PROVE ServeInv'
  OBVIOUS
<1> USE DEF TypeInv, TypeOK, Delivering
<1>e. Elems(<<>>) = {}
  BY DEF Elems
(* A step of t that leaves log and queue alone, and drops a handler only   *)
(* when the bus owes it nothing any more.                                  *)
<1>0. ASSUME NEW t \in Threads, UNCHANGED <<log, queue, saved, savedExcused>>,
             done \subseteq done', excused \subseteq excused',
             \A u \in Threads : u # t => inHand'[u] = inHand[u] /\ todo'[u] = todo[u],
             \A h \in Elems(todo[t]) :
                 \/ h \in Elems(todo'[t]) /\ inHand'[t] = inHand[t]
                 \/ <<inHand[t], h>> \in done' \cup excused'
      PROVE  ServeInv'
  <2>1. \A e : IsQueued(e) => IsQueued(e)'
    BY <1>0 DEF IsQueued
  <2>2. \A e, h : Owed(e, h) => Owed(e, h)' \/ <<e, h>> \in done' \cup excused'
    BY <1>0 DEF Owed
  <2>3. \A e \in Elems(log'), h \in Handlers : IsQueued(e)' \/ Owed(e, h)' \/ Served(e, h)'
    BY <1>0, <2>1, <2>2 DEF ServeInv, Served
  <2>4. \A e \in Elems(saved'.log), h \in Handlers : SavedServed(e, h)'
    BY <1>0 DEF ServeInv, SavedServed
  <2> QED
    BY <2>3, <2>4 DEF ServeInv
<1>1. ASSUME NEW t \in Threads, NEW e \in Events, emit(t, e)
      PROVE  ServeInv'
  <2>1. \E i \in DOMAIN log' : log'[i] = e /\ queue' = Append(queue, i)
    <3>1. CASE log' = Append(log, e) /\ queue' = Append(queue, Len(log'))
      BY <3>1, Appended
    <3>2. ASSUME NEW i \in DOMAIN log, log[i] = e, queue' = Append(queue, i), UNCHANGED log
          PROVE  \E j \in DOMAIN log' : log'[j] = e /\ queue' = Append(queue, j)
      BY <3>2
    <3> QED
      BY <1>1, <3>1, <3>2 DEF emit, Logged
  <2>2. /\ \A i \in DOMAIN log : i \in DOMAIN log' /\ log'[i] = log[i]
        /\ Elems(log') \subseteq Elems(log) \cup {e} /\ log' \in Seq(Events)
    <3>1. CASE log' = Append(log, e)
      BY <3>1, Appended
    <3>2. CASE UNCHANGED log
      BY <3>2
    <3> QED
      BY <1>1, <3>1, <3>2 DEF emit, Logged
  <2>3. PICK j \in DOMAIN log' : log'[j] = e /\ queue' = Append(queue, j)
    BY <2>1
  <2>4. j \in Nat /\ queue \in Seq(Nat)
    BY <2>2, <2>3
  <2>5. /\ \A i \in DOMAIN queue : i \in DOMAIN queue' /\ queue'[i] = queue[i]
        /\ Len(queue) + 1 \in DOMAIN queue' /\ queue'[Len(queue) + 1] = j
    <3>1. /\ \A i \in DOMAIN queue : i \in DOMAIN Append(queue, j) /\ Append(queue, j)[i] = queue[i]
          /\ Len(queue) + 1 \in DOMAIN Append(queue, j) /\ Append(queue, j)[Len(queue) + 1] = j
      BY <2>4, Appended
    <3> QED
      BY <2>3, <3>1
  <2>6. IsQueued(e)'
    BY <2>3, <2>5 DEF IsQueued
  <2>7. ASSUME NEW x, IsQueued(x) PROVE IsQueued(x)'
    <3>1. PICK i \in DOMAIN queue : log[queue[i]] = x
      BY <2>7 DEF IsQueued
    <3>2. queue[i] \in DOMAIN log
      BY InSeq
    <3>3. i \in DOMAIN queue' /\ log'[queue'[i]] = x
      BY <2>2, <2>5, <3>1, <3>2
    <3> QED
      BY <3>3 DEF IsQueued
  <2>8. UNCHANGED <<inHand, todo, done, saved, savedExcused>> /\ excused' = excused \ ({e} \X Handlers)
    BY <1>1 DEF emit, threadVars
  <2>9. \A x, h : Owed(x, h) => Owed(x, h)'
    BY <2>8 DEF Owed
  <2>10. \A x, h : x # e /\ Served(x, h) => Served(x, h)'
    BY <2>8 DEF Served
  <2>11. \A x \in Elems(log'), h \in Handlers : IsQueued(x)' \/ Owed(x, h)' \/ Served(x, h)'
    BY <2>2, <2>6, <2>7, <2>9, <2>10 DEF ServeInv
  <2>12. \A x \in Elems(saved'.log), h \in Handlers : SavedServed(x, h)'
    BY <2>8 DEF ServeInv, SavedServed
  <2> QED
    BY <2>11, <2>12 DEF ServeInv
<1>2. ASSUME NEW t \in Threads, NEW h \in Handlers, on(t, h) \/ unsubscribe(t, h)
      PROVE  ServeInv'
  BY <1>0, <1>2 DEF on, unsubscribe, threadVars, eventHist
<1>3. ASSUME NEW t \in Threads, NEW s \in StepIds, run_step_replay(t, s) \/ run_step_call(t, s)
      PROVE  ServeInv'
  BY <1>0, <1>3, <1>e DEF run_step_replay, run_step_call, Take, busVars, threadVars, eventHist
<1>4. ASSUME NEW t \in Threads, (\E o \in Outcomes : run_step_record(t, o)) \/ run_step_reject(t)
      PROVE  ServeInv'
  BY <1>0, <1>4, <1>e DEF run_step_record, run_step_reject, Take, busVars, eventHist
<1>5. ASSUME NEW t \in Threads, deliver(t)
      PROVE  ServeInv'
  BY <1>0, <1>5 DEF deliver, busVars, eventHist
<1>6. ASSUME NEW t \in Threads, Pop(t)
      PROVE  ServeInv'
  <2>1. CASE UNCHANGED <<queue, inHand, todo, overlapped, excused>>
    BY <1>0, <1>6, <2>1 DEF Pop
  <2>2. CASE /\ queue # <<>> /\ queue' = Tail(queue)
             /\ todo' = [todo EXCEPT ![t] = handlers] /\ Take(t, log[Head(queue)])
             /\ excused' = excused \cup ({log[Head(queue)]} \X (Handlers \ Elems(handlers)))
    <3>0. PICK e : e = log[Head(queue)]
      OBVIOUS
    <3>1. todo[t] = <<>> /\ UNCHANGED <<log, saved, done, savedExcused>>
      BY <1>6 DEF Pop
    <3>2. todo'[t] = handlers /\ inHand'[t] = e
          /\ \A u \in Threads : u # t => inHand'[u] = inHand[u] /\ todo'[u] = todo[u]
      BY <2>2, <3>0 DEF Take
    <3>3. /\ 1 \in DOMAIN queue /\ queue[1] = Head(queue)
          /\ \A i \in DOMAIN queue :
                i = 1 \/ (i - 1 \in DOMAIN queue' /\ queue'[i - 1] = queue[i])
      BY <2>2, HeadAndTail
    <3>4. \A x : IsQueued(x) => IsQueued(x)' \/ x = e
      BY <3>0, <3>1, <3>3 DEF IsQueued
    <3>5. \A x, h : Owed(x, h) => Owed(x, h)'
      BY <1>e, <3>1, <3>2 DEF Owed
    <3>6. \A x, h : Served(x, h) => Served(x, h)'
      BY <2>2, <3>1 DEF Served
    <3>7. \A h \in Handlers : Owed(e, h)' \/ Served(e, h)'
      <4>1. \A h \in Elems(handlers) : Owed(e, h)'
        BY <3>1, <3>2 DEF Owed
      <4>2. \A h \in Handlers \ Elems(handlers) : <<e, h>> \in excused'
        BY <2>2, <3>0
      <4> QED
        BY <3>1, <4>1, <4>2 DEF Served
    <3>8. \A x \in Elems(log'), h \in Handlers : IsQueued(x)' \/ Owed(x, h)' \/ Served(x, h)'
      BY <3>1, <3>4, <3>5, <3>6, <3>7 DEF ServeInv
    <3>9. \A x \in Elems(saved'.log), h \in Handlers : SavedServed(x, h)'
      BY <3>1 DEF ServeInv, SavedServed
    <3> QED
      BY <3>8, <3>9 DEF ServeInv
  <2> QED
    BY <1>6, <2>1, <2>2 DEF Pop
<1>7. ASSUME NEW t \in Threads, Dispatch(t)
      PROVE  ServeInv'
  <2>0. UNCHANGED <<log, queue, delivered, saved, done, excused, savedExcused>>
    BY <1>7 DEF Dispatch, busVars, eventHist
  <2>1. CASE todo[t] = <<>> /\ Take(t, NoOne) /\ UNCHANGED todo
    BY <1>0, <1>e, <2>0, <2>1 DEF Take
  <2>2. CASE todo[t] # <<>> /\ Marked(inHand[t], Upcoming(t)) /\ UNCHANGED inHand
             /\ todo' = [todo EXCEPT ![t] = Tail(@)]
    <3>1. <<inHand[t], Upcoming(t)>> \in done
      BY <1>7, <2>2, HeadAndTail DEF Dispatch, Marked, MarksInv, Upcoming
    <3>2. \A h \in Elems(todo[t]) : h = Upcoming(t) \/ h \in Elems(todo'[t])
      BY <2>2, HeadAndTail DEF Upcoming
    <3> QED
      BY <1>0, <2>0, <2>2, <3>1, <3>2
  <2>3. CASE UNCHANGED <<inHand, todo>>
    BY <1>0, <2>0, <2>3
  <2> QED
    BY <1>7, <2>1, <2>2, <2>3 DEF Dispatch, Upcoming
<1>8. ASSUME NEW t \in Threads, HandlerReturns(t)
      PROVE  ServeInv'
  BY <1>0, <1>8 DEF HandlerReturns, busVars
<1>9. ASSUME NEW t \in Threads, Mark(t)
      PROVE  ServeInv'
  <2>1. <<inHand[t], Upcoming(t)>> \in done /\ todo[t] # <<>>
    BY <1>9 DEF Mark, MarksInv
  <2>2. todo' = [todo EXCEPT ![t] = Tail(@)]
        /\ UNCHANGED <<log, queue, saved, inHand, done, excused, savedExcused>>
    BY <1>9 DEF Mark, eventHist
  <2>3. \A h \in Elems(todo[t]) : h = Upcoming(t) \/ h \in Elems(todo'[t])
    BY <2>1, <2>2, HeadAndTail DEF Upcoming
  <2> QED
    BY <1>0, <2>1, <2>2, <2>3
<1>10. ASSUME NEW t \in Threads, HandlerRaises(t)
       PROVE  ServeInv'
  BY <1>0, <1>10 DEF HandlerRaises, Take, busVars
<1>11. CASE snapshot
  <2>1. /\ saved'.log = log /\ saved'.queue = queue
        /\ UNCHANGED <<log, queue, inHand, todo, done, excused>>
        /\ savedExcused' = excused \cup UNION {{inHand[t]} \X Elems(todo[t]) : t \in Threads}
    BY <1>11 DEF snapshot, Snapshot, busVars, threadVars
  <2>2. ASSUME NEW e, NEW h, Owed(e, h) PROVE <<e, h>> \in savedExcused'
    BY <2>1, <2>2 DEF Owed
  <2>3. \A e \in Elems(saved'.log), h \in Handlers : SavedServed(e, h)'
    BY <2>1, <2>2 DEF ServeInv, SavedServed, IsQueued, Served
  <2>4. \A e \in Elems(log'), h \in Handlers : IsQueued(e)' \/ Owed(e, h)' \/ Served(e, h)'
    BY <2>1 DEF ServeInv, IsQueued, Owed, Served
  <2> QED
    BY <2>3, <2>4 DEF ServeInv
<1>12. CASE crash_restore
  <2>1. /\ log' = saved.log /\ queue' = saved.queue /\ excused' = savedExcused
        /\ UNCHANGED <<saved, done, savedExcused>>
    BY <1>12 DEF crash_restore
  <2> QED
    BY <2>1 DEF ServeInv, SavedServed, IsQueued, Served
<1>13. CASE UNCHANGED vars
  BY <1>13 DEF vars, busVars, threadVars, eventHist, ServeInv, SavedServed, IsQueued, Owed, Served
<1> QED
  BY <1>1, <1>2, <1>3, <1>4, <1>5, <1>6, <1>7, <1>8, <1>9, <1>10, <1>11, <1>12, <1>13
     DEF Next, ThreadStep, Delivery, CallEnds

(* deliver: nothing in the log is forgotten.  Every event is queued, or    *)
(* being delivered, or was handled by every handler it is owed to.         *)
THEOREM EventsAreServed == Spec => []AtLeastOnce
<1>1. Init => MarksInv /\ ServeInv
  BY DEF Init, MarksInv, ServeInv, Elems
<1>2. TypeInv /\ (DistinctKeys => MarksInv /\ ServeInv) /\ [Next]_vars
          => (DistinctKeys => MarksInv /\ ServeInv)'
  BY MarksStep, ServeStep DEF DistinctKeys
<1>3. (DistinctKeys => MarksInv /\ ServeInv) => AtLeastOnce
  BY DEF ServeInv, AtLeastOnce, Served
<1> QED
  BY <1>1, <1>2, <1>3, TypeHolds, PTL DEF Spec

--------------------------------------------------------------------------------
(* Without a crash: two threads that deliver one event are known, a handler*)
(* about to be called was not served, and one that returned is marked, or  *)
(* its thread is about to set the mark; unless its event is overlapped.    *)
Returning(e, h) == \E t \in Threads : pc[t] = "mark" /\ inHand[t] = e /\ Upcoming(t) = h

OverlapInv ==
    \A t, u \in Threads : t # u /\ Delivering(t) /\ Delivering(u) /\ inHand[t] = inHand[u] =>
        inHand[t] \in overlapped

CallInv ==
    \A t \in Threads : pc[t] = "handler" =>
        ~Marked(inHand[t], Upcoming(t)) \/ inHand[t] \in overlapped

OnceInv ==
    crashes = 0 =>
        /\ \A e \in Events, h \in Handlers : <<e, h>> \in done =>
              e \in overlapped \/ Marked(e, h) \/ Returning(e, h)
        /\ \A p \in twice : p[1] \in overlapped

LEMMA OnceStep ==
    TypeInv /\ OverlapInv /\ CallInv /\ OnceInv /\ [Next]_vars => OverlapInv' /\ CallInv' /\ OnceInv'
<1> SUFFICES ASSUME TypeInv, OverlapInv, CallInv, OnceInv, [Next]_vars
             PROVE  OverlapInv' /\ CallInv' /\ OnceInv'
  OBVIOUS
<1> USE DEF TypeInv, TypeOK, Delivering
(* A step in which no handler returns, is marked or is called.             *)
<1>0. ASSUME UNCHANGED <<delivered, done, twice, overlapped, crashes>>,
             \A t \in Threads : Delivering(t)' => Delivering(t) /\ inHand'[t] = inHand[t],
             \A t \in Threads : pc'[t] \in {"handler", "mark"} =>
                                    pc'[t] = pc[t] /\ todo'[t] = todo[t],
             \A t \in Threads : pc[t] = "mark" => pc'[t] = "mark"
      PROVE  OverlapInv' /\ CallInv' /\ OnceInv'
  <2>1. OverlapInv'
    BY <1>0 DEF OverlapInv
  <2>2. CallInv'
    BY <1>0 DEF CallInv, Marked, Upcoming
  <2>3. \A e, h : Returning(e, h) => Returning(e, h)'
    BY <1>0 DEF Returning, Upcoming
  <2>4. OnceInv'
    BY <1>0, <2>3 DEF OnceInv, Marked
  <2> QED
    BY <2>1, <2>2, <2>4
<1>1. ASSUME NEW t \in Threads, NEW e \in Events, emit(t, e)
      PROVE  OverlapInv' /\ CallInv' /\ OnceInv'
  BY <1>0, <1>1 DEF emit, threadVars
<1>2. ASSUME NEW t \in Threads, NEW h \in Handlers, on(t, h) \/ unsubscribe(t, h)
      PROVE  OverlapInv' /\ CallInv' /\ OnceInv'
  BY <1>0, <1>2 DEF on, unsubscribe, threadVars, eventHist
<1>3. ASSUME NEW t \in Threads, NEW s \in StepIds, run_step_replay(t, s) \/ run_step_call(t, s)
      PROVE  OverlapInv' /\ CallInv' /\ OnceInv'
  BY <1>0, <1>3 DEF run_step_replay, run_step_call, Goto, Take, busVars, threadVars, eventHist
<1>4. ASSUME NEW t \in Threads, (\E o \in Outcomes : run_step_record(t, o)) \/ run_step_reject(t)
      PROVE  OverlapInv' /\ CallInv' /\ OnceInv'
  BY <1>0, <1>4 DEF run_step_record, run_step_reject, Goto, Take, busVars, eventHist
<1>5. ASSUME NEW t \in Threads, deliver(t)
      PROVE  OverlapInv' /\ CallInv' /\ OnceInv'
  BY <1>0, <1>5 DEF deliver, Goto, busVars, eventHist
<1>6. ASSUME NEW t \in Threads, Pop(t)
      PROVE  OverlapInv' /\ CallInv' /\ OnceInv'
  <2>0. UNCHANGED <<delivered, done, twice, crashes>> /\ pc[t] = "pop"
    BY <1>6 DEF Pop
  <2>1. CASE Goto(t, "idle") /\ UNCHANGED <<inHand, todo, overlapped>>
    BY <1>0, <2>0, <2>1 DEF Goto
  <2>2. ASSUME NEW e, Goto(t, "dispatch"), Take(t, e), todo' = [todo EXCEPT ![t] = handlers],
               overlapped' = overlapped \cup {x \in {e} : InFlight(x)}
        PROVE  OverlapInv' /\ CallInv' /\ OnceInv'
    <3>1. /\ pc'[t] = "dispatch" /\ inHand'[t] = e
          /\ \A u \in Threads : u # t =>
                pc'[u] = pc[u] /\ inHand'[u] = inHand[u] /\ todo'[u] = todo[u]
      BY <2>2 DEF Goto, Take
    <3>2. \A u \in Threads : u # t /\ inHand[u] = e => e \in overlapped'
      BY <2>2 DEF InFlight
    <3>3. overlapped \subseteq overlapped'
      BY <2>2
    <3>4. OverlapInv'
      <4> SUFFICES ASSUME NEW u \in Threads, NEW v \in Threads, u # v,
                          Delivering(u)', Delivering(v)', inHand'[u] = inHand'[v]
                   PROVE  inHand'[u] \in overlapped'
        BY DEF OverlapInv
      <4>1. CASE u = t
        <5>1. inHand'[u] = e /\ inHand[v] = e
          BY <3>1, <4>1
        <5> QED
          BY <3>2, <4>1, <5>1
      <4>2. CASE v = t
        <5>1. inHand'[u] = e /\ inHand[u] = e
          BY <3>1, <4>2
        <5> QED
          BY <3>2, <4>2, <5>1
      <4>3. CASE u # t /\ v # t
        <5>1. Delivering(u) /\ Delivering(v) /\ inHand[u] = inHand[v] /\ inHand'[u] = inHand[u]
          BY <3>1, <4>3
        <5>2. inHand[u] \in overlapped
          BY <5>1 DEF OverlapInv
        <5> QED
          BY <3>3, <5>1, <5>2
      <4> QED
        BY <4>1, <4>2, <4>3
    <3>5. CallInv'
      BY <2>0, <3>1, <3>3 DEF CallInv, Marked, Upcoming
    <3>6. \A x, h : Returning(x, h) => Returning(x, h)'
      BY <2>0, <3>1 DEF Returning, Upcoming
    <3>7. OnceInv'
      BY <2>0, <3>3, <3>6 DEF OnceInv, Marked
    <3> QED
      BY <3>4, <3>5, <3>7
  <2> QED
    BY <1>6, <2>1, <2>2 DEF Pop
<1>7. ASSUME NEW t \in Threads, Dispatch(t)
      PROVE  OverlapInv' /\ CallInv' /\ OnceInv'
  <2>0. pc[t] = "dispatch" /\ UNCHANGED <<delivered, done, twice, overlapped, crashes>>
    BY <1>7 DEF Dispatch, busVars, eventHist
  <2>1. CASE Goto(t, "pop") /\ Take(t, NoOne) /\ UNCHANGED todo
    BY <1>0, <2>0, <2>1 DEF Goto, Take
  <2>2. CASE todo' = [todo EXCEPT ![t] = Tail(@)] /\ UNCHANGED <<pc, inHand>>
    BY <1>0, <2>0, <2>2
  <2>3. CASE ~Marked(inHand[t], Upcoming(t)) /\ Goto(t, "handler") /\ UNCHANGED <<inHand, todo>>
    <3>1. pc'[t] = "handler" /\ \A u \in Threads : u # t => pc'[u] = pc[u]
      BY <2>3 DEF Goto
    <3>2. OverlapInv'
      BY <2>0, <2>3, <3>1 DEF OverlapInv
    <3>3. CallInv'
      BY <2>0, <2>3, <3>1 DEF CallInv, Marked, Upcoming
    <3>4. \A e, h : Returning(e, h) => Returning(e, h)'
      BY <2>0, <2>3, <3>1 DEF Returning, Upcoming
    <3>5. OnceInv'
      BY <2>0, <3>4 DEF OnceInv, Marked
    <3> QED
      BY <3>2, <3>3, <3>5
  <2> QED
    BY <1>7, <2>1, <2>2, <2>3 DEF Dispatch, Upcoming
<1>8. ASSUME NEW t \in Threads, HandlerReturns(t)
      PROVE  OverlapInv' /\ CallInv' /\ OnceInv'
  <2>0. /\ pc[t] = "handler" /\ UNCHANGED <<delivered, inHand, todo, overlapped, crashes>>
        /\ done' = done \cup {<<inHand[t], Upcoming(t)>>}
        /\ twice' = twice \cup ({<<inHand[t], Upcoming(t)>>} \cap done)
    BY <1>8 DEF HandlerReturns, busVars, Upcoming
  <2>1. pc'[t] = "mark" /\ \A u \in Threads : u # t => pc'[u] = pc[u]
    BY <1>8 DEF HandlerReturns, Goto
  <2>2. OverlapInv'
    BY <2>0, <2>1 DEF OverlapInv
  <2>3. CallInv'
    BY <2>0, <2>1 DEF CallInv, Marked, Upcoming
  <2>4. \A e, h : Returning(e, h) => Returning(e, h)'
    BY <2>0, <2>1 DEF Returning, Upcoming
  <2>5. Returning(inHand[t], Upcoming(t))'
    BY <2>0, <2>1 DEF Returning, Upcoming
  <2>6. ASSUME crashes = 0, <<inHand[t], Upcoming(t)>> \in done PROVE inHand[t] \in overlapped
    <3>1. inHand[t] \in Events /\ Upcoming(t) \in Handlers
      BY <2>0, HeadAndTail DEF Upcoming
    <3>2. \/ inHand[t] \in overlapped \/ Marked(inHand[t], Upcoming(t))
          \/ Returning(inHand[t], Upcoming(t))
      BY <2>6, <3>1 DEF OnceInv
    <3>3. Returning(inHand[t], Upcoming(t)) => inHand[t] \in overlapped
      BY <2>0 DEF Returning, OverlapInv
    <3> QED
      BY <2>0, <3>2, <3>3 DEF CallInv
  <2>7. OnceInv'
    <3> SUFFICES ASSUME crashes = 0
                 PROVE  /\ \A e \in Events, h \in Handlers : <<e, h>> \in done' =>
                              e \in overlapped \/ Marked(e, h) \/ Returning(e, h)'
                        /\ \A p \in twice' : p[1] \in overlapped
      BY <2>0 DEF OnceInv, Marked
    <3>1. ASSUME NEW p \in twice' PROVE p[1] \in overlapped
      <4>1. CASE p \in twice
        BY <4>1 DEF OnceInv
      <4>2. CASE p = <<inHand[t], Upcoming(t)>> /\ p \in done
        <5>1. p[1] = inHand[t]
          BY <4>2
        <5>2. <<inHand[t], Upcoming(t)>> \in done
          BY <4>2
        <5> QED
          BY <2>6, <5>1, <5>2
      <4>3. p \in twice \cup ({<<inHand[t], Upcoming(t)>>} \cap done)
        BY <2>0
      <4>4. p \in twice \/ (p = <<inHand[t], Upcoming(t)>> /\ p \in done)
        BY <4>3, Zenon
      <4> QED
        BY <4>1, <4>2, <4>4
    <3>2. ASSUME NEW e \in Events, NEW h \in Handlers, <<e, h>> \in done'
          PROVE  e \in overlapped \/ Marked(e, h) \/ Returning(e, h)'
      <4>1. CASE <<e, h>> \in done
        BY <2>4, <4>1 DEF OnceInv
      <4>2. CASE e = inHand[t] /\ h = Upcoming(t)
        BY <2>0, <2>1, <4>2 DEF Returning, Upcoming
      <4> QED
        BY <2>0, <3>2, <4>1, <4>2
    <3> QED
      BY <3>1, <3>2
  <2> QED
    BY <2>2, <2>3, <2>7
<1>9. ASSUME NEW t \in Threads, Mark(t)
      PROVE  OverlapInv' /\ CallInv' /\ OnceInv'
  <2>0. /\ pc[t] = "mark" /\ UNCHANGED <<inHand, done, twice, overlapped, crashes>>
        /\ delivered' = delivered \cup {<<inHand[t], KeyOf[Upcoming(t)]>>}
    BY <1>9 DEF Mark, eventHist, Upcoming
  <2>1. pc'[t] = "dispatch" /\ \A u \in Threads : u # t => pc'[u] = pc[u] /\ todo'[u] = todo[u]
    BY <1>9 DEF Mark, Goto
  <2>2. OverlapInv'
    BY <2>0, <2>1 DEF OverlapInv
  <2>3. CallInv'
    <3> SUFFICES ASSUME NEW u \in Threads, pc'[u] = "handler", inHand[u] \notin overlapped
                 PROVE  ~Marked(inHand[u], Upcoming(u))'
      BY <2>0 DEF CallInv, Marked, Upcoming
    <3>1. u # t /\ pc[u] = "handler" /\ todo'[u] = todo[u]
      BY <2>1
    <3>2. inHand[u] # inHand[t] /\ ~Marked(inHand[u], Upcoming(u))
      BY <2>0, <3>1 DEF OverlapInv, CallInv
    <3> QED
      BY <2>0, <3>1, <3>2 DEF Marked, Upcoming
  <2>4. \A e, h : Marked(e, h) => Marked(e, h)'
    BY <2>0 DEF Marked
  <2>5. \A e, h : Returning(e, h) => Returning(e, h)' \/ Marked(e, h)'
    BY <2>0, <2>1 DEF Returning, Upcoming, Marked
  <2>6. OnceInv'
    BY <2>0, <2>4, <2>5 DEF OnceInv
  <2> QED
    BY <2>2, <2>3, <2>6
<1>10. ASSUME NEW t \in Threads, HandlerRaises(t)
       PROVE  OverlapInv' /\ CallInv' /\ OnceInv'
  BY <1>0, <1>10 DEF HandlerRaises, Goto, Take, busVars
<1>11. CASE snapshot
  BY <1>0, <1>11 DEF snapshot, busVars, threadVars
<1>12. CASE crash_restore
  BY <1>12 DEF crash_restore, OverlapInv, CallInv, OnceInv
<1>13. CASE UNCHANGED vars
  BY <1>0, <1>13 DEF vars, busVars, threadVars, eventHist
<1> QED
  BY <1>1, <1>2, <1>3, <1>4, <1>5, <1>6, <1>7, <1>8, <1>9, <1>10, <1>11, <1>12, <1>13
     DEF Next, ThreadStep, Delivery, CallEnds

(* The dedup ledger: without a crash, and unless two threads delivered the *)
(* same event at a time, a handler returns at most once for an event.      *)
THEOREM HandlersReturnOnce == Spec => []EffectivelyOnce
<1>1. Init => OverlapInv /\ CallInv /\ OnceInv
  BY DEF Init, OverlapInv, CallInv, OnceInv, Delivering
<1>2. OnceInv => EffectivelyOnce
  BY DEF OnceInv, EffectivelyOnce
<1> QED
  BY <1>1, <1>2, OnceStep, TypeHolds, PTL DEF Spec
================================================================================
