-------------------------------- MODULE EventBus --------------------------------
(***************************************************************************)
(* tools/event_bus.py: the durable-step event bus.  Threads share one bus; *)
(* every public method holds the re-entrant lock for short sections only,  *)
(* and runs step functions and handlers OUTSIDE it.  A step of this        *)
(* specification is one locked section, or the end of such a call.         *)
(*                                                                         *)
(* A host persists snapshot() now and then; a crash restores the last one. *)
(* A handler or step function that itself calls the bus appears as another *)
(* thread doing so at that point.                                          *)
(***************************************************************************)
EXTENDS Naturals, Sequences, SequencesExt

CONSTANTS
    Threads,     \* threads using the bus
    Events,      \* event ids; a re-emit carries an id already in the log
    Handlers,    \* handler callables, all registered for the events' name
    Keys,        \* dedup keys of handlers
    KeyOf,       \* _handler_key: module and qualified name of a handler
    StepIds,     \* durable step ids
    Values,      \* JSON-serializable results of step functions
    Error,       \* the memoized outcome of a step function that raised
    NoOne,       \* no event or step in hand
    MaxWork,     \* bound: calls of emit and executions of step functions
    MaxCrashes   \* bound: crashes of the process

ASSUME BusConstants ==
    /\ KeyOf \in [Handlers -> Keys]
    /\ Error \notin Values
    /\ NoOne \notin Events \cup StepIds
    /\ {MaxWork, MaxCrashes} \subseteq Nat

VARIABLES
    log, queue,       \* _log, _queue (indexes into the log)
    handlers,         \* _handlers[name]: registered handlers in order
    steps,            \* _steps: step id -> outcome, for the recorded ones
    delivered,        \* _delivered: set of <<event id, handler key>>
    saved,            \* the persisted snapshot
    pc,               \* where each thread is
    inHand,           \* the step a thread executes or the event it delivers
    todo,             \* handlers this deliver() has still to call
    observed,         \* history: step id -> outcomes returned since a restart
    calls,            \* history: executions of each step function
    done,             \* history: <<event, handler>> the handler returned for
    twice,            \* history: those it returned for again
    overlapped,       \* history: events two threads delivered at a time
    excused,          \* history: <<event, handler>> the bus owes nothing any more
    savedExcused,     \* history: what excused becomes when saved is restored
    work, crashes     \* counters for the bounds

busVars == <<log, queue, handlers, steps, delivered>>
threadVars == <<pc, inHand, todo>>
stepHist == <<observed, calls>>
eventHist == <<done, twice, overlapped, excused, savedExcused>>
vars == <<busVars, saved, threadVars, stepHist, eventHist, work, crashes>>
--------------------------------------------------------------------------------
Outcomes == Values \cup {Error}
NoSteps == [s \in {} |-> Error]
Elems(s) == {s[i] : i \in DOMAIN s}

Init ==
    /\ log = <<>> /\ queue = <<>> /\ handlers = <<>>
    /\ steps = NoSteps /\ delivered = {}
    /\ saved = [log |-> <<>>, queue |-> <<>>, steps |-> NoSteps, delivered |-> {}]
    /\ pc = [t \in Threads |-> "idle"]
    /\ inHand = [t \in Threads |-> NoOne]
    /\ todo = [t \in Threads |-> <<>>]
    /\ observed = [s \in StepIds |-> {}]
    /\ calls = [s \in StepIds |-> 0]
    /\ done = {} /\ twice = {} /\ overlapped = {} /\ excused = {} /\ savedExcused = {}
    /\ work = 0 /\ crashes = 0

Goto(t, l) == pc' = [pc EXCEPT ![t] = l]
Take(t, x) == inHand' = [inHand EXCEPT ![t] = x]

(*--------------------------- emit, on, unsubscribe ---------------------*)

(* Mutant of Logged: the index is taken before the append. *)
LoggedEarly(e) == log' = Append(log, e) /\ queue' = Append(queue, Len(log))

Logged(e) ==
    \/ /\ e \notin Elems(log)
       /\ log' = Append(log, e)
       /\ queue' = Append(queue, Len(log'))
    \/ \E i \in DOMAIN log :
          /\ log[i] = e
          /\ queue' = Append(queue, i)
          /\ UNCHANGED log

emit(t, e) ==
    /\ pc[t] = "idle"
    /\ work < MaxWork
    /\ work' = work + 1
    /\ Logged(e)
    /\ excused' = excused \ ({e} \X Handlers)
    /\ UNCHANGED <<handlers, steps, delivered, saved, threadVars, stepHist,
                   done, twice, overlapped, savedExcused, crashes>>

on(t, h) ==
    /\ pc[t] = "idle"
    /\ h \notin Elems(handlers)
    /\ handlers' = Append(handlers, h)
    /\ UNCHANGED <<log, queue, steps, delivered, saved, threadVars, stepHist,
                   eventHist, work, crashes>>

unsubscribe(t, h) ==
    /\ pc[t] = "idle"
    /\ \E i \in DOMAIN handlers : handlers[i] = h /\ handlers' = RemoveAt(handlers, i)
    /\ UNCHANGED <<log, queue, steps, delivered, saved, threadVars, stepHist,
                   eventHist, work, crashes>>

(*-------------------------------- run_step -----------------------------*)
Observe(s, o) == observed' = [observed EXCEPT ![s] = @ \cup {o}]

(* Fast path: the memoized outcome is returned, or re-raised. *)
run_step_replay(t, s) ==
    /\ pc[t] = "idle"
    /\ s \in DOMAIN steps
    /\ Observe(s, steps[s])
    /\ UNCHANGED <<busVars, saved, threadVars, calls, eventHist, work, crashes>>

(* No record: the lock is released and fn is called. *)
run_step_call(t, s) ==
    /\ pc[t] = "idle"
    /\ s \notin DOMAIN steps
    /\ work < MaxWork
    /\ work' = work + 1
    /\ calls' = [calls EXCEPT ![s] = @ + 1]
    /\ Goto(t, "fn") /\ Take(t, s)
    /\ UNCHANGED <<busVars, saved, todo, observed, eventHist, crashes>>

(* Mutant of Recorded: the last caller overwrites the record. *)
RecordedLast(s, o) ==
    [r \in DOMAIN steps \cup {s} |-> IF r = s THEN o ELSE steps[r]]

(* The ledger after fn ended with o: a concurrent caller's record stands. *)
Recorded(s, o) ==
    [r \in DOMAIN steps \cup {s} |-> IF r \in DOMAIN steps THEN steps[r] ELSE o]

(* fn returned a serializable value or raised; the caller gets the record. *)
run_step_record(t, o) ==
    LET s == inHand[t] IN
    /\ pc[t] = "fn"
    /\ steps' = Recorded(s, o)
    /\ Observe(s, steps'[s])
    /\ Goto(t, "idle") /\ Take(t, NoOne)
    /\ UNCHANGED <<log, queue, handlers, delivered, saved, todo, calls, eventHist,
                   work, crashes>>

(* fn returned a value json.dumps rejects: DurableStepError, no record. *)
run_step_reject(t) ==
    /\ pc[t] = "fn"
    /\ Goto(t, "idle") /\ Take(t, NoOne)
    /\ UNCHANGED <<busVars, saved, todo, stepHist, eventHist, work, crashes>>

(*-------------------------------- deliver ------------------------------*)
InFlight(e) == \E t \in Threads : inHand[t] = e

deliver(t) ==
    /\ pc[t] = "idle"
    /\ queue # <<>>
    /\ Goto(t, "pop")
    /\ UNCHANGED <<busVars, saved, inHand, todo, stepHist, eventHist, work, crashes>>

(* The loop head: pop an event and copy its handlers, or return. *)
Pop(t) ==
    /\ pc[t] = "pop"
    /\ \/ /\ queue = <<>>
          /\ Goto(t, "idle")
          /\ UNCHANGED <<queue, inHand, todo, overlapped, excused>>
       \/ LET e == log[Head(queue)] IN
          /\ queue # <<>>
          /\ queue' = Tail(queue)
          /\ todo' = [todo EXCEPT ![t] = handlers]
          /\ Goto(t, "dispatch") /\ Take(t, e)
          /\ overlapped' = overlapped \cup {x \in {e} : InFlight(x)}
          /\ excused' = excused \cup ({e} \X (Handlers \ Elems(handlers)))
    /\ UNCHANGED <<log, handlers, steps, delivered, saved, stepHist, done, twice,
                   savedExcused, work, crashes>>

(* Mutant of Marked: the bus-wide mark forgets which handler was served. *)
MarkedAny(e, h) == \E k \in Keys : <<e, k>> \in delivered

Marked(e, h) == <<e, KeyOf[h]>> \in delivered

(* All handlers called; a marked one skipped; else the handler is called.  *)
Dispatch(t) ==
    LET h == Head(todo[t]) IN
    /\ pc[t] = "dispatch"
    /\ \/ /\ todo[t] = <<>>
          /\ Goto(t, "pop") /\ Take(t, NoOne)
          /\ UNCHANGED todo
       \/ /\ todo[t] # <<>> /\ Marked(inHand[t], h)
          /\ todo' = [todo EXCEPT ![t] = Tail(@)]
          /\ UNCHANGED <<pc, inHand>>
       \/ /\ todo[t] # <<>> /\ ~Marked(inHand[t], h)
          /\ Goto(t, "handler")
          /\ UNCHANGED <<inHand, todo>>
    /\ UNCHANGED <<busVars, saved, stepHist, eventHist, work, crashes>>

HandlerReturns(t) ==
    LET e == inHand[t]
        h == Head(todo[t])
    IN
    /\ pc[t] = "handler"
    /\ done' = done \cup {<<e, h>>}
    /\ twice' = twice \cup ({<<e, h>>} \cap done)
    /\ Goto(t, "mark")
    /\ UNCHANGED <<busVars, saved, inHand, todo, stepHist, overlapped, excused,
                   savedExcused, work, crashes>>

(* Mutant of Mark: the ledger is not written. *)
MarkForgets(t) ==
    /\ pc[t] = "mark"
    /\ todo' = [todo EXCEPT ![t] = Tail(@)]
    /\ Goto(t, "dispatch")
    /\ UNCHANGED <<busVars, saved, inHand, stepHist, eventHist, work, crashes>>

Mark(t) ==
    /\ pc[t] = "mark"
    /\ delivered' = delivered \cup {<<inHand[t], KeyOf[Head(todo[t])]>>}
    /\ todo' = [todo EXCEPT ![t] = Tail(@)]
    /\ Goto(t, "dispatch")
    /\ UNCHANGED <<log, queue, handlers, steps, saved, inHand, stepHist, eventHist,
                   work, crashes>>

(* The exception leaves deliver(): the popped event and the handlers after *)
(* this one are dropped with it.                                           *)
HandlerRaises(t) ==
    /\ pc[t] = "handler"
    /\ excused' = excused \cup ({inHand[t]} \X Elems(todo[t]))
    /\ todo' = [todo EXCEPT ![t] = <<>>]
    /\ Goto(t, "idle") /\ Take(t, NoOne)
    /\ UNCHANGED <<busVars, saved, stepHist, done, twice, overlapped, savedExcused,
                   work, crashes>>

(*--------------------------- snapshot, restore -------------------------*)
Snapshot == [log |-> log, queue |-> queue, steps |-> steps, delivered |-> delivered]

snapshot ==
    /\ saved' = Snapshot
    /\ savedExcused' = excused \cup
          UNION {{inHand[t]} \X Elems(todo[t]) : t \in Threads}
    /\ UNCHANGED <<busVars, threadVars, stepHist, done, twice, overlapped, excused,
                   work, crashes>>

(* Mutant of RestoredSteps: the step ledger is not read back. *)
RestoredNoSteps == NoSteps

RestoredSteps == saved.steps

(* The process dies; the host restores the last snapshot.  What happened   *)
(* since is forgotten, and handlers must be registered again.              *)
crash_restore ==
    /\ crashes < MaxCrashes
    /\ crashes' = crashes + 1
    /\ log' = saved.log /\ queue' = saved.queue
    /\ steps' = RestoredSteps /\ delivered' = saved.delivered
    /\ handlers' = <<>>
    /\ pc' = [t \in Threads |-> "idle"]
    /\ inHand' = [t \in Threads |-> NoOne]
    /\ todo' = [t \in Threads |-> <<>>]
    /\ observed' = [s \in StepIds |-> {}]
    /\ excused' = savedExcused
    /\ UNCHANGED <<saved, calls, done, twice, overlapped, savedExcused, work>>

(* The end of the step function or handler a thread is in. *)
CallEnds(t) ==
    \/ \E o \in Outcomes : run_step_record(t, o)
    \/ run_step_reject(t)
    \/ HandlerReturns(t)
    \/ HandlerRaises(t)

Delivery(t) == Pop(t) \/ Dispatch(t) \/ Mark(t)

ThreadStep(t) ==
    \/ \E e \in Events : emit(t, e)
    \/ \E h \in Handlers : on(t, h) \/ unsubscribe(t, h)
    \/ \E s \in StepIds : run_step_replay(t, s) \/ run_step_call(t, s)
    \/ deliver(t)
    \/ Delivery(t)
    \/ CallEnds(t)

Next == (\E t \in Threads : ThreadStep(t)) \/ snapshot \/ crash_restore

Spec == Init /\ [][Next]_vars

(* Threads keep running and calls end; while events are queued, a free     *)
(* thread of the host sooner or later calls deliver().                     *)
FairSpec ==
    /\ Spec
    /\ \A t \in Threads : WF_vars(Delivery(t)) /\ WF_vars(CallEnds(t))
    /\ WF_vars(\E t \in Threads : deliver(t))
--------------------------------------------------------------------------------
(* Every variable in its range; queue indexes point into the log.          *)
Ledger == UNION {[S -> Outcomes] : S \in SUBSET StepIds}
Pairs == Events \X Handlers

TypeOK ==
    /\ log \in Seq(Events) /\ queue \in Seq(1..Len(log))
    /\ handlers \in Seq(Handlers)
    /\ steps \in Ledger /\ delivered \subseteq Events \X Keys
    /\ saved.log \in Seq(Events) /\ saved.queue \in Seq(1..Len(saved.log))
    /\ saved.steps \in Ledger /\ saved.delivered \subseteq Events \X Keys
    /\ pc \in [Threads -> {"idle", "fn", "pop", "dispatch", "handler", "mark"}]
    /\ inHand \in [Threads -> Events \cup StepIds \cup {NoOne}]
    /\ \A t \in Threads :
          /\ pc[t] = "fn" => inHand[t] \in StepIds
          /\ pc[t] \in {"dispatch", "handler", "mark"} => inHand[t] \in Events
          /\ pc[t] \in {"handler", "mark"} => todo[t] # <<>>
    /\ todo \in [Threads -> Seq(Handlers)]
    /\ observed \in [StepIds -> SUBSET Outcomes] /\ calls \in [StepIds -> Nat]
    /\ done \subseteq Pairs /\ twice \subseteq Pairs /\ excused \subseteq Pairs
    /\ savedExcused \subseteq Pairs /\ overlapped \subseteq Events
    /\ work \in Nat /\ crashes \in Nat

(* run_step: "all callers observe the SAME memoized value" -- also the     *)
(* callers that lost the race and ran fn themselves to another outcome.    *)
OneOutcome ==
    \A s \in StepIds : \A o \in observed[s] : s \in DOMAIN steps /\ steps[s] = o

(* A step whose record is in the persisted snapshot is never executed      *)
(* again, whatever crashes and is replayed (run_step, snapshot, restore).  *)
PersistedStepsNotRerun ==
    [][\A s \in DOMAIN saved.steps : calls'[s] = calls[s]]_vars

(* At-least-once: an event in the log is queued, or being delivered, or was*)
(* handled by each handler, except for the handlers that were not yet (or  *)
(* no longer) registered when it was popped, and for those a raising       *)
(* handler or a crash in the middle of a delivery cut off (deliver).       *)
IsQueued(e) == \E i \in DOMAIN queue : log[queue[i]] = e
Owed(e, h) == \E t \in Threads : inHand[t] = e /\ h \in Elems(todo[t])
DistinctKeys == \A g, h \in Handlers : KeyOf[g] = KeyOf[h] => g = h

AtLeastOnce ==
    DistinctKeys => \A e \in Elems(log), h \in Handlers :
        IsQueued(e) \/ Owed(e, h) \/ <<e, h>> \in done \cup excused

(* "Effectively-once": without a crash, and unless two threads delivered   *)
(* the same (re-emitted) event at a time, a handler returns at most once   *)
(* for an event (the dedup ledger of deliver).                             *)
EffectivelyOnce ==
    crashes = 0 => \A p \in twice : p[1] \in overlapped

(* A queued event reaches every handler, if deliver() keeps being called   *)
(* and unless it is one of the cases above or the log entry is lost.       *)
EventuallyDelivered ==
    \A e \in Events, h \in Handlers :
        IsQueued(e) ~> <<e, h>> \in done \cup excused \/ e \notin Elems(log)
================================================================================
