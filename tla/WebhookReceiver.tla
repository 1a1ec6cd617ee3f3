---------------------------- MODULE WebhookReceiver ----------------------------
(***************************************************************************)
(* plane-integration/webhook_handler.py: the Plane -> queue half of the    *)
(* bridge.  A ThreadingHTTPServer runs one handler per request; a request  *)
(* is cut into atomic steps at the boundaries of the module lock `_lock`   *)
(* and of every write that another thread, a consumer of the queue or a    *)
(* restarted process can see.                                              *)
(*                                                                         *)
(* Plane itself (board, deliveries, redeliveries) is the environment.      *)
(* Requests that fail verify() change nothing and are left out.            *)
(***************************************************************************)
EXTENDS Naturals, Sequences

CONSTANTS
    Threads,      \* request handler threads
    Issues,       \* work items
    States,       \* the board states the environment uses
    None,         \* Python None: no state dispatched yet, no role, no issue
    SeenCap,      \* SEEN_CAP: delivery ids remembered
    MaxEvents,    \* bound: webhook events Plane produces
    MaxPosts,     \* bound: requests Plane makes, redeliveries included
    MaxCrashes,   \* bound: crashes of the receiver
    MaxFaults     \* bound: I/O errors met by the receiver

ASSUME ReceiverConstants ==
    /\ States \subseteq STRING
    /\ None \notin States \cup Issues
    /\ SeenCap \in Nat \ {0}
    /\ {MaxEvents, MaxPosts, MaxCrashes, MaxFaults} \subseteq Nat

VARIABLES
    board,            \* Plane: the state of each work item
    sent,             \* Plane: the events produced so far
    posts,            \* Plane: number of requests made
    seen,             \* _seen, oldest delivery first
    dispatched,       \* _dispatched: last state dispatched for each issue
    seenFile,         \* .webhook_deliveries.json
    dispatchedFile,   \* .webhook_dispatched.json
    queue,            \* .agent_queue.jsonl, one element per line
    pc, req,          \* where each thread is, and the event it handles
    acked,            \* history: events answered 200 "accepted"
    suppressed,       \* history: events dropped by the (issue,state) dedup
    evicted,          \* history: delivery ids pushed out of _seen
    cut,              \* history: events a crash cut off, or whose line is glued to a torn one
    crashes, faults   \* counters for the bounds

planeVars == <<board, sent, posts>>
memVars   == <<seen, dispatched>>
diskVars  == <<seenFile, dispatchedFile, queue>>
histVars  == <<acked, suppressed, evicted, cut>>
vars == <<planeVars, memVars, diskVars, pc, req, histVars, crashes, faults>>
--------------------------------------------------------------------------------
(* DISPATCH_ON_STATE and NO_DISPATCH_ON_CREATE *)
DispatchStates ==
    {"Agent-Triaged", "Plan-Approved", "Agent-Executing", "In-Verification"}

DispatchOnState == [s \in DispatchStates |->
    CASE s = "Agent-Triaged" -> "initializer"
      [] s = "Plan-Approved" -> "implementer"
      [] OTHER -> "verifier"]

NoDispatchOnCreate == {"Agent-Executing", "In-Verification"}

(* Issue events carry an action and, on updates, the field that changed:   *)
(* "state" (a transition), "edit" (another field) or none at all ("plain").*)
IssueKinds == {"created", "state", "edit", "plain"}
Kinds == IssueKinds \cup {"comment", "event", "badjson"}
Events == [kind: Kinds, issue: Issues, state: States \cup {None}, tagged: BOOLEAN]

(* X-Plane-Delivery: the event's number, or 0 when the header is missing.  *)
Header(n) == IF sent[n].tagged THEN n ELSE 0

LineKinds == {"agent_dispatch", "comment", "event", "route_error",
              "partial", "garbled"}
Lines == [kind: LineKinds, role: {"initializer", "implementer", "verifier", None},
          issue: Issues \cup {None}, state: States \cup {None}, delivery: Nat]

Broken(k) == [kind |-> k, role |-> None, issue |-> None, state |-> None,
              delivery |-> 0]

IsPartial(q) == q # <<>> /\ q[Len(q)].kind = "partial"

(* Appending to a file whose last line was cut short glues the two lines   *)
(* together: neither parses any more.                                      *)
AppendLine(q, line) ==
    IF IsPartial(q) THEN [q EXCEPT ![Len(q)] = Broken("garbled")]
                    ELSE Append(q, line)

(* A crash in the middle of the write leaves a line without its newline.   *)
TearLine(q) == IF IsPartial(q) THEN q ELSE Append(q, Broken("partial"))

Elems(s) == {s[i] : i \in DOMAIN s}

(* Mutant of Trim: the cap is never enforced. *)
TrimNever(s) == s

(* popitem(last=False) while the dict is over its cap. *)
Trim(s) == IF Len(s) > SeenCap THEN Tail(s) ELSE s

(* The line do_POST/_route writes for event n. *)
JobLine(n) ==
    LET e == sent[n] IN
    IF e.kind \in IssueKinds
    THEN [kind |-> "agent_dispatch", role |-> DispatchOnState[e.state],
          issue |-> e.issue, state |-> e.state, delivery |-> Header(n)]
    ELSE [kind |-> e.kind, role |-> None,
          issue |-> IF e.kind = "comment" THEN e.issue ELSE None,
          state |-> None, delivery |-> Header(n)]

ErrorLine(n) == [Broken("route_error") EXCEPT !.delivery = Header(n)]
--------------------------------------------------------------------------------
Init ==
    /\ board = [i \in Issues |-> None]
    /\ sent = <<>>
    /\ posts = 0
    /\ seen = <<>> /\ seenFile = <<>>
    /\ dispatched = [i \in Issues |-> None]
    /\ dispatchedFile = [i \in Issues |-> None]
    /\ queue = <<>>
    /\ pc = [t \in Threads |-> "idle"]
    /\ req = [t \in Threads |-> 0]
    /\ acked = {} /\ suppressed = {} /\ evicted = {} /\ cut = {}
    /\ crashes = 0 /\ faults = 0

(*-------------------------------- Plane --------------------------------*)
Produce(k, i, s, tag) ==
    /\ Len(sent) < MaxEvents
    /\ sent' = Append(sent, [kind |-> k, issue |-> i, state |-> s, tagged |-> tag])
    /\ UNCHANGED <<posts, memVars, diskVars, pc, req, histVars, crashes, faults>>

Create(i, s) ==
    /\ board[i] = None
    /\ board' = [board EXCEPT ![i] = s]
    /\ Produce("created", i, s, TRUE)

Move(i, s) ==
    /\ board[i] \notin {None, s}
    /\ board' = [board EXCEPT ![i] = s]
    /\ \E k \in {"state", "plain"} : Produce(k, i, s, TRUE)

(* Everything else Plane reports about an issue, the header there or not.  *)
Edit(i) ==
    /\ board[i] # None
    /\ \/ \E k \in {"edit", "plain", "comment", "badjson"} : Produce(k, i, board[i], TRUE)
       \/ Produce("event", i, board[i], FALSE)
    /\ UNCHANGED board

Plane == \E i \in Issues : Edit(i) \/ \E s \in States : Create(i, s) \/ Move(i, s)

(*----------------------------- the receiver ----------------------------*)
Goto(t, l) == pc' = [pc EXCEPT ![t] = l]
Fault == faults < MaxFaults /\ faults' = faults + 1

(* A (re)delivery reaches a free thread. *)
Receive(t, n) ==
    /\ pc[t] = "idle"
    /\ posts < MaxPosts
    /\ posts' = posts + 1
    /\ req' = [req EXCEPT ![t] = n]
    /\ Goto(t, "post")
    /\ UNCHANGED <<board, sent, memVars, diskVars, histVars, crashes, faults>>

(* The first locked section of do_POST: check, add, persist. *)
Duplicate(t) ==
    /\ Header(req[t]) \in Elems(seen)
    /\ Goto(t, "idle")
    /\ UNCHANGED <<seen, evicted, seenFile, faults>>

Untagged(t) ==
    /\ Header(req[t]) = 0
    /\ Goto(t, "parse")
    /\ UNCHANGED <<seen, evicted, seenFile, faults>>

Remember(t) ==
    LET added == Append(seen, Header(req[t])) IN
    /\ Header(req[t]) # 0
    /\ Header(req[t]) \notin Elems(seen)
    /\ seen' = Trim(added)
    /\ evicted' = evicted \cup (Elems(added) \ Elems(seen'))

CheckSeen(t) ==
    /\ pc[t] = "post"
    /\ \/ Duplicate(t)
       \/ Untagged(t)
       \/ /\ Remember(t)
          /\ \/ seenFile' = seen' /\ Goto(t, "parse") /\ UNCHANGED faults
             \/ UNCHANGED seenFile /\ Goto(t, "idle") /\ Fault   \* the save raises
    /\ UNCHANGED <<planeVars, dispatched, dispatchedFile, queue, req, acked,
                   suppressed, cut, crashes>>

(* Parse the body, answer 200; a client that hung up makes the answer raise. *)
Ack(t) ==
    /\ pc[t] = "parse"
    /\ \/ /\ sent[req[t]].kind = "badjson"
          /\ Goto(t, "idle")
          /\ UNCHANGED <<acked, faults>>
       \/ /\ sent[req[t]].kind # "badjson"
          /\ \/ acked' = acked \cup {req[t]} /\ Goto(t, "route") /\ UNCHANGED faults
             \/ UNCHANGED acked /\ Goto(t, "idle") /\ Fault
    /\ UNCHANGED <<planeVars, memVars, diskVars, req, suppressed, evicted, cut, crashes>>

(* The early returns of _route before its locked section. *)
NotDispatchable(e) ==
    \/ e.state \notin DispatchStates
    \/ e.kind = "edit"
    \/ e.kind = "created" /\ e.state \in NoDispatchOnCreate

AlreadyDispatched(e) == dispatched[e.issue] = e.state

(* _route: ignore, suppress, or record the transition under the lock. *)
Route(t) ==
    LET e == sent[req[t]] IN
    /\ pc[t] = "route"
    /\ \/ /\ e.kind \notin IssueKinds
          /\ Goto(t, "enqueue")
          /\ UNCHANGED <<dispatched, dispatchedFile, suppressed, faults>>
       \/ /\ e.kind \in IssueKinds /\ NotDispatchable(e)
          /\ Goto(t, "idle")
          /\ UNCHANGED <<dispatched, dispatchedFile, suppressed, faults>>
       \/ /\ e.kind \in IssueKinds /\ ~NotDispatchable(e)
          /\ AlreadyDispatched(e)
          /\ suppressed' = suppressed \cup {req[t]}
          /\ Goto(t, "idle")
          /\ UNCHANGED <<dispatched, dispatchedFile, faults>>
       \/ /\ e.kind \in IssueKinds /\ ~NotDispatchable(e)
          /\ ~AlreadyDispatched(e)
          /\ dispatched' = [dispatched EXCEPT ![e.issue] = e.state]
          /\ \/ dispatchedFile' = dispatched' /\ Goto(t, "enqueue") /\ UNCHANGED faults
             \/ UNCHANGED dispatchedFile /\ Goto(t, "error") /\ Fault
          /\ UNCHANGED suppressed
    /\ UNCHANGED <<planeVars, seen, seenFile, queue, req, acked, evicted, cut, crashes>>

(* enqueue(): append, flush, fsync.  It may raise before or after the line *)
(* is in the file; do_POST then enqueues a route_error, which may fail too.*)
Write(t, line, next) ==
    /\ \/ queue' = AppendLine(queue, line) /\ Goto(t, "idle") /\ UNCHANGED faults
       \/ queue' \in {queue, AppendLine(queue, line)} /\ Goto(t, next) /\ Fault
    /\ cut' = IF IsPartial(queue) /\ queue' # queue THEN cut \cup {req[t]} ELSE cut
    /\ UNCHANGED <<planeVars, memVars, seenFile, dispatchedFile, req, acked, suppressed,
                   evicted, crashes>>

Enqueue(t) == pc[t] = "enqueue" /\ Write(t, JobLine(req[t]), "error")

(* Mutant of RouteError: the exception is swallowed. *)
SwallowError(t) ==
    /\ pc[t] = "error"
    /\ Goto(t, "idle")
    /\ UNCHANGED <<planeVars, memVars, diskVars, req, histVars, crashes, faults>>

RouteError(t) == pc[t] = "error" /\ Write(t, ErrorLine(req[t]), "idle")

(* Mutant of CrashRestart: the persisted delivery ids are not reloaded. *)
CrashForgets ==
    /\ crashes < MaxCrashes
    /\ crashes' = crashes + 1
    /\ seen' = <<>>
    /\ dispatched' = dispatchedFile
    /\ pc' = [t \in Threads |-> "idle"]
    /\ cut' = cut \cup {req[t] : t \in {u \in Threads : pc[u] # "idle"}}
    /\ UNCHANGED <<planeVars, diskVars, req, acked, suppressed, evicted, faults>>

(* The process dies and is started again: the dedup tables are reloaded,   *)
(* the requests in progress are gone, a line being written may be torn.    *)
CrashRestart ==
    /\ crashes < MaxCrashes
    /\ crashes' = crashes + 1
    /\ seen' = seenFile
    /\ dispatched' = dispatchedFile
    /\ pc' = [t \in Threads |-> "idle"]
    /\ \/ UNCHANGED queue
       \/ (\E t \in Threads : pc[t] \in {"enqueue", "error"}) /\ queue' = TearLine(queue)
    /\ cut' = cut \cup {req[t] : t \in {u \in Threads : pc[u] # "idle"}}
    /\ UNCHANGED <<planeVars, seenFile, dispatchedFile, req, acked, suppressed, evicted, faults>>

ThreadStep(t) ==
    \/ CheckSeen(t)
    \/ Ack(t)
    \/ Route(t)
    \/ Enqueue(t)
    \/ RouteError(t)

Next ==
    \/ Plane
    \/ \E t \in Threads : ThreadStep(t) \/ \E n \in 1..Len(sent) : Receive(t, n)
    \/ CrashRestart

Spec == Init /\ [][Next]_vars
--------------------------------------------------------------------------------
(* The dedup tables keep within the cap and every variable its range.      *)
TypeOK ==
    /\ board \in [Issues -> States \cup {None}]
    /\ sent \in Seq(Events) /\ Len(sent) <= MaxEvents
    /\ posts \in Nat
    /\ seen \in Seq(1..Len(sent)) /\ Len(seen) <= SeenCap
    /\ seenFile \in Seq(1..Len(sent)) /\ Len(seenFile) <= SeenCap
    /\ dispatched \in [Issues -> States \cup {None}]
    /\ dispatchedFile \in [Issues -> States \cup {None}]
    /\ queue \in Seq(Lines)
    /\ pc \in [Threads -> {"idle", "post", "parse", "route", "enqueue", "error"}]
    /\ req \in [Threads -> 0..Len(sent)]
    /\ \A t \in Threads : pc[t] # "idle" => req[t] # 0
    /\ acked \subseteq 1..Len(sent)
    /\ suppressed \subseteq 1..Len(sent)
    /\ evicted \subseteq 1..Len(sent)
    /\ cut \subseteq 1..Len(sent)
    /\ crashes \in Nat /\ faults \in Nat

(* One delivery never yields two jobs, whatever Plane resends, however the *)
(* handler threads interleave and wherever the receiver crashes, until its *)
(* id has been pushed out of the capped _seen table (do_POST, _save_seen). *)
IsJob(k, n) == queue[k].delivery = n /\ queue[k].kind # "route_error"

EnqueuedOnce ==
    \A j, k \in DOMAIN queue : \A n \in 1..Len(sent) :
        IsJob(j, n) /\ IsJob(k, n) => j = k \/ n \in evicted

(* "Never lose the ack": an event that was answered "accepted" is being    *)
(* routed, is in the queue (as a job or as a route_error), needs no job, or*)
(* repeats the transition of one that is -- unless a crash cut it off, or  *)
(* the one it repeats, or a second I/O error meets the report of the first *)
(* (do_POST, _route, enqueue).                                             *)
Handling(n) == \E t \in Threads : req[t] = n /\ pc[t] \in {"route", "enqueue", "error"}
Queued(n) == \E k \in DOMAIN queue : queue[k].delivery = n
Repeats(n, m) ==
    n \in suppressed /\ sent[m].issue = sent[n].issue /\ sent[m].state = sent[n].state

AckNotLost ==
    \A n \in acked : faults <= 1 /\ sent[n].tagged =>
        \/ Handling(n) \/ Queued(n) \/ n \in cut
        \/ sent[n].kind \in IssueKinds /\ NotDispatchable(sent[n])
        \/ \E m \in DOMAIN sent : Repeats(n, m) /\ (Handling(m) \/ Queued(m) \/ m \in cut)
================================================================================
