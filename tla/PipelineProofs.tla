----------------------------- MODULE PipelineProofs -----------------------------
(***************************************************************************)
(* Proofs about WebhookReceiver, and about Pipeline, which puts the        *)
(* consumer behind it: for any number of handler threads, work items,      *)
(* deliveries, crashes and I/O errors.                                     *)
(***************************************************************************)
EXTENDS Pipeline, FiniteSetTheorems, TLAPS

(* TypeOK in five parts.                                                   *)
Numbers == 1 .. Len(sent)

PlaneOK ==
    /\ board \in [Issues -> States \cup {None}]
    /\ sent \in Seq(Events) /\ Len(sent) <= MaxEvents
    /\ posts \in Nat

TableOK(s) == s \in Seq(Numbers) /\ Len(s) <= SeenCap

TablesOK ==
    /\ TableOK(seen) /\ TableOK(seenFile)
    /\ dispatched \in [Issues -> States \cup {None}]
    /\ dispatchedFile \in [Issues -> States \cup {None}]

QueueOK == queue \in Seq(Lines)

ThreadsOK ==
    /\ pc \in [Threads -> {"idle", "post", "parse", "route", "enqueue", "error"}]
    /\ req \in [Threads -> 0 .. Len(sent)]
    /\ \A t \in Threads : pc[t] # "idle" => req[t] # 0

HistOK ==
    /\ acked \subseteq Numbers /\ suppressed \subseteq Numbers
    /\ evicted \subseteq Numbers /\ cut \subseteq Numbers
    /\ crashes \in Nat /\ faults \in Nat

LEMMA TypeParts == TypeOK <=> PlaneOK /\ TablesOK /\ QueueOK /\ ThreadsOK /\ HistOK
BY DEF TypeOK, PlaneOK, TableOK, TablesOK, QueueOK, ThreadsOK, HistOK, Numbers

LEMMA TypePartsNext == TypeOK' <=> PlaneOK' /\ TablesOK' /\ QueueOK' /\ ThreadsOK' /\ HistOK'
BY DEF TypeOK, PlaneOK, TableOK, TablesOK, QueueOK, ThreadsOK, HistOK, Numbers

(* What Plane sends: the events of an issue carry its state, and only the  *)
(* last kind of event comes without the delivery header.                   *)
EventInv ==
    \A n \in DOMAIN sent :
        sent[n].state \in States /\ (sent[n].tagged <=> sent[n].kind # "event")

(* What gets past the answer parses, and past _route has a role.           *)
RouteInv ==
    \A t \in Threads :
        /\ pc[t] \in {"route", "enqueue"} => sent[req[t]].kind # "badjson"
        /\ pc[t] = "enqueue" /\ sent[req[t]].kind \in IssueKinds =>
              sent[req[t]].state \in DispatchStates

TypeInv == TypeOK /\ EventInv /\ RouteInv
--------------------------------------------------------------------------------
(* A number stands for the event a thread handles.                         *)
LEMMA Handled ==
    ASSUME TypeOK, NEW t \in Threads, pc[t] # "idle"
    PROVE  /\ req[t] \in DOMAIN sent /\ sent[req[t]] \in Events
           /\ Header(req[t]) \in Nat
           /\ Header(req[t]) # 0 => Header(req[t]) = req[t] /\ sent[req[t]].tagged
           /\ sent[req[t]].tagged => Header(req[t]) = req[t]
<1>1. req[t] \in DOMAIN sent /\ req[t] \in Nat
  BY DEF TypeOK
<1>2. sent[req[t]] \in Events
  BY <1>1 DEF TypeOK
<1> QED
  BY <1>1, <1>2 DEF Header

LEMMA Appended ==
    ASSUME NEW S, NEW s \in Seq(S), NEW e \in S
    PROVE  /\ Append(s, e) \in Seq(S)
           /\ Len(Append(s, e)) = Len(s) + 1 /\ Append(s, e)[Len(s) + 1] = e
           /\ DOMAIN Append(s, e) = DOMAIN s \cup {Len(s) + 1}
           /\ Len(s) + 1 \notin DOMAIN s
           /\ \A i \in DOMAIN s : Append(s, e)[i] = s[i]
OBVIOUS

LEMMA BrokenLine ==
    ASSUME NEW k \in {"partial", "garbled", "route_error"}
    PROVE  Broken(k) \in Lines /\ Broken(k).kind = k /\ Broken(k).delivery = 0
BY DEF Broken, Lines, LineKinds

(* A line of the queue stays what it is, unless it was torn and is glued.  *)
Kept(q, r) ==
    \A k \in DOMAIN q : k \in DOMAIN r /\ (r[k] = q[k] \/ (q[k].kind = "partial" /\ k = Len(q)))

(* The lines after an append: those there were, a glued one, the new one.  *)
LEMMA AppendLineFacts ==
    ASSUME NEW q \in Seq(Lines), NEW line \in Lines, line.kind # "partial"
    PROVE  /\ AppendLine(q, line) \in Seq(Lines) /\ Kept(q, AppendLine(q, line))
           /\ \A k \in DOMAIN AppendLine(q, line) :
                 \/ k \in DOMAIN q /\ AppendLine(q, line)[k] = q[k]
                 \/ AppendLine(q, line)[k] = Broken("garbled")
                 \/ k = Len(q) + 1 /\ k \notin DOMAIN q /\ AppendLine(q, line)[k] = line
           /\ \/ IsPartial(q) /\ AppendLine(q, line) # q
              \/ /\ ~IsPartial(q) /\ Len(q) + 1 \in DOMAIN AppendLine(q, line)
                 /\ AppendLine(q, line)[Len(q) + 1] = line
<1>1. CASE IsPartial(q)
  <2>1. AppendLine(q, line) = [q EXCEPT ![Len(q)] = Broken("garbled")]
    BY <1>1 DEF AppendLine
  <2>2. Len(q) \in DOMAIN q /\ q[Len(q)].kind = "partial"
    BY <1>1 DEF IsPartial
  <2> QED
    BY <1>1, <2>1, <2>2, BrokenLine DEF Kept
<1>2. CASE ~IsPartial(q)
  <2>1. AppendLine(q, line) = Append(q, line)
    BY <1>2 DEF AppendLine
  <2> QED
    BY <1>2, <2>1, Appended DEF Kept
<1> QED
  BY <1>1, <1>2

LEMMA TearLineFacts ==
    ASSUME NEW q \in Seq(Lines)
    PROVE  /\ TearLine(q) \in Seq(Lines) /\ Kept(q, TearLine(q))
           /\ \A k \in DOMAIN TearLine(q) :
                 \/ k \in DOMAIN q /\ TearLine(q)[k] = q[k]
                 \/ TearLine(q)[k] = Broken("partial")
<1>1. CASE IsPartial(q)
  BY <1>1 DEF TearLine, Kept
<1>2. CASE ~IsPartial(q)
  BY <1>2, Appended, BrokenLine DEF TearLine, Kept
<1> QED
  BY <1>1, <1>2

(* What a thread at the queue writes is a line.                            *)
LEMMA LineWritten ==
    ASSUME TypeInv, NEW t \in Threads, pc[t] \in {"enqueue", "error"}
    PROVE  /\ pc[t] = "enqueue" => JobLine(req[t]) \in Lines
           /\ JobLine(req[t]).kind \notin {"partial", "garbled", "route_error"}
           /\ JobLine(req[t]).delivery = Header(req[t])
           /\ ErrorLine(req[t]) \in Lines /\ ErrorLine(req[t]).kind = "route_error"
           /\ ErrorLine(req[t]).delivery = Header(req[t])
<1>1. /\ req[t] \in DOMAIN sent /\ sent[req[t]] \in Events /\ Header(req[t]) \in Nat
  BY Handled DEF TypeInv
<1> QED
  BY <1>1 DEF TypeInv, RouteInv, JobLine, ErrorLine, Broken, Lines, LineKinds, Events, Kinds,
              IssueKinds, DispatchOnState, DispatchStates

(* Plane adds one event, and the board goes to the state it carries.       *)
restVars == <<memVars, diskVars, pc, req, histVars, crashes, faults>>

LEMMA PlaneStep ==
    ASSUME TypeInv, Plane
    PROVE  \E e \in Events :
              /\ sent' = Append(sent, e) /\ Len(sent) < MaxEvents
              /\ e.state \in States /\ (e.tagged <=> e.kind # "event")
              /\ e.issue \in Issues /\ board' = [board EXCEPT ![e.issue] = e.state]
              /\ UNCHANGED <<posts, restVars>>
<1>0. board \in [Issues -> States \cup {None}]
  BY DEF TypeInv, TypeOK
<1>1. ASSUME NEW k \in Kinds, NEW i \in Issues, NEW s \in States, NEW g \in BOOLEAN,
             Produce(k, i, s, g), g <=> k # "event", board' = [board EXCEPT ![i] = s]
      PROVE  \E e \in Events :
                /\ sent' = Append(sent, e) /\ Len(sent) < MaxEvents
                /\ e.state \in States /\ (e.tagged <=> e.kind # "event")
                /\ e.issue \in Issues /\ board' = [board EXCEPT ![e.issue] = e.state]
                /\ UNCHANGED <<posts, restVars>>
  <2> DEFINE e == [kind |-> k, issue |-> i, state |-> s, tagged |-> g]
  <2>1. e \in Events
    BY DEF Events
  <2>2. sent' = Append(sent, e) /\ Len(sent) < MaxEvents /\ UNCHANGED <<posts, restVars>>
    BY <1>1 DEF Produce, restVars
  <2> QED
    BY <1>1, <2>1, <2>2
<1>2. ASSUME NEW i \in Issues, NEW s \in States, Create(i, s)
      PROVE  Produce("created", i, s, TRUE) /\ board' = [board EXCEPT ![i] = s]
  BY <1>2 DEF Create
<1>3. ASSUME NEW i \in Issues, NEW s \in States, Move(i, s)
      PROVE  /\ board' = [board EXCEPT ![i] = s]
             /\ Produce("state", i, s, TRUE) \/ Produce("plain", i, s, TRUE)
  BY <1>3 DEF Move
<1>4. ASSUME NEW i \in Issues, Edit(i)
      PROVE  /\ board[i] \in States /\ board' = [board EXCEPT ![i] = board[i]]
             /\ \/ Produce("edit", i, board[i], TRUE) \/ Produce("plain", i, board[i], TRUE)
                \/ Produce("comment", i, board[i], TRUE) \/ Produce("badjson", i, board[i], TRUE)
                \/ Produce("event", i, board[i], FALSE)
  BY <1>0, <1>4 DEF Edit
<1>5. {"created", "state", "plain", "edit", "comment", "badjson", "event"} \subseteq Kinds
  BY DEF Kinds, IssueKinds
<1>6. PICK i \in Issues : Edit(i) \/ \E s \in States : Create(i, s) \/ Move(i, s)
  BY DEF Plane
<1>7. CASE Edit(i)
  BY <1>1, <1>4, <1>5, <1>7
<1>8. ASSUME NEW s \in States, Create(i, s) \/ Move(i, s)
      PROVE  \E e \in Events :
                /\ sent' = Append(sent, e) /\ Len(sent) < MaxEvents
                /\ e.state \in States /\ (e.tagged <=> e.kind # "event")
                /\ e.issue \in Issues /\ board' = [board EXCEPT ![e.issue] = e.state]
                /\ UNCHANGED <<posts, restVars>>
  <2>1. CASE Create(i, s)
    <3>1. Produce("created", i, s, TRUE) /\ board' = [board EXCEPT ![i] = s]
      BY <1>2, <2>1
    <3>2. "created" \in Kinds /\ TRUE \in BOOLEAN /\ (TRUE <=> "created" # "event")
      BY <1>5
    <3> QED
      BY <1>1, <3>1, <3>2, Zenon
  <2>2. CASE Move(i, s)
    <3>1. /\ board' = [board EXCEPT ![i] = s]
          /\ Produce("state", i, s, TRUE) \/ Produce("plain", i, s, TRUE)
      BY <1>3, <2>2
    <3>2. /\ "state" \in Kinds /\ "plain" \in Kinds /\ TRUE \in BOOLEAN
          /\ (TRUE <=> "state" # "event") /\ (TRUE <=> "plain" # "event")
      BY <1>5
    <3> QED
      BY <1>1, <3>1, <3>2, Zenon
  <2> QED
    BY <1>8, <2>1, <2>2
<1> QED
  BY <1>6, <1>7, <1>8

(* An event Plane has produced stays what it is.                           *)
LEMMA SentStays ==
    ASSUME TypeInv, [Next]_vars
    PROVE  /\ Numbers \subseteq Numbers' /\ DOMAIN sent = Numbers
           /\ \A n \in DOMAIN sent : n \in DOMAIN sent' /\ sent'[n] = sent[n]
           /\ ~Plane => UNCHANGED <<board, sent>>
<1>0. sent \in Seq(Events)
  BY DEF TypeInv, TypeOK
<1>1. CASE Plane
  BY <1>0, <1>1, PlaneStep, Appended DEF Numbers
<1>2. CASE ~Plane
  <2>1. UNCHANGED <<board, sent>>
    BY <1>2 DEF Next, ThreadStep, Receive, CheckSeen, Ack, Route, Enqueue, RouteError, Write,
                CrashRestart, vars, planeVars
  <2> QED
    BY <1>0, <2>1 DEF Numbers
<1> QED
  BY <1>1, <1>2

LEMMA TypeInit == Init => TypeInv
<1> SUFFICES ASSUME Init PROVE TypeInv
  OBVIOUS
<1>1. PlaneOK /\ HistOK
  BY ReceiverConstants DEF Init, PlaneOK, HistOK
<1>2. TablesOK /\ QueueOK
  BY ReceiverConstants DEF Init, TablesOK, TableOK, QueueOK
<1>3. ThreadsOK
  BY DEF Init, ThreadsOK
<1>4. EventInv /\ RouteInv
  BY DEF Init, EventInv, RouteInv
<1> QED
  BY <1>1, <1>2, <1>3, <1>4, TypeParts DEF TypeInv

(* The dedup table keeps within its cap, and what it drops is evicted.     *)
LEMMA Remembered ==
    ASSUME TypeInv, NEW t \in Threads, pc[t] = "post", Remember(t)
    PROVE  /\ TableOK(seen') /\ evicted' \subseteq Numbers /\ evicted \subseteq evicted'
           /\ Header(req[t]) = req[t] /\ req[t] \notin Elems(seen)
           /\ \A n \in Elems(seen) \cup {req[t]} : n \in Elems(seen') \cup evicted'
<1> DEFINE n == req[t]
           added == Append(seen, n)
<1>1. Header(n) = n /\ n \in Numbers
  BY Handled DEF TypeInv, TypeOK, Remember, Numbers
<1>2. /\ seen \in Seq(Numbers) /\ Len(seen) <= SeenCap /\ SeenCap \in Nat \ {0}
      /\ evicted \subseteq Numbers
  BY ReceiverConstants, TypeParts DEF TypeInv, TablesOK, TableOK, HistOK
<1>3. seen' = Trim(added) /\ evicted' = evicted \cup (Elems(added) \ Elems(seen'))
  BY <1>1 DEF Remember
<1>4. added \in Seq(Numbers) /\ Len(added) = Len(seen) + 1
  BY <1>1, <1>2, Appended
<1>5. Elems(added) = Elems(seen) \cup {n} /\ Elems(added) \subseteq Numbers
  <2>1. /\ DOMAIN added = DOMAIN seen \cup {Len(seen) + 1} /\ added[Len(seen) + 1] = n
        /\ \A i \in DOMAIN seen : added[i] = seen[i]
    BY <1>1, <1>2, Appended
  <2> HIDE DEF added
  <2>2. Elems(added) = Elems(seen) \cup {n}
    BY <2>1 DEF Elems
  <2>3. \A i \in DOMAIN added : added[i] \in Numbers
    BY <1>4
  <2> QED
    BY <2>2, <2>3 DEF Elems
<1> HIDE DEF added, n
<1>6. Trim(added) \in Seq(Numbers) /\ Len(Trim(added)) <= SeenCap
  BY <1>2, <1>4 DEF Trim
<1>7. n \notin Elems(seen)
  BY <1>1 DEF Remember, n
<1> QED
  BY <1>1, <1>2, <1>3, <1>5, <1>6, <1>7 DEF n, TableOK

(* Enqueue and RouteError: the line is in the file, or glued, or not there.*)
Writes(t, line) ==
    /\ line \in Lines /\ line.kind \notin {"partial", "garbled"}
    /\ line.delivery = Header(req[t])
    /\ pc[t] = "error" => line.kind = "route_error"
    /\ pc[t] = "enqueue" => line = JobLine(req[t]) /\ line.kind # "route_error"
    /\ queue' \in {queue, AppendLine(queue, line)}
    /\ \/ queue' = AppendLine(queue, line) /\ Goto(t, "idle") /\ UNCHANGED faults
       \/ /\ pc[t] = "enqueue" /\ Goto(t, "error") /\ faults' = faults + 1
       \/ /\ pc[t] = "error" /\ Goto(t, "idle") /\ faults' = faults + 1
    /\ cut' = IF IsPartial(queue) /\ queue' # queue THEN cut \cup {req[t]} ELSE cut
    /\ UNCHANGED <<planeVars, memVars, seenFile, dispatchedFile, req, acked, suppressed,
                   evicted, crashes>>

LEMMA WriteStep ==
    ASSUME TypeInv, NEW t \in Threads, Enqueue(t) \/ RouteError(t)
    PROVE  pc[t] \in {"enqueue", "error"} /\ \E line : Writes(t, line)
<1>1. CASE Enqueue(t)
  <2>1. pc[t] = "enqueue" /\ Write(t, JobLine(req[t]), "error")
    BY <1>1 DEF Enqueue
  <2>2. Writes(t, JobLine(req[t]))
    BY <2>1, LineWritten DEF Write, Fault, Writes
  <2> QED
    BY <2>1, <2>2
<1>2. CASE RouteError(t)
  <2>1. pc[t] = "error" /\ Write(t, ErrorLine(req[t]), "idle")
    BY <1>2 DEF RouteError
  <2>2. Writes(t, ErrorLine(req[t]))
    BY <2>1, LineWritten DEF Write, Fault, Writes
  <2> QED
    BY <2>1, <2>2
<1> QED
  BY <1>1, <1>2

LEMMA ThreadsStay ==
    ASSUME ThreadsOK, NEW t \in Threads, UNCHANGED <<sent, req>>,
           NEW l \in {"idle", "post", "parse", "route", "enqueue", "error"}, Goto(t, l),
           l # "idle" => pc[t] # "idle"
    PROVE  ThreadsOK'
BY DEF ThreadsOK, Goto

LEMMA TypeStep == TypeInv /\ [Next]_vars => TypeInv'
<1> SUFFICES ASSUME TypeInv, [Next]_vars
             PROVE  /\ PlaneOK' /\ TablesOK' /\ QueueOK' /\ ThreadsOK' /\ HistOK'
                    /\ EventInv' /\ RouteInv'
  BY TypePartsNext DEF TypeInv
<1>0. /\ PlaneOK /\ TablesOK /\ QueueOK /\ ThreadsOK /\ HistOK /\ EventInv /\ RouteInv
      /\ sent \in Seq(Events)
  BY TypeParts DEF TypeInv, TypeOK
<1>n. sent' = sent => Numbers' = Numbers /\ (EventInv' <=> EventInv)
  BY DEF Numbers, EventInv
<1>1. CASE Plane
  <2>1. PICK e \in Events :
              /\ sent' = Append(sent, e) /\ Len(sent) < MaxEvents
              /\ e.state \in States /\ (e.tagged <=> e.kind # "event")
              /\ e.issue \in Issues /\ board' = [board EXCEPT ![e.issue] = e.state]
              /\ UNCHANGED <<posts, restVars>>
    BY <1>1, PlaneStep
  <2>2. /\ Numbers \subseteq Numbers' /\ DOMAIN sent = Numbers
        /\ \A n \in DOMAIN sent : n \in DOMAIN sent' /\ sent'[n] = sent[n]
    BY SentStays
  <2>3. /\ DOMAIN sent' = DOMAIN sent \cup {Len(sent) + 1} /\ sent'[Len(sent) + 1] = e
        /\ Len(sent') = Len(sent) + 1 /\ sent' \in Seq(Events)
    BY <1>0, <2>1, Appended
  <2>4. PlaneOK'
    BY <1>0, <2>1, <2>3, ReceiverConstants DEF PlaneOK
  <2>5. EventInv'
    BY <1>0, <2>1, <2>2, <2>3 DEF EventInv
  <2>6. ThreadsOK' /\ RouteInv'
    <3>1. \A t \in Threads : pc[t] # "idle" => sent'[req[t]] = sent[req[t]]
      BY <1>0, <2>2, Handled DEF TypeInv
    <3> QED
      BY <1>0, <2>1, <2>3, <3>1 DEF ThreadsOK, RouteInv, restVars
  <2>7. TablesOK'
    BY <1>0, <2>1, <2>2 DEF TablesOK, TableOK, restVars, memVars, diskVars
  <2>8. HistOK' /\ QueueOK'
    BY <1>0, <2>1, <2>2 DEF HistOK, QueueOK, restVars, histVars, diskVars
  <2> QED
    BY <2>4, <2>5, <2>6, <2>7, <2>8
<1>2. ASSUME NEW t \in Threads, NEW n \in 1 .. Len(sent), Receive(t, n)
      PROVE  /\ PlaneOK' /\ TablesOK' /\ QueueOK' /\ ThreadsOK' /\ HistOK'
             /\ EventInv' /\ RouteInv'
  BY <1>0, <1>2, <1>n DEF Receive, Goto, PlaneOK, TablesOK, TableOK, QueueOK, ThreadsOK, HistOK,
     RouteInv, memVars, diskVars, histVars, Numbers
<1>3. ASSUME NEW t \in Threads, CheckSeen(t)
      PROVE  /\ PlaneOK' /\ TablesOK' /\ QueueOK' /\ ThreadsOK' /\ HistOK'
             /\ EventInv' /\ RouteInv'
  <2>0. /\ pc[t] = "post"
        /\ UNCHANGED <<planeVars, dispatched, dispatchedFile, queue, req, acked, suppressed,
                       cut, crashes>>
    BY <1>3 DEF CheckSeen
  <2>1. PlaneOK' /\ QueueOK' /\ EventInv' /\ Numbers' = Numbers
    BY <1>0, <2>0, <1>n DEF PlaneOK, QueueOK, planeVars
  <2>2. Goto(t, "idle") \/ Goto(t, "parse")
    BY <1>3 DEF CheckSeen, Duplicate, Untagged
  <2>3. ThreadsOK' /\ RouteInv'
    BY <1>0, <2>0, <2>2 DEF ThreadsOK, Goto, RouteInv, planeVars
  <2>4. faults' \in Nat
    BY <1>0, <1>3 DEF CheckSeen, Duplicate, Untagged, Fault, HistOK
  <2>5. CASE UNCHANGED <<seen, evicted, seenFile>>
    BY <1>0, <2>0, <2>1, <2>3, <2>4, <2>5 DEF TablesOK, TableOK, HistOK
  <2>6. CASE Remember(t) /\ seenFile' \in {seen', seenFile}
    <3>1. TableOK(seen') /\ evicted' \subseteq Numbers
      BY <2>0, <2>6, Remembered
    <3> QED
      BY <1>0, <2>0, <2>1, <2>3, <2>4, <2>6, <3>1 DEF TablesOK, TableOK, HistOK
  <2> QED
    BY <1>3, <2>1, <2>3, <2>5, <2>6 DEF CheckSeen, Duplicate, Untagged
<1>4. ASSUME NEW t \in Threads, Ack(t)
      PROVE  /\ PlaneOK' /\ TablesOK' /\ QueueOK' /\ ThreadsOK' /\ HistOK'
             /\ EventInv' /\ RouteInv'
  <2>0. /\ pc[t] = "parse" /\ req[t] \in Numbers
        /\ UNCHANGED <<planeVars, memVars, diskVars, req, suppressed, evicted, cut, crashes>>
    BY <1>0, <1>4, Handled DEF Ack, TypeInv, Numbers
  <2>1. PlaneOK' /\ QueueOK' /\ TablesOK' /\ EventInv' /\ Numbers' = Numbers
    BY <1>0, <2>0, <1>n DEF PlaneOK, QueueOK, TablesOK, TableOK, planeVars, memVars, diskVars
  <2>2. ThreadsOK' /\ RouteInv'
    BY <1>0, <1>4, <2>0 DEF Ack, ThreadsOK, Goto, RouteInv, planeVars
  <2>3. HistOK'
    BY <1>0, <1>4, <2>0, <2>1 DEF Ack, HistOK, Fault
  <2> QED
    BY <2>1, <2>2, <2>3
<1>5. ASSUME NEW t \in Threads, Route(t)
      PROVE  /\ PlaneOK' /\ TablesOK' /\ QueueOK' /\ ThreadsOK' /\ HistOK'
             /\ EventInv' /\ RouteInv'
  <2>0. /\ pc[t] = "route" /\ req[t] \in Numbers /\ sent[req[t]] \in Events
        /\ UNCHANGED <<planeVars, seen, seenFile, queue, req, acked, evicted, cut, crashes>>
    BY <1>0, <1>5, Handled DEF Route, TypeInv, Numbers
  <2>1. PlaneOK' /\ QueueOK' /\ EventInv' /\ Numbers' = Numbers
    BY <1>0, <2>0, <1>n DEF PlaneOK, QueueOK, planeVars
  <2>2. /\ Goto(t, "idle") \/ Goto(t, "enqueue") \/ Goto(t, "error")
        /\ Goto(t, "enqueue") /\ sent[req[t]].kind \in IssueKinds =>
              sent[req[t]].state \in DispatchStates
    BY <1>0, <1>5, <2>0 DEF Route, NotDispatchable, Goto, ThreadsOK
  <2>3. ThreadsOK'
    BY <1>0, <2>0, <2>2, ThreadsStay DEF planeVars
  <2>4. RouteInv'
    BY <1>0, <2>0, <2>2 DEF RouteInv, Goto, ThreadsOK, planeVars
  <2>5. /\ dispatched' = dispatched \/ dispatched' =
              [dispatched EXCEPT ![sent[req[t]].issue] = sent[req[t]].state]
        /\ dispatchedFile' \in {dispatchedFile, dispatched'}
        /\ suppressed' \subseteq suppressed \cup {req[t]} /\ faults' \in {faults, faults + 1}
    BY <1>5 DEF Route, Fault
  <2>6. TablesOK'
    BY <1>0, <2>0, <2>1, <2>5 DEF TablesOK, TableOK, Events
  <2>7. HistOK'
    BY <1>0, <2>0, <2>1, <2>5 DEF HistOK
  <2> QED
    BY <2>1, <2>3, <2>4, <2>6, <2>7
<1>6. ASSUME NEW t \in Threads, Enqueue(t) \/ RouteError(t)
      PROVE  /\ PlaneOK' /\ TablesOK' /\ QueueOK' /\ ThreadsOK' /\ HistOK'
             /\ EventInv' /\ RouteInv'
  <2>0. pc[t] \in {"enqueue", "error"} /\ req[t] \in Numbers
    BY <1>6, WriteStep, Handled DEF TypeInv, Numbers
  <2>1. PICK line : Writes(t, line)
    BY <1>6, WriteStep
  <2>2. PlaneOK' /\ EventInv' /\ Numbers' = Numbers /\ TablesOK'
    BY <1>0, <2>1, <1>n DEF Writes, PlaneOK, planeVars, TablesOK, TableOK, memVars
  <2>3. QueueOK'
    BY <1>0, <2>1, AppendLineFacts DEF Writes, QueueOK
  <2>4. ThreadsOK' /\ RouteInv'
    BY <1>0, <2>0, <2>1 DEF Writes, ThreadsOK, RouteInv, Goto, planeVars
  <2>5. HistOK'
    BY <1>0, <2>0, <2>1, <2>2 DEF Writes, HistOK
  <2> QED
    BY <2>2, <2>3, <2>4, <2>5
<1>7. CASE CrashRestart
  <2>1. PlaneOK' /\ EventInv' /\ Numbers' = Numbers /\ TablesOK'
    BY <1>0, <1>7, <1>n DEF CrashRestart, PlaneOK, planeVars, TablesOK, TableOK
  <2>2. QueueOK'
    BY <1>0, <1>7, TearLineFacts DEF CrashRestart, QueueOK
  <2>3. ThreadsOK' /\ RouteInv'
    BY <1>0, <1>7 DEF CrashRestart, ThreadsOK, RouteInv, planeVars
  <2>4. {req[t] : t \in {u \in Threads : pc[u] # "idle"}} \subseteq Numbers
    BY <1>0, Handled DEF TypeInv, Numbers
  <2>5. HistOK'
    BY <1>0, <1>7, <2>1, <2>4 DEF CrashRestart, HistOK
  <2> QED
    BY <2>1, <2>2, <2>3, <2>5
<1>8. CASE UNCHANGED vars
  BY <1>0, <1>8, <1>n DEF vars, planeVars, memVars, diskVars, histVars, PlaneOK, TablesOK,
     TableOK, QueueOK, ThreadsOK, HistOK, RouteInv
<1> QED
  BY <1>1, <1>2, <1>3, <1>4, <1>5, <1>6, <1>7, <1>8 DEF Next, ThreadStep

LEMMA TypeHolds == Spec => []TypeInv
BY TypeInit, TypeStep, PTL DEF Spec

(* The receiver's variables keep their ranges and the dedup table its cap, *)
(* whatever is delivered and wherever the process dies.                    *)
THEOREM ReceiverTypeCorrect == Spec => []TypeOK
<1>1. TypeInv => TypeOK
  BY DEF TypeInv
<1> QED
  BY <1>1, TypeHolds, PTL

--------------------------------------------------------------------------------
(* What the lines of the queue say of the events they are for.             *)
LineInv ==
    \A k \in DOMAIN queue :
        LET l == queue[k] IN
        /\ l.kind \in {"partial", "garbled"} => l.delivery = 0
        /\ l.delivery # 0 => l.delivery \in DOMAIN sent /\ sent[l.delivery].tagged
        /\ l.kind = "agent_dispatch" =>
              /\ l.delivery # 0
              /\ l.issue = sent[l.delivery].issue /\ l.state = sent[l.delivery].state

(* A delivery that is being handled, or has its job, is remembered, in     *)
(* memory and in the file, unless it was evicted; and one thread handles   *)
(* it, or it has one job.                                                  *)
Working(t, n) == req[t] = n /\ pc[t] \in {"parse", "route", "enqueue"}

JobInv ==
    \A n \in Numbers \ evicted : sent[n].tagged =>
        /\ \A t \in Threads : Working(t, n) =>
              /\ n \in Elems(seen) \cap Elems(seenFile)
              /\ \A u \in Threads : Working(u, n) => u = t
              /\ \A k \in DOMAIN queue : ~IsJob(k, n)
        /\ \A k \in DOMAIN queue : IsJob(k, n) =>
              /\ n \in Elems(seen) \cap Elems(seenFile)
              /\ \A j \in DOMAIN queue : IsJob(j, n) => j = k

(* With at most one I/O error so far: the transition recorded for an issue,*)
(* in memory or in the file, is one whose job is safe; and an accepted     *)
(* event is on its way, safe, not to be dispatched, or repeats a safe one. *)
Safe(n) ==
    \/ \E t \in Threads : req[t] = n /\ pc[t] \in {"enqueue", "error"}
    \/ Queued(n)
    \/ n \in cut

SafeMove(i, s) ==
    \E m \in DOMAIN sent : sent[m].issue = i /\ sent[m].state = s /\ sent[m].tagged /\ Safe(m)

Accounted(n) ==
    \/ \E t \in Threads : req[t] = n /\ pc[t] = "route"
    \/ Safe(n)
    \/ sent[n].kind \in IssueKinds /\ NotDispatchable(sent[n])
    \/ n \in suppressed /\ SafeMove(sent[n].issue, sent[n].state)

ErrorsCounted == \A t \in Threads : pc[t] = "error" => faults >= 1

AckInv ==
    /\ ErrorsCounted
    /\ faults <= 1 =>
          /\ \A i \in Issues : \A s \in {dispatched[i], dispatchedFile[i]} :
                s # None => SafeMove(i, s)
          /\ \A n \in acked : sent[n].tagged => Accounted(n)

BoardInv ==
    \A n \in DOMAIN sent :
        \/ board[sent[n].issue] = sent[n].state
        \/ \E m \in DOMAIN sent : /\ m > n /\ sent[m].issue = sent[n].issue
                                  /\ sent[m].state # sent[n].state

(* The consumer works on the line behind its offset; a job has one run for *)
(* each death that followed one, and one more when it is settled or about  *)
(* to be.                                                                  *)
RunsOf(k) == {n \in DOMAIN runs : runs[n] = k}

DrainInv ==
    /\ offset \in Nat /\ offset <= complete_lines /\ runs \in Seq(DOMAIN queue)
    /\ deaths \in Nat
    /\ drain \in [at : {"idle", "line", "ran"}, line : Nat, complete : Nat]
    /\ drain # Idle =>
          /\ drain.at \in {"line", "ran"} /\ drain.line = offset + 1
          /\ drain.complete \in Nat
          /\ drain.line <= drain.complete /\ drain.complete <= complete_lines
    /\ drain.at = "ran" => RunsOf(drain.line) # {}

RunsInv ==
    /\ \A n \in DOMAIN runs : queue[runs[n]].kind = "agent_dispatch"
    /\ \A k \in DOMAIN queue :
          Cardinality(RunsOf(k)) <=
              deaths + (IF k <= offset \/ (drain.at = "ran" /\ drain.line = k) THEN 1 ELSE 0)

--------------------------------------------------------------------------------
(* How a step of the receiver changes the queue: lines stay, and a new one *)
(* is broken or written by a thread for the event it handles.              *)
Fresh(t, line) ==
    /\ pc[t] \in {"enqueue", "error"} /\ pc'[t] \in {"idle", "error"}
    /\ line.delivery = Header(req[t])
    /\ pc[t] = "error" => line.kind = "route_error"
    /\ pc[t] = "enqueue" => line = JobLine(req[t])
    /\ line.kind \notin {"partial", "garbled"}

LEMMA QueueStep ==
    ASSUME TypeInv, [Next]_vars
    PROVE  /\ queue' \in Seq(Lines) /\ Kept(queue, queue')
           /\ \A k \in DOMAIN queue' :
                 \/ k \in DOMAIN queue /\ queue'[k] = queue[k]
                 \/ queue'[k] \in {Broken("partial"), Broken("garbled")}
                 \/ /\ k = Len(queue) + 1 /\ k \notin DOMAIN queue
                    /\ \E t \in Threads : Fresh(t, queue'[k])
<1>0. queue \in Seq(Lines) /\ pc \in [Threads -> {"idle", "post", "parse", "route", "enqueue", "error"}]
  BY DEF TypeInv, TypeOK
<1>1. CASE UNCHANGED queue
  BY <1>0, <1>1 DEF Kept
<1>2. ASSUME NEW t \in Threads, Enqueue(t) \/ RouteError(t)
      PROVE  /\ queue' \in Seq(Lines) /\ Kept(queue, queue')
             /\ \A k \in DOMAIN queue' :
                   \/ k \in DOMAIN queue /\ queue'[k] = queue[k]
                   \/ queue'[k] \in {Broken("partial"), Broken("garbled")}
                   \/ /\ k = Len(queue) + 1 /\ k \notin DOMAIN queue
                      /\ \E u \in Threads : Fresh(u, queue'[k])
  <2>1. PICK line : Writes(t, line) /\ pc[t] \in {"enqueue", "error"}
    BY <1>2, WriteStep
  <2>2. Fresh(t, line)
    BY <1>0, <2>1 DEF Writes, Fresh, Goto
  <2>3. CASE queue' = AppendLine(queue, line)
    BY <1>0, <2>1, <2>2, <2>3, AppendLineFacts DEF Writes
  <2> QED
    BY <1>1, <2>1, <2>3 DEF Writes
<1>3. CASE CrashRestart
  <2>1. queue' \in {queue, TearLine(queue)}
    BY <1>3 DEF CrashRestart
  <2> QED
    BY <1>0, <1>1, <2>1, TearLineFacts
<1>4. ASSUME NEW t \in Threads, CheckSeen(t) \/ Ack(t) \/ Route(t) PROVE UNCHANGED queue
  BY <1>4 DEF CheckSeen, Ack, Route, diskVars
<1>5. ASSUME NEW t \in Threads, NEW n \in 1 .. Len(sent), Receive(t, n) PROVE UNCHANGED queue
  BY <1>5 DEF Receive, diskVars
<1>6. CASE Plane
  BY <1>1, <1>6, PlaneStep DEF restVars, diskVars
<1> QED
  BY <1>1, <1>2, <1>3, <1>4, <1>5, <1>6 DEF Next, ThreadStep, vars, diskVars

LEMMA LineInit == Init => LineInv
BY DEF Init, LineInv

LEMMA LineStep == TypeInv /\ LineInv /\ [Next]_vars => LineInv'
<1> SUFFICES ASSUME TypeInv, LineInv, [Next]_vars, NEW k \in DOMAIN queue'
             PROVE  /\ queue'[k].kind \in {"partial", "garbled"} => queue'[k].delivery = 0
                    /\ queue'[k].delivery # 0 =>
                          /\ queue'[k].delivery \in DOMAIN sent'
                          /\ sent'[queue'[k].delivery].tagged
                    /\ queue'[k].kind = "agent_dispatch" =>
                          /\ queue'[k].delivery # 0
                          /\ queue'[k].issue = sent'[queue'[k].delivery].issue
                          /\ queue'[k].state = sent'[queue'[k].delivery].state
  BY DEF LineInv
<1>1. CASE k \in DOMAIN queue /\ queue'[k] = queue[k]
  <2>1. queue[k].delivery # 0 => /\ queue[k].delivery \in DOMAIN sent
                                 /\ queue[k].delivery \in DOMAIN sent'
                                 /\ sent'[queue[k].delivery] = sent[queue[k].delivery]
    BY <1>1, SentStays DEF LineInv
  <2> QED
    BY <1>1, <2>1 DEF LineInv
<1>2. CASE queue'[k] \in {Broken("partial"), Broken("garbled")}
  BY <1>2, BrokenLine
<1>3. ASSUME NEW t \in Threads, Fresh(t, queue'[k])
      PROVE  /\ queue'[k].kind \notin {"partial", "garbled"}
             /\ queue'[k].delivery # 0 =>
                          /\ queue'[k].delivery \in DOMAIN sent'
                          /\ sent'[queue'[k].delivery].tagged
             /\ queue'[k].kind = "agent_dispatch" =>
                          /\ queue'[k].delivery # 0
                          /\ queue'[k].issue = sent'[queue'[k].delivery].issue
                          /\ queue'[k].state = sent'[queue'[k].delivery].state
  <2> DEFINE n == req[t]
  <2>1. /\ n \in DOMAIN sent /\ n \in DOMAIN sent' /\ sent'[n] = sent[n]
        /\ Header(n) # 0 => Header(n) = n /\ sent[n].tagged
        /\ sent[n].tagged => Header(n) = n
        /\ sent[n].tagged <=> sent[n].kind # "event"
        /\ n # 0
    BY <1>3, Handled, SentStays DEF Fresh, TypeInv, TypeOK, EventInv
  <2>2. queue'[k].delivery = Header(n) /\ queue'[k].kind \notin {"partial", "garbled"}
    BY <1>3 DEF Fresh
  <2>3. ASSUME queue'[k].kind = "agent_dispatch" PROVE queue'[k] = JobLine(n)
    BY <1>3, <2>3 DEF Fresh
  <2>4. ASSUME JobLine(n).kind = "agent_dispatch"
        PROVE  /\ sent[n].kind # "event"
               /\ JobLine(n).issue = sent[n].issue /\ JobLine(n).state = sent[n].state
    <3>1. sent[n] \in Events
      BY <1>3, Handled DEF Fresh, TypeInv
    <3>2. sent[n].kind \in IssueKinds
      BY <2>4, <3>1 DEF JobLine, IssueKinds, Events, Kinds
    <3> QED
      BY <3>2 DEF JobLine, IssueKinds
  <2> QED
    BY <2>1, <2>2, <2>3, <2>4
<1> QED
  BY <1>1, <1>2, <1>3, QueueStep

(* A delivery is forgotten only when it is evicted, and a thread gets past *)
(* the dedup section with a delivery that was not known, and now is.       *)
Admits(t, n) ==
    /\ pc[t] = "post" /\ req[t] = n /\ n \notin Elems(seen) /\ n \in Elems(seen')
    /\ seenFile' = seen' /\ UNCHANGED queue
    /\ \A u \in Threads \ {t} : pc'[u] = pc[u]

LEMMA SeenStep ==
    ASSUME TypeInv, [Next]_vars, NEW n \in Numbers, n \notin evicted', sent[n].tagged
    PROVE  /\ n \notin evicted
           /\ n \in Elems(seen) \cap Elems(seenFile) => n \in Elems(seen') \cap Elems(seenFile')
           /\ \A u \in Threads : Working(u, n)' =>
                 Working(u, n) \/ \E t \in Threads : Admits(t, n)
           /\ \A t \in Threads : Admits(t, n) => \A u \in Threads \ {t} : Working(u, n)' => Working(u, n)
<1>0. /\ pc \in [Threads -> {"idle", "post", "parse", "route", "enqueue", "error"}]
      /\ req \in [Threads -> 0 .. Len(sent)]
  BY DEF TypeInv, TypeOK
<1> DEFINE Goal == /\ n \notin evicted
                   /\ n \in Elems(seen) \cap Elems(seenFile) =>
                         n \in Elems(seen') \cap Elems(seenFile')
                   /\ \A u \in Threads : Working(u, n)' =>
                         Working(u, n) \/ \E t \in Threads : Admits(t, n)
(* A step that leaves the tables, and brings no thread past the section.   *)
<1>1. ASSUME UNCHANGED <<seen, seenFile, evicted>>,
             \A u \in Threads : pc'[u] \in {"parse", "route", "enqueue"} =>
                pc[u] \in {"parse", "route", "enqueue"} /\ req'[u] = req[u]
      PROVE  Goal
  BY <1>1 DEF Working
<1>2. ASSUME Plane PROVE Goal
  <2>1. UNCHANGED restVars
    BY <1>2, PlaneStep
  <2> QED
    <3>1. UNCHANGED <<seen, seenFile, evicted>> /\ pc' = pc /\ req' = req
      BY <2>1 DEF restVars, memVars, diskVars, histVars
    <3> QED
      BY <1>1, <3>1, Zenon
<1>3. ASSUME NEW t \in Threads, NEW m \in 1 .. Len(sent), Receive(t, m) PROVE Goal
  BY <1>0, <1>1, <1>3 DEF Receive, Goto, memVars, diskVars, histVars
<1>4. ASSUME NEW t \in Threads, CheckSeen(t) PROVE Goal
  <2>0. pc[t] = "post" /\ UNCHANGED <<queue, req>>
    BY <1>4 DEF CheckSeen
  <2>1. CASE Duplicate(t)
    BY <1>0, <1>1, <2>0, <2>1 DEF Duplicate, Goto
  <2>2. CASE Untagged(t)
    <3>1. req[t] # n
      BY <2>0, <2>2, Handled DEF TypeInv, Untagged, Numbers
    <3> QED
      BY <1>0, <2>0, <2>2, <3>1 DEF Untagged, Goto, Working
  <2>3. CASE Remember(t) /\ seenFile' = seen' /\ Goto(t, "parse")
    <3>1. n \notin evicted /\ (n \in Elems(seen) => n \in Elems(seen'))
          /\ req[t] \notin Elems(seen) /\ (req[t] = n => n \in Elems(seen'))
      BY <2>0, <2>3, Remembered
    <3>2. \A u \in Threads \ {t} : pc'[u] = pc[u]
      BY <1>0, <2>3 DEF Goto
    <3>3. req[t] = n => Admits(t, n)
      BY <2>0, <2>3, <3>1, <3>2 DEF Admits
    <3> QED
      BY <2>0, <2>3, <3>1, <3>2, <3>3 DEF Working
  <2>4. CASE Remember(t) /\ UNCHANGED seenFile /\ Goto(t, "idle")
    <3>1. n \notin evicted /\ (n \in Elems(seen) => n \in Elems(seen'))
      BY <2>0, <2>4, Remembered
    <3> QED
      BY <1>0, <2>0, <2>4, <3>1 DEF Working, Goto
  <2> QED
    BY <1>4, <2>1, <2>2, <2>3, <2>4 DEF CheckSeen
<1>5. ASSUME NEW t \in Threads, Ack(t) \/ Route(t) PROVE Goal
  BY <1>0, <1>1, <1>5 DEF Ack, Route, Goto, memVars, diskVars
<1>6. ASSUME NEW t \in Threads, Enqueue(t) \/ RouteError(t) PROVE Goal
  <2>1. PICK line : Writes(t, line) /\ pc[t] \in {"enqueue", "error"}
    BY <1>6, WriteStep
  <2>2. UNCHANGED <<seen, seenFile, evicted, req>> /\ (Goto(t, "idle") \/ Goto(t, "error"))
    BY <2>1 DEF Writes, memVars
  <2> QED
    BY <1>0, <1>1, <2>2 DEF Goto
<1>7. ASSUME CrashRestart PROVE Goal
  <2>1. /\ seen' = seenFile /\ UNCHANGED <<seenFile, evicted>>
        /\ pc' = [t \in Threads |-> "idle"]
    BY <1>7 DEF CrashRestart
  <2>2. \A u \in Threads : ~Working(u, n)'
    BY <2>1 DEF Working
  <2> QED
    BY <2>1, <2>2
<1>8. ASSUME UNCHANGED vars PROVE Goal
  <2>1. UNCHANGED <<seen, seenFile, evicted>> /\ pc' = pc /\ req' = req
    BY <1>8 DEF vars, memVars, diskVars, histVars
  <2> QED
    BY <1>1, <2>1, Zenon
<1>9. Goal
  BY <1>2, <1>3, <1>4, <1>5, <1>6, <1>7, <1>8 DEF Next, ThreadStep
<1>10. ASSUME NEW t \in Threads, Admits(t, n), NEW u \in Threads \ {t}, Working(u, n)'
       PROVE  Working(u, n)
  <2>1. pc[t] # "parse" /\ pc'[u] = pc[u]
    BY <1>10 DEF Admits
  <2>2. seen' # seen
    BY <1>10 DEF Admits
  <2>3. \E v \in Threads : CheckSeen(v) \/ CrashRestart
    BY <2>2, PlaneStep DEF Next, ThreadStep, Receive, Ack, Route, Enqueue, RouteError, Write,
       vars, memVars, restVars
  <2>4. CASE CrashRestart
    BY <1>10, <2>4 DEF CrashRestart, Working
  <2>5. CASE UNCHANGED req
    BY <1>10, <2>1, <2>5 DEF Working
  <2> QED
    BY <2>3, <2>4, <2>5 DEF CheckSeen
<1> QED
  BY <1>9, <1>10

LEMMA JobStep == TypeInv /\ LineInv /\ JobInv /\ [Next]_vars => JobInv'
<1> SUFFICES ASSUME TypeInv, LineInv, JobInv, [Next]_vars,
                    NEW n \in Numbers', n \notin evicted', sent'[n].tagged
             PROVE  /\ \A t \in Threads : Working(t, n)' =>
                          /\ n \in Elems(seen') \cap Elems(seenFile')
                          /\ \A u \in Threads : Working(u, n)' => u = t
                          /\ \A k \in DOMAIN queue' : ~IsJob(k, n)'
                    /\ \A k \in DOMAIN queue' : IsJob(k, n)' =>
                          /\ n \in Elems(seen') \cap Elems(seenFile')
                          /\ \A j \in DOMAIN queue' : IsJob(j, n)' => j = k
  BY DEF JobInv
<1>0. n # 0 /\ DOMAIN sent = Numbers
  BY SentStays DEF Numbers
<1>1. ASSUME NEW k \in DOMAIN queue', IsJob(k, n)'
      PROVE  \/ k \in DOMAIN queue /\ IsJob(k, n)
             \/ /\ k = Len(queue) + 1
                /\ \E t \in Threads : Working(t, n) /\ pc'[t] \in {"idle", "error"}
  <2>1. CASE k \in DOMAIN queue /\ queue'[k] = queue[k]
    BY <1>1, <2>1 DEF IsJob
  <2>2. CASE queue'[k] \in {Broken("partial"), Broken("garbled")}
    BY <1>0, <1>1, <2>2, BrokenLine DEF IsJob
  <2>3. ASSUME NEW t \in Threads, Fresh(t, queue'[k])
        PROVE  Working(t, n) /\ pc'[t] \in {"idle", "error"}
    BY <1>0, <1>1, <2>3, Handled DEF Fresh, IsJob, Working, TypeInv
  <2> QED
    BY <2>1, <2>2, <2>3, QueueStep
<1>2. CASE n \notin Numbers
  <2>1. \A k \in DOMAIN queue' : ~IsJob(k, n)'
    <3>1. \A k \in DOMAIN queue : ~IsJob(k, n)
      BY <1>0, <1>2 DEF LineInv, IsJob
    <3>2. \A t \in Threads : ~Working(t, n)
      BY <1>0, <1>2, Handled DEF Working, TypeInv
    <3> QED
      BY <1>1, <3>1, <3>2
  <2>2. Plane
    BY <1>2, SentStays DEF Numbers
  <2>3. \A t \in Threads : ~Working(t, n)'
    BY <1>0, <1>2, <2>2, PlaneStep, Handled DEF Working, TypeInv, restVars
  <2> QED
    BY <2>1, <2>3
<1>3. CASE n \in Numbers
  <2>0. sent'[n] = sent[n] /\ sent[n].tagged
    BY <1>0, <1>3, SentStays
  <2>1. /\ n \notin evicted
        /\ n \in Elems(seen) \cap Elems(seenFile) => n \in Elems(seen') \cap Elems(seenFile')
        /\ \A u \in Threads : Working(u, n)' => Working(u, n) \/ \E t \in Threads : Admits(t, n)
        /\ \A t \in Threads : Admits(t, n) => \A u \in Threads \ {t} : Working(u, n)' => Working(u, n)
    BY <1>3, <2>0, SeenStep
  <2>2. /\ \A t \in Threads : Working(t, n) =>
              /\ n \in Elems(seen) \cap Elems(seenFile)
              /\ \A u \in Threads : Working(u, n) => u = t
              /\ \A k \in DOMAIN queue : ~IsJob(k, n)
        /\ \A k \in DOMAIN queue : IsJob(k, n) =>
              /\ n \in Elems(seen) \cap Elems(seenFile)
              /\ \A j \in DOMAIN queue : IsJob(j, n) => j = k
    BY <1>3, <2>0, <2>1 DEF JobInv
  <2>3. ASSUME NEW t \in Threads, Admits(t, n)
        PROVE  /\ n \in Elems(seen') \cap Elems(seenFile')
               /\ \A u \in Threads : Working(u, n)' => u = t
               /\ \A k \in DOMAIN queue' : ~IsJob(k, n)'
    <3>1. n \in Elems(seen') \cap Elems(seenFile') /\ n \notin Elems(seen)
      BY <2>3 DEF Admits
    <3>2. \A u \in Threads : ~Working(u, n)
      BY <2>2, <3>1
    <3>3. \A k \in DOMAIN queue : ~IsJob(k, n)
      BY <2>2, <3>1
    <3> QED
      BY <1>1, <2>1, <2>3, <3>1, <3>2, <3>3
  <2>4. CASE \A t \in Threads : ~Admits(t, n)
    <3>1. \A u \in Threads : Working(u, n)' => Working(u, n)
      BY <2>1, <2>4
    <3>2. ASSUME NEW t \in Threads, Working(t, n), pc'[t] \in {"idle", "error"}
          PROVE  \A u \in Threads : ~Working(u, n)'
      BY <2>2, <3>1, <3>2 DEF Working
    <3> QED
      BY <1>1, <2>1, <2>2, <3>1, <3>2
  <2> QED
    BY <2>3, <2>4
<1> QED
  BY <1>2, <1>3

(* do_POST: one delivery never yields two jobs, however Plane resends it,  *)
(* the threads interleave and the receiver dies, until it is evicted.      *)
THEOREM DeliveriesYieldOneJob == Spec => []EnqueuedOnce
<1>1. Init => LineInv /\ JobInv
  BY DEF Init, LineInv, JobInv, Numbers
<1>2. TypeInv /\ LineInv /\ JobInv => EnqueuedOnce
  <2> SUFFICES ASSUME TypeInv, LineInv, JobInv, NEW j \in DOMAIN queue, NEW k \in DOMAIN queue,
                      NEW n \in 1 .. Len(sent), IsJob(j, n), IsJob(k, n), n \notin evicted
               PROVE  j = k
    BY DEF EnqueuedOnce
  <2>1. sent[n].tagged
    BY DEF LineInv, IsJob
  <2> QED
    BY <2>1 DEF JobInv, Numbers
<1> QED
  BY <1>1, <1>2, LineStep, JobStep, TypeHolds, PTL DEF Spec
--------------------------------------------------------------------------------
LEMMA FaultsGrow == ASSUME TypeInv, [Next]_vars PROVE faults' \in Nat /\ faults \in Nat /\ faults' >= faults
<1>0. faults \in Nat
  BY DEF TypeInv, TypeOK
<1>1. ASSUME NEW t \in Threads, Enqueue(t) \/ RouteError(t) PROVE faults' \in {faults, faults + 1}
  BY <1>1, WriteStep DEF Writes
<1>2. CASE Plane
  BY <1>0, <1>2, PlaneStep DEF restVars
<1> QED
  BY <1>0, <1>1, <1>2 DEF Next, ThreadStep, Receive, CheckSeen, Duplicate, Untagged, Ack, Route,
     Fault, CrashRestart, vars

(* A safe event stays safe, as long as there is at most one I/O error.     *)
LEMMA SafeStays ==
    ASSUME TypeInv, LineInv, ErrorsCounted, [Next]_vars, faults' <= 1,
           NEW n \in DOMAIN sent, sent[n].tagged, Safe(n)
    PROVE  Safe(n)'
<1>0. /\ pc \in [Threads -> {"idle", "post", "parse", "route", "enqueue", "error"}]
      /\ n # 0 /\ faults \in Nat /\ queue \in Seq(Lines)
  BY DEF TypeInv, TypeOK
<1>1. CASE Queued(n)
  <2>1. PICK k \in DOMAIN queue : queue[k].delivery = n
    BY <1>1 DEF Queued
  <2>2. k \in DOMAIN queue' /\ queue'[k] = queue[k]
    BY <1>0, <2>1, QueueStep DEF Kept, LineInv
  <2> QED
    BY <2>1, <2>2 DEF Safe, Queued
<1>2. CASE n \in cut
  <2>1. ASSUME NEW t \in Threads, Enqueue(t) \/ RouteError(t) PROVE cut \subseteq cut'
    BY <2>1, WriteStep DEF Writes
  <2>2. CASE Plane
    BY <1>2, <2>2, PlaneStep DEF restVars, histVars, Safe
  <2>3. cut \subseteq cut'
    BY <2>1, PlaneStep DEF Next, ThreadStep, Receive, CheckSeen, Ack, Route, CrashRestart, vars,
       histVars, restVars
  <2> QED
    BY <1>2, <2>3 DEF Safe
<1>3. ASSUME NEW t \in Threads, req[t] = n, pc[t] \in {"enqueue", "error"}
      PROVE  Safe(n)'
  <2>1. CASE pc'[t] \in {"enqueue", "error"} /\ req'[t] = req[t]
    BY <1>3, <2>1 DEF Safe
  <2>2. CASE Enqueue(t) \/ RouteError(t)
    <3>1. PICK line : Writes(t, line)
      BY <2>2, WriteStep
    <3>2. line.delivery = n /\ req'[t] = req[t]
      BY <1>3, <3>1, Handled DEF Writes, TypeInv
    <3>3. CASE queue' = AppendLine(queue, line) /\ Goto(t, "idle")
        <4>1. (IsPartial(queue) /\ queue' # queue) \/ Queued(n)'
        BY <1>0, <3>1, <3>2, <3>3, AppendLineFacts DEF Writes, Queued
      <4> QED
        BY <1>3, <3>1, <4>1 DEF Writes, Safe
    <3>4. CASE pc[t] = "enqueue" /\ Goto(t, "error")
      BY <1>0, <1>3, <2>1, <3>2, <3>4 DEF Goto
    <3>5. CASE pc[t] = "error" /\ faults' = faults + 1
      BY <1>0, <3>5 DEF ErrorsCounted
    <3> QED
      BY <3>1, <3>3, <3>4, <3>5 DEF Writes
  <2>3. CASE CrashRestart
    BY <1>3, <2>3 DEF CrashRestart, Safe
  <2>4. CASE Plane
    BY <1>3, <2>1, <2>4, PlaneStep DEF restVars
  <2>5. ASSUME NEW u \in Threads, u # t, ThreadStep(u)
        PROVE  pc'[t] = pc[t] /\ req'[t] = req[t]
    <3>1. CASE Enqueue(u) \/ RouteError(u)
      BY <1>0, <2>5, <3>1, WriteStep DEF Writes, Goto
    <3>2. CASE CheckSeen(u)
      BY <1>0, <2>5, <3>2 DEF CheckSeen, Duplicate, Untagged, Goto
    <3>3. CASE Ack(u) \/ Route(u)
      BY <1>0, <2>5, <3>3 DEF Ack, Route, Goto
    <3> QED
      BY <2>5, <3>1, <3>2, <3>3 DEF ThreadStep
  <2>6. ASSUME NEW u \in Threads, NEW m \in 1 .. Len(sent), Receive(u, m)
        PROVE  pc'[t] = pc[t] /\ req'[t] = req[t]
    BY <1>0, <1>3, <2>6 DEF Receive, Goto, TypeInv, TypeOK
  <2>7. CASE ThreadStep(t)
    BY <1>3, <2>2, <2>7 DEF ThreadStep, CheckSeen, Ack, Route
  <2>8. CASE UNCHANGED vars
    BY <1>3, <2>1, <2>8 DEF vars
  <2> QED
    BY <1>3, <2>1, <2>3, <2>4, <2>5, <2>6, <2>7, <2>8 DEF Next
<1> QED
  BY <1>1, <1>2, <1>3 DEF Safe

LEMMA SafeMoveStays ==
    ASSUME TypeInv, LineInv, ErrorsCounted, [Next]_vars, faults' <= 1, NEW i, NEW s, SafeMove(i, s)
    PROVE  SafeMove(i, s)'
<1>1. PICK m \in DOMAIN sent : sent[m].issue = i /\ sent[m].state = s /\ sent[m].tagged /\ Safe(m)
  BY DEF SafeMove
<1>2. m \in DOMAIN sent' /\ sent'[m] = sent[m]
  BY SentStays
<1>3. Safe(m)'
  BY <1>1, SafeStays
<1> QED
  BY <1>1, <1>2, <1>3 DEF SafeMove

(* What the locked section of _route does with the event in hand.          *)
LEMMA RouteStep ==
    ASSUME TypeInv, NEW t \in Threads, Route(t)
    PROVE  /\ pc[t] = "route" /\ pc'[t] \in {"idle", "enqueue", "error"}
           /\ \A u \in Threads \ {t} : pc'[u] = pc[u]
           /\ UNCHANGED <<sent, req, acked>>
           /\ suppressed \subseteq suppressed' /\ faults \in Nat
           /\ pc'[t] = "error" => faults' = faults + 1
           /\ \/ UNCHANGED <<dispatched, dispatchedFile>>
              \/ /\ pc'[t] # "idle" /\ sent[req[t]].tagged /\ sent[req[t]].issue \in Issues
                 /\ dispatched' = [dispatched EXCEPT ![sent[req[t]].issue] = sent[req[t]].state]
                 /\ dispatchedFile' \in {dispatched', dispatchedFile}
           /\ \/ pc'[t] # "idle"
              \/ sent[req[t]].kind \in IssueKinds /\ NotDispatchable(sent[req[t]])
              \/ /\ req[t] \in suppressed' /\ sent[req[t]].issue \in Issues
                 /\ dispatched[sent[req[t]].issue] = sent[req[t]].state
<1>1. /\ pc \in [Threads -> {"idle", "post", "parse", "route", "enqueue", "error"}]
      /\ pc[t] = "route" /\ UNCHANGED <<sent, req, acked>> /\ faults \in Nat
  BY DEF TypeInv, TypeOK, Route, planeVars
<1>2. sent[req[t]].issue \in Issues
      /\ (sent[req[t]].kind \in IssueKinds => sent[req[t]].tagged)
  BY <1>1, Handled DEF TypeInv, EventInv, IssueKinds, Events
<1>3. \E l \in {"idle", "enqueue", "error"} : Goto(t, l)
  BY DEF Route
<1>4. pc'[t] \in {"idle", "enqueue", "error"} /\ \A u \in Threads \ {t} : pc'[u] = pc[u]
  BY <1>1, <1>3 DEF Goto
<1> QED
  BY <1>1, <1>2, <1>4 DEF Route, Goto, Fault, AlreadyDispatched

LEMMA AckStep == TypeInv /\ LineInv /\ AckInv /\ [Next]_vars => AckInv'
<1> SUFFICES ASSUME TypeInv, LineInv, AckInv, [Next]_vars PROVE AckInv'
  OBVIOUS
<1>0. /\ pc \in [Threads -> {"idle", "post", "parse", "route", "enqueue", "error"}]
      /\ dispatched \in [Issues -> States \cup {None}]
      /\ faults' >= faults /\ faults \in Nat /\ faults' \in Nat /\ ErrorsCounted
      /\ sent \in Seq(Events) /\ acked \subseteq DOMAIN sent
  BY FaultsGrow DEF TypeInv, TypeOK, AckInv
<1>1. ErrorsCounted'
  <2>1. ASSUME NEW t \in Threads, pc'[t] = "error" PROVE pc[t] = "error" \/ faults' = faults + 1
    <3>1. ASSUME NEW u \in Threads, Enqueue(u) \/ RouteError(u)
          PROVE  pc[t] = "error" \/ faults' = faults + 1
      BY <1>0, <2>1, <3>1, WriteStep DEF Writes, Goto
    <3>2. ASSUME NEW u \in Threads, Route(u) PROVE pc[t] = "error" \/ faults' = faults + 1
      BY <2>1, <3>2, RouteStep
    <3>3. ASSUME NEW u \in Threads, CheckSeen(u) \/ Ack(u) PROVE pc[t] = "error"
      BY <1>0, <2>1, <3>3 DEF CheckSeen, Duplicate, Untagged, Ack, Goto
    <3>4. ASSUME NEW u \in Threads, NEW n \in 1 .. Len(sent), Receive(u, n) PROVE pc[t] = "error"
      BY <1>0, <2>1, <3>4 DEF Receive, Goto
    <3>5. CASE Plane
      BY <2>1, <3>5, PlaneStep DEF restVars
    <3> QED
      BY <2>1, <3>1, <3>2, <3>3, <3>4, <3>5 DEF Next, ThreadStep, CrashRestart, vars
  <2> QED
    BY <1>0, <2>1 DEF ErrorsCounted
<1>2. ASSUME faults' <= 1, NEW i \in Issues, NEW s \in {dispatched'[i], dispatchedFile'[i]}, s # None
      PROVE  SafeMove(i, s)'
  <2>1. ASSUME s \in {dispatched[i], dispatchedFile[i]} PROVE SafeMove(i, s)'
    <3>1. SafeMove(i, s)
      BY <1>0, <1>2, <2>1 DEF AckInv
    <3> QED
      BY <1>0, <1>2, <3>1, SafeMoveStays
  <2>2. ASSUME NEW t \in Threads, Route(t) PROVE SafeMove(i, s)'
    <3> DEFINE m == req[t]
    <3>1. CASE s = sent[m].state /\ i = sent[m].issue /\ sent[m].tagged /\ pc'[t] # "idle"
      <4>1. m \in DOMAIN sent' /\ sent' = sent /\ req'[t] = m /\ pc'[t] \in {"enqueue", "error"}
        BY <2>2, <3>1, RouteStep, Handled DEF TypeInv
      <4> QED
        BY <3>1, <4>1 DEF SafeMove, Safe
    <3>2. s \in {dispatched[i], dispatchedFile[i]} \/
             (s = sent[m].state /\ i = sent[m].issue /\ sent[m].tagged /\ pc'[t] # "idle")
      BY <1>0, <1>2, <2>2, RouteStep
    <3> QED
      BY <2>1, <3>1, <3>2
  <2>3. ASSUME NEW t \in Threads, Enqueue(t) \/ RouteError(t)
        PROVE  UNCHANGED <<dispatched, dispatchedFile>>
    BY <2>3, WriteStep DEF Writes, memVars
  <2>4. CASE Plane
    BY <1>2, <2>1, <2>4, PlaneStep DEF restVars, memVars, diskVars
  <2>5. (\E t \in Threads : Route(t)) \/ s \in {dispatched[i], dispatchedFile[i]} \/ Plane
    BY <1>2, <2>3 DEF Next, ThreadStep, Receive, CheckSeen, Ack, CrashRestart, vars,
       memVars, diskVars
  <2> QED
    BY <2>1, <2>2, <2>4, <2>5
<1>3. ASSUME faults' <= 1, NEW n \in acked', sent'[n].tagged
      PROVE  Accounted(n)'
  <2>1. CASE \E t \in Threads : req'[t] = n /\ pc'[t] = "route"
    BY <2>1 DEF Accounted
  <2>2. CASE ~\E t \in Threads : req'[t] = n /\ pc'[t] = "route"
    <3>1. n \in acked
      <4>1. ASSUME NEW t \in Threads, Ack(t), n \notin acked PROVE FALSE
        BY <1>0, <1>3, <2>2, <4>1 DEF Ack, Goto
      <4>2. ASSUME NEW t \in Threads, Enqueue(t) \/ RouteError(t) PROVE UNCHANGED acked
        BY <4>2, WriteStep DEF Writes
      <4>3. CASE Plane
        BY <1>3, <4>3, PlaneStep DEF restVars, histVars
      <4> QED
        BY <1>3, <4>1, <4>2, <4>3 DEF Next, ThreadStep, Receive, CheckSeen, Route, CrashRestart,
           vars, histVars
    <3>2. n \in DOMAIN sent /\ sent'[n] = sent[n] /\ sent[n].tagged
      BY <1>0, <1>3, <3>1, SentStays
    <3>3. Accounted(n) /\ faults <= 1
      BY <1>0, <1>3, <3>1, <3>2 DEF AckInv
    <3>4. CASE Safe(n)
      BY <1>0, <1>3, <3>2, <3>4, SafeStays DEF Accounted
    <3>5. CASE sent[n].kind \in IssueKinds /\ NotDispatchable(sent[n])
      BY <3>2, <3>5 DEF Accounted, NotDispatchable
    <3>6. CASE n \in suppressed /\ SafeMove(sent[n].issue, sent[n].state)
      <4>1. SafeMove(sent[n].issue, sent[n].state)'
        BY <1>0, <1>3, <3>2, <3>6, SafeMoveStays
      <4>2. ASSUME NEW t \in Threads, Enqueue(t) \/ RouteError(t) PROVE UNCHANGED suppressed
        BY <4>2, WriteStep DEF Writes
      <4>3. suppressed \subseteq suppressed'
        BY <4>2, PlaneStep, RouteStep DEF Next, ThreadStep, Receive, CheckSeen, Ack, CrashRestart,
           vars, histVars, restVars
      <4> QED
        BY <3>2, <3>6, <4>1, <4>3 DEF Accounted
    <3>7. ASSUME NEW t \in Threads, req[t] = n, pc[t] = "route" PROVE Accounted(n)'
      <4>1. CASE Route(t)
        <5>1. CASE pc'[t] # "idle"
          BY <3>7, <4>1, <5>1, RouteStep DEF Accounted, Safe
        <5>2. CASE sent[n].kind \in IssueKinds /\ NotDispatchable(sent[n])
          BY <3>5, <5>2
        <5>3. CASE n \in suppressed' /\ sent[n].issue \in Issues
                   /\ dispatched[sent[n].issue] = sent[n].state
          <6>1. sent[n].state # None
            BY <3>2, ReceiverConstants DEF TypeInv, EventInv
          <6>2. SafeMove(sent[n].issue, sent[n].state)
            BY <3>3, <5>3, <6>1 DEF AckInv
          <6>3. SafeMove(sent[n].issue, sent[n].state)'
            BY <1>0, <1>3, <3>2, <6>2, SafeMoveStays
          <6> QED
            BY <3>2, <5>3, <6>3 DEF Accounted
        <5> QED
          BY <3>7, <4>1, <5>1, <5>2, <5>3, RouteStep
      <4>2. CASE CrashRestart
        BY <3>7, <4>2 DEF CrashRestart, Accounted, Safe
      <4>3. CASE pc'[t] = pc[t] /\ req'[t] = req[t]
        BY <2>2, <3>7, <4>3
      <4>4. ASSUME NEW u \in Threads, ThreadStep(u), ~Route(t) PROVE pc'[t] = pc[t] /\ req'[t] = req[t]
        <5>1. CASE Enqueue(u) \/ RouteError(u)
          BY <1>0, <3>7, <5>1, WriteStep DEF Writes, Goto
        <5>2. CASE Route(u)
          BY <4>4, <5>2, RouteStep
        <5>3. CASE CheckSeen(u)
          BY <1>0, <3>7, <5>3 DEF CheckSeen, Duplicate, Untagged, Goto
        <5>4. CASE Ack(u)
          BY <1>0, <3>7, <5>4 DEF Ack, Goto
        <5> QED
          BY <4>4, <5>1, <5>2, <5>3, <5>4 DEF ThreadStep
      <4>5. ASSUME NEW u \in Threads, NEW m \in 1 .. Len(sent), Receive(u, m)
            PROVE  pc'[t] = pc[t] /\ req'[t] = req[t]
        BY <1>0, <3>7, <4>5 DEF Receive, Goto, TypeInv, TypeOK
      <4>6. CASE Plane
        BY <4>3, <4>6, PlaneStep DEF restVars
      <4> QED
        BY <4>1, <4>2, <4>3, <4>4, <4>5, <4>6 DEF Next, vars
    <3> QED
      BY <3>3, <3>4, <3>5, <3>6, <3>7 DEF Accounted
  <2> QED
    BY <2>1, <2>2
<1> QED
  BY <1>1, <1>2, <1>3 DEF AckInv

(* "Never lose the ack": with at most one I/O error, an accepted event is  *)
(* routed, queued, reported, needs no job, or repeats one that is safe, or *)
(* a death cut it off.                                                     *)
THEOREM AcceptedEventsKept == Spec => []AckNotLost
<1>1. Init => AckInv
  BY ReceiverConstants DEF Init, AckInv, ErrorsCounted
<1>2. TypeInv /\ AckInv => AckNotLost
  <2> SUFFICES ASSUME TypeInv, AckInv, NEW n \in acked, faults <= 1, sent[n].tagged
               PROVE  \/ Handling(n) \/ Queued(n) \/ n \in cut
                      \/ sent[n].kind \in IssueKinds /\ NotDispatchable(sent[n])
                      \/ \E m \in DOMAIN sent : Repeats(n, m) /\ (Handling(m) \/ Queued(m) \/ m \in cut)
    BY DEF AckNotLost
  <2>1. Accounted(n)
    BY DEF AckInv
  <2>2. \A m : Safe(m) => Handling(m) \/ Queued(m) \/ m \in cut
    BY DEF Safe, Handling
  <2> QED
    BY <2>1, <2>2 DEF Accounted, Handling, SafeMove, Repeats
<1> QED
  BY <1>1, <1>2, LineStep, AckStep, TypeHolds, LineInit, PTL DEF Spec

--------------------------------------------------------------------------------
(* In the pipeline the receiver takes the steps it takes alone.            *)
LEMMA ReceiverStep == [PipelineNext]_allVars => [Next]_vars
<1> SUFFICES ASSUME [PipelineNext]_allVars PROVE [Next]_vars
  OBVIOUS
<1>1. CASE ConsumerNext /\ UNCHANGED <<sent, posts, memVars, seenFile, dispatchedFile, pc, req,
                                       histVars, crashes, faults>>
  BY <1>1 DEF ConsumerNext, vars, planeVars, diskVars
<1> QED
  BY <1>1 DEF PipelineNext, allVars

(* The composition implements the receiver: whatever is shown of it alone  *)
(* holds with the consumer behind it.                                      *)
THEOREM PipelineIsReceiver == PipelineSpec => Spec
BY ReceiverStep, PTL DEF PipelineSpec, PipelineInit, Spec

(* The board shows the last event of an issue.                             *)
LEMMA BoardStep == TypeInv /\ BoardInv /\ [Next]_vars => BoardInv'
<1> SUFFICES ASSUME TypeInv, BoardInv, [Next]_vars, NEW n \in DOMAIN sent'
             PROVE  \/ board'[sent'[n].issue] = sent'[n].state
                    \/ \E m \in DOMAIN sent' : /\ m > n /\ sent'[m].issue = sent'[n].issue
                                               /\ sent'[m].state # sent'[n].state
  BY DEF BoardInv
<1>0. board \in [Issues -> States \cup {None}] /\ sent \in Seq(Events)
  BY DEF TypeInv, TypeOK
<1>1. CASE UNCHANGED <<board, sent>>
  BY <1>1 DEF BoardInv
<1>2. CASE Plane
  <2>1. PICK e \in Events : /\ sent' = Append(sent, e) /\ e.issue \in Issues
                            /\ board' = [board EXCEPT ![e.issue] = e.state]
    BY <1>2, PlaneStep
  <2>2. /\ DOMAIN sent' = DOMAIN sent \cup {Len(sent) + 1} /\ sent'[Len(sent) + 1] = e
        /\ \A i \in DOMAIN sent : sent'[i] = sent[i] /\ i < Len(sent) + 1
    BY <1>0, <2>1, Appended
  <2>3. CASE n = Len(sent) + 1
    BY <1>0, <2>1, <2>2, <2>3
  <2>4. CASE n \in DOMAIN sent /\ sent[n].issue = e.issue
    <3>1. CASE e.state = sent[n].state
      BY <1>0, <2>1, <2>2, <2>4, <3>1
    <3>2. CASE e.state # sent[n].state
      BY <1>0, <2>2, <2>4, <3>2
    <3> QED
      BY <3>1, <3>2
  <2>5. CASE n \in DOMAIN sent /\ sent[n].issue # e.issue
    <3>1. board'[sent[n].issue] = board[sent[n].issue] /\ sent'[n] = sent[n]
      BY <1>0, <2>1, <2>2, <2>5 DEF Events
    <3> QED
      BY <2>2, <2>5, <3>1 DEF BoardInv
  <2> QED
    BY <2>2, <2>3, <2>4, <2>5
<1> QED
  BY <1>1, <1>2, SentStays

(* A complete line stays complete and stays what it is.                    *)
LEMMA LinesStay ==
    ASSUME TypeInv, [Next]_vars
    PROVE  /\ complete_lines \in Nat /\ complete_lines <= Len(queue)
           /\ complete_lines' \in Nat /\ complete_lines <= complete_lines'
           /\ \A k \in DOMAIN queue : k \in DOMAIN queue' /\
                 (k <= complete_lines => queue'[k] = queue[k])
<1>0. queue \in Seq(Lines) /\ queue' \in Seq(Lines) /\ Kept(queue, queue')
  BY QueueStep DEF TypeInv, TypeOK
<1>1. complete_lines \in Nat /\ complete_lines <= Len(queue)
      /\ complete_lines' \in Nat /\ complete_lines' <= Len(queue') /\ complete_lines' >= Len(queue') - 1
  BY <1>0 DEF complete_lines
<1>2. Len(queue) <= Len(queue')
  <2>1. CASE Len(queue) = 0
    BY <1>0, <2>1
  <2>2. CASE Len(queue) # 0
    <3>1. Len(queue) \in DOMAIN queue
      BY <1>0, <2>2
    <3> QED
      BY <1>0, <3>1 DEF Kept
  <2> QED
    BY <2>1, <2>2
<1>3. \A k \in DOMAIN queue : k <= complete_lines => queue'[k] = queue[k]
  BY <1>0 DEF Kept, complete_lines
<1>4. complete_lines <= complete_lines'
  <2>1. CASE complete_lines = Len(queue) /\ Len(queue') = Len(queue) /\ queue # <<>>
    <3>1. queue'[Len(queue)] = queue[Len(queue)] /\ queue[Len(queue)].kind # "partial"
      BY <1>0, <1>3, <2>1 DEF complete_lines
    <3> QED
      BY <1>0, <2>1, <3>1 DEF complete_lines
  <2>2. CASE queue = <<>> \/ Len(queue') > Len(queue) \/ complete_lines = Len(queue) - 1
    BY <1>0, <1>1, <1>2, <2>2
  <2> QED
    BY <1>0, <1>1, <1>2, <2>1, <2>2 DEF complete_lines
<1> QED
  BY <1>0, <1>1, <1>3, <1>4 DEF Kept

(* A step of the consumer leaves the queue and the board alone.            *)
LEMMA ConsumerLeaves == ConsumerNext => UNCHANGED <<board, queue, complete_lines>>
BY DEF ConsumerNext, complete_lines

LEMMA DrainStep == TypeInv /\ DrainInv /\ [PipelineNext]_allVars => DrainInv'
<1> SUFFICES ASSUME TypeInv, DrainInv, [PipelineNext]_allVars PROVE DrainInv'
  OBVIOUS
<1>0. /\ complete_lines \in Nat /\ complete_lines <= Len(queue)
      /\ complete_lines' \in Nat /\ complete_lines <= complete_lines'
      /\ DOMAIN queue \subseteq DOMAIN queue' /\ queue \in Seq(Lines)
  BY ReceiverStep, LinesStay DEF TypeInv, TypeOK
<1>1. CASE UNCHANGED consumerVars
  BY <1>0, <1>1 DEF consumerVars, DrainInv, RunsOf, Idle
<1>2. CASE ConsumerNext
  <2>0. UNCHANGED <<board, queue, complete_lines>>
    BY <1>2, ConsumerLeaves
  <2>1. CASE StartDrain
    BY <1>0, <2>0, <2>1 DEF StartDrain, DrainInv, Idle, RunsOf
  <2>2. CASE Unreachable
    BY <1>0, <2>0, <2>2 DEF Unreachable, DrainInv, Idle, RunsOf
  <2>3. CASE ConsumerDies
    BY <1>0, <2>0, <2>3 DEF ConsumerDies, DrainInv, Idle, RunsOf
  <2>6. CASE Vanish
    BY <1>0, <2>0, <2>6 DEF Vanish, DrainInv, Idle, RunsOf
  <2>4. CASE Dispatch
    <3>1. /\ drain.at = "line" /\ drain # Idle /\ drain' = [drain EXCEPT !.at = "ran"]
          /\ runs' = Append(runs, drain.line) /\ UNCHANGED <<offset, deaths>>
      BY <2>4 DEF Answers, Dispatch, Idle
    <3>2. drain.line \in DOMAIN queue
      BY <1>0, <3>1 DEF DrainInv
    <3>3. /\ runs' \in Seq(DOMAIN queue) /\ Len(runs) + 1 \in DOMAIN runs'
          /\ runs'[Len(runs) + 1] = drain.line
      BY <3>1, <3>2, Appended DEF DrainInv
    <3>4. RunsOf(drain.line)' # {}
      BY <3>1, <3>3 DEF RunsOf, DrainInv
    <3>5. /\ drain' \in [at : {"idle", "line", "ran"}, line : Nat, complete : Nat]
          /\ drain'.line = drain.line /\ drain'.complete = drain.complete /\ drain'.at = "ran"
      BY <3>1 DEF DrainInv
    <3> QED
      BY <2>0, <3>1, <3>3, <3>4, <3>5 DEF DrainInv
  <2>5. CASE Skip \/ Stale \/ Settle
    <3>1. Commit /\ UNCHANGED <<runs, deaths>> /\ drain.at # "idle"
      BY <2>5 DEF Answers, Skip, Stale, Settle
    <3>2. /\ drain # Idle /\ offset' = offset + 1 /\ offset \in Nat /\ drain.line = offset + 1
          /\ drain.line \in Nat /\ drain.complete \in Nat /\ drain.line <= drain.complete
          /\ drain.complete <= complete_lines
      BY <1>0, <3>1 DEF Commit, DrainInv, Idle
    <3>3. CASE drain' = Idle
      BY <1>0, <2>0, <3>1, <3>2, <3>3 DEF DrainInv, Idle
    <3>4. CASE drain.line < drain.complete /\ drain' = [drain EXCEPT !.at = "line", !.line = @ + 1]
      <4>1. /\ drain' \in [at : {"idle", "line", "ran"}, line : Nat, complete : Nat]
            /\ drain'.at = "line" /\ drain'.line = drain.line + 1
            /\ drain'.complete = drain.complete
        <5>1. drain \in [at : {"idle", "line", "ran"}, line : Nat, complete : Nat]
          BY DEF DrainInv
        <5>2. drain.line + 1 \in Nat
          BY <3>2
        <5> QED
          BY <3>4, <5>1, <5>2
      <4>2. drain' # Idle /\ drain'.line \in Nat /\ drain'.line <= drain'.complete
            /\ drain'.line = offset' + 1
        <5>1. drain' # Idle
          BY <4>1 DEF Idle
        <5>2. drain.line < drain.complete
          BY <3>4
        <5> QED
          BY <3>2, <4>1, <5>1, <5>2
      <4>3. /\ offset' \in Nat /\ offset' <= complete_lines' /\ drain'.complete <= complete_lines'
            /\ runs' \in Seq(DOMAIN queue') /\ deaths' \in Nat
        BY <1>0, <2>0, <3>1, <3>2, <4>1 DEF DrainInv
      <4> QED
        BY <4>1, <4>2, <4>3 DEF DrainInv
    <3> QED
      BY <3>1, <3>3, <3>4 DEF Commit
  <2> QED
    BY <1>2, <2>1, <2>2, <2>3, <2>4, <2>5, <2>6 DEF ConsumerNext, Drain
<1> QED
  BY <1>1, <1>2 DEF PipelineNext, allVars

LEMMA RunsFinite ==
    ASSUME DrainInv, NEW k
    PROVE  IsFiniteSet(RunsOf(k)) /\ Cardinality(RunsOf(k)) \in Nat
<1>1. DOMAIN runs = 1 .. Len(runs) /\ Len(runs) \in Nat
  BY DEF DrainInv
<1>2. IsFiniteSet(DOMAIN runs)
  BY <1>1, FS_Interval
<1> QED
  BY <1>2, FS_Subset, FS_CardinalityType DEF RunsOf

LEMMA RunsStep == TypeInv /\ DrainInv /\ RunsInv /\ [PipelineNext]_allVars => RunsInv'
<1> SUFFICES ASSUME TypeInv, DrainInv, RunsInv, [PipelineNext]_allVars PROVE RunsInv'
  OBVIOUS
<1> DEFINE Bound(k) == deaths + (IF k <= offset \/ (drain.at = "ran" /\ drain.line = k) THEN 1 ELSE 0)
<1>0. /\ complete_lines \in Nat /\ complete_lines <= Len(queue) /\ queue \in Seq(Lines)
      /\ \A k \in DOMAIN queue : k \in DOMAIN queue' /\
            (k <= complete_lines => queue'[k] = queue[k])
      /\ runs \in Seq(DOMAIN queue) /\ deaths \in Nat /\ offset \in Nat
  BY ReceiverStep, LinesStay DEF TypeInv, TypeOK, DrainInv
<1>1. \A k \in DOMAIN queue : queue[k].kind # "partial" => queue'[k] = queue[k]
  <2>1. Kept(queue, queue')
    BY ReceiverStep, QueueStep
  <2> QED
    BY <2>1 DEF Kept
<1>2. CASE UNCHANGED consumerVars
  <2>1. \A n \in DOMAIN runs' : queue'[runs'[n]].kind = "agent_dispatch"
    <3>1. ASSUME NEW n \in DOMAIN runs PROVE queue'[runs[n]].kind = "agent_dispatch"
      <4>1. runs[n] \in DOMAIN queue
        BY <1>0
      <4>2. queue[runs[n]].kind = "agent_dispatch"
        BY DEF RunsInv
      <4>3. queue[runs[n]].kind # "partial"
        BY <4>2
      <4> QED
        BY <1>1, <4>1, <4>2, <4>3
    <3> QED
      BY <1>2, <3>1 DEF consumerVars
  <2>2. ASSUME NEW k \in DOMAIN queue' PROVE Cardinality(RunsOf(k)') <= Bound(k)'
    <3>1. RunsOf(k)' = RunsOf(k) /\ Bound(k)' = Bound(k)
      BY <1>2 DEF consumerVars, RunsOf
    <3>2. CASE k \in DOMAIN queue
      BY <3>1, <3>2 DEF RunsInv
    <3>3. CASE k \notin DOMAIN queue
      <4>1. RunsOf(k) = {}
        BY <1>0, <3>3 DEF RunsOf
      <4>2. Bound(k) \in Nat
        BY <1>0
      <4> QED
        BY <3>1, <4>1, <4>2, FS_EmptySet
    <3> QED
      BY <3>2, <3>3
  <2> QED
    BY <2>1, <2>2 DEF RunsInv
<1>3. CASE ConsumerNext
  <2>0. UNCHANGED <<board, queue, complete_lines>>
    BY <1>3, ConsumerLeaves
  <2>1. CASE Dispatch
    <3>1. /\ drain.at = "line" /\ drain # Idle /\ drain' = [drain EXCEPT !.at = "ran"]
          /\ runs' = Append(runs, drain.line) /\ UNCHANGED <<offset, deaths>>
          /\ queue[drain.line].kind = "agent_dispatch"
      BY <2>1 DEF Answers, Dispatch, Idle, Job
    <3>2. drain.line \in DOMAIN queue /\ drain.line = offset + 1
      BY <1>0, <3>1 DEF DrainInv
    <3>3. /\ DOMAIN runs' = DOMAIN runs \cup {Len(runs) + 1} /\ Len(runs) + 1 \notin DOMAIN runs
          /\ runs'[Len(runs) + 1] = drain.line /\ \A i \in DOMAIN runs : runs'[i] = runs[i]
      BY <1>0, <3>1, <3>2, Appended
    <3>4. \A n \in DOMAIN runs' : queue'[runs'[n]].kind = "agent_dispatch"
      BY <2>0, <3>1, <3>3 DEF RunsInv
    <3>5. drain'.at = "ran" /\ drain'.line = drain.line
      BY <3>1 DEF DrainInv
    <3>6. ASSUME NEW k \in DOMAIN queue' PROVE Cardinality(RunsOf(k)') <= Bound(k)'
      <4>0. Cardinality(RunsOf(k)) <= Bound(k) /\ Cardinality(RunsOf(k)) \in Nat /\ IsFiniteSet(RunsOf(k))
        BY <2>0, <3>6, RunsFinite DEF RunsInv
      <4>1. CASE k = drain.line
        <5>1. RunsOf(k)' = RunsOf(k) \cup {Len(runs) + 1} /\ Len(runs) + 1 \notin RunsOf(k)
          BY <3>3, <4>1 DEF RunsOf
        <5>2. Cardinality(RunsOf(k)') = Cardinality(RunsOf(k)) + 1
          BY <4>0, <5>1, FS_AddElement
        <5>3. Bound(k) = deaths /\ Bound(k)' = deaths + 1
          BY <1>0, <3>1, <3>2, <3>5, <4>1
        <5> QED
          BY <1>0, <4>0, <5>2, <5>3
      <4>2. CASE k # drain.line
        <5>1. RunsOf(k)' = RunsOf(k)
          BY <3>3, <4>2 DEF RunsOf
        <5>2. Bound(k)' = Bound(k)
          BY <3>1, <3>5, <4>2
        <5> QED
          BY <4>0, <5>1, <5>2
      <4> QED
        BY <4>1, <4>2
    <3> QED
      BY <3>4, <3>6 DEF RunsInv
  <2>2. ASSUME UNCHANGED runs, \A k \in DOMAIN queue : Bound(k) <= Bound(k)', deaths' \in Nat, offset' \in Nat
        PROVE  RunsInv'
    <3>1. ASSUME NEW k \in DOMAIN queue' PROVE Cardinality(RunsOf(k)') <= Bound(k)'
      <4>1. RunsOf(k)' = RunsOf(k) /\ Cardinality(RunsOf(k)) <= Bound(k) /\ k \in DOMAIN queue
        BY <2>0, <2>2, <3>1 DEF RunsOf, RunsInv
      <4>2. Cardinality(RunsOf(k)) \in Nat /\ Bound(k) \in Nat /\ Bound(k)' \in Nat
        <5>1. Cardinality(RunsOf(k)) \in Nat
          BY RunsFinite
        <5>2. deaths \in Nat /\ deaths' \in Nat
          BY <1>0, <2>2
        <5> DEFINE Extra == IF k <= offset \/ (drain.at = "ran" /\ drain.line = k) THEN 1 ELSE 0
        <5>3. Extra \in {0, 1} /\ Extra' \in {0, 1}
          BY Zenon
        <5>4. \A d \in Nat, x \in {0, 1} : d + x \in Nat
          OBVIOUS
        <5> QED
          BY <5>1, <5>2, <5>3, <5>4, Zenon
      <4>3. Bound(k) <= Bound(k)'
        BY <2>2, <4>1
      <4> HIDE DEF Bound
      <4> QED
        BY <4>1, <4>2, <4>3
    <3> QED
      BY <2>0, <2>2, <3>1 DEF RunsInv
  <2>3. CASE StartDrain \/ Unreachable
    BY <1>0, <2>2, <2>3 DEF StartDrain, Unreachable, Idle
  <2>4. CASE ConsumerDies
    BY <1>0, <2>2, <2>4 DEF ConsumerDies, Idle
  <2>6. CASE Vanish
    BY <1>0, <2>2, <2>6 DEF Vanish
  <2>5. CASE Skip \/ Stale \/ Settle
    <3>1. Commit /\ UNCHANGED <<runs, deaths>> /\ drain # Idle /\ drain.line = offset + 1
      BY <2>5 DEF Answers, Skip, Stale, Settle, Idle, DrainInv
    <3>2. offset' = offset + 1 /\ drain'.at # "ran"
      BY <1>0, <3>1 DEF Commit, Idle, DrainInv
    <3> QED
      BY <1>0, <2>2, <3>1, <3>2
  <2> QED
    BY <1>3, <2>1, <2>3, <2>4, <2>5, <2>6 DEF ConsumerNext, Drain
<1> QED
  BY <1>2, <1>3 DEF PipelineNext, allVars

ConsumerInv == TypeInv /\ LineInv /\ JobInv /\ BoardInv /\ DrainInv /\ RunsInv /\ CurrentJobRuns

LEMMA CurrentStep ==
    TypeInv /\ LineInv /\ BoardInv /\ DrainInv /\ CurrentJobRuns /\ [PipelineNext]_allVars => CurrentJobRuns'
<1> SUFFICES ASSUME TypeInv, LineInv, BoardInv, DrainInv, CurrentJobRuns, [PipelineNext]_allVars,
                    NEW k \in 1 .. offset', queue'[k].kind = "agent_dispatch"
             PROVE  \/ k \in {runs'[n] : n \in DOMAIN runs'}
                    \/ \E m \in DOMAIN sent' : /\ m > queue'[k].delivery
                                               /\ sent'[m].issue = queue'[k].issue
                                               /\ sent'[m].state # queue'[k].state
  BY DEF CurrentJobRuns
<1>0. /\ complete_lines \in Nat /\ complete_lines <= Len(queue) /\ queue \in Seq(Lines)
      /\ \A l \in DOMAIN queue : l <= complete_lines => queue'[l] = queue[l]
      /\ runs \in Seq(DOMAIN queue) /\ offset \in Nat /\ offset <= complete_lines
      /\ \A n \in DOMAIN sent : n \in DOMAIN sent' /\ sent'[n] = sent[n]
  BY ReceiverStep, LinesStay, SentStays DEF TypeInv, TypeOK, DrainInv
<1>1. \A n \in DOMAIN runs : n \in DOMAIN runs' /\ runs'[n] = runs[n]
  <2>1. CASE Dispatch
    <3>1. /\ drain # Idle /\ runs' = Append(runs, drain.line)
      BY <2>1 DEF Answers, Dispatch, Idle
    <3>2. drain.line \in DOMAIN queue
      BY <1>0, <3>1 DEF DrainInv
    <3> QED
      BY <1>0, <3>1, <3>2, Appended
  <2>2. CASE UNCHANGED runs
    BY <2>2
  <2> QED
    BY <2>1, <2>2 DEF PipelineNext, ConsumerNext, Drain, StartDrain, Skip, Stale, Settle,
       Unreachable, ConsumerDies, Vanish, allVars, consumerVars
<1>2. CASE k \in 1 .. offset
  <2>1. k \in DOMAIN queue /\ queue'[k] = queue[k]
    BY <1>0, <1>2
  <2>2. \/ k \in {runs[n] : n \in DOMAIN runs}
        \/ \E m \in DOMAIN sent : /\ m > queue[k].delivery /\ sent[m].issue = queue[k].issue
                                  /\ sent[m].state # queue[k].state
    BY <1>2, <2>1 DEF CurrentJobRuns
  <2> QED
    BY <1>0, <1>1, <2>1, <2>2
<1>3. CASE k \notin 1 .. offset
  <2>1. offset' # offset
    BY <1>3
  <2>2. Skip \/ Stale \/ Settle
    BY <2>1 DEF PipelineNext, ConsumerNext, Drain, StartDrain, Dispatch, Unreachable,
       ConsumerDies, Vanish, allVars, consumerVars
  <2>4. offset' = offset + 1 /\ drain.line = offset + 1 /\ k = drain.line
    BY <1>0, <1>3, <2>2 DEF Answers, Skip, Stale, Settle, Commit, DrainInv, Idle
  <2>5. k \in DOMAIN queue /\ queue'[k] = queue[k]
    BY <1>0, <2>2, <2>4 DEF Answers, Skip, Stale, Settle, DrainInv, Idle
  <2>6. CASE Skip
    BY <2>4, <2>5, <2>6 DEF Skip, Job
  <2>7. CASE Settle
    <3>1. RunsOf(k) # {}
      BY <2>4, <2>7 DEF Settle, DrainInv
    <3> QED
      BY <1>1, <3>1 DEF RunsOf
  <2>8. CASE Stale
    <3> DEFINE n == queue[k].delivery
    <3>1. n \in DOMAIN sent /\ queue[k].issue = sent[n].issue /\ queue[k].state = sent[n].state
      BY <2>5 DEF LineInv
    <3>2. board[sent[n].issue] # sent[n].state
      BY <2>4, <2>8, <3>1 DEF Answers, Stale, Job
    <3>3. PICK m \in DOMAIN sent : /\ m > n /\ sent[m].issue = sent[n].issue
                                   /\ sent[m].state # sent[n].state
      BY <3>1, <3>2 DEF BoardInv
    <3> QED
      BY <1>0, <2>5, <3>1, <3>3
  <2> QED
    BY <2>2, <2>6, <2>7, <2>8
<1> QED
  BY <1>2, <1>3

LEMMA ConsumerHolds == PipelineSpec => []ConsumerInv
<1>1. Init => TypeInv /\ LineInv /\ JobInv /\ BoardInv
  BY TypeInit, LineInit DEF Init, JobInv, BoardInv, Numbers
<1>2. Init /\ ConsumerInit => DrainInv /\ RunsInv /\ CurrentJobRuns
  BY DEF Init, ConsumerInit, DrainInv, RunsInv, CurrentJobRuns, Idle, complete_lines
<1>3. PipelineInit => ConsumerInv
  BY <1>1, <1>2 DEF PipelineInit, ConsumerInv
<1>4. ConsumerInv /\ [PipelineNext]_allVars => ConsumerInv'
  BY ReceiverStep, TypeStep, LineStep, JobStep, BoardStep, DrainStep, RunsStep, CurrentStep
     DEF ConsumerInv
<1> QED
  BY <1>3, <1>4, PTL DEF PipelineSpec

(* From end to end, one delivery starts one agent, and another one only for*)
(* a death of the consumer, until the receiver evicts the delivery.        *)
THEOREM DeliveriesStartOneAgent == PipelineSpec => []OneAgentPerDelivery
<1>1. ConsumerInv => OneAgentPerDelivery
  <2> SUFFICES ASSUME ConsumerInv, NEW n \in (1 .. Len(sent)) \ evicted
               PROVE  Cardinality({m \in DOMAIN runs : queue[runs[m]].delivery = n}) <= 1 + deaths
    BY DEF OneAgentPerDelivery
  <2> DEFINE S == {m \in DOMAIN runs : queue[runs[m]].delivery = n}
  <2>0. deaths \in Nat /\ runs \in Seq(DOMAIN queue)
    BY DEF ConsumerInv, DrainInv
  <2>1. ASSUME S = {} PROVE Cardinality(S) <= 1 + deaths
    <3> HIDE DEF S
    <3>1. Cardinality(S) = 0
      BY <2>1, FS_EmptySet
    <3> QED
      BY <2>0, <3>1
  <2>2. ASSUME NEW k \in DOMAIN queue, NEW m \in S, runs[m] = k
        PROVE  Cardinality(S) <= 1 + deaths
    <3>1. \A x \in S : runs[x] \in DOMAIN queue /\ IsJob(runs[x], n)
      BY <2>0 DEF ConsumerInv, RunsInv, IsJob
    <3>2. sent[n].tagged /\ n \in Numbers \ evicted
      BY <2>2, <3>1 DEF ConsumerInv, LineInv, IsJob, Numbers
    <3>3. \A x \in S : runs[x] = k
      BY <2>2, <3>1, <3>2 DEF ConsumerInv, JobInv
    <3>4. S = RunsOf(k)
      BY <2>2, <3>1, <3>3 DEF RunsOf, IsJob
    <3>5. Cardinality(RunsOf(k)) \in Nat
      BY RunsFinite DEF ConsumerInv
    <3> HIDE DEF S
    <3> QED
      BY <2>0, <3>4, <3>5 DEF ConsumerInv, RunsInv
  <2> QED
    BY <2>0, <2>1, <2>2
<1> QED
  BY <1>1, ConsumerHolds, PTL

(* A job the consumer passes over is one whose issue has moved on since.   *)
THEOREM OnlyStaleJobsSkipped == PipelineSpec => []CurrentJobRuns
<1>1. ConsumerInv => CurrentJobRuns
  BY DEF ConsumerInv
<1> QED
  BY <1>1, ConsumerHolds, PTL
================================================================================
