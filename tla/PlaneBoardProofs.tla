--------------------------- MODULE PlaneBoardProofs ---------------------------
(***************************************************************************)
(* Proofs about PlaneBoard, for any number of agents and items, whatever   *)
(* secrets the agents hold and however many requests fail.                 *)
(***************************************************************************)
EXTENDS PlaneBoard, TLAPS

(* What transition() has checked still holds when it sends the PATCH, if   *)
(* nobody else has moved the item; or the PATCH has already been applied.  *)
FreshEdge ==
    \A a \in Agents : At(a, "patch") /\ ~stale[a] =>
        legal_edge(board[Issue(a)], op[a].to) \/ board[Issue(a)] = op[a].to

(* Whoever is past the comment of a proof has left the Evidence_Record.    *)
Proving(a) == pc[a] \in {"read", "patch"} /\ op[a].cmd \in {"prove", "gated"} /\ op[a].to = "Done"

EvidenceFirst ==
    /\ \A a \in Agents : Proving(a) => "Done" \in posted[Issue(a)]
    /\ ProvenHasEvidence

(* No state in TERMINAL has an outbound edge, Failed's RECOVERY included.  *)
LEMMA NoEdgeFromTerminal ==
    \A cur \in TERMINAL, to \in BoardStates : ~legal_edge(cur, to)
BY DEF legal_edge

--------------------------------------------------------------------------------
(* TypeOK in three parts: the items, run_state.json, and the agents.       *)
ItemsOK ==
    /\ states \in Boards
    /\ board \in [Issues -> states \cup {Unresolved}]
    /\ posted \in [Issues -> SUBSET ({"Done"} \cup UNIVERSAL)]
    /\ via \in [Issues -> Names \cup {None}]
    /\ reached \subseteq Goals /\ excused \subseteq Goals

TicksOK ==
    /\ streak \in Nat \cup {Torn}
    /\ loaded \in [Agents -> Nat]
    /\ heals \in Nat /\ tickRaced \in BOOLEAN

Fits(l, o) ==
    /\ l = "idle" <=> o = None
    /\ l \in {"gate", "post"} => o.to \in {"Done"} \cup UNIVERSAL
    /\ l \in {"read", "patch"} => o.to \in BoardStates
    /\ l = "patch" => o.to \in states

AgentsOK ==
    /\ pc \in [Agents -> Labels]
    /\ op \in [Agents -> Ops \cup {None}]
    /\ \A a \in Agents : Fits(pc[a], op[a])
    /\ stale \in [Agents -> BOOLEAN]

CountsOK == commands \in Nat /\ faults \in Nat

LEMMA TypeParts == TypeOK <=> ItemsOK /\ TicksOK /\ AgentsOK /\ CountsOK
BY DEF TypeOK, ItemsOK, TicksOK, AgentsOK, CountsOK, Fits

LEMMA TypePartsNext == TypeOK' <=> ItemsOK' /\ TicksOK' /\ AgentsOK' /\ CountsOK'
BY DEF TypeOK, ItemsOK, TicksOK, AgentsOK, CountsOK, Fits

LEMMA Busy ==
    ASSUME AgentsOK, NEW a \in Agents, pc[a] # "idle"
    PROVE  op[a] \in Ops /\ Issue(a) \in Issues /\ op[a].cmd \in Names
BY DEF AgentsOK, Ops, Issue, Fits

LEMMA LeaveOK ==
    ASSUME AgentsOK, NEW a \in Agents, Leave(a), states' = states
    PROVE  AgentsOK'
BY DEF AgentsOK, Leave, Goto, Fits, Labels

(* An agent goes to a place its command fits; the others stay.             *)
LEMMA GotoOK ==
    ASSUME AgentsOK, NEW a \in Agents, NEW l \in Labels, NEW o \in Ops \cup {None},
           Goto(a, l), op' = [op EXCEPT ![a] = o], Fits(l, o), stale' \in [Agents -> BOOLEAN],
           states' = states
    PROVE  AgentsOK'
BY DEF AgentsOK, Goto, Fits

LEMMA AdvanceOK ==
    ASSUME AgentsOK, NEW a \in Agents, NEW l \in Labels,
           Goto(a, l), UNCHANGED op, Fits(l, op[a]), stale' \in [Agents -> BOOLEAN],
           states' = states
    PROVE  AgentsOK'
BY DEF AgentsOK, Goto, Fits

LEMMA OutdateType ==
    ASSUME AgentsOK, NEW a \in Agents
    PROVE  /\ Outdate(a) \in [Agents -> BOOLEAN]
           /\ [Outdate(a) EXCEPT ![a] = FALSE] \in [Agents -> BOOLEAN]
<1>1. Outdate(a) \in [Agents -> BOOLEAN]
  BY DEF AgentsOK, Outdate
<1> QED
  BY <1>1

LEMMA FaultCounts == ASSUME CountsOK, Fault, UNCHANGED commands PROVE CountsOK'
BY DEF CountsOK, Fault

LEMMA TypeStep == TypeOK /\ [Next]_vars => TypeOK'
<1> SUFFICES ASSUME ItemsOK, TicksOK, AgentsOK, CountsOK, [Next]_vars
             PROVE  ItemsOK' /\ TicksOK' /\ AgentsOK' /\ CountsOK'
  BY TypeParts, TypePartsNext
<1>u. states' = states
  BY DEF Next, vars
<1>1. CASE UNCHANGED vars
  BY <1>1, <1>u DEF ItemsOK, TicksOK, AgentsOK, CountsOK, Fits, vars, itemVars, tickVars
<1>2. ASSUME NEW a \in Agents, Start(a)
      PROVE  ItemsOK' /\ TicksOK' /\ AgentsOK' /\ CountsOK'
  <2>1. PICK c \in Commands : op' = [op EXCEPT ![a] = c] /\ Goto(a, First(c.cmd))
    BY <1>2 DEF Start
  <2>2. c \in Ops /\ First(c.cmd) \in {"tick", "read", "gate"}
    BY DEF Commands, Cmd, Ops, First, BoardStates, TERMINAL, Names, Roles
  <2>3. Fits(First(c.cmd), c)
    BY <2>2, NoneIsNoCommand DEF Commands, Cmd, First, Fits
  <2>4. stale' \in [Agents -> BOOLEAN]
    BY <1>2 DEF Start, AgentsOK
  <2>5. AgentsOK'
    BY <2>1, <2>2, <2>3, <2>4, GotoOK, <1>u DEF Labels
  <2> QED
    BY <1>2, <2>5, <1>u DEF Start, ItemsOK, TicksOK, CountsOK, itemVars, tickVars
<1>3. ASSUME NEW a \in Agents, Step(a)
      PROVE  ItemsOK' /\ TicksOK' /\ AgentsOK' /\ CountsOK'
  <2>0. pc[a] # "idle"
    BY <1>3 DEF Step, Tick, Accept, Reject, TearRunState, Gate, Post, PostFails, Read,
                Patch, PatchFails, Die, At
  <2>a. /\ op[a] \in Ops /\ Issue(a) \in Issues /\ op[a].cmd \in Names
        /\ Fits(pc[a], op[a])
    BY <2>0, Busy DEF AgentsOK
  <2>1. CASE Tick(a)
    <3>1. CASE Leave(a) /\ UNCHANGED <<loaded, tickRaced>>
      BY <2>1, <3>1, LeaveOK, <1>u DEF Tick, ItemsOK, TicksOK, CountsOK, itemVars
    <3>2. CASE /\ streak # Torn /\ loaded' = [loaded EXCEPT ![a] = streak]
               /\ tickRaced' = (tickRaced \/ \E b \in Agents : At(b, "save"))
               /\ Goto(a, "save") /\ UNCHANGED <<op, stale>>
      <4>1. AgentsOK'
        BY <2>0, <2>a, <3>2, AdvanceOK, <1>u DEF Fits, Labels, AgentsOK
      <4>2. TicksOK'
        BY <2>1, <3>2 DEF Tick, TicksOK
      <4> QED
        BY <2>1, <4>1, <4>2, <1>u DEF Tick, ItemsOK, CountsOK, itemVars
    <3> QED
      BY <2>1, <3>1, <3>2 DEF Tick
  <2>t. ASSUME NEW to \in {"Done", "HANDOFF"}, Towards(a, to) PROVE AgentsOK'
    <3> DEFINE o == Cmd(op[a].cmd, op[a].issue, to, op[a].role)
    <3>1. o \in Ops /\ Fits("gate", o)
      BY <2>a, NoneIsNoCommand DEF Ops, Cmd, Fits, UNIVERSAL, BoardStates, TERMINAL
    <3>2. op' = [op EXCEPT ![a] = o] /\ Goto(a, "gate") /\ stale' \in [Agents -> BOOLEAN]
      BY <2>t DEF Towards, AgentsOK
    <3> HIDE DEF o
    <3> QED
      BY <3>1, <3>2, GotoOK, <1>u DEF Labels
  <2>2. CASE Accept(a)
    BY <2>2, <2>t, <1>u DEF Accept, ItemsOK, TicksOK, CountsOK, itemVars
  <2>3. CASE Reject(a)
    <3>1. AgentsOK' /\ heals' \in Nat
      BY <2>3, <2>t, LeaveOK, <1>u DEF Reject, TicksOK
    <3> QED
      BY <2>3, <3>1, <1>u DEF Reject, ItemsOK, TicksOK, CountsOK, itemVars
  <2>4. CASE TearRunState(a)
    BY <2>4, LeaveOK, <1>u, FaultCounts DEF TearRunState, ItemsOK, TicksOK, itemVars
  <2>5. CASE Gate(a)
    <3>1. CASE Leave(a)
      BY <2>5, <3>1, LeaveOK, <1>u DEF Gate, ItemsOK, TicksOK, CountsOK, itemVars, tickVars
    <3>2. CASE /\ Goto(a, "post") /\ UNCHANGED op
               /\ stale' = [stale EXCEPT ![a] = FALSE]
      <4>1. AgentsOK'
        BY <2>5, <2>a, <3>2, AdvanceOK, <1>u DEF Gate, At, Fits, Labels, AgentsOK
      <4> QED
        BY <2>5, <4>1, <1>u DEF Gate, ItemsOK, TicksOK, CountsOK, itemVars, tickVars
    <3> QED
      BY <2>5, <3>1, <3>2 DEF Gate
  <2>c. ASSUME At(a, "post") PROVE Goal(a) \in Goals /\ op[a].to \in {"Done"} \cup UNIVERSAL
    BY <2>a, <2>c DEF At, Fits, Goal, Goals, Issue, BoardStates, TERMINAL
  <2>6. CASE Post(a)
    <3>1. AgentsOK'
      BY <2>6, <2>a, AdvanceOK, <1>u
      DEF Post, At, Fits, Labels, AgentsOK, BoardStates, TERMINAL
    <3>2. ItemsOK'
      BY <2>6, <2>a, <2>c, <1>u DEF Post, Comment, ItemsOK
    <3> QED
      BY <2>6, <3>1, <3>2 DEF Post, TicksOK, CountsOK, tickVars
  <2>7. CASE PostFails(a)
    <3>1. AgentsOK'
      <4>1. CASE Goto(a, "post") /\ UNCHANGED <<op, stale>>
        BY <2>7, <2>a, <4>1, AdvanceOK, <1>u DEF PostFails, At, Labels, AgentsOK
      <4>2. CASE Leave(a)
        BY <4>2, LeaveOK, <1>u
      <4> QED
        BY <2>7, <4>1, <4>2 DEF PostFails
    <3>2. ItemsOK'
      BY <2>7, <2>a, <2>c, <1>u DEF PostFails, Comment, ItemsOK
    <3> QED
      BY <2>7, <3>1, <3>2, FaultCounts DEF PostFails, TicksOK, tickVars
  <2>8. CASE Read(a)
    <3>1. AgentsOK'
      <4>1. CASE /\ Goto(a, "patch") /\ UNCHANGED op
                 /\ stale' = [stale EXCEPT ![a] = FALSE]
        <5>1. MayPatch(a) /\ At(a, "read")
          BY <2>8, <4>1, <2>0 DEF Read, Leave, Goto, At, AgentsOK
        <5>2. Fits("patch", op[a])
          BY <2>a, <5>1 DEF MayPatch, Resolves, At, Fits
        <5>3. stale' \in [Agents -> BOOLEAN]
          BY <4>1 DEF AgentsOK
        <5> QED
          BY <4>1, <5>2, <5>3, AdvanceOK, <1>u DEF Labels
      <4>2. CASE Leave(a)
        BY <4>2, LeaveOK, <1>u
      <4> QED
        BY <2>8, <4>1, <4>2 DEF Read
    <3>2. Goal(a) \in Goals
      BY <2>8, <2>a DEF Read, At, Fits, Goal, Goals, Issue
    <3>3. ItemsOK'
      BY <2>8, <3>2, <1>u DEF Read, ItemsOK
    <3> QED
      BY <2>8, <3>1, <3>3 DEF Read, TicksOK, CountsOK, tickVars
  <2>p. ASSUME At(a, "patch") PROVE Goal(a) \in Goals /\ op[a].to \in states
    BY <2>a, <2>p DEF At, Fits, Goal, Goals, Issue
  <2>o. ASSUME /\ Goto(a, "idle") /\ op' = [op EXCEPT ![a] = None]
               /\ stale' = [Outdate(a) EXCEPT ![a] = FALSE]
        PROVE  AgentsOK'
    BY <2>o, OutdateType, GotoOK, <1>u DEF Fits, Labels
  <2>9. CASE Patch(a)
    <3>1. ItemsOK'
      BY <2>9, <2>a, <2>p, <1>u DEF Patch, Moved, ItemsOK
    <3> QED
      BY <2>9, <2>o, <3>1 DEF Patch, TicksOK, CountsOK, tickVars
  <2>10. CASE PatchFails(a)
    <3>1. AgentsOK'
      <4>1. CASE stale' = Outdate(a) /\ UNCHANGED <<pc, op, excused>>
        BY <4>1, OutdateType, <1>u DEF AgentsOK, Fits
      <4>2. CASE /\ Goto(a, "idle") /\ op' = [op EXCEPT ![a] = None]
                 /\ stale' = [Outdate(a) EXCEPT ![a] = FALSE]
        BY <4>2, <2>o
      <4> QED
        BY <2>10, <4>1, <4>2 DEF PatchFails
    <3>2. ItemsOK'
      BY <2>10, <2>a, <2>p, <1>u DEF PatchFails, Moved, ItemsOK
    <3> QED
      BY <2>10, <3>1, <3>2, FaultCounts DEF PatchFails, TicksOK, tickVars
  <2>11. CASE Die(a)
    <3>1. pc[a] \in {"post", "read", "patch"} => Goal(a) \in Goals
      BY <2>a, <2>c DEF At, Fits, Goal, Goals, Issue
    <3> QED
      BY <2>11, <3>1, LeaveOK, <1>u, FaultCounts DEF Die, ItemsOK, TicksOK, tickVars
  <2> QED
    BY <1>3, <2>1, <2>2, <2>3, <2>4, <2>5, <2>6, <2>7, <2>8, <2>9, <2>10, <2>11 DEF Step
<1> QED
  BY <1>1, <1>2, <1>3 DEF Next

(* Every reachable state has its variables in range.                       *)
THEOREM TypeCorrect == Spec => []TypeOK
<1>1. Init => TypeOK
  <2> SUFFICES ASSUME Init PROVE ItemsOK /\ TicksOK /\ AgentsOK /\ CountsOK
    BY TypeParts
  <2>1. ItemsOK
    BY DEF Init, ItemsOK
  <2>2. TicksOK /\ CountsOK
    BY DEF Init, TicksOK, CountsOK
  <2>3. AgentsOK
    BY DEF Init, AgentsOK, Fits, Labels
  <2> QED
    BY <2>1, <2>2, <2>3
<1> QED
  BY <1>1, TypeStep, PTL DEF Spec
--------------------------------------------------------------------------------
(* Only a PATCH touches the board, and it moves the one item it names;     *)
(* everybody else in a command on that item is outdated by it.             *)
LEMMA BoardChange ==
    ASSUME TypeOK, NEW a \in Agents, Step(a), board' # board
    PROVE  /\ At(a, "patch")
           /\ board' = [board EXCEPT ![Issue(a)] = op[a].to]
           /\ Issue(a) \in Issues
           /\ \A b \in Agents \ {a} : stale'[b] = Outdate(a)[b]
<1>1. Patch(a) \/ PatchFails(a)
  BY DEF Step, Tick, Accept, Reject, TearRunState, Gate, Post, PostFails, Read, Die,
         itemVars
<1>2. At(a, "patch")
  BY <1>1 DEF Patch, PatchFails
<1>3. Issue(a) \in Issues
  BY <1>2, Busy, TypeParts DEF At
<1>4. board' = [board EXCEPT ![Issue(a)] = op[a].to]
  BY <1>1 DEF Patch, PatchFails, Moved
<1>5. stale' = Outdate(a) \/ stale' = [Outdate(a) EXCEPT ![a] = FALSE]
  BY <1>1 DEF Patch, PatchFails
<1>6. Outdate(a) \in [Agents -> BOOLEAN]
  BY OutdateType, TypeParts
<1> QED
  BY <1>1, <1>2, <1>3, <1>4, <1>5, <1>6

(* A step of one agent leaves the command and the place of the others.     *)
LEMMA OthersWait ==
    ASSUME TypeOK, NEW a \in Agents, Start(a) \/ Step(a), NEW b \in Agents \ {a}
    PROVE  /\ op'[b] = op[b] /\ pc'[b] = pc[b]
           /\ board' = board => stale'[b] = stale[b]
<1>1. /\ pc \in [Agents -> Labels] /\ op \in [Agents -> Ops \cup {None}]
      /\ stale \in [Agents -> BOOLEAN]
  BY DEF TypeOK
<1>2. CASE Start(a)
  BY <1>1, <1>2 DEF Start, Goto
<1>3. CASE Tick(a) \/ Accept(a) \/ Reject(a) \/ TearRunState(a)
  BY <1>1, <1>3 DEF Tick, Accept, Reject, TearRunState, Towards, Leave, Goto
<1>4. CASE Gate(a) \/ Post(a) \/ PostFails(a) \/ Read(a) \/ Die(a)
  BY <1>1, <1>4 DEF Gate, Post, PostFails, Read, Die, Leave, Goto
<1>5. CASE Patch(a) \/ PatchFails(a)
  BY <1>1, <1>5 DEF Patch, PatchFails, Outdate, Goto
<1> QED
  BY <1>2, <1>3, <1>4, <1>5 DEF Step

LEMMA FreshEdgeStep == TypeOK /\ FreshEdge /\ [Next]_vars => FreshEdge'
<1> SUFFICES ASSUME TypeOK, FreshEdge, [Next]_vars, NEW b \in Agents,
                    At(b, "patch")', ~stale'[b]
             PROVE  legal_edge(board[Issue(b)], op[b].to)' \/ (board[Issue(b)] = op[b].to)'
  BY DEF FreshEdge
<1>a. /\ pc \in [Agents -> Labels] /\ op \in [Agents -> Ops \cup {None}]
      /\ stale \in [Agents -> BOOLEAN] /\ board \in [Issues -> states \cup {Unresolved}]
  BY DEF TypeOK
<1>1. CASE UNCHANGED vars
  BY <1>1 DEF FreshEdge, vars, itemVars, At, Issue
<1>2. ASSUME NEW a \in Agents, a # b, Start(a) \/ Step(a)
      PROVE  legal_edge(board[Issue(b)], op[b].to)' \/ (board[Issue(b)] = op[b].to)'
  <2>1. op'[b] = op[b] /\ pc'[b] = pc[b]
    BY <1>2, OthersWait
  <2>2. CASE board' = board
    <3>1. stale'[b] = stale[b]
      BY <1>2, <2>2, OthersWait
    <3> QED
      BY <2>1, <2>2, <3>1 DEF FreshEdge, At, Issue
  <2>3. CASE board' # board
    <3>1. Step(a)
      BY <1>2, <2>3 DEF Start, itemVars
    <3>2. /\ board' = [board EXCEPT ![Issue(a)] = op[a].to]
          /\ stale'[b] = Outdate(a)[b] /\ Issue(a) \in Issues
      BY <1>2, <2>3, <3>1, BoardChange
    <3>3. op[b] # None /\ Issue(b) \in Issues
      BY <2>1, Busy, TypeParts DEF At, AgentsOK, Fits
    <3>4. ~stale[b] /\ Issue(b) # Issue(a)
      BY <1>2, <2>3, <3>2, <3>3 DEF Outdate
    <3>5. board'[Issue(b)] = board[Issue(b)]
      BY <1>a, <3>2, <3>3, <3>4
    <3> QED
      BY <2>1, <3>4, <3>5 DEF FreshEdge, At, Issue
  <2> QED
    BY <2>2, <2>3
<1>3. CASE Start(b)
  BY <1>3, <1>a DEF Start, First, Goto, At
<1>4. CASE Step(b)
  <2>1. Read(b) \/ PatchFails(b)
    BY <1>4, <1>a DEF Step, Tick, Accept, Reject, TearRunState, Towards, Gate, Post,
                     PostFails, Patch, Die, Leave, Goto, At, Labels
  <2>2. CASE Read(b)
    <3>1. UNCHANGED <<op, board>> /\ MayPatch(b)
      BY <1>a, <2>2 DEF Read, Leave, Goto, At
    <3> QED
      BY <3>1 DEF MayPatch, Issue
  <2>3. CASE PatchFails(b)
    <3>1. UNCHANGED op /\ stale' = Outdate(b) /\ At(b, "patch")
      BY <1>a, <2>3 DEF PatchFails, Goto, At
    <3>2. ~stale[b] /\ Issue(b) \in Issues
      BY <3>1, Busy, TypeParts DEF Outdate, At
    <3>3. CASE board' = [board EXCEPT ![Issue(b)] = op[b].to]
      BY <1>a, <3>1, <3>2, <3>3 DEF Issue
    <3>4. CASE board' = board
      BY <3>1, <3>2, <3>4 DEF FreshEdge, Issue
    <3> QED
      BY <2>3, <3>3, <3>4 DEF PatchFails, Moved
  <2> QED
    BY <2>1, <2>2, <2>3
<1> QED
  BY <1>1, <1>2, <1>3, <1>4 DEF Next

(* The gates are passed in order: a move is a legal edge of the graph, but *)
(* for a PATCH whose check another agent's move has made stale.            *)
THEOREM GatesInOrder == Spec => GateOrder
<1>1. Init => FreshEdge
  BY DEF Init, FreshEdge, At
<1>2. ASSUME TypeOK, FreshEdge, [Next]_vars, NEW i \in Issues, board'[i] # board[i]
      PROVE  \/ legal_edge(board[i], board'[i])
             \/ \E a \in Agents : At(a, "patch") /\ Issue(a) = i /\ stale[a]
  <2>1. PICK a \in Agents : Start(a) \/ Step(a)
    BY <1>2 DEF Next, vars, itemVars
  <2>2. Step(a)
    BY <1>2, <2>1 DEF Start, itemVars
  <2>3. /\ At(a, "patch") /\ board' = [board EXCEPT ![Issue(a)] = op[a].to]
        /\ Issue(a) \in Issues
    BY <1>2, <2>2, BoardChange
  <2>4. i = Issue(a) /\ board'[i] = op[a].to
    BY <1>2, <2>3 DEF TypeOK
  <2> QED
    BY <1>2, <2>3, <2>4 DEF FreshEdge
<1>3. TypeOK /\ FreshEdge /\ [Next]_vars => [\A i \in Issues : board'[i] # board[i] =>
          \/ legal_edge(board[i], board'[i])
          \/ \E a \in Agents : At(a, "patch") /\ Issue(a) = i /\ stale[a]]_vars
  BY <1>2
<1> QED
  BY <1>1, <1>3, FreshEdgeStep, TypeCorrect, PTL DEF Spec, GateOrder
--------------------------------------------------------------------------------
(* An Evidence_Record, once posted, stays; only posting one adds to them.  *)
LEMMA PostedGrows ==
    ASSUME TypeOK, NEW a \in Agents, Start(a) \/ Step(a), NEW i \in Issues
    PROVE  posted[i] \subseteq posted'[i]
BY DEF TypeOK, Start, Step, Tick, Accept, Reject, TearRunState, Gate, Post, PostFails,
       Comment, Read, Patch, PatchFails, Die, itemVars

LEMMA EvidenceStep == TypeOK /\ EvidenceFirst /\ [Next]_vars => EvidenceFirst'
<1> SUFFICES ASSUME TypeOK, EvidenceFirst, [Next]_vars PROVE EvidenceFirst'
  OBVIOUS
<1>a. /\ pc \in [Agents -> Labels] /\ op \in [Agents -> Ops \cup {None}]
      /\ board \in [Issues -> states \cup {Unresolved}]
      /\ via \in [Issues -> Names \cup {None}]
      /\ posted \in [Issues -> SUBSET ({"Done"} \cup UNIVERSAL)]
  BY DEF TypeOK
<1>1. CASE UNCHANGED vars
  BY <1>1 DEF EvidenceFirst, ProvenHasEvidence, Proving, Issue, vars, itemVars
<1>2. ASSUME NEW a \in Agents, Start(a) \/ Step(a) PROVE EvidenceFirst'
  <2>1. ASSUME NEW b \in Agents, Proving(b)' PROVE "Done" \in posted'[op'[b].issue]
    <3>1. CASE b # a
      <4>1. op'[b] = op[b] /\ pc'[b] = pc[b]
        BY <1>2, <3>1, OthersWait
      <4>2. Proving(b) /\ Issue(b) \in Issues
        BY <2>1, <4>1, Busy, TypeParts DEF Proving
      <4> QED
        BY <1>2, <4>1, <4>2, PostedGrows DEF EvidenceFirst, Issue
    <3>2. CASE b = a /\ Start(a)
      BY <1>a, <2>1, <3>2 DEF Start, First, Goto, Proving
    <3>3. CASE b = a /\ Step(a)
      <4>1. Post(a) \/ Read(a) \/ PatchFails(a)
        BY <1>a, <2>1, <3>3 DEF Step, Tick, Accept, Reject, TearRunState, Towards, Gate,
                               PostFails, Patch, Die, Leave, Goto, Proving, Labels
      <4>2. pc[a] # "idle" /\ Issue(a) \in Issues
        BY <4>1, Busy, TypeParts DEF Post, Read, PatchFails, At
      <4>3. CASE Post(a)
        BY <1>a, <2>1, <3>3, <4>2, <4>3 DEF Post, Comment, Proving, Issue
      <4>4. CASE Read(a) \/ PatchFails(a)
        <5>1. op'[a] = op[a] /\ pc[a] \in {"read", "patch"} /\ UNCHANGED posted
          BY <1>a, <2>1, <3>3, <4>4 DEF Read, PatchFails, Leave, Goto, At, Proving
        <5> QED
          BY <2>1, <3>3, <5>1 DEF EvidenceFirst, Proving, Issue
      <4> QED
        BY <4>1, <4>3, <4>4
    <3> QED
      BY <1>2, <3>1, <3>2, <3>3
  <2>2. ASSUME NEW i \in Issues, board'[i] = "Done", via'[i] \in {"prove", "gated"}
        PROVE  "Done" \in posted'[i]
    <3>1. CASE board' = board /\ via' = via
      BY <1>2, <2>2, <3>1, PostedGrows DEF EvidenceFirst, ProvenHasEvidence
    <3>2. CASE ~(board' = board /\ via' = via)
      <4>1. /\ At(a, "patch") /\ Moved(a)
        BY <1>2, <3>2 DEF Start, Step, Tick, Accept, Reject, TearRunState, Gate, Post,
                          PostFails, Read, Patch, PatchFails, Die, itemVars
      <4>2. Issue(a) \in Issues
        BY <4>1, Busy, TypeParts DEF At
      <4>3. CASE i = Issue(a)
        <5>1. Proving(a)
          BY <1>a, <2>2, <4>1, <4>2, <4>3 DEF Moved, Proving, At
        <5> QED
          BY <1>2, <4>3, <5>1, PostedGrows DEF EvidenceFirst
      <4>4. CASE i # Issue(a)
        <5>1. board'[i] = board[i] /\ via'[i] = via[i]
          BY <1>a, <4>1, <4>4 DEF Moved
        <5> QED
          BY <1>2, <2>2, <5>1, PostedGrows DEF EvidenceFirst, ProvenHasEvidence
      <4> QED
        BY <4>3, <4>4
    <3> QED
      BY <3>1, <3>2
  <2> QED
    BY <2>1, <2>2 DEF EvidenceFirst, ProvenHasEvidence, Issue
<1> QED
  BY <1>1, <1>2 DEF Next

(* An item that was proved carries the Evidence_Record it was proved with. *)
THEOREM ProofsLeaveEvidence == Spec => []ProvenHasEvidence
<1>1. Init => EvidenceFirst
  BY NoneIsNoCommand DEF Init, EvidenceFirst, ProvenHasEvidence, Proving, Names
<1>2. EvidenceFirst => ProvenHasEvidence
  BY DEF EvidenceFirst
<1> QED
  BY <1>1, <1>2, EvidenceStep, TypeCorrect, PTL DEF Spec

--------------------------------------------------------------------------------
(* Who has left a comment and has yet to move the item.  A command that    *)
(* only advances leaves none, though it passes the same places.            *)
Owes(a) == pc[a] \in {"post", "read", "patch"} /\ op[a].cmd # "advance"

(* _gate has made the checks that transition() makes again; they can only  *)
(* fail the second time because another agent has moved the item.          *)
GateHolds ==
    \A a \in Agents :
       /\ pc[a] \in {"tick", "save", "gate", "post"} => op[a].cmd # "advance"
       /\ pc[a] \in {"post", "read"} /\ op[a].cmd # "advance" /\ ~stale[a] =>
             check_actor(a, op[a].role, op[a].to) /\ legal_edge(board[Issue(a)], op[a].to)

(* Nobody sends a PATCH for an item that transition() could not resolve,   *)
(* so such an item is never moved.                                         *)
Resolved == \A a \in Agents : At(a, "patch") => board[Issue(a)] # Unresolved

(* A comment is settled, or somebody owes its transition, or nobody can    *)
(* make it.                                                                *)
CommentsOwed ==
    \A i \in Issues : \A t \in posted[i] :
        \/ <<i, t>> \in reached \cup excused
        \/ \E a \in Agents : Owes(a) /\ Goal(a) = <<i, t>>
        \/ ~Resolves(i, t)

(* A target that the board lists is none of an unresolvable item.          *)
LEMMA TargetResolved ==
    ASSUME TypeOK, NEW a \in Agents, At(a, "patch")
    PROVE  op[a].to # Unresolved
<1>1. op[a].to \in states /\ states \in Boards
  BY DEF TypeOK, At
<1> QED
  BY <1>1, UnresolvedIsNoName

LEMMA ResolvedStep == TypeOK /\ Resolved /\ [Next]_vars => Resolved'
<1> SUFFICES ASSUME TypeOK, Resolved, [Next]_vars, NEW b \in Agents, pc'[b] = "patch"
             PROVE  board'[op'[b].issue] # Unresolved
  BY DEF Resolved, At, Issue
<1>a. /\ pc \in [Agents -> Labels] /\ op \in [Agents -> Ops \cup {None}]
      /\ board \in [Issues -> states \cup {Unresolved}]
  BY DEF TypeOK
<1>1. CASE UNCHANGED vars
  BY <1>1 DEF Resolved, vars, itemVars, At, Issue
<1>2. ASSUME NEW a \in Agents, Start(a) \/ Step(a), At(b, "patch"), op'[b] = op[b]
      PROVE  board'[op'[b].issue] # Unresolved
  <2>1. CASE board' = board
    BY <1>2, <2>1 DEF Resolved, Issue
  <2>2. CASE board' # board
    <3>1. Step(a)
      BY <1>2, <2>2 DEF Start, itemVars
    <3>2. /\ board' = [board EXCEPT ![Issue(a)] = op[a].to]
          /\ At(a, "patch") /\ Issue(a) \in Issues
      BY <1>2, <2>2, <3>1, BoardChange
    <3>3. op[a].to # Unresolved
      BY <3>2, TargetResolved
    <3> QED
      BY <1>a, <1>2, <3>2, <3>3 DEF Resolved, Issue
  <2> QED
    BY <2>1, <2>2
<1>3. ASSUME NEW a \in Agents, a # b, Start(a) \/ Step(a)
      PROVE  board'[op'[b].issue] # Unresolved
  <2>1. op'[b] = op[b] /\ At(b, "patch")
    BY <1>3, OthersWait DEF At
  <2> QED
    BY <1>2, <1>3, <2>1
<1>4. CASE Start(b)
  BY <1>4, <1>a DEF Start, First, Goto
<1>5. CASE Step(b)
  <2>1. Read(b) \/ PatchFails(b)
    BY <1>5, <1>a DEF Step, Tick, Accept, Reject, TearRunState, Towards, Gate, Post,
                     PostFails, Patch, Die, Leave, Goto, At, Labels
  <2>2. CASE Read(b)
    <3>1. MayPatch(b) /\ UNCHANGED <<op, board>>
      BY <1>a, <2>2 DEF Read, Leave, Goto
    <3> QED
      BY <3>1 DEF MayPatch, Resolves, Issue
  <2>3. CASE PatchFails(b)
    <3>1. op'[b] = op[b] /\ At(b, "patch")
      BY <1>a, <2>3 DEF PatchFails, Goto, At
    <3> QED
      BY <1>2, <1>5, <3>1
  <2> QED
    BY <2>1, <2>2, <2>3
<1> QED
  BY <1>1, <1>3, <1>4, <1>5 DEF Next

(* What cannot be resolved stays so: this code never repairs it.           *)
LEMMA StaysUnresolved ==
    ASSUME TypeOK, Resolved, [Next]_vars, NEW i \in Issues, NEW t, ~Resolves(i, t)
    PROVE  ~(board'[i] # Unresolved /\ t \in states')
<1>1. states' = states
  BY DEF Next, vars
<1>2. CASE t \notin states
  BY <1>1, <1>2
<1>3. CASE board[i] = Unresolved /\ board' # board
  <2>1. PICK a \in Agents : Step(a)
    BY <1>3 DEF Next, Start, vars, itemVars
  <2>2. /\ board' = [board EXCEPT ![Issue(a)] = op[a].to]
        /\ At(a, "patch") /\ Issue(a) \in Issues
    BY <1>3, <2>1, BoardChange
  <2> QED
    BY <1>3, <2>2 DEF Resolved, TypeOK
<1> QED
  BY <1>2, <1>3 DEF Resolves

LEMMA GateHoldsStep == TypeOK /\ GateHolds /\ [Next]_vars => GateHolds'
<1> SUFFICES ASSUME TypeOK, GateHolds, [Next]_vars, NEW b \in Agents
             PROVE  /\ pc'[b] \in {"tick", "save", "gate", "post"} => op'[b].cmd # "advance"
                    /\ pc'[b] \in {"post", "read"} /\ op'[b].cmd # "advance" /\ ~stale'[b] =>
                          /\ check_actor(b, op'[b].role, op'[b].to)
                          /\ legal_edge(board'[op'[b].issue], op'[b].to)
  BY DEF GateHolds, Issue
<1> DEFINE Goal1 == pc'[b] \in {"tick", "save", "gate", "post"} => op'[b].cmd # "advance"
           Goal2 == pc'[b] \in {"post", "read"} /\ op'[b].cmd # "advance" /\ ~stale'[b] =>
                          /\ check_actor(b, op'[b].role, op'[b].to)
                          /\ legal_edge(board'[op'[b].issue], op'[b].to)
<1>a. /\ pc \in [Agents -> Labels] /\ op \in [Agents -> Ops \cup {None}]
      /\ stale \in [Agents -> BOOLEAN] /\ board \in [Issues -> states \cup {Unresolved}]
  BY DEF TypeOK
<1>1. CASE UNCHANGED vars
  BY <1>1 DEF GateHolds, vars, itemVars, Issue
<1>2. ASSUME NEW a \in Agents, a # b, Start(a) \/ Step(a) PROVE Goal1 /\ Goal2
  <2>1. op'[b] = op[b] /\ pc'[b] = pc[b]
    BY <1>2, OthersWait
  <2>2. CASE board' = board
    <3>1. stale'[b] = stale[b]
      BY <1>2, <2>2, OthersWait
    <3> QED
      BY <2>1, <2>2, <3>1 DEF GateHolds, Issue
  <2>3. CASE board' # board
    <3>1. Step(a)
      BY <1>2, <2>3 DEF Start, itemVars
    <3>2. /\ board' = [board EXCEPT ![Issue(a)] = op[a].to]
          /\ stale'[b] = Outdate(a)[b] /\ Issue(a) \in Issues
      BY <1>2, <2>3, <3>1, BoardChange
    <3>3. CASE pc[b] \in {"post", "read"} /\ ~stale'[b]
      <4>1. op[b] # None /\ Issue(b) \in Issues
        BY <3>3, Busy, TypeParts DEF AgentsOK, Fits
      <4>2. ~stale[b] /\ Issue(b) # Issue(a)
        BY <1>2, <2>3, <3>2, <3>3, <4>1 DEF Outdate
      <4>3. board'[Issue(b)] = board[Issue(b)]
        BY <1>a, <3>2, <4>1, <4>2
      <4> QED
        BY <2>1, <4>2, <4>3 DEF GateHolds, Issue
    <3> QED
      BY <2>1, <3>3 DEF GateHolds
  <2> QED
    BY <2>2, <2>3
<1>3. CASE Start(b)
  <2>1. PICK c \in Commands : op'[b] = c /\ pc'[b] = First(c.cmd)
    BY <1>3, <1>a DEF Start, Goto
  <2>2. /\ pc'[b] \in {"tick", "gate", "read"}
        /\ pc'[b] = "read" <=> op'[b].cmd = "advance"
    BY <2>1 DEF Commands, Cmd, First
  <2> QED
    BY <2>2
<1>4. CASE Tick(b) \/ Accept(b) \/ Reject(b) \/ TearRunState(b)
  BY <1>4, <1>a DEF GateHolds, Tick, Accept, Reject, TearRunState, Towards, Leave, Goto,
                    At, Cmd, Labels
<1>5. CASE Gate(b)
  BY <1>5, <1>a DEF GateHolds, Gate, Leave, Goto, At, Issue, itemVars
<1>6. CASE Post(b) \/ PostFails(b)
  BY <1>6, <1>a DEF GateHolds, Post, PostFails, Leave, Goto, At, Issue
<1>7. CASE Read(b) \/ Patch(b) \/ PatchFails(b) \/ Die(b)
  BY <1>7, <1>a DEF GateHolds, Read, Patch, PatchFails, Die, Leave, Goto, At, Issue
<1> QED
  BY <1>1, <1>2, <1>3, <1>4, <1>5, <1>6, <1>7 DEF Next, Step

(* A debt is paid: the item reaches the target, or the step that gives up  *)
(* the command is one of those the property excuses.                       *)
LEMMA DebtPaid ==
    ASSUME TypeOK, GateHolds, NEW a \in Agents, Step(a), Owes(a)
    PROVE  \/ Owes(a)' /\ Goal(a)' = Goal(a)
           \/ Goal(a) \in reached' \cup excused'
           \/ ~Resolves(Issue(a), op[a].to)
<1>a. pc \in [Agents -> Labels] /\ op \in [Agents -> Ops \cup {None}]
  BY DEF TypeOK
<1>1. CASE Post(a) \/ PostFails(a)
  BY <1>1, <1>a DEF Post, PostFails, Owes, Goal, Goto, At
<1>2. CASE Read(a)
  BY <1>2, <1>a DEF Read, MayPatch, GateHolds, Owes, Goal, Goto, At
<1>3. CASE Patch(a) \/ PatchFails(a)
  BY <1>3, <1>a DEF Patch, PatchFails, Moved, Owes, Goal, Goto, At
<1>4. CASE Die(a)
  BY <1>4 DEF Die, Owes
<1> QED
  BY <1>1, <1>2, <1>3, <1>4
  DEF Step, Tick, Accept, Reject, TearRunState, Gate, Owes, At

(* Only the agent that posts adds a comment or reopens a settled one, and  *)
(* it then owes the transition.                                            *)
LEMMA DebtMade ==
    ASSUME TypeOK, GateHolds, NEW a \in Agents, Start(a) \/ Step(a),
           NEW i \in Issues, NEW t \in posted'[i]
    PROVE  \/ Owes(a)' /\ Goal(a)' = <<i, t>>
           \/ <<i, t>> \in reached' \cup excused'
           \/ t \in posted[i] /\ <<i, t>> \notin reached \cup excused
<1>a. /\ pc \in [Agents -> Labels] /\ op \in [Agents -> Ops \cup {None}]
      /\ posted \in [Issues -> SUBSET ({"Done"} \cup UNIVERSAL)]
  BY DEF TypeOK
<1>1. CASE Post(a) \/ PostFails(a)
  <2>1. op[a].cmd # "advance" /\ Issue(a) \in Issues /\ At(a, "post")
    BY <1>1, Busy, TypeParts DEF GateHolds, Post, PostFails, At
  <2>2. ASSUME Comment(a), pc'[a] \in {"post", "read"}, op'[a] = op[a]
        PROVE  \/ Owes(a)' /\ Goal(a)' = <<i, t>>
               \/ <<i, t>> \in reached' \cup excused'
               \/ t \in posted[i] /\ <<i, t>> \notin reached \cup excused
    BY <1>a, <2>1, <2>2 DEF Comment, Owes, Goal, Issue
  <2>3. CASE posted' \in {posted, [posted EXCEPT ![Issue(a)] = @ \cup {op[a].to}]}
             /\ excused' = excused \cup {Goal(a)} /\ UNCHANGED reached
    BY <1>a, <2>1, <2>3 DEF Goal, Issue
  <2> QED
    BY <1>1, <1>a, <2>2, <2>3 DEF Post, PostFails, Goto
<1>2. CASE ~(Post(a) \/ PostFails(a))
  <2>1. posted' = posted /\ reached \subseteq reached' /\ excused \subseteq excused'
    BY <1>2 DEF Start, Step, Tick, Accept, Reject, TearRunState, Gate, Read, Patch,
                PatchFails, Moved, Die, itemVars
  <2> QED
    BY <2>1
<1> QED
  BY <1>1, <1>2

LEMMA CommentsOwedStep ==
    TypeOK /\ GateHolds /\ Resolved /\ CommentsOwed /\ [Next]_vars => CommentsOwed'
<1> SUFFICES ASSUME TypeOK, GateHolds, Resolved, CommentsOwed, [Next]_vars,
                    NEW i \in Issues, NEW t \in posted'[i]
             PROVE  \/ <<i, t>> \in reached' \cup excused'
                    \/ \E b \in Agents : Owes(b)' /\ Goal(b)' = <<i, t>>
                    \/ ~(board'[i] # Unresolved /\ t \in states')
  BY DEF CommentsOwed, Resolves
<1>1. CASE UNCHANGED vars
  BY <1>1 DEF CommentsOwed, vars, itemVars, Owes, Goal, Resolves
<1>2. ASSUME NEW a \in Agents, Start(a) \/ Step(a),
             t \in posted[i], <<i, t>> \notin reached \cup excused, Resolves(i, t)
      PROVE  \/ <<i, t>> \in reached' \cup excused'
             \/ \E b \in Agents : Owes(b)' /\ Goal(b)' = <<i, t>>
  <2>1. PICK b \in Agents : Owes(b) /\ Goal(b) = <<i, t>>
    BY <1>2 DEF CommentsOwed
  <2>2. CASE b # a
    BY <1>2, <2>1, <2>2, OthersWait DEF Owes, Goal
  <2>3. CASE b = a
    <3>1. Step(a)
      BY <1>2, <2>1, <2>3 DEF Start, Owes, At
    <3> QED
      BY <1>2, <2>1, <2>3, <3>1, DebtPaid DEF Goal, Issue
  <2> QED
    BY <2>2, <2>3
<1>3. ASSUME NEW a \in Agents, Start(a) \/ Step(a)
      PROVE  \/ <<i, t>> \in reached' \cup excused'
             \/ \E b \in Agents : Owes(b)' /\ Goal(b)' = <<i, t>>
             \/ ~(board'[i] # Unresolved /\ t \in states')
  BY <1>2, <1>3, DebtMade, StaysUnresolved
<1> QED
  BY <1>1, <1>3 DEF Next

(* No Evidence_Record and no HANDOFF, BLOCKED or FAILED comment is left    *)
(* behind by a command that then found its transition refused, unless the  *)
(* board cannot resolve the item's state or the target: whatever else can  *)
(* refuse it was checked before the comment was written.                   *)
THEOREM CommentsFollowed == Spec => []NoOrphanedComment
<1>1. Init => GateHolds /\ Resolved /\ CommentsOwed
  BY DEF Init, GateHolds, Resolved, CommentsOwed, At
<1>2. CommentsOwed => NoOrphanedComment
  BY DEF CommentsOwed, NoOrphanedComment, Owes, Underway
<1> QED
  BY <1>1, <1>2, GateHoldsStep, ResolvedStep, CommentsOwedStep, TypeCorrect, PTL DEF Spec
--------------------------------------------------------------------------------
(* While no two ticks overlapped, the one agent between load and save has  *)
(* the streak of the file, which counts every self-heal since an accept.   *)
OneTick ==
    ~tickRaced =>
        /\ \A a, b \in Agents : At(a, "save") /\ At(b, "save") => a = b
        /\ \A a \in Agents : At(a, "save") => streak # Torn /\ loaded[a] = streak
        /\ streak # Torn => heals <= streak
        /\ heals < BLOCK_STREAK_HANDOFF

LEMMA OneTickStep == TypeOK /\ OneTick /\ [Next]_vars => OneTick'
<1> SUFFICES ASSUME TypeOK, OneTick, [Next]_vars, ~tickRaced'
             PROVE  /\ \A c, b \in Agents : pc'[c] = "save" /\ pc'[b] = "save" => c = b
                    /\ \A c \in Agents : pc'[c] = "save" => streak' # Torn /\ loaded'[c] = streak'
                    /\ streak' # Torn => heals' <= streak'
                    /\ heals' < BLOCK_STREAK_HANDOFF
  BY DEF OneTick, At
<1>a. /\ pc \in [Agents -> Labels] /\ loaded \in [Agents -> Nat]
      /\ streak \in Nat \cup {Torn} /\ heals \in Nat /\ tickRaced \in BOOLEAN
      /\ BLOCK_STREAK_HANDOFF \in Nat \ {0} /\ Torn \notin Nat
  BY BoardConstants DEF TypeOK
<1>1. CASE UNCHANGED vars
  BY <1>1 DEF OneTick, vars, tickVars, At
<1> SUFFICES ASSUME NEW a \in Agents, Start(a) \/ Step(a)
             PROVE  /\ \A c, b \in Agents : pc'[c] = "save" /\ pc'[b] = "save" => c = b
                    /\ \A c \in Agents : pc'[c] = "save" => streak' # Torn /\ loaded'[c] = streak'
                    /\ streak' # Torn => heals' <= streak'
                    /\ heals' < BLOCK_STREAK_HANDOFF
  BY <1>1 DEF Next
<1>b. ~tickRaced /\ (Tick(a) /\ streak # Torn => \A b \in Agents : ~At(b, "save"))
  <2>1. CASE Tick(a)
    <3>1. CASE streak = Torn
      <4>1. tickRaced' = tickRaced
        BY <2>1, <3>1 DEF Tick
      <4> QED
        BY <3>1, <4>1
    <3>2. CASE streak # Torn
      <4>1. tickRaced' = (tickRaced \/ \E b \in Agents : At(b, "save"))
        BY <2>1, <3>2 DEF Tick
      <4> QED
        BY <4>1, Zenon
    <3> QED
      BY <3>1, <3>2
  <2>2. CASE ~Tick(a)
    BY <2>2 DEF Start, Step, Accept, Reject, TearRunState, Gate, Post, PostFails, Read,
                Patch, PatchFails, Die, tickVars
  <2> QED
    BY <2>1, <2>2
<1>c. \A b \in Agents \ {a} : pc'[b] = pc[b]
  BY OthersWait
<1>2. CASE Tick(a)
  BY <1>2, <1>a, <1>b, <1>c DEF Tick, OneTick, Leave, Goto, At, Labels
<1>3. CASE Accept(a)
  <2>1. pc'[a] # "save" /\ \A b \in Agents : pc'[b] # "save"
    BY <1>3, <1>a, <1>b, <1>c DEF Accept, OneTick, Towards, Goto, At
  <2> QED
    BY <1>3, <1>a, <2>1 DEF Accept
<1>4. CASE Reject(a)
  <2>1. pc'[a] # "save" /\ \A b \in Agents : pc'[b] # "save"
    BY <1>4, <1>a, <1>b, <1>c DEF Reject, OneTick, Towards, Leave, Goto, At
  <2>2. streak' = streak + 1 /\ streak \in Nat /\ heals <= streak /\ heals < BLOCK_STREAK_HANDOFF
    BY <1>4, <1>a, <1>b DEF Reject, OneTick
  <2>3. \/ heals' = heals
        \/ heals' = heals + 1 /\ ~(streak' >= BLOCK_STREAK_HANDOFF)
    BY <1>4 DEF Reject, Escalates
  <2> QED
    BY <1>a, <2>1, <2>2, <2>3
<1>5. CASE TearRunState(a)
  <2>1. pc'[a] # "save" /\ \A b \in Agents : pc'[b] # "save"
    BY <1>5, <1>a, <1>b, <1>c DEF TearRunState, OneTick, Leave, Goto, At
  <2> QED
    BY <1>5, <1>a, <1>b, <2>1 DEF TearRunState, OneTick
<1>6. CASE ~(Tick(a) \/ Accept(a) \/ Reject(a) \/ TearRunState(a))
  <2>1. UNCHANGED tickVars
    BY <1>6 DEF Start, Step, Gate, Post, PostFails, Read, Patch, PatchFails, Die
  <2>2. pc'[a] # "save"
    BY <1>6, <1>a DEF Start, First, Step, Gate, Post, PostFails, Read, Patch, PatchFails,
                      Die, Leave, Goto, At, Commands, Cmd
  <2> QED
    BY <1>b, <1>c, <2>1, <2>2 DEF OneTick, tickVars, At
<1> QED
  BY <1>2, <1>3, <1>4, <1>5, <1>6

(* A recurring reject escalates: for every threshold and any number of     *)
(* agents, there are fewer self-heals in a row than BLOCK_STREAK_HANDOFF,  *)
(* also across failed writes of run_state.json, unless ticks overlapped.   *)
THEOREM RejectsEscalate == Spec => []SelfHealBounded
<1>1. Init => OneTick
  BY BoardConstants DEF Init, OneTick, At
<1>2. OneTick => SelfHealBounded
  BY DEF OneTick, SelfHealBounded
<1> QED
  BY <1>1, <1>2, OneTickStep, TypeCorrect, PTL DEF Spec
================================================================================
