------------------------------- MODULE PlaneBoard -------------------------------
(***************************************************************************)
(* plane-integration/plane_client.py and the_loop.py, with the local gate  *)
(* tools/loop_gate.py and its counter tools/run_state_driver.py: agents    *)
(* move work items over the 12-state board.  Every command is a series of  *)
(* separate HTTP requests -- read and check, post a comment, read and      *)
(* check again, PATCH -- and the board offers no conditional write, so     *)
(* the commands of several agents interleave request by request.           *)
(*                                                                         *)
(* An item may be in a state that id2state() does not know, or the project *)
(* may lack one of the twelve: transition() raises then, which _gate does  *)
(* not foresee.                                                            *)
(*                                                                         *)
(* The evidence gate's verdict on a slice is an input.  The read-back of a *)
(* PATCH's own response always agrees with the PATCH and is left out.      *)
(* Humans in the Plane UI and plane_mcp_server.py are not modelled.        *)
(***************************************************************************)
EXTENDS Naturals

CONSTANTS
    Agents,                \* processes running the_loop commands
    Issues,                \* work items
    Holds,                 \* role secrets in each agent's environment
    Boards,                \* what states() may list: names of the project's states
    Unresolved,            \* a state id that states() does not list
    None,                  \* no command, no provenance
    Torn,                  \* a run_state.json that json.loads rejects
    BLOCK_STREAK_HANDOFF,  \* consecutive rejects that escalate to HANDOFF
    MaxCommands,           \* bound: commands started
    MaxFaults              \* bound: failed requests, failed writes, deaths

PRIVILEGED == {"verifier", "human"}

ASSUME BoardConstants ==
    /\ Holds \in [Agents -> SUBSET PRIVILEGED]
    /\ BLOCK_STREAK_HANDOFF \in Nat \ {0}
    /\ Torn \notin Nat
    /\ {MaxCommands, MaxFaults} \subseteq Nat

VARIABLES
    states,       \* the names that the project's board lists
    board,        \* the state of each work item, or Unresolved
    posted,       \* targets of the commands that left a comment on an item;
                  \* the comment for "Done" is the Evidence_Record
    streak,       \* block_streak in run_state.json, or Torn
    pc, op,       \* where each agent is, and in which command
    loaded,       \* the block_streak an agent's tick() has read
    stale,        \* history: another agent moved the item since it was read
    via,          \* history: the command that set each item's present state
    reached,      \* history: <<item, target>> moved since the last comment
    excused,      \* history: <<item, target>> whose command was cut off
    heals,        \* history: self_heal decisions since the gate last accepted
    tickRaced,    \* history: two agents were in tick() at a time
    commands, faults

itemVars == <<board, posted, via, reached, excused>>
tickVars == <<streak, loaded, heals, tickRaced>>
vars == <<states, itemVars, tickVars, pc, op, stale, commands, faults>>
--------------------------------------------------------------------------------
FORWARD ==
    [s \in {"Backlog", "Agent-Triaged", "Spec-Compiling", "Spec-Verified", "Plan-Approved",
            "Agent-Executing", "In-Verification", "Human-Review"} |->
       CASE s = "Backlog" -> "Agent-Triaged"
         [] s = "Agent-Triaged" -> "Spec-Compiling"
         [] s = "Spec-Compiling" -> "Spec-Verified"
         [] s = "Spec-Verified" -> "Plan-Approved"
         [] s = "Plan-Approved" -> "Agent-Executing"
         [] s = "Agent-Executing" -> "In-Verification"
         [] s = "In-Verification" -> "Human-Review"
         [] OTHER -> "Done"]

UNIVERSAL == {"Blocked", "Failed", "HANDOFF"}
TERMINAL == {"Done", "HANDOFF", "Failed"}
RECOVERY == {<<"Blocked", "Agent-Executing">>, <<"Failed", "Agent-Executing">>}
EXTRA_EDGES == {<<"In-Verification", "Done">>}
BoardStates == DOMAIN FORWARD \cup UNIVERSAL \cup TERMINAL

TRANSITION_AUTH ==
    [s \in BoardStates |->
       CASE s = "Agent-Triaged" -> {"initializer", "human"}
         [] s \in {"Spec-Compiling", "Spec-Verified"} -> {"initializer"}
         [] s = "Plan-Approved" -> {"human"}
         [] s = "Agent-Executing" -> {"implementer"}
         [] s = "Human-Review" -> {"verifier", "human"}
         [] s \in {"In-Verification", "Done", "Failed"} -> {"verifier"}
         [] s \in {"HANDOFF", "Blocked"} -> {"initializer", "implementer", "verifier"}
         [] OTHER -> {}]

Roles == {"initializer", "implementer", "verifier", "human"}

(* The order of the tests matters: a universal target is decided first,    *)
(* and Failed is terminal before its RECOVERY edge is looked at.           *)
legal_edge(cur, to) ==
    /\ cur # to
    /\ cur \notin TERMINAL
    /\ \/ to \in UNIVERSAL
       \/ <<cur, to>> \in RECOVERY \cup EXTRA_EDGES
       \/ cur \in DOMAIN FORWARD /\ FORWARD[cur] = to

check_actor(a, role, to) ==
    /\ role \in TRANSITION_AUTH[to]
    /\ role \in PRIVILEGED => role \in Holds[a]

(* The commands: advance; prove; handoff, block and fail ("escape"); and   *)
(* gated_prove, whose target is what its gate decides.                     *)
Cmd(cmd, i, to, role) == [cmd |-> cmd, issue |-> i, to |-> to, role |-> role]

Commands ==
    UNION {{Cmd("advance", i, to, r) : to \in BoardStates, r \in Roles}
           \cup {Cmd("escape", i, to, r) : to \in UNIVERSAL, r \in Roles}
           \cup {Cmd("prove", i, "Done", "verifier"), Cmd("gated", i, None, "verifier")} :
           i \in Issues}

Names == {"advance", "escape", "prove", "gated"}
Ops == [cmd: Names, issue: Issues, to: BoardStates \cup {None}, role: Roles]

ASSUME NoneIsNoCommand == None \notin Ops /\ None \notin Names

ASSUME UnresolvedIsNoName == Unresolved \notin BoardStates \cup UNION Boards

(* A session starts on whatever board the earlier ones left.               *)
Init ==
    /\ states \in Boards
    /\ board \in [Issues -> states \cup {Unresolved}]
    /\ posted = [i \in Issues |-> {}]
    /\ streak = 0
    /\ pc = [a \in Agents |-> "idle"]
    /\ op = [a \in Agents |-> None]
    /\ loaded = [a \in Agents |-> 0]
    /\ stale = [a \in Agents |-> FALSE]
    /\ via = [i \in Issues |-> None]
    /\ reached = {} /\ excused = {}
    /\ heals = 0 /\ tickRaced = FALSE
    /\ commands = 0 /\ faults = 0

Issue(a) == op[a].issue
Goal(a) == <<op[a].issue, op[a].to>>
At(a, l) == pc[a] = l
Goto(a, l) == pc' = [pc EXCEPT ![a] = l]

(* id2state() finds the item's state, and state_id() its target.           *)
Resolves(i, to) == board[i] # Unresolved /\ to \in states

Fault == faults < MaxFaults /\ faults' = faults + 1

(* The command is over, done or not. *)
Leave(a) == Goto(a, "idle") /\ op' = [op EXCEPT ![a] = None]
                            /\ stale' = [stale EXCEPT ![a] = FALSE]

(* Mutant of First: prove goes straight to the transition. *)
FirstUnproven(cmd) == CASE cmd = "gated" -> "tick"
                        [] cmd \in {"advance", "prove"} -> "read"
                        [] OTHER -> "gate"

First(cmd) == CASE cmd = "gated" -> "tick"
                [] cmd = "advance" -> "read"
                [] OTHER -> "gate"

(* An agent starts a command.  One whose role may not set the target fails *)
(* at once and changes nothing; gated_prove runs its gate before it knows. *)
Start(a) ==
    /\ At(a, "idle")
    /\ commands < MaxCommands
    /\ \E c \in Commands :
          /\ c.cmd # "gated" => check_actor(a, c.role, c.to)
          /\ op' = [op EXCEPT ![a] = c]
          /\ Goto(a, First(c.cmd))
    /\ commands' = commands + 1
    /\ UNCHANGED <<itemVars, tickVars, stale, faults>>

(*------------------- gated_advance and run_state tick ------------------*)
(* Mutant of Tick: a file that cannot be parsed is taken as it is. *)
TickUnchecked(a) ==
    /\ At(a, "tick")
    /\ loaded' = [loaded EXCEPT ![a] = streak]
    /\ tickRaced' = (tickRaced \/ \E b \in Agents : At(b, "save"))
    /\ Goto(a, "save")
    /\ UNCHANGED <<itemVars, op, stale, streak, heals, commands, faults>>

(* tick() reads run_state.json; what json.loads rejects raises.            *)
Tick(a) ==
    /\ At(a, "tick")
    /\ \/ /\ streak = Torn
          /\ Leave(a)
          /\ UNCHANGED <<loaded, tickRaced>>
       \/ /\ streak # Torn
          /\ loaded' = [loaded EXCEPT ![a] = streak]
          /\ tickRaced' = (tickRaced \/ \E b \in Agents : At(b, "save"))
          /\ Goto(a, "save")
          /\ UNCHANGED <<op, stale>>
    /\ UNCHANGED <<itemVars, streak, heals, commands, faults>>

(* Mutant of Escalates: one self-heal too many. *)
EscalatesLate(n) == n > BLOCK_STREAK_HANDOFF
Escalates(n) == n >= BLOCK_STREAK_HANDOFF

Towards(a, to) ==
    /\ op' = [op EXCEPT ![a] = Cmd(op[a].cmd, op[a].issue, to, op[a].role)]
    /\ Goto(a, "gate")
    /\ UNCHANGED stale

(* The gate accepted: the streak is reset, the item may advance to Done.   *)
Accept(a) ==
    /\ At(a, "save")
    /\ streak' = 0
    /\ heals' = 0
    /\ Towards(a, "Done")
    /\ UNCHANGED <<itemVars, loaded, tickRaced, commands, faults>>

(* It rejected: self-heal, or HANDOFF after too many rejects in a row.     *)
Reject(a) ==
    /\ At(a, "save")
    /\ streak' = loaded[a] + 1
    /\ \/ Escalates(streak') /\ Towards(a, "HANDOFF") /\ UNCHANGED heals
       \/ ~Escalates(streak') /\ Leave(a) /\ heals' = heals + 1
    /\ UNCHANGED <<itemVars, loaded, tickRaced, commands, faults>>

(* write_text fails or the process dies in it: it had truncated the file.  *)
TearRunState(a) ==
    /\ At(a, "save")
    /\ Fault
    /\ streak' \in {streak, Torn}
    /\ Leave(a)
    /\ UNCHANGED <<itemVars, loaded, heals, tickRaced, commands>>

(*--------------------------- _gate and comments ------------------------*)
(* Mutant of Gate: the comment is written before anything is checked. *)
GateLater(a) ==
    /\ At(a, "gate")
    /\ Goto(a, "post")
    /\ stale' = [stale EXCEPT ![a] = FALSE]
    /\ UNCHANGED <<itemVars, tickVars, op, commands, faults>>

(* _gate: the actor check and the first read of the board.  An item whose  *)
(* state cannot be resolved passes for the universal targets.              *)
Gate(a) ==
    /\ At(a, "gate")
    /\ \/ /\ check_actor(a, op[a].role, op[a].to) /\ legal_edge(board[Issue(a)], op[a].to)
          /\ Goto(a, "post")
          /\ stale' = [stale EXCEPT ![a] = FALSE]
          /\ UNCHANGED op
       \/ /\ ~(check_actor(a, op[a].role, op[a].to) /\ legal_edge(board[Issue(a)], op[a].to))
          /\ Leave(a)
    /\ UNCHANGED <<itemVars, tickVars, commands, faults>>

Comment(a) ==
    /\ posted' = [posted EXCEPT ![Issue(a)] = @ \cup {op[a].to}]
    /\ reached' = reached \ {Goal(a)}
    /\ excused' = excused \ {Goal(a)}

(* post_evidence or comment.  A failed POST is retried by _api though the  *)
(* server may have stored it, or it raises in the end.                     *)
Post(a) ==
    /\ At(a, "post")
    /\ Comment(a)
    /\ Goto(a, "read")
    /\ UNCHANGED <<board, via, tickVars, op, stale, commands, faults>>

PostFails(a) ==
    /\ At(a, "post")
    /\ Fault
    /\ \/ Comment(a) /\ Goto(a, "post") /\ UNCHANGED <<op, stale>>
       \/ /\ posted' \in {posted, [posted EXCEPT ![Issue(a)] = @ \cup {op[a].to}]}
          /\ excused' = excused \cup {Goal(a)}
          /\ Leave(a)
          /\ UNCHANGED reached
    /\ UNCHANGED <<board, via, tickVars, commands>>

(*------------------------------- transition ----------------------------*)
(* Mutant of Read: transition() trusts the check _gate has made. *)
ReadTrusts(a) ==
    /\ At(a, "read")
    /\ check_actor(a, op[a].role, op[a].to) /\ Resolves(Issue(a), op[a].to)
    /\ Goto(a, "patch")
    /\ stale' = [stale EXCEPT ![a] = FALSE]
    /\ UNCHANGED <<itemVars, tickVars, op, commands, faults>>

(* transition() reads the board (again) and checks the edge.  It raises    *)
(* when the item's state cannot be resolved, which legal_edge would have   *)
(* let through, and when the target is not on this board.                  *)
MayPatch(a) ==
    /\ check_actor(a, op[a].role, op[a].to)
    /\ Resolves(Issue(a), op[a].to)
    /\ legal_edge(board[Issue(a)], op[a].to)

Read(a) ==
    /\ At(a, "read")
    /\ \/ /\ MayPatch(a)
          /\ Goto(a, "patch")
          /\ stale' = [stale EXCEPT ![a] = FALSE]
          /\ UNCHANGED <<op, excused>>
       \/ /\ ~MayPatch(a)
          /\ excused' = IF stale[a] THEN excused \cup {Goal(a)} ELSE excused
          /\ Leave(a)
    /\ UNCHANGED <<board, posted, via, reached, tickVars, commands, faults>>

(* The board takes the PATCH, whatever state the item is in by now.        *)
Moved(a) ==
    /\ board' = [board EXCEPT ![Issue(a)] = op[a].to]
    /\ via' = [via EXCEPT ![Issue(a)] = op[a].cmd]
    /\ reached' = reached \cup {Goal(a)}

Outdate(a) == [b \in Agents |->
    stale[b] \/ (b # a /\ op[b] # None /\ Issue(b) = Issue(a) /\ board' # board)]

Patch(a) ==
    /\ At(a, "patch")
    /\ Moved(a)
    /\ Goto(a, "idle")
    /\ op' = [op EXCEPT ![a] = None]
    /\ stale' = [Outdate(a) EXCEPT ![a] = FALSE]
    /\ UNCHANGED <<posted, excused, tickVars, commands, faults>>

(* The PATCH fails, with or without effect: _api retries it, or raises.    *)
PatchFails(a) ==
    /\ At(a, "patch")
    /\ Fault
    /\ \/ Moved(a)
       \/ UNCHANGED <<board, via, reached>>
    /\ \/ stale' = Outdate(a) /\ UNCHANGED <<pc, op, excused>>
       \/ /\ stale' = [Outdate(a) EXCEPT ![a] = FALSE]
          /\ Goto(a, "idle") /\ op' = [op EXCEPT ![a] = None]
          /\ excused' = excused \cup ({Goal(a)} \ reached')
    /\ UNCHANGED <<posted, tickVars, commands>>

(* A read fails for good, or the agent's process dies between requests.    *)
Die(a) ==
    /\ pc[a] \in {"tick", "gate", "post", "read", "patch"}
    /\ Fault
    /\ excused' = IF pc[a] \in {"post", "read", "patch"}
                  THEN excused \cup {Goal(a)} ELSE excused
    /\ Leave(a)
    /\ UNCHANGED <<board, posted, via, reached, tickVars, commands>>

Step(a) ==
    \/ Tick(a) \/ Accept(a) \/ Reject(a) \/ TearRunState(a)
    \/ Gate(a) \/ Post(a) \/ PostFails(a)
    \/ Read(a) \/ Patch(a) \/ PatchFails(a)
    \/ Die(a)

Next == UNCHANGED states /\ \E a \in Agents : Start(a) \/ Step(a)

Spec == Init /\ [][Next]_vars
--------------------------------------------------------------------------------
Labels == {"idle", "tick", "save", "gate", "post", "read", "patch"}
Goals == Issues \X BoardStates

(* Every variable in its range, every agent's command fits its place.      *)
TypeOK ==
    /\ states \in Boards
    /\ board \in [Issues -> states \cup {Unresolved}]
    /\ posted \in [Issues -> SUBSET ({"Done"} \cup UNIVERSAL)]
    /\ streak \in Nat \cup {Torn}
    /\ pc \in [Agents -> Labels]
    /\ op \in [Agents -> Ops \cup {None}]
    /\ \A a \in Agents :
          /\ pc[a] = "idle" <=> op[a] = None
          /\ pc[a] \in {"gate", "post"} => op[a].to \in {"Done"} \cup UNIVERSAL
          /\ pc[a] \in {"read", "patch"} => op[a].to \in BoardStates
          /\ pc[a] = "patch" => op[a].to \in states
    /\ loaded \in [Agents -> Nat]
    /\ stale \in [Agents -> BOOLEAN]
    /\ via \in [Issues -> Names \cup {None}]
    /\ reached \subseteq Goals /\ excused \subseteq Goals
    /\ heals \in Nat /\ tickRaced \in BOOLEAN
    /\ commands \in Nat /\ faults \in Nat

(* Gate order: every move of the board is a legal edge from the state it   *)
(* was in, but for a PATCH that was already on its way when another agent  *)
(* moved the item after transition() had read it.  So without such a race  *)
(* no state is skipped and no terminal state is ever left (transition).    *)
GateOrder ==
    [][\A i \in Issues : board'[i] # board[i] =>
          \/ legal_edge(board[i], board'[i])
          \/ \E a \in Agents : At(a, "patch") /\ Issue(a) = i /\ stale[a]]_vars

(* No orphaned comment: an Evidence_Record or a HANDOFF, BLOCKED or FAILED *)
(* comment is followed by its transition, unless another agent moved the   *)
(* item in between, the command was cut off, or the board cannot take the  *)
(* move: _gate accepts an item in an unresolvable state for HANDOFF,       *)
(* Blocked and Failed, and a target that the project lacks, and after the  *)
(* comment transition() raises (_gate before the write; transition).       *)
Underway(g) == \E a \in Agents : pc[a] \in {"post", "read", "patch"} /\ Goal(a) = g

NoOrphanedComment ==
    \A i \in Issues : \A t \in posted[i] :
        <<i, t>> \in reached \cup excused \/ Underway(<<i, t>>) \/ ~Resolves(i, t)

(* An item that prove or gated_prove set to Done carries an Evidence_Record*)
(* (prove, gated_prove: post_evidence precedes transition).                *)
ProvenHasEvidence ==
    \A i \in Issues :
        board[i] = "Done" /\ via[i] \in {"prove", "gated"} => "Done" \in posted[i]

(* A recurring reject "converts to HANDOFF rather than looping forever":   *)
(* fewer than BLOCK_STREAK_HANDOFF self-heals between two accepts, unless  *)
(* two agents' unlocked ticks overlapped (gated_advance, tick).            *)
SelfHealBounded == tickRaced \/ heals < BLOCK_STREAK_HANDOFF
================================================================================
