----------------------------- MODULE AgentConsumer -----------------------------
(***************************************************************************)
(* plane-integration/agent_consumer.py: the reader of .agent_queue.jsonl.  *)
(* The queue and the board belong to others; the consumer owns the file    *)
(* with the committed offset.  A drain is cut where the board or the       *)
(* offset is read or written and where a crash leaves a trace.             *)
(***************************************************************************)
EXTENDS Naturals, Sequences

CONSTANT MaxDeaths     \* bound: crashes of the consumer

VARIABLES
    board, queue,     \* as in WebhookReceiver
    offset,           \* .agent_queue.offset: lines settled
    drain,            \* where the drain is: [at, line, complete]
    runs,             \* history: lines a dispatch command was started for
    gone,             \* items the board refuses for good: deleted, or not ours to see
    deaths
--------------------------------------------------------------------------------
Idle == [at |-> "idle", line |-> 0, complete |-> 0]

ConsumerInit ==
    /\ offset = 0
    /\ drain = Idle
    /\ runs = <<>>
    /\ gone = {}
    /\ deaths = 0

(* A last line without its newline is not there yet. *)
complete_lines ==
    IF queue # <<>> /\ queue[Len(queue)].kind = "partial" THEN Len(queue) - 1
    ELSE Len(queue)

(* drain() starts: the text and the offset are read once. *)
StartDrain ==
    /\ drain = Idle
    /\ offset < complete_lines
    /\ drain' = [at |-> "line", line |-> offset + 1, complete |-> complete_lines]
    /\ UNCHANGED <<offset, runs, deaths, gone>>

Job == queue[drain.line]

(* The next line of the text, or the end of the drain. *)
Commit ==
    /\ offset' = drain.line
    /\ drain' = IF drain.line < drain.complete
                THEN [drain EXCEPT !.at = "line", !.line = @ + 1] ELSE Idle

(* Mutant of Skip: the drain stops at such a line. *)
SkipStops ==
    /\ drain.at = "line" /\ Job.kind # "agent_dispatch"
    /\ drain' = Idle
    /\ UNCHANGED <<offset, runs, deaths, gone>>

(* A line that does not parse or is not a dispatch is passed over. *)
Skip ==
    /\ drain.at = "line" /\ Job.kind # "agent_dispatch"
    /\ Commit
    /\ UNCHANGED <<runs, deaths, gone>>

(* Mutant of Unreachable: the failed job counts as settled. *)
UnreachableSettles ==
    /\ drain.at = "line" /\ Job.kind = "agent_dispatch"
    /\ Commit
    /\ UNCHANGED <<runs, deaths, gone>>

(* _dispatch: get_issue raises, be it for an outage or because the item is *)
(* gone; either way the drain stops at this line, to try it again.         *)
Unreachable ==
    /\ drain.at = "line" /\ Job.kind = "agent_dispatch"
    /\ drain' = Idle
    /\ UNCHANGED <<offset, runs, deaths, gone>>

(* The board answers: no failure of get_issue is for ever. *)
Answers == drain.at = "line" /\ Job.kind = "agent_dispatch" /\ Job.issue \notin gone

(* The board has moved on: the job is dropped. *)
Stale ==
    /\ Answers
    /\ board[Job.issue] # Job.state
    /\ Commit
    /\ UNCHANGED <<runs, deaths, gone>>

(* Mutant of Dispatch: the offset is not kept back while the command runs, *)
(* nor advanced after it.                                                  *)
DispatchUncommitted ==
    /\ Answers
    /\ board[Job.issue] = Job.state
    /\ runs' = Append(runs, drain.line)
    /\ drain' = Idle
    /\ UNCHANGED <<offset, deaths, gone>>

(* The board is where the job says: the command is started.  Its exit      *)
(* status is not looked at.                                                *)
Dispatch ==
    /\ Answers
    /\ board[Job.issue] = Job.state
    /\ runs' = Append(runs, drain.line)
    /\ drain' = [drain EXCEPT !.at = "ran"]
    /\ UNCHANGED <<offset, deaths, gone>>

Settle ==
    /\ drain.at = "ran"
    /\ Commit
    /\ UNCHANGED <<runs, deaths, gone>>

(* The consumer dies and is started again. *)
ConsumerDies ==
    /\ drain # Idle
    /\ deaths < MaxDeaths /\ deaths' = deaths + 1
    /\ drain' = Idle
    /\ UNCHANGED <<offset, runs, gone>>

(* An item is deleted, or the key loses its right to it: a 404 or a 403,   *)
(* which _api raises at once and _dispatch takes for a transient failure.  *)
Vanish ==
    /\ \E i \in DOMAIN board \ gone : gone' = gone \cup {i}
    /\ UNCHANGED <<offset, drain, runs, deaths>>

Drain == StartDrain \/ Skip \/ Stale \/ Dispatch \/ Unreachable \/ Settle

ConsumerNext == (Drain \/ ConsumerDies \/ Vanish) /\ UNCHANGED <<board, queue>>
================================================================================
