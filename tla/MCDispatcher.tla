------------------------------ MODULE MCDispatcher ------------------------------
(* Model-checking instance of Dispatcher: a good job, one with an unknown    *)
(* role and a comment line the dispatcher must pass over.                    *)
EXTENDS Dispatcher

Line(kind, role, issue, state, n) ==
    [kind |-> kind, role |-> role, issue |-> issue, state |-> state, delivery |-> n]

MixedLines ==
    {Line("agent_dispatch", "implementer", "i1", "Plan-Approved", 1),
     Line("agent_dispatch", "janitor", "i2", "Agent-Triaged", 3),
     Line("comment", None, "i1", None, 4)}

Roles == {"initializer", "implementer", "verifier"}
================================================================================
