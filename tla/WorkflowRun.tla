------------------------------ MODULE WorkflowRun ------------------------------
(***************************************************************************)
(* What a durable workflow promises (tools/durable_orchestrator.py): the   *)
(* decisions that survive a crash are one run of the workflow body.  The   *)
(* run only grows, by decisions the deployed body makes after the ones     *)
(* that are already there, and stops when the body has returned.           *)
(***************************************************************************)
EXTENDS Naturals, Sequences, SequencesExt

CONSTANTS
    Versions,   \* deployed versions of the workflow body
    Body,       \* Body[v][outcomes]: what version v does after these outcomes
    Return      \* the body returns

VARIABLES
    run,        \* durable decisions: a sequence of [command, outcome]
    complete,   \* the durable record says the body returned
    version     \* the deployed version

runVars == <<run, complete, version>>

OutcomesOf(r) == [n \in DOMAIN r |-> r[n].outcome]
Asks(v, r, n) == Body[v][OutcomesOf(SubSeq(r, 1, n))]

(* The first k decisions of r are those version v makes. *)
Makes(v, r, k) == \A n \in 1..k : Asks(v, r, n - 1) = r[n].command

Init ==
    /\ run = <<>>
    /\ complete = FALSE
    /\ version \in Versions

(* More of the run becomes durable, perhaps with the return of the body,   *)
(* which may come before decisions an earlier version had made.            *)
Commit ==
    /\ ~complete
    /\ IsPrefix(run, run')
    /\ run' # run => Makes(version, run', Len(run'))
    /\ complete' \in BOOLEAN
    /\ complete' => \E k \in 0..Len(run') :
          Makes(version, run', k) /\ Asks(version, run', k) = Return
    /\ UNCHANGED version

Upgrade ==
    /\ version' \in Versions
    /\ UNCHANGED <<run, complete>>

Spec == Init /\ [][Commit \/ Upgrade]_runVars
================================================================================
