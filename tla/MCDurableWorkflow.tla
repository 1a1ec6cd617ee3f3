--------------------------- MODULE MCDurableWorkflow ---------------------------
EXTENDS DurableWorkflow

CONSTANTS a, b, t, yes, list, tuple

(* The outcomes of up to three commands. *)
Runs == UNION {[1..n -> Outcomes] : n \in 0..3}
Do(name) == [type |-> "activity", name |-> name]
Wait == [type |-> "timer", name |-> t]

(* v1: a; unless it says yes, return; else wait and do b.  It hands off    *)
(* when an activity does.                                                  *)
V1 == [r \in Runs |->
    CASE r = <<>> -> Do(a)
      [] r # <<>> /\ r[Len(r)] = Failed -> Raise
      [] r = <<yes>> -> Wait
      [] Len(r) = 2 -> Do(b)
      [] OTHER -> Return]

(* v2: a, with b as the fallback when a handed off. *)
V2 == [r \in Runs |->
    CASE r = <<>> -> Do(a)
      [] r = <<Failed>> -> Do(b)
      [] r = <<Failed, Failed>> -> Raise
      [] OTHER -> Return]

(* v3: b, then wait. *)
V3 == [r \in Runs |->
    CASE r = <<>> -> Do(b)
      [] r = <<Failed>> -> Raise
      [] Len(r) = 1 -> Wait
      [] OTHER -> Return]

MCBody == [v \in {1, 2, 3} |-> CASE v = 1 -> V1 [] v = 2 -> V2 [] v = 3 -> V3]

(* A tuple comes back as a list with the same bytes. *)
MCLoaded == [v \in Values |-> IF v = tuple THEN list ELSE v]
MCCanonical == MCLoaded
================================================================================
