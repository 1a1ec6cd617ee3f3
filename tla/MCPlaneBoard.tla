------------------------------ MODULE MCPlaneBoard ------------------------------
(* Model-checking instance of PlaneBoard: a verifier that also holds the     *)
(* human secret, and an implementer that holds none, on one work item.       *)
EXTENDS PlaneBoard

VerifierAndImplementer == [v |-> {"verifier", "human"}, i |-> {}]

(* The project of the documentation, and one with a state of its own that    *)
(* has lost one of the twelve.                                               *)
TwoBoards == {BoardStates, (BoardStates \ {"HANDOFF"}) \cup {"Todo"}}
================================================================================
