---------------------------- MODULE MCEvidenceStore ----------------------------
(* Model-checking instance of EvidenceStore: the writers of one database     *)
(* file are interchangeable.                                                 *)
EXTENDS EvidenceStore, TLC

Symmetry == Permutations(Writers)
================================================================================
