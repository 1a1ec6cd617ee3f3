-------------------------- MODULE MCWebhookReceiver --------------------------
(* Model-checking instance of WebhookReceiver: the handler threads are      *)
(* interchangeable.                                                         *)
EXTENDS WebhookReceiver, TLC

Symmetry == Permutations(Threads)
================================================================================
