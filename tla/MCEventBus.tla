------------------------------- MODULE MCEventBus -------------------------------
(* Model-checking instance of EventBus: two handlers with their own keys.    *)
EXTENDS EventBus, TLC

CONSTANTS t1, t2, h1, h2

HandlerKeys == h1 :> "k1" @@ h2 :> "k2"
================================================================================
