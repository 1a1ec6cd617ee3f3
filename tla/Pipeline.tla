-------------------------------- MODULE Pipeline --------------------------------
(***************************************************************************)
(* The way from a move on the Plane board to an agent: WebhookReceiver     *)
(* puts jobs on the queue, AgentConsumer takes them off it, and both meet  *)
(* the board as it is by then.                                             *)
(***************************************************************************)
EXTENDS WebhookReceiver, FiniteSets

CONSTANT MaxDeaths

VARIABLES offset, drain, runs, gone, deaths

INSTANCE AgentConsumer

consumerVars == <<offset, drain, runs, gone, deaths>>
allVars == <<vars, consumerVars>>
--------------------------------------------------------------------------------
PipelineInit == Init /\ ConsumerInit

PipelineNext ==
    \/ Next /\ UNCHANGED consumerVars
    \/ ConsumerNext /\ UNCHANGED <<sent, posts, memVars, seenFile, dispatchedFile, pc, req,
                                   histVars, crashes, faults>>

(* The consumer polls forever; a request, once received, is handled; and   *)
(* the board answers in the end, if it is asked about an item again and    *)
(* again and has not lost it.                                              *)
PipelineSpec ==
    /\ PipelineInit /\ [][PipelineNext]_allVars
    /\ WF_allVars(Drain /\ PipelineNext)
    /\ SF_allVars((Stale \/ Dispatch) /\ PipelineNext)
    /\ \A t \in Threads : WF_allVars(ThreadStep(t) /\ PipelineNext)
--------------------------------------------------------------------------------

(* From end to end, one delivery of Plane starts one agent, and another    *)
(* one only for a death of the consumer between the run and the commit of  *)
(* the offset, until the receiver evicts the delivery (_seen, drain).      *)
OneAgentPerDelivery ==
    \A n \in (1 .. Len(sent)) \ evicted :
        Cardinality({m \in DOMAIN runs : queue[runs[m]].delivery = n}) <= 1 + deaths

(* A job that is passed over was stale: its issue has left the state since *)
(* the event, in whatever order the handler threads queued the jobs.       *)
CurrentJobRuns ==
    \A k \in 1 .. offset :
        queue[k].kind = "agent_dispatch" =>
            \/ k \in {runs[n] : n \in DOMAIN runs}
            \/ \E m \in DOMAIN sent : /\ m > queue[k].delivery
                                      /\ sent[m].issue = queue[k].issue
                                      /\ sent[m].state # queue[k].state

(* The head of the queue is a job whose item the board has lost: _dispatch *)
(* calls every failure transient, so nothing behind it is ever handled.    *)
Wedged ==
    /\ offset < complete_lines
    /\ queue[offset + 1].kind = "agent_dispatch"
    /\ queue[offset + 1].issue \in gone

(* Every complete line is settled in the end, through outages of the board *)
(* of any number and length and past stale, foreign and damaged lines; or  *)
(* the queue is wedged by a job for an item the board refuses for good.    *)
QueueDrains == \A k \in 1 .. MaxPosts : k <= complete_lines ~> offset >= k \/ Wedged
================================================================================
