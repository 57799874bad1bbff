------------------------------ MODULE MCWaiting -----------------------------
(***************************************************************************)
(* TLC instance of WaitQ and DrvTimer, the two ways of a driver to wait.   *)
(* They share nothing: a behaviour is one of three tasks that wait on a    *)
(* queue and wake it, or one of a task with a timer.                       *)
(***************************************************************************)
EXTENDS WaitQ, DrvTimer

CONSTANTS t1, t2, t3

ThreeTasks == {t1, t2, t3}

VARIABLE part   \* the one of the two that runs

MCInit ==
    /\ QueueInit /\ TimerInit
    /\ part \in {"queue", "timer"}
    /\ part = "timer" => \A t \in Tasks : ~cond[t]

MCNext ==
    /\ UNCHANGED part
    /\ \/ part = "queue" /\ QueueNext /\ UNCHANGED timerVars
       \/ part = "timer" /\ TimerNext /\ UNCHANGED queueVars

MCFairness ==
    /\ TaskFairness /\ TimerFairness
    /\ WF_timerVars(TaskStep) /\ WF_timerVars(Tick \/ Expire)

MCSpec == MCInit /\ [][MCNext]_<<part, queueVars, timerVars>> /\ MCFairness
=============================================================================
