-------------------------------- MODULE WaitQ --------------------------------
(***************************************************************************)
(* drv_waitq (src/drv_waitq.c): wait for a condition guarded by a          *)
(* SignalSemaphore, with a timeout.                                        *)
(*                                                                         *)
(* Tasks share one queue and one lock.  A task that holds the lock may     *)
(* change the guarded state and then call drv_wake_up_all(), or call       *)
(* drv_wait_event() for its own condition cond[t].  One step of a task is  *)
(* one call into exec (SendIO, AddTail, ReleaseSemaphore, Wait, ...), so   *)
(* other tasks and the timer interrupt run between any two of them.        *)
(*                                                                         *)
(* Exec is external: the semaphore has one owner; Wait() sleeps until the  *)
(* task's bit is set and clears it; a timer request that expires or is     *)
(* aborted is replied to its port, which sets the port's bit; CheckIO()    *)
(* is true once it is replied; WaitIO() takes the message, not the signal. *)
(***************************************************************************)
EXTENDS Naturals

CONSTANTS Tasks,   \* the tasks that use the queue
          Nobody   \* no owner

ASSUME NobodyAssumption == Nobody \notin Tasks

VARIABLES queuePc,    \* queuePc[t]: the next call of task t
          lock,       \* the semaphore's owner
          cond,       \* cond[t]: pred(a, b) of task t, a function of the guarded state
          waiters,    \* wq->waiters: the tasks whose drv_waiter is linked
          todo,       \* todo[t]: the list entries drv_wake_up_all() in t has still to signal
          timer_open, \* wq->timer_open
          opens,      \* OpenDevice() minus CloseDevice() calls on wq->timer
          port,       \* port[t]: the wait's message port exists, its signal bit is allocated
          pending,    \* pending[t]: that bit is set in the task's received signals
          timer,      \* timer[t]: where the wait's own timerequest is
          rc          \* rc[t]: drv_wait_event()'s rc, kept after the return until t goes on

queueVars == <<queuePc, lock, cond, waiters, todo, timer_open, opens, port, pending, timer, rc>>

\* Outside the queue: without the lock, and with it.
CallerPcs == {"idle", "owner"}
\* drv_wait_event() before its AddTail, with the lock.
SetupPcs == {"open", "port", "send", "queue"}
\* drv_wait_event() after its last check, with the lock.
FinishPcs == {"unlink", "abort", "collect", "clear"}
\* The waiter's node is linked.
ListedPcs == {"release", "sleep", "obtain", "check", "unlink"}
WaitPcs == SetupPcs \cup ListedPcs \cup FinishPcs
\* The task holds the lock.
HolderPcs == {"owner", "wake", "release", "check"} \cup SetupPcs \cup FinishPcs

Replied == {"expired", "aborted"}

QueueTypeOK ==
    /\ queuePc \in [Tasks -> CallerPcs \cup {"wake"} \cup WaitPcs]
    /\ lock \in Tasks \cup {Nobody}
    /\ cond \in [Tasks -> BOOLEAN]
    /\ waiters \in SUBSET Tasks
    /\ todo \in [Tasks -> SUBSET Tasks]
    /\ timer_open \in BOOLEAN
    /\ opens \in Nat
    /\ port \in [Tasks -> BOOLEAN]
    /\ pending \in [Tasks -> BOOLEAN]
    /\ timer \in [Tasks -> {"unsent", "inflight"} \cup Replied]
    /\ rc \in [Tasks -> {"none", "OK", "TIMEOUT", "NO_RESOURCES"}]

\* drv_waitq_init(): an empty list, timer not open.
QueueInit ==
    /\ queuePc = [t \in Tasks |-> "idle"]
    /\ lock = Nobody
    /\ cond \in [Tasks -> BOOLEAN]
    /\ waiters = {}
    /\ todo = [t \in Tasks |-> {}]
    /\ timer_open = FALSE
    /\ opens = 0
    /\ port = [t \in Tasks |-> FALSE]
    /\ pending = [t \in Tasks |-> FALSE]
    /\ timer = [t \in Tasks |-> "unsent"]
    /\ rc = [t \in Tasks |-> "none"]

QueueGoto(t, from, to) == queuePc[t] = from /\ queuePc' = [queuePc EXCEPT ![t] = to]

\* What the calls of one group leave alone.
QueueState == <<waiters, timer_open, opens>>
WaitState  == <<port, pending, timer>>

-----------------------------------------------------------------------------
(* The callers: they take the lock, change the guarded state, and give the *)
(* lock back.                                                              *)

CallerObtain(t) ==
    /\ QueueGoto(t, "idle", "owner")
    /\ lock = Nobody
    /\ lock' = t
    /\ UNCHANGED <<cond, todo, rc, QueueState, WaitState>>

CallerRelease(t) ==
    /\ QueueGoto(t, "owner", "idle")
    /\ lock' = Nobody
    /\ rc' = [rc EXCEPT ![t] = "none"]
    /\ UNCHANGED <<cond, todo, QueueState, WaitState>>

\* Whoever changes the guarded state calls drv_wake_up_all() before it lets
\* the lock go; the walk starts at the list's head.
ChangeState(t) ==
    /\ QueueGoto(t, "owner", "wake")
    /\ cond' \in [Tasks -> BOOLEAN]
    /\ todo' = [todo EXCEPT ![t] = waiters]
    /\ rc' = [rc EXCEPT ![t] = "none"]
    /\ UNCHANGED <<lock, QueueState, WaitState>>

\* drv_wake_up_all(): one Signal() per list entry.
WakeOne_First(t) ==
    /\ \E w \in todo[t] :
          /\ pending' = [pending EXCEPT ![w] = TRUE]
          /\ todo' = [todo EXCEPT ![t] = {}]
    /\ queuePc[t] = "wake"
    /\ UNCHANGED <<queuePc, lock, cond, port, timer, rc, QueueState>>

WakeOne(t) ==
    /\ queuePc[t] = "wake"
    /\ \E w \in todo[t] :
          /\ pending' = [pending EXCEPT ![w] = TRUE]
          /\ todo' = [todo EXCEPT ![t] = @ \ {w}]
    /\ UNCHANGED <<queuePc, lock, cond, port, timer, rc, QueueState>>

WakeDone(t) ==
    /\ QueueGoto(t, "wake", "owner")
    /\ todo[t] = {}
    /\ UNCHANGED <<lock, cond, todo, rc, QueueState, WaitState>>

\* drv_waitq_cleanup(): by contract no waiter is on the queue, and nobody uses it.
Cleanup ==
    /\ \A t \in Tasks : queuePc[t] = "idle"
    /\ timer_open
    /\ timer_open' = FALSE
    /\ opens' = opens - 1
    /\ UNCHANGED <<queuePc, lock, cond, waiters, todo, rc, WaitState>>

-----------------------------------------------------------------------------
(* drv_wait_event() *)

\* Lines 58-59: a condition that holds already costs nothing.
EnterSatisfied(t) ==
    /\ queuePc[t] = "owner"
    /\ cond[t]
    /\ rc' = [rc EXCEPT ![t] = "OK"]
    /\ UNCHANGED <<queuePc, lock, cond, todo, QueueState, WaitState>>

\* Lines 58-60 and timer_ready()'s first test.
TimerReady(t) == IF timer_open THEN "port" ELSE "open"

EnterWait(t) ==
    /\ ~cond[t]
    /\ QueueGoto(t, "owner", TimerReady(t))
    /\ rc' = [rc EXCEPT ![t] = "none"]
    /\ UNCHANGED <<lock, cond, todo, QueueState, WaitState>>

\* timer_ready()'s OpenDevice(): it may fail, and then the wait does.
OpenTimer(t) ==
    /\ QueueGoto(t, "open", "port")
    /\ timer_open' = TRUE
    /\ opens' = opens + 1
    /\ UNCHANGED <<lock, cond, waiters, todo, rc, WaitState>>

OpenTimerFails(t) ==
    /\ QueueGoto(t, "open", "owner")
    /\ rc' = [rc EXCEPT ![t] = "NO_RESOURCES"]
    /\ UNCHANGED <<lock, cond, todo, QueueState, WaitState>>

CreatePort(t) ==
    /\ QueueGoto(t, "port", "send")
    /\ port' = [port EXCEPT ![t] = TRUE]
    /\ UNCHANGED <<lock, cond, todo, pending, timer, rc, QueueState>>

CreatePortFails(t) ==
    /\ QueueGoto(t, "port", "owner")
    /\ rc' = [rc EXCEPT ![t] = "NO_RESOURCES"]
    /\ UNCHANGED <<lock, cond, todo, QueueState, WaitState>>

SendTimer(t) ==
    /\ QueueGoto(t, "send", "queue")
    /\ timer' = [timer EXCEPT ![t] = "inflight"]
    /\ UNCHANGED <<lock, cond, todo, port, pending, rc, QueueState>>

\* AddTail() and rc = DRV_WAIT_OK.
Enqueue(t) ==
    /\ QueueGoto(t, "queue", "release")
    /\ waiters' = waiters \cup {t}
    /\ rc' = [rc EXCEPT ![t] = "OK"]
    /\ UNCHANGED <<lock, cond, todo, timer_open, opens, WaitState>>

ReleaseLock(t) ==
    /\ QueueGoto(t, "release", "sleep")
    /\ lock' = Nobody
    /\ UNCHANGED <<cond, todo, rc, QueueState, WaitState>>

\* Wait(waiter.sigmask): returns once the bit is set, and clears it.
Sleep(t) ==
    /\ QueueGoto(t, "sleep", "obtain")
    /\ pending[t]
    /\ pending' = [pending EXCEPT ![t] = FALSE]
    /\ UNCHANGED <<lock, cond, todo, port, timer, rc, QueueState>>

ObtainLock(t) ==
    /\ QueueGoto(t, "obtain", "check")
    /\ lock = Nobody
    /\ lock' = t
    /\ UNCHANGED <<cond, todo, rc, QueueState, WaitState>>

\* Lines 84-90, the loop's tests: the predicate first, then the timer.
CheckTrue(t) ==
    /\ QueueGoto(t, "check", "unlink")
    /\ cond[t]
    /\ UNCHANGED <<lock, cond, todo, rc, QueueState, WaitState>>

\* The timer is looked at before the predicate.
CheckTimeout_First(t) ==
    /\ QueueGoto(t, "check", "unlink")
    /\ timer[t] \in Replied
    /\ rc' = [rc EXCEPT ![t] = "TIMEOUT"]
    /\ UNCHANGED <<lock, cond, todo, QueueState, WaitState>>

\* The expired request is sent again, and the wait goes on.
CheckTimeout_Rearms(t) ==
    /\ QueueGoto(t, "check", "release")
    /\ ~cond[t]
    /\ timer[t] \in Replied
    /\ timer' = [timer EXCEPT ![t] = "inflight"]
    /\ UNCHANGED <<lock, cond, todo, rc, QueueState, port, pending>>

CheckTimeout(t) ==
    /\ QueueGoto(t, "check", "unlink")
    /\ ~cond[t]
    /\ timer[t] \in Replied
    /\ rc' = [rc EXCEPT ![t] = "TIMEOUT"]
    /\ UNCHANGED <<lock, cond, todo, QueueState, WaitState>>

CheckAgain(t) ==
    /\ QueueGoto(t, "check", "release")
    /\ ~cond[t]
    /\ timer[t] \notin Replied
    /\ UNCHANGED <<lock, cond, todo, rc, QueueState, WaitState>>

Unlink(t) ==
    /\ QueueGoto(t, "unlink", "abort")
    /\ waiters' = waiters \ {t}
    /\ UNCHANGED <<lock, cond, todo, timer_open, opens, rc, WaitState>>

\* Lines 94-95: AbortIO() replies a request still in flight, which sets the bit.
AbortTimer_Skipped(t) ==
    /\ QueueGoto(t, "abort", "collect")
    /\ UNCHANGED <<lock, cond, todo, rc, QueueState, WaitState>>

AbortTimer(t) ==
    /\ QueueGoto(t, "abort", "collect")
    /\ IF timer[t] = "inflight"
         THEN /\ timer' = [timer EXCEPT ![t] = "aborted"]
              /\ pending' = [pending EXCEPT ![t] = TRUE]
         ELSE UNCHANGED <<timer, pending>>
    /\ UNCHANGED <<lock, cond, todo, port, rc, QueueState>>

\* WaitIO(): blocks until the request is replied, then takes the message.
CollectTimer_NoWait(t) ==
    /\ QueueGoto(t, "collect", "clear")
    /\ UNCHANGED <<lock, cond, todo, port, pending, timer, rc, QueueState>>

CollectTimer(t) ==
    /\ QueueGoto(t, "collect", "clear")
    /\ timer[t] \in Replied
    /\ timer' = [timer EXCEPT ![t] = "unsent"]
    /\ UNCHANGED <<lock, cond, todo, port, pending, rc, QueueState>>

\* SetSignal(0, sigmask), DeleteMsgPort() and the return.
FreePort_NoClear(t) ==
    /\ QueueGoto(t, "clear", "owner")
    /\ port' = [port EXCEPT ![t] = FALSE]
    /\ UNCHANGED <<lock, cond, todo, pending, timer, rc, QueueState>>

FreePort(t) ==
    /\ QueueGoto(t, "clear", "owner")
    /\ pending' = [pending EXCEPT ![t] = FALSE]
    /\ port' = [port EXCEPT ![t] = FALSE]
    /\ UNCHANGED <<lock, cond, todo, timer, rc, QueueState>>

-----------------------------------------------------------------------------
\* The timer interrupt: the request expires and is replied to its port.
TimerExpires(t) ==
    /\ timer[t] = "inflight"
    /\ timer' = [timer EXCEPT ![t] = "expired"]
    /\ pending' = [pending EXCEPT ![t] = TRUE]
    /\ UNCHANGED <<queuePc, lock, cond, todo, port, rc, QueueState>>

Caller(t) == CallerObtain(t) \/ CallerRelease(t) \/ ChangeState(t)

WakeUpAll(t) == WakeOne(t) \/ WakeDone(t)

\* drv_wait_event() from its first call into exec on, the last obtain apart.
WaitStep(t) ==
    \/ OpenTimer(t) \/ OpenTimerFails(t) \/ CreatePort(t) \/ CreatePortFails(t)
    \/ SendTimer(t) \/ Enqueue(t) \/ ReleaseLock(t) \/ Sleep(t)
    \/ CheckTrue(t) \/ CheckTimeout(t) \/ CheckAgain(t)
    \/ Unlink(t) \/ AbortTimer(t) \/ CollectTimer(t) \/ FreePort(t)

QueueNext ==
    \/ Cleanup
    \/ \E t \in Tasks :
          \/ Caller(t) \/ WakeUpAll(t)
          \/ EnterSatisfied(t) \/ EnterWait(t) \/ WaitStep(t) \/ ObtainLock(t)
          \/ TimerExpires(t)

\* A runnable task runs; the semaphore is first come, first served; a caller
\* that keeps coming back to its "owner" state releases the lock some time.
TaskFairness ==
    \A t \in Tasks : /\ WF_queueVars(WaitStep(t)) /\ WF_queueVars(WakeUpAll(t))
                     /\ SF_queueVars(ObtainLock(t)) /\ SF_queueVars(CallerRelease(t))

\* timer.device replies every request in the end.
TimerFairness == \A t \in Tasks : WF_queueVars(TimerExpires(t))

QueueSpec == QueueInit /\ [][QueueNext]_queueVars

FairQueueSpec == QueueSpec /\ TaskFairness /\ TimerFairness

-----------------------------------------------------------------------------
(* Properties *)

\* The lock has one owner, and it is the task that the code believes holds it:
\* drv_wait_event() is entered and returns with the lock held, and gives it up
\* only between ReleaseSemaphore() and ObtainSemaphore().
LockHeld == \A t \in Tasks : (lock = t) <=> (queuePc[t] \in HolderPcs)

\* A waiter is on the list from before its first release of the lock until
\* after its last obtain (drv_waitq.h), and at no other time: no stack node of a
\* returned wait is left linked.
ListedWhileWaiting == \A t \in Tasks : (t \in waiters) <=> (queuePc[t] \in ListedPcs)

\* No change is missed: a task asleep in Wait() whose condition holds has its
\* bit set already, or the holder that made it true has yet to signal it.
NoLostWakeup ==
    \A t \in Tasks :
        queuePc[t] = "sleep" /\ cond[t]
            => \/ pending[t]
               \/ \E w \in Tasks : lock = w /\ queuePc[w] = "wake" /\ t \in todo[w]

\* No bit is signalled after it is freed, and a freed bit is left clear: the
\* next owner of the bit never sees a wake-up of this wait.
FreedBitClean == \A t \in Tasks : ~port[t] => ~pending[t]

\* The request lives on drv_wait_event()'s stack and replies to the wait's own
\* port: timer.device has it only while both exist and the device is open.
RequestOnLiveStack ==
    \A t \in Tasks :
        timer[t] # "unsent" => queuePc[t] \in WaitPcs /\ port[t] /\ timer_open

\* A wait that is over does not sleep out its timeout with the lock held:
\* at WaitIO() the request has been replied.
CollectNeverBlocks == \A t \in Tasks : queuePc[t] = "collect" => timer[t] \in Replied

\* On return, with the lock still held, OK means the condition holds, and
\* TIMEOUT and NO_RESOURCES mean it does not.
TruthfulReturn ==
    \A t \in Tasks :
        queuePc[t] = "owner" => /\ rc[t] = "OK" => cond[t]
                                /\ rc[t] \in {"TIMEOUT", "NO_RESOURCES"} => ~cond[t]

\* TIMEOUT is decided only when the wait's own timer has run out: never by a
\* wake-up, never by the abort.
TimeoutIsExpiry ==
    \A t \in Tasks :
        rc[t] = "TIMEOUT" /\ queuePc[t] \in {"unlink", "abort", "collect"}
            => timer[t] = "expired"

\* timer.device is opened once, however many tasks wait first, and closed by
\* drv_waitq_cleanup().
OpenedOnce == opens = IF timer_open THEN 1 ELSE 0

\* How the queue looks to its callers: a wait that sleeps has begun once its node
\* is linked and lasts until it returns; its result is seen at the return.
AbsWaiting == {t \in Tasks : queuePc[t] \in ListedPcs \cup FinishPcs}
AbsResult  == [t \in Tasks |-> IF queuePc[t] = "owner" THEN rc[t] ELSE "none"]

Abs == INSTANCE WaitQAbs WITH None <- Nobody, waiting <- AbsWaiting, result <- AbsResult

\* drv_waitq implements a condition variable with a timeout, its liveness included:
\* every wait that sleeps gets the lock back and returns.
AbsSpec == Abs!Spec

-----------------------------------------------------------------------------
(* The inductive invariant behind the safety properties. *)

\* Where a task's port, request and rc exist, by how far its wait has got.
PortPcs  == {"send", "queue"} \cup ListedPcs \cup {"abort", "collect", "clear"}
TimerPcs == {"queue"} \cup ListedPcs \cup {"abort", "collect"}
OpenPcs  == {"port"} \cup PortPcs

PortInv  == \A t \in Tasks : port[t] <=> (queuePc[t] \in PortPcs)

TimerInv ==
    \A t \in Tasks : /\ (timer[t] # "unsent") <=> (queuePc[t] \in TimerPcs)
                     /\ timer[t] = "aborted" => queuePc[t] = "collect"

DeviceInv ==
    \A t \in Tasks : /\ queuePc[t] \in OpenPcs => timer_open
                     /\ queuePc[t] = "open" => ~timer_open

\* drv_wake_up_all() walks the list only with the lock, so never past its members.
WalkInv ==
    \A t \in Tasks : /\ todo[t] \subseteq waiters
                     /\ queuePc[t] # "wake" => todo[t] = {}

\* From a false predicate to the release of the lock the predicate stays false;
\* from the loop's exit to the return, rc stays true of it; a caller that went
\* on has no rc left.
CondInv ==
    \A t \in Tasks :
        /\ queuePc[t] \in SetupPcs \cup {"release"} => ~cond[t]
        /\ queuePc[t] \in {"release", "sleep", "obtain", "check"} => rc[t] = "OK"
        /\ queuePc[t] \in {"idle", "wake"} => rc[t] = "none"
        /\ queuePc[t] \in FinishPcs =>
              rc[t] = IF cond[t] THEN "OK" ELSE "TIMEOUT"

\* Everything the safety properties rest on, and they themselves.
QueueIndInv ==
    /\ QueueTypeOK /\ LockHeld /\ ListedWhileWaiting
    /\ PortInv /\ TimerInv /\ DeviceInv /\ WalkInv /\ CondInv
    /\ NoLostWakeup /\ FreedBitClean /\ CollectNeverBlocks
    /\ TruthfulReturn /\ TimeoutIsExpiry /\ OpenedOnce
=============================================================================
