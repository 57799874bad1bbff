---------------------------- MODULE DriverProofs ----------------------------
(***************************************************************************)
(* The safety properties of what every driver is built from: its wait      *)
(* queues (WaitQ), its timer (DrvTimer), the claim on its hardware and the *)
(* pins it then sets (HwClaim, BcmGpio), and its worker task (DriverTask). *)
(* The four are independent of each other; each part has its own invariant.*)
(***************************************************************************)
EXTENDS DriverTask, DrvTimer, BcmGpio, WaitQ, Integers, TLAPS

-----------------------------------------------------------------------------
(***************************************************************************)
(* WaitQ, for any set of tasks.                                            *)
(*                                                                         *)
(* None of its properties is inductive by itself: what a step may do       *)
(* depends on who holds the lock, and a task's own state (its port, its    *)
(* request, its rc) on how far its wait got.  QueueIndInv (in WaitQ)       *)
(* collects those ties; here one lemma per action shows that the action    *)
(* keeps it.                                                               *)
(***************************************************************************)
LEMMA QueueInitInd == ASSUME QueueInit PROVE QueueIndInv
BY NobodyAssumption
   DEF QueueInit, QueueIndInv, QueueTypeOK, LockHeld, ListedWhileWaiting, PortInv, TimerInv,
       DeviceInv, WalkInv, CondInv, NoLostWakeup, FreedBitClean,
       CollectNeverBlocks, TruthfulReturn, TimeoutIsExpiry, OpenedOnce,
       CallerPcs, SetupPcs, FinishPcs, ListedPcs, WaitPcs, HolderPcs, Replied,
       PortPcs, TimerPcs, OpenPcs

-----------------------------------------------------------------------------
(* Each conjunct speaks of queuePc[t] and of one more variable, and an action    *)
(* moves one task: with the conjuncts and the sets of queuePc values expanded,   *)
(* each action is one leaf, or one leaf per conjunct it could disturb.      *)

USE NobodyAssumption
USE DEF QueueIndInv, QueueTypeOK, LockHeld, ListedWhileWaiting, PortInv, TimerInv,
        DeviceInv, WalkInv, CondInv, NoLostWakeup, FreedBitClean,
        CollectNeverBlocks, TruthfulReturn, TimeoutIsExpiry, OpenedOnce
USE DEF CallerPcs, SetupPcs, FinishPcs, ListedPcs, WaitPcs, HolderPcs, Replied,
        PortPcs, TimerPcs, OpenPcs, QueueState, WaitState, QueueGoto

(* The callers and drv_wake_up_all(). *)

LEMMA CallerObtainStep == ASSUME QueueIndInv, NEW t \in Tasks, CallerObtain(t) PROVE QueueIndInv'
BY DEF CallerObtain

LEMMA CallerReleaseStep == ASSUME QueueIndInv, NEW t \in Tasks, CallerRelease(t) PROVE QueueIndInv'
BY DEF CallerRelease

LEMMA ChangeStateStep == ASSUME QueueIndInv, NEW t \in Tasks, ChangeState(t) PROVE QueueIndInv'
BY DEF ChangeState

LEMMA WakeOneStep == ASSUME QueueIndInv, NEW t \in Tasks, WakeOne(t) PROVE QueueIndInv'
BY DEF WakeOne

LEMMA WakeDoneStep == ASSUME QueueIndInv, NEW t \in Tasks, WakeDone(t) PROVE QueueIndInv'
BY DEF WakeDone

(* drv_wait_event() up to its first release of the lock. *)

LEMMA EnterSatisfiedStep == ASSUME QueueIndInv, NEW t \in Tasks, EnterSatisfied(t) PROVE QueueIndInv'
BY DEF EnterSatisfied

LEMMA EnterWaitStep == ASSUME QueueIndInv, NEW t \in Tasks, EnterWait(t) PROVE QueueIndInv'
BY DEF EnterWait, TimerReady

LEMMA OpenTimerStep == ASSUME QueueIndInv, NEW t \in Tasks, OpenTimer(t) PROVE QueueIndInv'
BY DEF OpenTimer

LEMMA OpenTimerFailsStep == ASSUME QueueIndInv, NEW t \in Tasks, OpenTimerFails(t) PROVE QueueIndInv'
BY DEF OpenTimerFails

LEMMA CreatePortStep == ASSUME QueueIndInv, NEW t \in Tasks, CreatePort(t) PROVE QueueIndInv'
BY DEF CreatePort

LEMMA CreatePortFailsStep == ASSUME QueueIndInv, NEW t \in Tasks, CreatePortFails(t) PROVE QueueIndInv'
BY DEF CreatePortFails

LEMMA SendTimerStep == ASSUME QueueIndInv, NEW t \in Tasks, SendTimer(t) PROVE QueueIndInv'
BY DEF SendTimer

LEMMA EnqueueStep == ASSUME QueueIndInv, NEW t \in Tasks, Enqueue(t) PROVE QueueIndInv'
BY DEF Enqueue

(* Its loop. *)

LEMMA ReleaseLockStep == ASSUME QueueIndInv, NEW t \in Tasks, ReleaseLock(t) PROVE QueueIndInv'
BY DEF ReleaseLock

LEMMA SleepStep == ASSUME QueueIndInv, NEW t \in Tasks, Sleep(t) PROVE QueueIndInv'
BY DEF Sleep

LEMMA ObtainLockStep == ASSUME QueueIndInv, NEW t \in Tasks, ObtainLock(t) PROVE QueueIndInv'
BY DEF ObtainLock

LEMMA CheckTrueStep == ASSUME QueueIndInv, NEW t \in Tasks, CheckTrue(t) PROVE QueueIndInv'
BY DEF CheckTrue

LEMMA CheckTimeoutStep == ASSUME QueueIndInv, NEW t \in Tasks, CheckTimeout(t) PROVE QueueIndInv'
BY DEF CheckTimeout

LEMMA CheckAgainStep == ASSUME QueueIndInv, NEW t \in Tasks, CheckAgain(t) PROVE QueueIndInv'
BY DEF CheckAgain

(* Its way out, and the timer interrupt. *)

LEMMA UnlinkStep == ASSUME QueueIndInv, NEW t \in Tasks, Unlink(t) PROVE QueueIndInv'
BY DEF Unlink

LEMMA AbortTimerStep == ASSUME QueueIndInv, NEW t \in Tasks, AbortTimer(t) PROVE QueueIndInv'
<1>1. CASE timer[t] = "inflight"
  <2>1. /\ queuePc[t] = "abort" /\ queuePc' = [queuePc EXCEPT ![t] = "collect"]
        /\ timer' = [timer EXCEPT ![t] = "aborted"]
        /\ pending' = [pending EXCEPT ![t] = TRUE]
        /\ UNCHANGED <<lock, cond, waiters, todo, timer_open, opens, port, rc>>
    BY <1>1 DEF AbortTimer
  <2>q. QED BY <1>1, <2>1
<1>2. CASE timer[t] # "inflight"
  <2>1. /\ queuePc[t] = "abort" /\ queuePc' = [queuePc EXCEPT ![t] = "collect"]
        /\ UNCHANGED <<lock, cond, waiters, todo, timer_open, opens, port, pending, timer, rc>>
    BY <1>2 DEF AbortTimer
  <2>2. timer[t] \in Replied BY <1>2, <2>1
  <2>q. QED BY <2>1, <2>2
<1>q. QED BY <1>1, <1>2

LEMMA CollectTimerStep == ASSUME QueueIndInv, NEW t \in Tasks, CollectTimer(t) PROVE QueueIndInv'
BY DEF CollectTimer

LEMMA FreePortStep == ASSUME QueueIndInv, NEW t \in Tasks, FreePort(t) PROVE QueueIndInv'
BY DEF FreePort

LEMMA TimerExpiresStep == ASSUME QueueIndInv, NEW t \in Tasks, TimerExpires(t) PROVE QueueIndInv'
BY DEF TimerExpires

LEMMA CleanupStep == ASSUME QueueIndInv, Cleanup PROVE QueueIndInv'
<1>1. /\ \A t \in Tasks : queuePc[t] = "idle"
      /\ timer_open' = FALSE /\ opens' = 0
      /\ UNCHANGED <<queuePc, lock, cond, waiters, todo, rc, port, pending, timer>>
  BY DEF Cleanup
<1>q. QED BY <1>1

-----------------------------------------------------------------------------
(* The invariant, and what it gives. *)

LEMMA QueueNextInd == ASSUME QueueIndInv, [QueueNext]_queueVars PROVE QueueIndInv'
<1>1. CASE UNCHANGED queueVars BY <1>1 DEF queueVars
<1>2. CASE Cleanup BY <1>2, CleanupStep
<1>3. ASSUME NEW t \in Tasks,
             \/ Caller(t) \/ WakeUpAll(t)
             \/ EnterSatisfied(t) \/ EnterWait(t) \/ WaitStep(t) \/ ObtainLock(t)
             \/ TimerExpires(t)
      PROVE  QueueIndInv'
  <2> USE DEF Caller, WakeUpAll, WaitStep
  <2> HIDE DEF QueueIndInv
  <2>1. CASE Caller(t) BY <2>1, CallerObtainStep, CallerReleaseStep, ChangeStateStep
  <2>2. CASE WakeUpAll(t) BY <2>2, WakeOneStep, WakeDoneStep
  <2>3. CASE WaitStep(t)
    BY <2>3, OpenTimerStep, OpenTimerFailsStep, CreatePortStep, CreatePortFailsStep,
       SendTimerStep, EnqueueStep, ReleaseLockStep, SleepStep, CheckTrueStep,
       CheckTimeoutStep, CheckAgainStep, UnlinkStep, AbortTimerStep,
       CollectTimerStep, FreePortStep
  <2>q. QED
    BY <1>3, <2>1, <2>2, <2>3, EnterSatisfiedStep, EnterWaitStep, ObtainLockStep,
       TimerExpiresStep
<1>q. QED BY <1>1, <1>2, <1>3 DEF QueueNext

\* The inductive invariant holds in every reachable state of the queue.
THEOREM QueueInvariant == QueueSpec => []QueueIndInv
<1> HIDE DEF QueueIndInv
<1>q. QED BY QueueInitInd, QueueNextInd, PTL DEF QueueSpec

\* Type correctness of the queue's state.
THEOREM QueueTypeCorrect == QueueSpec => []QueueTypeOK
<1>1. QueueIndInv => QueueTypeOK OBVIOUS
<1> HIDE DEF QueueIndInv, QueueTypeOK
<1>q. QED BY <1>1, QueueInvariant, PTL

\* No change of the guarded state is missed by a sleeping waiter: between a
\* predicate found false under the lock and Wait(), no wake-up can fall away.
THEOREM NoWakeupLost == QueueSpec => []NoLostWakeup
<1>1. QueueIndInv => NoLostWakeup OBVIOUS
<1> HIDE DEF QueueIndInv, NoLostWakeup
<1>q. QED BY <1>1, QueueInvariant, PTL

\* No signal bit is signalled after DeleteMsgPort() freed it, and none is freed set.
THEOREM FreedBitsStayClean == QueueSpec => []FreedBitClean
<1>1. QueueIndInv => FreedBitClean OBVIOUS
<1> HIDE DEF QueueIndInv, FreedBitClean
<1>q. QED BY <1>1, QueueInvariant, PTL

\* The timer request on drv_wait_event()'s stack is out only while the frame,
\* the reply port and the open device it needs exist.
THEOREM RequestLifetime == QueueSpec => []RequestOnLiveStack
<1>1. QueueIndInv => RequestOnLiveStack BY DEF RequestOnLiveStack
<1> HIDE DEF QueueIndInv, RequestOnLiveStack
<1>q. QED BY <1>1, QueueInvariant, PTL

\* What drv_wait_event() returns is true of the condition at the return, the
\* lock held, and TIMEOUT comes only from the wait's own timer.
THEOREM ReturnsAreTrue == QueueSpec => [](TruthfulReturn /\ TimeoutIsExpiry)
<1>1. QueueIndInv => TruthfulReturn /\ TimeoutIsExpiry OBVIOUS
<1> HIDE DEF QueueIndInv, TruthfulReturn, TimeoutIsExpiry
<1>q. QED BY <1>1, QueueInvariant, PTL

\* The lock's owner, the list and the task's place in the code agree: mutual
\* exclusion of the guarded state, and no node of a returned wait is linked.
THEOREM LockAndList == QueueSpec => [](LockHeld /\ ListedWhileWaiting /\ OpenedOnce)
<1>1. QueueIndInv => LockHeld /\ ListedWhileWaiting /\ OpenedOnce OBVIOUS
<1> HIDE DEF QueueIndInv, LockHeld, ListedWhileWaiting, OpenedOnce
<1>q. QED BY <1>1, QueueInvariant, PTL

\* A finished wait never holds the lock through its own timeout.
THEOREM CollectIsPrompt == QueueSpec => []CollectNeverBlocks
<1>1. QueueIndInv => CollectNeverBlocks OBVIOUS
<1> HIDE DEF QueueIndInv, CollectNeverBlocks
<1>q. QED BY <1>1, QueueInvariant, PTL


-----------------------------------------------------------------------------
(* Refinement: each action is one step of the condition variable, or none.  *)

LEMMA ResultUpdate ==
  ASSUME NEW t \in Tasks, NEW v,
         \A u \in Tasks : AbsResult'[u] = IF u = t THEN v ELSE AbsResult[u]
  PROVE  AbsResult' = [AbsResult EXCEPT ![t] = v]
BY DEF AbsResult

LEMMA CallerObtainRef == ASSUME QueueIndInv, NEW t \in Tasks, CallerObtain(t) PROVE Abs!Acquire(t)
BY DEF CallerObtain, Abs!vars, Abs!Acquire, Abs!Inside, AbsWaiting, AbsResult

LEMMA CallerReleaseRef == ASSUME QueueIndInv, NEW t \in Tasks, CallerRelease(t) PROVE Abs!Release(t)
<1>1. \A u \in Tasks : AbsResult'[u] = IF u = t THEN "none" ELSE AbsResult[u]
  BY DEF CallerRelease, AbsResult
<1>2. AbsResult' = [AbsResult EXCEPT ![t] = "none"] BY <1>1, ResultUpdate
<1>3. AbsWaiting' = AbsWaiting BY DEF CallerRelease, AbsWaiting
<1>4. t \notin AbsWaiting BY DEF CallerRelease, AbsWaiting
<1>q. QED BY <1>2, <1>3, <1>4 DEF CallerRelease, Abs!vars, Abs!Release, Abs!Inside

LEMMA ChangeStateRef == ASSUME QueueIndInv, NEW t \in Tasks, ChangeState(t) PROVE Abs!Change(t)
<1>1. \A u \in Tasks : AbsResult'[u] = IF u = t THEN "none" ELSE AbsResult[u]
  BY DEF ChangeState, AbsResult
<1>2. AbsResult' = [AbsResult EXCEPT ![t] = "none"] BY <1>1, ResultUpdate
<1>3. AbsWaiting' = AbsWaiting BY DEF ChangeState, AbsWaiting
<1>4. t \notin AbsWaiting BY DEF ChangeState, AbsWaiting
<1>q. QED BY <1>2, <1>3, <1>4 DEF ChangeState, Abs!vars, Abs!Change, Abs!Inside

LEMMA WakeOneRef == ASSUME QueueIndInv, NEW t \in Tasks, WakeOne(t) PROVE UNCHANGED Abs!vars
BY DEF WakeOne, Abs!vars, AbsWaiting, AbsResult

LEMMA WakeDoneRef == ASSUME QueueIndInv, NEW t \in Tasks, WakeDone(t) PROVE UNCHANGED Abs!vars
BY DEF WakeDone, Abs!vars, AbsWaiting, AbsResult

LEMMA EnterSatisfiedRef == ASSUME QueueIndInv, NEW t \in Tasks, EnterSatisfied(t) PROVE Abs!ReturnAtOnce(t)
<1>1. \A u \in Tasks : AbsResult'[u] = IF u = t THEN "OK" ELSE AbsResult[u]
  BY DEF EnterSatisfied, AbsResult
<1>2. AbsResult' = [AbsResult EXCEPT ![t] = "OK"] BY <1>1, ResultUpdate
<1>3. AbsWaiting' = AbsWaiting BY DEF EnterSatisfied, AbsWaiting
<1>4. t \notin AbsWaiting BY DEF EnterSatisfied, AbsWaiting
<1>q. QED BY <1>2, <1>3, <1>4 DEF EnterSatisfied, Abs!vars, Abs!ReturnAtOnce, Abs!Inside

LEMMA EnterWaitRef == ASSUME QueueIndInv, NEW t \in Tasks, EnterWait(t) PROVE Abs!Forget(t)
<1>0. TimerReady(t) \in {"open", "port"} BY DEF TimerReady
<1>1. \A u \in Tasks : AbsResult'[u] = IF u = t THEN "none" ELSE AbsResult[u]
  BY <1>0 DEF EnterWait, AbsResult
<1>2. AbsResult' = [AbsResult EXCEPT ![t] = "none"] BY <1>1, ResultUpdate
<1>3. AbsWaiting' = AbsWaiting BY <1>0 DEF EnterWait, AbsWaiting
<1>4. t \notin AbsWaiting BY DEF EnterWait, AbsWaiting
<1>q. QED BY <1>0, <1>2, <1>3, <1>4 DEF EnterWait, Abs!vars, Abs!Forget, Abs!Inside

LEMMA OpenTimerRef == ASSUME QueueIndInv, NEW t \in Tasks, OpenTimer(t) PROVE UNCHANGED Abs!vars
BY DEF OpenTimer, Abs!vars, AbsWaiting, AbsResult

LEMMA OpenTimerFailsRef == ASSUME QueueIndInv, NEW t \in Tasks, OpenTimerFails(t) PROVE Abs!ReturnAtOnce(t)
<1>1. \A u \in Tasks : AbsResult'[u] = IF u = t THEN "NO_RESOURCES" ELSE AbsResult[u]
  BY DEF OpenTimerFails, AbsResult
<1>2. AbsResult' = [AbsResult EXCEPT ![t] = "NO_RESOURCES"] BY <1>1, ResultUpdate
<1>3. AbsWaiting' = AbsWaiting BY DEF OpenTimerFails, AbsWaiting
<1>4. t \notin AbsWaiting BY DEF OpenTimerFails, AbsWaiting
<1>q. QED BY <1>2, <1>3, <1>4 DEF OpenTimerFails, Abs!vars, Abs!ReturnAtOnce, Abs!Inside

LEMMA CreatePortRef == ASSUME QueueIndInv, NEW t \in Tasks, CreatePort(t) PROVE UNCHANGED Abs!vars
BY DEF CreatePort, Abs!vars, AbsWaiting, AbsResult

LEMMA CreatePortFailsRef == ASSUME QueueIndInv, NEW t \in Tasks, CreatePortFails(t) PROVE Abs!ReturnAtOnce(t)
<1>1. \A u \in Tasks : AbsResult'[u] = IF u = t THEN "NO_RESOURCES" ELSE AbsResult[u]
  BY DEF CreatePortFails, AbsResult
<1>2. AbsResult' = [AbsResult EXCEPT ![t] = "NO_RESOURCES"] BY <1>1, ResultUpdate
<1>3. AbsWaiting' = AbsWaiting BY DEF CreatePortFails, AbsWaiting
<1>4. t \notin AbsWaiting BY DEF CreatePortFails, AbsWaiting
<1>q. QED BY <1>2, <1>3, <1>4 DEF CreatePortFails, Abs!vars, Abs!ReturnAtOnce, Abs!Inside

LEMMA SendTimerRef == ASSUME QueueIndInv, NEW t \in Tasks, SendTimer(t) PROVE UNCHANGED Abs!vars
BY DEF SendTimer, Abs!vars, AbsWaiting, AbsResult

LEMMA EnqueueRef == ASSUME QueueIndInv, NEW t \in Tasks, Enqueue(t) PROVE Abs!Begin(t)
BY DEF Enqueue, Abs!vars, Abs!Begin, Abs!Inside, AbsWaiting, AbsResult

LEMMA ReleaseLockRef == ASSUME QueueIndInv, NEW t \in Tasks, ReleaseLock(t) PROVE Abs!Sleep(t)
BY DEF ReleaseLock, Abs!vars, Abs!Sleep, Abs!Inside, AbsWaiting, AbsResult

LEMMA SleepRef == ASSUME QueueIndInv, NEW t \in Tasks, Sleep(t) PROVE UNCHANGED Abs!vars
BY DEF Sleep, Abs!vars, AbsWaiting, AbsResult

LEMMA ObtainLockRef == ASSUME QueueIndInv, NEW t \in Tasks, ObtainLock(t) PROVE Abs!Wake(t)
BY DEF ObtainLock, Abs!vars, Abs!Wake, Abs!Inside, AbsWaiting, AbsResult

LEMMA CheckTrueRef == ASSUME QueueIndInv, NEW t \in Tasks, CheckTrue(t) PROVE UNCHANGED Abs!vars
BY DEF CheckTrue, Abs!vars, AbsWaiting, AbsResult

LEMMA CheckTimeoutRef == ASSUME QueueIndInv, NEW t \in Tasks, CheckTimeout(t) PROVE UNCHANGED Abs!vars
BY DEF CheckTimeout, Abs!vars, AbsWaiting, AbsResult

LEMMA CheckAgainRef == ASSUME QueueIndInv, NEW t \in Tasks, CheckAgain(t) PROVE UNCHANGED Abs!vars
BY DEF CheckAgain, Abs!vars, AbsWaiting, AbsResult

LEMMA UnlinkRef == ASSUME QueueIndInv, NEW t \in Tasks, Unlink(t) PROVE UNCHANGED Abs!vars
BY DEF Unlink, Abs!vars, AbsWaiting, AbsResult

LEMMA AbortTimerRef == ASSUME QueueIndInv, NEW t \in Tasks, AbortTimer(t) PROVE UNCHANGED Abs!vars
BY DEF AbortTimer, Abs!vars, AbsWaiting, AbsResult

LEMMA CollectTimerRef == ASSUME QueueIndInv, NEW t \in Tasks, CollectTimer(t) PROVE UNCHANGED Abs!vars
BY DEF CollectTimer, Abs!vars, AbsWaiting, AbsResult

LEMMA FreePortRef == ASSUME QueueIndInv, NEW t \in Tasks, FreePort(t) PROVE Abs!Finish(t)
<1>1. \A u \in Tasks : AbsResult'[u] = IF u = t THEN rc[t] ELSE AbsResult[u]
  BY DEF FreePort, AbsResult
<1>2. AbsResult' = [AbsResult EXCEPT ![t] = rc[t]] BY <1>1, ResultUpdate
<1>3. AbsWaiting' = AbsWaiting \ {t} BY DEF FreePort, AbsWaiting
<1>4. t \in AbsWaiting BY DEF FreePort, AbsWaiting
<1>q. QED BY <1>2, <1>3, <1>4 DEF FreePort, Abs!vars, Abs!Finish, Abs!Inside

LEMMA TimerExpiresRef == ASSUME QueueIndInv, NEW t \in Tasks, TimerExpires(t) PROVE UNCHANGED Abs!vars
BY DEF TimerExpires, Abs!vars, AbsWaiting, AbsResult

LEMMA CleanupRef == ASSUME QueueIndInv, Cleanup PROVE UNCHANGED Abs!vars
BY DEF Cleanup, Abs!vars, AbsWaiting, AbsResult

LEMMA QueueNextRef == ASSUME QueueIndInv, [QueueNext]_queueVars PROVE [Abs!Next]_(Abs!vars)
<1>1. CASE UNCHANGED queueVars BY <1>1 DEF queueVars, Abs!vars, AbsWaiting, AbsResult
<1>2. CASE Cleanup BY <1>2, CleanupRef
<1>3. ASSUME NEW t \in Tasks,
             \/ Caller(t) \/ WakeUpAll(t)
             \/ EnterSatisfied(t) \/ EnterWait(t) \/ WaitStep(t) \/ ObtainLock(t)
             \/ TimerExpires(t)
      PROVE  [Abs!Next]_(Abs!vars)
  <2> USE DEF Caller, WakeUpAll, WaitStep, Abs!Next
  <2> HIDE DEF QueueIndInv
  <2>1. CASE Caller(t) BY <2>1, CallerObtainRef, CallerReleaseRef, ChangeStateRef
  <2>2. CASE WakeUpAll(t) BY <2>2, WakeOneRef, WakeDoneRef
  <2>3. CASE WaitStep(t)
    BY <2>3, OpenTimerRef, OpenTimerFailsRef, CreatePortRef, CreatePortFailsRef,
       SendTimerRef, EnqueueRef, ReleaseLockRef, SleepRef, CheckTrueRef,
       CheckTimeoutRef, CheckAgainRef, UnlinkRef, AbortTimerRef,
       CollectTimerRef, FreePortRef
  <2>q. QED
    BY <1>3, <2>1, <2>2, <2>3, EnterSatisfiedRef, EnterWaitRef, ObtainLockRef,
       TimerExpiresRef
<1>q. QED BY <1>1, <1>2, <1>3 DEF QueueNext

\* drv_waitq implements the condition variable with a timeout of WaitQAbs (its
\* safety part): the lock is given up only on a false condition, every wait
\* comes back with the lock, and its result is true of the condition.
THEOREM ImplementsCondition == QueueSpec => Abs!SafeSpec
<1>1. QueueInit => Abs!Init BY DEF QueueInit, Abs!Init, AbsWaiting, AbsResult
<1> HIDE DEF QueueIndInv
<1>q. QED BY <1>1, QueueNextRef, QueueInvariant, PTL DEF QueueSpec, Abs!SafeSpec

HIDE NobodyAssumption
HIDE DEF QueueIndInv, QueueTypeOK, LockHeld, ListedWhileWaiting, PortInv, TimerInv,
         DeviceInv, WalkInv, CondInv, NoLostWakeup, FreedBitClean,
         CollectNeverBlocks, TruthfulReturn, TimeoutIsExpiry, OpenedOnce
HIDE DEF CallerPcs, SetupPcs, FinishPcs, ListedPcs, WaitPcs, HolderPcs, Replied,
         PortPcs, TimerPcs, OpenPcs, QueueState, WaitState, QueueGoto

-----------------------------------------------------------------------------
(***************************************************************************)
(* DrvTimer, for any longest time and any number of milliseconds to a      *)
(* second, its callers keeping each timer to sleeps or to arms and waits   *)
(* (MixSleep = FALSE).                                                     *)
(*                                                                         *)
(* Neither property is inductive.  That a tick is the request's own rests  *)
(* on the port's bit being set only for a reply not yet collected (SigInv),*)
(* which fails for a timer that sleeps: SleepInv keeps those apart.  That  *)
(* a timeout is no earlier than asked rests on the time left and the time  *)
(* waited adding up to what was asked for (ClockInv).                      *)
(***************************************************************************)
\* How a timer comes to be open, and that one never used has no request out.
OpenInv ==
    /\ timerPc = "open" => held \in {{}, {"port"}, {"port", "req"}}
    /\ timerPc = "open" \/ held = {} => used = "no"
    /\ used = "no" => timerPc \in {"idle", "open"} /\ ~Armed /\ ~sig

\* A timer that sleeps has its request out in drv_timer_sleep_ms() only.
SleepInv ==
    /\ used = "sleep" => timerPc \in {"idle", "sleep"} /\ (Armed => timerPc = "sleep")
    /\ timerPc = "sleep" => used = "sleep" /\ Armed

\* Where the bit is set the request has been replied and is still to be collected,
\* but for the two calls in which drv_timer_cancel() drops a bit that came late.
SigInv ==
    /\ used = "arm" /\ sig => req = "replied" \/ timerPc = "clear"
    /\ timerPc = "tick" => ~sig

\* What a wait of ms milliseconds is armed with.
AtLeastOne(ms) == IF ms # 0 THEN ms ELSE 1

\* The request's clock: time left and time waited are what was asked for.
ClockInv ==
    /\ req = "inflight" => left + waited <= MaxMs + 1
    /\ timerPc = "wait" => Armed /\ left + waited = AtLeastOne(asked) /\ (req = "replied" => left = 0)
    /\ timerPc \in {"abort", "collect", "clear", "returned"} /\ seen = "timeout"
          => req # "inflight" /\ waited = AtLeastOne(asked)

TimerIndInv == TimerTypeOK /\ OpenInv /\ SleepInv /\ SigInv /\ ClockInv /\ TickIsCompleted

-----------------------------------------------------------------------------
\* Seconds and microseconds together are the milliseconds they were made from.
LEMMA LoadExact == ASSUME NEW ms \in Nat PROVE Duration(Load(ms)) = ms
<1> DEFINE q == ms \div MsPerSec
           r == ms % MsPerSec
<1>1. q \in Int /\ r \in 0 .. MsPerSec - 1 /\ ms = MsPerSec * q + r
  BY TimeAssumption, SMT
<1>2. Duration(Load(ms)) = q * MsPerSec + (r * 1000) \div 1000
  BY DEF Duration, Load
<1> HIDE DEF q, r
<1>3. (r * 1000) \div 1000 = r
  BY <1>1, TimeAssumption, SMT
<1>q. QED BY <1>1, <1>2, <1>3, TimeAssumption, SMT

USE DEF TimerIndInv, TimerTypeOK, OpenInv, SleepInv, SigInv, ClockInv, TickIsCompleted
USE DEF Armed, Opened, TimerGoto, time, AtLeastOne

LEMMA TimerInitInd == ASSUME TimerInit PROVE TimerIndInv
<1>0. sig \in BOOLEAN /\ other \in BOOLEAN /\ ~sig BY Zenon DEF TimerInit
<1>1. TimerTypeOK BY <1>0, TimeAssumption DEF TimerInit, Parts
<1>2. OpenInv BY <1>0 DEF TimerInit
<1>3. SleepInv /\ TickIsCompleted BY DEF TimerInit
<1>4. SigInv BY DEF TimerInit
<1>5. ClockInv BY TimeAssumption DEF TimerInit
<1>q. QED BY <1>1, <1>2, <1>3, <1>4, <1>5

LEMMA OpenSteps ==
    ASSUME TimerIndInv, OpenStart \/ OpenPart \/ OpenFails \/ CloseTimer PROVE TimerIndInv'
<1>1. CASE OpenStart BY <1>1 DEF OpenStart
<1>2. CASE OpenPart
  <2>1. held' \in {{"port"}, {"port", "req"}, Parts} BY <1>2 DEF OpenPart
  <2>q. QED BY <1>2, <2>1 DEF OpenPart, Parts
<1>3. CASE OpenFails BY <1>3 DEF OpenFails, Parts
<1>4. CASE CloseTimer BY <1>4 DEF CloseTimer, Parts
<1>q. QED BY <1>1, <1>2, <1>3, <1>4

\* Sending gives the request the whole of its time.
LEMMA SendClock ==
    ASSUME TimerIndInv, NEW ms \in 0 .. MaxMs + 1, Send(ms)
    PROVE  req' = "inflight" /\ left' = ms /\ waited' = 0
BY LoadExact, TimeAssumption DEF Send

LEMMA SendSteps ==
    ASSUME TimerIndInv, MixSleep = FALSE, SleepMs \/ ArmMs \/ WaitArm PROVE TimerIndInv'
<1> USE TimeAssumption
<1>1. CASE SleepMs
  <2>1. PICK ms \in 1 .. MaxMs : Send(ms) BY <1>1 DEF SleepMs
  <2>2. req' = "inflight" /\ left' = ms /\ waited' = 0 BY <2>1, SendClock
  <2>q. QED BY <1>1, <2>1, <2>2 DEF SleepMs, MaySend
<1>2. CASE ArmMs
  <2>1. PICK ms \in 0 .. MaxMs : Send(ms) BY <1>2 DEF ArmMs
  <2>2. req' = "inflight" /\ left' = ms /\ waited' = 0 BY <2>1, SendClock
  <2>q. QED BY <1>2, <2>1, <2>2 DEF ArmMs, MaySend
<1>3. CASE WaitArm
  <2>1. PICK ms \in 0 .. MaxMs : Send(AtLeastOne(ms)) /\ asked' = ms BY <1>3 DEF WaitArm
  <2>2. AtLeastOne(ms) \in 0 .. MaxMs + 1 OBVIOUS
  <2>3. req' = "inflight" /\ left' = AtLeastOne(ms) /\ waited' = 0 BY <2>1, <2>2, SendClock
  <2>q. QED BY <1>3, <2>1, <2>2, <2>3 DEF WaitArm, MaySend
<1>q. QED BY <1>1, <1>2, <1>3

LEMMA SleepSteps == ASSUME TimerIndInv, SleepDone \/ SleepWait PROVE TimerIndInv'
BY DEF SleepDone, SleepWait

LEMMA TickSteps == ASSUME TimerIndInv, TickWait \/ ServeOther \/ ConsumeTick PROVE TimerIndInv'
<1>1. CASE TickWait BY <1>1 DEF TickWait
<1>2. CASE ServeOther BY <1>2 DEF ServeOther
<1>3. CASE ConsumeTick
  <2>1. timerPc = "tick" /\ timerPc' = "idle" /\ req = "replied" /\ req' = "collected" BY <1>3 DEF ConsumeTick
  <2>2. TimerTypeOK' BY <1>3, <2>1 DEF ConsumeTick
  <2>3. OpenInv' /\ SleepInv' BY <1>3, <2>1 DEF ConsumeTick
  <2>4. SigInv' BY <1>3, <2>1 DEF ConsumeTick
  <2>5. ClockInv' BY <1>3, <2>1 DEF ConsumeTick
  <2>q. QED BY <2>1, <2>2, <2>3, <2>4, <2>5
<1>q. QED BY <1>1, <1>2, <1>3

LEMMA CancelSteps ==
    ASSUME TimerIndInv, CancelStart \/ AbortRequest \/ CollectRequest \/ ClearSignal PROVE TimerIndInv'
<1>1. CASE CancelStart BY <1>1 DEF CancelStart
<1>2. CASE AbortRequest BY <1>2 DEF AbortRequest
<1>3. CASE CollectRequest BY <1>3 DEF CollectRequest
<1>4. CASE ClearSignal BY <1>4 DEF ClearSignal
<1>q. QED BY <1>1, <1>2, <1>3, <1>4

LEMMA WaitSteps == ASSUME TimerIndInv, WaitWakes \/ WaitReturns PROVE TimerIndInv'
<1>1. CASE WaitWakes
  <2> USE DEF WaitWakes
  <2>1. TimerTypeOK' BY <1>1
  <2>2. OpenInv' /\ SleepInv' BY <1>1
  <2>3. SigInv' BY <1>1
  <2>4. ClockInv' BY <1>1, TimeAssumption
  <2>q. QED BY <1>1, <2>1, <2>2, <2>3, <2>4
<1>2. CASE WaitReturns BY <1>2 DEF WaitReturns
<1>q. QED BY <1>1, <1>2

LEMMA OutsideSteps == ASSUME TimerIndInv, Tick \/ Expire \/ SignalOther PROVE TimerIndInv'
<1>1. CASE Tick BY <1>1, TimeAssumption DEF Tick
<1>2. CASE Expire BY <1>2, TimeAssumption DEF Expire
<1>3. CASE SignalOther BY <1>3 DEF SignalOther
<1>q. QED BY <1>1, <1>2, <1>3

LEMMA TimerNextInd == ASSUME TimerIndInv, MixSleep = FALSE, [TimerNext]_timerVars PROVE TimerIndInv'
<1>1. CASE UNCHANGED timerVars BY <1>1 DEF timerVars
<1>2. CASE TimerNext
  <2> HIDE DEF TimerIndInv
  <2>q. QED BY <1>2, OpenSteps, SendSteps, SleepSteps, TickSteps, CancelSteps, WaitSteps, OutsideSteps
            DEF TimerNext, TaskStep
<1>q. QED BY <1>1, <1>2

-----------------------------------------------------------------------------
\* The inductive invariant of the timer, under the contract that a timer that
\* sleeps is not armed and an armed one does not sleep.
THEOREM TimerInvariant == ASSUME MixSleep = FALSE PROVE TimerSpec => []TimerIndInv
<1> HIDE DEF TimerIndInv
<1>q. QED BY TimerInitInd, TimerNextInd, PTL DEF TimerSpec

\* A tick that the periodic loop sees is the armed request's own completion, however
\* waits, cancels and ticks came before it: drv_timer_consume() collects it, and the
\* request may be armed again.
THEOREM TicksAreOwn == ASSUME MixSleep = FALSE PROVE TimerSpec => []TickIsCompleted
<1>1. TimerIndInv => TickIsCompleted OBVIOUS
<1> HIDE DEF TimerIndInv, TickIsCompleted
<1>q. QED BY <1>1, TimerInvariant, PTL

\* drv_timer_wait() reports a timeout only after the time asked for, and after a
\* millisecond at least.
THEOREM NoEarlyTimeout == ASSUME MixSleep = FALSE PROVE TimerSpec => []TimeoutMeansElapsed
<1>1. TimerIndInv => TimeoutMeansElapsed BY DEF TimeoutMeansElapsed
<1> HIDE DEF TimerIndInv, TimeoutMeansElapsed
<1>q. QED BY <1>1, TimerInvariant, PTL

HIDE DEF TimerIndInv, TimerTypeOK, OpenInv, SleepInv, SigInv, ClockInv, TickIsCompleted
HIDE DEF Armed, Opened, TimerGoto, time, AtLeastOne

-----------------------------------------------------------------------------
(***************************************************************************)
(* hw_claim for any number of claims and names, its callers keeping the    *)
(* contract that a held claim is not taken again (MayRetake = FALSE); and  *)
(* the pins their holders set, for any pins and settings.                  *)
(***************************************************************************)
LEMMA ClaimInitInd == ASSUME ClaimInit PROVE ClaimIndInv
BY EmptyAssumption
   DEF ClaimInit, ClaimIndInv, ClaimTypeOK, OneHolder, NameTellsListed, ListedInv, FalseMeansNothingHeld

LEMMA ClaimNextInd == ASSUME ClaimIndInv, MayRetake = FALSE, [ClaimNext]_claimVars PROVE ClaimIndInv'
<1> USE EmptyAssumption
    DEF ClaimIndInv, ClaimTypeOK, OneHolder, NameTellsListed, ListedInv, FalseMeansNothingHeld, ClaimGoto
<1>1. CASE UNCHANGED claimVars BY <1>1 DEF claimVars
<1>2. ASSUME NEW c \in Claims, Step(c) PROVE ClaimIndInv'
  <2>1. CASE TakeTooLong(c) BY <2>1 DEF TakeTooLong, MayTake
  <2>2. CASE TakeName(c) BY <2>2 DEF TakeName, MayTake
  <2>3. CASE TakeAdd(c) BY <2>3 DEF TakeAdd, FindSemaphore
  <2>4. CASE TakeRefused(c) BY <2>4 DEF TakeRefused
  <2>5. CASE TakeBlank(c) BY <2>5 DEF TakeBlank
  <2>6. CASE ReleaseRemove(c) BY <2>6 DEF ReleaseRemove
  <2>7. CASE ReleaseBlank(c) BY <2>7 DEF ReleaseBlank
  <2>q. QED BY <1>2, <2>1, <2>2, <2>3, <2>4, <2>5, <2>6, <2>7 DEF Step
<1>q. QED BY <1>1, <1>2 DEF ClaimNext

\* The inductive invariant of the claims, under the no-retake contract.
THEOREM ClaimInvariant == ASSUME MayRetake = FALSE PROVE ClaimSpec => []ClaimIndInv
BY ClaimInitInd, ClaimNextInd, PTL DEF ClaimSpec

\* At most one driver at a time holds a piece of hardware, for any number of
\* drivers and of names.
THEOREM MutualExclusion == ASSUME MayRetake = FALSE PROVE ClaimSpec => []OneHolder
<1>1. ClaimIndInv => OneHolder BY DEF ClaimIndInv
<1>q. QED BY <1>1, ClaimInvariant, PTL

\* Between calls the name tells whether the claim is held, and a refused claim's
\* storage is on no list.
THEOREM NameIsTruth ==
  ASSUME MayRetake = FALSE
  PROVE  ClaimSpec => [](NameTellsListed /\ FalseMeansNothingHeld)
<1>1. ClaimIndInv => NameTellsListed /\ FalseMeansNothingHeld BY DEF ClaimIndInv
<1>q. QED BY <1>1, ClaimInvariant, PTL

\* hw_claim_release() takes only listed semaphores off the list.
THEOREM RemovesListed == ASSUME MayRetake = FALSE PROVE ClaimSpec => RemovesOnlyListed
<1>1. ASSUME ClaimIndInv, [ClaimNext]_claimVars
      PROVE  [\A c \in Claims : claimPc[c] = "idle" /\ claimPc'[c] = "unlisted" => c \in listed]_claimVars
  <2> USE DEF ClaimIndInv, ClaimTypeOK, NameTellsListed, ClaimGoto
  <2>1. CASE UNCHANGED claimVars BY <2>1
  <2>2. ASSUME NEW c \in Claims, Step(c), NEW d \in Claims, claimPc[d] = "idle", claimPc'[d] = "unlisted"
        PROVE  d \in listed
    <3>1. CASE ReleaseRemove(c) BY <1>1, <2>2, <3>1 DEF ReleaseRemove
    <3>2. CASE TakeTooLong(c) \/ TakeName(c) \/ TakeAdd(c) \/ TakeRefused(c)
               \/ TakeBlank(c) \/ ReleaseBlank(c)
      BY <1>1, <2>2, <3>2 DEF TakeTooLong, TakeName, TakeAdd, TakeRefused, TakeBlank, ReleaseBlank
    <3>q. QED BY <2>2, <3>1, <3>2 DEF Step
  <2>q. QED BY <1>1, <2>1, <2>2 DEF ClaimNext
<1>q. QED BY <1>1, ClaimInvariant, PTL DEF ClaimSpec, RemovesOnlyListed

-----------------------------------------------------------------------------
(* The pins. *)

\* A call between its read and its write is the holder's, on a pin of its hardware,
\* and the word it has read is still what the register holds.
AccessInv ==
    \A c \in Claims : access[c] # Idle =>
        LET s == access[c].sets
        IN  /\ Holds(c)
            /\ s[1] \in {"alt", "pull"} /\ s[2] \in PinsOf[hc_Name[c]]
            /\ access[c].word = [p \in {q \in Pins : RegOf(s[1], q) = RegOf(s[1], s[2])} |-> field[<<s[1], p>>]]

GpioInv ==
    /\ ClaimIndInv /\ AccessInv
    /\ access = [c \in Claims |-> access[c]] /\ field = [f \in Fields |-> field[f]]
    /\ PinsKept

LEMMA FieldKinds == DOMAIN PerReg = {"alt", "pull", "level"}
BY DEF PerReg

LEMMA GpioInitInd == ASSUME GpioInit PROVE GpioInv
BY ClaimInitInd DEF GpioInit, GpioInv, AccessInv, PinsKept

\* A holder's pin is a pin, and has a field of every kind.
LEMMA HolderPins ==
    ASSUME ClaimIndInv, NEW c \in Claims, Holds(c), NEW p \in PinsOf[hc_Name[c]]
    PROVE  hc_Name[c] \in Names /\ p \in Pins
BY DEF ClaimIndInv, ClaimTypeOK, ListedInv, Holds, Pins

\* Steps of hw_claim_take() and hw_claim_release(), by a task that has no call under way.
LEMMA ClaimStepGpio ==
    ASSUME GpioInv, MayRetake = FALSE, NEW c \in Claims, access[c] = Idle, Step(c), UNCHANGED gpioVars
    PROVE  GpioInv'
<1>1. ClaimIndInv' BY ClaimNextInd DEF ClaimNext, GpioInv
<1>2. \A d \in Claims \ {c} : Holds(d) => Holds(d)' /\ hc_Name'[d] = hc_Name[d]
  BY DEF GpioInv, ClaimIndInv, ClaimTypeOK, Holds, ClaimGoto, Step, TakeTooLong, TakeName, TakeAdd, TakeRefused,
         TakeBlank, ReleaseRemove, ReleaseBlank
<1>3. AccessInv'
  <2>1. AccessInv /\ UNCHANGED <<field, access, latest>> BY DEF GpioInv, gpioVars
  <2>q. QED BY <1>2, <2>1, SMTT(20) DEF AccessInv
<1>q. QED BY <1>1, <1>3 DEF GpioInv, PinsKept, gpioVars

LEMMA ReadStepGpio == ASSUME GpioInv, NEW c \in Claims, ReadReg(c) PROVE GpioInv'
<1>1. PICK s \in Settings :
        /\ Asks(c, s) /\ s[1] # "level"
        /\ access' = [access EXCEPT ![c] =
              [sets |-> s, word |-> [p \in {q \in Pins : RegOf(s[1], q) = RegOf(s[1], s[2])}
                                        |-> field[<<s[1], p>>]]]]
  BY DEF ReadReg
<1>2. UNCHANGED <<claimVars, field, latest>> BY DEF ReadReg
<1>3. ClaimIndInv' BY <1>2 DEF GpioInv, ClaimIndInv, ClaimTypeOK, OneHolder, NameTellsListed, ListedInv,
                          FalseMeansNothingHeld, claimVars
<1>4. s[1] \in {"alt", "pull"} BY <1>1, FieldKinds, SettingsAssumption
<1>5. AccessInv'
  <2> SUFFICES ASSUME NEW d \in Claims, access'[d] # Idle
               PROVE  LET t == access'[d].sets
                      IN  /\ Holds(d)'
                          /\ t[1] \in {"alt", "pull"} /\ t[2] \in PinsOf[hc_Name'[d]]
                          /\ access'[d].word = [p \in {q \in Pins : RegOf(t[1], q) = RegOf(t[1], t[2])}
                                                |-> field'[<<t[1], p>>]]
    BY DEF AccessInv
  <2>1. CASE d = c BY <1>1, <1>2, <1>4, <2>1 DEF GpioInv, Asks, Holds, claimVars
  <2>2. CASE d # c
    <3>1. access'[d] = access[d] BY <1>1, <2>2 DEF GpioInv
    <3>2. LET t == access[d].sets
          IN  /\ Holds(d)
              /\ t[1] \in {"alt", "pull"} /\ t[2] \in PinsOf[hc_Name[d]]
              /\ access[d].word = [p \in {q \in Pins : RegOf(t[1], q) = RegOf(t[1], t[2])}
                                   |-> field[<<t[1], p>>]]
      BY <3>1 DEF GpioInv, AccessInv
    <3>3. UNCHANGED <<hc_Name, field>> /\ Holds(d)' = Holds(d) BY <1>2 DEF Holds, claimVars
    <3>q. QED BY <3>1, <3>2, <3>3
  <2>q. QED BY <2>1, <2>2
<1>q. QED BY <1>1, <1>2, <1>3, <1>5 DEF GpioInv, PinsKept

\* mmio_write32() puts back what the register holds, but for the one field.
LEMMA WriteStepGpio == ASSUME GpioInv, Separate, NEW c \in Claims, WriteReg(c) PROVE GpioInv'
<1> DEFINE kind == access[c].sets[1]
           pin  == access[c].sets[2]
           v    == access[c].sets[3]
           word == access[c].word
           Same == {q \in Pins : RegOf(kind, q) = RegOf(kind, pin)}
<1>1. /\ access[c] # Idle /\ access' = [access EXCEPT ![c] = Idle] /\ UNCHANGED claimVars
      /\ field' = [f \in Fields |-> IF f[1] = kind /\ f[2] \in DOMAIN Updated(word, pin, v)
                                      THEN Updated(word, pin, v)[f[2]] ELSE field[f]]
      /\ latest' = [latest EXCEPT ![<<kind, pin>>] = v]
  BY DEF WriteReg
<1>2. /\ Holds(c) /\ kind \in {"alt", "pull"} /\ pin \in PinsOf[hc_Name[c]]
      /\ word = [p \in Same |-> field[<<kind, p>>]]
  BY <1>1 DEF GpioInv, AccessInv
<1>3. pin \in Same /\ <<kind, pin>> \in Fields
  BY <1>2, HolderPins, FieldKinds DEF GpioInv, Fields
<1> HIDE DEF kind, pin, v, word
<1>4. Updated(word, pin, v) = [p \in Same |-> IF p = pin THEN v ELSE field[<<kind, p>>]]
  BY <1>2, <1>3 DEF Updated
<1>5. field' = [f \in Fields |-> IF f = <<kind, pin>> THEN v ELSE field[f]]
  <2> SUFFICES ASSUME NEW f \in Fields
               PROVE  (IF f[1] = kind /\ f[2] \in DOMAIN Updated(word, pin, v)
                         THEN Updated(word, pin, v)[f[2]] ELSE field[f])
                      = (IF f = <<kind, pin>> THEN v ELSE field[f])
    BY <1>1
  <2>1. f = <<f[1], f[2]>> BY DEF Fields
  <2>2. DOMAIN Updated(word, pin, v) = Same BY <1>4
  <2>3. CASE f[1] = kind /\ f[2] \in Same BY <1>4, <2>1, <2>2, <2>3
  <2>4. CASE ~(f[1] = kind /\ f[2] \in Same) BY <1>3, <2>1, <2>2, <2>4
  <2>q. QED BY <2>3, <2>4
<1>6. latest' = [f \in Fields |-> IF f = <<kind, pin>> THEN v ELSE field[f]]
  BY <1>1, <1>3 DEF GpioInv, PinsKept
<1>7. ClaimIndInv' BY <1>1 DEF GpioInv, ClaimIndInv, ClaimTypeOK, OneHolder, NameTellsListed, ListedInv,
                          FalseMeansNothingHeld, claimVars
<1>8. AccessInv'
  <2> SUFFICES ASSUME NEW d \in Claims, access'[d] # Idle
               PROVE  LET t == access'[d].sets
                      IN  /\ Holds(d)'
                          /\ t[1] \in {"alt", "pull"} /\ t[2] \in PinsOf[hc_Name'[d]]
                          /\ access'[d].word = [p \in {q \in Pins : RegOf(t[1], q) = RegOf(t[1], t[2])}
                                                |-> field'[<<t[1], p>>]]
    BY DEF AccessInv
  <2> DEFINE t == access[d].sets
             Other == {q \in Pins : RegOf(t[1], q) = RegOf(t[1], t[2])}
  <2>1. d # c /\ access'[d] = access[d] BY <1>1 DEF GpioInv
  <2>2. /\ Holds(d) /\ t[1] \in {"alt", "pull"} /\ t[2] \in PinsOf[hc_Name[d]]
        /\ access[d].word = [p \in Other |-> field[<<t[1], p>>]]
    BY <2>1 DEF GpioInv, AccessInv
  <2>3. hc_Name[c] # hc_Name[d] /\ hc_Name[c] \in Names /\ hc_Name[d] \in Names
    BY <1>2, <2>1, <2>2, HolderPins DEF GpioInv, ClaimIndInv, OneHolder, Holds
  <2>4. ASSUME NEW p \in Other PROVE field'[<<t[1], p>>] = field[<<t[1], p>>]
    <3>1. <<t[1], p>> \in Fields BY <2>2, FieldKinds DEF Fields
    <3>2. t[1] = kind => RegOf(kind, t[2]) # RegOf(kind, pin)
      BY <1>2, <2>2, <2>3 DEF Separate
    <3>3. <<t[1], p>> # <<kind, pin>> BY <3>2
    <3>q. QED BY <1>5, <3>1, <3>3
  <2> HIDE DEF t
  <2>5. access[d].word = [p \in Other |-> field'[<<t[1], p>>]] BY <2>2, <2>4
  <2>q. QED BY <1>1, <2>1, <2>2, <2>5 DEF Holds, claimVars, t
<1>q. QED BY <1>1, <1>5, <1>6, <1>7, <1>8 DEF GpioInv, PinsKept

LEMMA LevelStepGpio == ASSUME GpioInv, NEW c \in Claims, SetLevel(c) PROVE GpioInv'
<1>1. PICK s \in Settings :
        /\ Asks(c, s) /\ s[1] = "level"
        /\ field' = [field EXCEPT ![<<s[1], s[2]>>] = s[3]]
        /\ latest' = [latest EXCEPT ![<<s[1], s[2]>>] = s[3]]
  BY DEF SetLevel
<1>2. UNCHANGED <<claimVars, access>> BY DEF SetLevel
<1>3. ClaimIndInv' BY <1>2 DEF GpioInv, ClaimIndInv, ClaimTypeOK, OneHolder, NameTellsListed, ListedInv,
                          FalseMeansNothingHeld, claimVars
<1>4. \A k \in {"alt", "pull"}, p \in Pins : field'[<<k, p>>] = field[<<k, p>>]
  <2> SUFFICES ASSUME NEW k \in {"alt", "pull"}, NEW p \in Pins
               PROVE  field'[<<k, p>>] = field[<<k, p>>]
    OBVIOUS
  <2>1. <<k, p>> \in Fields BY FieldKinds DEF Fields
  <2>2. <<k, p>> # <<s[1], s[2]>> BY <1>1
  <2>q. QED BY <1>1, <2>1, <2>2 DEF GpioInv
<1>5. AccessInv'
  <2> SUFFICES ASSUME NEW d \in Claims, access[d] # Idle
               PROVE  LET t == access[d].sets
                      IN  /\ Holds(d)'
                          /\ t[1] \in {"alt", "pull"} /\ t[2] \in PinsOf[hc_Name'[d]]
                          /\ access[d].word = [p \in {q \in Pins : RegOf(t[1], q) = RegOf(t[1], t[2])}
                                                |-> field'[<<t[1], p>>]]
    BY <1>2 DEF AccessInv
  <2> DEFINE t == access[d].sets
             Other == {q \in Pins : RegOf(t[1], q) = RegOf(t[1], t[2])}
  <2>1. /\ Holds(d) /\ t[1] \in {"alt", "pull"} /\ t[2] \in PinsOf[hc_Name[d]]
        /\ access[d].word = [p \in Other |-> field[<<t[1], p>>]]
    BY DEF GpioInv, AccessInv
  <2> HIDE DEF t
  <2>2. access[d].word = [p \in Other |-> field'[<<t[1], p>>]] BY <1>4, <2>1
  <2>q. QED BY <1>2, <2>1, <2>2 DEF Holds, claimVars, t
<1>q. QED BY <1>1, <1>2, <1>3, <1>5 DEF GpioInv, PinsKept

LEMMA GpioNextInd ==
    ASSUME GpioInv, Separate, MayRetake = FALSE, [GpioNext]_allVars PROVE GpioInv'
<1>1. CASE UNCHANGED allVars
  <2>1. UNCHANGED <<hc_Name, listed, claimPc, result, field, access, latest>>
    BY <1>1 DEF allVars, claimVars, gpioVars
  <2>2. ClaimIndInv' BY <2>1 DEF GpioInv, ClaimIndInv, ClaimTypeOK, OneHolder, NameTellsListed,
                            ListedInv, FalseMeansNothingHeld
  <2>3. AccessInv'
    <3>1. AccessInv BY DEF GpioInv
    <3>2. \A c \in Claims : Holds(c)' = Holds(c) BY <2>1 DEF Holds
    <3> SUFFICES ASSUME NEW c \in Claims, access[c] # Idle
                 PROVE  LET t == access[c].sets
                        IN  /\ Holds(c)
                            /\ t[1] \in {"alt", "pull"} /\ t[2] \in PinsOf[hc_Name[c]]
                            /\ access[c].word = [p \in {q \in Pins : RegOf(t[1], q) = RegOf(t[1], t[2])}
                                                 |-> field[<<t[1], p>>]]
      BY <2>1, <3>2 DEF AccessInv
    <3>q. QED BY <3>1 DEF AccessInv
  <2>4. PinsKept' BY <2>1 DEF GpioInv, PinsKept
  <2>q. QED BY <2>1, <2>2, <2>3, <2>4 DEF GpioInv
<1>2. CASE GpioNext
  BY <1>2, ClaimStepGpio, ReadStepGpio, WriteStepGpio, LevelStepGpio DEF GpioNext
<1>q. QED BY <1>1, <1>2

\* With the registers of different hardware separate, the claim is all the locking
\* that gpioSetAlternate() and gpioSetPull() need: no call undoes what another has set.
THEOREM PinsAreKept == ASSUME Separate, MayRetake = FALSE PROVE GpioSpec => []PinsKept
<1>1. GpioInv => PinsKept BY DEF GpioInv
<1>q. QED BY <1>1, GpioInitInd, GpioNextInd, PTL DEF GpioSpec

-----------------------------------------------------------------------------
(***************************************************************************)
(* DriverTask, for any number of callers and of units, whoever closes a    *)
(* unit, whenever a break comes and whether the join's timer opens or not. *)
(*                                                                         *)
(* What a signal means depends on which worker is alive and which caller   *)
(* attends it: the invariant says, for each place a caller can be in, where*)
(* its worker may be, of every unit whose spawn was not misled.  A worker  *)
(* of such a unit starts and ends only while a caller attends it, and if   *)
(* that is its opener no other call of the opener sees its signal.         *)
(***************************************************************************)
Ended(w) == work[w] \notin Alive /\ mem[w] = {}
Serving(w) == work[w] = "loop" /\ ~stop[w]

\* The slot, the blocks and Forbid() by the worker's place.
WorkerInv ==
    \A w \in Workers :
        /\ slot[w] <=> work[w] \in {"init", "report", "loop"}
        /\ work[w] \in Alive => mem[w] = Blocks /\ parent[w] \in Parents
        /\ work[w] \in {"exit1", "exit2"} => forbid = w
        /\ unit[w] = "closed" /\ ~misled[w] => Ended(w)
        /\ unit[w] = "open" /\ ~misled[w] => Serving(w)

\* A unit is in the hands of one caller at a time, and of one while it opens or closes.
OwnInv ==
    /\ \A p \in Parents :
        /\ pc[p] # "idle" => arg[p] \in Workers
        /\ pc[p] # "idle" => \A q \in Parents \ {p} : pc[q] # "idle" => arg[q] # arg[p]
        /\ pc[p] \in SpawnPcs => unit[arg[p]] = "opening"
        /\ pc[p] \in JoinPcs => unit[arg[p]] = "closing"
        /\ pc[p] = "done" => unit[arg[p]] \in {"opening", "closing"}
    /\ \A w \in Workers :
        unit[w] \in {"opening", "closing"} => \E p \in Parents : pc[p] # "idle" /\ arg[p] = w

\* Where the worker may be at each step of a spawn, and with it the caller's signals.
SpawnInv ==
    \A p \in Parents :
        /\ pc[p] \in SpawnPcs => ~misled[arg[p]]
        /\ pc[p] = "add" =>
              /\ work[arg[p]] \notin Alive /\ mem[arg[p]] = Blocks /\ parent[arg[p]] = p
              /\ ~stray[p] => ~sigF[p] /\ ~sigC[p]
        /\ pc[p] = "wait" =>
              /\ work[arg[p]] \in {"new", "init", "report", "loop", "exit1", "gone"}
              /\ ~stop[arg[p]]
              /\ work[arg[p]] # "gone" => parent[arg[p]] = p
              /\ work[arg[p]] = "gone" => mem[arg[p]] = {}
              /\ ~stray[p] => (sigC[p] <=> work[arg[p]] = "gone") /\ (sigF[p] => work[arg[p]] = "loop")

\* The same for a join, and for what either returns.
JoinInv ==
    \A p \in Parents : pc[p] # "idle" /\ ~misled[arg[p]] =>
        /\ pc[p] = "check" => Ended(arg[p]) \/ Serving(arg[p])
        /\ pc[p] = "signal" => Serving(arg[p])
        /\ pc[p] \in {"poll", "sleep"} =>
              \/ work[arg[p]] = "exit2" \/ (work[arg[p]] = "loop" /\ stop[arg[p]])
              \/ Ended(arg[p])
        /\ pc[p] = "done" => ret[p] # "none"
        /\ Returned(p, "0") => Serving(arg[p])
        /\ pc[p] = "done" /\ ret[p] # "0" => Ended(arg[p])
        /\ Returned(p, "-EIO") => work[arg[p]] = "gone"

IndInv == TypeOK /\ WorkerInv /\ OwnInv /\ SpawnInv /\ JoinInv

-----------------------------------------------------------------------------
LEMMA InitInd == ASSUME Init PROVE IndInv
BY NoneAssumption
   DEF Init, IndInv, TypeOK, WorkerInv, OwnInv, SpawnInv, JoinInv, Ended, Returned, Alive, SpawnPcs, JoinPcs

USE NoneAssumption, DisjointAssumption
USE DEF IndInv, TypeOK, WorkerInv, OwnInv, SpawnInv, JoinInv, Ended, Serving, Returned
USE DEF Alive, SpawnPcs, JoinPcs, Goto, Return, Runs, Work, joinVars, parentVars, workerVars, historyVars

(* drv_task_spawn() *)

LEMMA SpawnFailsStep == ASSUME IndInv, NEW p \in Parents, NEW w \in Workers, SpawnFails(p, w) PROVE IndInv'
<1>1. mem' = [mem EXCEPT ![w] = {}]
  <2>1. PICK got \in SUBSET Blocks : mem' = [mem EXCEPT ![w] = got \ Freed(got)] BY DEF SpawnFails
  <2>2. got \ Freed(got) = {} BY DEF Freed
  <2>q. QED BY <2>1, <2>2
<1>2. TypeOK' BY <1>1 DEF SpawnFails, Opens
<1>3. WorkerInv' BY <1>1 DEF SpawnFails, Opens
<1>4. OwnInv' BY <1>1 DEF SpawnFails, Opens
<1>5. SpawnInv' BY <1>1 DEF SpawnFails, Opens
<1>6. JoinInv' BY <1>1 DEF SpawnFails, Opens
<1> HIDE DEF TypeOK, WorkerInv, OwnInv, SpawnInv, JoinInv
<1>q. QED BY <1>2, <1>3, <1>4, <1>5, <1>6

LEMMA SpawnClearStep == ASSUME IndInv, NEW p \in Parents, NEW w \in Workers, SpawnClear(p, w) PROVE IndInv'
BY DEF SpawnClear, Opens

LEMMA SpawnAddStep == ASSUME IndInv, NEW p \in Parents, SpawnAdd(p) PROVE IndInv'
BY DEF SpawnAdd

LEMMA SpawnAddFailsStep == ASSUME IndInv, NEW p \in Parents, SpawnAddFails(p) PROVE IndInv'
BY DEF SpawnAddFails

LEMMA SpawnWaitStep == ASSUME IndInv, NEW p \in Parents, SpawnWait(p) PROVE IndInv'
BY DEF SpawnWait

LEMMA BreakStep == ASSUME IndInv, NEW p \in Parents, Break(p) PROVE IndInv'
<1>2. TypeOK' BY DEF Break, Heard
<1>3. WorkerInv' BY DEF Break, Heard
<1>4. OwnInv' BY DEF Break, Heard
<1>5. SpawnInv'
  <2>1. /\ sigC' = [sigC EXCEPT ![p] = TRUE] /\ pc' = pc /\ arg' = arg /\ sigF' = sigF
        /\ work' = work /\ mem' = mem /\ parent' = parent /\ stop' = stop /\ misled' = misled
    BY DEF Break
  <2>2. pc[p] \in SpawnPcs => stray'[p]
    <3> SUFFICES ASSUME pc[p] \in SpawnPcs PROVE stray'[p] OBVIOUS
    <3>1. arg[p] # None OBVIOUS
    <3>2. stray' = [stray EXCEPT ![p] = TRUE] BY <3>1 DEF Break, Heard
    <3>3. p \in DOMAIN stray OBVIOUS
    <3> HIDE DEF IndInv
    <3>q. QED BY <3>2, <3>3
  <2>3. \A q \in Parents \ {p} : stray'[q] = stray[q] BY DEF Break, Heard
  <2>q. QED BY <2>1, <2>2, <2>3
<1>6. JoinInv' BY DEF Break, Heard
<1> HIDE DEF TypeOK, WorkerInv, OwnInv, SpawnInv, JoinInv
<1>q. QED BY <1>2, <1>3, <1>4, <1>5, <1>6

(* drv_task_join() *)

LEMMA JoinStartStep == ASSUME IndInv, NEW p \in Parents, NEW w \in Workers, JoinStart(p, w) PROVE IndInv'
BY DEF JoinStart

LEMMA JoinNothingStep == ASSUME IndInv, NEW p \in Parents, JoinNothing(p) PROVE IndInv'
BY DEF JoinNothing

LEMMA JoinTimerStep == ASSUME IndInv, NEW p \in Parents, JoinTimer(p) PROVE IndInv'
BY DEF JoinTimer

LEMMA JoinSignalStep == ASSUME IndInv, NEW p \in Parents, JoinSignal(p) PROVE IndInv'
BY DEF JoinSignal

LEMMA JoinSleepStep == ASSUME IndInv, NEW p \in Parents, JoinSleep(p) PROVE IndInv'
BY DEF JoinSleep

LEMMA JoinWakesStep == ASSUME IndInv, NEW p \in Parents, JoinWakes(p) PROVE IndInv'
BY DEF JoinWakes

LEMMA JoinDropStep == ASSUME IndInv, NEW p \in Parents, JoinDrop(p) PROVE IndInv'
BY DEF JoinDrop

LEMMA CallerDoneStep == ASSUME IndInv, NEW p \in Parents, CallerDone(p) PROVE IndInv'
BY DEF CallerDone

(* The worker, and drv_task_exit(). *)

LEMMA PublishStep == ASSUME IndInv, NEW w \in Workers, Publish(w) PROVE IndInv'
BY DEF Publish

LEMMA InitPortStep == ASSUME IndInv, NEW w \in Workers, InitPort(w) PROVE IndInv'
BY DEF InitPort

LEMMA InitFailsStep == ASSUME IndInv, NEW w \in Workers, InitFails(w) PROVE IndInv'
BY DEF InitFails, ExitForbid

LEMMA ReadyStep == ASSUME IndInv, NEW w \in Workers, Ready(w) PROVE IndInv'
BY DEF Ready, Heard

LEMMA StopStep == ASSUME IndInv, NEW w \in Workers, Stop(w) PROVE IndInv'
BY DEF Stop, ExitForbid

LEMMA ExitFailedStep == ASSUME IndInv, NEW w \in Workers, ExitFailed(w) PROVE IndInv'
BY DEF ExitFailed, Vanish, Heard

LEMMA ExitRanStep == ASSUME IndInv, NEW w \in Workers, ExitRan(w) PROVE IndInv'
<1>2. TypeOK' BY DEF ExitRan, Vanish, Heard
<1>3. WorkerInv' BY DEF ExitRan, Vanish, Heard
<1>4. OwnInv' BY DEF ExitRan, Vanish, Heard
<1>5. SpawnInv'
  <2>1. /\ sigF' = [sigF EXCEPT ![parent[w]] = TRUE] /\ pc' = pc /\ arg' = arg /\ sigC' = sigC
        /\ work[w] = "exit2" /\ work' = [work EXCEPT ![w] = "gone"] /\ mem' = [mem EXCEPT ![w] = {}]
        /\ parent' = [parent EXCEPT ![w] = None] /\ stop' = [stop EXCEPT ![w] = FALSE] /\ misled' = misled
    BY DEF ExitRan, Vanish
  <2>2. \A q \in Parents : pc[q] = "wait" => arg[q] # w BY <2>1
  <2>3. pc[parent[w]] \in SpawnPcs /\ arg[parent[w]] # w => stray'[parent[w]] BY DEF ExitRan, Heard
  <2>4. \A q \in Parents \ {parent[w]} : stray'[q] = stray[q] BY DEF ExitRan, Heard
  <2>5. \A q \in Parents : pc[q] = "add" => arg[q] # w BY <2>1
  <2>q. QED BY <2>1, <2>2, <2>3, <2>4, <2>5
<1>6. JoinInv' BY DEF ExitRan, Vanish, Heard
<1> HIDE DEF TypeOK, WorkerInv, OwnInv, SpawnInv, JoinInv
<1>q. QED BY <1>2, <1>3, <1>4, <1>5, <1>6

-----------------------------------------------------------------------------
(* The invariant, and what it gives. *)

LEMMA NextInd == ASSUME IndInv, [Next]_vars PROVE IndInv'
<1>1. CASE UNCHANGED vars BY <1>1 DEF vars
<1> HIDE DEF IndInv
<1>2. ASSUME NEW p \in Parents, NEW w \in Workers, SpawnFails(p, w) \/ SpawnClear(p, w) \/ JoinStart(p, w)
      PROVE  IndInv'
  BY <1>2, SpawnFailsStep, SpawnClearStep, JoinStartStep
<1>3. ASSUME NEW p \in Parents, ParentStep(p) PROVE IndInv'
  BY <1>3, SpawnAddStep, SpawnAddFailsStep, SpawnWaitStep,
     JoinNothingStep, JoinTimerStep, JoinSignalStep, JoinSleepStep, JoinWakesStep, JoinDropStep,
     CallerDoneStep DEF ParentStep
<1>4. ASSUME NEW p \in Parents, JoinSpin(p) \/ Break(p) PROVE IndInv'
  BY <1>1, <1>4, BreakStep DEF JoinSpin
<1>5. ASSUME NEW w \in Workers, WorkerStep(w) PROVE IndInv'
  BY <1>5, PublishStep, InitPortStep, InitFailsStep, ReadyStep, StopStep, ExitFailedStep, ExitRanStep
     DEF WorkerStep
<1>q. QED BY <1>1, <1>2, <1>3, <1>4, <1>5 DEF Next

\* The inductive invariant of spawn, join and exit, with no condition on the callers.
THEOREM Invariant == Spec => []IndInv
<1> HIDE DEF IndInv
<1>q. QED BY InitInd, NextInd, PTL DEF Spec

\* What drv_task_spawn() and drv_task_join() return is true of every unit whose spawn took
\* no signal but its worker's: 0 of a worker in its loop, -EIO of one that is gone with its
\* memory, and a join's return of one that runs no more.
THEOREM CallsTruthful == Spec => []ReturnsTruthful
<1>1. IndInv => ReturnsTruthful BY DEF ReturnsTruthful
<1> HIDE DEF IndInv
<1>q. QED BY <1>1, Invariant, PTL

\* A closed unit has no worker, no slot and no block of memory left, whichever step of
\* its spawn failed, unless the spawn was misled.
THEOREM NothingLeft == Spec => []ClosedLeavesNothing
<1>1. IndInv => ClosedLeavesNothing BY DEF ClosedLeavesNothing
<1> HIDE DEF IndInv
<1>q. QED BY <1>1, Invariant, PTL

\* Between the two reads of *slot in drv_task_join() the worker does not clear it, so that
\* Signal() gets a task, unless the spawn was misled.
THEOREM JoinSignalsTask == Spec => []SignalsLiveTask
<1>1. IndInv => SignalsLiveTask BY DEF SignalsLiveTask
<1> HIDE DEF IndInv
<1>q. QED BY <1>1, Invariant, PTL

\* A worker that signals its opener in another spawn of the opener's was misled about
\* itself, or another task closes its unit.
LEMMA StrayWorker ==
    ASSUME IndInv, NEW w \in Workers, work[w] \in {"report", "exit1", "exit2"},
           pc[parent[w]] \in SpawnPcs, arg[parent[w]] # w, ~misled[w]
    PROVE  \E q \in Parents \ {parent[w]} : arg[q] = w /\ pc[q] \in JoinPcs
<1>1. parent[w] \in Parents /\ unit[w] \in {"opening", "closing"} OBVIOUS
<1>2. PICK q \in Parents : pc[q] # "idle" /\ arg[q] = w BY <1>1
<1>3. q # parent[w] BY <1>2
<1>4. pc[q] \notin SpawnPcs
  <2> SUFFICES ASSUME pc[q] \in SpawnPcs PROVE FALSE OBVIOUS
  <2>1. work[w] # "gone" /\ work[w] \in Alive OBVIOUS
  <2>q. QED BY <1>2, <1>3, <2>1
<1>5. pc[q] # "done" BY <1>2
<1>6. pc[q] \in {"idle", "done"} \cup SpawnPcs \cup JoinPcs OBVIOUS
<1>q. QED BY <1>2, <1>3, <1>4, <1>5, <1>6

\* Nothing misleads a spawn but the user's break, a worker whose unit another task closes,
\* and one whose own spawn was misled.
THEOREM NothingElseMisleads == Spec => OnlyTheseMislead
<1> DEFINE Named(p) ==
        \/ Break(p)
        \/ \E w \in Workers \ {arg[p]} :
              parent[w] = p /\ work'[w] # work[w]
              /\ (misled[w] \/ \E q \in Parents \ {p} : arg[q] = w /\ pc[q] \in JoinPcs)
<1>1. ASSUME IndInv, [Next]_vars, NEW p \in Parents, stray'[p], ~stray[p] PROVE Named(p)
  <2> HIDE DEF IndInv
  <2>1. CASE UNCHANGED vars BY <1>1, <2>1 DEF vars
  <2>2. ASSUME NEW q \in Parents, NEW w \in Workers, SpawnFails(q, w) \/ SpawnClear(q, w) \/ JoinStart(q, w)
        PROVE  FALSE
    BY <1>1, <2>2 DEF SpawnFails, SpawnClear, JoinStart
  <2>3. ASSUME NEW q \in Parents, ParentStep(q) PROVE FALSE
    BY <1>1, <2>3 DEF IndInv, ParentStep, SpawnAdd, SpawnAddFails, SpawnWait, JoinNothing, JoinTimer, JoinSignal,
                      JoinSleep, JoinWakes, JoinDrop, CallerDone
  <2>4. ASSUME NEW q \in Parents, JoinSpin(q) \/ Break(q) PROVE Named(p)
    <3>1. CASE JoinSpin(q) BY <1>1, <3>1 DEF JoinSpin, vars
    <3>2. CASE Break(q)
      <4>1. q = p BY <1>1, <3>2 DEF Break, Heard, IndInv
      <4>q. QED BY <3>2, <4>1
    <3>q. QED BY <2>4, <3>1, <3>2
  <2>5. ASSUME NEW w \in Workers, WorkerStep(w) PROVE Named(p)
    <3>1. CASE Publish(w) \/ InitPort(w) \/ InitFails(w) \/ Stop(w)
      BY <1>1, <3>1 DEF Publish, InitPort, InitFails, Stop
    <3>2. CASE Ready(w) \/ ExitFailed(w) \/ ExitRan(w)
      <4>1. /\ work[w] \in {"report", "exit1", "exit2"} /\ work'[w] # work[w]
            /\ stray' = [stray EXCEPT ![parent[w]] = @ \/ (pc[parent[w]] \in SpawnPcs /\ arg[parent[w]] # w)]
        BY <1>1, <3>2 DEF Ready, ExitFailed, ExitRan, Heard, IndInv
      <4>2. parent[w] = p /\ pc[p] \in SpawnPcs /\ arg[p] # w BY <1>1, <4>1 DEF IndInv
      <4>3. misled[w] \/ \E q \in Parents \ {p} : arg[q] = w /\ pc[q] \in JoinPcs
        BY <1>1, <4>1, <4>2, StrayWorker
      <4>q. QED BY <4>1, <4>2, <4>3
    <3>q. QED BY <2>5, <3>1, <3>2 DEF WorkerStep
  <2>q. QED BY <1>1, <2>1, <2>2, <2>3, <2>4, <2>5 DEF Next
<1> DEFINE Strays == \A p \in Parents : stray'[p] /\ ~stray[p] => Named(p)
<1>2. IndInv /\ [Next]_vars => [Strays]_vars BY <1>1
<1>3. OnlyTheseMislead <=> [][Strays]_vars BY DEF OnlyTheseMislead
<1> HIDE DEF IndInv, Strays
<1>q. QED BY <1>2, <1>3, Invariant, PTL DEF Spec

\* Forbid() of drv_task_exit() is what a join relies on: while the last instructions of
\* a worker run no other task does, so no join returns before them.
THEOREM ExitUndisturbed ==
    Spec => [](\A w \in Workers : work[w] \in {"exit1", "exit2"} => \A p \in Parents : ~Runs(p))
<1>1. IndInv => \A w \in Workers : work[w] \in {"exit1", "exit2"} => \A p \in Parents : ~Runs(p)
  <2> SUFFICES ASSUME IndInv, NEW w \in Workers, work[w] \in {"exit1", "exit2"}, NEW p \in Parents
               PROVE  ~Runs(p)
    OBVIOUS
  <2>1. forbid = w OBVIOUS
  <2>2. w # p /\ w # None OBVIOUS
  <2>q. QED BY <2>1, <2>2
<1> HIDE DEF IndInv
<1>q. QED BY <1>1, Invariant, PTL
=============================================================================
