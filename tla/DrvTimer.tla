------------------------------ MODULE DrvTimer ------------------------------
(***************************************************************************)
(* drv_timer (src/drv_timer.c): one timer.device request and its reply     *)
(* port, owned by one task, that serves synchronous sleeps, periodic arms  *)
(* and waits with a timeout.                                               *)
(*                                                                         *)
(* The task runs one call at a time; between any two steps of a call the   *)
(* timer interrupt may reply the request (the message goes on the port,    *)
(* the port's bit is set) and others may signal the task.  External: Wait  *)
(* returns once a bit of its mask is set and clears what it returns; WaitIO*)
(* of a request not yet replied waits for the port's bit, and removes the  *)
(* message; it leaves a bit alone that it did not have to wait for.        *)
(***************************************************************************)
EXTENDS Naturals

CONSTANTS MixSleep,   \* one timer serves sleeps as well as arms and waits
          MsPerSec,   \* milliseconds per second: 1000, scaled down
          MaxMs       \* the longest time asked for

ASSUME MixAssumption == MixSleep \in BOOLEAN
ASSUME TimeAssumption == MsPerSec \in Nat \ {0} /\ MaxMs \in Nat

VARIABLES held,     \* what the timer has: a subset of Parts; t->req # NULL when "req" is in it
          used,     \* "no", or the way the timer has been used: "sleep", "arm"
          req,      \* the request: "idle" (not sent), "inflight", "replied" or "collected"
          left,     \* milliseconds the request in flight has still to run
          asked,    \* the ms of the wait under way
          waited,   \* milliseconds since the request was sent, up to MaxMs
          sig,      \* the port's bit is set in the task's received signals
          other,    \* a bit of the caller's own mask is set
          timerPc,  \* where the task is
          seen      \* drv_timer_wait()'s result while timerPc = "returned"

time == <<left, asked, waited>>

timerVars == <<held, used, req, time, sig, other, timerPc, seen>>

Parts == {"port", "req", "device"}

TimerTypeOK ==
    /\ held \in SUBSET Parts
    /\ used \in {"no", "sleep", "arm"}
    /\ req \in {"idle", "inflight", "replied", "collected"}
    /\ left \in 0 .. MaxMs + 1 /\ asked \in 0 .. MaxMs /\ waited \in 0 .. MaxMs + 1
    /\ sig \in BOOLEAN /\ other \in BOOLEAN
    /\ timerPc \in {"idle", "open", "sleep", "tick", "wait", "abort", "collect", "clear",
               "returned"}
    /\ seen \in {"none", "signal", "timeout"}

TimerInit ==
    /\ held = {} /\ used = "no" /\ req = "idle"
    /\ left = 0 /\ asked = 0 /\ waited = 0 /\ sig = FALSE /\ other = FALSE
    /\ timerPc = "idle" /\ seen = "none"

TimerGoto(from, to) == timerPc = from /\ timerPc' = to

\* A request is there: every call but drv_timer_open() is a no-op without one.
Opened == "req" \in held

\* The request is out of the caller's hands: sent, and not collected.
Armed == req \in {"inflight", "replied"}

\* drv_timer_load(): ms as tv_secs and tv_micro.
Load_NoSecs(ms) == [secs |-> 0, micro |-> (ms % MsPerSec) * 1000]
Load(ms) == [secs |-> ms \div MsPerSec, micro |-> (ms % MsPerSec) * 1000]

\* External: the milliseconds timer.device makes of them.
Duration(tv) == tv.secs * MsPerSec + tv.micro \div 1000

\* drv_timer_load() and SendIO() or DoIO()'s BeginIO().
Send(ms) == req' = "inflight" /\ left' = Duration(Load(ms)) /\ waited' = 0

\* The calls the header allows: none that sends with the request armed, and,
\* unless MixSleep, a timer is used in one of the two ways only.
MaySend(way) ==
    /\ timerPc = "idle" /\ Opened /\ ~Armed
    /\ MixSleep \/ used \in {"no", way}
    /\ used' = way

-----------------------------------------------------------------------------
\* drv_timer_open(): CreateMsgPort(), CreateIORequest(), OpenDevice(), in this
\* order; the first that fails ends it, and what was got before is given back.
OpenStart ==
    /\ TimerGoto("idle", "open") /\ held = {}
    /\ UNCHANGED <<held, used, req, time, sig, other, seen>>

OpenPart ==
    /\ timerPc = "open"
    /\ held' = CASE held = {} -> {"port"}
                 [] held = {"port"} -> {"port", "req"}
                 [] held = {"port", "req"} -> Parts
    /\ timerPc' = IF held' = Parts THEN "idle" ELSE "open"
    /\ UNCHANGED <<used, req, time, sig, other, seen>>

OpenFails ==
    /\ TimerGoto("open", "idle")
    /\ held' = {}
    /\ UNCHANGED <<used, req, time, sig, other, seen>>

\* drv_timer_close(): by contract with no request armed.  The bit is freed.
CloseTimer ==
    /\ timerPc = "idle" /\ Opened /\ ~Armed
    /\ held' = {}
    /\ used' = "no" /\ req' = "idle" /\ sig' = FALSE /\ UNCHANGED time
    /\ UNCHANGED <<other, timerPc, seen>>

\* drv_timer_sleep_ms(): nothing for 0; else DoIO() sends, then waits as WaitIO() does.
SleepMs ==
    /\ MaySend("sleep") /\ timerPc' = "sleep"
    /\ \E ms \in 1 .. MaxMs : Send(ms)
    /\ UNCHANGED <<held, asked, sig, other, seen>>

\* DoIO(): already replied, so the message is taken and the bit stays as it is.
SleepDone ==
    /\ TimerGoto("sleep", "idle")
    /\ req = "replied"
    /\ req' = "collected"
    /\ UNCHANGED <<held, used, time, sig, other, seen>>

\* DoIO(): not yet replied, so Wait() for the port's bit, which clears it.
SleepWait ==
    /\ timerPc = "sleep"
    /\ req = "inflight" /\ sig
    /\ sig' = FALSE
    /\ UNCHANGED <<held, used, req, time, other, timerPc, seen>>

\* drv_timer_arm_ms()
ArmMs ==
    /\ MaySend("arm") /\ UNCHANGED timerPc
    /\ \E ms \in 0 .. MaxMs : Send(ms)
    /\ UNCHANGED <<held, asked, sig, other, seen>>

\* The periodic loop: Wait() on drv_timer_sigmask and the caller's own bits.
\* A tick leads to drv_timer_consume(); other signals are served and the loop goes on.
TickWait ==
    /\ TimerGoto("idle", "tick")
    /\ Opened /\ used = "arm" /\ Armed /\ sig
    /\ sig' = FALSE
    /\ other' = FALSE
    /\ UNCHANGED <<held, used, req, time, seen>>

ServeOther ==
    /\ timerPc = "idle" /\ other /\ ~sig
    /\ other' = FALSE
    /\ UNCHANGED <<held, used, req, time, sig, timerPc, seen>>

\* drv_timer_consume(): CheckIO() and WaitIO(); then the loop re-arms.
ConsumeTick ==
    /\ TimerGoto("tick", "idle")
    /\ IF req = "replied" THEN req' = "collected" ELSE UNCHANGED req
    /\ UNCHANGED <<held, used, time, sig, other, seen>>

\* drv_timer_cancel(): AbortIO(), WaitIO(), SetSignal(0, sigmask).
CancelStart ==
    /\ TimerGoto("idle", "abort")
    /\ Opened /\ Armed
    /\ seen' = "none"
    /\ UNCHANGED <<held, used, req, time, sig, other>>

AbortRequest ==
    /\ TimerGoto("abort", "collect")
    /\ IF req = "inflight"
         THEN req' = "replied" /\ sig' = TRUE
         ELSE UNCHANGED <<req, sig>>
    /\ UNCHANGED <<held, used, time, other, seen>>

CollectRequest ==
    /\ TimerGoto("collect", "clear")
    /\ req = "replied"
    /\ req' = "collected"
    /\ UNCHANGED <<held, used, time, sig, other, seen>>

\* The SetSignal() of drv_timer_cancel(); drv_timer_wait() then returns what it saw.
ClearSignal_InWait ==
    /\ TimerGoto("clear", IF seen = "none" THEN "idle" ELSE "returned")
    /\ sig' = IF seen = "none" THEN sig ELSE FALSE
    /\ UNCHANGED <<held, used, req, time, other, seen>>

ClearSignal ==
    /\ TimerGoto("clear", IF seen = "none" THEN "idle" ELSE "returned")
    /\ sig' = FALSE
    /\ UNCHANGED <<held, used, req, time, other, seen>>

\* drv_timer_wait(): arm (0 ms as 1), Wait(mask | sigmask) & mask, cancel.
WaitArm ==
    /\ MaySend("arm") /\ timerPc' = "wait"
    /\ \E ms \in 0 .. MaxMs : /\ Send(IF ms # 0 THEN ms ELSE 1)
                              /\ asked' = ms
    /\ UNCHANGED <<held, sig, other, seen>>

WaitWakes_MaskOnly ==
    /\ TimerGoto("wait", "abort")
    /\ other
    /\ seen' = "signal"
    /\ other' = FALSE
    /\ UNCHANGED <<held, used, req, time, sig>>

WaitWakes ==
    /\ TimerGoto("wait", "abort")
    /\ sig \/ other
    /\ seen' = IF other THEN "signal" ELSE "timeout"
    /\ sig' = FALSE /\ other' = FALSE
    /\ UNCHANGED <<held, used, req, time>>

WaitReturns ==
    /\ TimerGoto("returned", "idle")
    /\ seen' = "none"
    /\ UNCHANGED <<held, used, req, time, sig, other>>

-----------------------------------------------------------------------------
\* A millisecond passes.
Tick ==
    /\ req = "inflight" /\ left > 0
    /\ left' = left - 1 /\ waited' = waited + 1
    /\ UNCHANGED <<held, used, req, asked, sig, other, timerPc, seen>>

\* The timer interrupt: the request's time is over.
Expire ==
    /\ req = "inflight" /\ left = 0
    /\ req' = "replied" /\ sig' = TRUE
    /\ UNCHANGED <<held, used, time, other, timerPc, seen>>

\* Somebody signals the task on a bit of its mask.
SignalOther ==
    /\ Opened /\ ~other
    /\ other' = TRUE
    /\ UNCHANGED <<held, used, req, time, sig, timerPc, seen>>

TaskStep ==
    \/ OpenPart \/ OpenFails \/ SleepDone \/ SleepWait \/ ConsumeTick
    \/ AbortRequest \/ CollectRequest \/ ClearSignal \/ WaitWakes \/ WaitReturns

TimerNext ==
    \/ OpenStart \/ CloseTimer \/ SleepMs \/ ArmMs \/ WaitArm \/ CancelStart
    \/ TickWait \/ ServeOther \/ TaskStep
    \/ Tick \/ Expire \/ SignalOther

TimerSpec == TimerInit /\ [][TimerNext]_timerVars

\* The task runs, and timer.device replies every request in the end.
FairTimerSpec == TimerSpec /\ WF_timerVars(TaskStep) /\ WF_timerVars(Tick \/ Expire)

-----------------------------------------------------------------------------
(* Properties *)

\* "so the next arm can trust that signal" (drv_timer.h): a tick seen by the
\* periodic loop is the armed request's own, completed, so that consuming it
\* leaves a request that may be armed again.  No stale bit of an earlier wait,
\* cancel or tick is taken for it.
TickIsCompleted == timerPc = "tick" => req = "replied"

\* drv_timer_wait() sleeps "until a signal of @mask or until @ms have passed (0 is
\* one millisecond)": it reports the timeout only when that time has passed.
TimeoutMeansElapsed ==
    timerPc = "returned" /\ seen = "timeout" => waited >= asked /\ waited >= 1

\* Every sleep, wait and cancel comes to an end.
TimerCallsReturn == timerPc # "idle" ~> timerPc = "idle"
=============================================================================
