-------------------------------- MODULE Perf --------------------------------
(***************************************************************************)
(* The timing samples (include/perf.h, src/perf.c): tasks take a lock      *)
(* through lock_prof_obtain() and lock_prof_release(), nested or not, and  *)
(* each outermost wait and hold is one perf_add(); a reporter calls        *)
(* perf_report() from time to time and takes no lock.                      *)
(*                                                                         *)
(* On the 68k each update of a counter is one instruction and one step     *)
(* here; the compare and the store of the maximum are two.  perf_report()  *)
(* reads each counter once, then clears them one by one.  External: the    *)
(* semaphore, and the microsecond timer, which counts modulo 2^32.         *)
(***************************************************************************)
EXTENDS Integers

CONSTANTS Tasks, None,
          Range,      \* 2^32, scaled
          MaxTime,    \* bound on the clock
          MaxNest,    \* bound on nested obtains
          MaxCalls    \* bound on the outermost obtains of a task

Slots == {"lockwait", "lockhold"}   \* LOCKPROF_WAIT, LOCKPROF_HOLD
SlotAfter(slot) == IF slot = "lockwait" THEN "lockhold" ELSE "none"
Zero == [count |-> 0, sum |-> 0, max |-> 0]   \* struct perf_counter

VARIABLES now,
          owner, nest,    \* the SignalSemaphore: ss_Owner, ss_NestCount
          slots,          \* lp_slots
          holdT0,         \* lp_hold_t0
          at, t0, dt,     \* where a task is, and the times it has in registers
          calls,
          rep, line       \* the reporter: [at, slot, n, sum, max]; the last line it printed

lockVars == <<owner, nest, calls>>
repVars == <<rep, line>>
vars == <<now, lockVars, slots, holdT0, at, t0, dt, repVars>>

U32(x) == x % Range

Idle == [at |-> "idle", slot |-> "none", n |-> 0, sum |-> 0, max |-> 0]
Init ==
    /\ now = 0 /\ owner = None /\ nest = 0 /\ calls = [t \in Tasks |-> 0]
    /\ slots = [s \in Slots |-> Zero] /\ holdT0 = 0
    /\ at = [t \in Tasks |-> <<"out">>]
    /\ t0 = [t \in Tasks |-> 0] /\ dt = [t \in Tasks |-> 0]
    /\ rep = Idle /\ line = {}

\* get_time() of the task that runs; it moves on between any two steps.
Tick ==
    /\ now < MaxTime
    /\ now' = U32(now + 1)
    /\ UNCHANGED <<lockVars, slots, holdT0, at, t0, dt, repVars>>

Go(t, from, to) == at[t] = from /\ at' = [at EXCEPT ![t] = to] /\ UNCHANGED <<now, repVars>>

-----------------------------------------------------------------------------
(* lock_prof_obtain() and lock_prof_release() *)

ObtainTime(t) ==
    /\ \/ Go(t, <<"out">>, <<"obtain">>) /\ calls[t] < MaxCalls
       \/ Go(t, <<"in">>, <<"obtain">>) /\ nest < MaxNest
    /\ t0' = [t0 EXCEPT ![t] = now]
    /\ UNCHANGED <<lockVars, slots, holdT0, dt>>
\* ObtainSemaphore() returns; the outermost is sampled.
Obtain(t) ==
    /\ owner \in {None, t}
    /\ Go(t, <<"obtain">>, IF nest = 0 THEN <<"time", "lockwait">> ELSE <<"in">>)
    /\ owner' = t /\ nest' = nest + 1
    /\ calls' = IF nest = 0 THEN [calls EXCEPT ![t] = @ + 1] ELSE calls
    /\ UNCHANGED <<slots, holdT0, t0, dt>>
HoldStart(t) ==
    /\ Go(t, <<"added", "lockwait">>, <<"in">>)
    /\ holdT0' = now
    /\ UNCHANGED <<lockVars, slots, t0, dt>>
\* The release of a nested hold is a plain ReleaseSemaphore().
ReleaseInner(t) ==
    /\ Go(t, <<"in">>, <<"in">>) /\ nest > 1
    /\ nest' = nest - 1
    /\ UNCHANGED <<owner, calls, slots, holdT0, t0, dt>>
ReleaseOuter(t) ==
    /\ Go(t, <<"in">>, <<"time", "lockhold">>) /\ nest = 1
    /\ t0' = [t0 EXCEPT ![t] = holdT0]
    /\ UNCHANGED <<lockVars, slots, holdT0, dt>>
Release(t) ==
    /\ Go(t, <<"added", "lockhold">>, <<"out">>)
    /\ owner' = None /\ nest' = 0
    /\ UNCHANGED <<calls, slots, holdT0, t0, dt>>

-----------------------------------------------------------------------------
(* perf_add() *)

AddTime(t, s) ==
    /\ Go(t, <<"time", s>>, <<"count", s>>)
    /\ dt' = [dt EXCEPT ![t] = U32(now - t0[t])]
    /\ UNCHANGED <<lockVars, slots, holdT0, t0>>
AddCount(t, s) ==
    /\ Go(t, <<"count", s>>, <<"sum", s>>)
    /\ slots' = [slots EXCEPT ![s].count = U32(@ + 1)]
    /\ UNCHANGED <<lockVars, holdT0, t0, dt>>
AddSum(t, s) ==
    /\ Go(t, <<"sum", s>>, <<"max", s>>)
    /\ slots' = [slots EXCEPT ![s].sum = U32(@ + dt[t])]
    /\ UNCHANGED <<lockVars, holdT0, t0, dt>>
CompareMax(t, s) ==
    /\ Go(t, <<"max", s>>, IF dt[t] > slots[s].max THEN <<"store", s>> ELSE <<"added", s>>)
    /\ UNCHANGED <<lockVars, slots, holdT0, t0, dt>>
StoreMax(t, s) ==
    /\ Go(t, <<"store", s>>, <<"added", s>>)
    /\ slots' = [slots EXCEPT ![s].max = dt[t]]
    /\ UNCHANGED <<lockVars, holdT0, t0, dt>>

-----------------------------------------------------------------------------
(* lock_prof_report(): perf_report(), slot by slot *)

Report(from) == rep.at = from /\ UNCHANGED <<now, lockVars, holdT0, at, t0, dt>>
NextSlot == IF SlotAfter(rep.slot) = "none" THEN Idle ELSE [Idle EXCEPT !.at = "test", !.slot = SlotAfter(rep.slot)]

ReportStart ==
    /\ Report("idle")
    /\ rep' = [Idle EXCEPT !.at = "test", !.slot = "lockwait"]
    /\ UNCHANGED <<slots, line>>
ReportTest ==
    /\ Report("test")
    /\ rep' = IF slots[rep.slot].count = 0 THEN NextSlot
              ELSE [rep EXCEPT !.at = "sum", !.n = slots[rep.slot].count]
    /\ UNCHANGED <<slots, line>>
ReportSum ==
    /\ Report("sum")
    /\ rep' = [rep EXCEPT !.at = "max", !.sum = slots[rep.slot].sum]
    /\ UNCHANGED <<slots, line>>
ReportMax ==
    /\ Report("max")
    /\ rep' = [rep EXCEPT !.at = "print", !.max = slots[rep.slot].max]
    /\ UNCHANGED <<slots, line>>
ReportPrint ==
    /\ Report("print")
    /\ line' = {[n |-> rep.n, sum |-> rep.sum, avg |-> rep.sum \div rep.n, max |-> rep.max]}
    /\ rep' = [rep EXCEPT !.at = "clear_count"]
    /\ UNCHANGED slots
ClearCount ==
    /\ Report("clear_count")
    /\ slots' = [slots EXCEPT ![rep.slot].count = 0]
    /\ rep' = [rep EXCEPT !.at = "clear_sum"]
    /\ UNCHANGED line
ClearSum ==
    /\ Report("clear_sum")
    /\ slots' = [slots EXCEPT ![rep.slot].sum = 0]
    /\ rep' = [rep EXCEPT !.at = "clear_max"]
    /\ UNCHANGED line
ClearMax ==
    /\ Report("clear_max")
    /\ slots' = [slots EXCEPT ![rep.slot].max = 0]
    /\ rep' = NextSlot
    /\ UNCHANGED line

Next ==
    \/ Tick
    \/ \E t \in Tasks : ObtainTime(t) \/ Obtain(t) \/ HoldStart(t)
                          \/ ReleaseInner(t) \/ ReleaseOuter(t) \/ Release(t)
    \/ \E t \in Tasks, s \in Slots : AddTime(t, s) \/ AddCount(t, s) \/ AddSum(t, s)
                                       \/ CompareMax(t, s) \/ StoreMax(t, s)
    \/ ReportStart \/ ReportTest \/ ReportSum \/ ReportMax \/ ReportPrint
    \/ ClearCount \/ ClearSum \/ ClearMax

Spec == Init /\ [][Next]_vars

-----------------------------------------------------------------------------
(* Properties *)

\* Every line printed is one that some samples give, each of them in its count, its
\* sum and its maximum: the average is at most the maximum.  It is what a race that
\* only loses samples would leave true.
LineOfSamples == \A l \in line : l.sum <= l.n * l.max
=============================================================================
