----------------------------- MODULE DriverTask -----------------------------
(***************************************************************************)
(* driver_task (src/driver_task.c): spawn and join a driver's worker task. *)
(*                                                                         *)
(* Parents open and close units; a unit has one worker.  A parent in       *)
(* drv_task_spawn() allocates and launches the worker and sleeps until the *)
(* worker (or anybody else) signals it CTRL_F or CTRL_C; a parent in       *)
(* drv_task_join() signals CTRL_C to the worker and polls the worker's     *)
(* slot.  The worker's entry is the driver's, modelled by the contract of  *)
(* driver_task.h: publish the slot, set up the unit's port, report CTRL_F, *)
(* serve until CTRL_C, then drv_task_exit().                               *)
(*                                                                         *)
(* forbid is exec's Forbid(): while a task holds it no other runs, except  *)
(* while the holder waits.                                                 *)
(***************************************************************************)
EXTENDS Naturals

CONSTANTS Parents,       \* tasks that open and close units
          Workers,       \* units; also the worker task of each
          None,
          Interactive    \* parents that run in a shell, where the user's Ctrl-C reaches them

ASSUME NoneAssumption == None \notin Parents \cup Workers
ASSUME DisjointAssumption == Parents \cap Workers = {}

VARIABLES unit,     \* unit[w]: "closed", "opening", "open", "closing": what the callers believe
          parent,   \* parent[w]: the task pushed as the entry's argument
          slot,     \* slot[w]: the worker's liveness slot holds its task pointer
          mem,      \* mem[w]: the blocks allocated for w and not yet freed
          work,     \* work[w]: where the worker is
          stop,     \* stop[w]: CTRL_C is pending at the worker
          pc,       \* pc[p]: where the parent is
          arg,      \* arg[p]: the unit the parent works on
          sigF,     \* sigF[p]: CTRL_F is pending at the parent
          sigC,     \* sigC[p]: CTRL_C is pending at the parent
          pacer,    \* pacer[p]: drv_task_join()'s timer opened
          ret,      \* ret[p]: what the last call returned, while pc = "done"
          under,    \* under[p]: p closes a unit under Forbid(), as a library's close does
          forbid,   \* the task that holds Forbid(), or None
          stray,    \* stray[p]: since p's SetSignal() somebody else than the worker that it
                    \* waits for has signalled it
          misled    \* misled[w]: the Wait() of w's spawn took such a signal

joinVars == <<pacer, under>>
parentVars == <<pc, arg, sigF, sigC, ret, joinVars>>
workerVars == <<slot, mem, work, stop>>
historyVars == <<stray, misled>>   \* not in the code: what the properties need to remember
vars == <<unit, parent, parentVars, workerVars, forbid, historyVars>>

Blocks == {"ml", "task", "stack"}
SpawnPcs == {"add", "wait"}
JoinPcs == {"check", "signal", "poll", "sleep"}
\* The worker's task exists.
Alive == {"new", "init", "report", "loop", "exit1", "exit2"}

TypeOK ==
    /\ unit \in [Workers -> {"closed", "opening", "open", "closing"}]
    /\ parent \in [Workers -> Parents \cup {None}]
    /\ slot \in [Workers -> BOOLEAN]
    /\ mem \in [Workers -> SUBSET Blocks]
    /\ work \in [Workers -> {"none", "gone"} \cup Alive]
    /\ stop \in [Workers -> BOOLEAN]
    /\ pc \in [Parents -> {"idle", "done"} \cup SpawnPcs \cup JoinPcs]
    /\ arg \in [Parents -> Workers \cup {None}]
    /\ sigF \in [Parents -> BOOLEAN] /\ sigC \in [Parents -> BOOLEAN]
    /\ pacer \in [Parents -> BOOLEAN]
    /\ ret \in [Parents -> {"none", "0", "-ENOMEM", "-EIO", "joined"}]
    /\ under \in [Parents -> BOOLEAN]
    /\ forbid \in Parents \cup Workers \cup {None}
    /\ stray \in [Parents -> BOOLEAN] /\ misled \in [Workers -> BOOLEAN]

Init ==
    /\ unit = [w \in Workers |-> "closed"] /\ parent = [w \in Workers |-> None]
    /\ slot = [w \in Workers |-> FALSE] /\ mem = [w \in Workers |-> {}]
    /\ work = [w \in Workers |-> "none"] /\ stop = [w \in Workers |-> FALSE]
    /\ pc = [p \in Parents |-> "idle"] /\ arg = [p \in Parents |-> None]
    /\ sigF = [p \in Parents |-> FALSE] /\ sigC = [p \in Parents |-> FALSE]
    /\ pacer = [p \in Parents |-> FALSE]
    /\ ret = [p \in Parents |-> "none"] /\ under = [p \in Parents |-> FALSE]
    /\ forbid = None
    /\ stray = [p \in Parents |-> FALSE] /\ misled = [w \in Workers |-> FALSE]

\* A task runs only if no other task holds Forbid().
Runs(t) == forbid \in {None, t}

Goto(p, from, to) == Runs(p) /\ pc[p] = from /\ pc' = [pc EXCEPT ![p] = to]

\* drv_task_spawn() or drv_task_join() returns r to the caller.
Return(p, from, r) == Goto(p, from, "done") /\ ret' = [ret EXCEPT ![p] = r]

\* Whether p, between its SetSignal() and its Wait(), is signalled by another than its worker.
Heard(p, from) == stray' = [stray EXCEPT ![p] = @ \/ (pc[p] \in SpawnPcs /\ arg[p] # from)]

-----------------------------------------------------------------------------
(* drv_task_spawn() *)

\* The caller opens a unit.  A unit given up with its worker alive is not opened again:
\* a new one has its own context, another member of Workers.
Opens(p, w) ==
    /\ unit[w] = "closed" /\ work[w] \notin Alive
    /\ unit' = [unit EXCEPT ![w] = "opening"]
    /\ arg' = [arg EXCEPT ![p] = w]
    /\ misled' = [misled EXCEPT ![w] = FALSE]

\* Lines 42-47: of the blocks got, those that are freed.
Freed_Leak(got) == got \cap {"ml", "task"}
Freed(got) == got

\* Lines 34-49: some of the three allocations fail.
SpawnFails(p, w) ==
    /\ Return(p, "idle", "-ENOMEM")
    /\ Opens(p, w)
    /\ \E got \in SUBSET Blocks \ {Blocks} : mem' = [mem EXCEPT ![w] = got \ Freed(got)]
    /\ UNCHANGED <<parent, sigF, sigC, joinVars, slot, work, stop, forbid, stray>>

\* Lines 34-75: the blocks, the stack with (ctx, parent), tc_MemEntry, and at last
\* SetSignal(0, F | C).
SpawnClear(p, w) ==
    /\ Goto(p, "idle", "add")
    /\ Opens(p, w)
    /\ mem' = [mem EXCEPT ![w] = Blocks]
    /\ parent' = [parent EXCEPT ![w] = p]
    /\ sigF' = [sigF EXCEPT ![p] = FALSE]
    /\ sigC' = [sigC EXCEPT ![p] = FALSE]
    /\ UNCHANGED <<joinVars, ret, slot, work, stop, forbid, stray>>

\* Line 77: AddTask().
SpawnAdd(p) ==
    /\ Goto(p, "add", "wait")
    /\ work' = [work EXCEPT ![arg[p]] = "new"]
    /\ stop' = [stop EXCEPT ![arg[p]] = FALSE]
    /\ UNCHANGED <<unit, parent, arg, sigF, sigC, joinVars, ret, slot, mem, forbid, historyVars>>

\* Lines 78-84.
SpawnAddFails(p) ==
    /\ Return(p, "add", "-ENOMEM")
    /\ mem' = [mem EXCEPT ![arg[p]] = {}]
    /\ stray' = [stray EXCEPT ![p] = FALSE]
    /\ UNCHANGED <<unit, parent, arg, sigF, sigC, joinVars, slot, work, stop, forbid, misled>>

\* Lines 89-97: Wait(F | C) returns with what is set, and clears it.
SpawnWait(p) ==
    /\ sigF[p] \/ sigC[p]
    /\ Return(p, "wait", IF sigC[p] THEN "-EIO" ELSE "0")
    /\ sigF' = [sigF EXCEPT ![p] = FALSE]
    /\ sigC' = [sigC EXCEPT ![p] = FALSE]
    /\ misled' = [misled EXCEPT ![arg[p]] = stray[p]]
    /\ stray' = [stray EXCEPT ![p] = FALSE]
    /\ UNCHANGED <<unit, parent, arg, joinVars, workerVars, forbid>>

\* The user presses Ctrl-C in the shell that the parent runs in, at any time: the
\* console's task signals it.
Break(p) ==
    /\ p \in Interactive /\ forbid = None /\ ~sigC[p]
    /\ sigC' = [sigC EXCEPT ![p] = TRUE]
    /\ Heard(p, None)
    /\ UNCHANGED <<unit, parent, pc, arg, sigF, joinVars, ret, workerVars, forbid, misled>>

-----------------------------------------------------------------------------
(* drv_task_join() *)

\* A caller closes a unit, under Forbid() or not, whichever task opened it; or it
\* cleans up a unit that never opened.
JoinStart(p, w) ==
    /\ unit[w] \in {"open", "closed"}
    /\ Goto(p, "idle", "check") /\ forbid = None
    /\ unit' = [unit EXCEPT ![w] = "closing"]
    /\ arg' = [arg EXCEPT ![p] = w]
    /\ \E u \in BOOLEAN :
          /\ under' = [under EXCEPT ![p] = u]
          /\ forbid' = IF u THEN p ELSE None
    /\ UNCHANGED <<parent, sigF, sigC, pacer, ret, workerVars, historyVars>>

\* Lines 102-103: nothing to join.
JoinNothing(p) ==
    /\ Return(p, "check", "joined")
    /\ ~slot[arg[p]]
    /\ forbid' = None
    /\ under' = [under EXCEPT ![p] = FALSE]
    /\ UNCHANGED <<unit, parent, arg, sigF, sigC, pacer, workerVars, historyVars>>

\* Lines 102, 113-114: drv_timer_open() finds a signal, memory and the device, or not.
JoinTimer(p) ==
    /\ Goto(p, "check", "signal")
    /\ slot[arg[p]]
    /\ \E have \in BOOLEAN : pacer' = [pacer EXCEPT ![p] = have]
    /\ UNCHANGED <<unit, parent, arg, sigF, sigC, under, ret, workerVars, forbid, historyVars>>

\* Line 116: *slot is read again (SignalsLiveTask: it still holds the worker).
JoinSignal_Missing(p) ==
    /\ Goto(p, "signal", "poll")
    /\ UNCHANGED <<unit, parent, arg, sigF, sigC, joinVars, ret, workerVars, forbid, historyVars>>

JoinSignal(p) ==
    /\ Goto(p, "signal", "poll")
    /\ stop' = [stop EXCEPT ![arg[p]] = slot[arg[p]]]
    /\ UNCHANGED <<unit, parent, arg, sigF, sigC, joinVars, ret, slot, mem, work, forbid, historyVars>>

\* Lines 117-122, the slot not yet clear: with a timer, sleep pace_ms; waiting
\* lets the others run even under Forbid().  Without one, look again.
JoinSleep(p) ==
    /\ Goto(p, "poll", "sleep")
    /\ slot[arg[p]] /\ pacer[p]
    /\ forbid' = IF forbid = p THEN None ELSE forbid
    /\ UNCHANGED <<unit, parent, arg, sigF, sigC, joinVars, ret, workerVars, historyVars>>

JoinWakes(p) ==
    /\ Goto(p, "sleep", "poll")
    /\ forbid' = IF under[p] THEN p ELSE forbid
    /\ UNCHANGED <<unit, parent, arg, sigF, sigC, joinVars, ret, workerVars, historyVars>>

Hot(p) == pc[p] = "poll" /\ ~pacer[p]
JoinSpin(p) ==
    /\ Runs(p) /\ Hot(p) /\ slot[arg[p]]
    /\ UNCHANGED vars

\* Lines 117, 126: the slot is clear; SetSignal(0, F | C) drops the exit's CTRL_F.
JoinDrop_Early(p) ==
    /\ Return(p, "poll", "joined")
    /\ sigF' = [sigF EXCEPT ![p] = FALSE]
    /\ sigC' = [sigC EXCEPT ![p] = FALSE]
    /\ pacer' = [pacer EXCEPT ![p] = FALSE]
    /\ under' = [under EXCEPT ![p] = FALSE]
    /\ forbid' = None
    /\ UNCHANGED <<unit, parent, arg, workerVars, historyVars>>

JoinDrop(p) ==
    /\ Return(p, "poll", "joined")
    /\ ~slot[arg[p]]
    /\ sigF' = [sigF EXCEPT ![p] = FALSE]
    /\ sigC' = [sigC EXCEPT ![p] = FALSE]
    /\ pacer' = [pacer EXCEPT ![p] = FALSE]
    /\ under' = [under EXCEPT ![p] = FALSE]
    /\ forbid' = None
    /\ UNCHANGED <<unit, parent, arg, workerVars, historyVars>>

\* The caller takes the result: a unit is open after 0, closed after anything else.
CallerDone(p) ==
    /\ Goto(p, "done", "idle")
    /\ unit' = [unit EXCEPT ![arg[p]] = IF ret[p] = "0" THEN "open" ELSE "closed"]
    /\ arg' = [arg EXCEPT ![p] = None]
    /\ ret' = [ret EXCEPT ![p] = "none"]
    /\ UNCHANGED <<parent, sigF, sigC, joinVars, workerVars, forbid, historyVars>>

-----------------------------------------------------------------------------
(* The worker: its entry, and drv_task_exit(). *)

Work(w, from, to) == Runs(w) /\ work[w] = from /\ work' = [work EXCEPT ![w] = to]

\* drv_task_exit()'s Forbid(), never undone.
ExitForbid_Missing(w) == UNCHANGED forbid
ExitForbid(w) == forbid' = w

\* The entry publishes FindTask(NULL) before it reports readiness.
Publish(w) ==
    /\ Work(w, "new", "init")
    /\ slot' = [slot EXCEPT ![w] = TRUE]
    /\ UNCHANGED <<unit, parent, parentVars, mem, stop, forbid, historyVars>>

\* drv_unit_msgport_init(): the port gets the worker's own signal bit.
InitPort(w) ==
    /\ Work(w, "init", "report")
    /\ UNCHANGED <<unit, parent, parentVars, slot, mem, stop, forbid, historyVars>>

\* drv_unit_msgport_init() finds no free bit, or other initialisation fails:
\* drv_task_exit(..., ranLoop = FALSE).
InitFails(w) ==
    /\ Work(w, "init", "exit1")
    /\ ExitForbid(w)
    /\ slot' = [slot EXCEPT ![w] = FALSE]
    /\ UNCHANGED <<unit, parent, parentVars, mem, stop, historyVars>>

Ready(w) ==
    /\ Work(w, "report", "loop")
    /\ sigF' = [sigF EXCEPT ![parent[w]] = TRUE]
    /\ Heard(parent[w], w)
    /\ UNCHANGED <<unit, parent, pc, arg, sigC, joinVars, ret, slot, mem, stop, forbid, misled>>

\* CTRL_C ends the wait loop: drv_task_exit(..., ranLoop = TRUE), Forbid() and
\* the slot.
Stop(w) ==
    /\ Work(w, "loop", "exit2")
    /\ stop[w]
    /\ ExitForbid(w)
    /\ slot' = [slot EXCEPT ![w] = FALSE]
    /\ UNCHANGED <<unit, parent, parentVars, mem, stop, historyVars>>

\* drv_task_exit()'s Signal(); the entry returns at once, exec frees tc_MemEntry,
\* and with the task go its argument, its signals and its Forbid().
Vanish(w) ==
    /\ mem' = [mem EXCEPT ![w] = {}]
    /\ parent' = [parent EXCEPT ![w] = None]
    /\ stop' = [stop EXCEPT ![w] = FALSE]
    /\ forbid' = IF forbid = w THEN None ELSE forbid

ExitFailed(w) ==
    /\ Work(w, "exit1", "gone")
    /\ sigC' = [sigC EXCEPT ![parent[w]] = TRUE]
    /\ Vanish(w)
    /\ Heard(parent[w], w)
    /\ UNCHANGED <<unit, pc, arg, sigF, joinVars, ret, slot, misled>>

ExitRan(w) ==
    /\ Work(w, "exit2", "gone")
    /\ sigF' = [sigF EXCEPT ![parent[w]] = TRUE]
    /\ Vanish(w)
    /\ Heard(parent[w], w)
    /\ UNCHANGED <<unit, pc, arg, sigC, joinVars, ret, slot, misled>>

WorkerStep(w) ==
    Publish(w) \/ InitPort(w) \/ InitFails(w) \/ Ready(w) \/ Stop(w) \/ ExitFailed(w) \/ ExitRan(w)

-----------------------------------------------------------------------------
\* A call under way goes on.
ParentStep(p) ==
    \/ SpawnAdd(p) \/ SpawnAddFails(p) \/ SpawnWait(p)
    \/ JoinNothing(p) \/ JoinTimer(p) \/ JoinSignal(p) \/ JoinSleep(p) \/ JoinWakes(p)
    \/ JoinDrop(p) \/ CallerDone(p)

Next ==
    \/ \E p \in Parents :
          \/ \E w \in Workers : SpawnFails(p, w) \/ SpawnClear(p, w) \/ JoinStart(p, w)
          \/ ParentStep(p) \/ JoinSpin(p) \/ Break(p)
    \/ \E w \in Workers : WorkerStep(w)

Spec == Init /\ [][Next]_vars

\* A poll without a timer never waits: it keeps the CPU from every task of a lower
\* priority for as long as it lasts, and the priorities are the callers'.  Otherwise every
\* task gets its turn: all of them wait for something again and again, and a worker
\* asked to stop leaves its loop.  Strong fairness, because Forbid() keeps taking the
\* others' turns away: exec hands the CPU round whenever its holder lets go, and a
\* caller with a timer lets go in each of its sleeps, of a millisecond at least.
Turns ==
    /\ \A p \in Parents : SF_vars(ParentStep(p))
    /\ \A w \in Workers : SF_vars(WorkerStep(w))
Fairness == (\E p \in Parents : <>[]Hot(p)) \/ Turns

FairSpec == Spec /\ Fairness

-----------------------------------------------------------------------------
(* Properties *)

Returned(p, r) == pc[p] = "done" /\ ret[p] = r

\* What a call returns holds, whatever signals are left from earlier calls, unless the
\* spawn's Wait() took a signal that its worker had not sent.  0: the worker has reached
\* its wait loop.  -EIO: its initialisation failed and its memory is reclaimed, so the
\* context may be freed at once.  From drv_task_join(): it does not run any more, not
\* even the end of drv_task_exit(), so the code may be unloaded.
ReturnsTruthful ==
    \A p \in Parents : pc[p] = "done" /\ ~misled[arg[p]] =>
        /\ ret[p] = "0" => work[arg[p]] = "loop"
        /\ ret[p] = "-EIO" => work[arg[p]] = "gone" /\ mem[arg[p]] = {}
        /\ ret[p] = "joined" => work[arg[p]] \notin Alive

\* A closed unit has no worker, no slot, and none of the three blocks is left,
\* whichever allocation, AddTask() or initialisation failed, unless its spawn was misled.
ClosedLeavesNothing ==
    \A w \in Workers :
        unit[w] = "closed" /\ ~misled[w] => work[w] \notin Alive /\ ~slot[w] /\ mem[w] = {}

\* drv_task_join() reads *slot again after its test, with the opening of a timer in
\* between: it is still the worker, and Signal() never gets a NULL.
SignalsLiveTask ==
    \A p \in Parents : pc[p] = "signal" /\ ~misled[arg[p]] => slot[arg[p]]

\* What can mislead a spawn: the user's break, a worker whose unit another task closes,
\* or one whose own spawn was misled.  No other worker of the same task signals while
\* that task attends one of them, although all use the same two bits.
OnlyTheseMislead ==
    [][\A p \in Parents : stray'[p] /\ ~stray[p] =>
          \/ Break(p)
          \/ \E w \in Workers \ {arg[p]} :
                parent[w] = p /\ work'[w] # work[w]
                /\ (misled[w] \/ \E q \in Parents \ {p} : arg[q] = w /\ pc[q] \in JoinPcs)]_vars

\* Every spawn and every join returns, as long as no join polls without a timer: such a
\* poll ends if the worker gets the CPU, which a caller of a higher priority, or one
\* that holds Forbid(), does not let it have.
CallsReturn ==
    \A p \in Parents : pc[p] # "idle" ~> (pc[p] = "idle" \/ \E q \in Parents : Hot(q))

\* What driver_task.h says of every spawn, whoever signals its caller meanwhile.  Line 22:
\* CTRL_F means "the task reached its wait loop" and "spawn returns 0".  Lines 36-37:
\* "-EIO if the task started but its initialisation failed (its memory is already
\* reclaimed by then)".
SpawnTruthful ==
    \A p \in Parents :
        /\ Returned(p, "0") => work[arg[p]] = "loop"
        /\ Returned(p, "-EIO") => work[arg[p]] = "gone" /\ mem[arg[p]] = {}
=============================================================================
