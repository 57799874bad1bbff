----------------------------- MODULE ResetGuard -----------------------------
(***************************************************************************)
(* reset_guard (src/reset_guard.c): run each driver's prepare() before the *)
(* machine resets, on both kinds of reset: the keyboard's reset handlers   *)
(* (interrupt context) and ColdReboot(), whose library vector the guards   *)
(* patch one on top of the other.                                          *)
(*                                                                         *)
(* Drivers install and remove their guards, other programs patch the same  *)
(* vector, one task calls ColdReboot(), and the keyboard's interrupt may   *)
(* come between any two steps: while it runs no task does.                 *)
(*                                                                         *)
(* External: exec's vector, SetFunction(); keyboard.device, which calls    *)
(* every registered handler once the keyboard asks for a reset, and lets   *)
(* the machine reset when all of them have reported DONE.                  *)
(***************************************************************************)
EXTENDS Naturals

CONSTANTS Guards,       \* one reset_guard per driver
          Foreign,      \* other programs' patches of ColdReboot
          None,         \* nothing
          Rom,          \* exec's own ColdReboot
          EarlyReset    \* a reset may come before reset_guard_install() has filled in what
                        \* the handler it registered, or the vector it set, make use of

ASSUME IdAssumption ==
    /\ Guards \cap Foreign = {}
    /\ {None, Rom} \cap (Guards \cup Foreign) = {} /\ None # Rom
ASSUME FlagAssumption == EarlyReset \in BOOLEAN

Patches == Guards \cup Foreign

VARIABLES vec,       \* the target of exec's ColdReboot vector
          found,     \* found[x]: the target SetFunction() returned to x
          old,       \* old[x]: the target x chains to (rg_OldColdReboot)
          tramp,     \* guards whose trampoline is allocated
          devOpen,   \* guards with rg_DeviceOpen
          handlers,  \* guards registered with keyboard.device
          doneReady, \* guards whose rg_DoneIO is initialised
          prepared,  \* guards with rg_Prepared set
          prep,      \* prep[g]: the driver's prepare(): "no", "running", "done"
          runs,      \* runs[g]: how often it was called since the install
          inst,      \* inst[g]: where the driver's install or remove is
          boot,      \* ColdReboot(): the code it is in (None: not called)
          bootPc,    \* ... and the next step there
          irq,       \* the guard whose handler the interrupt is in, or None
          irqPc,     \* ... and its next step
          keyTodo,   \* handlers the keyboard reset has still to call
          key,       \* the keyboard reset: "no", "asked"
          sent,      \* guards that reported DONE since their install
          due,       \* guards installed since before the reset under way began
          machine    \* "up" or "reset"

driverVars == <<vec, found, old, tramp, devOpen, handlers, doneReady, inst>>
prepVars   == <<prepared, prep, runs>>
bootVars   == <<boot, bootPc>>
keyVars    == <<irq, irqPc, keyTodo, key, sent>>
vars == <<driverVars, prepVars, bootVars, keyVars, due, machine>>

InstallPcs == {"open", "add", "done_io", "tramp", "patch", "chain"}
RemovePcs  == {"rem", "close"}

TypeOK ==
    /\ vec \in Patches \cup {Rom}
    /\ found \in [Patches -> Patches \cup {Rom, None}]
    /\ old \in [Patches -> Patches \cup {Rom, None}]
    /\ \A s \in {tramp, devOpen, handlers, doneReady, prepared, keyTodo, sent, due} : s \subseteq Guards
    /\ prep \in [Guards -> {"no", "running", "done"}]
    /\ runs \in [Guards -> Nat]
    /\ inst \in [Guards -> {"out", "in"} \cup InstallPcs \cup RemovePcs]
    /\ boot \in Patches \cup {Rom, None}
    /\ bootPc \in {"flag", "prepare", "jump"}
    /\ irq \in Guards \cup {None}
    /\ irqPc \in {"flag", "prepare", "done"}
    /\ key \in {"no", "asked"}
    /\ machine \in {"up", "reset"}

Init ==
    /\ vec = Rom /\ found = [x \in Patches |-> None] /\ old = found
    /\ tramp = {} /\ devOpen = {} /\ handlers = {} /\ doneReady = {}
    /\ prepared = {} /\ prep = [g \in Guards |-> "no"] /\ runs = [g \in Guards |-> 0]
    /\ inst = [g \in Guards |-> "out"]
    /\ boot = None /\ bootPc = "flag"
    /\ irq = None /\ irqPc = "flag" /\ keyTodo = {} /\ key = "no" /\ sent = {}
    /\ due = {} /\ machine = "up"

\* A task takes a step: no interrupt is being served.
TaskRuns == machine = "up" /\ irq = None /\ keyTodo = {}

Goto(g, from, to) == TaskRuns /\ inst[g] = from /\ inst' = [inst EXCEPT ![g] = to]

\* SetFunction(): the new target in, the old one out, in one step.
SetFunction_Late(x) == vec' = x /\ found' = [found EXCEPT ![x] = x]
SetFunction(x) == vec' = x /\ found' = [found EXCEPT ![x] = vec]

-----------------------------------------------------------------------------
(* reset_guard_install() *)

\* Lines 103-118: memset and the PA_IGNORE port.
InstallStart(g) ==
    /\ Goto(g, "out", "open")
    /\ prepared' = prepared \ {g}
    /\ prep' = [prep EXCEPT ![g] = "no"] /\ runs' = [runs EXCEPT ![g] = 0]
    /\ doneReady' = doneReady \ {g} /\ tramp' = tramp \ {g} /\ devOpen' = devOpen \ {g}
    /\ sent' = sent \ {g}
    /\ UNCHANGED <<vec, found, old, handlers, bootVars, irq, irqPc, keyTodo, key, due, machine>>

\* Lines 119-133: OpenDevice(), and the handler structure.
InstallOpen(g) ==
    /\ Goto(g, "open", "add")
    /\ devOpen' = devOpen \cup {g}
    /\ UNCHANGED <<vec, found, old, tramp, handlers, doneReady, prepVars, bootVars, keyVars, due, machine>>

InstallOpenFails(g) ==
    /\ Goto(g, "open", "out")
    /\ UNCHANGED <<vec, found, old, tramp, devOpen, handlers, doneReady, prepVars, bootVars, keyVars, due, machine>>

\* Line 136: KBD_ADDRESETHANDLER.
InstallAdd(g) ==
    /\ Goto(g, "add", "done_io")
    /\ handlers' = handlers \cup {g}
    /\ UNCHANGED <<vec, found, old, tramp, devOpen, doneReady, prepVars, bootVars, keyVars, due, machine>>

\* Lines 137-141.
InstallAddFails(g) ==
    /\ Goto(g, "add", "out")
    /\ devOpen' = devOpen \ {g}
    /\ UNCHANGED <<vec, found, old, tramp, handlers, doneReady, prepVars, bootVars, keyVars, due, machine>>

\* Lines 145-150.
InstallDoneIO(g) ==
    /\ Goto(g, "done_io", "tramp")
    /\ doneReady' = doneReady \cup {g}
    /\ UNCHANGED <<vec, found, old, tramp, devOpen, handlers, prepVars, bootVars, keyVars, due, machine>>

\* Lines 154-170: the trampoline.
InstallTramp(g) ==
    /\ Goto(g, "tramp", "patch")
    /\ tramp' = tramp \cup {g}
    /\ UNCHANGED <<vec, found, old, devOpen, handlers, doneReady, prepVars, bootVars, keyVars, due, machine>>

\* Lines 155-160: no memory; the handler is removed, then the device closed.
InstallTrampFails_Forgets(g) ==
    /\ Goto(g, "tramp", "close")
    /\ UNCHANGED <<vec, found, old, tramp, devOpen, handlers, doneReady, prepVars, bootVars, keyVars, due, machine>>

InstallTrampFails(g) ==
    /\ Goto(g, "tramp", "rem")
    /\ UNCHANGED <<vec, found, old, tramp, devOpen, handlers, doneReady, prepVars, bootVars, keyVars, due, machine>>

\* Lines 173-174: SetFunction() ...
InstallPatch(g) ==
    /\ Goto(g, "patch", "chain")
    /\ SetFunction(g)
    /\ UNCHANGED <<old, tramp, devOpen, handlers, doneReady, prepVars, bootVars, keyVars, due, machine>>

\* ... and where its result goes.
InstallChain(g) ==
    /\ Goto(g, "chain", "in")
    /\ old' = [old EXCEPT ![g] = found[g]]
    /\ UNCHANGED <<vec, found, tramp, devOpen, handlers, doneReady, prepVars, bootVars, keyVars, due, machine>>

-----------------------------------------------------------------------------
(* reset_guard_remove(), at expunge, also while the machine is on its way down. *)
(* It frees the trampoline without asking whether a task is in the guard:       *)
(* assumed is that none is, and the same of another program's patch.            *)

\* Lines 187-201: only if the vector is still ours; another patch on top makes it
\* return FALSE, and the guard stays.
RemovePatch_Any(g) ==
    /\ Goto(g, "in", "rem") /\ boot # g
    /\ vec' = old[g]
    /\ tramp' = tramp \ {g} /\ due' = due \ {g}
    /\ UNCHANGED <<found, old, devOpen, handlers, doneReady, prepVars, bootVars, keyVars, machine>>

RemovePatch(g) ==
    /\ Goto(g, "in", "rem") /\ boot # g
    /\ vec = g
    /\ vec' = old[g]
    /\ tramp' = tramp \ {g} /\ due' = due \ {g}
    /\ UNCHANGED <<found, old, devOpen, handlers, doneReady, prepVars, bootVars, keyVars, machine>>

\* Lines 203 and 157: KBD_REMRESETHANDLER.
RemoveHandler(g) ==
    /\ Goto(g, "rem", "close")
    /\ handlers' = handlers \ {g}
    /\ UNCHANGED <<vec, found, old, tramp, devOpen, doneReady, prepVars, bootVars, keyVars, due, machine>>

\* Lines 204-205 and 158-159: CloseDevice().
RemoveClose(g) ==
    /\ Goto(g, "close", "out")
    /\ devOpen' = devOpen \ {g}
    /\ UNCHANGED <<vec, found, old, tramp, handlers, doneReady, prepVars, bootVars, keyVars, due, machine>>

\* Another program patches the vector, and takes its patch back if it is on top.
ForeignPatch(f) ==
    /\ TaskRuns /\ old[f] = None
    /\ SetFunction(f) /\ old' = [old EXCEPT ![f] = vec]
    /\ UNCHANGED <<tramp, devOpen, handlers, doneReady, inst, prepVars, bootVars, keyVars, due, machine>>

ForeignUnpatch(f) ==
    /\ TaskRuns /\ boot # f /\ vec = f
    /\ vec' = old[f] /\ old' = [old EXCEPT ![f] = None]
    /\ UNCHANGED <<found, tramp, devOpen, handlers, doneReady, inst, prepVars, bootVars, keyVars, due, machine>>

-----------------------------------------------------------------------------
(* reset_guard_run_prepare(): the flag is tested and set under Disable(), then *)
(* prepare() runs, interrupts enabled.  A guard without a prepare() has        *)
(* nothing to get done and is not one of Guards.                               *)

TestAndSet_Plain(g) == prepared' = prepared \cup {g} /\ prep' = [prep EXCEPT ![g] = "running"]
                       /\ runs' = [runs EXCEPT ![g] = @ + 1]

TestAndSet(g) ==
    IF g \in prepared
      THEN UNCHANGED prepVars
      ELSE /\ prepared' = prepared \cup {g}
           /\ prep' = [prep EXCEPT ![g] = "running"]
           /\ runs' = [runs EXCEPT ![g] = @ + 1]

\* The step after the flag: prepare(), or what follows run_prepare.
AfterFlag(g, next) == IF g \in prepared THEN next ELSE "prepare"

Prepare(g) == prep' = [prep EXCEPT ![g] = "done"] /\ UNCHANGED <<prepared, runs>>

Installed == {g \in Guards : inst[g] = "in"}

\* A reset begins: the guards now installed are the ones it must find prepared.
NoReset == boot = None /\ key = "no"
Begin == due' = IF NoReset THEN Installed ELSE due

-----------------------------------------------------------------------------
(* ColdReboot(): reset_guard_coldreboot_entry() of one guard after the other. *)

BootStart ==
    /\ TaskRuns /\ boot = None
    /\ EarlyReset \/ \A g \in Guards : inst[g] # "chain"
    /\ boot' = vec /\ bootPc' = "flag"
    /\ Begin
    /\ UNCHANGED <<driverVars, prepVars, keyVars, machine>>

\* The flag is set and the call forgotten.
BootFlag_Skips ==
    /\ TaskRuns /\ boot \in Guards /\ bootPc = "flag"
    /\ TestAndSet(boot)
    /\ bootPc' = "jump"
    /\ UNCHANGED <<driverVars, boot, keyVars, due, machine>>

BootFlag ==
    /\ TaskRuns /\ boot \in Guards /\ bootPc = "flag"
    /\ TestAndSet(boot)
    /\ bootPc' = AfterFlag(boot, "jump")
    /\ UNCHANGED <<driverVars, boot, keyVars, due, machine>>

BootPrepare ==
    /\ TaskRuns /\ boot \in Guards /\ bootPc = "prepare"
    /\ Prepare(boot)
    /\ bootPc' = "jump"
    /\ UNCHANGED <<driverVars, boot, keyVars, due, machine>>

\* The jump to rg_OldColdReboot.
BootJump ==
    /\ TaskRuns /\ boot \in Guards /\ bootPc = "jump"
    /\ boot' = old[boot] /\ bootPc' = "flag"
    /\ UNCHANGED <<driverVars, prepVars, keyVars, due, machine>>

BootForeign ==
    /\ TaskRuns /\ boot \in Foreign
    /\ boot' = old[boot]
    /\ UNCHANGED <<driverVars, prepVars, bootPc, keyVars, due, machine>>

\* exec's own ColdReboot() resets the machine.
BootRom ==
    /\ TaskRuns /\ boot = Rom
    /\ machine' = "reset"
    /\ UNCHANGED <<driverVars, prepVars, bootVars, keyVars, due>>

-----------------------------------------------------------------------------
(* The keyboard: reset_guard_kbd_handler() of every registered guard. *)

KeyReset ==
    /\ TaskRuns /\ key = "no"
    /\ EarlyReset \/ handlers \subseteq doneReady
    /\ key' = "asked" /\ keyTodo' = handlers
    /\ Begin
    /\ UNCHANGED <<driverVars, prepVars, bootVars, irq, irqPc, sent, machine>>

IrqEnter(g) ==
    /\ machine = "up" /\ irq = None /\ g \in keyTodo
    /\ irq' = g /\ irqPc' = "flag" /\ keyTodo' = keyTodo \ {g}
    /\ UNCHANGED <<driverVars, prepVars, bootVars, key, sent, due, machine>>

IrqFlag ==
    /\ irq \in Guards /\ irqPc = "flag"
    /\ TestAndSet(irq)
    /\ irqPc' = AfterFlag(irq, "done")
    /\ UNCHANGED <<driverVars, bootVars, irq, keyTodo, key, sent, due, machine>>

IrqPrepare ==
    /\ irq \in Guards /\ irqPc = "prepare"
    /\ Prepare(irq)
    /\ irqPc' = "done"
    /\ UNCHANGED <<driverVars, bootVars, irq, keyTodo, key, sent, due, machine>>

\* SendIO(&rg->rg_DoneIO).
IrqDone ==
    /\ irq \in Guards /\ irqPc = "done"
    /\ sent' = sent \cup {irq} /\ irq' = None
    /\ UNCHANGED <<driverVars, prepVars, bootVars, irqPc, keyTodo, key, due, machine>>

\* Every handler has reported: the keyboard resets the machine.
KeyDone ==
    /\ TaskRuns /\ key = "asked"
    /\ machine' = "reset"
    /\ UNCHANGED <<driverVars, prepVars, bootVars, keyVars, due>>

-----------------------------------------------------------------------------
Install(g) ==
    \/ InstallStart(g) \/ InstallOpen(g) \/ InstallOpenFails(g) \/ InstallAdd(g)
    \/ InstallAddFails(g) \/ InstallDoneIO(g) \/ InstallTramp(g) \/ InstallTrampFails(g)
    \/ InstallPatch(g) \/ InstallChain(g)

Remove(g) == RemovePatch(g) \/ RemoveHandler(g) \/ RemoveClose(g)

BootStep == BootFlag \/ BootPrepare \/ BootJump \/ BootForeign \/ BootRom

IrqStep == IrqFlag \/ IrqPrepare \/ IrqDone \/ \E g \in Guards : IrqEnter(g)

Next ==
    \/ \E g \in Guards : Install(g) \/ Remove(g)
    \/ \E f \in Foreign : ForeignPatch(f) \/ ForeignUnpatch(f)
    \/ BootStart \/ BootStep \/ KeyReset \/ IrqStep \/ KeyDone

Spec == Init /\ [][Next]_vars

\* An interrupt is served at once, and the rebooting task runs.
FairSpec == Spec /\ WF_vars(BootStep) /\ WF_vars(IrqStep)

-----------------------------------------------------------------------------
(* Properties *)

\* "prepare() runs at most once per session, even though the Ctrl-A-A path passes
\* through both hooks."
PrepareOnce == \A g \in Guards : runs[g] <= 1

\* "The guard's handler runs prepare() inline and only then reports DONE."
DoneAfterPrepare == \A g \in sent : prep[g] = "done"

\* The machine never resets under a driver: every guard that was installed when
\* the reset began, and not removed since, has finished its prepare(), but for the one
\* that the keyboard's reset interrupted in ColdReboot() (DoneAfterPrepare).
QuiescedAtReset ==
    machine = "reset" =>
        \A g \in due : prep[g] = "done" \/ (boot = g /\ bootPc = "prepare" /\ key = "asked")

\* The targets that ColdReboot() comes through: those in every set that holds the
\* vector's and, with a patch, the one it chains to.
Targets == Patches \cup {Rom, None}
Reached ==
    {x \in Targets : \A s \in SUBSET Targets :
        vec \in s /\ (\A y \in s \cap Patches : old[y] \in s) => x \in s}

\* Whoever installs and removes in whatever order, ColdReboot() goes through every
\* installed guard and every foreign patch, through no freed trampoline, and
\* ends in exec's own.
ChainSound ==
    (\A g \in Guards : inst[g] # "chain") =>
        /\ Reached = {Rom} \cup Installed \cup {f \in Foreign : old[f] # None}
        /\ Installed \subseteq tramp

\* An install that failed, and a remove that succeeded, leave nothing behind: no
\* handler registered, no device open, no trampoline; an installed guard has all.
\* On the way there no handler is registered with a closed device.
WholeOrNothing ==
    /\ handlers \subseteq devOpen
    /\ \A g \in Guards :
          /\ inst[g] = "out" => g \notin handlers \cup devOpen \cup tramp
          /\ inst[g] = "in"  => g \in handlers \cap devOpen \cap tramp \cap doneReady

\* A ColdReboot() resets the machine in the end.
RebootCompletes == boot # None ~> machine = "reset"
=============================================================================
