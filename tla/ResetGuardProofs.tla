-------------------------- MODULE ResetGuardProofs --------------------------
(***************************************************************************)
(* The safety properties of ResetGuard, for any number of drivers and of   *)
(* other programs that patch ColdReboot().                                 *)
(*                                                                         *)
(* The chain of the vector is reasoned about without walking it: a closed  *)
(* set holds, with a patch, what the patch chains to, and a target is      *)
(* reached from another if every closed set with the one has the other.    *)
(* A patch that is put on top, or taken from the top, changes the closed   *)
(* sets by that one element, so no induction along the chain is needed.    *)
(***************************************************************************)
EXTENDS ResetGuard, TLAPS

\* The patches in force, and what each chains to: SetFunction()'s result, stored
\* in rg_OldColdReboot or still to be stored.
Active == {f \in Foreign : old[f] # None} \cup {g \in Guards : inst[g] \in {"chain", "in"}}
Link(x) == IF x \in Guards /\ inst[x] = "chain" THEN found[x] ELSE old[x]
Closed(s) == \A x \in s \cap Active : Link(x) \in s

\* The chain is a list of all the patches in force, ended by exec's own: no two lead
\* to the same target, none to the top, and all are reached from the top.
ChainInv ==
    /\ vec \in Active \cup {Rom}
    /\ \A x \in Active : Link(x) \in Active \cup {Rom} /\ Link(x) # vec
    /\ \A x, y \in Active : Link(x) = Link(y) => x = y
    /\ \A s \in SUBSET Targets : vec \in s /\ Closed(s) => Active \cup {Rom} \subseteq s

\* What a guard has at each step of its install and remove.
StageInv ==
    \A g \in Guards :
        /\ g \in handlers <=> inst[g] \in {"done_io", "tramp", "patch", "chain", "in", "rem"}
        /\ g \in devOpen <=> inst[g] \notin {"out", "open"}
        /\ g \in tramp <=> inst[g] \in {"patch", "chain", "in"}
        /\ inst[g] \in {"tramp", "patch", "chain", "in"} => g \in doneReady

\* rg_Prepared tells whether prepare() was called, and it was called once then.
CountInv == \A g \in Guards : runs[g] = IF g \in prepared THEN 1 ELSE 0

IndInv == TypeOK /\ ChainInv /\ StageInv /\ CountInv

-----------------------------------------------------------------------------
LEMMA InitInd == ASSUME Init PROVE IndInv
<1> USE IdAssumption DEF Init
<1>1. TypeOK BY DEF TypeOK, Patches
<1>2. Active = {} BY DEF Active, Patches
<1>3. ChainInv BY <1>2 DEF ChainInv
<1>4. StageInv BY DEF StageInv
<1>q. QED BY <1>1, <1>3, <1>4 DEF IndInv, CountInv

\* A step that leaves the vector, the links and the patches in force alone.
LEMMA SameChain ==
    ASSUME ChainInv, vec' = vec, Active' = Active, \A x \in Active : Link(x)' = Link(x)
    PROVE  ChainInv'
BY DEF ChainInv, Closed

\* A patch is put on top.
LEMMA PushChain ==
    ASSUME ChainInv, NEW x \in Patches, x \notin Active, vec' = x,
           Active' = Active \cup {x}, Link(x)' = vec,
           \A y \in Active : Link(y)' = Link(y)
    PROVE  ChainInv'
<1> USE IdAssumption
<1>1. x # Rom /\ x # vec BY DEF ChainInv, Patches
<1>2. ASSUME NEW s \in SUBSET Targets, x \in s, Closed(s)' PROVE Active \cup {x, Rom} \subseteq s
  <2>1. vec \in s BY <1>2 DEF Closed
  <2>2. Closed(s) BY <1>2 DEF Closed
  <2>q. QED BY <1>2, <2>1, <2>2 DEF ChainInv
<1>q. QED BY <1>1, <1>2 DEF ChainInv

\* The patch on top is taken back.
LEMMA PopChain ==
    ASSUME ChainInv, NEW x \in Patches, vec = x, vec' = Link(x),
           Active' = Active \ {x}, \A y \in Active \ {x} : Link(y)' = Link(y)
    PROVE  ChainInv'
<1> USE IdAssumption
<1>1. x \in Active /\ x # Rom /\ x \in Targets BY DEF ChainInv, Patches, Targets
<1>2. ASSUME NEW s \in SUBSET Targets, vec' \in s, Closed(s)'
      PROVE  (Active \ {x}) \cup {Rom} \subseteq s
  <2>1. Closed(s \cup {x}) BY <1>1, <1>2 DEF Closed
  <2>2. s \cup {x} \in SUBSET Targets BY <1>1
  <2>3. Active \cup {Rom} \subseteq s \cup {x} BY <2>1, <2>2 DEF ChainInv
  <2>q. QED BY <1>1, <2>3
<1>q. QED BY <1>1, <1>2 DEF ChainInv

\* A driver's step between two stages in neither of which its patch is in force.
LEMMA QuietMove ==
    ASSUME TypeOK, ChainInv, NEW g \in Guards,
           inst[g] \notin {"chain", "in"}, inst'[g] \notin {"chain", "in"},
           \A x \in Guards \ {g} : inst'[x] = inst[x], UNCHANGED <<vec, found, old>>
    PROVE  ChainInv'
<1>1. Active' = Active BY DEF Active
<1>2. \A x \in Active : Link(x)' = Link(x) BY DEF Link
<1>q. QED BY <1>1, <1>2, SameChain

\* A step of the reset's: the drivers' state is as it was.
LEMMA DriverUnchanged ==
    ASSUME ChainInv, StageInv, UNCHANGED driverVars PROVE ChainInv' /\ StageInv'
<1>1. Active' = Active /\ \A x \in Active : Link(x)' = Link(x) BY DEF driverVars, Active, Link
<1>q. QED BY <1>1, SameChain DEF driverVars, StageInv

-----------------------------------------------------------------------------
(* reset_guard_install() and reset_guard_remove() *)

LEMMA InstallSteps == ASSUME IndInv, NEW g \in Guards, Install(g) PROVE IndInv'
<1> USE DEF IndInv, Goto
<1>1. CASE InstallStart(g)
  <2> USE DEF InstallStart
  <2>1. TypeOK' BY <1>1 DEF TypeOK, bootVars, InstallPcs
  <2>2. StageInv' BY <1>1 DEF TypeOK, StageInv
  <2>3. ChainInv'
    <3>1. /\ inst[g] \notin {"chain", "in"} /\ inst'[g] \notin {"chain", "in"}
          /\ \A x \in Guards \ {g} : inst'[x] = inst[x]
          /\ UNCHANGED <<vec, found, old>>
      BY <1>1 DEF TypeOK
    <3>q. QED BY <3>1, QuietMove
  <2>4. CountInv' BY <1>1 DEF TypeOK, CountInv
  <2>q. QED BY <2>1, <2>2, <2>3, <2>4
<1>2. CASE InstallOpen(g) \/ InstallOpenFails(g) \/ InstallAdd(g) \/ InstallAddFails(g)
           \/ InstallDoneIO(g) \/ InstallTramp(g) \/ InstallTrampFails(g)
  <2> USE DEF InstallOpen, InstallOpenFails, InstallAdd, InstallAddFails, InstallDoneIO,
              InstallTramp, InstallTrampFails
  <2>1. TypeOK' BY <1>2 DEF TypeOK, prepVars, bootVars, keyVars, InstallPcs, RemovePcs
  <2>2. StageInv' BY <1>2 DEF TypeOK, StageInv
  <2>3. ChainInv'
    <3>1. /\ inst[g] \notin {"chain", "in"} /\ inst'[g] \notin {"chain", "in"}
          /\ \A x \in Guards \ {g} : inst'[x] = inst[x]
          /\ UNCHANGED <<vec, found, old>>
      BY <1>2 DEF TypeOK
    <3>q. QED BY <3>1, QuietMove
  <2>4. CountInv' BY <1>2 DEF CountInv, prepVars
  <2>q. QED BY <2>1, <2>2, <2>3, <2>4
<1>3. CASE InstallPatch(g)
  <2> USE DEF InstallPatch, SetFunction
  <2>1. TypeOK' BY <1>3 DEF TypeOK, prepVars, bootVars, keyVars, InstallPcs, Patches
  <2>2. StageInv' BY <1>3 DEF TypeOK, StageInv
  <2>3. ChainInv'
    <3>1. g \in Patches /\ g \notin Active BY <1>3, IdAssumption DEF Active, Patches
    <3>2. Active' = Active \cup {g} BY <1>3 DEF Active, TypeOK
    <3>3. Link(g)' = vec BY <1>3 DEF Link, TypeOK, Patches
    <3>4. \A y \in Active : Link(y)' = Link(y) BY <1>3, <3>1 DEF Link, Active, TypeOK, Patches
    <3>q. QED BY <1>3, <3>1, <3>2, <3>3, <3>4, PushChain
  <2>4. CountInv' BY <1>3 DEF CountInv, prepVars
  <2>q. QED BY <2>1, <2>2, <2>3, <2>4
<1>4. CASE InstallChain(g)
  <2> USE DEF InstallChain
  <2>1. TypeOK' BY <1>4 DEF TypeOK, prepVars, bootVars, keyVars, Patches
  <2>2. StageInv' BY <1>4 DEF TypeOK, StageInv
  <2>3. ChainInv'
    <3>1. Active' = Active BY <1>4, IdAssumption DEF Active, TypeOK, Patches
    <3>2. \A x \in Active : Link(x)' = Link(x) BY <1>4 DEF Link, Active, TypeOK, Patches
    <3>q. QED BY <1>4, <3>1, <3>2, SameChain
  <2>4. CountInv' BY <1>4 DEF CountInv, prepVars
  <2>q. QED BY <2>1, <2>2, <2>3, <2>4
<1>q. QED BY <1>1, <1>2, <1>3, <1>4 DEF Install

LEMMA RemoveSteps == ASSUME IndInv, NEW g \in Guards, Remove(g) PROVE IndInv'
<1> USE DEF IndInv, Goto
<1>1. CASE RemovePatch(g)
  <2> USE DEF RemovePatch
  <2>1. g \in Active /\ g \in Patches /\ old[g] = Link(g) BY <1>1 DEF Active, Patches, Link
  <2>2. TypeOK' BY <1>1, <2>1 DEF TypeOK, ChainInv, Active, prepVars, bootVars, keyVars, RemovePcs, Patches
  <2>3. StageInv' BY <1>1 DEF TypeOK, StageInv
  <2>4. ChainInv'
    <3>1. Active' = Active \ {g} BY <1>1, IdAssumption DEF Active, TypeOK
    <3>2. \A y \in Active \ {g} : Link(y)' = Link(y) BY <1>1 DEF Link, TypeOK
    <3>q. QED BY <1>1, <2>1, <3>1, <3>2, PopChain
  <2>5. CountInv' BY <1>1 DEF CountInv, prepVars
  <2>q. QED BY <2>2, <2>3, <2>4, <2>5
<1>2. CASE RemoveHandler(g) \/ RemoveClose(g)
  <2> USE DEF RemoveHandler, RemoveClose
  <2>1. TypeOK' BY <1>2 DEF TypeOK, prepVars, bootVars, keyVars, RemovePcs
  <2>2. StageInv' BY <1>2 DEF TypeOK, StageInv
  <2>3. ChainInv'
    <3>1. /\ inst[g] \notin {"chain", "in"} /\ inst'[g] \notin {"chain", "in"}
          /\ \A x \in Guards \ {g} : inst'[x] = inst[x]
          /\ UNCHANGED <<vec, found, old>>
      BY <1>2 DEF TypeOK
    <3>q. QED BY <3>1, QuietMove
  <2>4. CountInv' BY <1>2 DEF CountInv, prepVars
  <2>q. QED BY <2>1, <2>2, <2>3, <2>4
<1>q. QED BY <1>1, <1>2 DEF Remove

LEMMA ForeignSteps ==
    ASSUME IndInv, NEW f \in Foreign, ForeignPatch(f) \/ ForeignUnpatch(f) PROVE IndInv'
<1> USE IdAssumption DEF IndInv
<1>1. CASE ForeignPatch(f)
  <2> USE DEF ForeignPatch, SetFunction
  <2>1. TypeOK' BY <1>1 DEF TypeOK, prepVars, bootVars, keyVars, Patches
  <2>2. StageInv' BY <1>1 DEF StageInv
  <2>3. ChainInv'
    <3>1. f \in Patches /\ f \notin Active BY <1>1 DEF Active, Patches
    <3>2. vec # None BY DEF TypeOK, Patches
    <3>3. Active' = Active \cup {f} BY <1>1, <3>1, <3>2 DEF Active, TypeOK
    <3>4. Link(f)' = vec BY <1>1, <3>1 DEF Link, TypeOK
    <3>5. \A y \in Active : Link(y)' = Link(y) BY <1>1, <3>1 DEF Link, Active, TypeOK, Patches
    <3>q. QED BY <1>1, <3>1, <3>3, <3>4, <3>5, PushChain
  <2>4. CountInv' BY <1>1 DEF CountInv, prepVars
  <2>q. QED BY <2>1, <2>2, <2>3, <2>4
<1>2. CASE ForeignUnpatch(f)
  <2> USE DEF ForeignUnpatch
  <2>1. f \in Active /\ f \in Patches /\ old[f] = Link(f)
    BY <1>2 DEF ChainInv, Patches, Link
  <2>2. TypeOK' BY <1>2, <2>1 DEF TypeOK, ChainInv, Active, prepVars, bootVars, keyVars, Patches
  <2>3. StageInv' BY <1>2 DEF StageInv
  <2>4. ChainInv'
    <3>1. Active' = Active \ {f} BY <1>2 DEF Active, TypeOK, Patches
    <3>2. \A y \in Active \ {f} : Link(y)' = Link(y) BY <1>2 DEF Link, Active, TypeOK, Patches
    <3>q. QED BY <1>2, <2>1, <3>1, <3>2, PopChain
  <2>5. CountInv' BY <1>2 DEF CountInv, prepVars
  <2>q. QED BY <2>2, <2>3, <2>4, <2>5
<1>q. QED BY <1>1, <1>2

-----------------------------------------------------------------------------
(* The two resets. *)

LEMMA ResetSteps ==
    ASSUME IndInv, BootStart \/ BootStep \/ KeyReset \/ IrqStep \/ KeyDone PROVE IndInv'
<1> USE DEF IndInv, BootStep, IrqStep, BootStart, BootFlag, BootPrepare, BootJump, BootForeign, BootRom,
            KeyReset, IrqEnter, IrqFlag, IrqPrepare, IrqDone, KeyDone
<1>1. UNCHANGED driverVars OBVIOUS
<1>2. ChainInv' /\ StageInv' BY <1>1, DriverUnchanged
<1>3. CountInv'
  <2>1. CASE BootFlag \/ IrqFlag
    <3>1. PICK g \in Guards : TestAndSet(g) BY <2>1
    <3>q. QED BY <3>1 DEF TestAndSet, CountInv, TypeOK, prepVars
  <2>2. CASE ~(BootFlag \/ IrqFlag)
    <3>1. UNCHANGED <<prepared, runs>> BY <2>2 DEF Prepare, prepVars
    <3>q. QED BY <3>1 DEF CountInv
  <2>q. QED BY <2>1, <2>2
<1>4. TypeOK'
  <2> USE <1>1 DEF driverVars, TypeOK
  <2>1. CASE BootStart \/ KeyReset
    BY <2>1 DEF prepVars, bootVars, keyVars, Begin, Installed, Patches
  <2>2. CASE BootFlag \/ IrqFlag
    BY <2>2 DEF TestAndSet, AfterFlag, prepVars, bootVars, keyVars
  <2>3. CASE BootPrepare \/ IrqPrepare BY <2>3 DEF Prepare, bootVars, keyVars
  <2>4. CASE BootJump \/ BootForeign BY <2>4 DEF Patches, prepVars, keyVars
  <2>5. CASE BootRom \/ KeyDone \/ IrqDone \/ \E g \in Guards : IrqEnter(g)
    BY <2>5 DEF prepVars, bootVars, keyVars
  <2>q. QED BY <2>1, <2>2, <2>3, <2>4, <2>5
<1>q. QED BY <1>2, <1>3, <1>4

LEMMA NextInd == ASSUME IndInv, [Next]_vars PROVE IndInv'
<1>1. CASE UNCHANGED vars
  <2>1. UNCHANGED driverVars /\ UNCHANGED prepVars BY <1>1 DEF vars
  <2>2. ChainInv' /\ StageInv' /\ CountInv' BY <2>1, DriverUnchanged DEF IndInv, CountInv, prepVars
  <2>3. TypeOK' BY <1>1 DEF vars, driverVars, prepVars, bootVars, keyVars, IndInv, TypeOK
  <2>q. QED BY <2>2, <2>3 DEF IndInv
<1>2. CASE Next
  BY <1>2, InstallSteps, RemoveSteps, ForeignSteps, ResetSteps DEF Next
<1>q. QED BY <1>1, <1>2

\* The inductive invariant of the guards: the chain, what each stage of an install
\* or a remove holds, and rg_Prepared as the count of the calls.
THEOREM Invariant == Spec => []IndInv
BY InitInd, NextInd, PTL DEF Spec

\* prepare() is called at most once between two installs, however the two resets
\* get into each other's way.
THEOREM PreparesOnce == Spec => []PrepareOnce
<1>1. IndInv => PrepareOnce
  <2> SUFFICES ASSUME IndInv, NEW g \in Guards PROVE runs[g] <= 1 BY DEF PrepareOnce
  <2>1. runs[g] = 0 \/ runs[g] = 1 BY DEF IndInv, CountInv
  <2>q. QED BY <2>1
<1>q. QED BY <1>1, Invariant, PTL

\* A failed install and a remove leave nothing behind, an install that succeeded
\* has everything, and no handler is registered with a closed device.
THEOREM AllOrNothing == Spec => []WholeOrNothing
<1>1. IndInv => WholeOrNothing BY DEF IndInv, StageInv, TypeOK, WholeOrNothing
<1>q. QED BY <1>1, Invariant, PTL

\* ColdReboot() comes through every installed guard and every foreign patch and
\* ends in exec's, for any number of guards and patches, put in and taken out
\* in any order.
THEOREM ChainIsSound == Spec => []ChainSound
<1>1. IndInv => ChainSound
  <2> SUFFICES ASSUME IndInv, \A g \in Guards : inst[g] # "chain"
               PROVE  /\ Reached = {Rom} \cup Installed \cup {f \in Foreign : old[f] # None}
                      /\ Installed \subseteq tramp
    BY DEF ChainSound
  <2> USE DEF IndInv
  <2>1. Active = Installed \cup {f \in Foreign : old[f] # None} /\ Active \subseteq Patches
    BY DEF Active, Installed, Patches
  <2>2. \A x \in Active : Link(x) = old[x] BY DEF Link
  <2>3. ASSUME NEW x \in Reached PROVE x \in Active \cup {Rom}
    <3>1. Active \cup {Rom} \in SUBSET Targets BY <2>1 DEF Targets
    <3>2. \A y \in (Active \cup {Rom}) \cap Patches : old[y] \in Active \cup {Rom}
      BY <2>1, <2>2, IdAssumption DEF ChainInv, Patches
    <3>q. QED BY <2>3, <3>1, <3>2 DEF Reached, ChainInv
  <2>4. ASSUME NEW x \in Active \cup {Rom} PROVE x \in Reached
    <3>1. x \in Targets BY <2>1 DEF Targets
    <3>2. ASSUME NEW s \in SUBSET Targets, vec \in s, \A y \in s \cap Patches : old[y] \in s
          PROVE  x \in s
      <4>1. Closed(s) BY <2>1, <2>2, <3>2 DEF Closed
      <4>q. QED BY <3>2, <4>1 DEF ChainInv
    <3>q. QED BY <3>1, <3>2 DEF Reached
  <2>5. Installed \subseteq tramp BY DEF StageInv, Installed
  <2>q. QED BY <2>1, <2>3, <2>4, <2>5
<1>q. QED BY <1>1, Invariant, PTL

-----------------------------------------------------------------------------
(* Every driver is quiet when the machine resets.  A reset comes only when an *)
(* install under way has stored the vector's old target (EarlyReset = FALSE). *)

\* The guards a reset must find prepared are installed.
DueInv == due \subseteq Installed /\ (NoReset => due = {})

\* prepare() runs where the flag was found clear, and in one place.
RunInv ==
    \A g \in Guards :
        /\ prep[g] = "no" <=> g \notin prepared
        /\ prep[g] = "running" <=> \/ boot = g /\ bootPc = "prepare"
                                   \/ irq = g /\ irqPc = "prepare"
        /\ ~(boot = g /\ bootPc = "prepare" /\ irq = g /\ irqPc = "prepare")

\* ColdReboot() is on the chain, in its part below what was patched since, and has
\* every due guard behind it, prepared, or before it.
WalkInv ==
    /\ boot \notin Guards => bootPc = "flag"
    /\ boot \in Guards /\ bootPc = "jump" => boot \in prepared
    /\ boot # None =>
          /\ \E s \in SUBSET (Installed \cup (Active \cap Foreign) \cup {Rom}) : boot \in s /\ Closed(s)
          /\ \A g \in due : prep[g] = "done" \/
                \A s \in SUBSET Targets : boot \in s /\ Closed(s) => g \in s

\* The keyboard's reset has called every due guard, or is in it, or will call it.
KeyInv ==
    /\ irq \in Guards /\ irqPc = "done" => irq \in prepared
    /\ key = "asked" => due \subseteq keyTodo \cup prepared \cup {irq}

\* Once the machine has reset nothing moves.
DownInv == machine = "reset" => irq = None /\ keyTodo = {}

ResetInv == DueInv /\ RunInv /\ WalkInv /\ KeyInv /\ DownInv /\ QuiescedAtReset
FullInv == IndInv /\ ResetInv

LEMMA InitReset == ASSUME Init PROVE ResetInv
<1> USE IdAssumption DEF Init
<1>1. DueInv BY DEF DueInv
<1>2. RunInv BY DEF RunInv
<1>3. WalkInv /\ KeyInv /\ DownInv BY DEF WalkInv, KeyInv, DownInv
<1>4. QuiescedAtReset BY DEF QuiescedAtReset
<1>q. QED BY <1>1, <1>2, <1>3, <1>4 DEF ResetInv

\* ColdReboot() is in no guard but an installed one.
LEMMA BootInstalled ==
    ASSUME FullInv, boot \in Guards PROVE boot \in Installed
<1>1. boot # None BY IdAssumption
<1>2. PICK s \in SUBSET (Installed \cup (Active \cap Foreign) \cup {Rom}) : boot \in s
  BY <1>1 DEF FullInv, ResetInv, WalkInv
<1>q. QED BY <1>2, IdAssumption

\* What a driver, or another program, does to the patches while a reset may be under
\* way: patches are added, none is taken, and no installed guard's flag changes.
LEMMA PatchesGrow ==
    ASSUME FullInv, TaskRuns, UNCHANGED <<bootVars, irq, irqPc, keyTodo, key, due, machine>>,
           Installed \subseteq Installed', Active \subseteq Active', Active' \subseteq Patches,
           \A x \in Active : Link(x)' = Link(x),
           \A g \in Installed : prep'[g] = prep[g] /\ (g \in prepared' <=> g \in prepared),
           RunInv'
    PROVE  ResetInv'
<1> USE IdAssumption DEF FullInv, ResetInv, TaskRuns, bootVars
<1>1. DueInv' BY DEF DueInv, NoReset
<1>2. WalkInv'
  <2>1. boot \in Guards => boot \in Installed BY BootInstalled
  <2>2. ASSUME boot # None
        PROVE  \E s \in SUBSET (Installed' \cup (Active' \cap Foreign) \cup {Rom}) : boot \in s /\ Closed(s)'
    <3>1. PICK s \in SUBSET (Installed \cup (Active \cap Foreign) \cup {Rom}) : boot \in s /\ Closed(s)
      BY <2>2 DEF WalkInv
    <3>2. Installed \subseteq Active BY DEF Installed, Active
    <3>3. s \cap Active' = s \cap Active BY <3>1, <3>2 DEF Patches
    <3>4. Closed(s)' BY <3>1, <3>3 DEF Closed
    <3>q. QED BY <3>1, <3>4
  <2>3. \A s \in SUBSET Targets : Closed(s)' => Closed(s) BY DEF Closed
  <2>4. ASSUME boot # None, NEW g \in due
        PROVE  prep'[g] = "done" \/ \A s \in SUBSET Targets : boot \in s /\ Closed(s)' => g \in s
    <3>1. prep'[g] = prep[g] BY <2>4 DEF DueInv
    <3>2. CASE prep[g] = "done" BY <3>1, <3>2
    <3>3. CASE \A s \in SUBSET Targets : boot \in s /\ Closed(s) => g \in s BY <2>3, <3>3
    <3>q. QED BY <2>4, <3>2, <3>3 DEF WalkInv
  <2>q. QED BY <2>1, <2>2, <2>4 DEF WalkInv
<1>3. KeyInv' BY DEF KeyInv, DueInv
<1>4. DownInv' /\ QuiescedAtReset' BY DEF DownInv, QuiescedAtReset
<1>q. QED BY <1>1, <1>2, <1>3, <1>4

LEMMA InstallReset ==
    ASSUME FullInv, NEW g \in Guards, Install(g) \/ RemoveHandler(g) \/ RemoveClose(g) PROVE ResetInv'
<1> USE IdAssumption DEF FullInv, IndInv, ResetInv, Goto, TypeOK
<1>1. CASE InstallStart(g)
  <2> USE DEF InstallStart
  <2>1. RunInv'
    <3>1. boot # g BY <1>1, BootInstalled DEF Installed
    <3>2. irq = None BY <1>1 DEF TaskRuns
    <3>q. QED BY <1>1, <3>1, <3>2 DEF RunInv, bootVars
  <2>2. Installed' = Installed /\ Active' = Active BY <1>1 DEF Installed, Active
  <2>3. Active' \subseteq Patches BY <2>2 DEF Active, Patches
  <2>4. \A x \in Active : Link(x)' = Link(x) BY <1>1 DEF Link
  <2>5. \A h \in Installed : prep'[h] = prep[h] /\ (h \in prepared' <=> h \in prepared)
    BY <1>1 DEF Installed
  <2>6. TaskRuns /\ UNCHANGED <<bootVars, irq, irqPc, keyTodo, key, due, machine>> BY <1>1
  <2> HIDE DEF FullInv, ResetInv
  <2>q. QED BY <2>1, <2>2, <2>3, <2>4, <2>5, <2>6, PatchesGrow
<1>2. CASE InstallOpen(g) \/ InstallOpenFails(g) \/ InstallAdd(g) \/ InstallAddFails(g)
           \/ InstallDoneIO(g) \/ InstallTramp(g) \/ InstallTrampFails(g)
           \/ RemoveHandler(g) \/ RemoveClose(g)
  <2> USE DEF InstallOpen, InstallOpenFails, InstallAdd, InstallAddFails, InstallDoneIO,
              InstallTramp, InstallTrampFails, RemoveHandler, RemoveClose
  <2>1. /\ TaskRuns /\ UNCHANGED <<vec, found, old, prepVars, bootVars, keyVars, due, machine>>
        /\ inst[g] \notin {"chain", "in"} /\ inst'[g] \notin {"chain", "in"}
        /\ \A x \in Guards \ {g} : inst'[x] = inst[x]
    BY <1>2
  <2>2. Installed' = Installed /\ Active' = Active BY <2>1 DEF Installed, Active
  <2>3. Active' \subseteq Patches BY <2>2 DEF Active, Patches
  <2>4. \A x \in Active : Link(x)' = Link(x) BY <2>1 DEF Link
  <2>5. RunInv' BY <2>1 DEF RunInv, prepVars, bootVars, keyVars
  <2> HIDE DEF FullInv, ResetInv
  <2>q. QED BY <2>1, <2>2, <2>3, <2>4, <2>5, PatchesGrow DEF prepVars, keyVars
<1>3. CASE InstallPatch(g)
  <2> USE DEF InstallPatch, SetFunction
  <2>1. TaskRuns /\ UNCHANGED <<old, prepVars, bootVars, keyVars, due, machine>> BY <1>3
  <2>2. Installed' = Installed /\ Active' = Active \cup {g} BY <1>3 DEF Installed, Active
  <2>3. Active' \subseteq Patches BY <2>2 DEF Active, Patches
  <2>4. \A x \in Active : Link(x)' = Link(x) BY <1>3 DEF Link, Active, Patches
  <2>5. RunInv' BY <2>1 DEF RunInv, prepVars, bootVars, keyVars
  <2> HIDE DEF FullInv, ResetInv
  <2>q. QED BY <2>1, <2>2, <2>3, <2>4, <2>5, PatchesGrow DEF prepVars, keyVars
<1>4. CASE InstallChain(g)
  <2> USE DEF InstallChain
  <2>1. TaskRuns /\ UNCHANGED <<vec, found, prepVars, bootVars, keyVars, due, machine>> BY <1>4
  <2>2. Installed' = Installed \cup {g} /\ Active' = Active BY <1>4 DEF Installed, Active, Patches
  <2>3. Active' \subseteq Patches BY <2>2 DEF Active, Patches
  <2>4. \A x \in Active : Link(x)' = Link(x) BY <1>4 DEF Link, Active, Patches
  <2>5. RunInv' BY <2>1 DEF RunInv, prepVars, bootVars, keyVars
  <2> HIDE DEF FullInv, ResetInv
  <2>q. QED BY <2>1, <2>2, <2>3, <2>4, <2>5, PatchesGrow DEF prepVars, keyVars
<1>q. QED BY <1>1, <1>2, <1>3, <1>4 DEF Install

LEMMA ForeignPatchReset == ASSUME FullInv, NEW f \in Foreign, ForeignPatch(f) PROVE ResetInv'
<1> USE IdAssumption DEF ForeignPatch, SetFunction, IndInv, TypeOK
<1> USE DEF FullInv, ResetInv
<1>1. TaskRuns /\ UNCHANGED <<inst, prepVars, bootVars, keyVars, due, machine>> OBVIOUS
<1>2. Installed' = Installed BY DEF Installed
<1>3. Active \subseteq Active' /\ Active' \subseteq Patches BY DEF Active, Patches
<1>4. \A x \in Active : Link(x)' = Link(x) BY DEF Link, Active, Patches
<1>5. RunInv' BY <1>1 DEF RunInv, prepVars, bootVars, keyVars
<1> HIDE DEF FullInv, ResetInv
<1>q. QED BY <1>1, <1>2, <1>3, <1>4, <1>5, PatchesGrow DEF prepVars, keyVars

\* The patch on top is taken back: none leads to it, so ColdReboot(), which is not in
\* it, does not come to it any more.
LEMMA PatchTakenReset ==
    ASSUME FullInv, NEW x \in Patches, vec = x, boot # x, TaskRuns,
           Installed' = Installed \ {x}, Active' = Active \ {x}, due' = due \ {x},
           \A y \in Active \ {x} : Link(y)' = Link(y),
           UNCHANGED <<prepVars, bootVars, keyVars, machine>>
    PROVE  ResetInv'
<1> USE IdAssumption DEF FullInv, ResetInv, TaskRuns, prepVars, bootVars, keyVars
<1>1. DueInv' BY DEF DueInv, NoReset
<1>2. RunInv' BY DEF RunInv
<1>3. ASSUME NEW s \in SUBSET Targets, Closed(s) \/ Closed(s)' PROVE Closed(s \ {x}) /\ Closed(s \ {x})'
  <2>1. \A y \in Active : Link(y) # x BY DEF IndInv, ChainInv
  <2>q. QED BY <1>3, <2>1 DEF Closed
<1>4. ASSUME boot # None
      PROVE  \E s \in SUBSET (Installed' \cup (Active' \cap Foreign) \cup {Rom}) : boot \in s /\ Closed(s)'
  <2>1. PICK s \in SUBSET (Installed \cup (Active \cap Foreign) \cup {Rom}) : boot \in s /\ Closed(s)
    BY <1>4 DEF WalkInv
  <2>2. s \in SUBSET Targets BY DEF Installed, Targets, Patches
  <2>3. Closed(s \ {x})' BY <1>3, <2>1, <2>2
  <2>4. s \ {x} \in SUBSET (Installed' \cup (Active' \cap Foreign) \cup {Rom}) /\ boot \in s \ {x} BY <2>1
  <2>q. QED BY <2>3, <2>4
<1>5. ASSUME boot # None, NEW g \in due'
      PROVE  prep'[g] = "done" \/ \A s \in SUBSET Targets : boot \in s /\ Closed(s)' => g \in s
  <2> SUFFICES ASSUME prep[g] # "done", NEW s \in SUBSET Targets, boot \in s, Closed(s)' PROVE g \in s
    OBVIOUS
  <2>1. s \ {x} \in SUBSET Targets /\ boot \in s \ {x} OBVIOUS
  <2>2. Closed(s \ {x}) BY <1>3
  <2>q. QED BY <1>5, <2>1, <2>2 DEF WalkInv
<1>6. WalkInv' BY <1>4, <1>5 DEF WalkInv
<1>7. KeyInv' /\ DownInv' BY DEF KeyInv, DownInv
<1>8. QuiescedAtReset' BY DEF QuiescedAtReset
<1>q. QED BY <1>1, <1>2, <1>6, <1>7, <1>8

LEMMA RemovePatchReset == ASSUME FullInv, NEW g \in Guards, RemovePatch(g) PROVE ResetInv'
<1> USE IdAssumption DEF RemovePatch, Goto
<1>1. g \in Patches BY DEF Patches
<1>2. Installed' = Installed \ {g} /\ Active' = Active \ {g}
  BY DEF Installed, Active, FullInv, IndInv, TypeOK
<1>3. \A y \in Active \ {g} : Link(y)' = Link(y) BY DEF Link, FullInv, IndInv, TypeOK
<1>q. QED BY <1>1, <1>2, <1>3, PatchTakenReset

LEMMA ForeignUnpatchReset == ASSUME FullInv, NEW f \in Foreign, ForeignUnpatch(f) PROVE ResetInv'
<1> USE IdAssumption DEF ForeignUnpatch
<1>1. f \in Patches BY DEF Patches
<1>2. Installed' = Installed \ {f} /\ due' = due \ {f} BY DEF Installed, FullInv, IndInv, TypeOK
<1>3. Active' = Active \ {f} BY DEF Active, FullInv, IndInv, TypeOK, Patches
<1>4. \A y \in Active \ {f} : Link(y)' = Link(y) BY DEF Link, Active, FullInv, IndInv, TypeOK, Patches
<1>q. QED BY <1>1, <1>2, <1>3, <1>4, PatchTakenReset

\* With the drivers' state unchanged a closed set stays one.
LEMMA ClosedUnchanged ==
    ASSUME UNCHANGED driverVars
    PROVE  /\ Installed' = Installed /\ Active' = Active
           /\ \A s : Closed(s)' <=> Closed(s)
BY DEF driverVars, Installed, Active, Closed, Link

\* ColdReboot() begins at the top, with every installed guard before it.
LEMMA BootStartReset == ASSUME FullInv, EarlyReset = FALSE, BootStart PROVE ResetInv'
<1> USE IdAssumption DEF FullInv, ResetInv, BootStart, TaskRuns
<1>1. /\ UNCHANGED driverVars /\ UNCHANGED <<prepVars, keyVars, machine>>
      /\ boot = None /\ boot' = vec /\ bootPc' = "flag" /\ irq = None /\ machine = "up"
      /\ \A g \in Guards : inst[g] # "chain"
  OBVIOUS
<1>2. Installed' = Installed /\ Active' = Active /\ \A s : Closed(s)' <=> Closed(s)
  BY <1>1, ClosedUnchanged
<1>3. due' \subseteq Installed BY DEF Begin, DueInv
<1>4. boot' # None BY <1>1 DEF IndInv, TypeOK, Patches
<1>5. DueInv' BY <1>2, <1>3, <1>4 DEF DueInv, NoReset
<1>6. RunInv' BY <1>1 DEF RunInv, prepVars, keyVars
<1>7. Active = Installed \cup (Active \cap Foreign) BY <1>1 DEF Active, Installed
<1>8. WalkInv'
  <2>1. boot' \in Active \cup {Rom} /\ Closed(Active \cup {Rom})
    BY <1>1 DEF IndInv, ChainInv, Closed
  <2>2. ASSUME NEW g \in due', NEW s \in SUBSET Targets, boot' \in s, Closed(s) PROVE g \in s
    BY <1>1, <1>3, <1>7, <2>2 DEF IndInv, ChainInv
  <2>q. QED BY <1>1, <1>2, <1>7, <2>1, <2>2 DEF WalkInv
<1>9. KeyInv'
  <2>1. CASE NoReset BY <1>1, <2>1 DEF KeyInv, NoReset, keyVars
  <2>2. CASE ~NoReset BY <1>1, <2>2 DEF KeyInv, Begin, keyVars, prepVars
  <2>q. QED BY <2>1, <2>2
<1>10. DownInv' /\ QuiescedAtReset' BY <1>1 DEF DownInv, QuiescedAtReset
<1>q. QED BY <1>5, <1>6, <1>8, <1>9, <1>10

\* reset_guard_run_prepare() in ColdReboot().
LEMMA BootPrepareReset == ASSUME FullInv, BootFlag \/ BootPrepare PROVE ResetInv'
<1> USE IdAssumption DEF FullInv, ResetInv, TaskRuns
<1>1. /\ UNCHANGED driverVars /\ UNCHANGED <<boot, keyVars, due, machine>>
      /\ boot \in Guards /\ irq = None /\ machine = "up" /\ boot # None
  BY DEF BootFlag, BootPrepare
<1>2. Installed' = Installed /\ Active' = Active /\ \A s : Closed(s)' <=> Closed(s)
  BY <1>1, ClosedUnchanged
<1>3. /\ prepared \subseteq prepared' /\ boot \in prepared'
      /\ \A g \in Guards : prep[g] = "done" => prep'[g] = "done"
  <2>1. CASE BootFlag BY <2>1 DEF BootFlag, TestAndSet, prepVars, RunInv, IndInv, TypeOK
  <2>2. CASE BootPrepare BY <2>2 DEF BootPrepare, Prepare, RunInv, IndInv, TypeOK
  <2>q. QED BY <2>1, <2>2
<1>4. DueInv' BY <1>1, <1>2 DEF DueInv, NoReset, keyVars
<1>5. RunInv'
  <2> USE <1>1 DEF RunInv, IndInv, TypeOK, keyVars
  <2>1. CASE BootFlag /\ boot \in prepared
    BY <2>1 DEF BootFlag, TestAndSet, AfterFlag, prepVars
  <2>2. CASE BootFlag /\ boot \notin prepared
    BY <2>2 DEF BootFlag, TestAndSet, AfterFlag
  <2>3. CASE BootPrepare BY <2>3 DEF BootPrepare, Prepare
  <2>q. QED BY <2>1, <2>2, <2>3
<1>6. WalkInv'
  <2>1. due \subseteq Guards BY DEF IndInv, TypeOK
  <2>q. QED BY <1>1, <1>2, <1>3, <2>1 DEF WalkInv
<1>7. KeyInv' BY <1>1, <1>3 DEF KeyInv, keyVars
<1>8. DownInv' /\ QuiescedAtReset' BY <1>1 DEF DownInv, QuiescedAtReset
<1>q. QED BY <1>4, <1>5, <1>6, <1>7, <1>8

\* The step down the chain leaves a guard behind that is prepared.
LEMMA BootJumpReset == ASSUME FullInv, BootJump \/ BootForeign PROVE ResetInv'
<1> USE IdAssumption DEF FullInv, ResetInv, TaskRuns
<1>1. /\ UNCHANGED driverVars /\ UNCHANGED <<prepVars, keyVars, due, machine>>
      /\ boot \in Patches /\ boot' = old[boot] /\ irq = None /\ machine = "up"
      /\ boot # None
  BY DEF BootJump, BootForeign, Patches
<1>2. Installed' = Installed /\ Active' = Active /\ \A s : Closed(s)' <=> Closed(s)
  BY <1>1, ClosedUnchanged
<1>3. bootPc' = "flag" BY DEF BootJump, BootForeign, WalkInv
<1>4. boot \in Guards => prep[boot] = "done"
  <2> SUFFICES ASSUME boot \in Guards PROVE prep[boot] = "done" OBVIOUS
  <2>1. bootPc = "jump" BY DEF BootJump, BootForeign
  <2>2. boot \in prepared BY <2>1 DEF WalkInv
  <2>3. prep[boot] # "no" /\ prep[boot] # "running" BY <1>1, <2>1, <2>2 DEF RunInv
  <2>q. QED BY <2>3 DEF IndInv, TypeOK
<1>5. PICK s0 \in SUBSET (Installed \cup (Active \cap Foreign) \cup {Rom}) : boot \in s0 /\ Closed(s0)
  BY <1>1 DEF WalkInv
<1>6. boot \in Active /\ old[boot] = Link(boot)
  BY <1>1, <1>5 DEF Link, Active, Installed, Patches
<1>7. boot' \in s0 /\ boot' # None BY <1>1, <1>5, <1>6 DEF Closed, Installed
<1>8. DueInv' BY <1>1, <1>2, <1>7 DEF DueInv, NoReset, keyVars
<1>9. RunInv'
  <2>1. \A g \in Guards : ~(boot = g /\ bootPc = "prepare") BY DEF BootJump, BootForeign
  <2>q. QED BY <1>1, <1>3, <2>1 DEF RunInv, prepVars, keyVars
<1>10. WalkInv'
  <2>1. ASSUME NEW g \in due, prep[g] # "done", NEW s \in SUBSET Targets, boot' \in s, Closed(s)
        PROVE  g \in s
    <3>1. Closed(s \cup {boot}) BY <1>1, <1>6, <2>1 DEF Closed
    <3>2. s \cup {boot} \in SUBSET Targets BY <1>1 DEF Targets
    <3>3. g \in s \cup {boot} BY <1>1, <2>1, <3>1, <3>2 DEF WalkInv
    <3>4. g # boot BY <1>4, <2>1 DEF IndInv, TypeOK
    <3>q. QED BY <3>3, <3>4
  <2>q. QED BY <1>1, <1>2, <1>3, <1>5, <1>7, <2>1 DEF WalkInv, prepVars
<1>11. KeyInv' BY <1>1 DEF KeyInv, keyVars, prepVars
<1>12. DownInv' /\ QuiescedAtReset' BY <1>1 DEF DownInv, QuiescedAtReset
<1>q. QED BY <1>8, <1>9, <1>10, <1>11, <1>12

\* exec's ColdReboot() comes with every due guard behind it.
LEMMA BootRomReset == ASSUME FullInv, BootRom PROVE ResetInv'
<1> USE IdAssumption DEF FullInv, ResetInv, TaskRuns
<1>1. /\ UNCHANGED driverVars /\ UNCHANGED <<prepVars, bootVars, keyVars, due>>
      /\ boot = Rom /\ boot # None /\ irq = None /\ keyTodo = {}
  BY DEF BootRom
<1>2. Installed' = Installed /\ Active' = Active /\ \A s : Closed(s)' <=> Closed(s)
  BY <1>1, ClosedUnchanged
<1>3. \A g \in due : prep[g] = "done"
  <2> SUFFICES ASSUME NEW g \in due PROVE prep[g] = "done" OBVIOUS
  <2>1. {Rom} \in SUBSET Targets /\ boot \in {Rom} BY <1>1 DEF Targets
  <2>2. Closed({Rom}) BY DEF Closed, Active
  <2>3. g \notin {Rom} BY DEF IndInv, TypeOK
  <2>q. QED BY <1>1, <2>1, <2>2, <2>3 DEF WalkInv
<1>4. DueInv' BY <1>1, <1>2 DEF DueInv, NoReset, bootVars, keyVars
<1>5. RunInv' BY <1>1 DEF RunInv, prepVars, bootVars, keyVars
<1>6. WalkInv' BY <1>1, <1>2 DEF WalkInv, prepVars, bootVars
<1>7. KeyInv' /\ DownInv' BY <1>1 DEF KeyInv, DownInv, keyVars, prepVars
<1>8. QuiescedAtReset' BY <1>1, <1>3 DEF QuiescedAtReset, prepVars
<1>q. QED BY <1>4, <1>5, <1>6, <1>7, <1>8

\* The keyboard asks every registered guard, the due ones among them.
LEMMA KeyResetReset == ASSUME FullInv, KeyReset PROVE ResetInv'
<1> USE IdAssumption DEF FullInv, ResetInv, TaskRuns, KeyReset
<1>1. /\ UNCHANGED driverVars /\ UNCHANGED <<prepVars, bootVars, irq, irqPc, machine>>
      /\ irq = None /\ machine = "up" /\ key' = "asked" /\ keyTodo' = handlers
  OBVIOUS
<1>2. Installed' = Installed /\ Active' = Active /\ \A s : Closed(s)' <=> Closed(s)
  BY <1>1, ClosedUnchanged
<1>3. due' \subseteq Installed /\ (boot # None => due' = due) BY DEF Begin, DueInv, NoReset
<1>4. Installed \subseteq handlers BY DEF Installed, IndInv, StageInv
<1>5. DueInv' BY <1>1, <1>2, <1>3 DEF DueInv, NoReset
<1>6. RunInv' BY <1>1 DEF RunInv, prepVars, bootVars
<1>7. WalkInv' BY <1>1, <1>2, <1>3 DEF WalkInv, prepVars, bootVars
<1>8. KeyInv' BY <1>1, <1>3, <1>4 DEF KeyInv, prepVars
<1>9. DownInv' /\ QuiescedAtReset' BY <1>1 DEF DownInv, QuiescedAtReset
<1>q. QED BY <1>5, <1>6, <1>7, <1>8, <1>9

\* reset_guard_kbd_handler(), which interrupts ColdReboot() wherever that is.
LEMMA IrqReset == ASSUME FullInv, IrqStep PROVE ResetInv'
<1> USE IdAssumption DEF FullInv, ResetInv
<1>1. UNCHANGED driverVars /\ UNCHANGED <<bootVars, key, due, machine>>
  BY DEF IrqStep, IrqEnter, IrqFlag, IrqPrepare, IrqDone
<1>2. Installed' = Installed /\ Active' = Active /\ \A s : Closed(s)' <=> Closed(s)
  BY <1>1, ClosedUnchanged
<1>3. machine = "up"
  BY DEF IrqStep, IrqEnter, IrqFlag, IrqPrepare, IrqDone, DownInv, IndInv, TypeOK
<1>4. /\ prepared \subseteq prepared'
      /\ \A g \in Guards : prep[g] = "done" => prep'[g] = "done"
  <2> USE DEF IndInv, TypeOK, RunInv
  <2>1. CASE IrqFlag BY <2>1 DEF IrqFlag, TestAndSet, prepVars
  <2>2. CASE IrqPrepare BY <2>2 DEF IrqPrepare, Prepare
  <2>3. CASE IrqDone \/ \E g \in Guards : IrqEnter(g) BY <2>3 DEF IrqDone, IrqEnter, prepVars
  <2>q. QED BY <2>1, <2>2, <2>3 DEF IrqStep
<1>5. DueInv' BY <1>1, <1>2 DEF DueInv, NoReset, bootVars
<1>6. RunInv'
  <2> USE <1>1 DEF RunInv, IndInv, TypeOK, bootVars
  <2>1. CASE IrqFlag /\ irq \in prepared BY <2>1 DEF IrqFlag, TestAndSet, AfterFlag, prepVars
  <2>2. CASE IrqFlag /\ irq \notin prepared BY <2>2 DEF IrqFlag, TestAndSet, AfterFlag
  <2>3. CASE IrqPrepare BY <2>3 DEF IrqPrepare, Prepare
  <2>4. CASE IrqDone BY <2>4 DEF IrqDone, prepVars
  <2>5. CASE \E g \in Guards : IrqEnter(g) BY <2>5 DEF IrqEnter, prepVars
  <2>q. QED BY <2>1, <2>2, <2>3, <2>4, <2>5 DEF IrqStep
<1>7. WalkInv'
  <2>1. due \subseteq Guards BY DEF IndInv, TypeOK
  <2>q. QED BY <1>1, <1>2, <1>4, <2>1 DEF WalkInv, bootVars
<1>8. KeyInv'
  <2> USE <1>1, <1>4 DEF KeyInv, IndInv, TypeOK
  <2>1. CASE IrqFlag BY <2>1 DEF IrqFlag, TestAndSet, AfterFlag, prepVars
  <2>2. CASE IrqPrepare
    <3>1. irq \in prepared BY <2>2 DEF IrqPrepare, RunInv
    <3>q. QED BY <2>2, <3>1 DEF IrqPrepare, Prepare
  <2>3. CASE IrqDone BY <2>3 DEF IrqDone, prepVars
  <2>4. CASE \E g \in Guards : IrqEnter(g) BY <2>4 DEF IrqEnter, prepVars
  <2>q. QED BY <2>1, <2>2, <2>3, <2>4 DEF IrqStep
<1>9. DownInv' /\ QuiescedAtReset' BY <1>1, <1>3 DEF DownInv, QuiescedAtReset
<1>q. QED BY <1>5, <1>6, <1>7, <1>8, <1>9

\* When every handler has reported, every due guard is prepared, but for the one that
\* ColdReboot() is in the middle of.
LEMMA KeyDoneReset == ASSUME FullInv, KeyDone PROVE ResetInv'
<1> USE IdAssumption DEF FullInv, ResetInv, TaskRuns
<1>1. /\ UNCHANGED driverVars /\ UNCHANGED <<prepVars, bootVars, keyVars, due>>
      /\ key = "asked" /\ irq = None /\ keyTodo = {}
  BY DEF KeyDone
<1>2. Installed' = Installed /\ Active' = Active /\ \A s : Closed(s)' <=> Closed(s)
  BY <1>1, ClosedUnchanged
<1>3. \A g \in due : prep[g] = "done" \/ (boot = g /\ bootPc = "prepare")
  <2> SUFFICES ASSUME NEW g \in due, prep[g] # "done" PROVE boot = g /\ bootPc = "prepare" OBVIOUS
  <2>1. g \in Guards /\ g \in prepared BY <1>1 DEF KeyInv, IndInv, TypeOK
  <2>2. prep[g] = "running" BY <2>1 DEF RunInv, IndInv, TypeOK
  <2>q. QED BY <1>1, <2>1, <2>2 DEF RunInv
<1>4. DueInv' BY <1>1, <1>2 DEF DueInv, NoReset, bootVars, keyVars
<1>5. RunInv' BY <1>1 DEF RunInv, prepVars, bootVars, keyVars
<1>6. WalkInv' BY <1>1, <1>2 DEF WalkInv, prepVars, bootVars
<1>7. KeyInv' /\ DownInv' BY <1>1 DEF KeyInv, DownInv, keyVars, prepVars
<1>8. QuiescedAtReset' BY <1>1, <1>3 DEF QuiescedAtReset, prepVars, bootVars, keyVars
<1>q. QED BY <1>4, <1>5, <1>6, <1>7, <1>8

LEMMA StutterReset == ASSUME FullInv, UNCHANGED vars PROVE ResetInv'
<1> USE DEF FullInv, ResetInv, vars
<1>1. Installed' = Installed /\ Active' = Active /\ \A s : Closed(s)' <=> Closed(s)
  BY ClosedUnchanged
<1>2. DueInv' /\ WalkInv' BY <1>1 DEF DueInv, WalkInv, NoReset, bootVars, keyVars, prepVars
<1>3. RunInv' /\ KeyInv' /\ DownInv' /\ QuiescedAtReset'
  BY DEF RunInv, KeyInv, DownInv, QuiescedAtReset, bootVars, keyVars, prepVars
<1>q. QED BY <1>2, <1>3

LEMMA NextReset == ASSUME FullInv, EarlyReset = FALSE, [Next]_vars PROVE FullInv'
<1>1. IndInv' BY NextInd DEF FullInv
<1>2. ResetInv'
  <2>1. CASE UNCHANGED vars BY <2>1, StutterReset
  <2>2. ASSUME NEW g \in Guards, Install(g) \/ Remove(g) PROVE ResetInv'
    <3>1. CASE RemovePatch(g) BY <3>1, RemovePatchReset
    <3>q. QED BY <2>2, <3>1, InstallReset DEF Remove
  <2>3. ASSUME NEW f \in Foreign, ForeignPatch(f) \/ ForeignUnpatch(f) PROVE ResetInv'
    <3>1. CASE ForeignUnpatch(f) BY <3>1, ForeignUnpatchReset
    <3>q. QED BY <2>3, <3>1, ForeignPatchReset
  <2>4. CASE BootStart \/ BootStep \/ KeyReset \/ IrqStep \/ KeyDone
    BY <2>4, BootStartReset, BootPrepareReset, BootJumpReset, BootRomReset, KeyResetReset,
       IrqReset, KeyDoneReset DEF BootStep
  <2>q. QED BY <2>1, <2>2, <2>3, <2>4 DEF Next
<1>q. QED BY <1>1, <1>2 DEF FullInv

\* The machine never resets under a driver: whichever reset comes, and whichever comes
\* in the middle of the other, every guard that was installed when it began, and not
\* removed since, has finished prepare(), but for the one the keyboard's reset
\* interrupts in it.
THEOREM QuietAtReset == ASSUME EarlyReset = FALSE PROVE Spec => []QuiescedAtReset
<1>1. Init => FullInv BY InitInd, InitReset DEF FullInv
<1>2. FullInv => QuiescedAtReset BY DEF FullInv, ResetInv
<1>q. QED BY <1>1, <1>2, NextReset, PTL DEF Spec
=============================================================================
