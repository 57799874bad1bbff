------------------------------ MODULE MCShared ------------------------------
(***************************************************************************)
(* TLC instance of what drivers share with each other: DmaPool, and        *)
(* HwClaim with BcmGpio.  A behaviour is one of the pool or one of the     *)
(* claims, since these have nothing in common.                             *)
(*                                                                         *)
(* The pool is scaled: a word is 1, a memory block 2, a cache line 4, a    *)
(* standard puddle 16.  Two regions: the first is one puddle, the second   *)
(* can hold the arena of a large request.  Neither starts on a cache line. *)
(* Three units of two drivers claim two pieces of hardware, with two pins  *)
(* and one, in registers of their own.                                     *)
(***************************************************************************)
EXTENDS DmaPool, BcmGpio, TLC

CONSTANTS t1, t2, c1, c2, c3, emmc, genet

TwoTasks == {t1, t2}
TwoRegions == <<2 .. 17, 22 .. 53>>
\* A small request, a cache-line one, and one that outgrows a standard puddle.
MixedRequests == {<<1, 3>>, <<4, 1>>, <<8, 10>>}

ThreeClaims == {c1, c2, c3}
TwoNames == {emmc, genet}
MCPinsOf == (genet :> {28, 29}) @@ (emmc :> {34})
MCSettings == {<<f[1], f[2], v>> : v \in {0, 1},
    f \in {<<"alt", 28>>, <<"alt", 29>>, <<"alt", 34>>, <<"pull", 29>>, <<"level", 34>>}}

\* The two drivers' pins are as far apart as the claims need them to be.
ASSUME PinsApart == Separate

VARIABLE part   \* the one of the two that runs

MCInit == Init /\ GpioInit /\ part \in {"pool", "claims"}

PoolStep == part = "pool" /\ Next /\ UNCHANGED <<part, allVars>>
ClaimStep == part = "claims" /\ GpioNext /\ UNCHANGED <<part, vars>>

MCSpec == MCInit /\ [][PoolStep \/ ClaimStep]_<<part, vars, allVars>>

\* Tasks are alike, and so are claims.
Alike == Permutations(TwoTasks) \cup Permutations(ThreeClaims)
=============================================================================
