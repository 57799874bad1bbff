------------------------------- MODULE HwClaim -------------------------------
(***************************************************************************)
(* hw_claim (src/hw_claim.c): one driver at a time on hardware without an  *)
(* owner field.  A claim is held while its semaphore is on exec's public   *)
(* list, under the name in hc_Name: the list node's ln_Name points INTO    *)
(* the claim, so whatever is written to hc_Name renames the listed         *)
(* semaphore.                                                              *)
(*                                                                         *)
(* Each claim is used by one task at a time; tasks of different claims     *)
(* interleave between any two calls except where Forbid() is held.         *)
(***************************************************************************)
EXTENDS Naturals

CONSTANTS Claims,     \* hw_claim structures, one per unit of a driver
          Names,      \* names of hardware that fit hc_Name
          Empty,      \* hc_Name[0] == '\0'
          MayRetake   \* callers may call hw_claim_take() on a claim they hold

ASSUME EmptyAssumption == Empty \notin Names
ASSUME RetakeAssumption == MayRetake \in BOOLEAN

VARIABLES hc_Name,    \* hc_Name[c]: the name, or Empty
          listed,     \* claims whose hc_Sem is on the public semaphore list
          claimPc,    \* claimPc[c]: where the task that uses c is
          result      \* result[c]: the last hw_claim_take()'s, "none" after a release

claimVars == <<hc_Name, listed, claimPc, result>>

ClaimTypeOK ==
    /\ hc_Name \in [Claims -> Names \cup {Empty}]
    /\ listed \in SUBSET Claims
    /\ claimPc \in [Claims -> {"idle", "find", "refused", "unlisted"}]
    /\ result \in [Claims -> {"none", "TRUE", "FALSE"}]

\* A unit's claim starts zeroed.
ClaimInit ==
    /\ hc_Name = [c \in Claims |-> Empty]
    /\ listed = {}
    /\ claimPc = [c \in Claims |-> "idle"]
    /\ result = [c \in Claims |-> "none"]

ClaimGoto(c, from, to) == claimPc[c] = from /\ claimPc' = [claimPc EXCEPT ![c] = to]

MayTake(c) == MayRetake \/ hc_Name[c] = Empty

\* strlcpy() of a name that does not fit: FALSE.
TakeTooLong(c) ==
    /\ claimPc[c] = "idle" /\ MayTake(c)
    /\ hc_Name' = [hc_Name EXCEPT ![c] = Empty]
    /\ result' = [result EXCEPT ![c] = "FALSE"]
    /\ UNCHANGED <<claimPc, listed>>

\* strlcpy() of a name that fits, and ln_Name = hc_Name.
TakeName(c) ==
    /\ ClaimGoto(c, "idle", "find") /\ MayTake(c)
    /\ \E n \in Names : hc_Name' = [hc_Name EXCEPT ![c] = n]
    /\ result' = [result EXCEPT ![c] = "none"]
    /\ UNCHANGED listed

\* FindSemaphore(): a listed semaphore of that name, as its owner's hc_Name reads now.
FindSemaphore(n) == \E d \in listed : hc_Name[d] = n

\* FindSemaphore() and AddSemaphore() under one Forbid().
TakeAdd_Blind(c) ==
    /\ ClaimGoto(c, "find", "idle")
    /\ listed' = listed \cup {c}
    /\ result' = [result EXCEPT ![c] = "TRUE"]
    /\ UNCHANGED hc_Name

TakeAdd(c) ==
    /\ ClaimGoto(c, "find", "idle")
    /\ ~FindSemaphore(hc_Name[c])
    /\ listed' = listed \cup {c}
    /\ result' = [result EXCEPT ![c] = "TRUE"]
    /\ UNCHANGED hc_Name

TakeRefused(c) ==
    /\ ClaimGoto(c, "find", "refused")
    /\ FindSemaphore(hc_Name[c])
    /\ UNCHANGED <<hc_Name, listed, result>>

\* After Permit(): the refused claim's name is blanked.
TakeBlank_Skipped(c) ==
    /\ ClaimGoto(c, "refused", "idle")
    /\ result' = [result EXCEPT ![c] = "FALSE"]
    /\ UNCHANGED <<listed, hc_Name>>

TakeBlank(c) ==
    /\ ClaimGoto(c, "refused", "idle")
    /\ hc_Name' = [hc_Name EXCEPT ![c] = Empty]
    /\ result' = [result EXCEPT ![c] = "FALSE"]
    /\ UNCHANGED listed

\* hw_claim_release(): a claim not held is left alone.
ReleaseRemove(c) ==
    /\ ClaimGoto(c, "idle", "unlisted")
    /\ hc_Name[c] # Empty
    /\ listed' = listed \ {c}
    /\ UNCHANGED <<hc_Name, result>>

ReleaseBlank(c) ==
    /\ ClaimGoto(c, "unlisted", "idle")
    /\ hc_Name' = [hc_Name EXCEPT ![c] = Empty]
    /\ result' = [result EXCEPT ![c] = "none"]
    /\ UNCHANGED listed

Step(c) ==
    \/ TakeTooLong(c) \/ TakeName(c) \/ TakeAdd(c) \/ TakeRefused(c) \/ TakeBlank(c)
    \/ ReleaseRemove(c) \/ ReleaseBlank(c)

ClaimNext == \E c \in Claims : Step(c)

ClaimSpec == ClaimInit /\ [][ClaimNext]_claimVars

-----------------------------------------------------------------------------
\* At most one driver is on the hardware: no two listed semaphores have the
\* same name, whoever takes and releases in between.
OneHolder ==
    \A c, d \in listed : hc_Name[c] = hc_Name[d] => c = d

\* Between calls hc_Name tells whether the claim is on the list, which is all
\* hw_claim_release() looks at: a held claim can be released, and one that is
\* not held is never removed from a list it is not on.
NameTellsListed ==
    \A c \in Claims : claimPc[c] = "idle" => (hc_Name[c] # Empty <=> c \in listed)

\* RemSemaphore() is called only for a semaphore that is on the list.
RemovesOnlyListed ==
    [][\A c \in Claims : claimPc[c] = "idle" /\ claimPc'[c] = "unlisted" => c \in listed]_claimVars

\* hw_claim.c: "FALSE when another driver holds it (or @name does not fit), and
\* nothing is held": the claim's storage may be freed.
FalseMeansNothingHeld ==
    \A c \in Claims : claimPc[c] = "idle" /\ result[c] = "FALSE" => c \notin listed

\* The inductive invariant: a claim is listed exactly while its name stands
\* and neither the search nor the release is under way.
ListedInv ==
    \A c \in Claims :
        /\ c \in listed => hc_Name[c] # Empty /\ claimPc[c] = "idle"
        /\ claimPc[c] = "find" => hc_Name[c] # Empty
ClaimIndInv == ClaimTypeOK /\ OneHolder /\ NameTellsListed /\ ListedInv /\ FalseMeansNothingHeld
=============================================================================
