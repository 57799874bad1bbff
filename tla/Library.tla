------------------------------- MODULE Library ------------------------------
(***************************************************************************)
(* A task makes one of the calls: it reads a prefs file, formats or        *)
(* compares a text, or moves memory.                                       *)
(***************************************************************************)
EXTENDS TextFmt, Memory

libVars == <<pc, prefsVars, textVars, moveVars>>

Init ==
    \/ PrefsInit /\ call = Null /\ TextIdle /\ MoveIdle
    \/ TextInit /\ PrefsIdle /\ MoveIdle
    \/ MoveInit /\ call = Null /\ TextIdle /\ PrefsIdle

Next ==
    \/ PrefsNext /\ UNCHANGED <<textVars, moveVars>>
    \/ TextNext /\ UNCHANGED <<prefsVars, moveVars>>
    \/ MoveNext /\ UNCHANGED <<prefsVars, textVars>>

Spec == Init /\ [][Next]_libVars
=============================================================================
