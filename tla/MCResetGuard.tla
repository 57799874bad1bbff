---------------------------- MODULE MCResetGuard ----------------------------
(* TLC instance of ResetGuard: two drivers and a foreign patch, both resets. *)
EXTENDS ResetGuard

CONSTANTS g1, g2, f1

TwoGuards == {g1, g2}
OneForeign == {f1}
=============================================================================
