---------------------------- MODULE MCDriverTask ----------------------------
(***************************************************************************)
(* TLC instance of DriverTask: two parents that open and close two units.  *)
(***************************************************************************)
EXTENDS DriverTask, TLC

CONSTANTS p1, p2, w1, w2

TwoParents == {p1, p2}
TwoWorkers == {w1, w2}

\* Tasks and units are alike.
Alike == Permutations(TwoParents) \cup Permutations(TwoWorkers)
=============================================================================
