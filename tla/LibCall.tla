------------------------------ MODULE LibCall ------------------------------
(***************************************************************************)
(* The library routines that run in their caller and share nothing: at any *)
(* time one of them is under way, at pc.                                   *)
(***************************************************************************)
VARIABLE pc
=============================================================================
