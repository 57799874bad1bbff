------------------------------- MODULE MCPerf -------------------------------
(***************************************************************************)
(* TLC instance of Perf: a task that takes the lock twice, nested or not,  *)
(* one that contends for it, and the reporter.                             *)
(***************************************************************************)
EXTENDS Perf
=============================================================================
