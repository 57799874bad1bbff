----------------------------- MODULE MCCacheOps -----------------------------
(***************************************************************************)
(* TLC instance of CacheOps: lines of two words, two blocks that follow    *)
(* each other as the pool lays them out, the first at an odd address and   *)
(* for one word, the second for a line.  The neighbour is the size word of *)
(* the second block, next to the first buffer.                             *)
(***************************************************************************)
EXTENDS CacheOps

Raw == 1
NextRaw == Raw + Total(Line, 1)
TwoBuffers == <<<<Raw, Line, 1>>, <<NextRaw, Line, Line>>>>
SecondSizeWord == SizeWord(NextRaw)
=============================================================================
