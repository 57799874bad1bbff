------------------------------- MODULE MCSlab -------------------------------
(***************************************************************************)
(* TLC instance of Slab: pointers of 2, lines of 4.  A slab of one object, *)
(* objects smaller than a pointer and larger, DMA and CPU caches, and a    *)
(* default capacity; the second data area lies below the first.            *)
(***************************************************************************)
EXTENDS Slab

Config(s, a, c, d) == [size |-> s, align |-> a, capacity |-> c, dma |-> d]
MCConfigs == {Config(1, 0, 1, FALSE), Config(1, 0, 3, FALSE), Config(3, 2, 2, FALSE),
              Config(3, 4, 3, TRUE), Config(5, 0, 2, TRUE), Config(3, 0, 0, TRUE)}

MCArea == <<24, 4>>
=============================================================================
