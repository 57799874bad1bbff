-------------------------------- MODULE Slab --------------------------------
(***************************************************************************)
(* The slab cache (src/slab.c, include/slab.h): objects of one size, cut   *)
(* from slabs, the free ones chained through their own first word.         *)
(*                                                                         *)
(* mem is the memory, a pointer per address; what a caller writes into its *)
(* object is Junk.  A cache has one user at a time, as its code has no     *)
(* lock.  External: the pools, which give a node or a data area or fail;   *)
(* the k-th data area starts at Area[k], aligned as asked, and is apart    *)
(* from the others.                                                        *)
(***************************************************************************)
EXTENDS DmaLayout, Sequences, FiniteSets

CONSTANTS Configs,      \* [size, align, capacity, dma]: what slab_cache_init() is given
          DefaultSize,  \* SLAB_DEFAULT_SIZE
          MaxSlabs,     \* bound: slabs at a time
          Area,         \* the data areas, as a function of the number of the slab
          Space,        \* bound: addresses
          Junk

Null == 0
Addresses == 0 .. Space - 1

VARIABLES config,     \* as the caller asked
          obj_size, obj_align, slab_capacity, free_list,
          slabs,      \* the data areas of the slab nodes, newest first
          mem,
          inUse       \* the objects the caller holds

fixed == <<config, obj_size, obj_align, slab_capacity>>
vars == <<fixed, free_list, slabs, mem, inUse>>

\* slab_cache_init(): the alignment, the size of a slot, and how many to a slab.
MinAlign_Ptr(c) == PtrSize
MinAlign(c) == IF c.dma THEN Line ELSE PtrSize
InitAlign(c) == IF c.align < MinAlign(c) THEN MinAlign(c) ELSE c.align
InitSize(c) == AlignUp(c.size, InitAlign(c))
InitCapacity(c) ==
    IF c.capacity # 0 THEN c.capacity
    ELSE LET n == DefaultSize \div InitSize(c) IN IF n < 4 THEN 4 ELSE n

\* data_size of slab_grow().
DataSize(c) == InitSize(c) * InitCapacity(c)

\* An object of no bytes makes the default capacity a division by 0; an alignment is
\* a power of two, as a cache line is; the pools give areas that are apart, the DMA
\* pool whole cache lines.
ASSUME SlabAssumption ==
    /\ PtrSize <= Line /\ DefaultSize \in Nat /\ MaxSlabs \in Nat /\ Space \in Nat \ {0}
    /\ Junk \notin Addresses
    /\ \A c \in Configs :
          /\ c.size \in Nat \ {0} /\ c.align \in Nat /\ c.capacity \in Nat /\ c.dma \in BOOLEAN
          /\ c.dma => c.align < Line \/ c.align % Line = 0
          /\ \A k \in 1 .. MaxSlabs :
                /\ Area[k] \in Nat \ {0} /\ Area[k] + DataSize(c) <= Space
                /\ c.dma => Area[k] % Line = 0
                /\ \A l \in 1 .. MaxSlabs :
                      k # l => Area[k] + DataSize(c) <= Area[l] \/ Area[l] + DataSize(c) <= Area[k]

TypeOK ==
    /\ obj_size \in Nat \ {0} /\ obj_align \in Nat \ {0} /\ slab_capacity \in Nat \ {0}
    /\ free_list \in Addresses
    /\ mem \in [Addresses -> Addresses \cup {Junk}]
    /\ inUse \subseteq Addresses

Init ==
    /\ config \in Configs
    /\ obj_align = InitAlign(config) /\ obj_size = InitSize(config)
    /\ slab_capacity = InitCapacity(config)
    /\ free_list = Null /\ slabs = <<>>
    /\ mem = [a \in Addresses |-> Junk] /\ inUse = {}

\* From here on the object is written, by its caller the bytes asked for, by
\* slab_zalloc()'s memset() all of obj_size.
Written(m, p) == [a \in Addresses |-> IF a \in p .. p + obj_size - 1 THEN Junk ELSE m[a]]

\* slab_alloc() with an object on the free list.
Alloc ==
    /\ free_list # Null
    /\ inUse' = inUse \cup {free_list}
    /\ free_list' = mem[free_list]
    /\ mem' = Written(mem, free_list)
    /\ UNCHANGED <<fixed, slabs>>

\* The slots of a slab, each pointing to the next, the last to the old free list.
Slot(data, i) == data + i * obj_size
Chained_Ends(data) ==
    [a \in Addresses |->
        IF \E i \in 0 .. slab_capacity - 2 : a = Slot(data, i) THEN a + obj_size
        ELSE IF a = Slot(data, slab_capacity - 1) THEN Null ELSE mem[a]]
Chained(data) ==
    [a \in Addresses |->
        IF \E i \in 0 .. slab_capacity - 2 : a = Slot(data, i) THEN a + obj_size
        ELSE IF a = Slot(data, slab_capacity - 1) THEN free_list ELSE mem[a]]

\* slab_grow(), which slab_alloc() falls back to and any user may call: a node, a
\* data area, the chain; the first slot is the caller's.
Grow ==
    /\ Len(slabs) < MaxSlabs
    /\ LET data == Area[Len(slabs) + 1]
       IN  /\ mem' = Written(Chained(data), data)
           /\ slabs' = <<data>> \o slabs
           /\ free_list' = Chained(data)[data]
           /\ inUse' = inUse \cup {data}
    /\ UNCHANGED fixed

\* A pool has no memory, for the node or, after which the node goes back, for
\* the data: NULL.
GrowFails == UNCHANGED vars

\* slab_free().
Free(p) ==
    /\ mem' = [mem EXCEPT ![p] = free_list]
    /\ free_list' = p
    /\ inUse' = inUse \ {p}
    /\ UNCHANGED <<fixed, slabs>>

\* slab_cache_destroy(): data and node of every slab.  The objects are gone with it.
Destroy ==
    /\ slabs # <<>>
    /\ free_list' = Null /\ slabs' = <<>> /\ inUse' = {}
    /\ mem' = [a \in Addresses |-> Junk]
    /\ UNCHANGED fixed

Next ==
    \/ Alloc \/ Grow \/ GrowFails \/ Destroy
    \/ \E p \in inUse : Free(p)

Spec == Init /\ [][Next]_vars

-----------------------------------------------------------------------------
(* Properties *)

Slots == {Slot(slabs[k], i) : k \in DOMAIN slabs, i \in 0 .. slab_capacity - 1}

\* The n-th object of the free list, Null past its end or where a word is no pointer.
Chain == LET hop(p) == IF p \in Slots /\ mem[p] # Junk THEN mem[p] ELSE Null
             nth[n \in 0 .. Cardinality(Slots)] == IF n = 0 THEN free_list ELSE hop(nth[n - 1])
         IN  nth
OnList == {Chain[n] : n \in DOMAIN Chain} \ {Null}

\* However allocations, frees and slabs alternate, the free list goes through
\* every slot that is not in use, through none that is, and through none twice
\* (it has as many links as it has objects, so it has no cycle).
FreeListExact ==
    /\ OnList = Slots \ inUse
    /\ Chain[Cardinality(OnList)] = Null

\* What a use of the object at p may overwrite: its obj_size bytes, no less than
\* asked for, and in a DMA cache all of each cache line that they are on.
Touched(p) ==
    LET bytes == p .. p + (IF obj_size > config.size THEN obj_size ELSE config.size) - 1
    IN  IF config.dma THEN {a \in Addresses : \E b \in bytes : LineOf(a) = LineOf(b)} ELSE bytes

\* Using an object touches no other object, no link of the free list and nothing
\* outside the slab.
ObjectsApart ==
    \A p \in inUse :
        LET bytes == Touched(p)
        IN  /\ \A q \in Slots \ {p} : bytes \cap (q .. q + PtrSize - 1) = {}
            /\ \A q \in inUse \ {p} : bytes \cap Touched(q) = {}
            /\ \E k \in DOMAIN slabs :
                  bytes \subseteq slabs[k] .. slabs[k] + obj_size * slab_capacity - 1
=============================================================================
