------------------------------ MODULE CacheOps ------------------------------
(***************************************************************************)
(* Cache maintenance for DMA (include/cache_ops.h), on buffers laid out by *)
(* dma_alloc() (DmaLayout).  A driver owns its buffers, hands a batch of   *)
(* them to a device with cache_pre_dma() and takes them back with          *)
(* cache_post_dma() if the device may have written.                        *)
(*                                                                         *)
(* External: the data cache, write-back, in lines of Line addresses.  It   *)
(* may fetch a line and may evict one at any time.  A range operation      *)
(* works line by line and is complete for sure only after a dsb, which     *)
(* DMAF_NoSync leaves out.  The device reads and writes RAM.               *)
(***************************************************************************)
EXTENDS DmaLayout, Sequences

CONSTANTS Buffers,     \* a sequence of <<raw, align, size>>: the driver's blocks
          Neighbours,  \* addresses that other tasks write
          Values, Any  \* data, and data nobody may rely on

\* The bytes somebody uses; the padding of a buffer is left out.
RangeAddr(i) == Aligned(Buffers[i][1], Buffers[i][2])
Owned == UNION {Extent(RangeAddr(i), Buffers[i][3]) : i \in DOMAIN Buffers}
Addresses == Owned \cup Neighbours
Lines == {LineOf(a) : a \in Addresses}
AddrsOf(l) == {a \in Addresses : LineOf(a) = l}

\* What the driver has of buffer i, its padding included.
Padded(i) == Buffer(Buffers[i][1], Buffers[i][2], Buffers[i][3])

\* The pool's buffers are apart (DmaPool), and were asked for with a cache line's
\* alignment, or a multiple of it.
ASSUME BufferAssumption ==
    /\ Buffers \in Seq(Nat \X Nat \X Nat) /\ PtrSize <= Line
    /\ \A i \in DOMAIN Buffers : \E k \in 1 .. Buffers[i][2] : Buffers[i][2] = k * Line
    /\ \A i, j \in DOMAIN Buffers : i # j => Padded(i) \cap Padded(j) = {}
ASSUME NeighbourAssumption ==
    /\ Values # {} /\ Any \notin Values /\ Neighbours \subseteq Nat
    /\ \A i \in DOMAIN Buffers : Neighbours \cap Padded(i) = {}

VARIABLES lvo,       \* the build: EMU68_FORCE_LVO_CACHE_OPS
          barrier,   \* batch pattern 2: all NoSync, then emu68_barrier()
          ram, cache,  \* cache[l]: {} or {[data, dirty]}
          last,      \* last[a]: what was written last, by whomever
          pc,        \* where the driver is
          dir,       \* the direction bits of the transfer
          len,       \* len[i]: the bytes of buffer i in the batch, perhaps 0
          next,      \* the range the batch is at
          pending    \* line operations issued and not surely done: <<kind, line>>

build == <<lvo, barrier>>
transfer == <<dir, len>>
vars == <<build, ram, cache, last, pc, transfer, next, pending>>

\* Batches: how much of each buffer takes part.
MaxSize == CHOOSE m \in {Buffers[i][3] : i \in DOMAIN Buffers} :
               \A i \in DOMAIN Buffers : Buffers[i][3] <= m
NoBytes == [i \in DOMAIN Buffers |-> 0]
Lengths == {n \in [DOMAIN Buffers -> 0 .. MaxSize] :
                n # NoBytes /\ \A i \in DOMAIN Buffers : n[i] \in {0, Buffers[i][3]}}
Range(i) == Extent(RangeAddr(i), len[i])
Batch == UNION {Range(i) : i \in DOMAIN Buffers}

Init ==
    /\ lvo \in BOOLEAN /\ barrier \in BOOLEAN
    /\ ram = [a \in Addresses |-> CHOOSE v \in Values : TRUE] /\ last = ram
    /\ cache = [l \in Lines |-> {}]
    /\ pc = "own" /\ dir = {} /\ len = NoBytes
    /\ next = 1 /\ pending = {}

-----------------------------------------------------------------------------
(* The cache. *)

\* What a load sees of a line.
Seen(l) == IF cache[l] = {} THEN [a \in AddrsOf(l) |-> ram[a]]
           ELSE (CHOOSE c \in cache[l] : TRUE).data
View(a) == Seen(LineOf(a))[a]
Dirty(l) == \E c \in cache[l] : c.dirty

Store(a, v) ==
    /\ cache' = [cache EXCEPT ![LineOf(a)] =
                    {[data |-> [Seen(LineOf(a)) EXCEPT ![a] = v], dirty |-> TRUE]}]
    /\ last' = [last EXCEPT ![a] = v]

\* The prefetcher, a speculative load or another task's read.
Fetch(l) ==
    /\ cache[l] = {}
    /\ cache' = [cache EXCEPT ![l] = {[data |-> Seen(l), dirty |-> FALSE]}]
    /\ UNCHANGED <<build, ram, last, pc, transfer, next, pending>>

\* dc cvac, dc civac and dc ivac on one line; an eviction is a civac.
WriteBack(l) == ram' = [a \in Addresses |-> IF LineOf(a) = l THEN View(a) ELSE ram[a]]
LineOp(kind, l) ==
    /\ IF kind = "inv" THEN UNCHANGED ram ELSE IF Dirty(l) THEN WriteBack(l) ELSE UNCHANGED ram
    /\ cache' = [cache EXCEPT ![l] =
                    IF kind = "clean" THEN {[c EXCEPT !.dirty = FALSE] : c \in @} ELSE {}]

Evict(l) ==
    /\ cache[l] # {}
    /\ LineOp("cleaninv", l)
    /\ UNCHANGED <<build, last, pc, transfer, next, pending>>

\* A line operation that was issued is carried out.
Complete ==
    /\ \E op \in pending : LineOp(op[1], op[2]) /\ pending' = pending \ {op}
    /\ UNCHANGED <<build, last, pc, transfer, next>>

-----------------------------------------------------------------------------
(* cache_pre_dma() and cache_post_dma() *)

\* emu68_dcache_clean(), _clean_inv() and _inv(): the lines a range touches; the
\* invalidate makes no concession at the ends.  A range of no bytes: nothing.
LinesIn(i) == {LineOf(a) : a \in Range(i)}
Inline(kind, i) == {<<kind, l>> : l \in LinesIn(i)}

\* 68040.library's invalidate, which cleans a line that the range only partly covers.
Whole(l, i) == Extent(l * Line, Line) \subseteq Range(i)
LvoInv(i) == {<<IF Whole(l, i) THEN "inv" ELSE "cleaninv", l>> : l \in LinesIn(i)}

\* cache_pre_dma_impl(): the operation by direction.
PreKind_Swapped == IF dir = {"ReadFromRAM"} THEN "inv"
                   ELSE IF dir = {"WriteToRAM"} THEN "clean" ELSE "cleaninv"
PreKind == IF dir = {"ReadFromRAM"} THEN "clean"
           ELSE IF dir = {"WriteToRAM"} THEN "inv" ELSE "cleaninv"

\* CachePreDMA(), which knows nothing of DMA_WriteToRAM.
LvoPreKind == IF "ReadFromRAM" \in dir THEN "clean" ELSE "cleaninv"

PreOps(i) == Inline(IF lvo THEN LvoPreKind ELSE PreKind, i)
PostOps_None(i) == {}
PostOps(i) == IF lvo THEN LvoInv(i) ELSE Inline("inv", i)

\* A call on one range of the batch, the last one perhaps without DMAF_NoSync.  A
\* barrier of its own only follows in pattern 2.
IsLast == next = Len(Buffers)
Call(ops, from, sync, after) ==
    /\ pc = from
    /\ pending' = pending \cup ops
    /\ next' = IF IsLast THEN 1 ELSE next + 1
    /\ pc' = IF ~IsLast THEN from
             ELSE IF barrier \/ len[next] # 0 THEN sync ELSE after
    /\ UNCHANGED <<build, ram, cache, last, transfer>>

Forget == dir' = {} /\ len' = NoBytes

\* dsb sy.
Synced(from, to) ==
    /\ pc = from /\ pending = {}
    /\ pc' = to /\ IF to = "own" THEN Forget ELSE UNCHANGED transfer
    /\ UNCHANGED <<build, ram, cache, last, next, pending>>

-----------------------------------------------------------------------------
(* The driver and the device. *)

Fill ==
    /\ pc = "own"
    /\ \E a \in Owned, v \in Values : Store(a, v)
    /\ UNCHANGED <<build, ram, pc, transfer, next, pending>>

\* A transfer.  Pattern 1 ends with a range that is not empty, which is what makes
\* its barrier.  DMA_WriteToRAM alone promises that nobody needs what is in the buffers.
Start ==
    /\ pc = "own"
    /\ pc' = "pre"
    /\ dir' \in SUBSET {"ReadFromRAM", "WriteToRAM"}
    /\ len' \in Lengths
    /\ barrier \/ len'[Len(Buffers)] # 0
    /\ last' = IF dir' = {"WriteToRAM"} THEN [a \in Addresses |-> IF a \in Batch' THEN Any ELSE last[a]]
               ELSE last
    /\ UNCHANGED <<build, ram, cache, next, pending>>

PreDma == Call(PreOps(next), "pre", "armed_sync", "armed")
PreSynced == Synced("armed_sync", "armed")

DeviceWrites == dir # {"ReadFromRAM"}
DeviceReads == dir # {"WriteToRAM"}
DeviceWrite ==
    /\ pc = "armed" /\ DeviceWrites
    /\ \E a \in Batch, v \in Values : ram' = [ram EXCEPT ![a] = v] /\ last' = [last EXCEPT ![a] = v]
    /\ UNCHANGED <<build, cache, pc, transfer, next, pending>>

\* The transfer is over; a range the device only read is not passed on.
DeviceDone ==
    /\ pc = "armed"
    /\ IF DeviceWrites THEN pc' = "post" /\ UNCHANGED transfer ELSE pc' = "own" /\ Forget
    /\ UNCHANGED <<build, ram, cache, last, next, pending>>

PostDma == Call(PostOps(next), "post", "own_sync", "own")
PostSynced == Synced("own_sync", "own")

\* Another task, on addresses of its own.
NeighbourStore ==
    /\ \E a \in Neighbours, v \in Values : Store(a, v)
    /\ UNCHANGED <<build, ram, pc, transfer, next, pending>>

Next ==
    \/ \E l \in Lines : Fetch(l) \/ Evict(l)
    \/ Complete
    \/ Fill \/ Start \/ PreDma \/ PreSynced
    \/ DeviceWrite \/ DeviceDone \/ PostDma \/ PostSynced
    \/ NeighbourStore

Spec == Init /\ [][Next]_vars

-----------------------------------------------------------------------------
(* Properties *)

\* A buffer the driver owns reads as it was last written, by the driver or by the
\* device, whatever the cache fetched and evicted in the middle of the transfer.
CpuSeesDevice ==
    pc = "own" => \A a \in Owned : last[a] \in {View(a), Any}

\* While the device may read, RAM holds what the driver wrote.
DeviceSeesCpu ==
    pc = "armed" /\ DeviceReads => \A a \in Batch : last[a] \in {ram[a], Any}

\* No operation on a buffer loses what a neighbour has written: the lines of a
\* dma_alloc() buffer hold nobody else's data, the next block's bookkeeping included.
NeighbourKept == \A a \in Neighbours : View(a) = last[a]
=============================================================================
