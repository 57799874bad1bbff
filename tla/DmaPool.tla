------------------------------- MODULE DmaPool -------------------------------
(***************************************************************************)
(* The region pool (src/dma_mem.c) and dma_alloc()/dma_free() on it        *)
(* (include/dma_mem.h): tasks allocate and free DMA buffers, arenas        *)
(* ("puddles") are grabbed from the Emu68 RAM headers and given back.      *)
(*                                                                         *)
(* Memory is addressed in scaled units; Regions maps each region of        *)
(* dma_mem_ctx to its addresses.  A free list is the set of its free       *)
(* addresses.  External: Allocate() takes the lowest run that is long      *)
(* enough (first fit), Deallocate() puts it back.  forbid is exec's        *)
(* Forbid(): the code between Forbid() and Permit() is cut into steps,     *)
(* and it is the model's forbid that keeps other tasks out.                *)
(***************************************************************************)
EXTENDS DmaLayout, Sequences, FiniteSets

CONSTANTS Tasks,
          Regions,     \* a sequence of sets of addresses
          PuddleSize,  \* DMA_POOL_PUDDLE_SIZE, scaled
          Requests,    \* the <<align, size>> that callers ask for
          MaxBlocks,   \* bound: buffers in use at a time
          None

ASSUME RegionAssumption ==
    /\ Regions \in Seq(SUBSET Nat)
    /\ \A i, j \in DOMAIN Regions : i # j => Regions[i] \cap Regions[j] = {}
ASSUME BoundAssumption == PuddleSize \in Nat /\ MaxBlocks \in Nat
ASSUME TaskAssumption == None \notin Tasks

\* Alignments are powers of two: from a cache line on, multiples of it.
ASSUME RequestAssumption ==
    /\ Requests \subseteq Nat \X Nat /\ PtrSize <= Line
    /\ \A r \in Requests : r[1] >= Line => \E k \in 1 .. r[1] : r[1] = k * Line

RAM == UNION {Regions[i] : i \in DOMAIN Regions}

VARIABLES pool,      \* "none", "live" or "deleting"
          sysFree,   \* sysFree[i]: free addresses of region i's MemHeader
          other,     \* addresses other programs took from the headers
          puddles,   \* the puddle list, newest first
          buffers,   \* the buffers in use: records [raw, align, size, ptr]
          mem,       \* the words of bookkeeping; 0 is whatever else is there
          pc,        \* pc[t]
          job,       \* job[t]: the call's locals
          forbid     \* the task under Forbid(), or None

vars == <<pool, sysFree, other, puddles, buffers, mem, pc, job, forbid>>

NoJob == [align |-> 0, size |-> 0, pud |-> 0, raw |-> 0, total |-> 0]

TypeOK ==
    /\ pool \in {"none", "live", "deleting"}
    /\ sysFree \in [DOMAIN Regions -> SUBSET RAM]
    /\ other \in SUBSET RAM
    /\ puddles \in Seq([src : DOMAIN Regions, arena : Nat, size : Nat \ {0}, free : SUBSET RAM])
    /\ buffers \in SUBSET [raw : Nat, align : Nat, size : Nat, ptr : Nat]
    /\ mem \in [RAM -> Nat]
    /\ pc \in [Tasks -> {"idle", "find", "take", "grow", "stamp", "lookup"}]
    /\ job \in [Tasks -> [align : Nat, size : Nat, pud : Nat, raw : Nat, total : Nat]]
    /\ forbid \in Tasks \cup {None}

Init ==
    /\ pool = "none" /\ sysFree = Regions /\ other = {} /\ puddles = <<>>
    /\ buffers = {} /\ mem = [a \in RAM |-> 0]
    /\ pc = [t \in Tasks |-> "idle"] /\ job = [t \in Tasks |-> NoJob] /\ forbid = None

\* A task runs only if no other holds Forbid().
Runs_Unlocked(t) == TRUE
Runs(t) == forbid \in {None, t}
Goto(t, from, to) == Runs(t) /\ pc[t] = from /\ pc' = [pc EXCEPT ![t] = to]
Permit(t) == forbid' = None
Forbid(t) == forbid' = t

\* Allocate(): where n addresses fit, and the first of those places.
Lowest(S) == {x \in S : \A y \in S : x <= y}
Fits(free, n) == {a \in free : Extent(a, n) \subseteq free}
FirstFit(free, n) == Lowest(Fits(free, n))

\* Something other than bookkeeping is written over these addresses.
Scribble(addrs) == [a \in RAM |-> IF a \in addrs THEN 0 ELSE mem[a]]

Arena(p) == Extent(p.arena, p.size)
Need(total) == AlignUp(total, BlockSize)

-----------------------------------------------------------------------------
(* dma_alloc() and dma_pool_region_alloc() *)

\* Lines 105-112 of dma_mem.h, and the Forbid() of dma_pool_region_alloc().
AllocStart(t) ==
    /\ pool = "live"
    /\ Cardinality(buffers) + Cardinality({u \in Tasks : pc[u] # "idle"}) < MaxBlocks
    /\ \E r \in Requests :
          job' = [job EXCEPT ![t] = [NoJob EXCEPT !.align = r[1], !.size = r[2],
                                                  !.total = Total(r[1], r[2])]]
    /\ Goto(t, "idle", "find")
    /\ Forbid(t)
    /\ UNCHANGED <<pool, sysFree, other, puddles, buffers, mem>>

\* Lines 227-235: the first puddle with room.  Allocate() chooses the place ...
AllocFind(t) ==
    LET n == Need(job[t].total)
        room == {i \in DOMAIN puddles : Fits(puddles[i].free, n) # {}}
    IN  IF room = {}
          THEN /\ Goto(t, "find", "grow")
               /\ UNCHANGED <<pool, sysFree, other, puddles, buffers, mem, job, forbid>>
          ELSE /\ Goto(t, "find", "take")
               /\ \E i \in Lowest(room) : \E a \in FirstFit(puddles[i].free, n) :
                     job' = [job EXCEPT ![t].pud = puddles[i].arena, ![t].raw = a]
               /\ UNCHANGED <<pool, sysFree, other, puddles, buffers, mem, forbid>>

\* ... and takes it.
AllocTake(t) ==
    /\ Goto(t, "take", "stamp")
    /\ puddles' = [i \in DOMAIN puddles |->
                     IF puddles[i].arena = job[t].pud
                       THEN [puddles[i] EXCEPT !.free = @ \ Extent(job[t].raw, Need(job[t].total))]
                       ELSE puddles[i]]
    /\ Permit(t)
    /\ UNCHANGED <<pool, sysFree, other, buffers, mem, job>>

\* dma_pool_grow(): an arena from the first region that has one, a puddle for it.
ArenaSize(need) == AlignUp(IF need > PuddleSize THEN need ELSE PuddleSize, BlockSize)

GrowRegions(t) ==
    {i \in DOMAIN Regions : Fits(sysFree[i], ArenaSize(Need(job[t].total))) # {}}

AllocGrow(t) ==
    /\ Goto(t, "grow", "take")
    /\ LET n == ArenaSize(Need(job[t].total))
       IN  \E i \in Lowest(GrowRegions(t)) : \E a \in FirstFit(sysFree[i], n) :
              /\ sysFree' = [sysFree EXCEPT ![i] = @ \ Extent(a, n)]
              /\ puddles' = <<[src |-> i, arena |-> a, size |-> n, free |-> Extent(a, n)]>> \o puddles
              /\ job' = [job EXCEPT ![t].pud = a, ![t].raw = a]
    /\ UNCHANGED <<pool, other, buffers, mem, forbid>>

\* No region has room, or AllocMem() has none for the puddle and the arena goes
\* back: NULL.
AllocFails(t) ==
    /\ Goto(t, "grow", "idle")
    /\ job' = [job EXCEPT ![t] = NoJob]
    /\ Permit(t)
    /\ UNCHANGED <<pool, sysFree, other, puddles, buffers, mem>>

\* Lines 116-120 of dma_mem.h: the two words, and the aligned pointer.
AllocStamp(t) ==
    /\ Goto(t, "stamp", "idle")
    /\ LET j == job[t]
           ptr == Aligned(j.raw, j.align)
       IN  /\ mem' = [mem EXCEPT ![ptr - PtrSize] = j.raw, ![j.raw] = j.total]
           /\ buffers' = buffers \cup {[raw |-> j.raw, align |-> j.align, size |-> j.size, ptr |-> ptr]}
    /\ job' = [job EXCEPT ![t] = NoJob]
    /\ UNCHANGED <<pool, sysFree, other, puddles, forbid>>

\* dma_zalloc()'s memset(), or the caller or the device filling the buffer.
Fill(b) ==
    /\ mem' = Scribble(Extent(b.ptr, EffSize(b.align, b.size)))
    /\ UNCHANGED <<pool, sysFree, other, puddles, buffers, pc, job, forbid>>

-----------------------------------------------------------------------------
(* dma_free() and dma_pool_region_free() *)

\* Lines 127-129 of dma_mem.h: the block as the two words tell it.
FreeStart(t) ==
    /\ \E b \in buffers :
          LET raw == mem[b.ptr - PtrSize]
          IN  /\ job' = [job EXCEPT ![t] = [NoJob EXCEPT !.raw = raw, !.total = mem[raw]]]
              /\ buffers' = buffers \ {b}
    /\ Goto(t, "idle", "lookup")
    /\ Forbid(t)
    /\ UNCHANGED <<pool, sysFree, other, puddles, mem>>

\* Lines 253-261: the puddle whose arena holds it, and Deallocate(), after which
\* the words in the block mean nothing.
FreeGive(t) ==
    /\ Goto(t, "lookup", "idle")
    /\ puddles' = [i \in DOMAIN puddles |->
                     IF job[t].raw \in Arena(puddles[i])
                       THEN [puddles[i] EXCEPT !.free = @ \cup Extent(job[t].raw, Need(job[t].total))]
                       ELSE puddles[i]]
    /\ mem' = Scribble(Extent(job[t].raw, Need(job[t].total)))
    /\ job' = [job EXCEPT ![t] = NoJob]
    /\ Permit(t)
    /\ UNCHANGED <<pool, sysFree, other, buffers>>

-----------------------------------------------------------------------------
\* dma_pool_shrink(): the arenas grown for one large request, empty again.
Shrinkable(p) == p.size > PuddleSize /\ p.free = Arena(p)

Returned(gone) ==
    sysFree' = [i \in DOMAIN Regions |->
                  sysFree[i] \cup UNION {Arena(p) : p \in {q \in gone : q.src = i}}]

\* The list with the others unlinked: f says where in the list each one was.
Unlinked(kept) ==
    \E n \in 0 .. Len(puddles) : \E f \in [1 .. n -> kept] :
        /\ \A i, j \in 1 .. n : i < j => f[i] < f[j]
        /\ \A k \in kept : \E i \in 1 .. n : f[i] = k
        /\ puddles' = [i \in 1 .. n |-> puddles[f[i]]]

Shrink ==
    /\ pool = "live" /\ forbid = None
    /\ LET gone == {k \in DOMAIN puddles : Shrinkable(puddles[k])}
       IN  Returned({puddles[k] : k \in gone}) /\ Unlinked(DOMAIN puddles \ gone)
    /\ UNCHANGED <<pool, other, buffers, mem, pc, job, forbid>>

\* dma_pool_create(), refused when no region was found.
Create ==
    /\ pool = "none" /\ forbid = None
    /\ Len(Regions) # 0
    /\ pool' = "live"
    /\ UNCHANGED <<sysFree, other, puddles, buffers, mem, pc, job, forbid>>

\* dma_pool_delete(): by contract with every buffer freed and nobody in a call;
\* one Forbid() per puddle.
DeleteStart ==
    /\ pool = "live" /\ buffers = {} /\ \A t \in Tasks : pc[t] = "idle"
    /\ pool' = "deleting"
    /\ UNCHANGED <<sysFree, other, puddles, buffers, mem, pc, job, forbid>>

DeletePuddle ==
    /\ pool = "deleting" /\ puddles # <<>>
    /\ Returned({Head(puddles)})
    /\ puddles' = Tail(puddles)
    /\ UNCHANGED <<pool, other, buffers, mem, pc, job, forbid>>

DeleteDone ==
    /\ pool = "deleting" /\ puddles = <<>>
    /\ pool' = "none"
    /\ UNCHANGED <<sysFree, other, puddles, buffers, mem, pc, job, forbid>>

\* Another program allocates from the same headers, and frees.
OtherAlloc ==
    /\ other = {} /\ forbid = None
    /\ \E i \in DOMAIN Regions :
          \E a \in FirstFit(sysFree[i], BlockSize) :
             /\ other' = Extent(a, BlockSize)
             /\ sysFree' = [sysFree EXCEPT ![i] = @ \ Extent(a, BlockSize)]
    /\ UNCHANGED <<pool, puddles, buffers, mem, pc, job, forbid>>

OtherFree ==
    /\ other # {} /\ forbid = None
    /\ sysFree' = [i \in DOMAIN Regions |-> sysFree[i] \cup (other \cap Regions[i])]
    /\ other' = {}
    /\ UNCHANGED <<pool, puddles, buffers, mem, pc, job, forbid>>

TaskStep(t) ==
    \/ AllocStart(t) \/ AllocFind(t) \/ AllocTake(t) \/ AllocGrow(t) \/ AllocFails(t)
    \/ AllocStamp(t) \/ FreeStart(t) \/ FreeGive(t)

Next ==
    \/ \E t \in Tasks : TaskStep(t)
    \/ \E b \in buffers : Fill(b)
    \/ Shrink \/ Create \/ DeleteStart \/ DeletePuddle \/ DeleteDone
    \/ OtherAlloc \/ OtherFree

Spec == Init /\ [][Next]_vars

-----------------------------------------------------------------------------
(* Properties *)

\* The block under a buffer, and the block a call has in its hands.
BlockOf(b) == Extent(b.raw, Need(Total(b.align, b.size)))
Held(t) == IF pc[t] \in {"stamp", "lookup"}
             THEN Extent(job[t].raw, Need(job[t].total)) ELSE {}

\* Whatever tasks allocate and free at once, nothing is lost and nothing is handed
\* out twice.  No two blocks overlap, bookkeeping included, whether under a buffer
\* or in a call's hands; each arena is made of its free addresses and the blocks in
\* it, each region of its free addresses, the arenas from it and what others took.
Conservation ==
    LET blocks == {BlockOf(b) : b \in buffers} \cup {Held(t) : t \in Tasks}
        used   == UNION blocks
        arenas == {puddles[i] : i \in DOMAIN puddles}
    IN  /\ \A b, c \in buffers : b # c => BlockOf(b) \cap BlockOf(c) = {}
        /\ \A t \in Tasks : \A b \in buffers : BlockOf(b) \cap Held(t) = {}
        /\ \A t, u \in Tasks : t # u => Held(t) \cap Held(u) = {}
        /\ \A p \in arenas : p.free \cap used = {} /\ Arena(p) \subseteq p.free \cup used
        /\ used \subseteq UNION {Arena(p) : p \in arenas}
        /\ \A i \in DOMAIN Regions :
              LET taken == UNION {Arena(p) : p \in {q \in arenas : q.src = i}}
              IN  /\ sysFree[i] \cap taken = {}
                  /\ Regions[i] = sysFree[i] \cup taken \cup (other \cap Regions[i])

\* A buffer asked for with at least a cache line's alignment shares none of its
\* lines with another block or with its own bookkeeping: the invalidate after a
\* DMA discards nobody's data.
LinesOf(b) == UNION {Extent(AlignDown(a, Line), Line) :
                     a \in Extent(b.ptr, b.size)}
OwnsItsLines ==
    \A b \in buffers :
        b.align >= Line =>
            /\ \A c \in buffers \ {b} : LinesOf(b) \cap BlockOf(c) = {}
            /\ LinesOf(b) \cap (SizeWord(b.raw) \cup BackWord(b.raw, b.align)) = {}

\* However buffers are filled, dma_free() finds the block it was made from.
BookkeepingSurvives ==
    \A b \in buffers :
        mem[b.ptr - PtrSize] = b.raw /\ mem[b.raw] = Total(b.align, b.size)

=============================================================================
