--------------------------- MODULE DmaPoolProofs ---------------------------
(***************************************************************************)
(* The safety properties of DmaPool, for any tasks, regions and requests,  *)
(* and any widths of words, blocks and lines.                              *)
(***************************************************************************)
EXTENDS DmaPool, DmaLayoutProofs

-----------------------------------------------------------------------------
(* The inductive invariant. *)

\* Forbid() is held by the task that is in the pool's code, and by no other.
ForbidInv ==
    \A t \in Tasks : pc[t] \in {"find", "take", "grow", "lookup"} <=> forbid = t

\* Outside a live pool there are no buffers and no calls.
PoolInv ==
    /\ pool # "live" => buffers = {} /\ \A t \in Tasks : pc[t] = "idle"
    /\ pool = "none" => puddles = <<>>

\* The arenas are apart, and each is a part of its region that nobody else has.
ArenaInv ==
    /\ \A i \in DOMAIN puddles :
          /\ puddles[i].free \subseteq Arena(puddles[i])
          /\ Arena(puddles[i]) \subseteq Regions[puddles[i].src]
          /\ Arena(puddles[i]) \cap (sysFree[puddles[i].src] \cup other) = {}
    /\ \A i, j \in DOMAIN puddles : i # j => Arena(puddles[i]) \cap Arena(puddles[j]) = {}

InArena(i, x) == \E k \in DOMAIN puddles : puddles[k].src = i /\ x \in Arena(puddles[k])

\* A region is made of what is free, what others took, and its arenas.
RegionInv ==
    \A i \in DOMAIN Regions :
        /\ sysFree[i] \subseteq Regions[i] /\ sysFree[i] \cap other = {}
        /\ \A x \in Regions[i] : x \in sysFree[i] \/ x \in other \/ InArena(i, x)

\* A call's locals: the request it serves and, once found, where its block will be.
JobInv ==
    \A t \in Tasks :
        /\ pc[t] # "idle" => \E r \in Requests : job[t].total = Total(r[1], r[2])
        /\ pc[t] \in {"find", "take", "grow", "stamp"} =>
              /\ <<job[t].align, job[t].size>> \in Requests
              /\ job[t].total = Total(job[t].align, job[t].size)
        /\ pc[t] = "take" =>
              \E i \in DOMAIN puddles : /\ puddles[i].arena = job[t].pud
                                        /\ Extent(job[t].raw, Need(job[t].total)) \subseteq puddles[i].free

\* A block lies in one arena, outside its free list.
Within(S) ==
    \E i \in DOMAIN puddles : S \subseteq Arena(puddles[i]) /\ S \cap puddles[i].free = {}

BufferInv ==
    \A b \in buffers : /\ <<b.align, b.size>> \in Requests
                       /\ b.ptr = Aligned(b.raw, b.align)
                       /\ Within(BlockOf(b))

HeldInv == \A t \in Tasks : pc[t] \in {"stamp", "lookup"} => Within(Held(t))

\* No two blocks overlap.
ApartInv ==
    /\ \A b, c \in buffers : b # c => BlockOf(b) \cap BlockOf(c) = {}
    /\ \A t \in Tasks : \A b \in buffers : BlockOf(b) \cap Held(t) = {}
    /\ \A t, u \in Tasks : t # u => Held(t) \cap Held(u) = {}

InBlock(x) == (\E b \in buffers : x \in BlockOf(b)) \/ (\E t \in Tasks : x \in Held(t))

\* What is not free in an arena is in a block.
CoverInv ==
    \A i \in DOMAIN puddles : \A x \in Arena(puddles[i]) : x \in puddles[i].free \/ InBlock(x)

IndInv ==
    /\ TypeOK /\ ForbidInv /\ PoolInv /\ ArenaInv /\ RegionInv
    /\ JobInv /\ BufferInv /\ HeldInv /\ ApartInv /\ CoverInv
    /\ BookkeepingSurvives

-----------------------------------------------------------------------------
(* Sizes and places. *)

LEMMA TotalIs ==
    ASSUME NEW align \in Nat, NEW size \in Nat
    PROVE  Total(align, size) \in Nat \ {0}
<1>1. EffAlign(align) \in Nat \ {0} /\ EffSize(align, size) \in Nat
  <2>1. 0 \in Nat OBVIOUS
  <2>q. QED BY <2>1, Parts
<1>q. QED BY <1>1, SizeAssumption DEF Total

LEMMA NeedIs ==
    ASSUME NEW n \in Nat \ {0}
    PROVE  /\ Need(n) \in Nat \ {0} /\ n <= Need(n)
           /\ ArenaSize(n) \in Nat \ {0} /\ n <= ArenaSize(n)
<1>1. Need(n) \in Nat /\ n <= Need(n) BY AlignUpBounds, SizeAssumption DEF Need
<1> DEFINE m == IF n > PuddleSize THEN n ELSE PuddleSize
<1>2. m \in Nat /\ n <= m BY BoundAssumption
<1>3. ArenaSize(n) = AlignUp(m, BlockSize) BY DEF ArenaSize
<1> HIDE DEF m
<1>4. ArenaSize(n) \in Nat /\ m <= ArenaSize(n) BY <1>2, <1>3, AlignUpBounds, SizeAssumption
<1>q. QED BY <1>1, <1>2, <1>4

\* What is where in the block of a request.
LEMMA BlockParts ==
    ASSUME NEW raw \in Nat, NEW align \in Nat, NEW size \in Nat
    PROVE  LET ptr == Aligned(raw, align)
               block == Extent(raw, Need(Total(align, size)))
           IN  /\ ptr \in Nat /\ raw \in block /\ ptr - PtrSize \in block
               /\ ptr - PtrSize # raw
               /\ Buffer(raw, align, size) \subseteq block
               /\ raw \notin Buffer(raw, align, size)
               /\ ptr - PtrSize \notin Buffer(raw, align, size)
<1> DEFINE ptr == Aligned(raw, align)
           n == Need(Total(align, size))
           T == Total(align, size)
<1>1. LayoutOK(raw, align, size) BY LayoutSound
<1>2. T \in Nat \ {0} BY TotalIs
<1>3. n \in Nat \ {0} /\ T <= n BY <1>2, NeedIs
<1>4. ptr \in Nat BY Parts
<1>5. Block(raw, align, size) = Extent(raw, T) BY DEF Block
<1> HIDE DEF ptr, n, T
<1>6. Extent(raw, T) \subseteq Extent(raw, n) /\ raw \in Extent(raw, n) BY <1>2, <1>3 DEF Extent
<1>7. raw \in SizeWord(raw) BY SizeAssumption DEF SizeWord, Extent
<1>8. ptr - PtrSize \in BackWord(raw, align) BY <1>4, SizeAssumption DEF BackWord, Extent, ptr
<1>9. /\ ptr - PtrSize \in Extent(raw, n) /\ ptr - PtrSize # raw
      /\ Buffer(raw, align, size) \subseteq Extent(raw, n)
      /\ raw \notin Buffer(raw, align, size) /\ ptr - PtrSize \notin Buffer(raw, align, size)
  BY <1>1, <1>5, <1>6, <1>7, <1>8 DEF LayoutOK
<1>q. QED BY <1>4, <1>6, <1>9 DEF ptr, n, T

LEMMA RegionsAreNat ==
    /\ RAM \subseteq Nat /\ \A i \in DOMAIN Regions : Regions[i] \subseteq RAM
    /\ \A i, j \in DOMAIN Regions : i # j => Regions[i] \cap Regions[j] = {}
<1>1. \A i \in DOMAIN Regions : Regions[i] \subseteq Nat BY RegionAssumption
<1>q. QED BY <1>1, RegionAssumption DEF RAM

PuddleRec == [src : DOMAIN Regions, arena : Nat, size : Nat \ {0}, free : SUBSET RAM]

LEMMA PuddlesAre ==
    ASSUME TypeOK
    PROVE  /\ puddles \in Seq(PuddleRec)
           /\ Len(puddles) \in Nat /\ DOMAIN puddles = 1 .. Len(puddles)
           /\ \A i \in DOMAIN puddles :
                 /\ puddles[i] \in PuddleRec
                 /\ puddles[i].arena \in Arena(puddles[i])
<1>1. puddles \in Seq(PuddleRec) BY DEF TypeOK, PuddleRec
<1>2. /\ Len(puddles) \in Nat /\ DOMAIN puddles = 1 .. Len(puddles)
      /\ \A i \in DOMAIN puddles : puddles[i] \in PuddleRec
  BY <1>1
<1>3. ASSUME NEW p \in PuddleRec PROVE p.arena \in Arena(p) BY DEF PuddleRec, Arena, Extent
<1>q. QED BY <1>1, <1>2, <1>3

\* A block has its first address, and its buffer's bookkeeping.
LEMMA BufferIs ==
    ASSUME IndInv, NEW b \in buffers
    PROVE  /\ b.raw \in Nat /\ b.align \in Nat /\ b.size \in Nat /\ b.ptr \in Nat
           /\ b.raw \in BlockOf(b) /\ b.ptr - PtrSize \in BlockOf(b)
           /\ b.raw # b.ptr - PtrSize
           /\ Buffer(b.raw, b.align, b.size) \subseteq BlockOf(b)
           /\ b.raw \notin Buffer(b.raw, b.align, b.size)
           /\ b.ptr - PtrSize \notin Buffer(b.raw, b.align, b.size)
           /\ BlockOf(b) \subseteq RAM
<1>1. b.raw \in Nat /\ b.align \in Nat /\ b.size \in Nat /\ b.ptr \in Nat
  BY DEF IndInv, TypeOK
<1>2. b.ptr = Aligned(b.raw, b.align) BY DEF IndInv, BufferInv
<1>3. PICK i \in DOMAIN puddles : BlockOf(b) \subseteq Arena(puddles[i])
  BY DEF IndInv, BufferInv, Within
<1>4. Arena(puddles[i]) \subseteq RAM
  <2>1. puddles[i].src \in DOMAIN Regions BY <1>3, PuddlesAre DEF IndInv, PuddleRec
  <2>q. QED BY <2>1, RegionsAreNat DEF IndInv, ArenaInv
<1>q. QED BY <1>1, <1>2, <1>3, <1>4, BlockParts DEF BlockOf

LEMMA HeldIs ==
    ASSUME IndInv, NEW t \in Tasks, pc[t] \in {"stamp", "lookup"}
    PROVE  /\ Held(t) = Extent(job[t].raw, Need(job[t].total))
           /\ job[t].raw \in Held(t) /\ Held(t) \subseteq RAM /\ Within(Held(t))
<1>1. Held(t) = Extent(job[t].raw, Need(job[t].total)) BY DEF Held
<1>2. Within(Held(t)) BY DEF IndInv, HeldInv
<1>3. PICK i \in DOMAIN puddles : Held(t) \subseteq Arena(puddles[i]) BY <1>2 DEF Within
<1>4. Arena(puddles[i]) \subseteq RAM
  <2>1. puddles[i].src \in DOMAIN Regions BY <1>3, PuddlesAre DEF IndInv, PuddleRec
  <2>q. QED BY <2>1, RegionsAreNat DEF IndInv, ArenaInv
<1>5. job[t].raw \in Nat BY DEF IndInv, TypeOK
<1>6. PICK r \in Requests : job[t].total = Total(r[1], r[2]) BY DEF IndInv, JobInv
<1>7. r[1] \in Nat /\ r[2] \in Nat BY <1>6, RequestAssumption
<1>8. Need(job[t].total) \in Nat \ {0} BY <1>6, <1>7, TotalIs, NeedIs
<1>9. job[t].raw \in Held(t) BY <1>1, <1>5, <1>8 DEF Extent
<1>q. QED BY <1>1, <1>2, <1>3, <1>4, <1>9

-----------------------------------------------------------------------------
(* What a step leaves as it was. *)

\* The list has the same arenas, whatever is free in them.
SamePuddles ==
    /\ DOMAIN puddles' = DOMAIN puddles
    /\ \A i \in DOMAIN puddles :
          /\ puddles'[i].src = puddles[i].src
          /\ Arena(puddles'[i]) = Arena(puddles[i])
          /\ puddles'[i].free \subseteq Arena(puddles[i])

LEMMA ArenasKept ==
    ASSUME ArenaInv, RegionInv, SamePuddles, UNCHANGED <<sysFree, other>>
    PROVE  ArenaInv' /\ RegionInv'
<1>1. ArenaInv' BY DEF ArenaInv, SamePuddles
<1>2. \A i, x : InArena(i, x)' <=> InArena(i, x) BY DEF InArena, SamePuddles
<1>3. RegionInv' BY <1>2 DEF RegionInv
<1>q. QED BY <1>1, <1>3

LEMMA ListKept ==
    ASSUME IndInv, UNCHANGED <<sysFree, other, puddles>>
    PROVE  /\ ArenaInv' /\ RegionInv'
           /\ \A S : Within(S)' <=> Within(S)
<1>1. SamePuddles BY DEF IndInv, ArenaInv, SamePuddles
<1>q. QED BY <1>1, ArenasKept DEF IndInv, Within

\* The same blocks in the same list.
LEMMA BlocksKept ==
    ASSUME IndInv, UNCHANGED <<puddles, buffers>>, \A u \in Tasks : Held(u)' = Held(u)
    PROVE  BufferInv' /\ ApartInv' /\ CoverInv'
<1>1. BufferInv' BY DEF IndInv, BufferInv, Within
<1>2. ApartInv' BY DEF IndInv, ApartInv
<1>3. \A x : InBlock(x)' <=> InBlock(x) BY DEF InBlock
<1>4. CoverInv' BY <1>3 DEF IndInv, CoverInv
<1>q. QED BY <1>1, <1>2, <1>4

\* A call that goes on without touching memory or the pool.
LEMMA CallGoesOn ==
    ASSUME IndInv, NEW t \in Tasks, pool = "live" \/ pc[t] # "idle",
           UNCHANGED <<pool, sysFree, other, puddles, buffers, mem>>,
           NEW next \in {"idle", "find", "take", "grow"}, pc[t] \notin {"stamp", "lookup"},
           pc' = [pc EXCEPT ![t] = next],
           NEW j \in [align : Nat, size : Nat, pud : Nat, raw : Nat, total : Nat],
           job' = [job EXCEPT ![t] = j],
           forbid' = IF next = "idle" THEN None ELSE t, forbid \in {None, t},
           next # "idle" => /\ <<j.align, j.size>> \in Requests
                            /\ j.total = Total(j.align, j.size),
           next = "take" => \E i \in DOMAIN puddles :
                               /\ puddles[i].arena = j.pud
                               /\ Extent(j.raw, Need(j.total)) \subseteq puddles[i].free
    PROVE  IndInv'
<1>1. /\ pc'[t] = next /\ job'[t] = j
      /\ \A u \in Tasks : u # t => pc'[u] = pc[u] /\ job'[u] = job[u]
  BY DEF IndInv, TypeOK
<1>2. TypeOK' BY DEF IndInv, TypeOK
<1>3. ForbidInv' BY <1>1, TaskAssumption DEF IndInv, ForbidInv
<1>4. PoolInv' BY <1>1 DEF IndInv, PoolInv
<1>5. ASSUME NEW u \in Tasks PROVE Held(u)' = Held(u) BY <1>1 DEF Held
<1>6. ArenaInv' /\ RegionInv' BY ListKept
<1>7. BufferInv' /\ ApartInv' /\ CoverInv' BY <1>5, BlocksKept
<1>8. HeldInv' BY <1>1, <1>5, ListKept DEF IndInv, HeldInv
<1>9. JobInv'
  <2>1. next # "idle" => \E r \in Requests : j.total = Total(r[1], r[2])
    <3>1. <<j.align, j.size>>[1] = j.align /\ <<j.align, j.size>>[2] = j.size OBVIOUS
    <3>q. QED BY <3>1
  <2>q. QED BY <1>1, <2>1 DEF IndInv, JobInv
<1>10. BookkeepingSurvives' BY DEF IndInv, BookkeepingSurvives
<1>q. QED BY <1>2, <1>3, <1>4, <1>6, <1>7, <1>8, <1>9, <1>10 DEF IndInv

-----------------------------------------------------------------------------
(* The steps keep the invariant: allocation. *)

JobRec == [align : Nat, size : Nat, pud : Nat, raw : Nat, total : Nat]

LEMMA JobIs ==
    ASSUME IndInv, NEW t \in Tasks
    PROVE  /\ job[t] \in JobRec /\ job = [job EXCEPT ![t] = job[t]]
           /\ NoJob \in JobRec
BY DEF IndInv, TypeOK, JobRec, NoJob

LEMMA RequestIs ==
    ASSUME NEW r \in Requests
    PROVE  r[1] \in Nat /\ r[2] \in Nat /\ r = <<r[1], r[2]>> /\ Total(r[1], r[2]) \in Nat \ {0}
<1>1. r[1] \in Nat /\ r[2] \in Nat /\ r = <<r[1], r[2]>> BY RequestAssumption
<1>q. QED BY <1>1, TotalIs

LEMMA AllocStartKeeps ==
    ASSUME IndInv, NEW t \in Tasks, AllocStart(t)
    PROVE  IndInv'
<1>1. PICK r \in Requests :
         job' = [job EXCEPT ![t] = [NoJob EXCEPT !.align = r[1], !.size = r[2],
                                                 !.total = Total(r[1], r[2])]]
  BY DEF AllocStart
<1> DEFINE j == [NoJob EXCEPT !.align = r[1], !.size = r[2], !.total = Total(r[1], r[2])]
<1>2. j \in JobRec BY RequestIs, JobIs DEF NoJob, JobRec
<1>3. j.align = r[1] /\ j.size = r[2] /\ j.total = Total(r[1], r[2]) BY DEF NoJob
<1>4. job' = [job EXCEPT ![t] = j] BY <1>1
<1> HIDE DEF j
<1>5. <<j.align, j.size>> \in Requests /\ j.total = Total(j.align, j.size) BY <1>3, RequestIs
<1>6. /\ pool = "live" /\ pc[t] = "idle" /\ pc' = [pc EXCEPT ![t] = "find"]
      /\ forbid' = t /\ forbid \in {None, t}
      /\ UNCHANGED <<pool, sysFree, other, puddles, buffers, mem>>
  BY DEF AllocStart, Goto, Runs, Forbid
<1>q. QED BY <1>2, <1>4, <1>5, <1>6, CallGoesOn DEF JobRec

LEMMA AllocFindKeeps ==
    ASSUME IndInv, NEW t \in Tasks, AllocFind(t)
    PROVE  IndInv'
<1> DEFINE n == Need(job[t].total)
           room == {i \in DOMAIN puddles : Fits(puddles[i].free, n) # {}}
<1>0. /\ pc[t] = "find" /\ forbid = t /\ forbid' = t
      /\ UNCHANGED <<pool, sysFree, other, puddles, buffers, mem>>
      /\ <<job[t].align, job[t].size>> \in Requests
      /\ job[t].total = Total(job[t].align, job[t].size)
  BY DEF AllocFind, Goto, IndInv, ForbidInv, JobInv
<1>1. CASE room = {}
  <2>1. pc' = [pc EXCEPT ![t] = "grow"] /\ job' = [job EXCEPT ![t] = job[t]]
    BY <1>1, JobIs DEF AllocFind, Goto
  <2>q. QED BY <1>0, <2>1, JobIs, CallGoesOn DEF JobRec
<1>2. CASE room # {}
  <2>1. PICK i \in Lowest(room) : \E a \in FirstFit(puddles[i].free, n) :
           job' = [job EXCEPT ![t].pud = puddles[i].arena, ![t].raw = a]
    BY <1>2 DEF AllocFind
  <2>2. PICK a \in FirstFit(puddles[i].free, n) :
           job' = [job EXCEPT ![t].pud = puddles[i].arena, ![t].raw = a]
    BY <2>1
  <2>3. i \in DOMAIN puddles /\ a \in puddles[i].free /\ Extent(a, n) \subseteq puddles[i].free
    BY DEF Lowest, FirstFit, Fits
  <2>4. puddles[i].arena \in Nat /\ a \in Nat
    BY <2>3, PuddlesAre, RegionsAreNat DEF IndInv, PuddleRec
  <2> DEFINE j == [job[t] EXCEPT !.pud = puddles[i].arena, !.raw = a]
  <2>5. job' = [job EXCEPT ![t] = j] BY <2>2
  <2>6. /\ j \in JobRec /\ j.align = job[t].align /\ j.size = job[t].size
        /\ j.total = job[t].total /\ j.pud = puddles[i].arena /\ j.raw = a
    BY <2>4, JobIs DEF JobRec
  <2> HIDE DEF j
  <2>7. Extent(j.raw, Need(j.total)) \subseteq puddles[i].free BY <2>3, <2>6
  <2>8. pc' = [pc EXCEPT ![t] = "take"] BY <1>2 DEF AllocFind, Goto
  <2>q. QED BY <1>0, <2>3, <2>5, <2>6, <2>7, <2>8, CallGoesOn DEF JobRec
<1>q. QED BY <1>1, <1>2

LEMMA AllocFailsKeeps ==
    ASSUME IndInv, NEW t \in Tasks, AllocFails(t)
    PROVE  IndInv'
<1>1. /\ pc[t] = "grow" /\ forbid \in {None, t} /\ forbid' = None
      /\ pc' = [pc EXCEPT ![t] = "idle"] /\ job' = [job EXCEPT ![t] = NoJob]
      /\ UNCHANGED <<pool, sysFree, other, puddles, buffers, mem>>
  BY DEF AllocFails, Goto, Runs, Permit
<1>q. QED BY <1>1, JobIs, CallGoesOn DEF JobRec

LEMMA WithinIsNotFree ==
    ASSUME ArenaInv, NEW S, Within(S), NEW k \in DOMAIN puddles, NEW E, E \subseteq puddles[k].free
    PROVE  S \cap E = {}
<1>1. PICK i \in DOMAIN puddles : S \subseteq Arena(puddles[i]) /\ S \cap puddles[i].free = {}
  BY DEF Within
<1>2. CASE i = k BY <1>1, <1>2
<1>3. CASE i # k BY <1>1, <1>3 DEF ArenaInv
<1>q. QED BY <1>2, <1>3

\* The blocks there are, as sets that are empty or within an arena.
LEMMA BlocksWithin ==
    ASSUME IndInv
    PROVE  /\ \A b \in buffers : Within(BlockOf(b))
           /\ \A u \in Tasks : Held(u) = {} \/ Within(Held(u))
BY DEF IndInv, BufferInv, HeldInv, Held

LEMMA AllocTakeKeeps ==
    ASSUME IndInv, NEW t \in Tasks, AllocTake(t)
    PROVE  IndInv'
<1> DEFINE E == Extent(job[t].raw, Need(job[t].total))
<1>0. /\ pc[t] = "take" /\ pc' = [pc EXCEPT ![t] = "stamp"] /\ forbid = t /\ forbid' = None
      /\ UNCHANGED <<pool, sysFree, other, buffers, mem, job>>
  BY DEF AllocTake, Goto, Permit, IndInv, ForbidInv
<1>1. /\ pc'[t] = "stamp" /\ \A u \in Tasks : u # t => pc'[u] = pc[u]
  BY <1>0 DEF IndInv, TypeOK
<1>2. \A u \in Tasks : u # t => pc[u] \in {"idle", "stamp"} BY <1>0 DEF IndInv, ForbidInv, TypeOK
<1>3. PICK k \in DOMAIN puddles : puddles[k].arena = job[t].pud /\ E \subseteq puddles[k].free
  BY <1>0 DEF IndInv, JobInv
<1>4. \A i \in DOMAIN puddles : puddles[i].arena = job[t].pud <=> i = k
  BY <1>3, PuddlesAre DEF IndInv, ArenaInv
<1> DEFINE New(p) == [p EXCEPT !.free = @ \ E]
<1>5. puddles' = [i \in DOMAIN puddles |-> IF i = k THEN New(puddles[i]) ELSE puddles[i]]
  BY <1>4 DEF AllocTake
<1>6. ASSUME NEW p \in PuddleRec
      PROVE  /\ New(p) \in PuddleRec /\ New(p).src = p.src /\ Arena(New(p)) = Arena(p)
             /\ New(p).free = p.free \ E
  BY DEF PuddleRec, Arena
<1> HIDE DEF New, E
<1>7. puddles' \in Seq(PuddleRec)
  <2>1. \A i \in 1 .. Len(puddles) : (IF i = k THEN New(puddles[i]) ELSE puddles[i]) \in PuddleRec
    BY <1>6, PuddlesAre DEF IndInv
  <2>q. QED BY <1>5, <2>1, PuddlesAre DEF IndInv
<1>8. /\ DOMAIN puddles' = DOMAIN puddles
      /\ \A i \in DOMAIN puddles :
            /\ puddles'[i].src = puddles[i].src /\ Arena(puddles'[i]) = Arena(puddles[i])
            /\ puddles'[i].free = IF i = k THEN puddles[i].free \ E ELSE puddles[i].free
  BY <1>5, <1>6, PuddlesAre DEF IndInv
<1>9. SamePuddles
  <2>1. \A i \in DOMAIN puddles : puddles[i].free \subseteq Arena(puddles[i]) BY DEF IndInv, ArenaInv
  <2>2. \A i \in DOMAIN puddles : puddles'[i].free \subseteq puddles[i].free BY <1>8
  <2>q. QED BY <1>8, <2>1, <2>2 DEF SamePuddles
<1>10. TypeOK' BY <1>0, <1>7 DEF IndInv, TypeOK, PuddleRec
<1>11. ForbidInv' BY <1>0, <1>1, TaskAssumption DEF IndInv, ForbidInv
<1>12. PoolInv' BY <1>0, <1>1 DEF IndInv, PoolInv
<1>13. ArenaInv' /\ RegionInv' BY <1>0, <1>9, ArenasKept DEF IndInv
<1>14. JobInv' BY <1>0, <1>1, <1>2 DEF IndInv, JobInv
<1>15. \A S : Within(S) => Within(S)' BY <1>8 DEF Within
<1>16. E \subseteq Arena(puddles'[k]) /\ E \cap puddles'[k].free = {} /\ k \in DOMAIN puddles'
  BY <1>3, <1>8 DEF IndInv, ArenaInv
<1>17. Held(t) = {} /\ Held(t)' = E BY <1>0, <1>1 DEF Held, E
<1>18. ASSUME NEW u \in Tasks, u # t PROVE Held(u)' = Held(u) BY <1>0, <1>1, <1>18 DEF Held
<1>19. BufferInv' BY <1>0, <1>15 DEF IndInv, BufferInv
<1>20. HeldInv'
  <2>1. Within(Held(t))' BY <1>16, <1>17 DEF Within
  <2>q. QED BY <1>1, <1>15, <1>18, <2>1 DEF IndInv, HeldInv
<1>21. ApartInv'
  <2>1. ASSUME NEW S, Within(S) PROVE S \cap E = {} BY <1>3, <2>1, WithinIsNotFree DEF IndInv
  <2>2. \A b \in buffers : BlockOf(b) \cap E = {} BY <2>1, BlocksWithin
  <2>3. \A u \in Tasks : Held(u) \cap E = {} BY <2>1, BlocksWithin
  <2>q. QED BY <1>0, <1>17, <1>18, <2>2, <2>3 DEF IndInv, ApartInv
<1>22. CoverInv'
  <2>1. ASSUME NEW x, InBlock(x) PROVE InBlock(x)' BY <1>0, <1>17, <1>18, <2>1 DEF InBlock
  <2>2. ASSUME NEW x \in E PROVE InBlock(x)' BY <1>17 DEF InBlock
  <2>q. QED BY <1>8, <2>1, <2>2 DEF IndInv, CoverInv
<1>23. BookkeepingSurvives' BY <1>0 DEF IndInv, BookkeepingSurvives
<1>q. QED BY <1>10, <1>11, <1>12, <1>13, <1>14, <1>19, <1>20, <1>21, <1>22, <1>23 DEF IndInv

LEMMA AllocGrowKeeps ==
    ASSUME IndInv, NEW t \in Tasks, AllocGrow(t)
    PROVE  IndInv'
<1> DEFINE n == ArenaSize(Need(job[t].total))
<1>0. /\ pc[t] = "grow" /\ pc' = [pc EXCEPT ![t] = "take"] /\ forbid = t /\ forbid' = t
      /\ UNCHANGED <<pool, other, buffers, mem>>
      /\ <<job[t].align, job[t].size>> \in Requests
      /\ job[t].total = Total(job[t].align, job[t].size)
  BY DEF AllocGrow, Goto, IndInv, ForbidInv, JobInv
<1>1a. PICK g \in Lowest(GrowRegions(t)) : \E a \in FirstFit(sysFree[g], n) :
         /\ sysFree' = [sysFree EXCEPT ![g] = @ \ Extent(a, n)]
         /\ puddles' = <<[src |-> g, arena |-> a, size |-> n, free |-> Extent(a, n)]>> \o puddles
         /\ job' = [job EXCEPT ![t].pud = a, ![t].raw = a]
  BY DEF AllocGrow
<1>1. PICK a \in FirstFit(sysFree[g], n) :
         /\ sysFree' = [sysFree EXCEPT ![g] = @ \ Extent(a, n)]
         /\ puddles' = <<[src |-> g, arena |-> a, size |-> n, free |-> Extent(a, n)]>> \o puddles
         /\ job' = [job EXCEPT ![t].pud = a, ![t].raw = a]
  BY <1>1a
<1>2. g \in DOMAIN Regions /\ a \in sysFree[g] /\ Extent(a, n) \subseteq sysFree[g]
  BY DEF Lowest, FirstFit, Fits, GrowRegions
<1>3. n \in Nat \ {0} /\ Need(job[t].total) \in Nat \ {0} /\ Need(job[t].total) <= n
  <2>1. job[t].align \in Nat /\ job[t].size \in Nat BY JobIs DEF JobRec
  <2>2. job[t].total \in Nat \ {0} BY <1>0, <2>1, TotalIs
  <2>3. Need(job[t].total) \in Nat \ {0} BY <2>2, NeedIs
  <2>q. QED BY <2>3, NeedIs
<1>4. sysFree[g] \subseteq Regions[g] /\ Regions[g] \subseteq RAM /\ a \in Nat
  BY <1>2, RegionsAreNat DEF IndInv, RegionInv
<1> DEFINE A == Extent(a, n)
           p == [src |-> g, arena |-> a, size |-> n, free |-> A]
<1>5. p \in PuddleRec /\ Arena(p) = A /\ p.free = A /\ p.src = g /\ p.arena = a
  BY <1>2, <1>3, <1>4 DEF PuddleRec, Arena
<1>6. puddles' = <<p>> \o puddles BY <1>1
<1>7. sysFree' = [sysFree EXCEPT ![g] = @ \ A] BY <1>1
<1> DEFINE j == [job[t] EXCEPT !.pud = a, !.raw = a]
<1>8. job' = [job EXCEPT ![t] = j] BY <1>1
<1>9. /\ j \in JobRec /\ j.align = job[t].align /\ j.size = job[t].size
      /\ j.total = job[t].total /\ j.pud = a /\ j.raw = a
  BY <1>4, JobIs DEF JobRec
<1>10. Extent(j.raw, Need(j.total)) \subseteq A BY <1>3, <1>4, <1>9 DEF Extent
<1>11. A \subseteq sysFree[g] BY <1>2
<1> HIDE DEF n, A, p, j
<1>12. /\ puddles' \in Seq(PuddleRec) /\ DOMAIN puddles' = 1 .. Len(puddles) + 1
       /\ puddles'[1] = p /\ \A i \in DOMAIN puddles : i + 1 \in DOMAIN puddles' /\ puddles'[i + 1] = puddles[i]
       /\ \A i \in DOMAIN puddles' : i = 1 \/ (i - 1 \in DOMAIN puddles /\ puddles'[i] = puddles[i - 1])
  <2>1. puddles \in Seq(PuddleRec) /\ Len(puddles) \in Nat /\ DOMAIN puddles = 1 .. Len(puddles)
    BY PuddlesAre DEF IndInv
  <2>2. <<p>> \in Seq(PuddleRec) /\ Len(<<p>>) = 1 BY <1>5
  <2>3. puddles' \in Seq(PuddleRec) /\ Len(puddles') = 1 + Len(puddles) BY <1>6, <2>1, <2>2
  <2>4. DOMAIN puddles' = 1 .. Len(puddles) + 1 BY <2>1, <2>3
  <2>5. \A i \in 1 .. Len(puddles) + 1 : puddles'[i] = IF i = 1 THEN p ELSE puddles[i - 1]
    BY <1>6, <2>1, <2>2
  <2>q. QED BY <2>1, <2>3, <2>4, <2>5
<1>13. /\ sysFree'[g] = sysFree[g] \ A
       /\ \A i \in DOMAIN Regions : i # g => sysFree'[i] = sysFree[i]
  BY <1>2, <1>7 DEF IndInv, TypeOK
<1>14. /\ pc'[t] = "take" /\ job'[t] = j
       /\ \A u \in Tasks : u # t => pc'[u] = pc[u] /\ job'[u] = job[u]
  BY <1>0, <1>8 DEF IndInv, TypeOK
<1>15. \A u \in Tasks : u # t => pc[u] \in {"idle", "stamp"} BY <1>0 DEF IndInv, ForbidInv, TypeOK
<1>16. TypeOK'
  <2>1. sysFree' \in [DOMAIN Regions -> SUBSET RAM] BY <1>2, <1>7 DEF IndInv, TypeOK
  <2>2. pc' \in [Tasks -> {"idle", "find", "take", "grow", "stamp", "lookup"}]
    BY <1>0 DEF IndInv, TypeOK
  <2>3. job' \in [Tasks -> JobRec] BY <1>8, <1>9 DEF IndInv, TypeOK, JobRec
  <2>q. QED BY <1>0, <1>12, <2>1, <2>2, <2>3 DEF IndInv, TypeOK, PuddleRec, JobRec
<1>17. ForbidInv' BY <1>0, <1>14 DEF IndInv, ForbidInv
<1>18. PoolInv' BY <1>0 DEF IndInv, PoolInv
\* The new arena was free, so it is nobody's.
<1>19. ASSUME NEW i \in DOMAIN puddles PROVE Arena(puddles[i]) \cap A = {}
  <2>1. puddles[i].src \in DOMAIN Regions BY PuddlesAre DEF IndInv, PuddleRec
  <2>2. CASE puddles[i].src = g BY <1>11, <2>2 DEF IndInv, ArenaInv
  <2>3. CASE puddles[i].src # g
    BY <1>2, <1>4, <1>11, <2>1, <2>3, RegionsAreNat DEF IndInv, ArenaInv
  <2>q. QED BY <2>2, <2>3
<1>20. ArenaInv'
  <2>1. ASSUME NEW i \in DOMAIN puddles'
        PROVE  /\ puddles'[i].free \subseteq Arena(puddles'[i])
               /\ Arena(puddles'[i]) \subseteq Regions[puddles'[i].src]
               /\ Arena(puddles'[i]) \cap (sysFree'[puddles'[i].src] \cup other') = {}
    <3>1. CASE i = 1
      <4>1. A \cap other = {} BY <1>2, <1>11 DEF IndInv, RegionInv
      <4>q. QED BY <1>0, <1>4, <1>5, <1>11, <1>12, <1>13, <3>1, <4>1
    <3>2. CASE i # 1
      <4>1. i - 1 \in DOMAIN puddles /\ puddles'[i] = puddles[i - 1] BY <1>12, <3>2
      <4>2. puddles[i - 1].src \in DOMAIN Regions BY <4>1, PuddlesAre DEF IndInv, PuddleRec
      <4>3. sysFree'[puddles[i - 1].src] \subseteq sysFree[puddles[i - 1].src] BY <1>13, <4>2
      <4>q. QED BY <1>0, <4>1, <4>3 DEF IndInv, ArenaInv
    <3>q. QED BY <3>1, <3>2
  <2>2. ASSUME NEW i \in DOMAIN puddles', NEW k \in DOMAIN puddles', i # k
        PROVE  Arena(puddles'[i]) \cap Arena(puddles'[k]) = {}
    <3>1. CASE i = 1 BY <1>5, <1>12, <1>19, <2>2, <3>1
    <3>2. CASE k = 1 BY <1>5, <1>12, <1>19, <2>2, <3>2
    <3>3. CASE i # 1 /\ k # 1
      <4>1. i \in Int /\ k \in Int /\ i - 1 # k - 1
        <5>1. Len(puddles) \in Nat BY PuddlesAre DEF IndInv
        <5>q. QED BY <1>12, <2>2, <5>1
      <4>q. QED BY <1>12, <3>3, <4>1 DEF IndInv, ArenaInv
    <3>q. QED BY <3>1, <3>2, <3>3
  <2>q. QED BY <2>1, <2>2 DEF ArenaInv
<1>21. ASSUME NEW i, NEW x PROVE InArena(i, x)' <=> InArena(i, x) \/ (i = g /\ x \in A)
  <2>1. 1 \in DOMAIN puddles'
    <3>1. Len(puddles) \in Nat BY PuddlesAre DEF IndInv
    <3>q. QED BY <1>12, <3>1
  <2>2. InArena(i, x)' => InArena(i, x) \/ (i = g /\ x \in A) BY <1>5, <1>12 DEF InArena
  <2>3. i = g /\ x \in A => InArena(i, x)' BY <1>5, <1>12, <2>1 DEF InArena
  <2>4. InArena(i, x) => InArena(i, x)' BY <1>12 DEF InArena
  <2>q. QED BY <2>2, <2>3, <2>4
<1>22. RegionInv' BY <1>0, <1>13, <1>21 DEF IndInv, RegionInv
<1>23. \A S : Within(S) => Within(S)' BY <1>12 DEF Within
<1>24. ASSUME NEW u \in Tasks PROVE Held(u)' = Held(u) BY <1>0, <1>14 DEF Held
<1>25. BufferInv' BY <1>0, <1>23 DEF IndInv, BufferInv
<1>26. HeldInv' BY <1>14, <1>23, <1>24 DEF IndInv, HeldInv
<1>27. ApartInv' BY <1>0, <1>24 DEF IndInv, ApartInv
<1>28. CoverInv'
  <2>1. \A x : InBlock(x)' <=> InBlock(x) BY <1>0, <1>24 DEF InBlock
  <2>q. QED BY <1>5, <1>12, <2>1 DEF IndInv, CoverInv
<1>29. JobInv'
  <2>1. Len(puddles) \in Nat BY PuddlesAre DEF IndInv
  <2>2. 1 \in DOMAIN puddles' BY <1>12, <2>1
  <2>3. \E i \in DOMAIN puddles' : /\ puddles'[i].arena = j.pud
                                   /\ Extent(j.raw, Need(j.total)) \subseteq puddles'[i].free
    BY <1>5, <1>9, <1>10, <1>12, <2>2
  <2>4. \E r \in Requests : j.total = Total(r[1], r[2]) BY <1>0, <1>9 DEF IndInv, JobInv
  <2>q. QED BY <1>0, <1>9, <1>14, <1>15, <2>3, <2>4 DEF IndInv, JobInv
<1>30. BookkeepingSurvives' BY <1>0 DEF IndInv, BookkeepingSurvives
<1>q. QED BY <1>16, <1>17, <1>18, <1>20, <1>22, <1>25, <1>26, <1>27, <1>28, <1>29, <1>30 DEF IndInv

\* The block a call has becomes the block under a buffer.
LEMMA AllocStampKeeps ==
    ASSUME IndInv, NEW t \in Tasks, AllocStamp(t)
    PROVE  IndInv'
<1> DEFINE j == job[t]
           ptr == Aligned(j.raw, j.align)
           nb == [raw |-> j.raw, align |-> j.align, size |-> j.size, ptr |-> ptr]
<1>0. /\ pc[t] = "stamp" /\ pc' = [pc EXCEPT ![t] = "idle"] /\ job' = [job EXCEPT ![t] = NoJob]
      /\ mem' = [mem EXCEPT ![ptr - PtrSize] = j.raw, ![j.raw] = j.total]
      /\ buffers' = buffers \cup {nb}
      /\ UNCHANGED <<pool, sysFree, other, puddles, forbid>>
  BY DEF AllocStamp, Goto
<1>1. /\ j.raw \in Nat /\ j.align \in Nat /\ j.size \in Nat /\ j.total \in Nat
      /\ <<j.align, j.size>> \in Requests /\ j.total = Total(j.align, j.size)
  BY <1>0, JobIs DEF JobRec, IndInv, JobInv
<1>2. Held(t) = Extent(j.raw, Need(j.total)) /\ Held(t) \subseteq RAM /\ Within(Held(t))
  BY <1>0, HeldIs
<1>3. /\ ptr \in Nat /\ j.raw \in Held(t) /\ ptr - PtrSize \in Held(t) /\ ptr - PtrSize # j.raw
  <2> HIDE DEF j
  <2>1. Held(t) = Extent(j.raw, Need(Total(j.align, j.size))) BY <1>1, <1>2
  <2>2. j.raw \in Nat /\ j.align \in Nat /\ j.size \in Nat BY <1>1
  <2>3. /\ Aligned(j.raw, j.align) \in Nat
        /\ j.raw \in Extent(j.raw, Need(Total(j.align, j.size)))
        /\ Aligned(j.raw, j.align) - PtrSize \in Extent(j.raw, Need(Total(j.align, j.size)))
        /\ Aligned(j.raw, j.align) - PtrSize # j.raw
    BY <2>2, BlockParts, Zenon
  <2>q. QED BY <2>1, <2>3
<1>4. /\ nb \in [raw : Nat, align : Nat, size : Nat, ptr : Nat]
      /\ nb.raw = j.raw /\ nb.align = j.align /\ nb.size = j.size /\ nb.ptr = ptr
  BY <1>1, <1>3
<1>5. BlockOf(nb) = Held(t) BY <1>1, <1>2, <1>4 DEF BlockOf
<1>5a. nb.ptr = Aligned(nb.raw, nb.align) BY <1>4
<1> HIDE DEF j, ptr, nb
<1>6. /\ pc'[t] = "idle" /\ job'[t] = NoJob
      /\ \A u \in Tasks : u # t => pc'[u] = pc[u] /\ job'[u] = job[u]
  BY <1>0 DEF IndInv, TypeOK
<1>7. /\ mem' \in [RAM -> Nat] /\ mem'[ptr - PtrSize] = j.raw /\ mem'[j.raw] = j.total
      /\ \A x \in RAM \ Held(t) : mem'[x] = mem[x]
  <2>1. mem \in [RAM -> Nat] BY DEF IndInv, TypeOK
  <2>2. j.raw \in RAM /\ ptr - PtrSize \in RAM BY <1>2, <1>3
  <2>q. QED BY <1>0, <1>1, <1>3, <2>1, <2>2
<1>8. TypeOK'
  <2>1. pc' \in [Tasks -> {"idle", "find", "take", "grow", "stamp", "lookup"}]
    BY <1>0 DEF IndInv, TypeOK
  <2>2. job' \in [Tasks -> JobRec] BY <1>0, JobIs DEF IndInv, TypeOK, JobRec
  <2>q. QED BY <1>0, <1>4, <1>7, <2>1, <2>2 DEF IndInv, TypeOK, JobRec
<1>9. ForbidInv' BY <1>0, <1>6 DEF IndInv, ForbidInv
<1>10. PoolInv' BY <1>0, <1>6 DEF IndInv, PoolInv
<1>11. ArenaInv' /\ RegionInv' /\ \A S : Within(S)' <=> Within(S) BY <1>0, ListKept
<1>12. Held(t)' = {} BY <1>6 DEF Held
<1>13. ASSUME NEW u \in Tasks, u # t PROVE Held(u)' = Held(u) BY <1>6, <1>13 DEF Held
<1>14. BufferInv'
  <2>1. Within(BlockOf(nb)) BY <1>2, <1>5
  <2>2. <<nb.align, nb.size>> \in Requests BY <1>1, <1>4
  <2>q. QED BY <1>0, <1>5a, <1>11, <2>1, <2>2 DEF IndInv, BufferInv
<1>15. HeldInv' BY <1>6, <1>11, <1>13 DEF IndInv, HeldInv
<1>16. ApartInv' BY <1>0, <1>5, <1>12, <1>13 DEF IndInv, ApartInv
<1>17. CoverInv'
  <2>1. ASSUME NEW x, InBlock(x) PROVE InBlock(x)' BY <1>0, <1>5, <1>13, <2>1 DEF InBlock
  <2>q. QED BY <1>0, <2>1 DEF IndInv, CoverInv
<1>18. JobInv' BY <1>0, <1>6 DEF IndInv, JobInv
<1>19. BookkeepingSurvives'
  <2>1. mem'[nb.ptr - PtrSize] = nb.raw /\ mem'[nb.raw] = Total(nb.align, nb.size)
    BY <1>1, <1>4, <1>7
  <2>2. ASSUME NEW b \in buffers
        PROVE  mem'[b.ptr - PtrSize] = b.raw /\ mem'[b.raw] = Total(b.align, b.size)
    <3>1. b.raw \in RAM \ Held(t) /\ b.ptr - PtrSize \in RAM \ Held(t)
      BY BufferIs DEF IndInv, ApartInv
    <3>q. QED BY <1>7, <3>1 DEF IndInv, BookkeepingSurvives
  <2>q. QED BY <1>0, <2>1, <2>2 DEF BookkeepingSurvives
<1>q. QED BY <1>8, <1>9, <1>10, <1>11, <1>14, <1>15, <1>16, <1>17, <1>18, <1>19 DEF IndInv

\* The words of a buffer are where nobody writes but its owner, who fills the buffer.
LEMMA FillKeeps ==
    ASSUME IndInv, NEW c \in buffers, Fill(c)
    PROVE  IndInv'
<1> DEFINE F == Extent(c.ptr, EffSize(c.align, c.size))
<1>0. /\ mem' = [a \in RAM |-> IF a \in F THEN 0 ELSE mem[a]]
      /\ UNCHANGED <<pool, sysFree, other, puddles, buffers, pc, job, forbid>>
  BY DEF Fill, Scribble
<1>1. F = Buffer(c.raw, c.align, c.size) BY DEF IndInv, BufferInv, Buffer
<1> HIDE DEF F
<1>2. TypeOK' BY <1>0 DEF IndInv, TypeOK
<1>3. \A u \in Tasks : Held(u)' = Held(u) BY <1>0 DEF Held
<1>4. ArenaInv' /\ RegionInv' /\ \A S : Within(S)' <=> Within(S) BY <1>0, ListKept
<1>5. BufferInv' /\ ApartInv' /\ CoverInv' BY <1>0, <1>3, BlocksKept
<1>6. ForbidInv' /\ PoolInv' /\ JobInv' BY <1>0 DEF IndInv, ForbidInv, PoolInv, JobInv
<1>7. HeldInv' BY <1>0, <1>3, <1>4 DEF IndInv, HeldInv
<1>8. BookkeepingSurvives'
  <2>1. ASSUME NEW b \in buffers
        PROVE  mem'[b.ptr - PtrSize] = b.raw /\ mem'[b.raw] = Total(b.align, b.size)
    <3>1. b.raw \in RAM /\ b.ptr - PtrSize \in RAM BY BufferIs
    <3>2. b.raw \notin F /\ b.ptr - PtrSize \notin F
      <4>1. CASE b = c BY <1>1, <4>1, BufferIs
      <4>2. CASE b # c
        <5>1. BlockOf(b) \cap BlockOf(c) = {} BY <4>2 DEF IndInv, ApartInv
        <5>2. F \subseteq BlockOf(c) BY <1>1, BufferIs
        <5>3. b.raw \in BlockOf(b) /\ b.ptr - PtrSize \in BlockOf(b) BY BufferIs
        <5>q. QED BY <5>1, <5>2, <5>3
      <4>q. QED BY <4>1, <4>2
    <3>3. mem[b.ptr - PtrSize] = b.raw /\ mem[b.raw] = Total(b.align, b.size)
      BY DEF IndInv, BookkeepingSurvives
    <3>q. QED BY <1>0, <3>1, <3>2, <3>3
  <2>q. QED BY <1>0, <2>1 DEF BookkeepingSurvives
<1>q. QED BY <1>2, <1>4, <1>5, <1>6, <1>7, <1>8 DEF IndInv

-----------------------------------------------------------------------------
(* The steps keep the invariant: freeing. *)

\* dma_free() reads its own words, so it has the buffer's block.
LEMMA FreeStartKeeps ==
    ASSUME IndInv, NEW t \in Tasks, FreeStart(t)
    PROVE  IndInv'
<1>0. /\ pc[t] = "idle" /\ pc' = [pc EXCEPT ![t] = "lookup"] /\ forbid' = t /\ forbid \in {None, t}
      /\ UNCHANGED <<pool, sysFree, other, puddles, mem>>
  BY DEF FreeStart, Goto, Forbid, Runs
<1>1. PICK c \in buffers :
         /\ job' = [job EXCEPT ![t] = [NoJob EXCEPT !.raw = mem[c.ptr - PtrSize],
                                                    !.total = mem[mem[c.ptr - PtrSize]]]]
         /\ buffers' = buffers \ {c}
  BY DEF FreeStart
<1>2. mem[c.ptr - PtrSize] = c.raw /\ mem[c.raw] = Total(c.align, c.size)
  BY DEF IndInv, BookkeepingSurvives
<1>3. <<c.align, c.size>> \in Requests /\ Within(BlockOf(c)) BY DEF IndInv, BufferInv
<1>4. c.raw \in Nat /\ Total(c.align, c.size) \in Nat BY TotalIs, BufferIs
<1> DEFINE j == [NoJob EXCEPT !.raw = c.raw, !.total = Total(c.align, c.size)]
<1>5. j \in JobRec /\ j.raw = c.raw /\ j.total = Total(c.align, c.size)
  BY <1>4 DEF NoJob, JobRec
<1>6. job' = [job EXCEPT ![t] = j] BY <1>1, <1>2
<1> HIDE DEF j
<1>7. /\ pc'[t] = "lookup" /\ job'[t] = j
      /\ \A u \in Tasks : u # t => pc'[u] = pc[u] /\ job'[u] = job[u]
  BY <1>0, <1>6 DEF IndInv, TypeOK
<1>8. TypeOK'
  <2>1. pc' \in [Tasks -> {"idle", "find", "take", "grow", "stamp", "lookup"}]
    BY <1>0 DEF IndInv, TypeOK
  <2>2. job' \in [Tasks -> JobRec] BY <1>5, <1>6 DEF IndInv, TypeOK, JobRec
  <2>q. QED BY <1>0, <1>1, <2>1, <2>2 DEF IndInv, TypeOK, JobRec
<1>9. ForbidInv' BY <1>0, <1>7, TaskAssumption DEF IndInv, ForbidInv
<1>10. PoolInv' BY <1>0 DEF IndInv, PoolInv
<1>11. ArenaInv' /\ RegionInv' /\ \A S : Within(S)' <=> Within(S) BY <1>0, ListKept
<1>12. Held(t) = {} /\ Held(t)' = BlockOf(c) BY <1>0, <1>5, <1>7 DEF Held, BlockOf
<1>13. ASSUME NEW u \in Tasks, u # t PROVE Held(u)' = Held(u) BY <1>7, <1>13 DEF Held
<1>14. BufferInv' BY <1>1, <1>11 DEF IndInv, BufferInv
<1>15. HeldInv' BY <1>3, <1>7, <1>11, <1>12, <1>13 DEF IndInv, HeldInv
<1>16. ApartInv' BY <1>1, <1>12, <1>13 DEF IndInv, ApartInv
<1>17. CoverInv'
  <2>1. ASSUME NEW x, InBlock(x) PROVE InBlock(x)' BY <1>1, <1>12, <1>13, <2>1 DEF InBlock
  <2>q. QED BY <1>0, <2>1 DEF IndInv, CoverInv
<1>18. JobInv'
  <2>1. \E r \in Requests : j.total = Total(r[1], r[2])
    <3>1. <<c.align, c.size>>[1] = c.align /\ <<c.align, c.size>>[2] = c.size OBVIOUS
    <3>q. QED BY <1>3, <1>5, <3>1
  <2>q. QED BY <1>0, <1>7, <2>1 DEF IndInv, JobInv
<1>19. BookkeepingSurvives' BY <1>0, <1>1 DEF IndInv, BookkeepingSurvives
<1>q. QED BY <1>8, <1>9, <1>10, <1>11, <1>14, <1>15, <1>16, <1>17, <1>18, <1>19 DEF IndInv

LEMMA FreeGiveKeeps ==
    ASSUME IndInv, NEW t \in Tasks, FreeGive(t)
    PROVE  IndInv'
<1> DEFINE E == Extent(job[t].raw, Need(job[t].total))
           New(p) == [p EXCEPT !.free = @ \cup E]
<1>0. /\ pc[t] = "lookup" /\ pc' = [pc EXCEPT ![t] = "idle"] /\ forbid = t /\ forbid' = None
      /\ job' = [job EXCEPT ![t] = NoJob]
      /\ mem' = [a \in RAM |-> IF a \in E THEN 0 ELSE mem[a]]
      /\ puddles' = [i \in DOMAIN puddles |-> IF job[t].raw \in Arena(puddles[i]) THEN New(puddles[i])
                                              ELSE puddles[i]]
      /\ UNCHANGED <<pool, sysFree, other, buffers>>
  BY DEF FreeGive, Goto, Permit, Scribble, IndInv, ForbidInv
<1>1. /\ pc'[t] = "idle" /\ job'[t] = NoJob
      /\ \A u \in Tasks : u # t => pc'[u] = pc[u] /\ job'[u] = job[u]
  BY <1>0 DEF IndInv, TypeOK
<1>2. \A u \in Tasks : u # t => pc[u] \in {"idle", "stamp"} BY <1>0 DEF IndInv, ForbidInv, TypeOK
<1>3. Held(t) = E /\ job[t].raw \in E /\ E \subseteq RAM /\ Within(E) BY <1>0, HeldIs
<1>4. PICK k \in DOMAIN puddles : E \subseteq Arena(puddles[k]) /\ E \cap puddles[k].free = {}
  BY <1>3 DEF Within
<1>5. \A i \in DOMAIN puddles : job[t].raw \in Arena(puddles[i]) <=> i = k
  BY <1>3, <1>4 DEF IndInv, ArenaInv
<1>6. ASSUME NEW p \in PuddleRec
      PROVE  /\ New(p) \in PuddleRec /\ New(p).src = p.src /\ Arena(New(p)) = Arena(p)
             /\ New(p).free = p.free \cup E
  BY <1>3 DEF PuddleRec, Arena
<1>7. puddles' = [i \in DOMAIN puddles |-> IF i = k THEN New(puddles[i]) ELSE puddles[i]]
  BY <1>0, <1>5
<1> HIDE DEF New, E
<1>8. puddles' \in Seq(PuddleRec)
  <2>1. \A i \in 1 .. Len(puddles) : (IF i = k THEN New(puddles[i]) ELSE puddles[i]) \in PuddleRec
    BY <1>6, PuddlesAre DEF IndInv
  <2>q. QED BY <1>7, <2>1, PuddlesAre DEF IndInv
<1>9. /\ DOMAIN puddles' = DOMAIN puddles
      /\ \A i \in DOMAIN puddles :
            /\ puddles'[i].src = puddles[i].src /\ Arena(puddles'[i]) = Arena(puddles[i])
            /\ puddles'[i].free = IF i = k THEN puddles[i].free \cup E ELSE puddles[i].free
  BY <1>6, <1>7, PuddlesAre DEF IndInv
<1>10. SamePuddles
  <2>1. \A i \in DOMAIN puddles : puddles[i].free \subseteq Arena(puddles[i]) BY DEF IndInv, ArenaInv
  <2>2. \A i \in DOMAIN puddles : puddles'[i].free \subseteq Arena(puddles[i]) BY <1>4, <1>9, <2>1
  <2>q. QED BY <1>9, <2>2 DEF SamePuddles
<1>11. TypeOK'
  <2>1. pc' \in [Tasks -> {"idle", "find", "take", "grow", "stamp", "lookup"}]
    BY <1>0 DEF IndInv, TypeOK
  <2>2. job' \in [Tasks -> JobRec] BY <1>0, JobIs DEF IndInv, TypeOK, JobRec
  <2>3. mem' \in [RAM -> Nat] BY <1>0 DEF IndInv, TypeOK
  <2>q. QED BY <1>0, <1>8, <2>1, <2>2, <2>3 DEF IndInv, TypeOK, JobRec, PuddleRec
<1>12. ForbidInv' BY <1>0, <1>1, TaskAssumption DEF IndInv, ForbidInv
<1>13. PoolInv' BY <1>0, <1>1 DEF IndInv, PoolInv
<1>14. ArenaInv' /\ RegionInv' BY <1>0, <1>10, ArenasKept DEF IndInv
<1>15. Held(t)' = {} BY <1>1 DEF Held
<1>16. ASSUME NEW u \in Tasks, u # t PROVE Held(u)' = Held(u) BY <1>1, <1>16 DEF Held
\* The other blocks are still outside what is free.
<1>17. ASSUME NEW S, Within(S), S \cap E = {} PROVE Within(S)'
  BY <1>9, <1>17 DEF Within
<1>18. BufferInv'
  <2>1. \A b \in buffers : BlockOf(b) \cap E = {} BY <1>3 DEF IndInv, ApartInv
  <2>q. QED BY <1>0, <1>17, <2>1 DEF IndInv, BufferInv
<1>19. HeldInv'
  <2>1. \A u \in Tasks : u # t => Held(u) \cap E = {} BY <1>3 DEF IndInv, ApartInv
  <2>q. QED BY <1>1, <1>16, <1>17, <2>1 DEF IndInv, HeldInv
<1>20. ApartInv' BY <1>0, <1>15, <1>16 DEF IndInv, ApartInv
<1>21. CoverInv'
  <2>1. ASSUME NEW x, InBlock(x), x \notin E PROVE InBlock(x)' BY <1>0, <1>3, <1>16, <2>1 DEF InBlock
  <2>2. ASSUME NEW i \in DOMAIN puddles, NEW x \in Arena(puddles[i]), x \in E PROVE x \in puddles'[i].free
    <3>1. i = k BY <1>4, <2>2 DEF IndInv, ArenaInv
    <3>q. QED BY <1>9, <2>2, <3>1
  <2>q. QED BY <1>9, <2>1, <2>2 DEF IndInv, CoverInv
<1>22. JobInv' BY <1>0, <1>1, <1>2 DEF IndInv, JobInv
<1>23. BookkeepingSurvives'
  <2>1. ASSUME NEW b \in buffers
        PROVE  mem'[b.ptr - PtrSize] = b.raw /\ mem'[b.raw] = Total(b.align, b.size)
    <3>1. b.raw \in RAM \ E /\ b.ptr - PtrSize \in RAM \ E BY <1>3, BufferIs DEF IndInv, ApartInv
    <3>q. QED BY <1>0, <3>1 DEF IndInv, BookkeepingSurvives
  <2>q. QED BY <1>0, <2>1 DEF BookkeepingSurvives
<1>q. QED BY <1>11, <1>12, <1>13, <1>14, <1>18, <1>19, <1>20, <1>21, <1>22, <1>23 DEF IndInv

-----------------------------------------------------------------------------
(* The steps keep the invariant: the list of arenas and the regions. *)

\* Arenas that hold no block go back to their regions; f says which stay.
LEMMA ThinKeeps ==
    ASSUME IndInv, NEW kept \in SUBSET (DOMAIN puddles), NEW n \in Nat, NEW f \in [1 .. n -> kept],
           \A i, j \in 1 .. n : i # j => f[i] # f[j],
           \A k \in kept : \E i \in 1 .. n : f[i] = k,
           puddles' = [i \in 1 .. n |-> puddles[f[i]]],
           Returned({puddles[k] : k \in DOMAIN puddles \ kept}),
           \A k \in DOMAIN puddles \ kept : \A x \in Arena(puddles[k]) : ~InBlock(x),
           \A t \in Tasks : pc[t] # "take",
           UNCHANGED <<pool, other, buffers, mem, pc, job, forbid>>
    PROVE  IndInv'
<1> DEFINE gone == DOMAIN puddles \ kept
           P(m) == puddles[f[m]]
<1>1. /\ DOMAIN puddles' = 1 .. n
      /\ \A m \in 1 .. n : f[m] \in kept /\ f[m] \in DOMAIN puddles /\ puddles'[m] = puddles[f[m]]
  OBVIOUS
<1>2. puddles' \in Seq(PuddleRec)
  <2>1. \A m \in 1 .. n : puddles[f[m]] \in PuddleRec BY PuddlesAre DEF IndInv
  <2>q. QED BY <2>1
<1>3. ASSUME NEW i \in DOMAIN Regions, NEW x
      PROVE  x \in sysFree'[i] <=> \/ x \in sysFree[i]
                                   \/ \E k \in gone : puddles[k].src = i /\ x \in Arena(puddles[k])
  <2>1. sysFree'[i] = sysFree[i] \cup
           UNION {Arena(p) : p \in {q \in {puddles[k] : k \in gone} : q.src = i}}
    BY DEF Returned
  <2>q. QED BY <2>1
<1>4. DOMAIN sysFree' = DOMAIN Regions BY DEF Returned
<1>5. \A k \in DOMAIN puddles : /\ puddles[k].src \in DOMAIN Regions
                                /\ Arena(puddles[k]) \subseteq Regions[puddles[k].src]
  BY PuddlesAre DEF IndInv, PuddleRec, ArenaInv
<1>6. TypeOK'
  <2>1. ASSUME NEW i \in DOMAIN Regions PROVE sysFree'[i] \subseteq RAM
    BY <1>3, <1>5, RegionsAreNat DEF IndInv, RegionInv
  <2>2. sysFree' \in [DOMAIN Regions -> SUBSET RAM]
    <3>1. sysFree' = [i \in DOMAIN Regions |-> sysFree'[i]] BY DEF Returned
    <3>q. QED BY <2>1, <3>1
  <2>q. QED BY <1>2, <2>2 DEF IndInv, TypeOK, PuddleRec
<1>7. ForbidInv' BY DEF IndInv, ForbidInv
<1>8. PoolInv'
  <2>1. puddles = <<>> => puddles' = <<>>
    <3>1. ASSUME puddles = <<>> PROVE n = 0
      <4>1. kept = {} BY <3>1
      <4>2. CASE n # 0
        <5>1. 1 \in 1 .. n BY <4>2
        <5>q. QED BY <1>1, <4>1, <5>1
      <4>q. QED BY <4>2
    <3>2. n = 0 => Len(puddles') = 0 BY <1>1, <1>2
    <3>q. QED BY <1>2, <3>1, <3>2
  <2>q. QED BY <2>1 DEF IndInv, PoolInv
<1>9. ArenaInv'
  <2>1. ASSUME NEW m \in 1 .. n
        PROVE  /\ puddles'[m].free \subseteq Arena(puddles'[m])
               /\ Arena(puddles'[m]) \subseteq Regions[puddles'[m].src]
               /\ Arena(puddles'[m]) \cap (sysFree'[puddles'[m].src] \cup other') = {}
    <3>1. ASSUME NEW k \in gone PROVE Arena(puddles[f[m]]) \cap Arena(puddles[k]) = {}
      BY <1>1 DEF IndInv, ArenaInv
    <3>2. Arena(puddles[f[m]]) \cap sysFree'[puddles[f[m]].src] = {}
      BY <1>1, <1>3, <1>5, <3>1 DEF IndInv, ArenaInv
    <3>q. QED BY <1>1, <3>2 DEF IndInv, ArenaInv
  <2>2. ASSUME NEW m \in 1 .. n, NEW l \in 1 .. n, m # l
        PROVE  Arena(puddles'[m]) \cap Arena(puddles'[l]) = {}
    BY <1>1, <2>2 DEF IndInv, ArenaInv
  <2>q. QED BY <1>1, <2>1, <2>2, ZenonT(40) DEF ArenaInv
<1>10. RegionInv'
  <2>1. ASSUME NEW i \in DOMAIN Regions
        PROVE  sysFree'[i] \subseteq Regions[i] /\ sysFree'[i] \cap other = {}
    BY <1>3, <1>5 DEF IndInv, RegionInv, ArenaInv
  <2>2. ASSUME NEW i \in DOMAIN Regions, NEW x, InArena(i, x)
        PROVE  x \in sysFree'[i] \/ InArena(i, x)'
    <3>1. PICK k \in DOMAIN puddles : puddles[k].src = i /\ x \in Arena(puddles[k])
      BY <2>2 DEF InArena
    <3>2. CASE k \in gone BY <1>3, <3>1, <3>2
    <3>3. CASE k \in kept
      <4>1. PICK m \in 1 .. n : f[m] = k BY <3>3
      <4>q. QED BY <1>1, <3>1, <4>1 DEF InArena
    <3>q. QED BY <3>2, <3>3
  <2>q. QED BY <1>3, <2>1, <2>2 DEF IndInv, RegionInv
<1>11. ASSUME NEW S, NEW x \in S, Within(S), InBlock(x) PROVE Within(S)'
  <2>1. PICK k \in DOMAIN puddles : S \subseteq Arena(puddles[k]) /\ S \cap puddles[k].free = {}
    BY <1>11 DEF Within
  <2>2. k \in kept BY <1>11, <2>1
  <2>3. PICK m \in 1 .. n : f[m] = k BY <2>2
  <2>q. QED BY <1>1, <2>1, <2>3 DEF Within
<1>12. BufferInv'
  <2>1. ASSUME NEW b \in buffers PROVE Within(BlockOf(b))'
    <3>1. b.raw \in BlockOf(b) /\ InBlock(b.raw) /\ Within(BlockOf(b))
      BY BufferIs, BlocksWithin DEF InBlock
    <3>q. QED BY <1>11, <3>1
  <2>q. QED BY <2>1 DEF IndInv, BufferInv
<1>13. \A u \in Tasks : Held(u)' = Held(u) BY DEF Held
<1>14. HeldInv'
  <2>1. ASSUME NEW u \in Tasks, pc[u] \in {"stamp", "lookup"} PROVE Within(Held(u))'
    <3>1. job[u].raw \in Held(u) /\ InBlock(job[u].raw) /\ Within(Held(u)) BY <2>1, HeldIs DEF InBlock
    <3>q. QED BY <1>11, <1>13, <3>1
  <2>q. QED BY <2>1 DEF HeldInv
<1>15. ApartInv' BY <1>13 DEF IndInv, ApartInv
<1>16. CoverInv'
  <2>1. \A x : InBlock(x)' <=> InBlock(x) BY <1>13 DEF InBlock
  <2>q. QED BY <1>1, <2>1 DEF IndInv, CoverInv
<1>17. JobInv' BY DEF IndInv, JobInv
<1>18. BookkeepingSurvives' BY DEF IndInv, BookkeepingSurvives
<1>q. QED BY <1>6, <1>7, <1>8, <1>9, <1>10, <1>12, <1>14, <1>15, <1>16, <1>17, <1>18 DEF IndInv

LEMMA ShrinkKeeps ==
    ASSUME IndInv, Shrink
    PROVE  IndInv'
<1> DEFINE gone == {k \in DOMAIN puddles : Shrinkable(puddles[k])}
           kept == DOMAIN puddles \ gone
<1>1. /\ forbid = None /\ UNCHANGED <<pool, other, buffers, mem, pc, job, forbid>>
      /\ Returned({puddles[k] : k \in gone}) /\ Unlinked(kept)
  BY DEF Shrink
<1>2. PICK n \in 0 .. Len(puddles) : \E f \in [1 .. n -> kept] :
         /\ \A i, j \in 1 .. n : i < j => f[i] < f[j]
         /\ \A k \in kept : \E i \in 1 .. n : f[i] = k
         /\ puddles' = [i \in 1 .. n |-> puddles[f[i]]]
  BY <1>1 DEF Unlinked
<1>3. PICK f \in [1 .. n -> kept] :
         /\ \A i, j \in 1 .. n : i < j => f[i] < f[j]
         /\ \A k \in kept : \E i \in 1 .. n : f[i] = k
         /\ puddles' = [i \in 1 .. n |-> puddles[f[i]]]
  BY <1>2
<1>4. n \in Nat /\ \A i \in 1 .. n : f[i] \in Nat
  BY PuddlesAre DEF IndInv
<1>5. ASSUME NEW i \in 1 .. n, NEW j \in 1 .. n, i # j PROVE f[i] # f[j]
  <2>1. i < j \/ j < i BY <1>4, <1>5
  <2>q. QED BY <1>3, <1>4, <2>1
<1>6. ASSUME NEW k \in gone, NEW x \in Arena(puddles[k]) PROVE ~InBlock(x)
  <2>1. x \in puddles[k].free BY DEF Shrinkable
  <2>2. ASSUME NEW S, Within(S) PROVE x \notin S
    <3>1. {x} \subseteq puddles[k].free BY <2>1
    <3>2. S \cap {x} = {} BY <2>2, <3>1, WithinIsNotFree DEF IndInv
    <3>q. QED BY <3>2
  <2>q. QED BY <2>2, BlocksWithin DEF InBlock
<1>7. \A t \in Tasks : pc[t] # "take" BY <1>1, TaskAssumption DEF IndInv, ForbidInv
<1>8. gone = DOMAIN puddles \ kept OBVIOUS
<1> HIDE DEF gone, kept
<1>9. kept \in SUBSET (DOMAIN puddles) BY DEF kept
<1>q. QED BY <1>1, <1>3, <1>4, <1>5, <1>6, <1>7, <1>8, <1>9, ThinKeeps

\* By contract nothing is in use when the pool is deleted.
LEMMA DeletePuddleKeeps ==
    ASSUME IndInv, DeletePuddle
    PROVE  IndInv'
<1> DEFINE n == Len(puddles) - 1
           kept == 2 .. Len(puddles)
           f == [i \in 1 .. n |-> i + 1]
<1>1. /\ pool = "deleting" /\ puddles # <<>> /\ puddles' = Tail(puddles)
      /\ Returned({Head(puddles)}) /\ UNCHANGED <<pool, other, buffers, mem, pc, job, forbid>>
  BY DEF DeletePuddle
<1>2. Len(puddles) \in Nat /\ DOMAIN puddles = 1 .. Len(puddles) /\ puddles \in Seq(PuddleRec)
  BY PuddlesAre DEF IndInv
<1>3. Len(puddles) >= 1 BY <1>1, <1>2
<1>4. n \in Nat /\ f \in [1 .. n -> kept] /\ kept \in SUBSET (DOMAIN puddles) BY <1>2, <1>3
<1>5. \A i, j \in 1 .. n : i # j => f[i] # f[j] BY <1>4
<1>6. \A k \in kept : \E i \in 1 .. n : f[i] = k
  <2>1. ASSUME NEW k \in kept PROVE k - 1 \in 1 .. n /\ f[k - 1] = k BY <1>2
  <2>q. QED BY <2>1
<1>7. puddles' = [i \in 1 .. n |-> puddles[f[i]]]
  <2>1. puddles' \in Seq(PuddleRec) /\ Len(puddles') = n BY <1>1, <1>2, <1>3
  <2>2. DOMAIN puddles' = 1 .. n BY <2>1
  <2>3. \A i \in 1 .. n : puddles'[i] = puddles[i + 1] BY <1>1, <1>2, <1>3
  <2>4. \A i \in 1 .. n : f[i] = i + 1 OBVIOUS
  <2> HIDE DEF n, f
  <2>5. puddles' = [i \in 1 .. n |-> puddles'[i]] BY <2>1, <2>2
  <2>q. QED BY <2>3, <2>4, <2>5
<1>8. DOMAIN puddles \ kept = {1} /\ Head(puddles) = puddles[1] BY <1>2, <1>3
<1>9. Returned({puddles[k] : k \in DOMAIN puddles \ kept})
  <2>1. {puddles[k] : k \in DOMAIN puddles \ kept} = {Head(puddles)} BY <1>8
  <2>q. QED BY <1>1, <2>1
<1>10. buffers = {} /\ \A t \in Tasks : pc[t] = "idle" BY <1>1 DEF IndInv, PoolInv
<1>11. \A x : ~InBlock(x) BY <1>10 DEF InBlock, Held
<1> HIDE DEF n, kept, f
<1>q. QED BY <1>1, <1>4, <1>5, <1>6, <1>7, <1>9, <1>10, <1>11, ThinKeeps, ZenonT(40)

\* The pool's life: arenas, blocks and calls as they were.
LEMMA PoolStepKeeps ==
    ASSUME IndInv, UNCHANGED <<sysFree, other, puddles, buffers, mem, pc, job, forbid>>,
           pool' \in {"none", "live", "deleting"}, PoolInv'
    PROVE  IndInv'
<1>1. TypeOK' BY DEF IndInv, TypeOK
<1>2. ForbidInv' /\ JobInv' /\ BookkeepingSurvives'
  BY DEF IndInv, ForbidInv, JobInv, BookkeepingSurvives
<1>3. \A u \in Tasks : Held(u)' = Held(u) BY DEF Held
<1>4. ArenaInv' /\ RegionInv' /\ \A S : Within(S)' <=> Within(S) BY ListKept
<1>5. BufferInv' /\ ApartInv' /\ CoverInv' BY <1>3, BlocksKept
<1>6. HeldInv' BY <1>3, <1>4 DEF IndInv, HeldInv
<1>q. QED BY <1>1, <1>2, <1>4, <1>5, <1>6 DEF IndInv

LEMMA LifeKeeps ==
    ASSUME IndInv, Create \/ DeleteStart \/ DeleteDone
    PROVE  IndInv'
<1>1. UNCHANGED <<sysFree, other, puddles, buffers, mem, pc, job, forbid>>
  BY DEF Create, DeleteStart, DeleteDone
<1>2. pool' \in {"none", "live", "deleting"} BY DEF Create, DeleteStart, DeleteDone
<1>3. PoolInv' BY <1>1 DEF Create, DeleteStart, DeleteDone, IndInv, PoolInv
<1>q. QED BY <1>1, <1>2, <1>3, PoolStepKeeps

\* Other programs take and give back what is in no arena.
LEMMA OthersKeep ==
    ASSUME IndInv, UNCHANGED <<pool, puddles, buffers, mem, pc, job, forbid>>,
           sysFree' \in [DOMAIN Regions -> SUBSET RAM], other' \in SUBSET RAM,
           ArenaInv', RegionInv'
    PROVE  IndInv'
<1>1. TypeOK' BY DEF IndInv, TypeOK
<1>2. ForbidInv' /\ PoolInv' /\ JobInv' /\ BookkeepingSurvives'
  BY DEF IndInv, ForbidInv, PoolInv, JobInv, BookkeepingSurvives
<1>3. \A u \in Tasks : Held(u)' = Held(u) BY DEF Held
<1>5. BufferInv' /\ ApartInv' /\ CoverInv' BY <1>3, BlocksKept
<1>6. HeldInv' BY <1>3 DEF IndInv, HeldInv, Within
<1>q. QED BY <1>1, <1>2, <1>5, <1>6 DEF IndInv

LEMMA OtherAllocKeeps ==
    ASSUME IndInv, OtherAlloc
    PROVE  IndInv'
<1>0. other = {} /\ UNCHANGED <<pool, puddles, buffers, mem, pc, job, forbid>> BY DEF OtherAlloc
<1>1. PICK g \in DOMAIN Regions : \E a \in FirstFit(sysFree[g], BlockSize) :
         /\ other' = Extent(a, BlockSize)
         /\ sysFree' = [sysFree EXCEPT ![g] = @ \ Extent(a, BlockSize)]
  BY DEF OtherAlloc
<1>2. PICK e : e \subseteq sysFree[g] /\ other' = e /\ sysFree' = [sysFree EXCEPT ![g] = @ \ e]
  BY <1>1 DEF FirstFit, Lowest, Fits
<1>3. /\ sysFree' \in [DOMAIN Regions -> SUBSET RAM] /\ other' \in SUBSET RAM
      /\ \A i \in DOMAIN Regions : sysFree'[i] = IF i = g THEN sysFree[g] \ e ELSE sysFree[i]
  BY <1>2 DEF IndInv, TypeOK
<1>4. \A i \in DOMAIN Regions : sysFree[i] \subseteq Regions[i] BY DEF IndInv, RegionInv
<1>5. \A k \in DOMAIN puddles : puddles[k].src \in DOMAIN Regions
  BY PuddlesAre DEF IndInv, PuddleRec
<1>6. ASSUME NEW k \in DOMAIN puddles PROVE Arena(puddles[k]) \cap e = {}
  <2>1. CASE puddles[k].src = g BY <1>2, <2>1 DEF IndInv, ArenaInv
  <2>2. CASE puddles[k].src # g
    BY <1>2, <1>4, <1>5, <2>2, RegionsAreNat DEF IndInv, ArenaInv
  <2>q. QED BY <2>1, <2>2
<1>7. ArenaInv' BY <1>0, <1>2, <1>3, <1>5, <1>6 DEF IndInv, ArenaInv
<1>8. RegionInv'
  <2>1. ASSUME NEW i \in DOMAIN Regions
        PROVE  sysFree'[i] \subseteq Regions[i] /\ sysFree'[i] \cap e = {}
    BY <1>2, <1>3, <1>4, RegionsAreNat
  <2>2. \A i, x : InArena(i, x)' <=> InArena(i, x) BY <1>0 DEF InArena
  <2>q. QED BY <1>0, <1>2, <1>3, <2>1, <2>2 DEF IndInv, RegionInv
<1>q. QED BY <1>0, <1>3, <1>7, <1>8, OthersKeep

LEMMA OtherFreeKeeps ==
    ASSUME IndInv, OtherFree
    PROVE  IndInv'
<1>0. /\ UNCHANGED <<pool, puddles, buffers, mem, pc, job, forbid>> /\ other' = {}
      /\ sysFree' = [i \in DOMAIN Regions |-> sysFree[i] \cup (other \cap Regions[i])]
  BY DEF OtherFree
<1>1. sysFree' \in [DOMAIN Regions -> SUBSET RAM] /\ other' \in SUBSET RAM
  BY <1>0 DEF IndInv, TypeOK
<1>2. \A k \in DOMAIN puddles : puddles[k].src \in DOMAIN Regions
  BY PuddlesAre DEF IndInv, PuddleRec
<1>3. ArenaInv' BY <1>0, <1>2 DEF IndInv, ArenaInv
<1>4. \A i, x : InArena(i, x)' <=> InArena(i, x) BY <1>0 DEF InArena
<1>5. RegionInv' BY <1>0, <1>4 DEF IndInv, RegionInv
<1>q. QED BY <1>0, <1>1, <1>3, <1>5, OthersKeep

-----------------------------------------------------------------------------
(* The theorems. *)

LEMMA InitHolds == Init => IndInv
<1> SUFFICES ASSUME Init PROVE IndInv OBVIOUS
<1>0. /\ pool = "none" /\ sysFree = Regions /\ other = {} /\ puddles = <<>> /\ buffers = {}
      /\ mem = [a \in RAM |-> 0] /\ pc = [t \in Tasks |-> "idle"]
      /\ job = [t \in Tasks |-> NoJob] /\ forbid = None
  BY DEF Init
<1>1. DOMAIN puddles = {} BY <1>0
<1>2. TypeOK
  <2>1. sysFree \in [DOMAIN Regions -> SUBSET RAM]
    <3>1. Regions = [i \in DOMAIN Regions |-> Regions[i]] BY RegionAssumption
    <3>q. QED BY <1>0, <3>1, RegionsAreNat
  <2>2. job \in [Tasks -> JobRec] BY <1>0 DEF NoJob, JobRec
  <2>3. puddles \in Seq(PuddleRec) BY <1>0
  <2>q. QED BY <1>0, <2>1, <2>2, <2>3 DEF TypeOK, JobRec, PuddleRec
<1>3. ForbidInv /\ PoolInv BY <1>0, TaskAssumption DEF ForbidInv, PoolInv
<1>4. ArenaInv /\ CoverInv BY <1>1 DEF ArenaInv, CoverInv
<1>5. RegionInv BY <1>0 DEF RegionInv
<1>6. JobInv /\ HeldInv BY <1>0 DEF JobInv, HeldInv
<1>7. BufferInv /\ BookkeepingSurvives BY <1>0 DEF BufferInv, BookkeepingSurvives
<1>8. ApartInv
  <2>1. \A t \in Tasks : Held(t) = {} BY <1>0 DEF Held
  <2>q. QED BY <1>0, <2>1 DEF ApartInv
<1>q. QED BY <1>2, <1>3, <1>4, <1>5, <1>6, <1>7, <1>8 DEF IndInv

LEMMA StepKeeps == IndInv /\ [Next]_vars => IndInv'
<1> SUFFICES ASSUME IndInv, [Next]_vars PROVE IndInv' OBVIOUS
<1>1. ASSUME NEW t \in Tasks, TaskStep(t) PROVE IndInv'
  BY <1>1, AllocStartKeeps, AllocFindKeeps, AllocTakeKeeps, AllocGrowKeeps, AllocFailsKeeps,
     AllocStampKeeps, FreeStartKeeps, FreeGiveKeeps DEF TaskStep
<1>2. CASE UNCHANGED vars
  <2>1. UNCHANGED <<sysFree, other, puddles, buffers, mem, pc, job, forbid, pool>> BY <1>2 DEF vars
  <2>2. PoolInv' /\ pool' \in {"none", "live", "deleting"} BY <2>1 DEF IndInv, PoolInv, TypeOK
  <2>q. QED BY <2>1, <2>2, PoolStepKeeps
<1>q. QED
  BY <1>1, <1>2, FillKeeps, ShrinkKeeps, LifeKeeps, DeletePuddleKeeps, OtherAllocKeeps, OtherFreeKeeps
  DEF Next

\* The inductive invariant holds of every behaviour of the pool and its callers.
THEOREM Invariant == Spec => []IndInv
<1>1. Init => IndInv BY InitHolds
<1>2. IndInv /\ [Next]_vars => IndInv' BY StepKeeps
<1>q. QED BY <1>1, <1>2, PTL DEF Spec

\* Whatever tasks allocate and free at once, and whatever arenas come and go, the
\* pool hands out nothing twice and loses nothing: Forbid() is held where it must be.
THEOREM NothingLost == Spec => []Conservation
<1>1. ASSUME IndInv PROVE Conservation
  <2> DEFINE blocks == {BlockOf(b) : b \in buffers} \cup {Held(t) : t \in Tasks}
             used   == UNION blocks
             arenas == {puddles[i] : i \in DOMAIN puddles}
  <2>0. \A x : x \in used <=> InBlock(x) BY DEF InBlock
  <2>1. ASSUME NEW p \in arenas PROVE p.free \cap used = {} /\ Arena(p) \subseteq p.free \cup used
    <3>1. PICK k \in DOMAIN puddles : p = puddles[k] OBVIOUS
    <3>2. ASSUME NEW S, Within(S) PROVE S \cap p.free = {}
      BY <1>1, <3>1, <3>2, WithinIsNotFree DEF IndInv
    <3>3. \A x : InBlock(x) => x \notin p.free BY <1>1, <3>2, BlocksWithin DEF InBlock
    <3>4. \A x \in Arena(p) : x \in p.free \/ InBlock(x) BY <1>1, <3>1 DEF IndInv, CoverInv
    <3> HIDE DEF used
    <3>q. QED BY <2>0, <3>3, <3>4
  <2>2. used \subseteq UNION {Arena(p) : p \in arenas}
    <3>1. ASSUME NEW S, Within(S), NEW x \in S PROVE \E p \in arenas : x \in Arena(p)
      BY <3>1 DEF Within
    <3>2. ASSUME NEW x, InBlock(x) PROVE \E p \in arenas : x \in Arena(p)
      BY <1>1, <3>1, <3>2, BlocksWithin DEF InBlock
    <3> HIDE DEF used, arenas
    <3>q. QED BY <2>0, <3>2
  <2>3. ASSUME NEW i \in DOMAIN Regions
        PROVE  LET taken == UNION {Arena(p) : p \in {q \in arenas : q.src = i}}
               IN  /\ sysFree[i] \cap taken = {}
                   /\ Regions[i] = sysFree[i] \cup taken \cup (other \cap Regions[i])
    <3> DEFINE taken == UNION {Arena(p) : p \in {q \in arenas : q.src = i}}
    <3>1. \A x : x \in taken <=> InArena(i, x) BY DEF InArena
    <3> HIDE DEF taken
    <3>2. \A x : InArena(i, x) => x \notin sysFree[i] /\ x \in Regions[i]
      BY <1>1 DEF IndInv, ArenaInv, InArena
    <3>3. /\ sysFree[i] \subseteq Regions[i]
          /\ \A x \in Regions[i] : x \in sysFree[i] \/ x \in other \/ InArena(i, x)
      BY <1>1 DEF IndInv, RegionInv
    <3>4. sysFree[i] \cap taken = {} /\ Regions[i] = sysFree[i] \cup taken \cup (other \cap Regions[i])
      BY <3>1, <3>2, <3>3
    <3>q. QED BY <3>4 DEF taken
  <2>4. ApartInv BY <1>1 DEF IndInv
  <2>q. QED BY <2>1, <2>2, <2>3, <2>4 DEF Conservation, ApartInv
<1>q. QED BY <1>1, Invariant, PTL

\* dma_free() of any buffer, however it was filled, reads back the block that
\* dma_alloc() made it from.
THEOREM WordsSurvive == Spec => []BookkeepingSurvives
<1>1. IndInv => BookkeepingSurvives BY DEF IndInv
<1>q. QED BY <1>1, Invariant, PTL

\* A buffer asked for with a cache line's alignment owns its lines: they lie in its
\* padded buffer, so in its block, which no other block shares.
THEOREM BuffersOwnLines == Spec => []OwnsItsLines
<1>1. ASSUME IndInv PROVE OwnsItsLines
  <2> SUFFICES ASSUME NEW b \in buffers, b.align >= Line
               PROVE  /\ \A c \in buffers \ {b} : LinesOf(b) \cap BlockOf(c) = {}
                      /\ LinesOf(b) \cap (SizeWord(b.raw) \cup BackWord(b.raw, b.align)) = {}
    BY DEF OwnsItsLines
  <2> DEFINE B == Buffer(b.raw, b.align, b.size)
  <2>1. /\ b.raw \in Nat /\ b.align \in Nat /\ b.size \in Nat /\ B \subseteq BlockOf(b)
        /\ b.ptr = Aligned(b.raw, b.align) /\ <<b.align, b.size>> \in Requests
    BY <1>1, BufferIs DEF IndInv, BufferInv
  <2>2. LayoutOK(b.raw, b.align, b.size) BY <2>1, LayoutSound
  <2>3. PICK k \in 1 .. b.align : b.align = k * Line
    <3>1. <<b.align, b.size>>[1] = b.align OBVIOUS
    <3>q. QED BY <2>1, <3>1, RequestAssumption
  <2>4. PICK x, n \in Nat : B = Extent(x * Line, n * Line)
    <3>1. k \in Nat \ {0} BY <2>1, <2>3
    <3>2. PtrSize <= Line BY RequestAssumption
    <3>q. QED BY <2>1, <2>3, <3>1, <3>2, BufferLines, Zenon
  <2> HIDE DEF B
  <2>5. Extent(b.ptr, b.size) \subseteq B BY <2>1, <2>2 DEF LayoutOK, B
  <2>6. ASSUME NEW a \in Extent(b.ptr, b.size) PROVE Extent(AlignDown(a, Line), Line) \subseteq B
    <3>1. a \in B BY <2>5
    <3>2. a \in Nat
      <4>1. b.ptr \in Nat BY <1>1, BufferIs
      <4>q. QED BY <2>1, <4>1 DEF Extent
    <3>3. AlignDown(a, Line) = LineOf(a) * Line BY <3>2, LineBounds
    <3>4. Extent(LineOf(a) * Line, Line) \subseteq B BY <2>4, <3>1, LineInside
    <3>q. QED BY <3>3, <3>4
  <2>7. LinesOf(b) \subseteq B BY <2>6 DEF LinesOf
  <2>8. \A c \in buffers \ {b} : BlockOf(b) \cap BlockOf(c) = {} BY <1>1 DEF IndInv, ApartInv
  <2>9. B \cap SizeWord(b.raw) = {} /\ B \cap BackWord(b.raw, b.align) = {}
    BY <2>2 DEF LayoutOK, B
  <2>q. QED BY <2>1, <2>7, <2>8, <2>9
<1>q. QED BY <1>1, Invariant, PTL
=============================================================================
