--------------------------- MODULE CacheOpsProofs ---------------------------
(***************************************************************************)
(* The safety properties of CacheOps, for any cache line, any buffers that *)
(* dma_alloc() lays out with a line's alignment, any neighbours, and both  *)
(* builds and batch patterns.                                              *)
(***************************************************************************)
EXTENDS CacheOps, DmaLayoutProofs

-----------------------------------------------------------------------------
(* The padded buffer is made of whole lines. *)

LEMMA PaddedLines ==
    ASSUME NEW i \in DOMAIN Buffers
    PROVE  \E x, n \in Nat : Padded(i) = Extent(x * Line, n * Line)
<1> DEFINE raw == Buffers[i][1]
           al  == Buffers[i][2]
           sz  == Buffers[i][3]
<1>0. raw \in Nat /\ al \in Nat /\ sz \in Nat BY BufferAssumption
<1>1. PICK k \in 1 .. al : al = k * Line BY BufferAssumption
<1> HIDE DEF raw, al, sz
<1>2. k \in Nat \ {0} BY <1>0, <1>1
<1>3. PtrSize <= Line BY BufferAssumption
<1>4. \E x, n \in Nat : Buffer(raw, al, sz) = Extent(x * Line, n * Line)
  BY <1>0, <1>1, <1>2, <1>3, BufferLines, ZenonT(40)
<1>q. QED BY <1>4 DEF Padded, raw, al, sz

-----------------------------------------------------------------------------
(* The inductive invariant, address by address. *)

MemoryOK ==
    /\ ram \in [Addresses -> Values]
    /\ cache = [l \in Lines |-> cache[l]]
    /\ \A l \in Lines : \A c \in cache[l] :
          /\ c \in [data : [AddrsOf(l) -> Values], dirty : BOOLEAN]
          /\ cache[l] = {c}

TypeOK ==
    /\ MemoryOK
    /\ last \in [Addresses -> Values \cup {Any}]
    /\ pc \in {"own", "pre", "armed_sync", "armed", "post", "own_sync"}
    /\ barrier \in BOOLEAN
    /\ dir \in SUBSET {"ReadFromRAM", "WriteToRAM"}
    /\ len \in [DOMAIN Buffers -> Nat]
    /\ \A i \in DOMAIN Buffers : len[i] \in {0, Buffers[i][3]}

Giving == pc \in {"pre", "armed_sync"}
Taking == pc \in {"post", "own_sync"}

\* Where the driver is in the batch.  The range that makes the barrier is there.
WhereInv ==
    /\ pc # "own" => next \in DOMAIN Buffers /\ (barrier \/ len[Len(Buffers)] # 0)
    /\ pc \notin {"pre", "post"} => next = 1
    /\ pc = "own" => len = NoBytes

\* The ranges whose operations were issued, if the driver is between two owners.
Issued == IF pc \in {"pre", "post"} THEN 1 .. next - 1 ELSE DOMAIN Buffers

\* Only a driver that gives its buffers away for writing loses what is in a dirty
\* line; one that takes them back leaves nothing in the cache.
PendingInv ==
    /\ pending # {} => Giving \/ Taking
    /\ \A op \in pending :
          /\ op[1] \in {"clean", "cleaninv", "inv"}
          /\ \E a \in Batch : op[2] = LineOf(a)
          /\ Giving /\ op[1] = "inv" => dir = {"WriteToRAM"}
          /\ Taking => op[1] # "clean"

Idle(a) == \A op \in pending : op[2] # LineOf(a)

\* A clean copy in the cache is a copy of RAM.
Fresh(a) == Dirty(LineOf(a)) \/ View(a) = ram[a]
Reads(a) == last[a] \in {View(a), Any}
Stored(a) == last[a] \in {ram[a], Any}

OutsideInv == \A a \in Addresses \ Batch : Fresh(a) /\ Reads(a)

GivingInv ==
    Giving => \A i \in DOMAIN Buffers : \A a \in Range(i) :
                 /\ Fresh(a) /\ Reads(a)
                 /\ dir = {"WriteToRAM"} => last[a] = Any
                 /\ i \in Issued /\ Idle(a) => ~Dirty(LineOf(a))

ArmedInv ==
    pc = "armed" => \A a \in Batch :
                       /\ ~Dirty(LineOf(a)) /\ Stored(a)
                       /\ ~DeviceWrites => Fresh(a)

TakingInv ==
    Taking => \A i \in DOMAIN Buffers : \A a \in Range(i) :
                 /\ ~Dirty(LineOf(a)) /\ Stored(a)
                 /\ i \in Issued /\ Idle(a) => Fresh(a)

IndInv ==
    /\ TypeOK /\ WhereInv /\ PendingInv
    /\ OutsideInv /\ NeighbourKept /\ GivingInv /\ ArmedInv /\ TakingInv

-----------------------------------------------------------------------------
(* The lines of a buffer hold nobody else's data. *)

\* The bytes the driver uses of buffer i.
Used(i) == Extent(RangeAddr(i), Buffers[i][3])

LEMMA UsedIsPadded ==
    ASSUME NEW i \in DOMAIN Buffers
    PROVE  Used(i) \subseteq Padded(i) /\ Padded(i) \subseteq Nat
<1> DEFINE raw == Buffers[i][1]
           al  == Buffers[i][2]
           sz  == Buffers[i][3]
<1>0. raw \in Nat /\ al \in Nat /\ sz \in Nat BY BufferAssumption
<1> HIDE DEF raw, al, sz
<1>1. LayoutOK(raw, al, sz) BY <1>0, LayoutSound
<1>2. Aligned(raw, al) \in Nat /\ EffSize(al, sz) \in Nat BY <1>0, Parts
<1>3. Used(i) \subseteq Padded(i) BY <1>1 DEF LayoutOK, Used, Padded, RangeAddr, raw, al, sz
<1>4. Padded(i) \subseteq Nat BY <1>2 DEF Padded, Buffer, Extent, raw, al, sz
<1>q. QED BY <1>3, <1>4

LEMMA AddressesAreNat == Addresses \subseteq Nat
<1>1. Owned = UNION {Used(i) : i \in DOMAIN Buffers} BY DEF Owned, Used
<1>2. \A i \in DOMAIN Buffers : Used(i) \subseteq Nat BY UsedIsPadded
<1>3. Owned \subseteq Nat BY <1>1, <1>2
<1>q. QED BY <1>3, NeighbourAssumption DEF Addresses

LEMMA PaddedIsClosed ==
    ASSUME NEW i \in DOMAIN Buffers, NEW a \in Padded(i), NEW b \in Nat, LineOf(b) = LineOf(a)
    PROVE  b \in Padded(i)
<1>1. PICK x, n \in Nat : Padded(i) = Extent(x * Line, n * Line) BY PaddedLines
<1>q. QED BY <1>1, WholeLines

\* No line is shared by two buffers, or by a buffer and a neighbour.
LEMMA LinesApart ==
    ASSUME NEW i \in DOMAIN Buffers, NEW a \in Used(i), NEW b \in Addresses, LineOf(b) = LineOf(a)
    PROVE  b \in Used(i) /\ b \notin Neighbours
<1>1. b \in Padded(i) BY UsedIsPadded, PaddedIsClosed, AddressesAreNat
<1>2. b \notin Neighbours BY <1>1, NeighbourAssumption
<1>3. PICK j \in DOMAIN Buffers : b \in Used(j) BY <1>2 DEF Addresses, Owned, Used
<1>4. b \in Padded(j) BY <1>3, UsedIsPadded
<1>5. i = j BY <1>1, <1>4, BufferAssumption
<1>q. QED BY <1>2, <1>3, <1>5

LEMMA LineIsLine ==
    ASSUME NEW a \in Addresses
    PROVE  LineOf(a) \in Lines /\ a \in AddrsOf(LineOf(a))
BY DEF Lines, AddrsOf

LEMMA UsedIsAddress ==
    ASSUME NEW i \in DOMAIN Buffers
    PROVE  Used(i) \subseteq Owned /\ Used(i) \subseteq Addresses
BY DEF Owned, Used, Addresses

\* A batch has all of a buffer, or nothing.
LEMMA RangeIsUsed ==
    ASSUME TypeOK, NEW i \in DOMAIN Buffers
    PROVE  Range(i) = {} \/ Range(i) = Used(i)
<1> DEFINE r == RangeAddr(i)
<1>1. r \in Nat
  <2> DEFINE raw == Buffers[i][1]
             al  == Buffers[i][2]
  <2>1. raw \in Nat /\ al \in Nat BY BufferAssumption
  <2> HIDE DEF raw, al
  <2>2. Aligned(raw, al) \in Nat BY <2>1, Parts
  <2>q. QED BY <2>2 DEF RangeAddr, raw, al
<1>2. CASE len[i] = 0
  <2>1. Range(i) = r .. r + 0 - 1 BY <1>2 DEF Range, Extent
  <2>q. QED BY <1>1, <2>1
<1>3. CASE len[i] = Buffers[i][3] BY <1>3 DEF Range, Used
<1>q. QED BY <1>2, <1>3 DEF TypeOK

LEMMA RangeIsClosed ==
    ASSUME TypeOK, NEW i \in DOMAIN Buffers, NEW a \in Range(i),
           NEW b \in Addresses, LineOf(b) = LineOf(a)
    PROVE  b \in Range(i) /\ b \notin Neighbours
BY RangeIsUsed, LinesApart

LEMMA BatchParts ==
    ASSUME TypeOK
    PROVE  /\ \A i \in DOMAIN Buffers : Range(i) \subseteq Batch
           /\ \A a \in Batch : \E i \in DOMAIN Buffers : a \in Range(i)
           /\ Batch \subseteq Owned /\ Batch \subseteq Addresses
           /\ Batch \cap Neighbours = {}
<1>1. \A i \in DOMAIN Buffers : Range(i) \subseteq Batch BY DEF Batch
<1>2. \A a \in Batch : \E i \in DOMAIN Buffers : a \in Range(i) BY DEF Batch
<1>3. Batch \subseteq Owned /\ Batch \subseteq Addresses BY <1>2, RangeIsUsed, UsedIsAddress
<1>4. \A a \in Batch : a \notin Neighbours BY <1>2, <1>3, RangeIsClosed
<1>q. QED BY <1>1, <1>2, <1>3, <1>4

\* The driver has its buffers: nothing is in transfer.
LEMMA OwnBatch ==
    ASSUME TypeOK, len = NoBytes
    PROVE  Batch = {}
<1>1. ASSUME NEW i \in DOMAIN Buffers PROVE Range(i) = {}
  <2> DEFINE raw == Buffers[i][1]
             al  == Buffers[i][2]
             r   == RangeAddr(i)
  <2>1. raw \in Nat /\ al \in Nat BY BufferAssumption
  <2> HIDE DEF raw, al
  <2>2. Aligned(raw, al) \in Nat BY <2>1, Parts
  <2>3. r \in Nat BY <2>2 DEF RangeAddr, raw, al
  <2>4. len[i] = 0 BY DEF NoBytes
  <2> HIDE DEF r
  <2>5. Range(i) = r .. r + 0 - 1 BY <2>4 DEF Range, Extent, r
  <2>q. QED BY <2>3, <2>5
<1>q. QED BY <1>1 DEF Batch

BatchRule ==
    /\ \A i \in DOMAIN Buffers : Range(i) \subseteq Batch
    /\ \A a \in Batch : \E i \in DOMAIN Buffers : a \in Range(i)
    /\ Batch \subseteq Addresses
    /\ Batch \cap Neighbours = {}
    /\ len = NoBytes => Batch = {}

LEMMA BatchPartsNext == TypeOK' => BatchRule'
<1>1. TypeOK => BatchRule BY BatchParts, OwnBatch DEF BatchRule
<1>q. QED BY <1>1, PTL

LEMMA BatchIsClosed ==
    ASSUME TypeOK, NEW a \in Batch, NEW b \in Addresses, LineOf(b) = LineOf(a)
    PROVE  b \in Batch
BY BatchParts, RangeIsClosed

-----------------------------------------------------------------------------
(* What the cache does to an address. *)

\* An address reads as RAM has it, or as the one copy of its line has it.
ViewRule ==
    \A a \in Addresses :
       /\ cache[LineOf(a)] = {} => View(a) = ram[a] /\ ~Dirty(LineOf(a))
       /\ \A c \in cache[LineOf(a)] : View(a) = c.data[a] /\ (Dirty(LineOf(a)) <=> c.dirty)
       /\ View(a) \in Values

LEMMA ViewIs == MemoryOK => ViewRule
<1> SUFFICES ASSUME MemoryOK, NEW a \in Addresses
             PROVE  /\ cache[LineOf(a)] = {} => View(a) = ram[a] /\ ~Dirty(LineOf(a))
                    /\ \A c \in cache[LineOf(a)] :
                          View(a) = c.data[a] /\ (Dirty(LineOf(a)) <=> c.dirty)
                    /\ View(a) \in Values
  BY DEF ViewRule
<1> DEFINE l == LineOf(a)
<1>0. l \in Lines /\ a \in AddrsOf(l) BY LineIsLine
<1>1. cache[l] = {} => View(a) = ram[a] /\ ~Dirty(l) BY <1>0 DEF View, Seen, Dirty
<1>2. ASSUME NEW c \in cache[l] PROVE View(a) = c.data[a] /\ (Dirty(l) <=> c.dirty)
  <2>1. cache[l] = {c} BY <1>0, <1>2 DEF MemoryOK
  <2>2. (CHOOSE d \in cache[l] : TRUE) = c BY <2>1
  <2>3. cache[l] # {} BY <1>2
  <2>4. Seen(l) = c.data BY <2>2, <2>3 DEF Seen
  <2>5. Dirty(l) <=> c.dirty BY <2>1 DEF Dirty
  <2>q. QED BY <2>4, <2>5 DEF View
<1>3. View(a) \in Values
  <2>1. ram[a] \in Values BY DEF MemoryOK
  <2>2. \A c \in cache[l] : c.data[a] \in Values BY <1>0 DEF MemoryOK
  <2>q. QED BY <1>1, <1>2, <2>1, <2>2
<1>q. QED BY <1>1, <1>2, <1>3

LEMMA ViewIsNext == MemoryOK' => ViewRule'
BY ViewIs, PTL

LEMMA SeenIs ==
    ASSUME MemoryOK, NEW l \in Lines
    PROVE  Seen(l) \in [AddrsOf(l) -> Values] /\ \A a \in AddrsOf(l) : Seen(l)[a] = View(a)
<1>1. CASE cache[l] = {}
  <2>1. Seen(l) = [a \in AddrsOf(l) |-> ram[a]] BY <1>1 DEF Seen
  <2>2. Seen(l) \in [AddrsOf(l) -> Values] BY <2>1 DEF AddrsOf, MemoryOK
  <2>q. QED BY <2>2 DEF View, AddrsOf
<1>2. CASE cache[l] # {}
  <2>1. PICK c \in cache[l] : TRUE BY <1>2
  <2>2. cache[l] = {c} /\ c.data \in [AddrsOf(l) -> Values] BY <2>1 DEF MemoryOK
  <2>3. (CHOOSE d \in cache[l] : TRUE) = c BY <2>2
  <2>4. Seen(l) = c.data BY <1>2, <2>3 DEF Seen
  <2>q. QED BY <2>2, <2>4 DEF View, AddrsOf
<1>q. QED BY <1>1, <1>2

\* A line that an operation leaves alone.
LEMMA Untouched ==
    ASSUME MemoryOK, MemoryOK', NEW a \in Addresses,
           cache'[LineOf(a)] = cache[LineOf(a)], ram'[a] = ram[a]
    PROVE  View(a)' = View(a) /\ (Dirty(LineOf(a))' <=> Dirty(LineOf(a)))
<1>1. ViewRule /\ ViewRule' BY ViewIs, ViewIsNext
<1>2. CASE cache[LineOf(a)] = {} BY <1>1, <1>2 DEF ViewRule
<1>3. CASE cache[LineOf(a)] # {}
  <2>1. PICK c \in cache[LineOf(a)] : TRUE BY <1>3
  <2>q. QED BY <1>1, <2>1 DEF ViewRule
<1>q. QED BY <1>2, <1>3

\* After Store(b, v).
LEMMA StoreEffect ==
    ASSUME MemoryOK, NEW b \in Addresses, NEW v \in Values, Store(b, v), UNCHANGED ram
    PROVE  /\ MemoryOK'
           /\ \A a \in Addresses :
                 IF LineOf(a) = LineOf(b)
                   THEN View(a)' = (IF a = b THEN v ELSE View(a)) /\ Dirty(LineOf(a))'
                   ELSE View(a)' = View(a) /\ (Dirty(LineOf(a))' <=> Dirty(LineOf(a)))
<1> DEFINE l == LineOf(b)
           new == [data |-> [Seen(l) EXCEPT ![b] = v], dirty |-> TRUE]
<1>0. l \in Lines /\ b \in AddrsOf(l) BY LineIsLine
<1>1. Seen(l) \in [AddrsOf(l) -> Values] /\ \A a \in AddrsOf(l) : Seen(l)[a] = View(a)
  BY <1>0, SeenIs
<1>2. new \in [data : [AddrsOf(l) -> Values], dirty : BOOLEAN] BY <1>1
<1>3. cache' = [cache EXCEPT ![l] = {new}] BY DEF Store
<1>4. new.dirty /\ \A a \in AddrsOf(l) : new.data[a] = IF a = b THEN v ELSE View(a)
  BY <1>0, <1>1
<1> HIDE DEF new
<1>5. MemoryOK' BY <1>0, <1>2, <1>3 DEF MemoryOK
<1>6. cache'[l] = {new} /\ \A k \in Lines : k # l => cache'[k] = cache[k]
  BY <1>0, <1>3 DEF MemoryOK
<1>7. ViewRule' BY <1>5, ViewIsNext
<1>8. ASSUME NEW a \in Addresses, LineOf(a) = l
      PROVE  View(a)' = (IF a = b THEN v ELSE View(a)) /\ Dirty(LineOf(a))'
  <2>1. a \in AddrsOf(l) BY <1>8 DEF AddrsOf
  <2>2. new \in cache'[LineOf(a)] BY <1>6, <1>8
  <2>3. View(a)' = new.data[a] /\ (Dirty(LineOf(a))' <=> new.dirty) BY <1>7, <2>2 DEF ViewRule
  <2>q. QED BY <1>4, <2>1, <2>3
<1>9. ASSUME NEW a \in Addresses, LineOf(a) # l
      PROVE  View(a)' = View(a) /\ (Dirty(LineOf(a))' <=> Dirty(LineOf(a)))
  BY <1>5, <1>6, <1>9, LineIsLine, Untouched
<1>q. QED BY <1>5, <1>8, <1>9

\* After LineOp(kind, l): what was dirty is in RAM, unless it was dropped, and
\* what is left in the cache is clean.
WrittenBack(kind, a) == IF kind # "inv" /\ Dirty(LineOf(a)) THEN View(a) ELSE ram[a]

LEMMA LineOpRam ==
    ASSUME MemoryOK, NEW kind \in {"clean", "cleaninv", "inv"}, NEW l \in Lines, LineOp(kind, l)
    PROVE  /\ ram' \in [Addresses -> Values]
           /\ \A a \in Addresses :
                 ram'[a] = IF LineOf(a) = l THEN WrittenBack(kind, a) ELSE ram[a]
<1>1. CASE kind # "inv" /\ Dirty(l)
  <2>1. ram' = [a \in Addresses |-> IF LineOf(a) = l THEN View(a) ELSE ram[a]]
    BY <1>1 DEF LineOp, WriteBack
  <2>2. \A a \in Addresses : View(a) \in Values /\ ram[a] \in Values
    BY ViewIs DEF ViewRule, MemoryOK
  <2>q. QED BY <1>1, <2>1, <2>2 DEF WrittenBack
<1>2. CASE ~(kind # "inv" /\ Dirty(l))
  <2>1. ram' = ram BY <1>2 DEF LineOp
  <2>q. QED BY <1>2, <2>1 DEF WrittenBack, MemoryOK
<1>q. QED BY <1>1, <1>2

LEMMA LineOpCache ==
    ASSUME MemoryOK, NEW kind \in {"clean", "cleaninv", "inv"}, NEW l \in Lines, LineOp(kind, l)
    PROVE  /\ cache' = [k \in Lines |-> cache'[k]]
           /\ \A k \in Lines : k # l => cache'[k] = cache[k]
           /\ kind # "clean" => cache'[l] = {}
           /\ kind = "clean" => cache'[l] = {[c EXCEPT !.dirty = FALSE] : c \in cache[l]}
<1>1. cache' = [cache EXCEPT ![l] = IF kind = "clean" THEN {[c EXCEPT !.dirty = FALSE] : c \in cache[l]} ELSE {}]
  BY DEF LineOp
<1>q. QED BY <1>1 DEF MemoryOK

LEMMA LineOpMemory ==
    ASSUME MemoryOK, NEW kind \in {"clean", "cleaninv", "inv"}, NEW l \in Lines, LineOp(kind, l)
    PROVE  MemoryOK'
<1>1. ASSUME NEW k \in Lines, NEW c \in cache'[k]
      PROVE  c \in [data : [AddrsOf(k) -> Values], dirty : BOOLEAN] /\ cache'[k] = {c}
  <2>1. CASE k # l BY <1>1, <2>1, LineOpCache DEF MemoryOK
  <2>2. CASE k = l
    <3>1. kind = "clean" /\ cache'[l] = {[d EXCEPT !.dirty = FALSE] : d \in cache[l]}
      BY <1>1, <2>2, LineOpCache
    <3>2. PICK d \in cache[l] : c = [d EXCEPT !.dirty = FALSE] BY <1>1, <2>2, <3>1
    <3>3. d \in [data : [AddrsOf(l) -> Values], dirty : BOOLEAN] /\ cache[l] = {d}
      BY <3>2 DEF MemoryOK
    <3>q. QED BY <2>2, <3>1, <3>2, <3>3
  <2>q. QED BY <2>1, <2>2
<1>q. QED BY <1>1, LineOpRam, LineOpCache DEF MemoryOK

LEMMA LineOpEffect ==
    ASSUME MemoryOK, NEW kind \in {"clean", "cleaninv", "inv"}, NEW l \in Lines, LineOp(kind, l),
           NEW a \in Addresses
    PROVE  IF LineOf(a) = l
             THEN /\ ~Dirty(LineOf(a))' /\ ram'[a] = WrittenBack(kind, a)
                  /\ View(a)' = IF kind = "clean" THEN View(a) ELSE ram'[a]
             ELSE /\ View(a)' = View(a) /\ (Dirty(LineOf(a))' <=> Dirty(LineOf(a)))
                  /\ ram'[a] = ram[a]
<1>0. MemoryOK' /\ ViewRule /\ ViewRule' BY LineOpMemory, ViewIs, ViewIsNext
<1>1. ram'[a] = IF LineOf(a) = l THEN WrittenBack(kind, a) ELSE ram[a] BY LineOpRam
<1>2. CASE LineOf(a) # l
  <2>1. cache'[LineOf(a)] = cache[LineOf(a)] BY <1>2, LineOpCache, LineIsLine
  <2>q. QED BY <1>0, <1>1, <1>2, <2>1, Untouched
<1>3. CASE LineOf(a) = l /\ kind # "clean"
  <2>1. cache'[LineOf(a)] = {} BY <1>3, LineOpCache
  <2>q. QED BY <1>0, <1>1, <1>3, <2>1 DEF ViewRule
<1>4. CASE LineOf(a) = l /\ kind = "clean" /\ cache[l] = {}
  <2>1. cache'[LineOf(a)] = {} BY <1>4, LineOpCache
  <2>2. ~Dirty(LineOf(a)) /\ View(a) = ram[a] BY <1>0, <1>4 DEF ViewRule
  <2>3. ~Dirty(LineOf(a))' /\ View(a)' = ram'[a] BY <1>0, <2>1 DEF ViewRule
  <2>q. QED BY <1>1, <1>4, <2>2, <2>3 DEF WrittenBack
<1>5. CASE LineOf(a) = l /\ kind = "clean" /\ cache[l] # {}
  <2>1. PICK c \in cache[l] : TRUE BY <1>5
  <2>2. c \in [data : [AddrsOf(l) -> Values], dirty : BOOLEAN] BY <2>1 DEF MemoryOK
  <2> DEFINE d == [c EXCEPT !.dirty = FALSE]
  <2>3. d \in cache'[l] BY <1>5, <2>1, LineOpCache
  <2>4. d.data = c.data /\ ~d.dirty BY <2>2
  <2> HIDE DEF d
  <2>5. View(a) = c.data[a] BY <1>0, <1>5, <2>1 DEF ViewRule
  <2>6. View(a)' = d.data[a] /\ (Dirty(LineOf(a))' <=> d.dirty) BY <1>0, <1>5, <2>3 DEF ViewRule
  <2>q. QED BY <1>1, <1>5, <2>4, <2>5, <2>6
<1>q. QED BY <1>2, <1>3, <1>4, <1>5

LEMMA FetchEffect ==
    ASSUME MemoryOK, NEW l \in Lines, Fetch(l)
    PROVE  /\ MemoryOK'
           /\ \A a \in Addresses : View(a)' = View(a) /\ (Dirty(LineOf(a))' <=> Dirty(LineOf(a)))
<1> DEFINE new == [data |-> Seen(l), dirty |-> FALSE]
<1>1. Seen(l) \in [AddrsOf(l) -> Values] /\ \A a \in AddrsOf(l) : Seen(l)[a] = View(a)
  BY SeenIs
<1>2. new \in [data : [AddrsOf(l) -> Values], dirty : BOOLEAN] BY <1>1
<1>3. cache' = [cache EXCEPT ![l] = {new}] /\ ram' = ram /\ cache[l] = {} BY DEF Fetch
<1>4. ~new.dirty /\ \A a \in AddrsOf(l) : new.data[a] = View(a) BY <1>1
<1> HIDE DEF new
<1>5. MemoryOK' BY <1>2, <1>3 DEF MemoryOK
<1>6. cache'[l] = {new} /\ \A k \in Lines : k # l => cache'[k] = cache[k]
  BY <1>3 DEF MemoryOK
<1>7. ViewRule /\ ViewRule' BY <1>5, ViewIs, ViewIsNext
<1>8. ASSUME NEW a \in Addresses, LineOf(a) = l
      PROVE  View(a)' = View(a) /\ (Dirty(LineOf(a))' <=> Dirty(LineOf(a)))
  <2>1. a \in AddrsOf(l) BY <1>8 DEF AddrsOf
  <2>2. new \in cache'[LineOf(a)] BY <1>6, <1>8
  <2>3. View(a)' = new.data[a] /\ (Dirty(LineOf(a))' <=> new.dirty) BY <1>7, <2>2 DEF ViewRule
  <2>4. ~Dirty(LineOf(a)) BY <1>3, <1>7, <1>8 DEF ViewRule
  <2>q. QED BY <1>4, <2>1, <2>3, <2>4
<1>9. ASSUME NEW a \in Addresses, LineOf(a) # l
      PROVE  View(a)' = View(a) /\ (Dirty(LineOf(a))' <=> Dirty(LineOf(a)))
  BY <1>3, <1>5, <1>6, <1>9, LineIsLine, Untouched
<1>q. QED BY <1>5, <1>8, <1>9

\* The device writes to RAM, whatever the cache holds of the line.
LEMMA RamEffect ==
    ASSUME MemoryOK, NEW b \in Addresses, NEW v \in Values,
           ram' = [ram EXCEPT ![b] = v], UNCHANGED cache
    PROVE  /\ MemoryOK'
           /\ \A a \in Addresses :
                 /\ Dirty(LineOf(a))' <=> Dirty(LineOf(a))
                 /\ a # b => ram'[a] = ram[a] /\ View(a)' = View(a)
           /\ ram'[b] = v
<1>1. MemoryOK' BY DEF MemoryOK
<1>2. ram'[b] = v /\ \A a \in Addresses : a # b => ram'[a] = ram[a] BY DEF MemoryOK
<1>3. ASSUME NEW a \in Addresses PROVE Dirty(LineOf(a))' <=> Dirty(LineOf(a)) BY DEF Dirty
<1>4. ASSUME NEW a \in Addresses, a # b PROVE View(a)' = View(a) BY <1>1, <1>2, <1>4, Untouched
<1>q. QED BY <1>1, <1>2, <1>3, <1>4

-----------------------------------------------------------------------------
(* The steps keep the invariant. *)

\* An operation on a line that is not in the transfer is an eviction, which loses
\* nothing; one on a line that is does what the transfer's direction allows.
LEMMA LineOpKeeps ==
    ASSUME IndInv, NEW kind \in {"clean", "cleaninv", "inv"}, NEW l \in Lines, LineOp(kind, l),
           kind = "cleaninv" \/ \E op \in pending : op[1] = kind /\ op[2] = l,
           pending' \subseteq pending, \A op \in pending : op \in pending' \/ op[2] = l,
           UNCHANGED <<build, last, pc, transfer, next>>
    PROVE  IndInv'
<1>0. TypeOK /\ MemoryOK BY DEF IndInv, TypeOK
<1>1. /\ Batch' = Batch /\ Issued' = Issued /\ (Giving' <=> Giving) /\ (Taking' <=> Taking)
      /\ (DeviceWrites' <=> DeviceWrites)
      /\ \A i : Range(i)' = Range(i)
  BY DEF Batch, Range, Issued, Giving, Taking, DeviceWrites, transfer
<1>2. TypeOK' BY <1>0, LineOpMemory DEF TypeOK, transfer, build
<1>3. WhereInv' BY DEF IndInv, WhereInv, transfer, build
<1>4. PendingInv' BY <1>1 DEF IndInv, PendingInv, transfer
\* Off the line, nothing; on the line, nothing is dirty any more, and what was
\* clean in RAM's image stays so.
<1>5. ASSUME NEW a \in Addresses, LineOf(a) # l
      PROVE  /\ (Fresh(a) => Fresh(a)') /\ (Reads(a) => Reads(a)') /\ (Stored(a) => Stored(a)')
             /\ (~Dirty(LineOf(a)) => ~Dirty(LineOf(a))') /\ View(a)' = View(a)
             /\ (Idle(a)' => Idle(a))
  BY <1>0, <1>5, LineOpEffect DEF Fresh, Reads, Stored, Idle
<1>6. ASSUME NEW a \in Addresses, LineOf(a) = l
      PROVE  /\ ~Dirty(LineOf(a))'
             /\ (kind # "clean" => Fresh(a)')
             /\ (kind # "inv" /\ Fresh(a) => Fresh(a)' /\ View(a)' = View(a))
             /\ (kind # "inv" /\ Fresh(a) /\ Reads(a) => Reads(a)')
             /\ (~Dirty(LineOf(a)) /\ Stored(a) => Stored(a)')
  BY <1>0, <1>6, LineOpEffect DEF Fresh, Reads, Stored, WrittenBack
<1>7. ASSUME NEW a \in Addresses \ Batch
      PROVE  Fresh(a)' /\ Reads(a)' /\ View(a)' = View(a)
  <2>1. Fresh(a) /\ Reads(a) BY DEF IndInv, OutsideInv
  <2>2. LineOf(a) = l => kind = "cleaninv" BY <1>0, BatchIsClosed DEF IndInv, PendingInv
  <2>q. QED BY <1>5, <1>6, <2>1, <2>2
<1>8. OutsideInv' BY <1>1, <1>7 DEF OutsideInv
<1>9. NeighbourKept'
  <2>1. ASSUME NEW a \in Neighbours PROVE View(a)' = last'[a]
    <3>1. a \in Addresses \ Batch BY <1>0, BatchParts DEF Addresses
    <3>q. QED BY <1>7, <3>1 DEF IndInv, NeighbourKept
  <2>q. QED BY <2>1 DEF NeighbourKept
<1>10. GivingInv'
  <2> SUFFICES ASSUME Giving, NEW i \in DOMAIN Buffers, NEW a \in Range(i)
               PROVE  /\ Fresh(a)' /\ Reads(a)'
                      /\ dir = {"WriteToRAM"} => last[a] = Any
                      /\ i \in Issued /\ Idle(a)' => ~Dirty(LineOf(a))'
    BY <1>1 DEF GivingInv, transfer
  <2>1. /\ Fresh(a) /\ Reads(a) /\ (dir = {"WriteToRAM"} => last[a] = Any)
        /\ i \in Issued /\ Idle(a) => ~Dirty(LineOf(a))
    BY DEF IndInv, GivingInv
  <2>2. a \in Addresses BY <1>0, BatchParts
  <2>3. CASE LineOf(a) # l BY <1>5, <2>1, <2>2, <2>3
  <2>4. CASE LineOf(a) = l /\ kind = "inv"
    <3>1. last'[a] = Any BY <2>1, <2>4 DEF IndInv, PendingInv
    <3>q. QED BY <1>6, <2>1, <2>2, <2>4, <3>1 DEF Reads
  <2>5. CASE LineOf(a) = l /\ kind # "inv" BY <1>6, <2>1, <2>2, <2>5
  <2>q. QED BY <2>3, <2>4, <2>5
<1>11. ArmedInv'
  <2> SUFFICES ASSUME pc = "armed", NEW a \in Batch
               PROVE  ~Dirty(LineOf(a))' /\ Stored(a)' /\ (~DeviceWrites => Fresh(a)')
    BY <1>1 DEF ArmedInv
  <2>1. ~Dirty(LineOf(a)) /\ Stored(a) /\ (~DeviceWrites => Fresh(a)) BY DEF IndInv, ArmedInv
  <2>2. kind = "cleaninv" BY DEF IndInv, PendingInv, Giving, Taking
  <2>3. a \in Addresses BY <1>0, BatchParts
  <2>q. QED BY <1>5, <1>6, <2>1, <2>2, <2>3
<1>12. TakingInv'
  <2> SUFFICES ASSUME Taking, NEW i \in DOMAIN Buffers, NEW a \in Range(i)
               PROVE  ~Dirty(LineOf(a))' /\ Stored(a)' /\ (i \in Issued /\ Idle(a)' => Fresh(a)')
    BY <1>1 DEF TakingInv
  <2>1. ~Dirty(LineOf(a)) /\ Stored(a) /\ (i \in Issued /\ Idle(a) => Fresh(a))
    BY DEF IndInv, TakingInv
  <2>2. kind # "clean" BY DEF IndInv, PendingInv
  <2>3. a \in Addresses BY <1>0, BatchParts
  <2>q. QED BY <1>5, <1>6, <2>1, <2>2, <2>3
<1>q. QED BY <1>2, <1>3, <1>4, <1>8, <1>9, <1>10, <1>11, <1>12 DEF IndInv

LEMMA EvictKeeps ==
    ASSUME IndInv, NEW l \in Lines, Evict(l)
    PROVE  IndInv'
<1>1. LineOp("cleaninv", l) /\ pending' = pending /\ UNCHANGED <<build, last, pc, transfer, next>>
  BY DEF Evict
<1>q. QED BY <1>1, LineOpKeeps

LEMMA CompleteKeeps ==
    ASSUME IndInv, Complete
    PROVE  IndInv'
<1>1. PICK op \in pending : LineOp(op[1], op[2]) /\ pending' = pending \ {op} BY DEF Complete
<1>2. op[1] \in {"clean", "cleaninv", "inv"} /\ op[2] \in Lines
  BY BatchParts, LineIsLine DEF IndInv, PendingInv
<1>3. UNCHANGED <<build, last, pc, transfer, next>> BY DEF Complete
<1>q. QED BY <1>1, <1>2, <1>3, LineOpKeeps

LEMMA FetchKeeps ==
    ASSUME IndInv, NEW l \in Lines, Fetch(l)
    PROVE  IndInv'
<1>0. TypeOK /\ MemoryOK BY DEF IndInv, TypeOK
<1>1. /\ Batch' = Batch /\ Issued' = Issued /\ (Giving' <=> Giving) /\ (Taking' <=> Taking)
      /\ (DeviceWrites' <=> DeviceWrites)
      /\ \A i : Range(i)' = Range(i)
  BY DEF Fetch, Batch, Range, Issued, Giving, Taking, DeviceWrites, transfer
<1>2. TypeOK' BY <1>0, FetchEffect DEF Fetch, TypeOK, transfer, build
<1>3. WhereInv' BY DEF Fetch, IndInv, WhereInv, transfer, build
<1>4. PendingInv' BY <1>1 DEF Fetch, IndInv, PendingInv, transfer
<1>5. ASSUME NEW a \in Addresses
      PROVE  /\ (Fresh(a)' <=> Fresh(a)) /\ (Reads(a)' <=> Reads(a)) /\ (Stored(a)' <=> Stored(a))
             /\ (Dirty(LineOf(a))' <=> Dirty(LineOf(a))) /\ View(a)' = View(a)
             /\ (Idle(a)' <=> Idle(a))
  BY <1>0, FetchEffect DEF Fetch, Fresh, Reads, Stored, Idle
<1>6. \A i \in DOMAIN Buffers : Range(i) \subseteq Addresses BY <1>0, BatchParts
<1>7. dir' = dir /\ pc' = pc /\ last' = last BY DEF Fetch, transfer
<1>8. OutsideInv' BY <1>1, <1>5 DEF IndInv, OutsideInv
<1>9. NeighbourKept' BY <1>5, <1>7 DEF IndInv, NeighbourKept, Addresses
<1>10. GivingInv' BY <1>1, <1>5, <1>6, <1>7 DEF IndInv, GivingInv
<1>11. ArmedInv' BY <1>0, <1>1, <1>5, <1>7, BatchParts DEF IndInv, ArmedInv
<1>12. TakingInv' BY <1>1, <1>5, <1>6, <1>7 DEF IndInv, TakingInv
<1>q. QED BY <1>2, <1>3, <1>4, <1>8, <1>9, <1>10, <1>11, <1>12 DEF IndInv

\* A store to an address that is not in the transfer: no more is its line.
LEMMA StoreKeeps ==
    ASSUME IndInv, NEW b \in Addresses \ Batch, NEW v \in Values, Store(b, v),
           UNCHANGED <<build, ram, pc, transfer, next, pending>>
    PROVE  IndInv'
<1>0. TypeOK /\ MemoryOK BY DEF IndInv, TypeOK
<1>1. /\ Batch' = Batch /\ Issued' = Issued /\ (Giving' <=> Giving) /\ (Taking' <=> Taking)
      /\ (DeviceWrites' <=> DeviceWrites)
      /\ \A i : Range(i)' = Range(i)
  BY DEF Batch, Range, Issued, Giving, Taking, DeviceWrites, transfer
<1>2. last' = [last EXCEPT ![b] = v] BY DEF Store
<1>3. TypeOK' BY <1>0, <1>2, StoreEffect DEF TypeOK, transfer, build
<1>4. WhereInv' BY DEF IndInv, WhereInv, transfer, build
<1>5. PendingInv' BY <1>1 DEF IndInv, PendingInv, transfer
<1>6. last'[b] = v /\ \A a \in Addresses : a # b => last'[a] = last[a]
  BY <1>0, <1>2 DEF TypeOK
<1>7. ASSUME NEW a \in Addresses, LineOf(a) # LineOf(b)
      PROVE  /\ (Fresh(a)' <=> Fresh(a)) /\ (Reads(a)' <=> Reads(a)) /\ (Stored(a)' <=> Stored(a))
             /\ (Dirty(LineOf(a))' <=> Dirty(LineOf(a))) /\ View(a)' = View(a)
             /\ (Idle(a)' <=> Idle(a)) /\ last'[a] = last[a]
  BY <1>0, <1>6, <1>7, StoreEffect DEF Fresh, Reads, Stored, Idle
<1>8. ASSUME NEW a \in Addresses, LineOf(a) = LineOf(b)
      PROVE  /\ Fresh(a)' /\ (Reads(a) => Reads(a)')
             /\ View(a)' = last'[a] \/ (View(a)' = View(a) /\ last'[a] = last[a])
  BY <1>0, <1>6, <1>8, StoreEffect DEF Fresh, Reads
<1>9. ASSUME NEW a \in Batch PROVE a \in Addresses /\ LineOf(a) # LineOf(b)
  BY <1>0, BatchParts, BatchIsClosed
<1>10. \A i \in DOMAIN Buffers : Range(i) \subseteq Batch BY <1>0, BatchParts
<1>11. dir' = dir /\ pc' = pc BY DEF transfer
<1>12. OutsideInv' BY <1>1, <1>7, <1>8 DEF IndInv, OutsideInv
<1>13. NeighbourKept' BY <1>7, <1>8 DEF IndInv, NeighbourKept, Addresses
<1>14. GivingInv' BY <1>1, <1>7, <1>9, <1>10, <1>11 DEF IndInv, GivingInv
<1>15. ArmedInv' BY <1>1, <1>7, <1>9, <1>11 DEF IndInv, ArmedInv
<1>16. TakingInv' BY <1>1, <1>7, <1>9, <1>10, <1>11 DEF IndInv, TakingInv
<1>q. QED BY <1>3, <1>4, <1>5, <1>12, <1>13, <1>14, <1>15, <1>16 DEF IndInv

LEMMA FillKeeps ==
    ASSUME IndInv, Fill
    PROVE  IndInv'
<1>1. PICK a \in Owned, v \in Values : Store(a, v) BY DEF Fill
<1>2. Batch = {} BY OwnBatch DEF IndInv, WhereInv, Fill
<1>3. UNCHANGED <<build, ram, pc, transfer, next, pending>> BY DEF Fill
<1>q. QED BY <1>1, <1>2, <1>3, StoreKeeps DEF Addresses

LEMMA NeighbourStoreKeeps ==
    ASSUME IndInv, NeighbourStore
    PROVE  IndInv'
<1>1. PICK a \in Neighbours, v \in Values : Store(a, v) BY DEF NeighbourStore
<1>2. a \in Addresses \ Batch BY BatchParts DEF IndInv, Addresses
<1>3. UNCHANGED <<build, ram, pc, transfer, next, pending>> BY DEF NeighbourStore
<1>q. QED BY <1>1, <1>2, <1>3, StoreKeeps

\* Steps that leave RAM and the cache alone.
LEMMA Still ==
    ASSUME MemoryOK, UNCHANGED <<ram, cache>>
    PROVE  /\ MemoryOK'
           /\ \A a \in Addresses :
                 /\ View(a)' = View(a) /\ (Dirty(LineOf(a))' <=> Dirty(LineOf(a)))
                 /\ Fresh(a)' <=> Fresh(a)
<1>1. MemoryOK' BY DEF MemoryOK
<1>2. ASSUME NEW a \in Addresses
      PROVE  View(a)' = View(a) /\ (Dirty(LineOf(a))' <=> Dirty(LineOf(a)))
  BY <1>1, Untouched
<1>q. QED BY <1>1, <1>2 DEF Fresh

LEMMA LengthsAre ==
    ASSUME NEW n \in Lengths
    PROVE  /\ n \in [DOMAIN Buffers -> Nat] /\ 1 \in DOMAIN Buffers
           /\ \A i \in DOMAIN Buffers : n[i] \in {0, Buffers[i][3]}
<1>1. /\ n \in [DOMAIN Buffers -> 0 .. MaxSize] /\ n # NoBytes
      /\ \A i \in DOMAIN Buffers : n[i] \in {0, Buffers[i][3]}
  BY DEF Lengths
<1>2. \A i \in DOMAIN Buffers : Buffers[i][3] \in Nat BY BufferAssumption
<1>3. n \in [DOMAIN Buffers -> Nat] BY <1>1, <1>2
<1>4. DOMAIN Buffers # {} BY <1>1 DEF NoBytes
<1>5. Len(Buffers) \in Nat /\ DOMAIN Buffers = 1 .. Len(Buffers) BY BufferAssumption
<1>6. 1 \in DOMAIN Buffers BY <1>4, <1>5
<1>q. QED BY <1>1, <1>3, <1>6

\* Everything was outside the transfer that begins.
LEMMA StartKeeps ==
    ASSUME IndInv, Start
    PROVE  IndInv'
<1>0. TypeOK /\ MemoryOK /\ pc = "own" /\ pc' = "pre" /\ pending' = {} /\ next' = 1
  BY DEF IndInv, TypeOK, Start, WhereInv, PendingInv, Giving, Taking
<1>1. Batch = {} BY <1>0, OwnBatch DEF IndInv, WhereInv
<1>2. last' \in [Addresses -> Values \cup {Any}] BY <1>0 DEF Start, TypeOK
<1>3. TypeOK' BY <1>0, <1>2, Still, LengthsAre DEF Start, TypeOK, build
<1>4. BatchRule' BY <1>3, BatchPartsNext
<1>5. WhereInv' BY <1>0, LengthsAre DEF Start, WhereInv, build
<1>6. PendingInv' BY <1>0 DEF PendingInv
<1>7. \A a \in Addresses : Fresh(a) /\ Reads(a) BY <1>1 DEF IndInv, OutsideInv
<1>8. \A a \in Addresses : Fresh(a)' /\ View(a)' = View(a) BY <1>0, <1>7, Still DEF Start
<1>9. \A a \in Addresses : last'[a] = IF dir' = {"WriteToRAM"} /\ a \in Batch' THEN Any ELSE last[a]
  BY DEF Start
<1>10. \A a \in Addresses : Reads(a)' BY <1>7, <1>8, <1>9 DEF Reads
<1>11. OutsideInv' BY <1>8, <1>10 DEF OutsideInv
<1>12. NeighbourKept' BY <1>4, <1>8, <1>9 DEF IndInv, NeighbourKept, BatchRule, Addresses
<1>13. Issued' = {} BY <1>0 DEF Issued
<1>14. GivingInv' BY <1>4, <1>8, <1>9, <1>10, <1>13 DEF GivingInv, BatchRule
<1>15. ArmedInv' /\ TakingInv' BY <1>0 DEF ArmedInv, TakingInv, Taking
<1>q. QED BY <1>3, <1>5, <1>6, <1>11, <1>12, <1>14, <1>15 DEF IndInv

\* A call on the next range of the batch: the last one waits for its operations,
\* because the batch ends with a range that is not empty or with a barrier.
LEMMA CallKeeps ==
    ASSUME IndInv, NEW ops, NEW from, NEW sync, NEW after, Call(ops, from, sync, after),
           (from = "pre" /\ sync = "armed_sync") \/ (from = "post" /\ sync = "own_sync"),
           \A a \in Range(next) : \E op \in ops : op[2] = LineOf(a),
           \A op \in ops : /\ op[1] \in {"clean", "cleaninv", "inv"}
                           /\ \E a \in Range(next) : op[2] = LineOf(a)
                           /\ from = "pre" /\ op[1] = "inv" => dir = {"WriteToRAM"}
                           /\ from = "post" => op[1] # "clean"
    PROVE  IndInv'
<1>0. /\ TypeOK /\ MemoryOK /\ pc = from
      /\ UNCHANGED <<lvo, barrier, ram, cache, last, dir, len>>
  BY DEF IndInv, TypeOK, Call, transfer, build
<1>1. /\ next \in DOMAIN Buffers /\ (barrier \/ len[Len(Buffers)] # 0)
      /\ Len(Buffers) \in Nat /\ DOMAIN Buffers = 1 .. Len(Buffers)
  BY <1>0, BufferAssumption DEF IndInv, WhereInv
<1>2. pc' = IF IsLast THEN sync ELSE from BY <1>1 DEF Call, IsLast
<1>3. next' = (IF IsLast THEN 1 ELSE next + 1) /\ next' \in DOMAIN Buffers
  BY <1>1 DEF Call, IsLast
<1>4. /\ Batch' = Batch /\ (Giving' <=> Giving) /\ (Taking' <=> Taking)
      /\ (DeviceWrites' <=> DeviceWrites)
      /\ \A i : Range(i)' = Range(i)
  BY <1>0, <1>2 DEF Batch, Range, Giving, Taking, DeviceWrites
<1>5. Issued' \subseteq Issued \cup {next}
  <2>1. Issued = 1 .. next - 1 BY <1>0 DEF Issued
  <2>2. CASE IsLast
    <3>1. Issued' = 1 .. next BY <1>1, <1>2, <2>2 DEF Issued, IsLast
    <3>q. QED BY <1>1, <2>1, <3>1
  <2>3. CASE ~IsLast
    <3>1. pc' \in {"pre", "post"} /\ next' = next + 1 BY <1>2, <1>3, <2>3
    <3>2. Issued' = 1 .. next' - 1 BY <3>1 DEF Issued
    <3>q. QED BY <1>1, <2>1, <3>1, <3>2
  <2>q. QED BY <2>2, <2>3
<1>6. TypeOK' BY <1>0, <1>2, Still DEF TypeOK
<1>7. WhereInv' BY <1>0, <1>1, <1>2, <1>3 DEF WhereInv
<1>8. pending' = pending \cup ops BY DEF Call
<1>9. PendingInv'
  <2>1. Giving' \/ Taking' BY <1>2 DEF Giving, Taking
  <2>2. (Giving => from = "pre") /\ (Taking => from = "post") BY <1>0 DEF Giving, Taking
  <2>3. Range(next) \subseteq Batch BY <1>0, <1>1, BatchParts
  <2>q. QED BY <1>0, <1>4, <1>8, <2>1, <2>2, <2>3 DEF IndInv, PendingInv
<1>10. ASSUME NEW a \in Addresses
       PROVE  /\ (Fresh(a)' <=> Fresh(a)) /\ (Reads(a)' <=> Reads(a)) /\ (Stored(a)' <=> Stored(a))
              /\ (Dirty(LineOf(a))' <=> Dirty(LineOf(a))) /\ View(a)' = View(a)
              /\ (Idle(a)' => Idle(a))
  BY <1>0, <1>8, Still DEF Reads, Stored, Idle
<1>11. ASSUME NEW i \in Issued', NEW a \in Range(i), Idle(a)' PROVE i \in Issued
  BY <1>5, <1>8, <1>11 DEF Idle
<1>12. \A i \in DOMAIN Buffers : Range(i) \subseteq Addresses BY <1>0, BatchParts
<1>13. OutsideInv' BY <1>4, <1>10 DEF IndInv, OutsideInv
<1>14. NeighbourKept' BY <1>0, <1>10 DEF IndInv, NeighbourKept, Addresses
<1>15. GivingInv' BY <1>0, <1>4, <1>10, <1>11, <1>12 DEF IndInv, GivingInv
<1>16. ArmedInv' BY <1>2 DEF ArmedInv
<1>17. TakingInv' BY <1>0, <1>4, <1>10, <1>11, <1>12 DEF IndInv, TakingInv
<1>q. QED BY <1>6, <1>7, <1>9, <1>13, <1>14, <1>15, <1>16, <1>17 DEF IndInv

LEMMA PreDmaKeeps ==
    ASSUME IndInv, PreDma
    PROVE  IndInv'
<1> DEFINE kind == IF lvo THEN LvoPreKind ELSE PreKind
<1>1. /\ kind \in {"clean", "cleaninv", "inv"}
      /\ kind = "inv" => dir = {"WriteToRAM"}
  BY DEF LvoPreKind, PreKind
<1> HIDE DEF kind
<1>2. PreOps(next) = {<<kind, l>> : l \in LinesIn(next)} BY DEF PreOps, Inline, kind
<1>3. ASSUME NEW a \in Range(next) PROVE \E op \in PreOps(next) : op[2] = LineOf(a)
  <2>1. <<kind, LineOf(a)>> \in PreOps(next) BY <1>2 DEF LinesIn
  <2>q. QED BY <2>1
<1>4. \A op \in PreOps(next) : op[1] = kind /\ \E a \in Range(next) : op[2] = LineOf(a)
  BY <1>2 DEF LinesIn
<1>5. Call(PreOps(next), "pre", "armed_sync", "armed") BY DEF PreDma
<1>q. QED BY <1>1, <1>3, <1>4, <1>5, CallKeeps

LEMMA PostDmaKeeps ==
    ASSUME IndInv, PostDma
    PROVE  IndInv'
<1> DEFINE kind(l) == IF lvo /\ ~Whole(l, next) THEN "cleaninv" ELSE "inv"
<1>0. PostOps(next) = {<<kind(l), l>> : l \in LinesIn(next)}
  <2>1. CASE lvo BY <2>1 DEF PostOps, LvoInv
  <2>2. CASE ~lvo BY <2>2 DEF PostOps, Inline
  <2>q. QED BY <2>1, <2>2
<1>1. \A l : kind(l) \in {"cleaninv", "inv"} OBVIOUS
<1> HIDE DEF kind
<1>2. ASSUME NEW a \in Range(next) PROVE \E op \in PostOps(next) : op[2] = LineOf(a)
  <2>1. <<kind(LineOf(a)), LineOf(a)>> \in PostOps(next) BY <1>0 DEF LinesIn
  <2>q. QED BY <2>1
<1>3. \A op \in PostOps(next) : /\ op[1] \in {"cleaninv", "inv"}
                                /\ \E a \in Range(next) : op[2] = LineOf(a)
  BY <1>0, <1>1 DEF LinesIn
<1>4. Call(PostOps(next), "post", "own_sync", "own") BY DEF PostDma
<1>q. QED BY <1>2, <1>3, <1>4, CallKeeps

\* The barrier: every operation of the batch was carried out.
LEMMA PreSyncedKeeps ==
    ASSUME IndInv, PreSynced
    PROVE  IndInv'
<1>0. /\ TypeOK /\ MemoryOK /\ pc = "armed_sync" /\ pc' = "armed" /\ pending = {}
      /\ UNCHANGED <<lvo, barrier, ram, cache, last, dir, len, next, pending>>
  BY DEF IndInv, TypeOK, PreSynced, Synced, transfer, build
<1>1. Batch' = Batch BY <1>0 DEF Batch, Range
<1>2. TypeOK' BY <1>0, Still DEF TypeOK
<1>3. WhereInv' /\ PendingInv' BY <1>0 DEF IndInv, WhereInv, PendingInv
<1>4. \A a \in Addresses : /\ View(a)' = View(a) /\ (Dirty(LineOf(a))' <=> Dirty(LineOf(a)))
                           /\ (Fresh(a)' <=> Fresh(a))
  BY <1>0, Still
<1>5. OutsideInv' BY <1>0, <1>1, <1>4 DEF IndInv, OutsideInv, Reads
<1>6. NeighbourKept' BY <1>0, <1>4 DEF IndInv, NeighbourKept, Addresses
<1>7. ArmedInv'
  <2> SUFFICES ASSUME NEW a \in Batch
               PROVE  ~Dirty(LineOf(a))' /\ Stored(a)' /\ Fresh(a)'
    BY <1>1 DEF ArmedInv
  <2>1. PICK i \in DOMAIN Buffers : a \in Range(i) BY <1>0, BatchParts
  <2>2. i \in Issued /\ Idle(a) /\ Giving BY <1>0 DEF Issued, Idle, Giving
  <2>3. Fresh(a) /\ Reads(a) /\ ~Dirty(LineOf(a)) BY <2>1, <2>2 DEF IndInv, GivingInv
  <2>4. a \in Addresses BY <1>0, BatchParts
  <2>q. QED BY <1>0, <1>4, <2>3, <2>4 DEF Fresh, Reads, Stored
<1>8. GivingInv' /\ TakingInv' BY <1>0 DEF GivingInv, TakingInv, Giving, Taking
<1>q. QED BY <1>2, <1>3, <1>5, <1>6, <1>7, <1>8 DEF IndInv

\* The driver has everything back: what was in the transfer reads as RAM has it.
LEMMA BackKeeps ==
    ASSUME IndInv, pc' = "own", Forget, pending = {}, next = 1,
           UNCHANGED <<lvo, barrier, ram, cache, last, next, pending>>,
           \A a \in Batch : ~Dirty(LineOf(a)) /\ Stored(a) /\ Fresh(a)
    PROVE  IndInv'
<1>0. TypeOK /\ MemoryOK BY DEF IndInv, TypeOK
<1>1. NoBytes \in [DOMAIN Buffers -> Nat] /\ \A i \in DOMAIN Buffers : NoBytes[i] = 0
  BY DEF NoBytes
<1>2. TypeOK' BY <1>0, <1>1, Still DEF TypeOK, Forget
<1>3. WhereInv' /\ PendingInv' BY DEF WhereInv, PendingInv, Forget
<1>4. \A a \in Addresses : View(a)' = View(a) /\ (Fresh(a)' <=> Fresh(a)) BY <1>0, Still
<1>5. ASSUME NEW a \in Addresses PROVE Fresh(a) /\ Reads(a)
  BY DEF IndInv, OutsideInv, Fresh, Reads, Stored
<1>6. OutsideInv' BY <1>4, <1>5 DEF OutsideInv, Reads
<1>7. NeighbourKept' BY <1>4 DEF IndInv, NeighbourKept, Addresses
<1>8. GivingInv' /\ ArmedInv' /\ TakingInv' BY DEF GivingInv, ArmedInv, TakingInv, Giving, Taking
<1>q. QED BY <1>2, <1>3, <1>6, <1>7, <1>8 DEF IndInv

LEMMA PostSyncedKeeps ==
    ASSUME IndInv, PostSynced
    PROVE  IndInv'
<1>0. /\ pc = "own_sync" /\ pc' = "own" /\ pending = {} /\ Forget
      /\ UNCHANGED <<lvo, barrier, ram, cache, last, next, pending>>
  BY DEF PostSynced, Synced, build
<1>1. next = 1 BY <1>0 DEF IndInv, WhereInv
<1>2. ASSUME NEW a \in Batch PROVE ~Dirty(LineOf(a)) /\ Stored(a) /\ Fresh(a)
  <2>1. PICK i \in DOMAIN Buffers : a \in Range(i) BY BatchParts DEF IndInv
  <2>2. i \in Issued /\ Idle(a) /\ Taking BY <1>0 DEF Issued, Idle, Taking
  <2>q. QED BY <2>1, <2>2 DEF IndInv, TakingInv
<1>q. QED BY <1>0, <1>1, <1>2, BackKeeps

LEMMA DeviceDoneKeeps ==
    ASSUME IndInv, DeviceDone
    PROVE  IndInv'
<1>0. /\ TypeOK /\ MemoryOK /\ pc = "armed" /\ pending = {} /\ next = 1
      /\ UNCHANGED <<lvo, barrier, ram, cache, last, next, pending>>
  BY DEF IndInv, TypeOK, DeviceDone, WhereInv, PendingInv, Giving, Taking, build
<1>1. CASE ~DeviceWrites
  <2>1. pc' = "own" /\ Forget BY <1>1 DEF DeviceDone
  <2>2. \A a \in Batch : ~Dirty(LineOf(a)) /\ Stored(a) /\ Fresh(a)
    BY <1>0, <1>1 DEF IndInv, ArmedInv
  <2>q. QED BY <1>0, <2>1, <2>2, BackKeeps
<1>2. CASE DeviceWrites
  <2>0. pc' = "post" /\ dir' = dir /\ len' = len BY <1>2 DEF DeviceDone, transfer
  <2>1. Batch' = Batch /\ \A i : Range(i)' = Range(i) BY <2>0 DEF Batch, Range
  <2>2. TypeOK' BY <1>0, <2>0, Still DEF TypeOK
  <2>3. WhereInv' /\ PendingInv' BY <1>0, <2>0 DEF IndInv, WhereInv, PendingInv
  <2>4. \A a \in Addresses : /\ View(a)' = View(a) /\ (Dirty(LineOf(a))' <=> Dirty(LineOf(a)))
                             /\ (Fresh(a)' <=> Fresh(a))
    BY <1>0, Still
  <2>5. OutsideInv' BY <1>0, <2>1, <2>4 DEF IndInv, OutsideInv, Reads
  <2>6. NeighbourKept' BY <1>0, <2>4 DEF IndInv, NeighbourKept, Addresses
  <2>7. Issued' = {} BY <1>0, <2>0 DEF Issued
  <2>8. \A a \in Batch : a \in Addresses /\ ~Dirty(LineOf(a)) /\ Stored(a)
    BY <1>0, BatchParts DEF IndInv, ArmedInv
  <2>9. \A i \in DOMAIN Buffers : Range(i) \subseteq Batch BY <1>0, BatchParts
  <2>10. TakingInv' BY <1>0, <2>1, <2>4, <2>7, <2>8, <2>9 DEF TakingInv, Stored
  <2>11. GivingInv' /\ ArmedInv' BY <2>0 DEF GivingInv, ArmedInv, Giving
  <2>q. QED BY <2>2, <2>3, <2>5, <2>6, <2>10, <2>11 DEF IndInv
<1>q. QED BY <1>1, <1>2

LEMMA DeviceWriteKeeps ==
    ASSUME IndInv, DeviceWrite
    PROVE  IndInv'
<1>0. /\ TypeOK /\ MemoryOK /\ pc = "armed" /\ DeviceWrites
      /\ UNCHANGED <<lvo, barrier, cache, pc, dir, len, next, pending>>
  BY DEF IndInv, TypeOK, DeviceWrite, build, transfer
<1>1. PICK b \in Batch, v \in Values :
         ram' = [ram EXCEPT ![b] = v] /\ last' = [last EXCEPT ![b] = v]
  BY DEF DeviceWrite
<1>2. b \in Addresses /\ b \notin Neighbours BY <1>0, BatchParts
<1>3. /\ MemoryOK' /\ ram'[b] = v
      /\ \A a \in Addresses : /\ (Dirty(LineOf(a))' <=> Dirty(LineOf(a)))
                              /\ a # b => ram'[a] = ram[a] /\ View(a)' = View(a)
  BY <1>0, <1>1, <1>2, RamEffect
<1>4. last'[b] = v /\ \A a \in Addresses : a # b => last'[a] = last[a]
  BY <1>0, <1>1, <1>2 DEF TypeOK
<1>5. Batch' = Batch /\ (DeviceWrites' <=> DeviceWrites) BY <1>0 DEF Batch, Range, DeviceWrites
<1>6. TypeOK' BY <1>0, <1>1, <1>2, <1>3 DEF TypeOK
<1>7. WhereInv' BY <1>0 DEF IndInv, WhereInv
<1>8. PendingInv' BY <1>0, <1>5 DEF IndInv, PendingInv, Giving, Taking
<1>9. OutsideInv' BY <1>3, <1>4, <1>5 DEF IndInv, OutsideInv, Fresh, Reads
<1>10. NeighbourKept' BY <1>2, <1>3, <1>4 DEF IndInv, NeighbourKept, Addresses
<1>11. ArmedInv'
  <2>1. ASSUME NEW a \in Batch PROVE ~Dirty(LineOf(a))' /\ Stored(a)'
    <3>1. a \in Addresses BY <1>0, BatchParts
    <3>2. ~Dirty(LineOf(a)) /\ Stored(a) BY <1>0 DEF IndInv, ArmedInv
    <3>q. QED BY <1>3, <1>4, <3>1, <3>2 DEF Stored
  <2>q. QED BY <1>0, <1>5, <2>1 DEF ArmedInv
<1>12. GivingInv' /\ TakingInv' BY <1>0 DEF GivingInv, TakingInv, Giving, Taking
<1>q. QED BY <1>6, <1>7, <1>8, <1>9, <1>10, <1>11, <1>12 DEF IndInv

-----------------------------------------------------------------------------
(* The theorems. *)

LEMMA InitHolds == Init => IndInv
<1> SUFFICES ASSUME Init PROVE IndInv OBVIOUS
<1>0. /\ pc = "own" /\ dir = {} /\ len = NoBytes /\ next = 1 /\ pending = {} /\ last = ram
      /\ barrier \in BOOLEAN /\ cache = [l \in Lines |-> {}]
      /\ ram = [a \in Addresses |-> CHOOSE v \in Values : TRUE]
  BY DEF Init
<1>1. (CHOOSE v \in Values : TRUE) \in Values BY NeighbourAssumption
<1>2. MemoryOK BY <1>0, <1>1 DEF MemoryOK
<1>3. NoBytes \in [DOMAIN Buffers -> Nat] /\ \A i \in DOMAIN Buffers : NoBytes[i] = 0
  BY DEF NoBytes
<1>4. last \in [Addresses -> Values \cup {Any}] BY <1>0, <1>1
<1>5. TypeOK BY <1>0, <1>2, <1>3, <1>4 DEF TypeOK
<1>6. \A a \in Addresses : View(a) = ram[a] BY <1>0, <1>2, ViewIs, LineIsLine DEF ViewRule
<1>7. WhereInv /\ PendingInv BY <1>0 DEF WhereInv, PendingInv
<1>8. OutsideInv BY <1>0, <1>6 DEF OutsideInv, Fresh, Reads
<1>9. NeighbourKept BY <1>0, <1>6 DEF NeighbourKept, Addresses
<1>10. GivingInv /\ ArmedInv /\ TakingInv BY <1>0 DEF GivingInv, ArmedInv, TakingInv, Giving, Taking
<1>q. QED BY <1>5, <1>7, <1>8, <1>9, <1>10 DEF IndInv

LEMMA StutterKeeps ==
    ASSUME IndInv, UNCHANGED vars
    PROVE  IndInv'
<1>0. /\ TypeOK /\ MemoryOK
      /\ UNCHANGED <<lvo, barrier, ram, cache, last, pc, dir, len, next, pending>>
  BY DEF IndInv, TypeOK, vars, build, transfer
<1>1. /\ Batch' = Batch /\ Issued' = Issued /\ (Giving' <=> Giving) /\ (Taking' <=> Taking)
      /\ (DeviceWrites' <=> DeviceWrites)
      /\ \A i : Range(i)' = Range(i)
  BY <1>0 DEF Batch, Range, Issued, Giving, Taking, DeviceWrites
<1>2. TypeOK' BY <1>0, Still DEF TypeOK
<1>3. WhereInv' BY <1>0 DEF IndInv, WhereInv
<1>4. PendingInv' BY <1>0, <1>1 DEF IndInv, PendingInv
<1>5. ASSUME NEW a \in Addresses
      PROVE  /\ (Fresh(a)' <=> Fresh(a)) /\ (Reads(a)' <=> Reads(a)) /\ (Stored(a)' <=> Stored(a))
             /\ (Dirty(LineOf(a))' <=> Dirty(LineOf(a))) /\ View(a)' = View(a)
             /\ (Idle(a)' <=> Idle(a))
  BY <1>0, Still DEF Reads, Stored, Idle
<1>6. \A i \in DOMAIN Buffers : Range(i) \subseteq Addresses BY <1>0, BatchParts
<1>7. OutsideInv' BY <1>1, <1>5 DEF IndInv, OutsideInv
<1>8. NeighbourKept' BY <1>0, <1>5 DEF IndInv, NeighbourKept, Addresses
<1>9. GivingInv' BY <1>0, <1>1, <1>5, <1>6 DEF IndInv, GivingInv
<1>10. ArmedInv' BY <1>0, <1>1, <1>5, BatchParts DEF IndInv, ArmedInv
<1>11. TakingInv' BY <1>1, <1>5, <1>6 DEF IndInv, TakingInv
<1>q. QED BY <1>2, <1>3, <1>4, <1>7, <1>8, <1>9, <1>10, <1>11 DEF IndInv

LEMMA StepKeeps == IndInv /\ [Next]_vars => IndInv'
BY EvictKeeps, CompleteKeeps, FetchKeeps, FillKeeps, NeighbourStoreKeeps, StartKeeps, PreDmaKeeps,
   PreSyncedKeeps, DeviceWriteKeeps, DeviceDoneKeeps, PostDmaKeeps, PostSyncedKeeps, StutterKeeps
   DEF Next

\* The inductive invariant holds of every behaviour: which addresses are where in
\* the transfer of cache_pre_dma() and cache_post_dma(), and what the cache may hold.
THEOREM Invariant == Spec => []IndInv
<1>1. Init => IndInv BY InitHolds
<1>2. IndInv /\ [Next]_vars => IndInv' BY StepKeeps
<1>q. QED BY <1>1, <1>2, PTL DEF Spec

\* After cache_post_dma() and its barrier, and whenever else the driver owns a
\* buffer, it reads what was written last, whatever line size, buffers, build
\* and batch pattern, and whatever the cache fetched or evicted meanwhile.
THEOREM DriverReadsBack == Spec => []CpuSeesDevice
<1>1. IndInv => CpuSeesDevice
  BY OwnBatch DEF IndInv, CpuSeesDevice, WhereInv, OutsideInv, Reads, Addresses
<1>q. QED BY <1>1, Invariant, PTL

\* While the device may read, all that the driver wrote to the batch is in RAM:
\* no cache_pre_dma() of the batch is still under way.
THEOREM DeviceReadsFilled == Spec => []DeviceSeesCpu
<1>1. IndInv => DeviceSeesCpu BY DEF IndInv, DeviceSeesCpu, ArmedInv, Stored
<1>q. QED BY <1>1, Invariant, PTL

\* The invalidate of a buffer's lines, which makes no concession at the ends, takes
\* nothing from a neighbour of a dma_alloc() buffer.
THEOREM NeighboursSafe == Spec => []NeighbourKept
<1>1. IndInv => NeighbourKept BY DEF IndInv
<1>q. QED BY <1>1, Invariant, PTL
=============================================================================
