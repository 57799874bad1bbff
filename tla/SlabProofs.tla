----------------------------- MODULE SlabProofs -----------------------------
(***************************************************************************)
(* The slab cache, for any object sizes, alignments, capacities, numbers   *)
(* of slabs and places of their areas.                                     *)
(*                                                                         *)
(* The free list lives in the objects themselves, so what it is depends on *)
(* what nobody overwrote.  SlabInv says that some sequence q without       *)
(* repetition lists the free objects and is threaded through their first   *)
(* words (Threaded); one lemma per operation shows how q changes.          *)
(***************************************************************************)
EXTENDS Slab, DmaLayoutProofs, FiniteSetTheorems

\* A set of naturals has a least element: what an induction along the list rests on.
LEMMA Smallest ==
    ASSUME NEW T, T \subseteq Nat, T # {}
    PROVE  \E k \in T : \A m \in T : k <= m
<1> DEFINE R == OpToRel(<, Nat)
<1>1. IsWellFoundedOn(R, Nat) BY NatLessThanWellFounded, Zenon
<1>2. \A x, y \in Nat : <<y, x>> \in R <=> y < x BY Zenon DEF OpToRel
<1> HIDE DEF R
<1>3. PICK x \in T : \A y \in T : ~ (<<y, x>> \in R) BY <1>1, WFMin, Zenon
<1>4. \A y \in T : ~(y < x) BY <1>2, <1>3, Zenon
<1>q. QED BY <1>4

-----------------------------------------------------------------------------
(* What slab_cache_init() sets up. *)

LEMMA Parameters ==
    ASSUME NEW c \in Configs
    PROVE  /\ InitAlign(c) \in Nat \ {0} /\ PtrSize <= InitAlign(c)
           /\ InitSize(c) \in Nat \ {0} /\ PtrSize <= InitSize(c) /\ c.size <= InitSize(c)
           /\ InitCapacity(c) \in Nat \ {0}
<1> USE SlabAssumption, SizeAssumption
<1>1. InitAlign(c) \in Nat \ {0} /\ PtrSize <= InitAlign(c) BY DEF InitAlign, MinAlign
<1>2. InitSize(c) \in Nat /\ c.size <= InitSize(c) BY <1>1, AlignUpBounds DEF InitSize
<1>3. PICK k \in Nat : InitSize(c) = k * InitAlign(c) BY <1>1, AlignUpIsMultiple DEF InitSize
<1>4. InitSize(c) # 0 BY <1>2
<1>5. PtrSize <= InitSize(c)
  <2>1. k # 0 BY <1>1, <1>3, <1>4
  <2>2. InitAlign(c) <= k * InitAlign(c) BY <1>1, <1>3, <2>1, SMT
  <2>q. QED BY <1>1, <1>2, <1>3, <2>2
<1>6. InitCapacity(c) \in Nat \ {0}
  <2>1. DefaultSize \div InitSize(c) \in Int BY <1>2, <1>4, SMT
  <2>q. QED BY <2>1 DEF InitCapacity
<1>q. QED BY <1>1, <1>2, <1>4, <1>5, <1>6

LEMMA Multiple == ASSUME NEW x \in Nat, NEW y \in Nat \ {0}, x % y = 0 PROVE \E k \in Nat : x = k * y
<1> DEFINE q == x \div y
<1>1. q \in Int /\ x = y * q /\ q >= 0 BY SMT
<1> HIDE DEF q
<1>q. QED BY <1>1

\* A DMA cache has its objects on whole lines.
LEMMA DmaLines ==
    ASSUME NEW c \in Configs, c.dma
    PROVE  /\ \E k \in Nat : InitSize(c) = k * Line
           /\ \A s \in 1 .. MaxSlabs : \E k \in Nat : Area[s] = k * Line
<1> USE SlabAssumption, SizeAssumption
<1>1. InitAlign(c) \in Nat \ {0} BY Parameters
<1>2. PICK l \in Nat : InitAlign(c) = l * Line
  <2>1. CASE c.align < Line
    <3>1. InitAlign(c) = 1 * Line BY <2>1 DEF InitAlign, MinAlign
    <3>q. QED BY <3>1
  <2>2. CASE c.align % Line = 0 /\ ~(c.align < Line)
    <3>1. InitAlign(c) = c.align BY <2>2 DEF InitAlign, MinAlign
    <3>2. c.align \in Nat /\ Line \in Nat \ {0} OBVIOUS
    <3>3. \E l \in Nat : c.align = l * Line BY <2>2, <3>2, Multiple
    <3>q. QED BY <3>1, <3>3
  <2>q. QED BY <2>1, <2>2
<1>3. PICK k \in Nat : InitSize(c) = k * InitAlign(c) BY <1>1, AlignUpIsMultiple DEF InitSize
<1>4. InitSize(c) = (k * l) * Line /\ k * l \in Nat BY <1>2, <1>3, SMT
<1>5. ASSUME NEW s \in 1 .. MaxSlabs PROVE \E i \in Nat : Area[s] = i * Line BY Multiple
<1>q. QED BY <1>4, <1>5

-----------------------------------------------------------------------------
(* The slots, by the number of their slab. *)

SlotOf(k, i) == Area[k] + i * obj_size

Fixed ==
    /\ config \in Configs
    /\ obj_align = InitAlign(config) /\ obj_size = InitSize(config) /\ slab_capacity = InitCapacity(config)

Count == Len(slabs)
Areas ==
    /\ slabs \in Seq(Nat) /\ Count <= MaxSlabs
    /\ \A k \in 1 .. Count : slabs[k] = Area[Count + 1 - k]

LEMMA SlotsAre ==
    ASSUME Areas
    PROVE  Slots = {SlotOf(k, i) : k \in 1 .. Count, i \in 0 .. slab_capacity - 1}
<1>1. DOMAIN slabs = 1 .. Count /\ Count \in Nat BY DEF Areas, Count
<1>2. ASSUME NEW k \in 1 .. Count, NEW i \in 0 .. slab_capacity - 1
      PROVE  /\ Slot(slabs[k], i) = SlotOf(Count + 1 - k, i) /\ Count + 1 - k \in 1 .. Count
             /\ SlotOf(k, i) = Slot(slabs[Count + 1 - k], i)
  <2>1. Count + 1 - k \in 1 .. Count /\ Count + 1 - (Count + 1 - k) = k BY <1>1
  <2>2. slabs[k] = Area[Count + 1 - k] /\ slabs[Count + 1 - k] = Area[k] BY <2>1 DEF Areas
  <2>q. QED BY <2>1, <2>2, Zenon DEF Slot, SlotOf
<1>3. ASSUME NEW p \in Slots
      PROVE  p \in {SlotOf(k, i) : k \in 1 .. Count, i \in 0 .. slab_capacity - 1}
  <2>1. PICK k \in 1 .. Count, i \in 0 .. slab_capacity - 1 : p = Slot(slabs[k], i) BY <1>1 DEF Slots
  <2>2. p = SlotOf(Count + 1 - k, i) /\ Count + 1 - k \in 1 .. Count BY <1>2, <2>1
  <2>q. QED BY <2>2
<1>4. ASSUME NEW k \in 1 .. Count, NEW i \in 0 .. slab_capacity - 1 PROVE SlotOf(k, i) \in Slots
  <2>1. SlotOf(k, i) = Slot(slabs[Count + 1 - k], i) /\ Count + 1 - k \in DOMAIN slabs BY <1>1, <1>2
  <2>q. QED BY <2>1 DEF Slots
<1>q. QED BY <1>3, <1>4

\* Slots begin at least an object apart, and end with their slab.
LEMMA SlotBounds ==
    ASSUME Fixed, NEW k \in 1 .. MaxSlabs, NEW i \in 0 .. slab_capacity - 1
    PROVE  /\ SlotOf(k, i) \in Nat \ {0}
           /\ Area[k] <= SlotOf(k, i) /\ SlotOf(k, i) + obj_size <= Area[k] + obj_size * slab_capacity
           /\ SlotOf(k, i) + obj_size <= Space
           /\ SlotOf(k, i) \in Addresses
<1> USE SlabAssumption
<1>1. obj_size \in Nat \ {0} /\ slab_capacity \in Nat \ {0} /\ DataSize(config) = obj_size * slab_capacity
  BY Parameters DEF Fixed, DataSize
<1>2. Area[k] \in Nat \ {0} /\ Area[k] + obj_size * slab_capacity <= Space BY <1>1 DEF Fixed
<1>3. i \in Nat /\ i + 1 <= slab_capacity BY <1>1
<1>4. i * obj_size \in Nat /\ i * obj_size + obj_size <= obj_size * slab_capacity /\ obj_size * slab_capacity \in Nat
  <2>1. (i + 1) * obj_size <= slab_capacity * obj_size BY <1>1, <1>3, TimesMono
  <2>2. (i + 1) * obj_size = i * obj_size + obj_size /\ slab_capacity * obj_size = obj_size * slab_capacity
        /\ i * obj_size \in Nat /\ obj_size * slab_capacity \in Nat
    BY <1>1, <1>3, SMT
  <2>q. QED BY <2>1, <2>2
<1>q. QED BY <1>1, <1>2, <1>4 DEF SlotOf, Addresses

LEMMA SlotsApart ==
    ASSUME Fixed, NEW k \in 1 .. MaxSlabs, NEW l \in 1 .. MaxSlabs,
           NEW i \in 0 .. slab_capacity - 1, NEW j \in 0 .. slab_capacity - 1, k # l \/ i # j
    PROVE  SlotOf(k, i) + obj_size <= SlotOf(l, j) \/ SlotOf(l, j) + obj_size <= SlotOf(k, i)
<1> USE SlabAssumption
<1>1. obj_size \in Nat \ {0} /\ slab_capacity \in Nat \ {0} /\ DataSize(config) = obj_size * slab_capacity
  BY Parameters DEF Fixed, DataSize
<1>2. Area[k] \in Nat /\ Area[l] \in Nat BY DEF Fixed
<1>3. CASE k # l
  <2>1. Area[k] + obj_size * slab_capacity <= Area[l] \/ Area[l] + obj_size * slab_capacity <= Area[k]
    BY <1>1, <1>3 DEF Fixed
  <2>2. /\ SlotOf(k, i) \in Nat /\ Area[k] <= SlotOf(k, i) /\ SlotOf(k, i) + obj_size <= Area[k] + obj_size * slab_capacity
        /\ SlotOf(l, j) \in Nat /\ Area[l] <= SlotOf(l, j) /\ SlotOf(l, j) + obj_size <= Area[l] + obj_size * slab_capacity
    BY SlotBounds
  <2> DEFINE d == obj_size * slab_capacity
  <2>3. d \in Nat BY <1>1, SMT
  <2> HIDE DEF d
  <2>q. QED BY <1>1, <1>2, <2>1, <2>2, <2>3 DEF d
<1>4. CASE k = l /\ i < j
  <2>1. (i + 1) * obj_size <= j * obj_size BY <1>1, <1>4, TimesMono
  <2>2. (i + 1) * obj_size = i * obj_size + obj_size /\ i * obj_size \in Nat /\ j * obj_size \in Nat BY <1>1, SMT
  <2>q. QED BY <1>1, <1>2, <1>4, <2>1, <2>2 DEF SlotOf
<1>5. CASE k = l /\ j < i
  <2>1. (j + 1) * obj_size <= i * obj_size BY <1>1, <1>5, TimesMono
  <2>2. (j + 1) * obj_size = j * obj_size + obj_size /\ i * obj_size \in Nat /\ j * obj_size \in Nat BY <1>1, SMT
  <2>q. QED BY <1>1, <1>2, <1>5, <2>1, <2>2 DEF SlotOf
<1>q. QED BY <1>1, <1>3, <1>4, <1>5

\* The same of any two slots.
LEMMA Slotted ==
    ASSUME Fixed, Areas
    PROVE  /\ obj_size \in Nat \ {0} /\ PtrSize <= obj_size /\ slab_capacity \in Nat \ {0}
           /\ Slots \subseteq Addresses \ {0}
           /\ \A p \in Slots : p + obj_size <= Space
           /\ \A p, q \in Slots : p # q => p + obj_size <= q \/ q + obj_size <= p
<1> USE SlabAssumption
<1>1. obj_size \in Nat \ {0} /\ PtrSize <= obj_size /\ slab_capacity \in Nat \ {0} BY Parameters DEF Fixed
<1>2. Slots = {SlotOf(k, i) : k \in 1 .. Count, i \in 0 .. slab_capacity - 1} BY SlotsAre
<1>3. Count \in Nat /\ \A k \in 1 .. Count : k \in 1 .. MaxSlabs BY DEF Areas, Count
<1>4. ASSUME NEW p \in Slots PROVE p \in Addresses \ {0} /\ p + obj_size <= Space
  <2>1. PICK k \in 1 .. Count, i \in 0 .. slab_capacity - 1 : p = SlotOf(k, i) BY <1>2
  <2>q. QED BY <1>3, <2>1, SlotBounds
<1>5. ASSUME NEW p \in Slots, NEW q \in Slots, p # q PROVE p + obj_size <= q \/ q + obj_size <= p
  <2>1. PICK k \in 1 .. Count, i \in 0 .. slab_capacity - 1 : p = SlotOf(k, i) BY <1>2
  <2>2. PICK l \in 1 .. Count, j \in 0 .. slab_capacity - 1 : q = SlotOf(l, j) BY <1>2
  <2>3. k # l \/ i # j BY <1>5, <2>1, <2>2
  <2>q. QED BY <1>3, <2>1, <2>2, <2>3, SlotsApart
<1>q. QED BY <1>1, <1>4, <1>5

-----------------------------------------------------------------------------
(* The free list goes through q, which has every free slot once. *)

Threaded(m, q) ==
    /\ m \in Nat /\ q \in [1 .. m -> Slots \ inUse]
    /\ \A i, j \in 1 .. m : q[i] = q[j] => i = j
    /\ \A p \in Slots \ inUse : \E i \in 1 .. m : q[i] = p
    /\ free_list = IF m = 0 THEN Null ELSE q[1]
    /\ \A i \in 1 .. m : mem[q[i]] = IF i = m THEN Null ELSE q[i + 1]

SlabInv ==
    /\ Fixed /\ Areas /\ inUse \subseteq Slots
    /\ mem \in [Addresses -> Addresses \cup {Junk}]
    /\ \E m, q : Threaded(m, q)

LEMMA SlabStart == ASSUME Init PROVE SlabInv
<1>1. Slots = {} /\ Count = 0 /\ inUse = {} /\ slabs = <<>> BY DEF Init, Slots, Count
<1>2. Areas BY <1>1, SlabAssumption DEF Areas
<1>3. Threaded(0, [i \in 1 .. 0 |-> 0]) BY <1>1 DEF Threaded, Init
<1>q. QED BY <1>1, <1>2, <1>3, Zenon DEF SlabInv, Fixed, Init

LEMMA Kept ==
    ASSUME Fixed, UNCHANGED fixed
    PROVE  Fixed' /\ obj_size' = obj_size /\ slab_capacity' = slab_capacity /\ config' = config
           /\ (UNCHANGED slabs => Slots' = Slots /\ (Areas => Areas'))
BY DEF Fixed, fixed, Slots, Slot, Areas, Count

LEMMA AllocKeeps == ASSUME SlabInv, Alloc PROVE SlabInv'
<1>1. PICK m, q : Threaded(m, q) BY DEF SlabInv
<1>2. Fixed /\ Areas /\ inUse \subseteq Slots /\ mem \in [Addresses -> Addresses \cup {Junk}] BY DEF SlabInv
<1>3. Fixed' /\ Areas' /\ Slots' = Slots /\ obj_size' = obj_size BY <1>2, Kept DEF Alloc
<1>4. m \in Nat /\ m # 0 /\ free_list = q[1] BY <1>1 DEF Alloc, Threaded
<1>5. q \in [1 .. m -> Slots \ inUse] /\ (\A i, j \in 1 .. m : q[i] = q[j] => i = j) BY <1>1 DEF Threaded
<1>6. 1 \in 1 .. m /\ q[1] \in Slots \ inUse BY <1>4, <1>5
<1>7. inUse' = inUse \cup {q[1]} /\ mem' = Written(mem, q[1]) /\ free_list' = mem[q[1]] BY <1>4 DEF Alloc
<1>8. /\ obj_size \in Nat \ {0} /\ Slots \subseteq Addresses \ {0}
      /\ \A x, y \in Slots : x # y => x + obj_size <= y \/ y + obj_size <= x
  BY <1>2, Slotted
<1>9. mem' \in [Addresses -> Addresses \cup {Junk}] BY <1>2, <1>7 DEF Written
<1>10. ASSUME NEW p \in Slots, p # q[1] PROVE mem'[p] = mem[p]
  <2>1. p \in Addresses /\ p \in Nat /\ q[1] \in Nat
    <3>1. p \in Addresses /\ q[1] \in Addresses BY <1>6, <1>8
    <3>q. QED BY <3>1 DEF Addresses
  <2>2. p \notin q[1] .. q[1] + obj_size - 1 BY <1>6, <1>8, <1>10, <2>1
  <2>q. QED BY <1>7, <2>1, <2>2 DEF Written
<1> DEFINE r == [i \in 1 .. m - 1 |-> q[i + 1]]
<1>11. \A i \in 1 .. m - 1 : i + 1 \in 1 .. m /\ r[i] = q[i + 1] /\ r[i] # q[1] BY <1>4, <1>5, <1>6
<1>12. Threaded(m - 1, r)'
  <2>1. m - 1 \in Nat BY <1>4
  <2>2. r \in [1 .. m - 1 -> Slots \ inUse'] BY <1>5, <1>7, <1>11
  <2>3. \A i, j \in 1 .. m - 1 : r[i] = r[j] => i = j
    <3>1. ASSUME NEW i \in 1 .. m - 1, NEW j \in 1 .. m - 1, r[i] = r[j] PROVE i = j
      <4>1. i + 1 = j + 1 BY <1>5, <1>11, <3>1
      <4>q. QED BY <4>1
    <3>q. QED BY <3>1
  <2>4. ASSUME NEW p \in Slots \ inUse' PROVE \E i \in 1 .. m - 1 : r[i] = p
    <3>1. p \in Slots \ inUse /\ p # q[1] BY <1>7
    <3>2. PICK i \in 1 .. m : q[i] = p BY <1>1, <3>1 DEF Threaded
    <3>3. i - 1 \in 1 .. m - 1 /\ (i - 1) + 1 = i BY <1>4, <3>1, <3>2
    <3>4. r[i - 1] = p BY <3>2, <3>3
    <3>q. QED BY <3>3, <3>4
  <2>5. free_list' = IF m - 1 = 0 THEN Null ELSE r[1]
    <3>1. mem[q[1]] = IF 1 = m THEN Null ELSE q[1 + 1] BY <1>1, <1>6 DEF Threaded
    <3>q. QED BY <1>4, <1>7, <3>1
  <2>6. ASSUME NEW i \in 1 .. m - 1 PROVE mem'[r[i]] = IF i = m - 1 THEN Null ELSE r[i + 1]
    <3>1. i + 1 \in 1 .. m /\ r[i] = q[i + 1] /\ r[i] # q[1] /\ r[i] \in Slots BY <1>5, <1>11
    <3>2. mem'[r[i]] = mem[q[i + 1]] BY <1>10, <3>1
    <3>3. mem[q[i + 1]] = IF i + 1 = m THEN Null ELSE q[i + 1 + 1] BY <1>1, <3>1 DEF Threaded
    <3>4. i # m - 1 => i + 1 \in 1 .. m - 1 /\ r[i + 1] = q[i + 1 + 1] BY <1>4
    <3>q. QED BY <1>4, <3>2, <3>3, <3>4
  <2> HIDE DEF r
  <2>q. QED BY <1>3, <2>1, <2>2, <2>3, <2>4, <2>5, <2>6 DEF Threaded
<1> HIDE DEF r
<1>13. \E x, y : Threaded(x, y)' BY <1>12
<1>14. inUse' \subseteq Slots' BY <1>2, <1>3, <1>6, <1>7
<1>q. QED BY <1>3, <1>9, <1>13, <1>14 DEF SlabInv

LEMMA FreeKeeps == ASSUME SlabInv, NEW p \in inUse, Free(p) PROVE SlabInv'
<1>1. PICK m, q : Threaded(m, q) BY DEF SlabInv
<1>2. Fixed /\ Areas /\ inUse \subseteq Slots /\ mem \in [Addresses -> Addresses \cup {Junk}] BY DEF SlabInv
<1>3. Fixed' /\ Areas' /\ Slots' = Slots BY <1>2, Kept DEF Free
<1>4. m \in Nat /\ q \in [1 .. m -> Slots \ inUse] /\ (\A i, j \in 1 .. m : q[i] = q[j] => i = j)
      /\ free_list = IF m = 0 THEN Null ELSE q[1]
  BY <1>1 DEF Threaded
<1>5. inUse' = inUse \ {p} /\ mem' = [mem EXCEPT ![p] = free_list] /\ free_list' = p BY DEF Free
<1>6. Slots \subseteq Addresses \ {0} /\ p \in Slots /\ p \in Addresses BY <1>2, Slotted
<1>7. free_list \in Addresses
  <2>1. 0 \in Addresses BY SlabAssumption DEF Addresses
  <2>2. CASE m = 0 BY <1>4, <2>1, <2>2 DEF Null
  <2>3. CASE m # 0
    <3>1. 1 \in 1 .. m BY <1>4, <2>3
    <3>q. QED BY <1>4, <1>6, <2>3, <3>1
  <2>q. QED BY <2>2, <2>3
<1>8. mem' \in [Addresses -> Addresses \cup {Junk}] BY <1>2, <1>5, <1>7
<1>9. mem'[p] = free_list /\ \A i \in 1 .. m : q[i] # p /\ mem'[q[i]] = mem[q[i]] BY <1>2, <1>4, <1>5, <1>6
<1> DEFINE r == [i \in 1 .. m + 1 |-> IF i = 1 THEN p ELSE q[i - 1]]
<1>10. r[1] = p /\ \A i \in 2 .. m + 1 : i - 1 \in 1 .. m /\ r[i] = q[i - 1] BY <1>4
<1>11. \A i \in 1 .. m + 1 : i = 1 \/ i \in 2 .. m + 1 BY <1>4
<1>12. m + 1 \in Nat /\ r \in [1 .. m + 1 -> Slots \ inUse'] BY <1>4, <1>5, <1>6, <1>10, <1>11
<1> HIDE DEF r
<1>13. Threaded(m + 1, r)'
  <2>1. ASSUME NEW i \in 1 .. m + 1, NEW j \in 1 .. m + 1, r[i] = r[j] PROVE i = j
    <3>1. CASE i = 1 \/ j = 1 BY <1>9, <1>10, <1>11, <2>1, <3>1
    <3>2. CASE i # 1 /\ j # 1
      <4>1. i - 1 = j - 1 BY <1>4, <1>10, <1>11, <2>1, <3>2
      <4>q. QED BY <4>1
    <3>q. QED BY <3>1, <3>2
  <2>2. ASSUME NEW x \in Slots \ inUse' PROVE \E i \in 1 .. m + 1 : r[i] = x
    <3>1. CASE x = p BY <1>4, <1>10, <3>1
    <3>2. CASE x # p
      <4>1. PICK i \in 1 .. m : q[i] = x BY <1>1, <1>5, <3>2 DEF Threaded
      <4>2. i + 1 \in 2 .. m + 1 /\ (i + 1) - 1 = i /\ i + 1 \in 1 .. m + 1 BY <1>4
      <4>q. QED BY <1>10, <4>1, <4>2
    <3>q. QED BY <3>1, <3>2
  <2>3. free_list' = IF m + 1 = 0 THEN Null ELSE r[1] BY <1>4, <1>5, <1>10
  <2>4. ASSUME NEW i \in 1 .. m + 1 PROVE mem'[r[i]] = IF i = m + 1 THEN Null ELSE r[i + 1]
    <3>1. CASE i = 1
      <4>1. m # 0 => r[2] = q[1] BY <1>4, <1>10
      <4>q. QED BY <1>4, <1>9, <1>10, <3>1, <4>1
    <3>2. CASE i # 1
      <4>1. i - 1 \in 1 .. m /\ r[i] = q[i - 1] BY <1>10, <1>11, <3>2
      <4>2. mem'[r[i]] = IF i - 1 = m THEN Null ELSE q[(i - 1) + 1] BY <1>1, <1>9, <4>1 DEF Threaded
      <4>3. i # m + 1 => i + 1 \in 2 .. m + 1 /\ (i + 1) - 1 = (i - 1) + 1 BY <1>4, <3>2
      <4>q. QED BY <1>4, <1>10, <4>1, <4>2, <4>3
    <3>q. QED BY <3>1, <3>2
  <2>q. QED BY <1>3, <1>12, <2>1, <2>2, <2>3, <2>4 DEF Threaded
<1>14. \E x, y : Threaded(x, y)' BY <1>13
<1>q. QED BY <1>2, <1>3, <1>5, <1>8, <1>14 DEF SlabInv

LEMMA DestroyKeeps == ASSUME SlabInv, Destroy PROVE SlabInv'
<1>1. Fixed' BY Kept DEF SlabInv, Destroy
<1>2. slabs' = <<>> /\ inUse' = {} /\ free_list' = Null /\ mem' = [a \in Addresses |-> Junk] BY DEF Destroy
<1>3. Slots' = {} /\ Count' = 0 BY <1>2 DEF Slots, Count
<1>4. Areas' BY <1>2, <1>3, SlabAssumption DEF Areas
<1>5. Threaded(0, [i \in 1 .. 0 |-> 0])' BY <1>2, <1>3 DEF Threaded
<1>6. \E x, y : Threaded(x, y)' BY <1>5
<1>q. QED BY <1>1, <1>2, <1>4, <1>6 DEF SlabInv

\* The new slab: its slots are new, and chained in order before the old list.
LEMMA GrownSlots ==
    ASSUME Fixed, Areas, Count < MaxSlabs, NEW i \in 0 .. slab_capacity - 1
    PROVE  /\ SlotOf(Count + 1, i) \in Addresses \ {0} /\ SlotOf(Count + 1, i) \notin Slots
           /\ \A p \in Slots : p \notin SlotOf(Count + 1, i) .. SlotOf(Count + 1, i) + obj_size - 1
           /\ \A j \in 0 .. slab_capacity - 1 :
                 i # j => /\ SlotOf(Count + 1, i) # SlotOf(Count + 1, j)
                          /\ SlotOf(Count + 1, j) \notin SlotOf(Count + 1, i) .. SlotOf(Count + 1, i) + obj_size - 1
<1> USE SlabAssumption
<1>1. obj_size \in Nat \ {0} /\ slab_capacity \in Nat \ {0} BY Parameters DEF Fixed
<1>2. Count \in Nat /\ Count + 1 \in 1 .. MaxSlabs /\ \A k \in 1 .. Count : k \in 1 .. MaxSlabs /\ k # Count + 1
  BY DEF Areas, Count
<1>3. SlotOf(Count + 1, i) \in Addresses \ {0} /\ SlotOf(Count + 1, i) \in Nat BY <1>2, SlotBounds
<1>4. ASSUME NEW p \in Slots
      PROVE  p # SlotOf(Count + 1, i) /\ p \notin SlotOf(Count + 1, i) .. SlotOf(Count + 1, i) + obj_size - 1
  <2>1. PICK k \in 1 .. Count, j \in 0 .. slab_capacity - 1 : p = SlotOf(k, j) BY SlotsAre
  <2>2. p + obj_size <= SlotOf(Count + 1, i) \/ SlotOf(Count + 1, i) + obj_size <= p BY <1>2, <2>1, SlotsApart
  <2>3. p \in Nat BY <1>2, <2>1, SlotBounds
  <2>q. QED BY <1>1, <1>3, <2>2, <2>3
<1>5. ASSUME NEW j \in 0 .. slab_capacity - 1, i # j
      PROVE  /\ SlotOf(Count + 1, i) # SlotOf(Count + 1, j)
             /\ SlotOf(Count + 1, j) \notin SlotOf(Count + 1, i) .. SlotOf(Count + 1, i) + obj_size - 1
  <2>1. SlotOf(Count + 1, j) + obj_size <= SlotOf(Count + 1, i) \/ SlotOf(Count + 1, i) + obj_size <= SlotOf(Count + 1, j)
    BY <1>2, <1>5, SlotsApart
  <2>2. SlotOf(Count + 1, j) \in Nat BY <1>2, SlotBounds
  <2>q. QED BY <1>1, <1>3, <2>1, <2>2
<1>q. QED BY <1>3, <1>4, <1>5

LEMMA ChainedAt ==
    ASSUME Fixed, Areas, Count < MaxSlabs, mem \in [Addresses -> Addresses \cup {Junk}], NEW data, data = Area[Count + 1]
    PROVE  /\ \A i \in 0 .. slab_capacity - 1 : Chained(data)[SlotOf(Count + 1, i)] =
                  IF i = slab_capacity - 1 THEN free_list ELSE SlotOf(Count + 1, i + 1)
           /\ \A p \in Slots : Chained(data)[p] = mem[p]
           /\ free_list \in Addresses => Chained(data) \in [Addresses -> Addresses \cup {Junk}]
<1> USE SlabAssumption
<1>1. obj_size \in Nat \ {0} /\ slab_capacity \in Nat \ {0} BY Parameters DEF Fixed
<1>2. \A i : Slot(data, i) = SlotOf(Count + 1, i) BY DEF Slot, SlotOf
<1>3. ASSUME NEW i \in 0 .. slab_capacity - 1, i # slab_capacity - 1
      PROVE  SlotOf(Count + 1, i) + obj_size = SlotOf(Count + 1, i + 1) /\ i + 1 \in 0 .. slab_capacity - 1
  <2>1. Count + 1 \in 1 .. MaxSlabs BY DEF Areas, Count
  <2>2. Area[Count + 1] \in Nat BY <2>1 DEF Fixed
  <2>3. i \in Nat /\ (i + 1) * obj_size = i * obj_size + obj_size /\ i * obj_size \in Nat BY <1>1, SMT
  <2>4. i + 1 \in 0 .. slab_capacity - 1 BY <1>1, <1>3
  <2>q. QED BY <1>1, <2>2, <2>3, <2>4 DEF SlotOf
<1>4. ASSUME NEW i \in 0 .. slab_capacity - 1
      PROVE  Chained(data)[SlotOf(Count + 1, i)] = IF i = slab_capacity - 1 THEN free_list ELSE SlotOf(Count + 1, i + 1)
  <2>1. SlotOf(Count + 1, i) \in Addresses BY GrownSlots
  <2>2. CASE i = slab_capacity - 1
    <3>1. ~ \E j \in 0 .. slab_capacity - 2 : SlotOf(Count + 1, i) = Slot(data, j)
      <4>1. ASSUME NEW j \in 0 .. slab_capacity - 2 PROVE SlotOf(Count + 1, i) # SlotOf(Count + 1, j)
        <5>1. j \in 0 .. slab_capacity - 1 /\ i # j BY <1>1, <2>2
        <5>q. QED BY <5>1, GrownSlots
      <4>q. QED BY <1>2, <4>1
    <3>q. QED BY <1>2, <2>1, <2>2, <3>1 DEF Chained
  <2>3. CASE i # slab_capacity - 1
    <3>1. i \in 0 .. slab_capacity - 2 BY <1>1, <2>3
    <3>q. QED BY <1>2, <1>3, <2>1, <2>3, <3>1 DEF Chained
  <2>q. QED BY <2>2, <2>3
<1>5. ASSUME NEW p \in Addresses, \A i \in 0 .. slab_capacity - 1 : p # SlotOf(Count + 1, i)
      PROVE  Chained(data)[p] = mem[p]
  <2>1. slab_capacity - 1 \in 0 .. slab_capacity - 1 /\ \A j \in 0 .. slab_capacity - 2 : j \in 0 .. slab_capacity - 1
    BY <1>1
  <2>q. QED BY <1>2, <1>5, <2>1 DEF Chained
<1>6. ASSUME NEW p \in Slots PROVE Chained(data)[p] = mem[p]
  <2>1. p \in Addresses BY Slotted
  <2>2. \A i \in 0 .. slab_capacity - 1 : p # SlotOf(Count + 1, i) BY GrownSlots
  <2>q. QED BY <1>5, <2>1, <2>2
<1>7. ASSUME free_list \in Addresses, NEW a \in Addresses PROVE Chained(data)[a] \in Addresses \cup {Junk}
  <2>1. CASE \E i \in 0 .. slab_capacity - 1 : a = SlotOf(Count + 1, i)
    <3>1. PICK i \in 0 .. slab_capacity - 1 : a = SlotOf(Count + 1, i) BY <2>1
    <3>2. i # slab_capacity - 1 => SlotOf(Count + 1, i + 1) \in Addresses BY <1>3, GrownSlots
    <3>q. QED BY <1>4, <1>7, <3>1, <3>2
  <2>2. CASE ~ \E i \in 0 .. slab_capacity - 1 : a = SlotOf(Count + 1, i) BY <1>5, <2>2
  <2>q. QED BY <2>1, <2>2
<1>8. Chained(data) = [a \in Addresses |-> Chained(data)[a]] BY DEF Chained
<1>9. free_list \in Addresses => Chained(data) \in [Addresses -> Addresses \cup {Junk}] BY <1>7, <1>8
<1>q. QED BY <1>4, <1>6, <1>9

LEMMA HeadIs == ASSUME SlabInv PROVE free_list \in Addresses
<1>1. PICK m, q : Threaded(m, q) BY DEF SlabInv
<1>2. m \in Nat /\ q \in [1 .. m -> Slots \ inUse] /\ free_list = IF m = 0 THEN Null ELSE q[1] BY <1>1 DEF Threaded
<1>3. Slots \subseteq Addresses /\ 0 \in Addresses BY Slotted, SlabAssumption DEF SlabInv, Addresses
<1>4. CASE m = 0 BY <1>2, <1>3, <1>4 DEF Null
<1>5. CASE m # 0
  <2>1. 1 \in 1 .. m BY <1>2, <1>5
  <2>q. QED BY <1>2, <1>3, <1>5, <2>1
<1>q. QED BY <1>4, <1>5

LEMMA GrowKeeps == ASSUME SlabInv, Grow PROVE SlabInv'
<1> USE SlabAssumption
<1> DEFINE data == Area[Count + 1]
           new(i) == SlotOf(Count + 1, i)
           cap == slab_capacity
<1>1. PICK m, q : Threaded(m, q) BY DEF SlabInv
<1>2. Fixed /\ Areas /\ inUse \subseteq Slots /\ mem \in [Addresses -> Addresses \cup {Junk}] BY DEF SlabInv
<1>3. Fixed' /\ obj_size' = obj_size /\ slab_capacity' = cap BY <1>2, Kept DEF Grow
<1>4. Count < MaxSlabs /\ mem' = Written(Chained(data), data) /\ slabs' = <<data>> \o slabs
      /\ free_list' = Chained(data)[data] /\ inUse' = inUse \cup {data}
  BY DEF Grow, Count
<1>5. obj_size \in Nat \ {0} /\ cap \in Nat \ {0} /\ Count \in Nat /\ Count + 1 \in 1 .. MaxSlabs /\ data \in Nat
  BY <1>2, <1>4, Parameters DEF Fixed, Areas, Count
<1>6. 0 \in 0 .. cap - 1 /\ new(0) = data BY <1>5 DEF SlotOf
<1>7. slabs' \in Seq(Nat) /\ Len(slabs') = Count + 1
      /\ \A k \in 1 .. Count + 1 : slabs'[k] = IF k = 1 THEN data ELSE slabs[k - 1]
  BY <1>2, <1>4, <1>5 DEF Areas, Count
<1>22. Areas'
  <2>1. ASSUME NEW k \in 1 .. Count + 1 PROVE slabs'[k] = Area[(Count + 1) + 1 - k]
    <3>1. CASE k = 1
      <4>1. (Count + 1) + 1 - k = Count + 1 BY <1>5, <3>1
      <4>q. QED BY <1>7, <3>1, <4>1
    <3>2. CASE k # 1
      <4>1. k - 1 \in 1 .. Count /\ Count + 1 - (k - 1) = (Count + 1) + 1 - k BY <1>5, <3>2
      <4>2. slabs[k - 1] = Area[Count + 1 - (k - 1)] BY <1>2, <4>1 DEF Areas
      <4>q. QED BY <1>7, <3>2, <4>1, <4>2
    <3>q. QED BY <3>1, <3>2
  <2>2. Count' = Count + 1 BY <1>7 DEF Count
  <2>q. QED BY <1>4, <1>5, <1>7, <2>1, <2>2 DEF Areas
<1>8. Slots' = Slots \cup {new(i) : i \in 0 .. cap - 1}
  <2>1. DOMAIN slabs' = 1 .. Count + 1 /\ DOMAIN slabs = 1 .. Count BY <1>2, <1>7 DEF Areas, Count
  <2>2. \A d, i : Slot(d, i)' = Slot(d, i) BY <1>3 DEF Slot
  <2>3. \A i : Slot(data, i) = new(i) BY DEF Slot, SlotOf
  <2>4. Slots' = {Slot(slabs'[k], i) : k \in 1 .. Count + 1, i \in 0 .. cap - 1}
    BY <1>3, <2>1 DEF Slots, Slot
  <2>5. Slots = {Slot(slabs[k], i) : k \in 1 .. Count, i \in 0 .. cap - 1} BY <2>1 DEF Slots
  <2> HIDE DEF data, new, cap
  <2>6. ASSUME NEW p \in Slots' PROVE p \in Slots \cup {new(i) : i \in 0 .. cap - 1}
    <3>1. PICK k \in 1 .. Count + 1, i \in 0 .. cap - 1 : p = Slot(slabs'[k], i) BY <2>4
    <3>2. CASE k = 1 BY <1>7, <2>3, <3>1, <3>2
    <3>3. CASE k # 1
      <4>1. k - 1 \in 1 .. Count /\ slabs'[k] = slabs[k - 1] BY <1>5, <1>7, <3>3
      <4>q. QED BY <2>5, <3>1, <4>1
    <3>q. QED BY <3>2, <3>3
  <2>7. ASSUME NEW p \in Slots PROVE p \in Slots'
    <3>1. PICK k \in 1 .. Count, i \in 0 .. cap - 1 : p = Slot(slabs[k], i) BY <2>5
    <3>2. k + 1 \in 1 .. Count + 1 /\ k + 1 # 1 /\ (k + 1) - 1 = k BY <1>5
    <3>3. slabs'[k + 1] = slabs[k] BY <1>7, <3>2
    <3>q. QED BY <2>4, <3>1, <3>2, <3>3
  <2>8. ASSUME NEW i \in 0 .. cap - 1 PROVE new(i) \in Slots'
    <3>1. 1 \in 1 .. Count + 1 /\ slabs'[1] = data BY <1>5, <1>7
    <3>q. QED BY <2>3, <2>4, <3>1
  <2>q. QED BY <2>6, <2>7, <2>8
<1>9. /\ \A i \in 0 .. cap - 1 : new(i) \in Addresses \ {0} /\ new(i) \notin Slots
      /\ \A p \in Slots : p \notin data .. data + obj_size - 1
      /\ \A i \in 1 .. cap - 1 : new(i) \notin data .. data + obj_size - 1 /\ new(i) # data
      /\ \A i, j \in 0 .. cap - 1 : new(i) = new(j) => i = j
  <2>1. \A i \in 1 .. cap - 1 : i \in 0 .. cap - 1 /\ i # 0 BY <1>5
  <2>q. QED BY <1>2, <1>4, <1>6, <2>1, GrownSlots
<1>10. /\ \A i \in 0 .. cap - 1 : Chained(data)[new(i)] = IF i = cap - 1 THEN free_list ELSE new(i + 1)
       /\ \A p \in Slots : Chained(data)[p] = mem[p]
       /\ Chained(data) \in [Addresses -> Addresses \cup {Junk}]
  BY <1>2, <1>4, ChainedAt, HeadIs
<1>11. mem' \in [Addresses -> Addresses \cup {Junk}] BY <1>4, <1>10 DEF Written
<1>12. /\ \A p \in Slots : mem'[p] = mem[p]
       /\ \A i \in 1 .. cap - 1 : mem'[new(i)] = IF i = cap - 1 THEN free_list ELSE new(i + 1)
  <2>1. \A i \in 1 .. cap - 1 : i \in 0 .. cap - 1 BY <1>5
  <2>2. Slots \subseteq Addresses BY <1>2, Slotted
  <2>q. QED BY <1>4, <1>9, <1>10, <2>1, <2>2 DEF Written
<1>13. /\ m \in Nat /\ q \in [1 .. m -> Slots \ inUse] /\ (\A i, j \in 1 .. m : q[i] = q[j] => i = j)
       /\ free_list = IF m = 0 THEN Null ELSE q[1]
  BY <1>1 DEF Threaded
<1>14. free_list' = IF cap = 1 THEN free_list ELSE new(1)
  BY <1>4, <1>5, <1>6, <1>10
<1> DEFINE r == [i \in 1 .. (cap - 1) + m |-> IF i <= cap - 1 THEN new(i) ELSE q[i - (cap - 1)]]
<1>15. /\ \A i \in 1 .. cap - 1 : i \in 1 .. (cap - 1) + m /\ i \in 0 .. cap - 1 /\ r[i] = new(i)
       /\ \A i \in 1 .. m : (cap - 1) + i \in 1 .. (cap - 1) + m /\ r[(cap - 1) + i] = q[i]
       /\ \A i \in 1 .. (cap - 1) + m : i \in 1 .. cap - 1 \/ (i - (cap - 1) \in 1 .. m /\ r[i] = q[i - (cap - 1)])
  BY <1>5, <1>13
<1>16. \A i \in 1 .. m : q[i] \in Slots /\ q[i] \notin inUse /\ q[i] # data BY <1>6, <1>9, <1>13
<1>17. \A i \in 1 .. cap - 1 : new(i) \in Slots' /\ new(i) \notin inUse' BY <1>2, <1>4, <1>8, <1>9, <1>15
<1>18. r \in [1 .. (cap - 1) + m -> Slots' \ inUse']
  <2>1. ASSUME NEW i \in 1 .. (cap - 1) + m PROVE r[i] \in Slots' \ inUse'
    <3>1. CASE i \in 1 .. cap - 1 BY <1>15, <1>17, <3>1
    <3>2. CASE i \notin 1 .. cap - 1
      <4>1. i - (cap - 1) \in 1 .. m /\ r[i] = q[i - (cap - 1)] BY <1>15, <3>2
      <4>q. QED BY <1>4, <1>8, <1>16, <4>1
    <3>q. QED BY <3>1, <3>2
  <2>q. QED BY <2>1
<1> HIDE DEF r, new, cap, data
<1>19. PICK N, R : N = (cap - 1) + m /\ R = r BY Zenon
<1>20. Threaded(N, R)'
  <2>1. (cap - 1) + m \in Nat BY <1>5, <1>13
  <2>2. ASSUME NEW i \in 1 .. (cap - 1) + m, NEW j \in 1 .. (cap - 1) + m, r[i] = r[j] PROVE i = j
    <3>1. CASE i \in 1 .. cap - 1 /\ j \in 1 .. cap - 1 BY <1>9, <1>15, <2>2, <3>1
    <3>2. CASE i \notin 1 .. cap - 1 /\ j \notin 1 .. cap - 1
      <4>1. i - (cap - 1) = j - (cap - 1) BY <1>13, <1>15, <2>2, <3>2
      <4>q. QED BY <1>5, <4>1
    <3>3. CASE i \in 1 .. cap - 1 /\ j \notin 1 .. cap - 1 BY <1>9, <1>15, <1>16, <2>2, <3>3
    <3>4. CASE i \notin 1 .. cap - 1 /\ j \in 1 .. cap - 1 BY <1>9, <1>15, <1>16, <2>2, <3>4
    <3>q. QED BY <3>1, <3>2, <3>3, <3>4
  <2>3. ASSUME NEW p \in Slots' \ inUse' PROVE \E i \in 1 .. (cap - 1) + m : r[i] = p
    <3>1. CASE p \in Slots
      <4>1. PICK i \in 1 .. m : q[i] = p BY <1>1, <1>4, <3>1 DEF Threaded
      <4>q. QED BY <1>15, <4>1
    <3>2. CASE p \notin Slots
      <4>1. PICK i \in 0 .. cap - 1 : p = new(i) BY <1>8, <3>2
      <4>2. i # 0 BY <1>4, <1>6, <4>1
      <4>3. i \in 1 .. cap - 1 BY <1>5, <4>2
      <4>q. QED BY <1>15, <4>1, <4>3
    <3>q. QED BY <3>1, <3>2
  <2>4. free_list' = IF (cap - 1) + m = 0 THEN Null ELSE r[1]
    <3>1. CASE cap = 1
      <4>1. (cap - 1) + m = m /\ (m # 0 => 1 \in 1 .. m /\ (cap - 1) + 1 = 1) BY <1>13, <3>1
      <4>q. QED BY <1>13, <1>14, <1>15, <3>1, <4>1
    <3>2. CASE cap # 1
      <4>1. 1 \in 1 .. cap - 1 /\ (cap - 1) + m # 0 BY <1>5, <1>13, <3>2
      <4>q. QED BY <1>14, <1>15, <3>2, <4>1
    <3>q. QED BY <3>1, <3>2
  <2>5. ASSUME NEW i \in 1 .. (cap - 1) + m PROVE mem'[r[i]] = IF i = (cap - 1) + m THEN Null ELSE r[i + 1]
    <3>1. CASE i \in 1 .. cap - 1 /\ i # cap - 1
      <4>1. i + 1 \in 1 .. cap - 1 /\ i # (cap - 1) + m BY <1>5, <1>13, <3>1
      <4>q. QED BY <1>12, <1>15, <3>1, <4>1
    <3>2. CASE i = cap - 1
      <4>1. i \in 1 .. cap - 1 BY <1>5, <3>2
      <4>2. mem'[r[i]] = free_list BY <1>12, <1>15, <3>2, <4>1
      <4>3. CASE m = 0
        <5>1. i = (cap - 1) + m BY <1>5, <3>2, <4>3
        <5>q. QED BY <1>13, <4>2, <4>3, <5>1
      <4>4. CASE m # 0
        <5>1. i # (cap - 1) + m /\ 1 \in 1 .. m /\ i + 1 = (cap - 1) + 1 BY <1>5, <1>13, <3>2, <4>4
        <5>q. QED BY <1>13, <1>15, <4>2, <4>4, <5>1
      <4>q. QED BY <4>3, <4>4
    <3>3. CASE i \notin 1 .. cap - 1
      <4>1. i - (cap - 1) \in 1 .. m /\ r[i] = q[i - (cap - 1)] BY <1>15, <3>3
      <4>2. mem'[r[i]] = IF i - (cap - 1) = m THEN Null ELSE q[(i - (cap - 1)) + 1]
        BY <1>1, <1>12, <1>16, <4>1 DEF Threaded
      <4>3. (i = (cap - 1) + m <=> i - (cap - 1) = m)
            /\ (i # (cap - 1) + m => (i - (cap - 1)) + 1 \in 1 .. m /\ (cap - 1) + ((i - (cap - 1)) + 1) = i + 1)
        BY <1>5, <1>13, <4>1
      <4>q. QED BY <1>15, <4>2, <4>3
    <3>q. QED BY <3>1, <3>2, <3>3
  <2>q. QED BY <1>18, <1>19, <2>1, <2>2, <2>3, <2>4, <2>5 DEF Threaded
<1>21. inUse' \subseteq Slots' BY <1>2, <1>4, <1>6, <1>8
<1>23. \E x, y : Threaded(x, y)' BY <1>20
<1>q. QED BY <1>3, <1>11, <1>21, <1>22, <1>23 DEF SlabInv

-----------------------------------------------------------------------------
(* The properties. *)

Hop(p) == IF p \in Slots /\ mem[p] # Junk THEN mem[p] ELSE Null

LEMMA ChainDefined ==
    ASSUME NEW top \in Nat, top = Cardinality(Slots)
    PROVE  Chain = [k \in 0 .. top |-> IF k = 0 THEN free_list ELSE Hop(Chain[k - 1])]
<1> DEFINE E(g, k) == g = [i \in 0 .. k |-> IF i = 0 THEN free_list ELSE Hop(g[i - 1])]
           T == {k \in Nat : ~ \E g : E(g, k)}
<1>1. T = {}
  <2> SUFFICES ASSUME T # {} PROVE FALSE OBVIOUS
  <2>1. PICK k \in T : \A m \in T : k <= m BY Smallest
  <2>2. CASE k = 0
    <3>1. E([i \in 0 .. 0 |-> free_list], 0) OBVIOUS
    <3>q. QED BY <2>2, <3>1
  <2>3. CASE k # 0
    <3>1. k - 1 \in Nat /\ k \in Nat BY <2>3
    <3>2. k - 1 \notin T
      <4>1. ~(k <= k - 1) BY <3>1
      <4> HIDE DEF T
      <4>q. QED BY <2>1, <4>1
    <3>3. PICK g : E(g, k - 1) BY <3>1, <3>2
    <3> DEFINE h == [i \in 0 .. k |-> IF i < k THEN g[i] ELSE Hop(g[k - 1])]
    <3>4. ASSUME NEW i \in 0 .. k PROVE h[i] = IF i = 0 THEN free_list ELSE Hop(h[i - 1])
      <4>1. CASE i = k
        <5>1. h[k] = Hop(g[k - 1]) /\ h[k - 1] = g[k - 1] BY <3>1
        <5>q. QED BY <2>3, <4>1, <5>1
      <4>2. CASE i # k
        <5>1. i \in 0 .. k - 1 BY <3>1, <4>2
        <5>2. g[i] = IF i = 0 THEN free_list ELSE Hop(g[i - 1]) BY <3>3, <5>1
        <5>3. h[i] = g[i] /\ (i # 0 => h[i - 1] = g[i - 1]) BY <3>1, <5>1
        <5>q. QED BY <5>2, <5>3
      <4>q. QED BY <4>1, <4>2
    <3>5. h = [i \in 0 .. k |-> h[i]] OBVIOUS
    <3> HIDE DEF h
    <3>6. E(h, k) BY <3>4, <3>5, Zenon
    <3>q. QED BY <2>1, <3>6
  <2>q. QED BY <2>2, <2>3
<1>2. \E g : E(g, top) BY <1>1
<1>3. E(CHOOSE g : E(g, top), top) BY <1>2, Zenon
<1>q. QED BY <1>3, ZenonT(40) DEF Chain, Hop

LEMMA ChainFollows ==
    ASSUME SlabInv, NEW m, NEW q, Threaded(m, q), NEW top \in Nat, top = Cardinality(Slots)
    PROVE  DOMAIN Chain = 0 .. top /\ \A k \in 0 .. top : Chain[k] = IF k < m THEN q[k + 1] ELSE Null
<1> USE SlabAssumption
<1>1. Slots \subseteq Addresses \ {0} /\ 0 \in Addresses BY Slotted DEF SlabInv, Addresses
<1>2. m \in Nat /\ q \in [1 .. m -> Slots \ inUse] /\ free_list = (IF m = 0 THEN Null ELSE q[1])
      /\ \A i \in 1 .. m : mem[q[i]] = IF i = m THEN Null ELSE q[i + 1]
  BY DEF Threaded
<1>3. Chain = [k \in 0 .. top |-> IF k = 0 THEN free_list ELSE Hop(Chain[k - 1])] BY ChainDefined
<1>4. DOMAIN Chain = 0 .. top /\ \A k \in 0 .. top : Chain[k] = IF k = 0 THEN free_list ELSE Hop(Chain[k - 1])
  BY <1>3
<1> DEFINE T == {k \in 0 .. top : Chain[k] # IF k < m THEN q[k + 1] ELSE Null}
<1>5. T = {}
  <2> SUFFICES ASSUME T # {} PROVE FALSE OBVIOUS
  <2>1. PICK k \in T : \A i \in T : k <= i
    <3>1. T \subseteq Nat OBVIOUS
    <3>q. QED BY <3>1, Smallest
  <2>2. CASE k = 0 BY <1>2, <1>4, <2>1, <2>2
  <2>3. CASE k # 0
    <3>1. k \in 0 .. top /\ k - 1 \in 0 .. top /\ k - 1 \notin T /\ k \in Nat BY <2>1, <2>3
    <3>2. Chain[k] = Hop(Chain[k - 1]) /\ Chain[k - 1] = IF k - 1 < m THEN q[k] ELSE Null BY <1>4, <2>3, <3>1
    <3>3. CASE k - 1 < m
      <4>1. k \in 1 .. m BY <1>2, <2>3, <3>1, <3>3
      <4>2. q[k] \in Slots /\ mem[q[k]] = IF k = m THEN Null ELSE q[k + 1] BY <1>2, <4>1
      <4>3. mem[q[k]] # Junk
        <5>1. CASE k = m BY <1>1, <4>2, <5>1 DEF Null
        <5>2. CASE k # m
          <6>1. k + 1 \in 1 .. m BY <1>2, <4>1, <5>2
          <6>q. QED BY <1>1, <1>2, <4>2, <5>2, <6>1
        <5>q. QED BY <5>1, <5>2
      <4>4. Chain[k] = IF k = m THEN Null ELSE q[k + 1] BY <3>2, <3>3, <4>2, <4>3 DEF Hop
      <4>q. QED BY <1>2, <2>1, <4>1, <4>4
    <3>4. CASE ~(k - 1 < m)
      <4>1. Chain[k] = Null BY <1>1, <3>2, <3>4 DEF Hop, Null
      <4>q. QED BY <1>2, <2>1, <3>1, <3>4, <4>1
    <3>q. QED BY <3>3, <3>4
  <2>q. QED BY <2>2, <2>3
<1>q. QED BY <1>4, <1>5

LEMMA ListMeans == ASSUME SlabInv PROVE FreeListExact
<1> USE SlabAssumption
<1>1. PICK m, q : Threaded(m, q) BY DEF SlabInv
<1>2. Slots \subseteq Addresses \ {0} BY Slotted DEF SlabInv
<1>3. m \in Nat /\ q \in [1 .. m -> Slots \ inUse] /\ (\A i, j \in 1 .. m : q[i] = q[j] => i = j)
      /\ \A p \in Slots \ inUse : \E i \in 1 .. m : q[i] = p
  BY <1>1 DEF Threaded
<1>4. IsFiniteSet(Slots)
  <2>1. IsFiniteSet(0 .. Space - 1) BY FS_Interval
  <2>2. Slots \in SUBSET (0 .. Space - 1) BY <1>2 DEF Addresses
  <2>q. QED BY <2>1, <2>2, FS_Subset
<1>5. PICK top \in Nat : top = Cardinality(Slots) BY <1>4, FS_CardinalityType
<1>6. Cardinality(Slots \ inUse) = m
  <2>1. q \in Bijection(1 .. m, Slots \ inUse) BY <1>3 DEF Bijection, Injection, Surjection, IsInjective
  <2>2. ExistsBijection(1 .. m, Slots \ inUse) BY <2>1 DEF ExistsBijection
  <2>3. IsFiniteSet(1 .. m) /\ Cardinality(1 .. m) = m BY <1>3, FS_Interval
  <2>q. QED BY <2>2, <2>3, FS_Bijection
<1>7. m <= top
  <2>1. Slots \ inUse \in SUBSET Slots OBVIOUS
  <2>2. Cardinality(Slots \ inUse) <= Cardinality(Slots) BY <1>4, <2>1, FS_Subset
  <2>q. QED BY <1>5, <1>6, <2>2
<1>8. DOMAIN Chain = 0 .. top /\ \A k \in 0 .. top : Chain[k] = IF k < m THEN q[k + 1] ELSE Null
  BY <1>1, <1>5, ChainFollows
<1>9. OnList = Slots \ inUse
  <2>1. ASSUME NEW p \in OnList PROVE p \in Slots \ inUse
    <3>1. PICK k \in 0 .. top : p = Chain[k] /\ p # Null BY <1>8 DEF OnList
    <3>2. k < m /\ p = q[k + 1] BY <1>8, <3>1
    <3>3. k + 1 \in 1 .. m BY <1>3, <3>2
    <3>q. QED BY <1>3, <3>2, <3>3
  <2>2. ASSUME NEW p \in Slots \ inUse PROVE p \in OnList
    <3>1. PICK i \in 1 .. m : q[i] = p BY <1>3
    <3>2. i - 1 \in 0 .. top /\ i - 1 < m /\ (i - 1) + 1 = i BY <1>3, <1>7
    <3>3. Chain[i - 1] = p BY <1>8, <3>1, <3>2
    <3>4. p # Null BY <1>2 DEF Null
    <3>q. QED BY <1>8, <3>2, <3>3, <3>4 DEF OnList
  <2>q. QED BY <2>1, <2>2
<1>10. Chain[m] = Null
  <2>1. m \in 0 .. top /\ ~(m < m) BY <1>3, <1>7
  <2>q. QED BY <1>8, <2>1
<1>q. QED BY <1>6, <1>9, <1>10 DEF FreeListExact

\* An object's bytes, in a DMA cache whole lines.
LEMMA TouchedIs == ASSUME SlabInv, NEW p \in Slots PROVE Touched(p) = p .. p + obj_size - 1
<1> USE SlabAssumption, SizeAssumption
<1>1. Fixed /\ Areas BY DEF SlabInv
<1>2. obj_size \in Nat \ {0} /\ config.size <= obj_size /\ config.size \in Nat BY <1>1, Parameters DEF Fixed
<1>3. p \in Nat /\ p + obj_size <= Space
  <2>1. p \in Addresses /\ p + obj_size <= Space BY <1>1, Slotted
  <2>q. QED BY <2>1 DEF Addresses
<1> DEFINE bytes == p .. p + (IF obj_size > config.size THEN obj_size ELSE config.size) - 1
<1>4. bytes = p .. p + obj_size - 1 BY <1>2
<1>5. CASE ~config.dma BY <1>4, <1>5 DEF Touched
<1>6. CASE config.dma
  <2>1. Touched(p) = {a \in Addresses : \E b \in p .. p + obj_size - 1 : LineOf(a) = LineOf(b)}
    BY <1>4, <1>6 DEF Touched
  <2>2. PICK n \in Nat : obj_size = n * Line BY <1>1, <1>6, DmaLines DEF Fixed
  <2>3. PICK x \in Nat : p = x * Line
    <3>1. PICK k \in 1 .. Count, i \in 0 .. slab_capacity - 1 : p = SlotOf(k, i) BY <1>1, SlotsAre
    <3>2. k \in 1 .. MaxSlabs BY <1>1 DEF Areas, Count
    <3>3. PICK y \in Nat : Area[k] = y * Line BY <1>1, <1>6, <3>2, DmaLines DEF Fixed
    <3>4. i \in Nat BY <1>1, Slotted
    <3>5. y * Line + i * (n * Line) = (y + i * n) * Line /\ y + i * n \in Nat BY <3>3, <3>4, <2>2, SMT
    <3>6. p = (y + i * n) * Line BY <2>2, <3>1, <3>3, <3>5 DEF SlotOf
    <3>q. QED BY <3>5, <3>6
  <2>4. p .. p + obj_size - 1 = Extent(x * Line, n * Line) BY <2>2, <2>3 DEF Extent
  <2>5. ASSUME NEW a \in Addresses, NEW b \in p .. p + obj_size - 1, LineOf(a) = LineOf(b)
        PROVE  a \in p .. p + obj_size - 1
    <3>1. a \in Nat BY DEF Addresses
    <3>q. QED BY <2>4, <2>5, <3>1, WholeLines
  <2>6. p .. p + obj_size - 1 \subseteq Addresses BY <1>2, <1>3 DEF Addresses
  <2>q. QED BY <2>1, <2>5, <2>6
<1>q. QED BY <1>5, <1>6

LEMMA ApartMeans == ASSUME SlabInv PROVE ObjectsApart
<1> USE SlabAssumption, SizeAssumption
<1>1. Fixed /\ Areas /\ inUse \subseteq Slots BY DEF SlabInv
<1>2. /\ obj_size \in Nat \ {0} /\ PtrSize <= obj_size /\ slab_capacity \in Nat \ {0}
      /\ Slots \subseteq Addresses
      /\ \A p, q \in Slots : p # q => p + obj_size <= q \/ q + obj_size <= p
  BY <1>1, Slotted
<1>3. Slots \subseteq Nat BY <1>2 DEF Addresses
<1>4. ASSUME NEW p \in inUse, NEW q \in Slots, q # p
      PROVE  (p .. p + obj_size - 1) \cap (q .. q + obj_size - 1) = {}
  <2>1. p \in Nat /\ q \in Nat /\ (p + obj_size <= q \/ q + obj_size <= p) BY <1>1, <1>2, <1>3, <1>4
  <2>q. QED BY <1>2, <2>1
<1>5. ASSUME NEW p \in inUse
      PROVE  /\ \A q \in Slots \ {p} : Touched(p) \cap (q .. q + PtrSize - 1) = {}
             /\ \A q \in inUse \ {p} : Touched(p) \cap Touched(q) = {}
             /\ \E k \in DOMAIN slabs : Touched(p) \subseteq slabs[k] .. slabs[k] + obj_size * slab_capacity - 1
  <2>1. p \in Slots /\ Touched(p) = p .. p + obj_size - 1 BY <1>1, TouchedIs
  <2>2. ASSUME NEW q \in Slots \ {p} PROVE Touched(p) \cap (q .. q + PtrSize - 1) = {}
    <3>1. q \in Nat /\ (q .. q + PtrSize - 1) \subseteq (q .. q + obj_size - 1) BY <1>2, <1>3
    <3>q. QED BY <1>4, <2>1, <3>1
  <2>3. ASSUME NEW q \in inUse \ {p} PROVE Touched(p) \cap Touched(q) = {}
    <3>1. q \in Slots /\ Touched(q) = q .. q + obj_size - 1 BY <1>1, TouchedIs
    <3>q. QED BY <1>4, <2>1, <3>1
  <2>4. \E k \in DOMAIN slabs : Touched(p) \subseteq slabs[k] .. slabs[k] + obj_size * slab_capacity - 1
    <3>1. PICK k \in DOMAIN slabs, i \in 0 .. slab_capacity - 1 : p = Slot(slabs[k], i) BY <2>1 DEF Slots
    <3>2. Count \in Nat /\ k \in 1 .. Count /\ slabs[k] = Area[Count + 1 - k] /\ Count + 1 - k \in 1 .. MaxSlabs
      <4>1. Count \in Nat /\ Count <= MaxSlabs /\ DOMAIN slabs = 1 .. Count BY <1>1 DEF Areas, Count
      <4>2. k \in 1 .. Count BY <4>1
      <4>3. slabs[k] = Area[Count + 1 - k] BY <1>1, <4>2 DEF Areas
      <4>q. QED BY <4>1, <4>2, <4>3
    <3>3. p = SlotOf(Count + 1 - k, i) BY <3>1, <3>2 DEF Slot, SlotOf
    <3>4. slabs[k] <= p /\ p + obj_size <= slabs[k] + obj_size * slab_capacity BY <1>1, <3>2, <3>3, SlotBounds
    <3>5. slabs[k] \in Nat /\ p \in Nat /\ obj_size * slab_capacity \in Nat
      <4>1. slabs[k] \in Nat BY <1>1 DEF Areas
      <4>2. obj_size * slab_capacity \in Nat BY <1>2, SMT
      <4>q. QED BY <1>3, <2>1, <4>1, <4>2
    <3>6. p .. p + obj_size - 1 \subseteq slabs[k] .. slabs[k] + obj_size * slab_capacity - 1
      BY <1>2, <3>4, <3>5
    <3>q. QED BY <2>1, <3>6
  <2>q. QED BY <2>2, <2>3, <2>4
<1>q. QED BY <1>5 DEF ObjectsApart

LEMMA SlabKeeps == ASSUME SlabInv, [Next]_vars PROVE SlabInv'
<1>1. CASE Alloc BY <1>1, AllocKeeps
<1>2. CASE Grow BY <1>2, GrowKeeps
<1>3. CASE UNCHANGED vars
  <2>1. UNCHANGED <<config, obj_size, obj_align, slab_capacity, free_list, slabs, mem, inUse>>
    BY <1>3 DEF vars, fixed
  <2>2. Slots' = Slots /\ Fixed' /\ Areas' BY <2>1 DEF Slots, Slot, SlabInv, Fixed, Areas, Count
  <2>3. PICK m, q : Threaded(m, q) BY DEF SlabInv
  <2>4. Threaded(m, q)' BY <2>1, <2>2, <2>3 DEF Threaded
  <2>5. \E m_1, q_1 : Threaded(m_1, q_1)' BY <2>4
  <2>q. QED BY <2>1, <2>2, <2>5 DEF SlabInv
<1>4. CASE Destroy BY <1>4, DestroyKeeps
<1>5. CASE \E p \in inUse : Free(p) BY <1>5, FreeKeeps
<1>q. QED BY <1>1, <1>2, <1>3, <1>4, <1>5 DEF Next, GrowFails

LEMMA SlabType == ASSUME SlabInv PROVE TypeOK
<1>1. obj_size \in Nat \ {0} /\ obj_align \in Nat \ {0} /\ slab_capacity \in Nat \ {0}
  BY Parameters DEF SlabInv, Fixed
<1>2. Slots \subseteq Addresses BY Slotted DEF SlabInv
<1>q. QED BY <1>1, <1>2, HeadIs DEF SlabInv, TypeOK

\* Type correctness of the cache and of the memory its objects lie in.
THEOREM TypeCorrect == Spec => []TypeOK
BY SlabStart, SlabKeeps, SlabType, PTL DEF Spec

\* Following the links from free_list visits every object that is free once, and then
\* ends: no object is handed out twice and none is lost.
THEOREM FreeListCorrect == Spec => []FreeListExact
BY SlabStart, SlabKeeps, ListMeans, PTL DEF Spec

\* Objects do not overlap, and those of a DMA cache share no cache line.
THEOREM ObjectsCorrect == Spec => []ObjectsApart
BY SlabStart, SlabKeeps, ApartMeans, PTL DEF Spec
=============================================================================
