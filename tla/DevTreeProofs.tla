---------------------------- MODULE DevTreeProofs ---------------------------
(***************************************************************************)
(* Address translation, the discovery of Emu68's memory and the lookup of  *)
(* nodes, for any width of a cell, any trees, calls and memory lists.      *)
(*                                                                         *)
(* dt_map(): MapInv says of the walk that the record it stopped at holds   *)
(* the span, or that none of those it has passed does.                     *)
(*                                                                         *)
(* dma_mem_init(): MemInv says of the first loop that the windows are those*)
(* of the records it has passed, and of the second that the table has the  *)
(* bounds of the headers kept, one for each.  What is left is arithmetic   *)
(* on sums that wrap (U64Is, U32Is) and on the places of records in the    *)
(* property (WholeRecords, PlacesAre).                                     *)
(*                                                                         *)
(* DT_FindByPHandle() and DT_GetInterrupt(): FindInv says of the search    *)
(* that the calls under way are a path in the tree, and that no node it    *)
(* has left behind has the phandle.  KeysInv counts the open keys.         *)
(***************************************************************************)
EXTENDS DmaMem, FiniteSetTheorems, WellFoundedInduction, TLAPS

-----------------------------------------------------------------------------
(* Numbers. *)

\* A set of naturals has a least element.
LEMMA Smallest == ASSUME NEW T \in SUBSET Nat, T # {} PROVE \E k \in T : \A m \in T : k <= m
<1>1. PICK k \in T : \A m \in T : ~ (<<m, k>> \in OpToRel(<, Nat))
  BY NatLessThanWellFounded, WFMin, Zenon
<1>2. \A m \in T : ~ (m < k) BY <1>1 DEF OpToRel
<1>q. QED BY <1>2

\* The values of a u64.
Wide == Cell * Cell

LEMMA WideIs == Wide \in Nat /\ Cell \in Nat /\ Cell > 1 /\ Cell < Wide
<1>1. Cell * 1 < Cell * Cell /\ Cell * Cell \in Nat BY CellAssumption, SMT
<1>q. QED BY <1>1, CellAssumption DEF Wide

\* A u64 is its value if that is small enough, and otherwise less by one turn, if by one.
LEMMA U64Is ==
    ASSUME NEW x \in Int
    PROVE  /\ U64(x) \in 0 .. Wide - 1
           /\ x \in 0 .. Wide - 1 => U64(x) = x
           /\ x \in Wide .. 2 * Wide - 1 => U64(x) = x - Wide
<1>1. \A w \in Nat : w > 0 => /\ x % w \in 0 .. w - 1
                              /\ x \in 0 .. w - 1 => x % w = x
                              /\ x \in w .. 2 * w - 1 => x % w = x - w
  BY SMT
<1>2. U64(x) = x % Wide BY DEF U64, Wide
<1>q. QED BY <1>1, <1>2, WideIs

LEMMA U32Is ==
    ASSUME NEW x \in Int
    PROVE  /\ U32(x) \in 0 .. Cell - 1
           /\ x \in 0 .. Cell - 1 => U32(x) = x
           /\ x \in Cell .. 2 * Cell - 1 => U32(x) = x - Cell
<1>1. \A w \in Nat : w > 0 => /\ x % w \in 0 .. w - 1
                              /\ x \in 0 .. w - 1 => x % w = x
                              /\ x \in w .. 2 * w - 1 => x % w = x - w
  BY SMT
<1>q. QED BY <1>1, CellAssumption DEF U32

\* The recursive definition has a value, and DT_GetNumber() fits its u64.
LEMMA ValueDefined ==
    ASSUME NEW d, Len(d) \in Nat
    PROVE  ValueAfter(d) = [i \in 0 .. Len(d) |->
               IF i = 0 THEN 0 ELSE U64(ValueAfter(d)[i - 1] * Cell + d[i])]
<1> DEFINE E(g, k) == g = [i \in 0 .. k |-> IF i = 0 THEN 0 ELSE U64(g[i - 1] * Cell + d[i])]
           T == {k \in Nat : ~ \E g : E(g, k)}
<1>1. T = {}
  <2> SUFFICES ASSUME T # {} PROVE FALSE OBVIOUS
  <2>1. PICK k \in T : \A m \in T : k <= m BY Smallest
  <2>2. CASE k = 0
    <3>1. E([i \in 0 .. 0 |-> 0], 0) OBVIOUS
    <3>q. QED BY <2>2, <3>1
  <2>3. CASE k # 0
    <3>1. k - 1 \in Nat /\ k \in Nat BY <2>3
    <3>2. k - 1 \notin T
      <4>1. ~(k <= k - 1) BY <3>1
      <4> HIDE DEF T
      <4>q. QED BY <2>1, <4>1
    <3>3. PICK g : E(g, k - 1) BY <3>1, <3>2
    <3> DEFINE h == [i \in 0 .. k |-> IF i < k THEN g[i] ELSE U64(g[k - 1] * Cell + d[k])]
    <3>4. ASSUME NEW i \in 0 .. k
          PROVE  h[i] = IF i = 0 THEN 0 ELSE U64(h[i - 1] * Cell + d[i])
      <4>1. CASE i = k
        <5>1. h[k] = U64(g[k - 1] * Cell + d[k]) /\ h[k - 1] = g[k - 1] BY <3>1
        <5>q. QED BY <2>3, <4>1, <5>1
      <4>2. CASE i # k
        <5>1. i \in 0 .. k - 1 BY <3>1, <4>2
        <5>2. g[i] = IF i = 0 THEN 0 ELSE U64(g[i - 1] * Cell + d[i]) BY <3>3, <5>1
        <5>3. h[i] = g[i] /\ (i # 0 => h[i - 1] = g[i - 1]) BY <3>1, <5>1
        <5>q. QED BY <5>2, <5>3
      <4>q. QED BY <4>1, <4>2
    <3>5. h = [i \in 0 .. k |-> h[i]] OBVIOUS
    <3> HIDE DEF h
    <3>6. E(h, k) BY <3>4, <3>5, Zenon
    <3>q. QED BY <2>1, <3>6
  <2>q. QED BY <2>2, <2>3
<1>2. \E g : E(g, Len(d)) BY <1>1
<1>3. E(CHOOSE g : E(g, Len(d)), Len(d)) BY <1>2, Zenon
<1>q. QED BY <1>3, Zenon DEF ValueAfter

LEMMA NumberIs == ASSUME NEW d \in Seq(0 .. Cell - 1) PROVE DT_GetNumber(d) \in 0 .. Wide - 1
<1> DEFINE T == {i \in 0 .. Len(d) : ValueAfter(d)[i] \notin 0 .. Wide - 1}
<1>0. Len(d) \in Nat /\ DOMAIN d = 1 .. Len(d) OBVIOUS
<1>1. T = {}
  <2> SUFFICES ASSUME T # {} PROVE FALSE OBVIOUS
  <2>1. PICK k \in T : \A m \in T : k <= m
    <3>1. T \subseteq Nat BY <1>0
    <3>q. QED BY <3>1, Smallest
  <2>2. CASE k = 0
    <3>1. ValueAfter(d)[0] = 0 BY <1>0, <2>2, ValueDefined
    <3>q. QED BY <2>1, <2>2, <3>1, WideIs
  <2>3. CASE k # 0
    <3>1. k - 1 \in 0 .. Len(d) /\ k \in 0 .. Len(d) /\ k \in 1 .. Len(d) /\ ~(k <= k - 1) BY <1>0, <2>1, <2>3
    <3>2. ValueAfter(d)[k - 1] \in 0 .. Wide - 1 BY <2>1, <3>1
    <3>3. d[k] \in Int BY <3>1, CellAssumption
    <3>4. ValueAfter(d)[k - 1] * Cell + d[k] \in Int BY <3>2, <3>3, WideIs, SMT
    <3>5. ValueAfter(d)[k] = U64(ValueAfter(d)[k - 1] * Cell + d[k]) BY <1>0, <2>3, <3>1, ValueDefined
    <3>q. QED BY <2>1, <3>4, <3>5, U64Is
  <2>q. QED BY <2>2, <2>3
<1>q. QED BY <1>0, <1>1 DEF DT_GetNumber

LEMMA NumberAtIs ==
    ASSUME NEW s \in Seq(0 .. Cell - 1), NEW pos \in Nat, NEW k \in Nat, pos + k <= Len(s)
    PROVE  NumberAt(s, pos, k) \in 0 .. Wide - 1 /\ (k = 0 => NumberAt(s, pos, k) = 0)
<1>1. CellsAt(s, pos, k) \in Seq(0 .. Cell - 1) /\ Len(CellsAt(s, pos, k)) = k
  <2> DEFINE S == 0 .. Cell - 1
  <2> HIDE DEF S
  <2>1. s \in Seq(S) BY DEF S
  <2>2. SubSeq(s, pos + 1, pos + k) \in Seq(S) /\ Len(SubSeq(s, pos + 1, pos + k)) = k
    BY <2>1
  <2>q. QED BY <2>2 DEF CellsAt, S
<1>2. ASSUME k = 0 PROVE NumberAt(s, pos, k) = 0
  BY <1>1, <1>2, ValueDefined DEF NumberAt, DT_GetNumber
<1>q. QED BY <1>1, <1>2, NumberIs DEF NumberAt

\* How many whole records there are.
LEMMA WholeRecords ==
    ASSUME NEW n \in Nat, NEW d \in Nat \ {0}, NEW k \in Nat
    PROVE  k \in 0 .. (n \div d) - 1 <=> k * d + d <= n
<1> DEFINE q == n \div d
<1>1. q \in Nat /\ q * d <= n /\ n < q * d + d BY SMT
<1> HIDE DEF q
<1>2. CASE k < q
  <2>1. (k + 1) * d <= q * d BY <1>1, <1>2, SMT
  <2>2. (k + 1) * d = k * d + d /\ k * d \in Nat /\ q * d \in Nat BY <1>1, SMT
  <2>q. QED BY <1>1, <1>2, <2>1, <2>2 DEF q
<1>3. CASE ~(k < q)
  <2>1. q * d <= k * d /\ k * d \in Nat /\ q * d \in Nat BY <1>1, <1>3, SMT
  <2>q. QED BY <1>1, <1>3, <2>1 DEF q
<1>q. QED BY <1>1, <1>2, <1>3

-----------------------------------------------------------------------------
(* dt_map() *)

\* The span a call asks about.
Addr == IF ToParent THEN NumberAt(call.reg, call.index * RegCells, bus.child) ELSE call.addr
Size == IF ToParent THEN 1 ELSE call.len

Called == bus \in Buses /\ call \in MapCalls /\ WellFormed
Asked == Called /\ ~Refused /\ bus.prop # Missing

LEMMA CallIs ==
    ASSUME Called
    PROVE  /\ bus.prop # Missing => bus.prop \in Seq(0 .. Cell - 1)
           /\ bus.child \in Nat /\ bus.parent \in Nat /\ bus.size \in Nat /\ RecordCells \in Nat
           /\ IsMap
BY MapAssumption DEF Called, RecordCells, IsMap

LEMMA SpanIs == ASSUME Called, ~Refused PROVE Addr \in 0 .. Wide - 1 /\ Size \in 1 .. Cell - 1
<1>1. CASE ToParent
  <2> DEFINE reg == call.reg
             i == call.index
             rc == RegCells
  <2>1. /\ reg \in Seq(0 .. Cell - 1) /\ i \in Nat /\ (i + 1) * rc < Cell
        /\ bus.child \in Nat /\ bus.size \in Nat /\ rc = bus.child + bus.size
    BY MapAssumption DEF Called, RegCells
  <2>2. bus.child # 0 /\ ~(Len(reg) < U32(U32(i + 1) * rc)) BY <1>1 DEF Refused
  <2> HIDE DEF reg, i, rc
  <2>3. rc \in Nat \ {0} /\ Len(reg) \in Nat BY <2>1, <2>2
  <2>4. i + 1 <= (i + 1) * rc /\ (i + 1) * rc \in Nat /\ (i + 1) * rc = i * rc + rc /\ i * rc \in Nat
    <3>1. \A x \in Nat, y \in Nat \ {0} :
             x + 1 <= (x + 1) * y /\ (x + 1) * y \in Nat /\ (x + 1) * y = x * y + y /\ x * y \in Nat
      <4>1. \A x \in Nat, y \in Nat : (x + 1) * y = x * y + y /\ x * y \in Nat BY SMT
      <4>2. \A x \in Nat, y \in Nat \ {0} : x <= x * y BY SMT
      <4>q. QED BY <4>1, <4>2
    <3>q. QED BY <2>1, <2>3, <3>1
  <2>5. U32(i + 1) = i + 1 BY <2>1, <2>4, U32Is, CellAssumption
  <2>6. U32((i + 1) * rc) = (i + 1) * rc BY <2>1, <2>4, U32Is, CellAssumption
  <2>7. i * rc + bus.child <= Len(reg)
    <3>1. ~(Len(reg) < (i + 1) * rc) BY <2>2, <2>5, <2>6
    <3>2. ~(Len(reg) < i * rc + rc) BY <2>4, <3>1
    <3> DEFINE x == i * rc
    <3>3. x \in Nat /\ ~(Len(reg) < x + rc) BY <2>4, <3>2
    <3> HIDE DEF x
    <3>4. x + bus.child <= Len(reg)
      <4>1. \A u, v, w, r, l \in Nat : r = v + w /\ ~(l < u + r) => u + v <= l OBVIOUS
      <4>q. QED BY <2>1, <2>3, <3>3, <4>1
    <3>q. QED BY <3>4 DEF x
  <2>8. NumberAt(reg, i * rc, bus.child) \in 0 .. Wide - 1 BY <2>1, <2>4, <2>7, NumberAtIs
  <2>q. QED BY <1>1, <2>8, CellAssumption DEF Addr, Size, reg, i, rc
<1>2. CASE ~ToParent
  <2>1. call.addr \in 0 .. Cell - 1 /\ call.len \in 0 .. Cell - 1 BY MapAssumption DEF Called
  <2>2. call.len # 0 BY <1>2 DEF Refused
  <2>q. QED BY <1>2, <2>1, <2>2, WideIs DEF Addr, Size
<1>q. QED BY <1>1, <1>2

LEMMA RecordIs ==
    ASSUME Called, bus.prop # Missing, NEW p \in Nat, p + RecordCells <= Len(bus.prop)
    PROVE  LET r == RecordAt(p) IN r[1] \in 0 .. Wide - 1 /\ r[2] \in 0 .. Wide - 1 /\ r[3] \in 0 .. Wide - 1
<1> DEFINE s == bus.prop
<1>1. /\ s \in Seq(0 .. Cell - 1) /\ bus.child \in Nat /\ bus.parent \in Nat /\ bus.size \in Nat
      /\ RecordCells = bus.child + bus.parent + bus.size
  BY CallIs DEF RecordCells
<1> HIDE DEF s
<1>2. /\ p + bus.child <= Len(s)
      /\ p + bus.child \in Nat /\ (p + bus.child) + bus.parent <= Len(s)
      /\ p + bus.child + bus.parent \in Nat /\ (p + bus.child + bus.parent) + bus.size <= Len(s)
  <2>1. \A a, b, c, l \in Nat : p + (a + b + c) <= l => /\ p + a <= l /\ p + a \in Nat /\ (p + a) + b <= l
                                                        /\ p + a + b \in Nat /\ (p + a + b) + c <= l
    OBVIOUS
  <2>2. p + (bus.child + bus.parent + bus.size) <= Len(s) /\ Len(s) \in Nat BY <1>1 DEF s
  <2>q. QED BY <1>1, <2>1, <2>2
<1>3. NumberAt(s, p, bus.child) \in 0 .. Wide - 1 BY <1>1, <1>2, NumberAtIs
<1>4. NumberAt(s, p + bus.child, bus.parent) \in 0 .. Wide - 1 BY <1>1, <1>2, NumberAtIs
<1>5. NumberAt(s, p + bus.child + bus.parent, bus.size) \in 0 .. Wide - 1 BY <1>1, <1>2, NumberAtIs
<1>q. QED BY <1>3, <1>4, <1>5 DEF RecordAt, s

\* A record is one that the walk comes to, and it does not wrap.
LEMMA RecordsAre ==
    ASSUME Called, bus.prop # Missing, RecordCells # 0, NEW k \in Nat
    PROVE  RecordAt(k * RecordCells) \in Records \/ ~(k * RecordCells + RecordCells <= Len(bus.prop))
<1>1. RecordCells \in Nat \ {0} /\ Len(bus.prop) \in Nat BY CallIs
<1>2. k \in 0 .. (Len(bus.prop) \div RecordCells) - 1 <=> k * RecordCells + RecordCells <= Len(bus.prop)
  BY <1>1, WholeRecords
<1>q. QED BY <1>2 DEF Records

LEMMA RecordsFrom ==
    ASSUME Called, bus.prop # Missing, NEW r \in Records
    PROVE  \E k \in Nat : /\ RecordCells # 0 /\ r = RecordAt(k * RecordCells)
                          /\ k * RecordCells \in Nat /\ k * RecordCells + RecordCells <= Len(bus.prop)
<1>1. RecordCells # 0 BY DEF Records
<1>2. PICK k \in 0 .. (Len(bus.prop) \div RecordCells) - 1 : r = RecordAt(k * RecordCells)
  BY <1>1 DEF Records
<1>3. RecordCells \in Nat \ {0} /\ Len(bus.prop) \in Nat BY <1>1, CallIs
<1>4. k \in Nat
  <2>1. Len(bus.prop) \div RecordCells \in Int BY <1>3, SMT
  <2>q. QED BY <1>2, <2>1
<1>5. k * RecordCells + RecordCells <= Len(bus.prop) BY <1>2, <1>3, <1>4, WholeRecords
<1>6. k * RecordCells \in Nat BY <1>3, <1>4, SMT
<1>q. QED BY <1>1, <1>2, <1>4, <1>5, <1>6

LEMMA RecordFits ==
    ASSUME Called, bus.prop # Missing, NEW r \in Records
    PROVE  /\ From(r) \in 0 .. Wide - 1 /\ To(r) \in 0 .. Wide - 1 /\ r[3] \in 0 .. Wide - 1
           /\ From(r) + r[3] <= Wide /\ To(r) + r[3] <= Wide
<1>1. r[1] \in 0 .. Wide - 1 /\ r[2] \in 0 .. Wide - 1 /\ r[3] \in 0 .. Wide - 1
  BY RecordsFrom, RecordIs
<1>2. r[1] + r[3] <= Width(bus.child) /\ r[2] + r[3] <= Width(bus.parent) BY DEF Called, WellFormed
<1>3. \A c \in Nat : Width(c) \in Nat /\ Width(c) <= Wide BY WideIs DEF Width, Wide
<1>4. Width(bus.child) \in Nat /\ Width(bus.child) <= Wide /\ Width(bus.parent) \in Nat /\ Width(bus.parent) <= Wide
  BY <1>3, CallIs
<1>5. r[1] + r[3] <= Wide /\ r[2] + r[3] <= Wide BY <1>1, <1>2, <1>4, WideIs
<1>q. QED BY <1>1, <1>5 DEF From, To

\* What it is for a record to hold a span.
LEMMA HoldsMeans ==
    ASSUME NEW f \in Nat, NEW s \in Nat, NEW a \in Nat, NEW n \in Nat \ {0}
    PROVE  Span(a, n) \subseteq Span(f, s) <=> f <= a /\ a + n <= f + s
<1>1. ASSUME Span(a, n) \subseteq Span(f, s) PROVE f <= a /\ a + n <= f + s
  <2>1. a \in Span(a, n) /\ a + n - 1 \in Span(a, n) BY DEF Span
  <2>2. a \in Span(f, s) /\ a + n - 1 \in Span(f, s) BY <1>1, <2>1
  <2>q. QED BY <2>2 DEF Span
<1>2. ASSUME f <= a, a + n <= f + s PROVE Span(a, n) \subseteq Span(f, s)
  BY <1>2 DEF Span
<1>q. QED BY <1>1, <1>2

-----------------------------------------------------------------------------
\* What the walk has found out: the record that held the span, or that none of those
\* it has come to does.
Hit(r) ==
    /\ Holds(r, Addr, Size)
    /\ hit = [covered |-> TRUE, mapped |-> To(r) + (Addr - From(r)),
              start |-> From(r), end |-> U64(From(r) + r[3])]

WalkInv ==
    /\ Asked
    /\ span = [addr |-> Addr, len |-> Size]
    /\ \E j \in Nat : at = j * RecordCells
    /\ bus.prop = <<>> => hit = [covered |-> TRUE, mapped |-> Addr, start |-> 0, end |-> 0]
    /\ bus.prop # <<>> =>
          \/ \E r \in Records : Hit(r)
          \/ /\ hit = [covered |-> FALSE, mapped |-> Addr, start |-> 0, end |-> 0]
             /\ \A k \in Nat : k * RecordCells < at /\ RecordAt(k * RecordCells) \in Records
                                 => ~Holds(RecordAt(k * RecordCells), Addr, Size)

MapInv ==
    IsMap =>
        /\ Called
        /\ pc \in {"entry", "walk", "done"}
        /\ pc = "entry" => at = 0 /\ result = No /\ hit = NoHit
        /\ pc = "walk" => WalkInv
        /\ pc = "done" => MapExact /\ WindowIsRecord

LEMMA MapStart == ASSUME Init PROVE MapInv
<1>1. CASE MapInit BY <1>1 DEF MapInit, MapInv, Called
<1>2. CASE NodesInit BY <1>2, NodesAssumption DEF NodesInit, MapInv, IsMap
<1>3. CASE MemInit BY <1>3 DEF MemInit, MapInv, IsMap
<1>q. QED BY <1>1, <1>2, <1>3 DEF Init

\* Refused, or without the property: the result stays No.
LEMMA EnterNoKeeps == ASSUME MapInv, EnterRefused \/ EnterMissing PROVE MapInv'
<1>1. UNCHANGED <<bus, call, at, span, hit, result>> /\ pc' = "done" /\ pc = "entry"
  BY DEF EnterRefused, EnterMissing
<1>2. Refused \/ bus.prop = Missing BY DEF EnterRefused, EnterMissing
<1>3. IsMap /\ Called /\ result = No BY <1>1 DEF MapInv, EnterRefused, EnterMissing
<1>4. IsMap' /\ Called' /\ (Refused \/ bus.prop = Missing)'
  BY <1>1, <1>2, <1>3 DEF IsMap, Called, WellFormed, Records, RecordAt, RecordCells, Refused, ToParent, RegCells
<1>5. result' = No BY <1>1, <1>3
<1>6. MapExact' BY <1>4, <1>5 DEF MapExact, No
<1>7. WindowIsRecord' BY <1>5 DEF WindowIsRecord, No
<1>q. QED BY <1>1, <1>4, <1>6, <1>7 DEF MapInv

\* What a call asks, and what the tree says of it, stays.
LEMMA QuestionStays ==
    ASSUME UNCHANGED <<bus, call>>
    PROVE  /\ Addr' = Addr /\ Size' = Size /\ RecordCells' = RecordCells /\ Records' = Records
           /\ Called' = Called /\ Refused' = Refused /\ Asked' = Asked /\ IsMap' = IsMap
           /\ \A p : RecordAt(p)' = RecordAt(p)
           /\ \A r : From(r)' = From(r) /\ To(r)' = To(r)
           /\ \A r, a, n : Holds(r, a, n)' = Holds(r, a, n)
BY DEF Addr, Size, RecordCells, Records, Called, WellFormed, Refused, Asked, IsMap, RecordAt, ToParent, RegCells, From, To, Holds

LEMMA EnterMapKeeps == ASSUME MapInv, EnterMap PROVE MapInv'
<1>1. /\ pc = "entry" /\ IsMap /\ ~Refused /\ bus.prop # Missing /\ pc' = "walk"
      /\ UNCHANGED <<bus, call, at, result>>
      /\ span' = [addr |-> Addr, len |-> Size]
      /\ hit' = [NoHit EXCEPT !.covered = (bus.prop = <<>>), !.mapped = Addr]
  BY DEF EnterMap, Addr, Size
<1>2. Called /\ at = 0 BY <1>1 DEF MapInv
<1>3. IsMap' /\ Called' /\ Asked' /\ Addr' = Addr /\ Size' = Size /\ RecordCells' = RecordCells
  BY <1>1, <1>2, QuestionStays DEF Asked
<1>4. RecordCells \in Nat BY <1>2, CallIs
<1>5. at' = 0 * RecordCells' BY <1>1, <1>2, <1>3, <1>4, SMT
<1>6. ASSUME NEW k \in Nat PROVE ~(k * RecordCells' < at')
  <2>1. k * RecordCells \in Nat BY <1>4, SMT
  <2>q. QED BY <1>1, <1>2, <1>3, <2>1
<1>7. hit' = [covered |-> bus.prop = <<>>, mapped |-> Addr, start |-> 0, end |-> 0]
  BY <1>1 DEF NoHit
<1>8. /\ bus.prop = <<>> => hit' = [covered |-> TRUE, mapped |-> Addr, start |-> 0, end |-> 0]
      /\ bus.prop # <<>> => hit' = [covered |-> FALSE, mapped |-> Addr, start |-> 0, end |-> 0]
  BY <1>7
<1>9. WalkInv' BY <1>1, <1>3, <1>5, <1>6, <1>8 DEF WalkInv
<1>q. QED BY <1>1, <1>3, <1>9 DEF MapInv

\* The offsets of the comparison do not wrap, and are about the span and the record.
LEMMA CoversMeans ==
    ASSUME WalkInv, NEW r \in Records
    PROVE  Covers(r) <=> Holds(r, Addr, Size)
<1>1. Addr \in 0 .. Wide - 1 /\ Size \in 1 .. Cell - 1 /\ From(r) \in 0 .. Wide - 1 /\ r[3] \in 0 .. Wide - 1
  BY SpanIs, RecordFits DEF WalkInv, Asked
<1>2. span.addr = Addr /\ span.len = Size BY DEF WalkInv
<1>3. Addr \in Nat /\ Size \in Nat \ {0} /\ From(r) \in Nat /\ r[3] \in Nat BY <1>1, WideIs
<1>4. Holds(r, Addr, Size) <=> From(r) <= Addr /\ Addr + Size <= From(r) + r[3]
  BY <1>3, HoldsMeans DEF Holds
<1>5. Covers(r) <=> Addr >= From(r) /\ Addr - From(r) < r[3] /\ Size <= r[3] - (Addr - From(r))
  BY <1>2 DEF Covers
<1>q. QED BY <1>3, <1>4, <1>5

\* Nor does what they are mapped to.
LEMMA MappedIs ==
    ASSUME Asked, NEW r \in Records, Holds(r, Addr, Size)
    PROVE  /\ From(r) <= Addr /\ Addr + Size <= From(r) + r[3]
           /\ U64(To(r) + (Addr - From(r))) = To(r) + (Addr - From(r))
           /\ To(r) + (Addr - From(r)) \in 0 .. Wide - 1
<1>1. Addr \in 0 .. Wide - 1 /\ Size \in 1 .. Cell - 1 BY SpanIs DEF Asked
<1>2. /\ From(r) \in 0 .. Wide - 1 /\ To(r) \in 0 .. Wide - 1 /\ r[3] \in 0 .. Wide - 1
      /\ From(r) + r[3] <= Wide /\ To(r) + r[3] <= Wide
  BY RecordFits DEF Asked
<1>3. From(r) <= Addr /\ Addr + Size <= From(r) + r[3]
  <2>1. Addr \in Nat /\ Size \in Nat \ {0} /\ From(r) \in Nat /\ r[3] \in Nat BY <1>1, <1>2, WideIs
  <2>2. Span(Addr, Size) \subseteq Span(From(r), r[3]) BY DEF Holds
  <2>q. QED BY <2>1, <2>2, HoldsMeans
<1>4. To(r) + (Addr - From(r)) \in 0 .. Wide - 1 BY <1>1, <1>2, <1>3, WideIs
<1>q. QED BY <1>3, <1>4, U64Is, WideIs

LEMMA WalkKeeps == ASSUME MapInv, IsMap, WalkRecord PROVE MapInv'
<1>1. /\ pc = "walk" /\ MoreRecords /\ pc' = "walk" /\ at' = at + RecordCells
      /\ UNCHANGED <<bus, call, span, result>>
      /\ LET r == RecordAt(at)
         IN  hit' = IF Covers(r) THEN [covered |-> TRUE, mapped |-> U64(To(r) + (span.addr - From(r))),
                                       start |-> From(r), end |-> U64(From(r) + r[3])]
                    ELSE hit
  BY DEF WalkRecord
<1>2. WalkInv /\ Called /\ Asked /\ span.addr = Addr BY <1>1 DEF MapInv, WalkInv
<1>3. /\ IsMap' /\ Called' /\ Asked' /\ Addr' = Addr /\ Size' = Size /\ RecordCells' = RecordCells
      /\ Records' = Records
      /\ \A p : RecordAt(p)' = RecordAt(p)
      /\ \A s : From(s)' = From(s) /\ To(s)' = To(s)
      /\ \A s, a, n : Holds(s, a, n)' = Holds(s, a, n)
  BY <1>1, <1>2, QuestionStays
<1>4. ~hit.covered /\ RecordCells \in Nat \ {0} /\ Len(bus.prop) - at >= RecordCells
  BY <1>1, <1>2, CallIs DEF MoreRecords
<1>5. PICK j \in Nat : at = j * RecordCells BY <1>2 DEF WalkInv
<1>6. at \in Nat /\ (j + 1) * RecordCells = at + RecordCells BY <1>4, <1>5, SMT
<1>7. bus.prop # Missing /\ bus.prop \in Seq(0 .. Cell - 1) /\ Len(bus.prop) \in Nat BY <1>2, CallIs DEF Asked
<1>8. PICK r \in Records : r = RecordAt(at)
  <2>1. j * RecordCells + RecordCells <= Len(bus.prop) BY <1>4, <1>5, <1>6, <1>7
  <2>q. QED BY <1>2, <1>4, <1>5, <1>7, <2>1, RecordsAre
<1>9. bus.prop # <<>>
  <2>1. Len(bus.prop) # 0 BY <1>4, <1>6, <1>7
  <2>q. QED BY <2>1
<1>10. at' = (j + 1) * RecordCells' /\ j + 1 \in Nat BY <1>1, <1>3, <1>6
<1>11. span' = [addr |-> Addr, len |-> Size]' BY <1>1, <1>2, <1>3 DEF WalkInv
<1>12. CASE Covers(r)
  <2>1. Holds(r, Addr, Size) BY <1>2, <1>8, <1>12, CoversMeans
  <2>2. hit' = [covered |-> TRUE, mapped |-> To(r) + (Addr - From(r)),
                start |-> From(r), end |-> U64(From(r) + r[3])]
    BY <1>1, <1>2, <1>8, <1>12, <2>1, MappedIs
  <2>3. U64(From(r) + r[3])' = U64(From(r) + r[3]) BY <1>3 DEF U64
  <2>4. \E s \in Records' : Hit(s)'
    BY <1>3, <1>8, <2>1, <2>2, <2>3 DEF Hit
  <2>5. WalkInv' BY <1>1, <1>3, <1>9, <1>10, <1>11, <2>4 DEF WalkInv
  <2>q. QED BY <1>1, <1>3, <2>5 DEF MapInv
<1>13. CASE ~Covers(r)
  <2>1. ~Holds(r, Addr, Size) BY <1>2, <1>8, <1>13, CoversMeans
  <2>2. /\ hit = [covered |-> FALSE, mapped |-> Addr, start |-> 0, end |-> 0]
        /\ \A k \in Nat : k * RecordCells < at /\ RecordAt(k * RecordCells) \in Records
                            => ~Holds(RecordAt(k * RecordCells), Addr, Size)
    <3>1. ~ \E s \in Records : Hit(s) BY <1>4 DEF Hit
    <3>q. QED BY <1>2, <1>9, <3>1 DEF WalkInv
  <2>3. ASSUME NEW k \in Nat, k * RecordCells < at + RecordCells, RecordAt(k * RecordCells) \in Records
        PROVE  ~Holds(RecordAt(k * RecordCells), Addr, Size)
    <3>1. CASE k <= j
      <4>1. CASE k = j BY <1>5, <1>8, <2>1, <4>1
      <4>2. CASE k # j
        <5>1. k * RecordCells < j * RecordCells BY <1>4, <3>1, <4>2, SMT
        <5>q. QED BY <1>5, <2>2, <2>3, <5>1
      <4>q. QED BY <4>1, <4>2
    <3>2. CASE ~(k <= j)
      <4>1. (j + 1) * RecordCells <= k * RecordCells /\ k * RecordCells \in Nat BY <1>4, <3>2, SMT
      <4>q. QED BY <1>4, <1>6, <2>3, <4>1
    <3>q. QED BY <3>1, <3>2
  <2>4. hit' = [covered |-> FALSE, mapped |-> Addr, start |-> 0, end |-> 0] BY <1>1, <1>8, <1>13, <2>2
  <2>5. \A k \in Nat : k * RecordCells' < at' /\ RecordAt(k * RecordCells)' \in Records'
                            => ~Holds(RecordAt(k * RecordCells), Addr, Size)'
    <3> SUFFICES ASSUME NEW k \in Nat, k * RecordCells' < at', RecordAt(k * RecordCells)' \in Records'
                 PROVE  ~Holds(RecordAt(k * RecordCells), Addr, Size)'
      OBVIOUS
    <3>1. RecordAt(k * RecordCells)' = RecordAt(k * RecordCells) BY <1>1 DEF RecordAt, RecordCells
    <3>2. Holds(RecordAt(k * RecordCells), Addr, Size)' = Holds(RecordAt(k * RecordCells), Addr, Size)
      BY <1>3, <3>1 DEF Holds
    <3>q. QED BY <1>1, <1>3, <2>3, <3>1, <3>2
  <2>6. WalkInv' BY <1>1, <1>3, <1>9, <1>10, <1>11, <2>4, <2>5 DEF WalkInv
  <2>q. QED BY <1>1, <1>3, <2>6 DEF MapInv
<1>q. QED BY <1>12, <1>13

\* At the end of the walk a record holds the span, or none does.
LEMMA WalkTells ==
    ASSUME WalkInv, ~MoreRecords
    PROVE  \/ bus.prop = <<>> /\ hit = [covered |-> TRUE, mapped |-> Addr, start |-> 0, end |-> 0]
           \/ bus.prop # <<>> /\ \E r \in Records : Hit(r)
           \/ bus.prop # <<>> /\ ~hit.covered /\ \A r \in Records : ~Holds(r, Addr, Size)
<1> SUFFICES ASSUME bus.prop # <<>>, ~ \E r \in Records : Hit(r), NEW r \in Records
             PROVE  ~hit.covered /\ ~Holds(r, Addr, Size)
  BY DEF WalkInv
<1>1. /\ hit = [covered |-> FALSE, mapped |-> Addr, start |-> 0, end |-> 0]
      /\ \A k \in Nat : k * RecordCells < at /\ RecordAt(k * RecordCells) \in Records
                          => ~Holds(RecordAt(k * RecordCells), Addr, Size)
  BY DEF WalkInv
<1>2. Called /\ bus.prop # Missing BY DEF WalkInv, Asked
<1>3. PICK k \in Nat : /\ RecordCells # 0 /\ r = RecordAt(k * RecordCells)
                       /\ k * RecordCells \in Nat /\ k * RecordCells + RecordCells <= Len(bus.prop)
  BY <1>2, RecordsFrom
<1>4. RecordCells \in Nat \ {0} /\ Len(bus.prop) \in Nat BY <1>2, <1>3, CallIs
<1>5. PICK j \in Nat : at = j * RecordCells BY DEF WalkInv
<1>6. at \in Nat BY <1>4, <1>5, SMT
<1>7. Len(bus.prop) < at + RecordCells BY <1>1, <1>4, <1>6 DEF MoreRecords
<1>8. k * RecordCells < at BY <1>3, <1>4, <1>6, <1>7
<1>q. QED BY <1>1, <1>3, <1>8

\* What dt_map() and its caller make of it.
Outcome ==
    IF ~Fits THEN No
    ELSE [ok |-> TRUE, out |-> U32(hit.mapped),
          start |-> IF call.op = "window" THEN RangeStart ELSE 0,
          end |-> IF call.op = "window" THEN RangeEnd ELSE 0]

LEMMA FitsMeans ==
    ASSUME WalkInv, hit.covered, hit.mapped \in 0 .. Wide - 1
    PROVE  /\ Fits <=> hit.mapped + Size - 1 <= Top
           /\ Fits => U32(hit.mapped) = hit.mapped
<1>1. Size \in 1 .. Cell - 1 /\ span.len = Size BY SpanIs DEF WalkInv, Asked
<1>2. U64(Size - 1) = Size - 1 BY <1>1, U64Is, WideIs
<1>3. Fits <=> hit.mapped <= Top /\ Size - 1 <= Top - hit.mapped BY <1>1, <1>2 DEF Fits
<1>q. QED BY <1>1, <1>3, U32Is, WideIs DEF Top

LEMMA OutcomeExact ==
    ASSUME WalkInv, ~MoreRecords
    PROVE  /\ Outcome.ok => Outcome.out \in Images(Addr, Size)
           /\ ~Outcome.ok => \/ Images(Addr, Size) = {}
                             \/ \E r \in Records : Holds(r, Addr, Size) /\ To(r) + (Addr - From(r)) + Size - 1 > Top
<1>0. Asked /\ Addr \in 0 .. Wide - 1 /\ Size \in 1 .. Cell - 1 BY SpanIs DEF WalkInv, Asked
<1>1. Outcome.ok <=> Fits BY DEF Outcome, No
<1>2. Outcome.ok => Outcome.out = U32(hit.mapped) BY DEF Outcome, No
<1>3. CASE bus.prop = <<>> /\ hit = [covered |-> TRUE, mapped |-> Addr, start |-> 0, end |-> 0]
  <2>1. hit.covered /\ hit.mapped = Addr BY <1>3
  <2>2. Fits <=> Addr + Size - 1 <= Top BY <1>0, <2>1, FitsMeans
  <2>3. Images(Addr, Size) = {m \in {Addr} : m + Size - 1 <= Top} BY <1>3 DEF Images
  <2>4. Fits => U32(hit.mapped) = Addr BY <1>0, <2>1, FitsMeans
  <2>q. QED BY <1>1, <1>2, <2>2, <2>3, <2>4
<1>4. CASE bus.prop # <<>> /\ \E r \in Records : Hit(r)
  <2>1. PICK r \in Records : Hit(r) BY <1>4
  <2>2. /\ Holds(r, Addr, Size) /\ hit.covered /\ hit.mapped = To(r) + (Addr - From(r))
    BY <2>1 DEF Hit
  <2>3. hit.mapped \in 0 .. Wide - 1 BY <1>0, <2>2, MappedIs
  <2>4. (Fits <=> hit.mapped + Size - 1 <= Top) /\ (Fits => U32(hit.mapped) = hit.mapped)
    BY <2>2, <2>3, FitsMeans
  <2>5. Images(Addr, Size) = {m \in {To(s) + (Addr - From(s)) : s \in {t \in Records : Holds(t, Addr, Size)}} :
                                m + Size - 1 <= Top}
    BY <1>4 DEF Images
  <2>6. Fits => hit.mapped \in Images(Addr, Size)
    <3>1. hit.mapped \in {To(s) + (Addr - From(s)) : s \in {t \in Records : Holds(t, Addr, Size)}} BY <2>2
    <3>q. QED BY <2>4, <2>5, <3>1
  <2>7. ~Fits => To(r) + (Addr - From(r)) + Size - 1 > Top
    <3>1. ~Fits => hit.mapped + Size - 1 > Top BY <1>0, <2>3, <2>4, WideIs DEF Top
    <3>q. QED BY <2>2, <3>1
  <2>q. QED BY <1>1, <1>2, <2>2, <2>4, <2>6, <2>7
<1>5. CASE bus.prop # <<>> /\ ~hit.covered /\ \A r \in Records : ~Holds(r, Addr, Size)
  <2>1. ~Fits BY <1>5 DEF Fits
  <2>2. Images(Addr, Size) = {} BY <1>5 DEF Images
  <2>q. QED BY <1>1, <2>1, <2>2
<1>q. QED BY <1>3, <1>4, <1>5, WalkTells

LEMMA CutAtTop ==
    ASSUME NEW a \in Nat, NEW n \in Nat, NEW top \in Nat, a + n <= top + 1,
           NEW f \in Nat, f <= a, NEW e \in Nat, e = top \/ a + n <= e
    PROVE  Span(a, n) \ {top} \subseteq Span(f, e - f)
<1> SUFFICES ASSUME NEW x \in Span(a, n), x # top PROVE x \in Span(f, e - f) OBVIOUS
<1>1. x \in Int /\ a <= x /\ x <= a + n - 1 BY DEF Span
<1>2. f <= x /\ x <= f + (e - f) - 1 BY <1>1
<1>q. QED BY <1>1, <1>2 DEF Span

\* The bounds from_range[] gets, whatever the record's end.
LEMMA OutcomeWindow ==
    ASSUME WalkInv, ~MoreRecords, call.op = "window", Outcome.ok
    PROVE  /\ Span(call.addr, call.len) \ {Top} \subseteq Span(Outcome.start, Outcome.end - Outcome.start)
           /\ bus.prop # <<>> =>
                \E r \in Records : /\ Holds(r, call.addr, call.len)
                                   /\ Span(Outcome.start, Outcome.end - Outcome.start) \subseteq Span(From(r), r[3])
<1>0. Asked /\ Addr \in 0 .. Wide - 1 /\ Size \in 1 .. Cell - 1 BY SpanIs DEF WalkInv, Asked
<1>1. Addr = call.addr /\ Size = call.len BY DEF Addr, Size, ToParent
<1>2. Addr \in 0 .. Cell - 1 /\ Addr + Size <= Cell
  BY <1>0, <1>1, MapAssumption DEF Asked, Called, WellFormed
<1>3. Fits /\ Outcome.start = RangeStart /\ Outcome.end = RangeEnd BY DEF Outcome, No
<1>4. Top \in Nat /\ Top = Cell - 1 /\ Cell \in Nat /\ Cell < Wide /\ Wide \in Nat BY WideIs DEF Top
<1>5. CASE bus.prop = <<>> /\ hit = [covered |-> TRUE, mapped |-> Addr, start |-> 0, end |-> 0]
  <2>1. hit.start = 0 /\ hit.end = 0 BY <1>5
  <2>2. RangeStart = 0 /\ RangeEnd = Top BY <1>4, <2>1 DEF RangeStart, RangeEnd
  <2>3. Span(Addr, Size) \ {Top} \subseteq Span(0, Top - 0)
    <3>1. Addr \in Nat /\ Size \in Nat /\ Addr + Size <= Top + 1 /\ 0 <= Addr BY <1>0, <1>2, <1>4
    <3> SUFFICES ASSUME NEW x \in Span(Addr, Size), x # Top PROVE x \in Span(0, Top - 0) OBVIOUS
    <3>2. x \in Int /\ Addr <= x /\ x <= Addr + Size - 1 BY DEF Span
    <3>q. QED BY <1>4, <3>1, <3>2 DEF Span
  <2>q. QED BY <1>1, <1>3, <1>5, <2>2, <2>3
<1>6. CASE bus.prop # <<>> /\ \E r \in Records : Hit(r)
  <2>1. PICK r \in Records : Hit(r) BY <1>6
  <2>2. Holds(r, Addr, Size) /\ hit.start = From(r) /\ hit.end = U64(From(r) + r[3]) BY <2>1 DEF Hit
  <2>3. From(r) <= Addr /\ Addr + Size <= From(r) + r[3] BY <1>0, <2>2, MappedIs
  <2>4. From(r) \in 0 .. Wide - 1 /\ r[3] \in 0 .. Wide - 1 /\ From(r) + r[3] <= Wide
    BY <1>0, RecordFits DEF Asked
  <2>5. RangeStart = From(r) BY <1>2, <1>4, <2>2, <2>3, <2>4 DEF RangeStart
  <2>6. From(r) + r[3] = Wide \/ hit.end = From(r) + r[3] BY <1>4, <2>2, <2>4, U64Is
  <2>7. From(r) + r[3] = Wide => hit.end = 0 BY <1>4, <2>2, <2>4, U64Is
  <2>8. RangeEnd \in Nat /\ RangeEnd <= From(r) + r[3] /\ (RangeEnd = Top \/ RangeEnd = From(r) + r[3])
    <3>1. CASE From(r) + r[3] = Wide
      <4>1. RangeEnd = Top BY <2>7, <3>1 DEF RangeEnd
      <4>q. QED BY <1>4, <2>4, <3>1, <4>1
    <3>2. CASE From(r) + r[3] # Wide
      <4>1. hit.end = From(r) + r[3] /\ hit.end \in Nat /\ hit.end # 0 BY <1>0, <2>3, <2>4, <2>6, <3>2
      <4>2. RangeEnd = IF hit.end > Top THEN Top ELSE hit.end BY <4>1 DEF RangeEnd
      <4>q. QED BY <1>4, <4>1, <4>2
    <3>q. QED BY <3>1, <3>2
  <2>9. Span(Addr, Size) \ {Top} \subseteq Span(From(r), RangeEnd - From(r))
    <3>1. Addr \in Nat /\ Size \in Nat /\ Addr + Size <= Top + 1 /\ From(r) \in Nat BY <1>0, <1>2, <1>4, <2>4
    <3>2. RangeEnd = Top \/ Addr + Size <= RangeEnd BY <2>3, <2>8
    <3>q. QED BY <1>4, <2>3, <2>8, <3>1, <3>2, CutAtTop
  <2>10. Span(From(r), RangeEnd - From(r)) \subseteq Span(From(r), r[3])
    BY <1>4, <2>4, <2>8 DEF Span
  <2>q. QED BY <1>1, <1>3, <2>2, <2>5, <2>9, <2>10
<1>7. CASE bus.prop # <<>> /\ ~hit.covered /\ \A r \in Records : ~Holds(r, Addr, Size)
  BY <1>3, <1>7 DEF Fits
<1>q. QED BY <1>5, <1>6, <1>7, WalkTells

LEMMA WalkEndKeeps == ASSUME MapInv, IsMap, WalkEnd PROVE MapInv'
<1>1. /\ pc = "walk" /\ ~MoreRecords /\ pc' = "done" /\ result' = Outcome
      /\ UNCHANGED <<bus, call, at, span, hit>>
  BY DEF WalkEnd, Outcome
<1>2. WalkInv /\ Called /\ Asked BY <1>1 DEF MapInv, WalkInv
<1>3. /\ IsMap' /\ Called' /\ Asked' /\ Addr' = Addr /\ Size' = Size /\ Records' = Records
      /\ \A s : From(s)' = From(s) /\ To(s)' = To(s)
      /\ \A s, a, n : Holds(s, a, n)' = Holds(s, a, n)
  BY <1>1, <1>2, QuestionStays
<1>4. Images(Addr, Size)' = Images(Addr, Size) BY <1>1, <1>3 DEF Images
<1>5. MapExact'
  <2>1. /\ result'.ok => result'.out \in Images(Addr, Size)
        /\ ~result'.ok => \/ Images(Addr, Size) = {}
                          \/ \E r \in Records : Holds(r, Addr, Size) /\ To(r) + (Addr - From(r)) + Size - 1 > Top
    BY <1>1, <1>2, OutcomeExact
  <2>2. /\ result'.ok => bus'.prop # Missing /\ result'.out \in Images(Addr, Size)'
        /\ ~result'.ok => \/ Images(Addr, Size)' = {}
                          \/ \E r \in Records' : Holds(r, Addr, Size)' /\ To(r)' + (Addr' - From(r)') + Size' - 1 > Top
    BY <1>1, <1>2, <1>3, <1>4, <2>1 DEF Asked
  <2>3. MapExact <=>
          (pc = "done" /\ IsMap /\ ~Refused =>
             /\ result.ok => bus.prop # Missing /\ result.out \in Images(Addr, Size)
             /\ bus.prop # Missing /\ ~result.ok =>
                   \/ Images(Addr, Size) = {}
                   \/ \E r \in Records : Holds(r, Addr, Size) /\ To(r) + (Addr - From(r)) + Size - 1 > Top)
    BY DEF MapExact, Addr, Size
  <2>q. QED BY <2>2 DEF MapExact, Addr, Size, Top
<1>6. WindowIsRecord'
  BY <1>1, <1>2, <1>3, OutcomeWindow DEF WindowIsRecord, Top, Span
<1>q. QED BY <1>1, <1>3, <1>5, <1>6 DEF MapInv

\* No other call is in the places of this one.
LEMMA MapKeeps == ASSUME MapInv, [Next]_devVars PROVE MapInv'
<1>1. CASE ~IsMap
  <2>1. call' = call
    BY DEF Next, MapNext, EnterRefused, EnterMissing, EnterMap, WalkRecord, WalkEnd, NodesNext, OpenTable, ReadEntry,
           OpenPath, EnterWalk, FindUp, OpenRoot, Visit, Back, WalkFound, OpenMemory, CloseMemory, ParseRecord,
           ParseEnd, ScanHeader, ScanEnd, devVars, vars, mapVars
  <2>q. QED BY <1>1, <2>1 DEF MapInv, IsMap
<1>2. CASE IsMap
  <2>1. pc \in {"entry", "walk", "done"} BY <1>2 DEF MapInv
  <2>2. CASE MapNext BY <1>2, <2>2, EnterNoKeeps, EnterMapKeeps, WalkKeeps, WalkEndKeeps DEF MapNext
  <2>3. ~NodesNext
    BY <1>2, <2>1 DEF IsMap, NodesNext, OpenTable, ReadEntry, OpenPath, EnterWalk, FindUp, OpenRoot, Visit, Back,
                      WalkFound, IsTable, IsPath, IsWalk
  <2>4. ~(OpenMemory \/ CloseMemory \/ ParseRecord \/ ParseEnd \/ ScanHeader \/ ScanEnd)
    BY <1>2, <2>1 DEF IsMap, OpenMemory, CloseMemory, ParseRecord, ParseEnd, ScanHeader, ScanEnd, IsInit
  <2>5. CASE UNCHANGED devVars
    <3>1. UNCHANGED <<bus, call, pc, at, span, hit, result>> BY <2>5 DEF devVars, vars, mapVars
    <3>2. IsMap' /\ Called' /\ Asked' = Asked /\ Addr' = Addr /\ Size' = Size /\ RecordCells' = RecordCells
      BY <1>2, <3>1, QuestionStays DEF MapInv
    <3>3. (WalkInv)' = WalkInv
      BY <3>1 DEF WalkInv, Asked, Called, WellFormed, Refused, Addr, Size, RecordCells, Records, RecordAt, Hit, Holds,
                  From, To, ToParent, RegCells
    <3>4. MapExact' = MapExact
      BY <3>1 DEF MapExact, IsMap, Refused, ToParent, RegCells, Images, Records, RecordCells, RecordAt, Holds, From, To
    <3>5. WindowIsRecord' = WindowIsRecord
      BY <3>1 DEF WindowIsRecord, Records, RecordCells, RecordAt, Holds, From, ToParent
    <3>q. QED BY <1>2, <3>1, <3>2, <3>3, <3>4, <3>5 DEF MapInv
  <2>q. QED BY <2>2, <2>3, <2>4, <2>5 DEF Next
<1>q. QED BY <1>1, <1>2

\* dt_map() gives a span an address exactly if the bus does, and one the bus gives it.
THEOREM TranslationExact == Spec => []MapExact
<1>1. MapInv => MapExact BY DEF MapInv, MapExact
<1>q. QED BY <1>1, MapStart, MapKeeps, PTL DEF Spec

\* The window of DT_GetDmaWindow() is part of the record that covers the span, and
\* holds the span.
THEOREM WindowExact == Spec => []WindowIsRecord
<1>1. MapInv => WindowIsRecord BY DEF MapInv, WindowIsRecord, IsMap
<1>q. QED BY <1>1, MapStart, MapKeeps, PTL DEF Spec

-----------------------------------------------------------------------------
(* dma_mem_init() *)

Discovering == call.tree \in Trees /\ call.memList \in MemLists

\* A record of "reg" by its place, and the window made of it.
BaseAt(p) == NumberAt(tree.reg, p, addrCells)
SizeAt(p) == NumberAt(tree.reg, p + addrCells, sizeCells)
Counts(p) == BaseAt(p) < TwoGB /\ SizeAt(p) # 0
WindowAt(p) == [start |-> U32(BaseAt(p)), end |-> U32(WindowEnd(BaseAt(p), SizeAt(p)))]

LEMMA TreeIs ==
    ASSUME Discovering
    PROVE  /\ tree.reg \in Seq(0 .. Cell - 1) /\ Len(tree.reg) \in Nat
           /\ addrCells \in Nat /\ sizeCells \in Nat /\ RegionCells = addrCells + sizeCells /\ RegionCells \in Nat
           /\ tree.found \in {"no_resource", "no_memory", "no_reg", "all"}
<1>1. /\ tree.reg \in Seq(0 .. Cell - 1) /\ tree.found \in {"no_resource", "no_memory", "no_reg", "all"}
      /\ tree.addrCells = Missing \/ tree.addrCells \in Seq(Nat)
      /\ tree.sizeCells = Missing \/ tree.sizeCells \in Seq(Nat)
  BY TreesAssumption, Zenon DEF Discovering, tree
<1>2. \A prop, default : (prop = Missing \/ prop \in Seq(Nat)) /\ default \in Nat => ULONGOf(prop, default) \in Nat
  <2> SUFFICES ASSUME NEW prop \in Seq(Nat), prop # <<>> PROVE prop[1] \in Nat
    BY DEF ULONGOf
  <2>1. Len(prop) \in Nat /\ Len(prop) # 0 /\ DOMAIN prop = 1 .. Len(prop) OBVIOUS
  <2>2. 1 \in DOMAIN prop BY <2>1
  <2>q. QED BY <2>2
<1>3. addrCells \in Nat /\ sizeCells \in Nat BY <1>1, <1>2 DEF addrCells, sizeCells
<1>q. QED BY <1>1, <1>3 DEF RegionCells

LEMMA HeaderIs ==
    ASSUME Discovering
    PROVE  /\ Len(call.memList) \in Nat /\ DOMAIN call.memList = 1 .. Len(call.memList)
           /\ \A i \in DOMAIN call.memList :
                LET mh == call.memList[i] IN mh.lo \in Nat /\ mh.hi \in Nat /\ mh.lo < mh.hi /\ mh.hi < Cell
<1>1. /\ call.memList \in Seq([fast : BOOLEAN, lo : Nat, hi : Nat])
      /\ \A i \in DOMAIN call.memList : call.memList[i].lo < call.memList[i].hi /\ call.memList[i].hi < Cell
  BY MemAssumption DEF Discovering
<1>2. \A i \in DOMAIN call.memList : call.memList[i] \in [fast : BOOLEAN, lo : Nat, hi : Nat]
  <2> DEFINE R == [fast : BOOLEAN, lo : Nat, hi : Nat]
             list == call.memList
  <2> HIDE DEF R, list
  <2>1. list \in Seq(R) BY <1>1 DEF R, list
  <2>2. \A i \in DOMAIN list : list[i] \in R BY <2>1
  <2>q. QED BY <2>2 DEF R, list
<1>3. \A i \in DOMAIN call.memList : call.memList[i].lo \in Nat /\ call.memList[i].hi \in Nat BY <1>2
<1>q. QED BY <1>1, <1>3

LEMMA PlaceIs ==
    ASSUME Discovering, NEW p \in Nat, p + RegionCells <= Len(tree.reg)
    PROVE  BaseAt(p) \in 0 .. Wide - 1 /\ SizeAt(p) \in 0 .. Wide - 1
<1>1. /\ tree.reg \in Seq(0 .. Cell - 1) /\ addrCells \in Nat /\ sizeCells \in Nat /\ RegionCells = addrCells + sizeCells
      /\ Len(tree.reg) \in Nat
  BY TreeIs
<1>2. p + addrCells <= Len(tree.reg) BY <1>1
<1>3. p + addrCells \in Nat /\ (p + addrCells) + sizeCells <= Len(tree.reg) BY <1>1
<1>q. QED BY <1>1, <1>2, <1>3, NumberAtIs DEF BaseAt, SizeAt

\* The places of records are those the loop comes to.
LEMMA PlacesAre ==
    ASSUME Discovering, tree.found = "all"
    PROVE  /\ RegionCells = 0 => Windows = {}
           /\ RegionCells # 0 =>
                \A p : p \in Windows <=> \E k \in Nat : /\ p = k * RegionCells
                                                        /\ k * RegionCells + RegionCells <= Len(tree.reg)
<1>1. RegionCells = 0 => Windows = {} BY DEF Windows
<1>2. ASSUME RegionCells # 0, NEW p
      PROVE  p \in Windows <=> \E k \in Nat : p = k * RegionCells /\ k * RegionCells + RegionCells <= Len(tree.reg)
  <2>1. RegionCells \in Nat \ {0} /\ Len(tree.reg) \in Nat BY <1>2, TreeIs
  <2>2. p \in Windows <=> \E k \in 0 .. (Len(tree.reg) \div RegionCells) - 1 : p = k * RegionCells
    BY <1>2 DEF Windows
  <2>3. \A k \in Nat : k \in 0 .. (Len(tree.reg) \div RegionCells) - 1
                         <=> k * RegionCells + RegionCells <= Len(tree.reg)
    BY <2>1, WholeRecords
  <2>4. \A k \in 0 .. (Len(tree.reg) \div RegionCells) - 1 : k \in Nat
    <3>1. Len(tree.reg) \div RegionCells \in Int BY <2>1, SMT
    <3>q. QED BY <3>1
  <2>q. QED BY <2>2, <2>3, <2>4
<1>q. QED BY <1>1, <1>2

\* As many as there are of them, the last is that many turns from the first.
LEMMA PlacesCount ==
    ASSUME Discovering, tree.found = "all", RegionCells # 0, NEW k \in Nat, k * RegionCells \in Windows
    PROVE  Cardinality(Windows) \in Nat /\ k < Cardinality(Windows)
<1>1. RegionCells \in Nat \ {0} /\ Len(tree.reg) \in Nat BY TreeIs
<1> DEFINE K == Len(tree.reg) \div RegionCells
           f == [i \in 0 .. K - 1 |-> i * RegionCells]
<1>2. K \in Nat
  <2>1. \A n \in Nat, d \in Nat \ {0} : n \div d \in Nat BY SMT
  <2>q. QED BY <1>1, <2>1
<1>3. Windows = {i * RegionCells : i \in 0 .. K - 1} BY DEF Windows
<1>4. k < K
  <2>1. PICK i \in Nat : k * RegionCells = i * RegionCells /\ i * RegionCells + RegionCells <= Len(tree.reg)
    BY PlacesAre
  <2>2. k \in 0 .. K - 1 BY <1>1, <2>1, WholeRecords
  <2>q. QED BY <1>2, <2>2
<1> HIDE DEF K
<1>5. f \in Bijection(0 .. K - 1, Windows)
  <2>1. f \in [0 .. K - 1 -> Windows] BY <1>3
  <2>2. ASSUME NEW i \in 0 .. K - 1, NEW j \in 0 .. K - 1, f[i] = f[j] PROVE i = j
    <3>1. i * RegionCells = j * RegionCells BY <2>2
    <3>2. i \in Nat /\ j \in Nat BY <1>2
    <3>q. QED BY <1>1, <3>1, <3>2, SMT
  <2>3. \A w \in Windows : \E i \in 0 .. K - 1 : f[i] = w BY <1>3
  <2>q. QED BY <2>1, <2>2, <2>3 DEF Bijection, Injection, Surjection, IsInjective
<1>6. IsFiniteSet(0 .. K - 1) /\ Cardinality(0 .. K - 1) = K
  <2>1. 0 \in Int /\ K - 1 \in Int /\ (K > 0 => (K - 1) - 0 + 1 = K) /\ ~(0 > K - 1 /\ K > 0) BY <1>2
  <2>q. QED BY <1>2, <1>4, <2>1, FS_Interval
<1>7. Cardinality(Windows) = K
  <2>1. ExistsBijection(0 .. K - 1, Windows) BY <1>5 DEF ExistsBijection
  <2>q. QED BY <1>6, <2>1, FS_Bijection
<1>q. QED BY <1>2, <1>4, <1>7

-----------------------------------------------------------------------------
\* The memory a record describes, and the header it holds.
DescribedAt(p) == Span(BaseAt(p), SizeAt(p)) \cap (0 .. TwoGB - 1)

LEMMA HalfIs == TwoGB \in Nat /\ TwoGB < Cell /\ TwoGB < Wide
<1>1. Cell \div 2 \in Nat /\ Cell \div 2 < Cell BY CellAssumption, SMT
<1>q. QED BY <1>1, WideIs DEF TwoGB

LEMMA WindowHolds ==
    ASSUME Discovering, NEW p \in Nat, p + RegionCells <= Len(tree.reg),
           NEW lo \in Nat, NEW hi \in Nat, lo < hi
    PROVE  /\ Span(lo, hi - lo) \subseteq DescribedAt(p) => Counts(p)
           /\ Counts(p) => (Span(lo, hi - lo) \subseteq DescribedAt(p)
                              <=> lo >= WindowAt(p).start /\ hi <= WindowAt(p).end)
<1> DEFINE b == BaseAt(p)
           s == SizeAt(p)
           e == U64(b + s)
           w == WindowEnd(b, s)
<1>1. b \in 0 .. Wide - 1 /\ s \in 0 .. Wide - 1 BY PlaceIs
<1>2. e = IF b + s < Wide THEN b + s ELSE b + s - Wide
  <2>1. PICK x \in Int : x = b + s BY <1>1
  <2>2. x \in 0 .. Wide - 1 \/ x \in Wide .. 2 * Wide - 1
    <3> HIDE DEF b, s
    <3>q. QED BY <1>1, <2>1, WideIs
  <2>3. /\ x \in 0 .. Wide - 1 => U64(x) = x
        /\ x \in Wide .. 2 * Wide - 1 => U64(x) = x - Wide
    BY U64Is
  <2>4. U64(x) = IF x < Wide THEN x ELSE x - Wide BY <2>2, <2>3, WideIs
  <2>5. e = U64(x) BY <2>1
  <2> HIDE DEF e, b, s
  <2>q. QED BY <1>1, <2>1, <2>4, <2>5, WideIs
<1>3. w = IF e < b \/ e > TwoGB THEN TwoGB ELSE e BY DEF WindowEnd
<1>4. Counts(p) <=> b < TwoGB /\ s # 0 BY DEF Counts
<1>5. WindowAt(p).start = U32(b) /\ WindowAt(p).end = U32(w) BY DEF WindowAt
<1>6. Span(lo, hi - lo) \subseteq DescribedAt(p) <=> Span(lo, hi - lo) \subseteq Span(b, s) /\ hi <= TwoGB
  <2>1. ASSUME Span(lo, hi - lo) \subseteq DescribedAt(p) PROVE hi <= TwoGB
    <3>1. hi - 1 \in Span(lo, hi - lo) BY DEF Span
    <3>2. hi - 1 \in 0 .. TwoGB - 1 BY <2>1, <3>1 DEF DescribedAt
    <3>q. QED BY <3>2, HalfIs
  <2>2. ASSUME hi <= TwoGB PROVE Span(lo, hi - lo) \subseteq 0 .. TwoGB - 1
    BY <2>2, HalfIs DEF Span
  <2>q. QED BY <2>1, <2>2 DEF DescribedAt
<1> HIDE DEF b, s, e, w
<1>7. Span(lo, hi - lo) \subseteq Span(b, s) <=> b <= lo /\ hi <= b + s
  <2>1. b \in Nat /\ s \in Nat /\ hi - lo \in Nat \ {0} /\ lo + (hi - lo) = hi BY <1>1, WideIs
  <2>q. QED BY <2>1, HoldsMeans
<1>8. Counts(p) => U32(b) = b BY <1>1, <1>4, HalfIs, U32Is, WideIs
<1>9. e \in Nat /\ w \in 0 .. TwoGB /\ w <= b + s BY <1>1, <1>2, <1>3, HalfIs, WideIs
<1>10. U32(w) = w BY <1>9, HalfIs, U32Is, WideIs
<1>11. Counts(p) => (hi <= w <=> hi <= b + s /\ hi <= TwoGB)
  <2>1. CASE b + s < Wide BY <1>1, <1>2, <1>3, <2>1, HalfIs, WideIs
  <2>2. CASE ~(b + s < Wide)
    <3>1. e < b BY <1>1, <1>2, <2>2, WideIs
    <3>2. w = TwoGB BY <1>3, <3>1
    <3>q. QED BY <1>1, <2>2, <3>2, HalfIs, WideIs
  <2>q. QED BY <2>1, <2>2
<1>12. b <= lo /\ hi <= b + s /\ hi <= TwoGB => Counts(p) BY <1>1, <1>4, HalfIs, WideIs
<1>q. QED BY <1>4, <1>5, <1>6, <1>7, <1>8, <1>10, <1>11, <1>12

\* The windows are made of the records the loop has come to.
ParsedTo(place) ==
    /\ windows \in Seq([start : Nat, end : Nat]) /\ Len(windows) <= MaxRegions
    /\ \A i \in DOMAIN windows : \E p \in Windows : Counts(p) /\ windows[i] = WindowAt(p)
    /\ \A p \in Windows : p < place /\ Counts(p) => \E i \in DOMAIN windows : windows[i] = WindowAt(p)

ParseInv ==
    /\ tree.found = "all" /\ regions = <<>> /\ scan = 1
    /\ ParsedTo(at)
    /\ \E j \in Nat : at = j * RegionCells /\ (RegionCells # 0 => Len(windows) <= j)
    /\ RegionCells = 0 => windows = <<>>

\* All of them, unless there are too many.
Parsed ==
    /\ tree.found = "all"
    /\ windows \in Seq([start : Nat, end : Nat])
    /\ \A i \in DOMAIN windows : \E p \in Windows : Counts(p) /\ windows[i] = WindowAt(p)
    /\ Cardinality(Windows) <= MaxRegions =>
         \A p \in Windows : Counts(p) => \E i \in DOMAIN windows : windows[i] = WindowAt(p)

\* The headers kept so far.
KeptTo(n) == {i \in 1 .. n : Kept(call.memList[i])}
Bounds(mh) == [start |-> mh.lo, end |-> mh.hi]

ScanInv ==
    /\ scan \in 1 .. Len(call.memList) + 1
    /\ regions \in Seq([start : Nat, end : Nat])
    /\ Len(regions) = Cardinality(KeptTo(scan - 1))
    /\ {regions[i] : i \in DOMAIN regions} = {Bounds(call.memList[i]) : i \in KeptTo(scan - 1)}

MemInv ==
    IsInit =>
        /\ Discovering
        /\ pc \in {"entry", "memory", "parse", "scan", "done"}
        /\ pc \in {"entry", "memory"} => at = 0 /\ windows = <<>> /\ scan = 1
        /\ pc = "memory" => regions = <<>> /\ tree.found \in {"no_reg", "all"}
        /\ pc = "parse" => ParseInv
        /\ pc = "scan" => Parsed /\ ScanInv
        /\ pc = "done" => RegionsExact /\ ReachableExact

LEMMA MemStart == ASSUME Init PROVE MemInv
<1>1. CASE MapInit BY <1>1, MapAssumption DEF MapInit, MemInv, IsInit
<1>2. CASE NodesInit BY <1>2, NodesAssumption DEF NodesInit, MemInv, IsInit
<1>3. CASE MemInit BY <1>3 DEF MemInit, MemInv, IsInit, Discovering
<1>q. QED BY <1>1, <1>2, <1>3 DEF Init

LEMMA TreeStays ==
    ASSUME UNCHANGED call
    PROVE  /\ Discovering' = Discovering /\ tree' = tree /\ addrCells' = addrCells /\ sizeCells' = sizeCells
           /\ RegionCells' = RegionCells /\ Windows' = Windows /\ IsInit' = IsInit
           /\ Described' = Described /\ Emu68Headers' = Emu68Headers
           /\ \A p : Counts(p)' = Counts(p) /\ WindowAt(p)' = WindowAt(p)
BY DEF Discovering, tree, addrCells, sizeCells, RegionCells, Windows, IsInit, Described, Emu68Headers, IsEmu68, Counts,
       WindowAt, BaseAt, SizeAt

\* Nothing is found: without the node no header is Emu68 RAM.
LEMMA NothingFound ==
    ASSUME tree.found # "all", UNCHANGED call, regions' = <<>> PROVE RegionsExact' /\ ReachableExact'
<1>1. Windows = {} BY DEF Windows
<1>2. Described = {} BY <1>1 DEF Described
<1>3. Emu68Headers = {} BY <1>2 DEF Emu68Headers, IsEmu68
<1>4. Emu68Headers' = {} BY <1>3, TreeStays
<1>5. DOMAIN regions' = {} OBVIOUS
<1>q. QED BY <1>4, <1>5 DEF RegionsExact, ReachableExact

LEMMA OpenKeeps == ASSUME MemInv, OpenMemory PROVE MemInv'
<1>1. /\ pc = "entry" /\ IsInit /\ regions' = <<>> /\ UNCHANGED <<call, at, windows, scan>>
      /\ \/ tree.found \in {"no_resource", "no_memory"} /\ pc' = "done"
         \/ tree.found \notin {"no_resource", "no_memory"} /\ pc' = "memory"
  BY DEF OpenMemory
<1>2. Discovering /\ Discovering' /\ IsInit' /\ tree' = tree BY <1>1, TreeStays DEF MemInv
<1>3. CASE tree.found \notin {"no_resource", "no_memory"} /\ pc' = "memory"
  <2>1. tree.found \in {"no_reg", "all"} BY <1>2, <1>3, TreeIs
  <2>q. QED BY <1>1, <1>2, <1>3, <2>1 DEF MemInv
<1>4. CASE tree.found \in {"no_resource", "no_memory"} /\ pc' = "done"
  <2>1. RegionsExact' /\ ReachableExact' BY <1>1, <1>4, NothingFound
  <2>q. QED BY <1>2, <1>4, <2>1 DEF MemInv
<1>q. QED BY <1>1, <1>3, <1>4

LEMMA CloseKeeps == ASSUME MemInv, IsInit, CloseMemory PROVE MemInv'
<1>1. /\ pc = "memory" /\ UNCHANGED <<call, at, windows, scan, regions>>
      /\ pc' = IF tree.found = "no_reg" THEN "done" ELSE "parse"
  BY DEF CloseMemory, memVars
<1>2. /\ Discovering /\ at = 0 /\ windows = <<>> /\ scan = 1 /\ regions = <<>>
      /\ tree.found \in {"no_reg", "all"}
  BY <1>1 DEF MemInv
<1>3. Discovering' /\ IsInit' /\ tree' = tree /\ RegionCells' = RegionCells /\ Windows' = Windows
  BY <1>1, <1>2, TreeStays
<1>4. CASE tree.found = "no_reg"
  <2>1. RegionsExact' /\ ReachableExact' BY <1>1, <1>2, <1>4, NothingFound
  <2>q. QED BY <1>1, <1>3, <1>4, <2>1 DEF MemInv
<1>5. CASE tree.found = "all"
  <2>1. windows' = <<>> /\ DOMAIN windows' = {} /\ Len(windows') = 0 BY <1>1, <1>2
  <2>2. RegionCells \in Nat /\ MaxRegions \in Nat BY <1>2, TreeIs, MaxAssumption
  <2>3. \A p \in Windows : ~(p < 0)
    <3> SUFFICES ASSUME NEW p \in Windows PROVE ~(p < 0) OBVIOUS
    <3>1. RegionCells # 0 BY DEF Windows
    <3>2. PICK k \in Nat : p = k * RegionCells BY <1>2, <1>5, <3>1, PlacesAre
    <3>3. k * RegionCells \in Nat BY <2>2, SMT
    <3>q. QED BY <3>2, <3>3
  <2>4. ParsedTo(at)'
    <3>1. windows' \in Seq([start : Nat, end : Nat]) /\ Len(windows') <= MaxRegions BY <2>1, <2>2
    <3>2. \A p \in Windows' : ~(p < at') BY <1>1, <1>2, <1>3, <2>3
    <3>q. QED BY <2>1, <3>1, <3>2 DEF ParsedTo
  <2>5. at' = 0 * RegionCells' /\ Len(windows') <= 0 BY <1>1, <1>2, <1>3, <2>1, <2>2, SMT
  <2>6. ParseInv' BY <1>1, <1>2, <1>3, <1>5, <2>1, <2>4, <2>5 DEF ParseInv
  <2>q. QED BY <1>1, <1>3, <1>5, <2>6 DEF MemInv
<1>q. QED BY <1>2, <1>4, <1>5

LEMMA ParseKeeps == ASSUME MemInv, IsInit, ParseRecord PROVE MemInv'
<1> DEFINE R == [start : Nat, end : Nat]
<1>1. /\ pc = "parse" /\ MoreWindows /\ at' = at + RegionCells /\ pc' = "parse"
      /\ windows' = IF BaseAt(at) >= TwoGB \/ SizeAt(at) = 0 THEN windows ELSE Append(windows, WindowAt(at))
      /\ UNCHANGED <<call, scan, regions>>
  BY DEF ParseRecord, BaseAt, SizeAt, WindowAt
<1>2. Discovering /\ ParseInv BY <1>1 DEF MemInv
<1>3. /\ Discovering' /\ IsInit' /\ tree' = tree /\ RegionCells' = RegionCells /\ Windows' = Windows
      /\ \A p : Counts(p)' = Counts(p) /\ WindowAt(p)' = WindowAt(p)
  BY <1>1, <1>2, TreeStays
<1>4. RegionCells \in Nat /\ Len(tree.reg) \in Nat /\ MaxRegions \in Nat BY <1>2, TreeIs, MaxAssumption
<1>5. PICK j \in Nat : at = j * RegionCells /\ (RegionCells # 0 => Len(windows) <= j) BY <1>2 DEF ParseInv
<1>6. at \in Nat /\ (j + 1) * RegionCells = at + RegionCells BY <1>4, <1>5, SMT
<1>7. at + RegionCells <= Len(tree.reg) /\ Len(windows) < MaxRegions BY <1>1 DEF MoreWindows
<1>8. BaseAt(at) \in 0 .. Wide - 1 /\ SizeAt(at) \in 0 .. Wide - 1 BY <1>2, <1>6, <1>7, PlaceIs
<1>9. BaseAt(at) >= TwoGB \/ SizeAt(at) = 0 <=> ~Counts(at) BY <1>8, HalfIs, WideIs DEF Counts
<1>10. RegionCells = 0 => ~Counts(at)
  <2> SUFFICES ASSUME RegionCells = 0 PROVE SizeAt(at) = 0 BY DEF Counts
  <2>1. tree.reg \in Seq(0 .. Cell - 1) /\ addrCells = 0 /\ sizeCells = 0 BY <1>2, TreeIs
  <2>2. at + addrCells \in Nat /\ (at + addrCells) + sizeCells <= Len(tree.reg) BY <1>4, <1>6, <1>7, <2>1
  <2>q. QED BY <2>1, <2>2, NumberAtIs DEF SizeAt
<1>11. RegionCells # 0 => at \in Windows
  BY <1>2, <1>5, <1>7, PlacesAre DEF ParseInv
<1>12. PICK here \in Nat : here = at BY <1>6
<1>13. WindowAt(here) \in R
  <2>1. BaseAt(here) \in Int /\ WindowEnd(BaseAt(here), SizeAt(here)) \in Int
    <3>1. BaseAt(here) \in Int /\ SizeAt(here) \in Int /\ BaseAt(here) + SizeAt(here) \in Int BY <1>8, <1>12
    <3>2. U64(BaseAt(here) + SizeAt(here)) \in Int BY <3>1, U64Is
    <3>q. QED BY <3>1, <3>2, HalfIs DEF WindowEnd
  <2>2. U32(BaseAt(here)) \in Nat /\ U32(WindowEnd(BaseAt(here), SizeAt(here))) \in Nat
    BY <2>1, U32Is, WideIs
  <2>q. QED BY <2>2 DEF WindowAt
<1>14. ASSUME NEW p \in Windows, p < at + RegionCells PROVE p < at \/ p = here
  <2>1. RegionCells # 0 BY DEF Windows
  <2>2. PICK k \in Nat : p = k * RegionCells BY <1>2, <2>1, PlacesAre DEF ParseInv
  <2>3. CASE k < j
    <3>1. k * RegionCells < j * RegionCells BY <1>4, <2>1, <2>3, SMT
    <3>q. QED BY <1>5, <2>2, <3>1
  <2>4. CASE k = j BY <1>5, <1>12, <2>2, <2>4
  <2>5. CASE k > j
    <3>1. (j + 1) * RegionCells <= k * RegionCells /\ k * RegionCells \in Nat BY <1>4, <2>5, SMT
    <3>q. QED BY <1>4, <1>6, <1>14, <2>2, <3>1
  <2>q. QED BY <2>3, <2>4, <2>5
<1>15. /\ windows \in Seq(R) /\ Len(windows) \in Nat
       /\ \A i \in DOMAIN windows : \E p \in Windows : Counts(p) /\ windows[i] = WindowAt(p)
       /\ \A p \in Windows : p < at /\ Counts(p) => \E i \in DOMAIN windows : windows[i] = WindowAt(p)
  BY <1>2 DEF ParseInv, ParsedTo
<1> HIDE DEF R
<1>16. at' = (j + 1) * RegionCells' /\ j + 1 \in Nat BY <1>1, <1>3, <1>6
<1>17. CASE ~Counts(at)
  <2>1. windows' = windows BY <1>1, <1>9, <1>17
  <2>2. \A p \in Windows : p < at' /\ Counts(p) => \E i \in DOMAIN windows : windows[i] = WindowAt(p)
    BY <1>1, <1>12, <1>14, <1>15, <1>17
  <2>3. ParsedTo(at)' BY <1>3, <1>4, <1>7, <1>15, <2>1, <2>2 DEF ParsedTo, R
  <2>4. RegionCells' # 0 => Len(windows') <= j + 1 BY <1>3, <1>5, <1>15, <2>1
  <2>5. ParseInv' BY <1>1, <1>2, <1>3, <1>16, <2>1, <2>3, <2>4 DEF ParseInv
  <2>q. QED BY <1>1, <1>3, <2>5 DEF MemInv
<1>18. CASE Counts(at)
  <2>1. windows' = Append(windows, WindowAt(here)) /\ here \in Windows /\ Counts(here) /\ RegionCells # 0
    BY <1>1, <1>9, <1>10, <1>11, <1>12, <1>18
  <2>2. /\ windows' \in Seq(R) /\ Len(windows') = Len(windows) + 1
        /\ DOMAIN windows = 1 .. Len(windows) /\ DOMAIN windows' = 1 .. Len(windows) + 1
        /\ \A i \in DOMAIN windows : windows'[i] = windows[i]
        /\ windows'[Len(windows) + 1] = WindowAt(here)
    BY <1>13, <1>15, <2>1
  <2>3. \A i \in DOMAIN windows' : \E p \in Windows : Counts(p) /\ windows'[i] = WindowAt(p)
    <3> SUFFICES ASSUME NEW i \in DOMAIN windows' PROVE \E p \in Windows : Counts(p) /\ windows'[i] = WindowAt(p)
      OBVIOUS
    <3>1. i \in DOMAIN windows \/ i = Len(windows) + 1 BY <1>15, <2>2
    <3>q. QED BY <1>15, <2>1, <2>2, <3>1
  <2>4. \A p \in Windows : p < at' /\ Counts(p) => \E i \in DOMAIN windows' : windows'[i] = WindowAt(p)
    <3> SUFFICES ASSUME NEW p \in Windows, p < at', Counts(p)
                 PROVE  \E i \in DOMAIN windows' : windows'[i] = WindowAt(p)
      OBVIOUS
    <3>1. CASE p < at
      <4>1. PICK i \in DOMAIN windows : windows[i] = WindowAt(p) BY <1>15, <3>1
      <4>2. i \in DOMAIN windows' BY <1>15, <2>2
      <4>q. QED BY <2>2, <4>1, <4>2
    <3>2. CASE p = here
      <4>1. Len(windows) + 1 \in DOMAIN windows' BY <1>15, <2>2
      <4>q. QED BY <2>2, <3>2, <4>1
    <3>q. QED BY <1>1, <1>14, <3>1, <3>2
  <2>5. ParsedTo(at)' BY <1>3, <1>4, <1>7, <1>15, <2>2, <2>3, <2>4 DEF ParsedTo, R
  <2>6. RegionCells' # 0 /\ Len(windows') <= j + 1 BY <1>3, <1>5, <1>15, <2>1, <2>2
  <2>7. ParseInv' BY <1>1, <1>2, <1>3, <1>16, <2>5, <2>6 DEF ParseInv
  <2>q. QED BY <1>1, <1>3, <2>7 DEF MemInv
<1>q. QED BY <1>17, <1>18

LEMMA ParseEndKeeps == ASSUME MemInv, IsInit, ParseEnd PROVE MemInv'
<1>1. /\ pc = "parse" /\ ~MoreWindows /\ pc' = "scan" /\ UNCHANGED <<call, windows, scan, regions>>
  BY DEF ParseEnd, memVars
<1>2. Discovering /\ ParseInv BY <1>1 DEF MemInv
<1>3. /\ Discovering' /\ IsInit' /\ tree' = tree /\ Windows' = Windows
      /\ \A p : Counts(p)' = Counts(p) /\ WindowAt(p)' = WindowAt(p)
  BY <1>1, <1>2, TreeStays
<1>4. RegionCells \in Nat /\ Len(tree.reg) \in Nat /\ MaxRegions \in Nat BY <1>2, TreeIs, MaxAssumption
<1>5. PICK j \in Nat : at = j * RegionCells /\ (RegionCells # 0 => Len(windows) <= j) BY <1>2 DEF ParseInv
<1>6. at \in Nat BY <1>4, <1>5, SMT
<1>7. /\ windows \in Seq([start : Nat, end : Nat]) /\ Len(windows) \in Nat /\ Len(windows) <= MaxRegions
      /\ \A i \in DOMAIN windows : \E p \in Windows : Counts(p) /\ windows[i] = WindowAt(p)
      /\ \A p \in Windows : p < at /\ Counts(p) => \E i \in DOMAIN windows : windows[i] = WindowAt(p)
  BY <1>2 DEF ParseInv, ParsedTo
<1>8. ~(at + RegionCells <= Len(tree.reg)) \/ Len(windows) = MaxRegions
  BY <1>1, <1>4, <1>7 DEF MoreWindows
<1>9. ASSUME Cardinality(Windows) <= MaxRegions, NEW p \in Windows PROVE p < at
  <2>1. RegionCells # 0 BY DEF Windows
  <2>2. PICK k \in Nat : p = k * RegionCells /\ k * RegionCells + RegionCells <= Len(tree.reg)
    BY <1>2, <2>1, PlacesAre DEF ParseInv
  <2>3. k * RegionCells \in Nat BY <1>4, SMT
  <2>4. CASE ~(at + RegionCells <= Len(tree.reg)) BY <1>4, <1>6, <2>2, <2>3, <2>4
  <2>5. CASE Len(windows) = MaxRegions
    <3>1. k < Cardinality(Windows) /\ Cardinality(Windows) \in Nat BY <1>2, <2>1, <2>2, PlacesCount DEF ParseInv
    <3>2. k < j BY <1>4, <1>5, <1>9, <2>1, <2>5, <3>1
    <3>3. k * RegionCells < j * RegionCells BY <1>4, <2>1, <3>2, SMT
    <3>q. QED BY <1>5, <2>2, <3>3
  <2>q. QED BY <1>8, <2>4, <2>5
<1>10. Parsed' BY <1>1, <1>2, <1>3, <1>7, <1>9 DEF Parsed, ParseInv
<1>11. ScanInv'
  <2>1. scan' = 1 /\ regions' = <<>> BY <1>1, <1>2 DEF ParseInv
  <2>2. Len(call'.memList) \in Nat BY <1>1, <1>2, HeaderIs
  <2>3. KeptTo(scan - 1)' = {} BY <2>1 DEF KeptTo
  <2>4. Len(regions') = 0 /\ DOMAIN regions' = {} /\ regions' \in Seq([start : Nat, end : Nat]) BY <2>1
  <2>q. QED BY <2>1, <2>2, <2>3, <2>4, FS_EmptySet DEF ScanInv
<1>q. QED BY <1>1, <1>3, <1>10, <1>11 DEF MemInv

\* A header that is kept is Emu68 RAM, and all of that is kept if the windows are all there.
LEMMA KeptMeans ==
    ASSUME Discovering, Parsed, NEW i \in DOMAIN call.memList
    PROVE  /\ Kept(call.memList[i]) => IsEmu68(call.memList[i])
           /\ Cardinality(Windows) <= MaxRegions => (IsEmu68(call.memList[i]) => Kept(call.memList[i]))
<1> DEFINE mh == call.memList[i]
<1>1. mh.lo \in Nat /\ mh.hi \in Nat /\ mh.lo < mh.hi BY HeaderIs
<1>2. Described = {DescribedAt(p) : p \in Windows} BY DEF Described, DescribedAt, BaseAt, SizeAt
<1>3. \A p \in Windows : p \in Nat /\ p + RegionCells <= Len(tree.reg)
  <2> SUFFICES ASSUME NEW p \in Windows PROVE p \in Nat /\ p + RegionCells <= Len(tree.reg) OBVIOUS
  <2>1. RegionCells # 0 BY DEF Windows
  <2>2. PICK k \in Nat : p = k * RegionCells /\ k * RegionCells + RegionCells <= Len(tree.reg)
    BY <2>1, PlacesAre DEF Parsed
  <2>3. RegionCells \in Nat BY TreeIs
  <2>4. k * RegionCells \in Nat BY <2>3, SMT
  <2>q. QED BY <2>2, <2>4
<1> HIDE DEF mh
<1>4. ASSUME NEW p \in Windows
      PROVE  /\ Span(mh.lo, mh.hi - mh.lo) \subseteq DescribedAt(p) => Counts(p)
             /\ Counts(p) => (Span(mh.lo, mh.hi - mh.lo) \subseteq DescribedAt(p) <=> InWindow(mh, WindowAt(p)))
  BY <1>1, <1>3, WindowHolds DEF InWindow
<1>5. ASSUME Kept(mh) PROVE IsEmu68(mh)
  <2>1. PICK k \in DOMAIN windows : InWindow(mh, windows[k]) BY <1>5 DEF Kept
  <2>2. PICK p \in Windows : Counts(p) /\ windows[k] = WindowAt(p) BY DEF Parsed
  <2>3. Span(mh.lo, mh.hi - mh.lo) \subseteq DescribedAt(p) BY <1>4, <2>1, <2>2
  <2>4. DescribedAt(p) \in Described BY <1>2
  <2>q. QED BY <1>5, <2>3, <2>4 DEF Kept, IsEmu68
<1>6. ASSUME Cardinality(Windows) <= MaxRegions, IsEmu68(mh) PROVE Kept(mh)
  <2>1. PICK p \in Windows : Span(mh.lo, mh.hi - mh.lo) \subseteq DescribedAt(p) BY <1>2, <1>6 DEF IsEmu68
  <2>2. Counts(p) /\ InWindow(mh, WindowAt(p)) BY <1>4, <2>1
  <2>3. PICK k \in DOMAIN windows : windows[k] = WindowAt(p) BY <1>6, <2>2 DEF Parsed
  <2>q. QED BY <1>6, <2>2, <2>3 DEF Kept, IsEmu68
<1>q. QED BY <1>5, <1>6 DEF mh

LEMMA KeptFinite == ASSUME NEW n \in Nat PROVE IsFiniteSet(KeptTo(n)) /\ Cardinality(KeptTo(n)) \in Nat
<1>1. IsFiniteSet(1 .. n) BY FS_Interval
<1>2. KeptTo(n) \in SUBSET (1 .. n) BY DEF KeptTo
<1>3. IsFiniteSet(KeptTo(n)) BY <1>1, <1>2, FS_Subset
<1>q. QED BY <1>3, FS_CardinalityType

LEMMA ScanKeeps == ASSUME MemInv, IsInit, ScanHeader PROVE MemInv'
<1> DEFINE mh == call.memList[scan]
           R == [start : Nat, end : Nat]
<1>1. /\ pc = "scan" /\ MoreHeaders /\ pc' = "scan" /\ scan' = scan + 1
      /\ UNCHANGED <<call, windows>>
      /\ regions' = IF Kept(mh) THEN Append(regions, Bounds(mh)) ELSE regions
  BY DEF ScanHeader, vars, mapVars, Bounds
<1>2. Discovering /\ Parsed /\ ScanInv BY <1>1 DEF MemInv
<1>3. Discovering' /\ IsInit' /\ tree' = tree BY <1>1, <1>2, TreeStays
<1>4. Parsed' BY <1>1, <1>2, TreeStays DEF Parsed
<1>5. \A n : KeptTo(n)' = KeptTo(n) BY <1>1 DEF KeptTo, Kept
<1>6. /\ Len(call.memList) \in Nat /\ scan \in 1 .. Len(call.memList) /\ scan \in DOMAIN call.memList
  BY <1>1, <1>2, HeaderIs DEF ScanInv, MoreHeaders
<1>7. PICK k \in Nat : k = scan - 1 /\ scan = k + 1 BY <1>6
<1>8. scan' - 1 = k + 1 /\ scan' \in 1 .. Len(call'.memList) + 1 BY <1>1, <1>6, <1>7
<1>9. IsFiniteSet(KeptTo(k)) /\ Cardinality(KeptTo(k)) \in Nat BY KeptFinite
<1>10. /\ regions \in Seq(R) /\ Len(regions) = Cardinality(KeptTo(k))
       /\ {regions[i] : i \in DOMAIN regions} = {Bounds(call.memList[i]) : i \in KeptTo(k)}
  BY <1>2, <1>7 DEF ScanInv
<1>11. mh.lo \in Nat /\ mh.hi \in Nat BY <1>2, <1>6, HeaderIs
<1> HIDE DEF R
<1>12. CASE ~Kept(mh)
  <2>1. KeptTo(k + 1) = KeptTo(k) BY <1>7, <1>12 DEF KeptTo
  <2>2. regions' = regions BY <1>1, <1>12
  <2>3. ScanInv' BY <1>1, <1>5, <1>8, <1>10, <2>1, <2>2 DEF ScanInv, R
  <2>q. QED BY <1>1, <1>3, <1>4, <2>3 DEF MemInv
<1>13. CASE Kept(mh)
  <2>1. KeptTo(k + 1) = KeptTo(k) \cup {k + 1} /\ k + 1 \notin KeptTo(k) BY <1>7, <1>13 DEF KeptTo
  <2>2. Cardinality(KeptTo(k + 1)) = Cardinality(KeptTo(k)) + 1 BY <1>9, <2>1, FS_AddElement
  <2>3. Bounds(mh) \in R BY <1>11 DEF Bounds, R
  <2>4. regions' = Append(regions, Bounds(mh)) BY <1>1, <1>13
  <2> DEFINE new == Bounds(mh)
             len == Len(regions)
  <2> HIDE DEF new, mh
  <2>5. /\ regions' \in Seq(R) /\ len \in Nat /\ Len(regions') = len + 1
        /\ DOMAIN regions = 1 .. len /\ DOMAIN regions' = 1 .. len + 1
        /\ \A i \in DOMAIN regions : regions'[i] = regions[i]
        /\ regions'[len + 1] = new
    BY <1>10, <2>3, <2>4 DEF new
  <2>6. {regions'[i] : i \in DOMAIN regions'} = {regions[i] : i \in DOMAIN regions} \cup {new}
    <3>1. DOMAIN regions' = DOMAIN regions \cup {len + 1} BY <2>5
    <3>q. QED BY <2>5, <3>1
  <2>7. {Bounds(call.memList[i]) : i \in KeptTo(k + 1)} = {Bounds(call.memList[i]) : i \in KeptTo(k)} \cup {new}
    BY <1>7, <2>1 DEF new, mh
  <2>8. {regions'[i] : i \in DOMAIN regions'} = {Bounds(call'.memList[i]) : i \in KeptTo(scan - 1)'}
    <3>1. KeptTo(scan - 1)' = KeptTo(k + 1) /\ call' = call BY <1>1, <1>5, <1>8
    <3>2. {regions'[i] : i \in DOMAIN regions'} = {Bounds(call.memList[i]) : i \in KeptTo(k + 1)}
      BY <1>10, <2>6, <2>7
    <3>q. QED BY <3>1, <3>2
  <2>9. Len(regions') = Cardinality(KeptTo(scan - 1)') BY <1>5, <1>8, <1>10, <2>2, <2>5
  <2>10. ScanInv' BY <1>8, <2>5, <2>8, <2>9 DEF ScanInv, R, Bounds
  <2>q. QED BY <1>1, <1>3, <1>4, <2>10 DEF MemInv
<1>q. QED BY <1>12, <1>13

\* The table when the scan is over: at the end of the list, or full.
LEMMA TableIs ==
    ASSUME Discovering, Parsed, ScanInv, ~MoreHeaders
    PROVE  LET found == {Bounds(call.memList[i]) : i \in Emu68Headers}
               held  == {regions[i] : i \in DOMAIN regions}
           IN  /\ held \subseteq found
               /\ Cardinality(Windows) <= MaxRegions /\ Cardinality(Emu68Headers) <= MaxRegions => held = found
<1>1. /\ Len(call.memList) \in Nat /\ DOMAIN call.memList = 1 .. Len(call.memList)
      /\ scan \in 1 .. Len(call.memList) + 1 /\ MaxRegions \in Nat
  BY HeaderIs, MaxAssumption DEF ScanInv
<1>2. PICK k \in Nat : k = scan - 1 /\ k <= Len(call.memList) BY <1>1
<1>3. /\ Len(regions) = Cardinality(KeptTo(k)) /\ Cardinality(KeptTo(k)) \in Nat
      /\ {regions[i] : i \in DOMAIN regions} = {Bounds(call.memList[i]) : i \in KeptTo(k)}
  BY <1>2, KeptFinite DEF ScanInv
<1>4. KeptTo(k) \subseteq Emu68Headers BY <1>1, <1>2, KeptMeans DEF KeptTo, Emu68Headers
<1>5. ASSUME Cardinality(Windows) <= MaxRegions, Cardinality(Emu68Headers) <= MaxRegions
      PROVE  KeptTo(k) = Emu68Headers
  <2>1. CASE ~(scan <= Len(call.memList))
    <3>1. k = Len(call.memList) BY <1>1, <1>2, <2>1
    <3>2. Emu68Headers \subseteq KeptTo(k) BY <1>1, <1>5, <3>1, KeptMeans DEF KeptTo, Emu68Headers
    <3>q. QED BY <1>4, <3>2
  <2>2. CASE ~(Len(regions) < MaxRegions)
    <3>1. IsFiniteSet(Emu68Headers)
      <4>1. IsFiniteSet(1 .. Len(call.memList)) BY <1>1, FS_Interval
      <4>2. Emu68Headers \in SUBSET (1 .. Len(call.memList)) BY <1>1 DEF Emu68Headers
      <4>q. QED BY <4>1, <4>2, FS_Subset
    <3>2. Cardinality(Emu68Headers) \in Nat BY <3>1, FS_CardinalityType
    <3>3. Cardinality(KeptTo(k)) >= Cardinality(Emu68Headers) BY <1>1, <1>3, <1>5, <2>2, <3>2
    <3>4. Cardinality(KeptTo(k)) <= Cardinality(Emu68Headers)
          /\ (Cardinality(KeptTo(k)) = Cardinality(Emu68Headers) => KeptTo(k) = Emu68Headers)
      BY <1>4, <3>1, FS_Subset
    <3>q. QED BY <1>3, <3>2, <3>3, <3>4
  <2>q. QED BY <2>1, <2>2 DEF MoreHeaders
<1>q. QED BY <1>3, <1>4, <1>5

\* An end that has wrapped lies before its start.
LEMMA ReachMeans ==
    ASSUME NEW lo \in Nat, NEW hi \in Nat, lo < hi, hi < Cell, NEW addr \in 0 .. Cell - 1, NEW n \in 1 .. Cell - 1
    PROVE  Span(addr, n) \subseteq Span(lo, hi - lo)
             <=> U32(addr + n) >= addr /\ addr >= lo /\ U32(addr + n) <= hi
<1>1. Cell \in Nat /\ addr \in Nat /\ n \in Nat \ {0} BY WideIs
<1>2. Span(addr, n) \subseteq Span(lo, hi - lo) <=> lo <= addr /\ addr + n <= hi
  <2>1. PICK d \in Nat \ {0} : d = hi - lo /\ lo + d = hi OBVIOUS
  <2>2. Span(addr, n) \subseteq Span(lo, d) <=> lo <= addr /\ addr + n <= lo + d BY <1>1, HoldsMeans
  <2>q. QED BY <2>1, <2>2
<1>3. PICK x \in Int : x = addr + n BY <1>1
<1>4. U32(x) = IF x < Cell THEN x ELSE x - Cell
  <2>1. x \in 0 .. Cell - 1 \/ x \in Cell .. 2 * Cell - 1 BY <1>1, <1>3
  <2>q. QED BY <1>1, <1>3, <2>1, U32Is
<1>5. U32(x) >= addr /\ addr >= lo /\ U32(x) <= hi <=> lo <= addr /\ x <= hi BY <1>1, <1>3, <1>4
<1>q. QED BY <1>2, <1>3, <1>5

LEMMA ScanEndKeeps == ASSUME MemInv, IsInit, ScanEnd PROVE MemInv'
<1>1. pc = "scan" /\ ~MoreHeaders /\ pc' = "done" /\ UNCHANGED <<call, windows, scan, regions>>
  BY DEF ScanEnd, memVars
<1>2. Discovering /\ Parsed /\ ScanInv BY <1>1 DEF MemInv
<1>3. Discovering' /\ IsInit' /\ Windows' = Windows /\ Emu68Headers' = Emu68Headers BY <1>1, <1>2, TreeStays
<1>4. RegionsExact' BY <1>1, <1>2, <1>3, TableIs DEF RegionsExact, Bounds
<1>5. ASSUME NEW i \in DOMAIN regions
      PROVE  /\ regions[i].start \in Nat /\ regions[i].end \in Nat
             /\ regions[i].start < regions[i].end /\ regions[i].end < Cell
  <2>1. regions[i] \in {Bounds(call.memList[j]) : j \in Emu68Headers} BY <1>1, <1>2, TableIs
  <2>2. PICK j \in DOMAIN call.memList : regions[i] = Bounds(call.memList[j]) BY <2>1 DEF Emu68Headers
  <2>q. QED BY <1>2, <2>2, HeaderIs DEF Bounds
<1>6. ReachableExact'
  <2> SUFFICES ASSUME regions # <<>>, NEW addr \in 0 .. Cell - 1, NEW len \in 0 .. Cell - 1
               PROVE  Reachable(addr, len) <=>
                        \E i \in DOMAIN regions :
                            Span(addr, IF len = 0 THEN 1 ELSE len)
                              \subseteq Span(regions[i].start, regions[i].end - regions[i].start)
    BY <1>1 DEF ReachableExact, Reachable
  <2>1. PICK n \in 1 .. Cell - 1 : n = IF len = 0 THEN 1 ELSE len
    <3>1. (IF len = 0 THEN 1 ELSE len) \in 1 .. Cell - 1 BY WideIs
    <3>q. QED BY <3>1
  <2>2. Reachable(addr, len) <=>
          \E i \in DOMAIN regions : /\ U32(addr + n) >= addr
                                    /\ addr >= regions[i].start /\ U32(addr + n) <= regions[i].end
    BY <2>1 DEF Reachable
  <2>3. \A i \in DOMAIN regions :
          Span(addr, n) \subseteq Span(regions[i].start, regions[i].end - regions[i].start)
            <=> U32(addr + n) >= addr /\ addr >= regions[i].start /\ U32(addr + n) <= regions[i].end
    BY <1>5, ReachMeans
  <2>q. QED BY <2>1, <2>2, <2>3
<1>q. QED BY <1>1, <1>3, <1>4, <1>6 DEF MemInv

LEMMA MemKeeps == ASSUME MemInv, [Next]_devVars PROVE MemInv'
<1>1. CASE ~IsInit
  <2>1. call' = call
    BY DEF Next, MapNext, EnterRefused, EnterMissing, EnterMap, WalkRecord, WalkEnd, NodesNext, OpenTable, ReadEntry,
           OpenPath, EnterWalk, FindUp, OpenRoot, Visit, Back, WalkFound, OpenMemory, CloseMemory, ParseRecord,
           ParseEnd, ScanHeader, ScanEnd, devVars, vars, mapVars
  <2>q. QED BY <1>1, <2>1 DEF MemInv, IsInit
<1>2. CASE IsInit
  <2>1. pc \in {"entry", "memory", "parse", "scan", "done"} BY <1>2 DEF MemInv
  <2>2. ~MapNext
    BY <1>2, <2>1 DEF IsInit, MapNext, EnterRefused, EnterMissing, EnterMap, WalkRecord, WalkEnd, IsMap
  <2>3. ~NodesNext
    BY <1>2, <2>1 DEF IsInit, NodesNext, OpenTable, ReadEntry, OpenPath, EnterWalk, FindUp, OpenRoot, Visit, Back,
                      WalkFound, IsTable, IsPath, IsWalk
  <2>4. CASE OpenMemory \/ CloseMemory \/ ParseRecord \/ ParseEnd \/ ScanHeader \/ ScanEnd
    BY <1>2, <2>4, OpenKeeps, CloseKeeps, ParseKeeps, ParseEndKeeps, ScanKeeps, ScanEndKeeps
  <2>5. CASE UNCHANGED devVars
    <3>1. UNCHANGED <<call, pc, at, windows, scan, regions>> BY <2>5 DEF devVars, vars, mapVars, memVars
    <3>2. /\ Discovering' = Discovering /\ tree' = tree /\ RegionCells' = RegionCells /\ Windows' = Windows
          /\ IsInit' = IsInit /\ Emu68Headers' = Emu68Headers
          /\ \A p : Counts(p)' = Counts(p) /\ WindowAt(p)' = WindowAt(p)
      BY <3>1, TreeStays
    <3>3. ParseInv' = ParseInv BY <3>1, <3>2 DEF ParseInv, ParsedTo
    <3>4. Parsed' = Parsed BY <3>1, <3>2 DEF Parsed
    <3>5. ScanInv' = ScanInv BY <3>1 DEF ScanInv, KeptTo, Kept
    <3>6. RegionsExact' = RegionsExact BY <3>1, <3>2 DEF RegionsExact
    <3>7. ReachableExact' = ReachableExact BY <3>1, <3>2 DEF ReachableExact, Reachable
    <3>q. QED BY <3>1, <3>2, <3>3, <3>4, <3>5, <3>6, <3>7 DEF MemInv
  <2>q. QED BY <2>2, <2>3, <2>4, <2>5 DEF Next
<1>q. QED BY <1>1, <1>2

\* The table of dma_mem_init() has the headers that lie in memory the tree describes,
\* and nothing else; it has all of them if there is room for all.
THEOREM DiscoveryExact == Spec => []RegionsExact
<1>1. MemInv => RegionsExact BY DEF MemInv, RegionsExact
<1>q. QED BY <1>1, MemStart, MemKeeps, PTL DEF Spec

\* dma_addr_reachable() is true of a transfer exactly if all of it lies in one region.
THEOREM TransfersExact == Spec => []ReachableExact
<1>1. MemInv => ReachableExact BY DEF MemInv, ReachableExact
<1>q. QED BY <1>1, MemStart, MemKeeps, PTL DEF Spec

-----------------------------------------------------------------------------
(* Node lookup.  That nodes are numbered in the order of the tree makes a      *)
(* subtree an interval: n is below k if no node after k, up to n, has a parent *)
(* before k.  With that no path has to be followed.                            *)

Walking == call \in NodeCalls /\ IsWalk
Under(k, n) == k <= n /\ \A m \in k + 1 .. n : k <= tree.parent[m]

LEMMA OrderIs ==
    ASSUME Walking
    PROVE  /\ Nodes = 1 .. Len(tree.parent) /\ Len(tree.parent) \in Nat \ {0}
           /\ \A c \in Nodes : /\ c \in Nat /\ tree.parent[c] \in Nat /\ tree.parent[c] < c
                               /\ tree.parent[c] \in Nodes <=> c # 1
                               /\ tree.parent[c] = 0 <=> c = 1
           /\ \A c, d \in Nodes : tree.parent[d] < c /\ c < d => tree.parent[d] <= tree.parent[c]
           /\ call.key \in {0} \cup Nodes
<1> DEFINE p == tree.parent
<1>1. InOrder(p) /\ call.key \in 0 .. Len(p) BY NodesAssumption DEF Walking, IsWalk, tree
<1>2. Nodes = DOMAIN p BY DEF Nodes
<1> HIDE DEF p
<1>3. /\ p \in Seq(Nat) /\ p # <<>> /\ p[1] = 0
      /\ \A c \in 2 .. Len(p) : p[c] \in 1 .. c - 1
      /\ \A c, d \in DOMAIN p : p[d] < c /\ c < d => p[d] <= p[c]
  BY <1>1 DEF InOrder
<1>4. Len(p) \in Nat \ {0} /\ DOMAIN p = 1 .. Len(p) BY <1>3
<1>5. \A c \in 1 .. Len(p) : /\ c \in Nat /\ p[c] \in Nat /\ p[c] < c
                             /\ p[c] \in 1 .. Len(p) <=> c # 1
                             /\ p[c] = 0 <=> c = 1
  <2> SUFFICES ASSUME NEW c \in 1 .. Len(p)
               PROVE  /\ c \in Nat /\ p[c] \in Nat /\ p[c] < c
                      /\ p[c] \in 1 .. Len(p) <=> c # 1
                      /\ p[c] = 0 <=> c = 1
    OBVIOUS
  <2>1. c = 1 \/ c \in 2 .. Len(p) BY <1>4
  <2>2. c \in 2 .. Len(p) => p[c] \in 1 .. c - 1 BY <1>3
  <2>q. QED BY <1>3, <1>4, <2>1, <2>2
<1>q. QED BY <1>1, <1>2, <1>3, <1>4, <1>5 DEF p

LEMMA AboveIs == ASSUME Walking, NEW k \in Nodes, NEW n \in Nodes PROVE k \in Above(n) <=> Under(k, n)
<1> DEFINE p == tree.parent
<1>0. /\ Nodes = 1 .. Len(p) /\ Len(p) \in Nat /\ k \in Nat /\ n \in Nat
      /\ \A c \in Nodes : c \in Nat /\ p[c] \in Nat /\ p[c] < c
      /\ \A c, d \in Nodes : p[d] < c /\ c < d => p[d] <= p[c]
  BY OrderIs
<1> HIDE DEF p
<1>1. ASSUME k \in Above(n) PROVE Under(k, n)
  <2>1. PICK path \in SUBSET Nodes : {k, n} \subseteq path /\ \A q \in path \ {k} : p[q] \in path
    BY <1>1 DEF Above, p
  <2>2. path \subseteq Nat BY <1>0
  <2>3. \A q \in path : k <= q
    <3>1. PICK l \in path : \A q \in path : l <= q BY <2>1, <2>2, Smallest
    <3>2. l = k
      <4> SUFFICES ASSUME l # k PROVE FALSE OBVIOUS
      <4>1. p[l] \in path BY <2>1
      <4>2. l <= p[l] BY <3>1, <4>1
      <4>3. p[l] < l /\ p[l] \in Nat /\ l \in Nat BY <1>0
      <4>q. QED BY <4>2, <4>3
    <3>q. QED BY <3>1, <3>2
  <2>4. ASSUME NEW m \in k + 1 .. n PROVE k <= p[m]
    <3>1. m \in Nodes /\ m \in Nat /\ k < m /\ m <= n BY <1>0
    <3> DEFINE T == {q \in path : m <= q}
    <3>2. n \in T BY <2>1, <3>1
    <3>3. T \subseteq Nat BY <2>2
    <3>4. PICK q \in T : \A r \in T : q <= r BY <3>2, <3>3, Smallest
    <3>5. q \in path /\ m <= q /\ q \in Nodes /\ q \in Nat BY <3>4, <2>2
    <3>6. p[q] \in path /\ k <= p[q] /\ p[q] < q /\ p[q] \in Nat
      <4>1. q # k BY <1>0, <3>1, <3>5
      <4>2. p[q] \in path BY <2>1, <3>5, <4>1
      <4>q. QED BY <1>0, <2>3, <3>5, <4>2
    <3>7. p[q] < m
      <4> SUFFICES ASSUME ~(p[q] < m) PROVE FALSE OBVIOUS
      <4>1. p[q] \in T BY <3>1, <3>6
      <4>2. q <= p[q] BY <3>4, <4>1
      <4>q. QED BY <3>5, <3>6, <4>2
    <3>8. CASE q = m BY <3>6, <3>8
    <3>9. CASE q # m
      <4>1. m < q BY <3>1, <3>5, <3>9
      <4>2. p[q] <= p[m] BY <1>0, <3>1, <3>5, <3>7, <4>1
      <4>3. p[m] \in Nat BY <1>0, <3>1
      <4>q. QED BY <1>0, <3>6, <4>2, <4>3
    <3>q. QED BY <3>8, <3>9
  <2>q. QED BY <2>1, <2>3, <2>4 DEF Under, p
<1>2. ASSUME Under(k, n) PROVE k \in Above(n)
  <2>1. k <= n /\ \A m \in k + 1 .. n : k <= p[m] BY <1>2 DEF Under, p
  <2>2. k .. n \in SUBSET Nodes /\ {k, n} \subseteq k .. n BY <1>0, <2>1
  <2>3. ASSUME NEW q \in (k .. n) \ {k} PROVE p[q] \in k .. n
    <3>1. q \in k + 1 .. n /\ q \in Nodes BY <1>0, <2>2
    <3>2. k <= p[q] /\ p[q] < q /\ p[q] \in Nat BY <1>0, <2>1, <3>1
    <3>q. QED BY <1>0, <3>1, <3>2
  <2>q. QED BY <2>2, <2>3 DEF Above, p
<1>q. QED BY <1>1, <1>2

LEMMA LowestIs ==
    ASSUME NEW s \in SUBSET (Nat \ {0})
    PROVE  /\ Lowest(s) = 0 <=> s = {}
           /\ s # {} => Lowest(s) \in s /\ \A d \in s : Lowest(s) <= d
           /\ \A c \in s : (\A d \in s : c <= d) => Lowest(s) = c
<1>1. CASE s = {} BY <1>1 DEF Lowest
<1>2. CASE s # {}
  <2>1. Lowest(s) = CHOOSE c \in s : \A d \in s : c <= d BY <1>2 DEF Lowest
  <2>2. \E c \in s : \A d \in s : c <= d BY <1>2, Smallest
  <2>3. Lowest(s) \in s /\ \A d \in s : Lowest(s) <= d BY <2>1, <2>2
  <2>4. ASSUME NEW c \in s, \A d \in s : c <= d PROVE Lowest(s) = c
    <3>1. c <= Lowest(s) /\ Lowest(s) <= c /\ c \in Nat /\ Lowest(s) \in Nat BY <2>3, <2>4
    <3>q. QED BY <3>1
  <2>q. QED BY <1>2, <2>3, <2>4
<1>q. QED BY <1>1, <1>2

\* A node without children has nothing below it; otherwise the first child is the next node.
LEMMA ChildIs ==
    ASSUME Walking, NEW k \in Nodes
    PROVE  /\ FirstChild(k) = 0 => \A n \in Nodes : Under(k, n) => n = k
           /\ FirstChild(k) # 0 => FirstChild(k) = k + 1 /\ k + 1 \in Nodes /\ tree.parent[k + 1] = k
<1> DEFINE p == tree.parent
<1>0. /\ Nodes = 1 .. Len(p) /\ Len(p) \in Nat /\ k \in Nat
      /\ \A c \in Nodes : c \in Nat /\ p[c] \in Nat /\ p[c] < c
      /\ \A c, d \in Nodes : p[d] < c /\ c < d => p[d] <= p[c]
  BY OrderIs
<1>1. Children(k) = {c \in Nodes : p[c] = k} BY DEF Children
<1>2. Children(k) \in SUBSET (Nat \ {0}) BY <1>0, <1>1
<1> HIDE DEF p
<1>3. ASSUME FirstChild(k) = 0, NEW n \in Nodes, Under(k, n), n # k PROVE FALSE
  <2>1. Children(k) = {} BY <1>2, <1>3, LowestIs DEF FirstChild
  <2>2. k + 1 \in k + 1 .. n /\ k + 1 \in Nodes BY <1>0, <1>3 DEF Under
  <2>3. k <= p[k + 1] /\ p[k + 1] < k + 1 /\ p[k + 1] \in Nat BY <1>0, <1>3, <2>2 DEF Under, p
  <2>4. p[k + 1] = k BY <1>0, <2>3
  <2>q. QED BY <1>1, <2>1, <2>2, <2>4
<1>4. ASSUME FirstChild(k) # 0 PROVE FirstChild(k) = k + 1 /\ k + 1 \in Nodes /\ p[k + 1] = k
  <2> DEFINE c == FirstChild(k)
  <2>1. c \in Children(k) /\ \A d \in Children(k) : c <= d BY <1>2, <1>4, LowestIs DEF FirstChild
  <2> HIDE DEF c
  <2>2. c \in Nodes /\ p[c] = k /\ c \in Nat /\ k < c BY <1>0, <1>1, <2>1
  <2>3. c = k + 1
    <3> SUFFICES ASSUME c # k + 1 PROVE FALSE OBVIOUS
    <3>1. k < k + 1 /\ k + 1 < c /\ k + 1 \in Nodes BY <1>0, <2>2
    <3>2. k <= p[k + 1] /\ p[k + 1] < k + 1 /\ p[k + 1] \in Nat BY <1>0, <2>2, <3>1
    <3>3. p[k + 1] = k BY <1>0, <3>2
    <3>4. c <= k + 1 BY <1>1, <2>1, <3>1, <3>3
    <3>q. QED BY <1>0, <2>2, <3>1, <3>4
  <2>q. QED BY <2>2, <2>3 DEF c
<1>q. QED BY <1>3, <1>4 DEF p

\* What lies between a node and the next child of its parent is below the node; and if
\* there is no next child, so is what is left below the parent.
LEMMA NextIs ==
    ASSUME Walking, NEW k \in Nodes, k # 1
    PROVE  LET p == tree.parent[k]
               d == NextChild(k)
           IN  /\ d = 0 => \A n \in Nodes : Under(p, n) /\ k <= n => Under(k, n)
               /\ d # 0 => /\ d \in Nodes /\ k < d /\ tree.parent[d] = p
                           /\ \A n \in Nodes : k <= n /\ n < d => Under(k, n)
                           /\ \A m \in k + 1 .. d : p <= tree.parent[m]
<1> DEFINE p == tree.parent
           d == NextChild(k)
           Later == {c \in Children(p[k]) : c > k}
<1>0. /\ Nodes = 1 .. Len(p) /\ Len(p) \in Nat /\ k \in Nat
      /\ \A c \in Nodes : c \in Nat /\ p[c] \in Nat /\ p[c] < c
      /\ \A c, e \in Nodes : p[e] < c /\ c < e => p[e] <= p[c]
  BY OrderIs
<1>1. Later = {c \in Nodes : p[c] = p[k] /\ c > k} BY DEF Children
<1>2. Later \in SUBSET (Nat \ {0}) BY <1>0, <1>1
<1>3. d = Lowest(Later) BY DEF NextChild
<1> HIDE DEF p, d, Later
\* A node behind k whose parent lies behind p[k] has its parent at or behind k.
<1>4. ASSUME NEW m \in Nodes, k < m, p[k] <= p[m], m \notin Later PROVE k <= p[m]
  <2>1. p[m] \in Nat /\ p[k] \in Nat /\ m \in Nat /\ p[m] < m /\ p[k] < k BY <1>0
  <2>2. p[k] < p[m] BY <1>0, <1>1, <1>4, <2>1
  <2> SUFFICES ASSUME p[m] < k PROVE FALSE BY <1>0, <2>1
  <2>3. p[m] \in Nodes BY <1>0, <2>1, <2>2
  <2>4. p[m] < k /\ k < m BY <1>4
  <2>5. p[m] <= p[k] BY <1>0, <2>4
  <2>q. QED BY <2>1, <2>2, <2>5
<1>5. ASSUME d = 0, NEW n \in Nodes, Under(p[k], n), k <= n PROVE Under(k, n)
  <2>1. Later = {} BY <1>2, <1>3, <1>5, LowestIs
  <2>2. ASSUME NEW m \in k + 1 .. n PROVE k <= p[m]
    <3>1. m \in Nodes /\ k < m BY <1>0
    <3>2. m \in p[k] + 1 .. n BY <1>0
    <3>3. p[k] <= p[m] BY <1>5, <3>2 DEF Under, p
    <3>q. QED BY <1>4, <2>1, <3>1, <3>3
  <2>q. QED BY <1>5, <2>2 DEF Under, p
<1>6. ASSUME d # 0
      PROVE  /\ d \in Nodes /\ k < d /\ p[d] = p[k]
             /\ \A n \in Nodes : k <= n /\ n < d => Under(k, n)
             /\ \A m \in k + 1 .. d : p[k] <= p[m]
  <2>1. d \in Later /\ \A e \in Later : d <= e BY <1>2, <1>3, <1>6, LowestIs
  <2>2. d \in Nodes /\ k < d /\ p[d] = p[k] /\ d \in Nat BY <1>0, <1>1, <2>1
  <2>3. ASSUME NEW m \in k + 1 .. d PROVE p[k] <= p[m]
    <3>1. m \in Nodes /\ m \in Nat /\ p[k] < m /\ p[k] \in Nat BY <1>0, <2>2
    <3>2. CASE m = d BY <2>2, <3>1, <3>2
    <3>3. CASE m # d
      <4>1. p[d] < m /\ m < d BY <2>2, <3>1, <3>3
      <4>q. QED BY <1>0, <2>2, <3>1, <4>1
    <3>q. QED BY <3>2, <3>3
  <2>4. ASSUME NEW n \in Nodes, k <= n, n < d PROVE Under(k, n)
    <3>1. ASSUME NEW m \in k + 1 .. n PROVE k <= p[m]
      <4>1. m \in Nodes /\ m \in Nat /\ k < m /\ m < d /\ m \in k + 1 .. d /\ n \in Nat BY <1>0, <2>2, <2>4
      <4>2. m \notin Later BY <2>1, <2>2, <4>1
      <4>q. QED BY <1>4, <2>3, <4>1, <4>2
    <3>q. QED BY <2>4, <3>1 DEF Under, p
  <2>q. QED BY <2>2, <2>3, <2>4
<1>q. QED BY <1>5, <1>6 DEF p, d

\* A step up leaves out no node above, and a parent is above.
LEMMA UpIs ==
    ASSUME Walking, NEW k \in Nodes, NEW a \in Nodes, Under(a, k)
    PROVE  /\ \A n \in Nodes : Under(n, k) /\ tree.parent[a] < n => a <= n
           /\ a # 1 => tree.parent[a] \in Nodes /\ Under(tree.parent[a], k)
<1> DEFINE p == tree.parent
<1>0. /\ Nodes = 1 .. Len(p) /\ Len(p) \in Nat /\ k \in Nat /\ a \in Nat /\ a <= k
      /\ \A c \in Nodes : c \in Nat /\ p[c] \in Nat /\ p[c] < c /\ (p[c] \in Nodes <=> c # 1)
      /\ \A c, e \in Nodes : p[e] < c /\ c < e => p[e] <= p[c]
      /\ \A m \in a + 1 .. k : a <= p[m]
  BY OrderIs DEF Under
<1>1. \A n : Under(n, k) => \A m \in n + 1 .. k : n <= p[m] BY DEF Under
<1> HIDE DEF p
<1>2. ASSUME NEW n \in Nodes, Under(n, k), p[a] < n, ~(a <= n) PROVE FALSE
  <2>1. n \in Nat /\ a \in n + 1 .. k BY <1>0, <1>2
  <2>2. n <= p[a] BY <1>1, <1>2, <2>1
  <2>q. QED BY <1>0, <1>2, <2>1, <2>2
<1>3. ASSUME a # 1 PROVE p[a] \in Nodes /\ Under(p[a], k)
  <2>1. p[a] \in Nodes /\ p[a] < a /\ p[a] \in Nat BY <1>0, <1>3
  <2>2. ASSUME NEW m \in p[a] + 1 .. k PROVE p[a] <= p[m]
    <3>1. m \in Nodes /\ m \in Nat /\ p[a] < m /\ p[m] \in Nat BY <1>0, <2>1
    <3>2. CASE m < a BY <1>0, <3>1, <3>2
    <3>3. CASE m = a BY <2>1, <3>3
    <3>4. CASE a < m
      <4>1. m \in a + 1 .. k BY <1>0, <3>1, <3>4
      <4>q. QED BY <1>0, <2>1, <3>1, <4>1
    <3>q. QED BY <1>0, <3>1, <3>2, <3>3, <3>4
  <2>q. QED BY <1>0, <2>1, <2>2 DEF Under, p
<1>q. QED BY <1>2, <1>3 DEF p

-----------------------------------------------------------------------------
\* The node the search starts at; the calls under way are a path from it to Key.  A call
\* that visits a node has found nothing before it, one that goes back nothing below it
\* either.
TopNode == IF call.op = "phandle" THEN call.key ELSE 1

StackInv ==
    /\ stack \in Seq(Nodes) /\ stack # <<>> /\ stack[1] = TopNode
    /\ \A i \in DOMAIN stack : Under(TopNode, stack[i])
    /\ \A i \in 1 .. Len(stack) - 1 : tree.parent[stack[i + 1]] = stack[i]
VisitInv == \A n \in Nodes : Under(TopNode, n) /\ n < Key => ~HasIt(n)
BackInv == \A n \in Nodes : Under(TopNode, n) /\ (n < Key \/ Under(Key, n)) => ~HasIt(n)
FoundInv ==
    \/ stack = <<>> /\ (TopNode = 0 \/ \A n \in Nodes : Under(TopNode, n) => ~HasIt(n))
    \/ StackInv /\ VisitInv /\ HasIt(Key)

\* dt_find_up() has passed no node that has the property.
UpInv ==
    /\ at = 0 \/ (at \in Nodes /\ call.key \in Nodes /\ Under(at, call.key))
    /\ call.key \in Nodes => \A n \in Nodes : Under(n, call.key) /\ at < n => tree.iparent[n] = Missing

FindInv ==
    IsWalk =>
        /\ call \in NodeCalls /\ pc \in {"entry", "up", "visit", "back", "found", "done"}
        /\ pc = "up" => call.op = "interrupt" /\ UpInv
        /\ pc \in {"visit", "back", "found"} /\ call.op = "interrupt" => UpInv /\ ~GoesUp
        /\ pc = "visit" => StackInv /\ VisitInv
        /\ pc = "back" => StackInv /\ BackInv
        /\ pc = "found" => FoundInv
        /\ pc = "done" /\ call.op = "phandle" => PHandleFound
        /\ pc = "done" /\ call.op = "interrupt" => InterruptFound

LEMMA FindStart == ASSUME Init PROVE FindInv
<1>1. CASE MapInit
  BY <1>1, MapAssumption DEF MapInit, FindInv, IsWalk
<1>2. CASE NodesInit BY <1>2 DEF NodesInit, FindInv
<1>3. CASE MemInit BY <1>3 DEF MemInit, FindInv, IsWalk
<1>q. QED BY <1>1, <1>2, <1>3 DEF Init

LEMMA SameTree ==
    ASSUME call' = call
    PROVE  /\ tree' = tree /\ Nodes' = Nodes /\ IsWalk' = IsWalk /\ TopNode' = TopNode
           /\ \A k, n : Under(k, n)' = Under(k, n)
BY DEF tree, Nodes, IsWalk, TopNode, Under

LEMMA SameSearch ==
    ASSUME call' = call, at' = at
    PROVE  Wanted' = Wanted /\ UpInv' = UpInv /\ GoesUp' = GoesUp /\ \A k : HasIt(k)' = HasIt(k)
BY DEF Wanted, UpInv, GoesUp, HasIt, tree, Nodes, Under

\* The calls under way, from the first to the last.
LEMMA StackIs ==
    ASSUME Walking, StackInv
    PROVE  /\ Len(stack) \in Nat \ {0} /\ DOMAIN stack = 1 .. Len(stack) /\ Key = stack[Len(stack)]
           /\ Key \in Nodes /\ Under(TopNode, Key) /\ TopNode \in Nodes
           /\ Len(stack) = 1 => Key = TopNode
           /\ Len(stack) # 1 => /\ Key # 1 /\ tree.parent[Key] = stack[Len(stack) - 1]
                                /\ tree.parent[Key] \in Nodes /\ Under(TopNode, tree.parent[Key])
<1> DEFINE N == Nodes
<1> HIDE DEF N
<1>1. stack \in Seq(N) /\ stack # <<>> /\ stack[1] = TopNode BY DEF StackInv, N
<1>2. /\ Len(stack) \in Nat \ {0} /\ DOMAIN stack = 1 .. Len(stack)
      /\ \A i \in 1 .. Len(stack) : stack[i] \in N
  BY <1>1
<1>3. Key = stack[Len(stack)] /\ Len(stack) \in DOMAIN stack /\ 1 \in DOMAIN stack BY <1>2 DEF Key, Last
<1>4. Key \in N /\ TopNode \in N /\ Under(TopNode, Key) BY <1>1, <1>2, <1>3 DEF StackInv
<1>5. ASSUME Len(stack) # 1
      PROVE  /\ Key # 1 /\ tree.parent[Key] = stack[Len(stack) - 1]
             /\ tree.parent[Key] \in N /\ Under(TopNode, tree.parent[Key])
  <2> DEFINE l == Len(stack) - 1
  <2>1. l \in 1 .. Len(stack) - 1 /\ l + 1 = Len(stack) /\ l = Len(stack) - 1 /\ l \in DOMAIN stack
    BY <1>2, <1>5
  <2> HIDE DEF l
  <2>2. tree.parent[stack[l + 1]] = stack[l] /\ Under(TopNode, stack[l]) /\ stack[l] \in N
    BY <1>2, <2>1 DEF StackInv
  <2>3. tree.parent[Key] = stack[l] BY <1>3, <2>1, <2>2
  <2>4. Key # 1 BY <1>4, <2>2, <2>3, OrderIs DEF N
  <2>q. QED BY <2>1, <2>2, <2>3, <2>4
<1>q. QED BY <1>1, <1>2, <1>3, <1>4, <1>5 DEF N

LEMMA UnderSelf == ASSUME NEW k \in Nat PROVE Under(k, k)
BY DEF Under

LEMMA EnterWalkKeeps == ASSUME FindInv, EnterWalk PROVE FindInv'
<1>1. /\ pc = "entry" /\ IsWalk /\ call' = call /\ Walking BY DEF EnterWalk, FindInv, Walking
<1>2. call.key \in {0} \cup Nodes /\ Nodes \subseteq Nat \ {0} BY <1>1, OrderIs
<1>3. CASE call.op = "phandle"
  <2>1. at' = at /\ stack' = (IF call.key = 0 THEN <<>> ELSE <<call.key>>)
        /\ pc' = (IF call.key = 0 THEN "found" ELSE "visit")
    BY <1>3 DEF EnterWalk
  <2>2. TopNode' = call.key /\ Nodes' = Nodes /\ IsWalk' /\ call'.op = "phandle" BY <1>1, <1>3, SameTree DEF TopNode
  <2>3. CASE call.key = 0
    <3>1. FoundInv' BY <2>1, <2>2, <2>3 DEF FoundInv
    <3>q. QED BY <1>1, <2>1, <2>2, <2>3, <3>1 DEF FindInv
  <2>4. CASE call.key # 0
    <3>0. PICK k \in Nodes : k = call.key BY <1>2, <2>4
    <3>1. k \in Nat /\ Under(k, k) /\ \A a, n : Under(a, n)' = Under(a, n) BY <1>1, <1>2, <3>0, UnderSelf, SameTree
    <3>2. stack' = <<k>> /\ Key' = k /\ TopNode' = k BY <2>1, <2>2, <2>4, <3>0 DEF Key, Last
    <3>3. StackInv' BY <2>2, <3>1, <3>2 DEF StackInv
    <3>4. \A n \in Nodes : Under(k, n) => ~(n < k) BY <1>2, <3>1 DEF Under
    <3>5. VisitInv' BY <2>2, <3>1, <3>2, <3>4 DEF VisitInv
    <3>q. QED BY <1>1, <2>1, <2>2, <2>4, <3>3, <3>5 DEF FindInv
  <2>q. QED BY <2>3, <2>4
<1>4. CASE call.op # "phandle"
  <2>1. pc' = "up" /\ at' = call.key /\ call.op = "interrupt" /\ IsWalk' BY <1>1, <1>4 DEF EnterWalk, IsWalk
  <2>2. UpInv'
    <3>1. call.key \in Nodes => Under(call.key, call.key) BY <1>2, UnderSelf
    <3>2. ASSUME NEW n \in Nodes, Under(n, call.key) PROVE ~(call.key < n)
      <4>1. n <= call.key BY <3>2 DEF Under
      <4>2. n \in Nat BY <1>2
      <4>3. call.key \in Nat
        <5>1. CASE call.key = 0 BY <5>1
        <5>2. CASE call.key # 0 BY <1>2, <5>2
        <5>q. QED BY <5>1, <5>2
      <4>q. QED BY <4>1, <4>2, <4>3
    <3>3. Nodes' = Nodes /\ \A k, n : Under(k, n)' = Under(k, n) BY <1>1, SameTree
    <3>q. QED BY <1>1, <1>2, <2>1, <3>1, <3>2, <3>3 DEF UpInv
  <2>q. QED BY <1>1, <2>1, <2>2 DEF FindInv
<1>q. QED BY <1>3, <1>4

LEMMA FindUpKeeps == ASSUME FindInv, IsWalk, FindUp PROVE FindInv'
<1>1. pc = "up" /\ GoesUp /\ at' = tree.parent[at] /\ call' = call /\ pc' = pc BY DEF FindUp
<1>2. Walking /\ UpInv /\ call.op = "interrupt" BY <1>1 DEF FindInv, Walking
<1>3. at \in Nodes /\ call.key \in Nodes /\ Under(at, call.key) /\ tree.iparent[at] = Missing
  BY <1>1, <1>2 DEF UpInv, GoesUp
<1>4. /\ \A n \in Nodes : n \in Nat /\ (Under(n, call.key) /\ tree.parent[at] < n => at <= n)
      /\ at # 1 => tree.parent[at] \in Nodes /\ Under(tree.parent[at], call.key)
      /\ at = 1 => tree.parent[at] = 0
  BY <1>2, <1>3, UpIs, OrderIs
<1>5. Nodes' = Nodes /\ IsWalk' /\ tree' = tree /\ \A k, n : Under(k, n)' = Under(k, n) BY <1>1, SameTree
<1>6. ASSUME NEW n \in Nodes, Under(n, call.key), tree.parent[at] < n PROVE tree.iparent[n] = Missing
  <2>1. at <= n /\ at \in Nat /\ n \in Nat BY <1>3, <1>4, <1>6
  <2>2. n = at \/ at < n BY <2>1
  <2>q. QED BY <1>2, <1>3, <1>6, <2>2 DEF UpInv
<1>7. UpInv' BY <1>1, <1>3, <1>4, <1>5, <1>6 DEF UpInv
<1>q. QED BY <1>1, <1>2, <1>5, <1>7 DEF FindInv

LEMMA OpenRootKeeps == ASSUME FindInv, IsWalk, OpenRoot PROVE FindInv'
<1>1. pc = "up" /\ ~GoesUp /\ pc' = "visit" /\ stack' = <<1>> /\ UNCHANGED <<call, at>> BY DEF OpenRoot
<1>2. Walking /\ UpInv /\ call.op = "interrupt" BY <1>1 DEF FindInv, Walking
<1>3. Nodes' = Nodes /\ IsWalk' /\ TopNode' = 1 /\ UpInv' /\ ~GoesUp' /\ \A k, n : Under(k, n)' = Under(k, n)
  BY <1>1, <1>2, SameTree, SameSearch DEF TopNode
<1>4. 1 \in Nodes /\ Nodes \subseteq Nat /\ Under(1, 1) BY <1>2, OrderIs, UnderSelf
<1>5. Key' = 1 BY <1>1 DEF Key, Last
<1>6. StackInv' BY <1>1, <1>3, <1>4 DEF StackInv
<1>7. VisitInv' BY <1>3, <1>4, <1>5 DEF VisitInv, Under
<1>q. QED BY <1>1, <1>2, <1>3, <1>6, <1>7 DEF FindInv

LEMMA VisitKeeps == ASSUME FindInv, IsWalk, Visit PROVE FindInv'
<1>1. /\ pc = "visit" /\ UNCHANGED <<call, at>>
      /\ pc' = (IF HasIt(Key) THEN "found" ELSE IF FirstChild(Key) # 0 THEN "visit" ELSE "back")
      /\ stack' = (IF ~HasIt(Key) /\ FirstChild(Key) # 0 THEN Append(stack, FirstChild(Key)) ELSE stack)
  BY DEF Visit
<1>2. Walking /\ StackInv /\ VisitInv /\ (call.op = "interrupt" => UpInv /\ ~GoesUp)
  BY <1>1 DEF FindInv, Walking
<1>3. /\ Nodes' = Nodes /\ tree' = tree /\ IsWalk' /\ TopNode' = TopNode /\ \A k, n : Under(k, n)' = Under(k, n)
      /\ UpInv' = UpInv /\ GoesUp' = GoesUp /\ \A k : HasIt(k)' = HasIt(k)
  BY <1>1, SameTree, SameSearch
<1>4. /\ Len(stack) \in Nat \ {0} /\ DOMAIN stack = 1 .. Len(stack) /\ Key = stack[Len(stack)]
      /\ Key \in Nodes /\ Under(TopNode, Key) /\ TopNode \in Nodes
  BY <1>2, StackIs
<1>5. Nodes \subseteq Nat /\ Key \in Nat /\ TopNode \in Nat BY <1>2, <1>4, OrderIs
<1>6. ASSUME stack' = stack PROVE StackInv' /\ Key' = Key
  BY <1>2, <1>3, <1>6 DEF StackInv, Key
<1>7. CASE HasIt(Key)
  <2>1. pc' = "found" /\ stack' = stack BY <1>1, <1>7
  <2>2. VisitInv' BY <1>2, <1>3, <1>6, <2>1 DEF VisitInv
  <2>3. FoundInv' BY <1>3, <1>6, <1>7, <2>1, <2>2 DEF FoundInv
  <2>q. QED BY <1>1, <1>2, <1>3, <2>1, <2>3 DEF FindInv, Walking
<1>8. CASE ~HasIt(Key) /\ FirstChild(Key) = 0
  <2>1. pc' = "back" /\ stack' = stack BY <1>1, <1>8
  <2>2. \A n \in Nodes : Under(Key, n) => n = Key BY <1>2, <1>4, <1>8, ChildIs
  <2>3. BackInv' BY <1>2, <1>3, <1>6, <1>8, <2>1, <2>2 DEF VisitInv, BackInv
  <2>q. QED BY <1>1, <1>2, <1>3, <1>6, <2>1, <2>3 DEF FindInv, Walking
<1>9. CASE ~HasIt(Key) /\ FirstChild(Key) # 0
  <2> DEFINE c == Key + 1
             l == Len(stack)
  <2>1. FirstChild(Key) = c /\ c \in Nodes /\ tree.parent[c] = Key BY <1>2, <1>4, <1>9, ChildIs
  <2>2. pc' = "visit" /\ stack' = Append(stack, c) BY <1>1, <1>9, <2>1
  <2>3. Under(TopNode, c)
    <3>1. TopNode <= Key /\ \A m \in TopNode + 1 .. Key : TopNode <= tree.parent[m] BY <1>4 DEF Under
    <3>2. \A m \in TopNode + 1 .. c : m \in TopNode + 1 .. Key \/ m = c BY <1>5
    <3>q. QED BY <1>5, <2>1, <3>1, <3>2 DEF Under
  <2>4. c \in Nat /\ \A n \in Nat : n < c => n < Key \/ n = Key BY <1>5
  <2> HIDE DEF c
  <2>5. /\ stack' \in Seq(Nodes) /\ Len(stack') = l + 1 /\ DOMAIN stack' = 1 .. l + 1
        /\ \A i \in 1 .. l : stack'[i] = stack[i]
        /\ stack'[l + 1] = c /\ stack' # <<>>
    <3> DEFINE N == Nodes
    <3> HIDE DEF N
    <3>1. stack \in Seq(N) /\ c \in N BY <1>2, <2>1 DEF StackInv, N
    <3>q. QED BY <2>2, <3>1 DEF N
  <2>6. Key' = c BY <2>5 DEF Key, Last
  <2>7. StackInv'
    <3>1. l \in Nat \ {0} /\ stack[l] = Key BY <1>4
    <3> HIDE DEF l
    <3>2. stack'[1] = TopNode' BY <1>2, <1>3, <2>5, <3>1 DEF StackInv
    <3>3. ASSUME NEW i \in DOMAIN stack' PROVE Under(TopNode, stack'[i])
      <4>1. i \in 1 .. l \/ i = l + 1 BY <2>5, <3>1
      <4>2. i \in 1 .. l => i \in DOMAIN stack BY <1>4 DEF l
      <4>q. QED BY <1>2, <2>3, <2>5, <4>1, <4>2 DEF StackInv
    <3>4. ASSUME NEW i \in 1 .. Len(stack') - 1 PROVE tree.parent[stack'[i + 1]] = stack'[i]
      <4>1. CASE i = l BY <2>1, <2>5, <3>1, <4>1
      <4>2. CASE i # l
        <5>1. i \in 1 .. l - 1 /\ i \in 1 .. l /\ i + 1 \in 1 .. l BY <2>5, <3>1, <4>2
        <5>2. tree.parent[stack[i + 1]] = stack[i] BY <1>2, <5>1 DEF StackInv, l
        <5>q. QED BY <2>5, <5>1, <5>2
      <4>q. QED BY <4>1, <4>2
    <3>q. QED BY <1>3, <2>5, <3>2, <3>3, <3>4 DEF StackInv
  <2>8. VisitInv' BY <1>2, <1>3, <1>5, <1>9, <2>4, <2>6 DEF VisitInv
  <2>q. QED BY <1>1, <1>2, <1>3, <2>2, <2>7, <2>8 DEF FindInv, Walking
<1>q. QED BY <1>7, <1>8, <1>9

\* Without its last call the stack is a path to the parent.
LEMMA FrontIs ==
    ASSUME Walking, StackInv, Len(stack) # 1
    PROVE  LET f == Front(stack)
               l == Len(stack)
           IN  /\ f \in Seq(Nodes) /\ Len(f) = l - 1 /\ DOMAIN f = 1 .. l - 1 /\ f # <<>>
               /\ l - 1 \in Nat \ {0} /\ \A i \in 1 .. l - 1 : f[i] = stack[i]
<1> DEFINE N == Nodes
           l == Len(stack)
<1> HIDE DEF N
<1>1. stack \in Seq(N) /\ l \in Nat \ {0} /\ l # 1 BY StackIs DEF StackInv, N
<1>2. Front(stack) = SubSeq(stack, 1, l - 1) BY DEF Front
<1> DEFINE m == l - 1
<1>3. m \in Nat /\ m <= l /\ m # 0 BY <1>1
<1>4. /\ SubSeq(stack, 1, m) \in Seq(N) /\ Len(SubSeq(stack, 1, m)) = m
      /\ DOMAIN SubSeq(stack, 1, m) = 1 .. m
      /\ \A i \in 1 .. m : SubSeq(stack, 1, m)[i] = stack[i]
  BY <1>1, <1>3
<1>5. Front(stack) # <<>>
  <2>1. Len(Front(stack)) # 0 BY <1>2, <1>3, <1>4
  <2>q. QED BY <2>1
<1>q. QED BY <1>1, <1>2, <1>3, <1>4, <1>5 DEF N

LEMMA BackKeeps == ASSUME FindInv, IsWalk, Back PROVE FindInv'
<1>1. pc = "back" /\ UNCHANGED <<call, at>> BY DEF Back
<1>2. Walking /\ StackInv /\ BackInv /\ (call.op = "interrupt" => UpInv /\ ~GoesUp)
  BY <1>1 DEF FindInv, Walking
<1>3. /\ Nodes' = Nodes /\ tree' = tree /\ IsWalk' /\ TopNode' = TopNode /\ \A k, n : Under(k, n)' = Under(k, n)
      /\ UpInv' = UpInv /\ GoesUp' = GoesUp /\ \A k : HasIt(k)' = HasIt(k)
  BY <1>1, SameTree, SameSearch
<1> DEFINE l == Len(stack)
           f == Front(stack)
           up == tree.parent[Key]
<1>4. /\ l \in Nat \ {0} /\ DOMAIN stack = 1 .. l /\ Key = stack[l]
      /\ Key \in Nodes /\ Under(TopNode, Key) /\ TopNode \in Nodes
      /\ l = 1 => Key = TopNode
      /\ l # 1 => Key # 1 /\ up = stack[l - 1] /\ up \in Nodes /\ Under(TopNode, up)
  BY <1>2, StackIs
<1>5. Nodes \subseteq Nat /\ Key \in Nat /\ TopNode \in Nat BY <1>2, <1>4, OrderIs
<1>6. CASE l = 1
  <2>1. pc' = "found" /\ stack' = <<>> BY <1>6 DEF Back
  <2>2. \A n \in Nodes : Under(TopNode, n) => ~HasIt(n) BY <1>2, <1>4, <1>6 DEF BackInv
  <2>3. FoundInv' BY <1>3, <2>1, <2>2 DEF FoundInv
  <2>q. QED BY <1>1, <1>2, <1>3, <2>1, <2>3 DEF FindInv, Walking
<1>7. CASE l # 1
  <2>1. /\ f \in Seq(Nodes) /\ Len(f) = l - 1 /\ DOMAIN f = 1 .. l - 1 /\ f # <<>>
        /\ l - 1 \in Nat \ {0} /\ \A i \in 1 .. l - 1 : f[i] = stack[i]
    BY <1>2, <1>7, FrontIs
  <2>2. up \in Nodes /\ up < Key /\ up \in Nat BY <1>2, <1>4, <1>7, OrderIs
  <2>3. CASE NextChild(Key) = 0
    <3>1. pc' = "back" /\ stack' = f BY <1>1, <1>7, <2>3 DEF Back
    <3>2. Key' = up BY <1>4, <1>7, <2>1, <3>1 DEF Key, Last
    <3>3. StackInv'
      <4> HIDE DEF f, l, up
      <4>1. f[1] = TopNode BY <1>2, <2>1 DEF StackInv
      <4>2. \A i \in DOMAIN f : i \in 1 .. l - 1 /\ i \in DOMAIN stack BY <1>4, <2>1
      <4>3. \A i \in DOMAIN f : Under(TopNode, f[i]) BY <1>2, <2>1, <4>2 DEF StackInv
      <4>4. ASSUME NEW i \in 1 .. Len(f) - 1 PROVE tree.parent[f[i + 1]] = f[i]
        <5>1. i \in 1 .. l - 1 /\ i + 1 \in 1 .. l - 1 BY <1>4, <2>1
        <5>2. tree.parent[stack[i + 1]] = stack[i] BY <1>2, <5>1 DEF StackInv, l
        <5>q. QED BY <2>1, <5>1, <5>2
      <4>q. QED BY <1>3, <2>1, <3>1, <4>1, <4>3, <4>4 DEF StackInv
    <3>4. \A n \in Nodes : Under(up, n) /\ Key <= n => Under(Key, n) BY <1>2, <1>4, <1>7, <2>3, NextIs
    <3>5. BackInv'
      <4>1. ASSUME NEW n \in Nodes, Under(TopNode, n), n < up \/ Under(up, n) PROVE ~HasIt(n)
        <5>1. n < Key \/ Under(Key, n) BY <1>5, <2>2, <3>4, <4>1
        <5>q. QED BY <1>2, <4>1, <5>1 DEF BackInv
      <4>q. QED BY <1>3, <3>2, <4>1 DEF BackInv
    <3>q. QED BY <1>1, <1>2, <1>3, <3>1, <3>3, <3>5 DEF FindInv, Walking
  <2>4. CASE NextChild(Key) # 0
    <3> DEFINE d == NextChild(Key)
    <3>1. pc' = "visit" /\ stack' = Append(f, d) BY <1>1, <1>7, <2>4 DEF Back
    <3>2. /\ d \in Nodes /\ Key < d /\ tree.parent[d] = up
          /\ \A n \in Nodes : Key <= n /\ n < d => Under(Key, n)
          /\ \A m \in Key + 1 .. d : up <= tree.parent[m]
      BY <1>2, <1>4, <1>7, <2>4, NextIs
    <3> HIDE DEF d
    <3>3. d \in Nat BY <1>5, <3>2
    <3>4. Under(TopNode, d)
      <4>1. /\ TopNode <= Key /\ TopNode <= up
            /\ \A m \in TopNode + 1 .. Key : TopNode <= tree.parent[m]
        BY <1>4, <1>7 DEF Under
      <4>2. ASSUME NEW m \in TopNode + 1 .. d PROVE TopNode <= tree.parent[m]
        <5>1. CASE m \in TopNode + 1 .. Key BY <4>1, <5>1
        <5>2. CASE m \notin TopNode + 1 .. Key
          <6>1. m \in Key + 1 .. d /\ m \in Nodes BY <1>2, <1>5, <3>2, <3>3, <5>2, OrderIs
          <6>2. up <= tree.parent[m] /\ tree.parent[m] \in Nat BY <1>2, <3>2, <6>1, OrderIs
          <6>q. QED BY <1>5, <2>2, <4>1, <6>2
        <5>q. QED BY <5>1, <5>2
      <4>3. TopNode <= d BY <1>5, <3>2, <3>3, <4>1
      <4>q. QED BY <4>2, <4>3 DEF Under
    <3>5. /\ stack' \in Seq(Nodes) /\ Len(stack') = l /\ DOMAIN stack' = 1 .. l /\ stack' # <<>>
          /\ \A i \in 1 .. l - 1 : stack'[i] = f[i]
          /\ stack'[l] = d
      <4> DEFINE N == Nodes
      <4> HIDE DEF N, f, l
      <4>1. f \in Seq(N) /\ d \in N BY <2>1, <3>2 DEF N
      <4>q. QED BY <1>4, <2>1, <3>1, <4>1 DEF N
    <3>6. Key' = d BY <3>5 DEF Key, Last
    <3>7. StackInv'
      <4> HIDE DEF f, l, up
      <4>1. stack'[1] = TopNode BY <1>2, <2>1, <3>5 DEF StackInv
      <4>2. ASSUME NEW i \in DOMAIN stack' PROVE Under(TopNode, stack'[i])
        <5>1. i = l \/ (i \in 1 .. l - 1 /\ i \in DOMAIN stack) BY <1>4, <3>5
        <5>q. QED BY <1>2, <2>1, <3>4, <3>5, <5>1 DEF StackInv
      <4>3. ASSUME NEW i \in 1 .. Len(stack') - 1 PROVE tree.parent[stack'[i + 1]] = stack'[i]
        <5>1. CASE i = l - 1
          <6>1. i + 1 = l /\ i \in 1 .. l - 1 BY <1>4, <3>5, <5>1
          <6>2. stack'[i] = up BY <1>4, <1>7, <2>1, <3>5, <5>1, <6>1 DEF l
          <6>q. QED BY <3>2, <3>5, <6>1, <6>2
        <5>2. CASE i # l - 1
          <6>1. i \in 1 .. l - 1 /\ i + 1 \in 1 .. l - 1 BY <1>4, <3>5, <5>2
          <6>2. tree.parent[stack[i + 1]] = stack[i] BY <1>2, <6>1 DEF StackInv, l
          <6>q. QED BY <2>1, <3>5, <6>1, <6>2
        <5>q. QED BY <5>1, <5>2
      <4>q. QED BY <1>3, <3>5, <4>1, <4>2, <4>3 DEF StackInv
    <3>8. VisitInv'
      <4>1. ASSUME NEW n \in Nodes, Under(TopNode, n), n < d PROVE ~HasIt(n)
        <5>1. n < Key \/ Under(Key, n) BY <1>5, <3>2, <4>1
        <5>q. QED BY <1>2, <4>1, <5>1 DEF BackInv
      <4>q. QED BY <1>3, <3>6, <4>1 DEF VisitInv
    <3>q. QED BY <1>1, <1>2, <1>3, <3>1, <3>7, <3>8 DEF FindInv, Walking
  <2>q. QED BY <2>3, <2>4
<1>q. QED BY <1>6, <1>7

\* What the search has found is the first node of the tree that has the phandle.
LEMMA FoundIs ==
    ASSUME Walking, FoundInv
    PROVE  LET there == IF TopNode = 0 THEN {} ELSE Bearers(TopNode, Wanted)
           IN  /\ stack = <<>> => there = {}
               /\ stack # <<>> => Key \in Nodes /\ there # {} /\ Lowest(there) = Key
<1> DEFINE there == IF TopNode = 0 THEN {} ELSE Bearers(TopNode, Wanted)
<1>1. Nodes \subseteq Nat \ {0} BY OrderIs
<1>2. TopNode \in {0} \cup Nodes BY OrderIs DEF TopNode
<1>3. ASSUME TopNode # 0 PROVE there = {n \in Nodes : Under(TopNode, n) /\ HasIt(n)}
  <2>1. \A n \in Nodes : TopNode \in Above(n) <=> Under(TopNode, n) BY <1>2, <1>3, AboveIs
  <2>q. QED BY <1>3, <2>1 DEF Bearers, HasIt
<1> HIDE DEF there
<1>4. CASE stack = <<>>
  <2>1. TopNode = 0 \/ \A n \in Nodes : Under(TopNode, n) => ~HasIt(n) BY <1>4 DEF FoundInv, StackInv
  <2>2. there = {} BY <1>3, <2>1 DEF there
  <2>q. QED BY <1>4, <2>2 DEF there
<1>5. CASE stack # <<>>
  <2>1. StackInv /\ VisitInv /\ HasIt(Key) BY <1>5 DEF FoundInv
  <2>2. Key \in Nodes /\ Under(TopNode, Key) /\ TopNode \in Nodes BY <2>1, StackIs
  <2>3. there = {n \in Nodes : Under(TopNode, n) /\ HasIt(n)} BY <1>1, <1>3, <2>2
  <2>4. Key \in there BY <2>1, <2>2, <2>3
  <2>5. \A n \in there : Key <= n
    <3>1. \A n \in Nodes : n \in Nat /\ (n < Key \/ Key <= n) BY <1>1, <2>2
    <3>q. QED BY <2>1, <2>3, <3>1 DEF VisitInv
  <2>6. there \in SUBSET (Nat \ {0}) BY <1>1, <2>3
  <2>7. Lowest(there) = Key BY <2>4, <2>5, <2>6, LowestIs
  <2>q. QED BY <1>5, <2>2, <2>4, <2>7 DEF there
<1>q. QED BY <1>4, <1>5 DEF there

\* Where dt_find_up() has stopped is the nearest node that names a controller.
LEMMA HandleIs ==
    ASSUME Walking, UpInv, ~GoesUp, call.op = "interrupt"
    PROVE  LET naming == {n \in Nodes : call.key # 0 /\ n \in Above(call.key) /\ tree.iparent[n] # Missing}
               named  == {n \in naming : \A o \in naming : o <= n}
           IN  Wanted = IF named = {} THEN 0 ELSE ULONGOf(tree.iparent[CHOOSE n \in named : TRUE], 0)
<1> DEFINE naming == {n \in Nodes : call.key # 0 /\ n \in Above(call.key) /\ tree.iparent[n] # Missing}
           named  == {n \in naming : \A o \in naming : o <= n}
<1>1. call.key \in {0} \cup Nodes /\ Nodes \subseteq Nat \ {0} BY OrderIs
<1>2. ASSUME NEW n \in naming
      PROVE  call.key \in Nodes /\ n \in Nodes /\ n \in Nat /\ n # 0 /\ Under(n, call.key) /\ tree.iparent[n] # Missing
  <2>1. call.key \in Nodes BY <1>1
  <2>q. QED BY <1>1, <2>1, AboveIs
<1>3. CASE at = 0
  <2>1. naming = {}
    <3> SUFFICES ASSUME NEW n \in naming PROVE FALSE OBVIOUS
    <3>1. call.key \in Nodes /\ n \in Nodes /\ n \in Nat /\ n # 0 /\ Under(n, call.key) /\ tree.iparent[n] # Missing
      BY <1>2
    <3>2. at < n BY <1>3, <3>1
    <3>q. QED BY <3>1, <3>2 DEF UpInv
  <2>2. named = {} BY <2>1
  <2>q. QED BY <1>3, <2>2 DEF Wanted
<1>4. CASE at # 0
  <2>1. at \in Nodes /\ call.key \in Nodes /\ Under(at, call.key) /\ tree.iparent[at] # Missing
    BY <1>4 DEF UpInv, GoesUp
  <2>2. at \in naming BY <1>1, <2>1, AboveIs
  <2>3. ASSUME NEW n \in naming PROVE n <= at
    <3>1. n \in Nat /\ at \in Nat /\ ~(at < n) BY <1>1, <1>2, <2>1 DEF UpInv
    <3>q. QED BY <3>1
  <2>4. named = {at}
    <3>1. at \in named BY <2>2, <2>3
    <3>2. ASSUME NEW n \in named PROVE n = at
      <4>1. n \in naming /\ at <= n BY <2>2
      <4>2. n <= at /\ n \in Nat /\ at \in Nat BY <1>1, <1>2, <2>1, <2>3, <4>1
      <4>q. QED BY <4>1, <4>2
    <3>q. QED BY <3>1, <3>2
  <2> HIDE DEF named
  <2>5. (CHOOSE n \in named : TRUE) = at BY <2>4
  <2>q. QED BY <1>4, <2>4, <2>5 DEF Wanted, named
<1>q. QED BY <1>3, <1>4

\* An interrupt's number is that of its entry but for the offset of its type, also where
\* the s32 is negative.
LEMMA IrqIs ==
    ASSUME NEW type \in 0 .. Cell - 1, NEW number \in 0 .. Cell - 1
    PROVE  (IrqOf(type, number) - number) % Cell = CASE type = 0 -> SPI [] type = 1 -> PPI [] OTHER -> 0
<1> DEFINE off == IF type = 0 THEN SPI ELSE IF type = 1 THEN PPI ELSE 0
<1>1. off \in 0 .. Cell - 1 /\ Cell \in Nat /\ Cell > 1 BY NodesAssumption, CellAssumption
<1>2. off = CASE type = 0 -> SPI [] type = 1 -> PPI [] OTHER -> 0 OBVIOUS
<1>3. IrqOf(type, number) = S32(U32(number + off)) BY DEF IrqOf
<1> HIDE DEF off
<1>4. U32(number + off) = number + off \/ U32(number + off) = number + off - Cell
  <2>1. number + off \in 0 .. Cell - 1 \/ number + off \in Cell .. 2 * Cell - 1 BY <1>1
  <2>q. QED BY <1>1, <2>1, U32Is
<1>5. \A x : S32(x) = x \/ S32(x) = x - Cell BY DEF S32
<1>6. IrqOf(type, number) - number \in {off, off - Cell, off - 2 * Cell} BY <1>1, <1>3, <1>4, <1>5
<1>7. \A w \in Nat, x \in Nat : w > 1 /\ x < w => x % w = x /\ (x - w) % w = x /\ (x - 2 * w) % w = x
  BY SMT
<1>8. off % Cell = off /\ (off - Cell) % Cell = off /\ (off - 2 * Cell) % Cell = off BY <1>1, <1>7
<1>q. QED BY <1>2, <1>6, <1>8

LEMMA WalkFoundKeeps == ASSUME FindInv, IsWalk, WalkFound PROVE FindInv'
<1>1. pc = "found" /\ pc' = "done" /\ UNCHANGED <<call, at, stack>> BY DEF WalkFound, Return
<1>2. Walking /\ FoundInv /\ (call.op = "interrupt" => UpInv /\ ~GoesUp) BY <1>1 DEF FindInv, Walking
<1>3. /\ tree' = tree /\ Nodes' = Nodes /\ IsWalk' /\ (\A n : Above(n)' = Above(n))
      /\ \A k, h : Bearers(k, h)' = Bearers(k, h)
  <2>1. tree' = tree /\ Nodes' = Nodes BY <1>1, SameTree
  <2>2. \A n : Above(n)' = Above(n) BY <2>1 DEF Above
  <2>q. QED BY <1>1, <2>1, <2>2, SameTree DEF Bearers
<1>4. CASE call.op = "phandle"
  <2>1. result' = (IF stack = <<>> THEN No ELSE Found(Key)) BY <1>4 DEF WalkFound, Return
  <2>2. TopNode = call.key /\ Wanted = call.phandle BY <1>4 DEF TopNode, Wanted
  <2> DEFINE there == IF call.key = 0 THEN {} ELSE Bearers(call.key, call.phandle)
  <2>3. (stack = <<>> => there = {}) /\ (stack # <<>> => Key \in Nodes /\ there # {} /\ Lowest(there) = Key)
    BY <1>2, <2>2, FoundIs
  <2> HIDE DEF there
  <2>4. result'.ok = (there # {}) /\ result'.out = Lowest(there)
    <3>1. CASE stack = <<>> BY <2>1, <2>3, <3>1 DEF No, Lowest
    <3>2. CASE stack # <<>> BY <2>1, <2>3, <3>2 DEF Found, No
    <3>q. QED BY <3>1, <3>2
  <2>5. PHandleFound' BY <1>1, <1>3, <2>4 DEF PHandleFound, there, Lowest
  <2>q. QED BY <1>1, <1>2, <1>3, <1>4, <2>5 DEF FindInv, Walking
<1>5. CASE call.op = "interrupt"
  <2> DEFINE naming == {n \in Nodes : call.key # 0 /\ n \in Above(call.key) /\ tree.iparent[n] # Missing}
             named  == {n \in naming : \A o \in naming : o <= n}
             handle == IF named = {} THEN 0 ELSE ULONGOf(tree.iparent[CHOOSE n \in named : TRUE], 0)
             gic    == Lowest(Bearers(1, handle))
             cells  == IF gic = 0 THEN 0 ELSE ULONGOf(tree.icells[gic], 0)
             there  == call.key # 0 /\ cells >= 2 /\ Interrupts # Missing
                         /\ (call.index + 1) * cells <= Len(Interrupts)
             entry  == SubSeq(Interrupts, call.index * cells + 1, (call.index + 1) * cells)
  <2>1. Wanted = handle BY <1>2, <1>5, HandleIs
  <2>2. gic = (IF stack = <<>> THEN 0 ELSE Key) /\ (stack # <<>> => Key \in Nodes /\ Key # 0)
    <3> HIDE DEF handle
    <3>1. TopNode = 1 BY <1>5 DEF TopNode
    <3>2. /\ stack = <<>> => Bearers(1, handle) = {}
          /\ stack # <<>> => Key \in Nodes /\ Lowest(Bearers(1, handle)) = Key
      BY <1>2, <2>1, <3>1, FoundIs
    <3>3. stack # <<>> => Key # 0 BY <1>2, <3>2, OrderIs
    <3>4. Lowest({}) = 0 BY DEF Lowest
    <3>q. QED BY <3>2, <3>3, <3>4 DEF gic
  <2> HIDE DEF gic
  <2>3. cells = InterruptCells BY <2>2 DEF InterruptCells
  <2>4. cells \in Nat /\ call.index \in Nat /\ (call.index + 1) * cells < Cell
    <3>1. /\ call.index \in Nat
          /\ \A k \in Nodes : /\ tree.icells[k] = Missing \/ tree.icells[k] \in Seq(0 .. Cell - 1)
                              /\ (call.index + 1) * ULONGOf(tree.icells[k], 0) < Cell
      BY <1>2, NodesAssumption DEF Walking, IsWalk, tree, Nodes
    <3>2. \A k \in Nodes : ULONGOf(tree.icells[k], 0) \in Nat BY <3>1, CellAssumption DEF ULONGOf
    <3>3. CASE stack = <<>> BY <2>2, <3>1, <3>3, CellAssumption, SMT
    <3>4. CASE stack # <<>> BY <2>2, <3>1, <3>2, <3>4
    <3>q. QED BY <3>3, <3>4
  <2>5. result' = IF NoInterrupt THEN No
                  ELSE Found(IrqOf(Interrupts[call.index * cells + 1], Interrupts[call.index * cells + 2]))
    BY <1>5, <2>3 DEF WalkFound, Return
  <2>6. call.key # 0 /\ Interrupts # Missing => Interrupts \in Seq(0 .. Cell - 1)
    BY <1>2, NodesAssumption, OrderIs DEF Walking, IsWalk, Interrupts, tree, Nodes
  <2>7. cells >= 2 => /\ U32(U32(call.index + 1) * cells) = (call.index + 1) * cells
                      /\ (call.index + 1) * cells = call.index * cells + cells
                      /\ call.index * cells \in Nat
    <3> DEFINE i == call.index
    <3>1. cells \in Nat /\ i \in Nat /\ (i + 1) * cells < Cell BY <2>4
    <3> HIDE DEF cells, i
    <3>2. i * cells \in Nat /\ (i + 1) * cells = i * cells + cells /\ (cells >= 2 => i + 1 <= (i + 1) * cells)
      BY <3>1, SMT
    <3>3. ASSUME cells >= 2 PROVE U32(i + 1) = i + 1 /\ U32((i + 1) * cells) = (i + 1) * cells
      <4>1. i + 1 \in 0 .. Cell - 1 BY <3>1, <3>2, <3>3, CellAssumption
      <4>2. (i + 1) * cells \in 0 .. Cell - 1 BY <3>1, <3>2, <3>3, CellAssumption
      <4>q. QED BY <4>1, <4>2, U32Is
    <3>q. QED BY <3>2, <3>3 DEF i
  <2>8. NoInterrupt <=> ~there
    <3>1. call.key # 0 /\ Interrupts # Missing => Len(Interrupts) \in Nat BY <2>6
    <3>2. (call.index + 1) * cells \in Int BY <2>4, SMT
    <3> HIDE DEF cells
    <3>q. QED BY <2>3, <2>4, <2>7, <3>1, <3>2 DEF NoInterrupt
  <2>9. result'.ok = there BY <2>5, <2>8 DEF No, Found
  <2>10. ASSUME there
         PROVE  (result'.out - entry[2]) % Cell = CASE entry[1] = 0 -> SPI [] entry[1] = 1 -> PPI [] OTHER -> 0
    <3> DEFINE x == call.index * cells
               s == Interrupts
    <3>1. /\ s \in Seq(0 .. Cell - 1) /\ x \in Nat /\ cells \in Nat /\ cells >= 2 /\ x + cells <= Len(s)
          /\ entry = SubSeq(s, x + 1, x + cells)
      BY <2>4, <2>6, <2>7, <2>10
    <3>2. result'.out = IrqOf(s[x + 1], s[x + 2]) BY <2>5, <2>8, <2>10 DEF Found, No
    <3> HIDE DEF x, s, cells, entry, there
    <3>3. entry[1] = s[x + 1] /\ entry[2] = s[x + 2] BY <3>1
    <3>4. s[x + 1] \in 0 .. Cell - 1 /\ s[x + 2] \in 0 .. Cell - 1
      <4> DEFINE S == 0 .. Cell - 1
      <4>1. s \in Seq(S) BY <3>1
      <4> HIDE DEF S
      <4>2. Len(s) \in Nat /\ \A i \in 1 .. Len(s) : s[i] \in S BY <4>1
      <4>3. x + 1 \in 1 .. Len(s) /\ x + 2 \in 1 .. Len(s) BY <3>1, <4>2
      <4>q. QED BY <4>2, <4>3 DEF S
    <3>5. (IrqOf(s[x + 1], s[x + 2]) - s[x + 2]) % Cell
             = CASE s[x + 1] = 0 -> SPI [] s[x + 1] = 1 -> PPI [] OTHER -> 0
      BY <3>4, IrqIs
    <3>q. QED BY <3>2, <3>3, <3>5
  <2>11. InterruptFound'
    <3>1. Interrupts' = Interrupts /\ \A n : Lowest(n)' = Lowest(n) BY <1>1, <1>3 DEF Interrupts, Lowest
    <3> HIDE DEF naming, named, handle, cells, there, entry
    <3>2. result'.ok = there /\
            (there => (result'.out - entry[2]) % Cell = CASE entry[1] = 0 -> SPI [] entry[1] = 1 -> PPI [] OTHER -> 0)
      BY <2>9, <2>10
    <3>q. QED BY <1>1, <1>3, <3>1, <3>2, ZenonT(40) DEF InterruptFound, naming, named, handle, gic, cells, there, entry
  <2>q. QED BY <1>1, <1>2, <1>3, <1>5, <2>11 DEF FindInv, Walking
<1>q. QED BY <1>4, <1>5 DEF IsWalk

LEMMA FindKeeps == ASSUME FindInv, [Next]_devVars PROVE FindInv'
<1>1. call' = call
  BY DEF Next, MapNext, EnterRefused, EnterMissing, EnterMap, WalkRecord, WalkEnd, NodesNext, OpenTable, ReadEntry,
         OpenPath, EnterWalk, FindUp, OpenRoot, Visit, Back, WalkFound, OpenMemory, CloseMemory, ParseRecord,
         ParseEnd, ScanHeader, ScanEnd, devVars, vars, mapVars
<1>2. CASE ~IsWalk BY <1>1, <1>2 DEF FindInv, IsWalk
<1>3. CASE IsWalk
  <2>1. pc \in {"entry", "up", "visit", "back", "found", "done"} BY <1>3 DEF FindInv
  <2>2. ~MapNext
    BY <1>3, <2>1 DEF IsWalk, MapNext, EnterRefused, EnterMissing, EnterMap, WalkRecord, WalkEnd, IsMap
  <2>3. ~(OpenTable \/ ReadEntry \/ OpenPath)
    BY <1>3, <2>1 DEF IsWalk, OpenTable, ReadEntry, OpenPath, IsTable, IsPath
  <2>4. ~(OpenMemory \/ CloseMemory \/ ParseRecord \/ ParseEnd \/ ScanHeader \/ ScanEnd)
    BY <1>3, <2>1 DEF IsWalk, OpenMemory, CloseMemory, ParseRecord, ParseEnd, ScanHeader, ScanEnd, IsInit
  <2>5. CASE NodesNext
    BY <1>3, <2>3, <2>5, EnterWalkKeeps, FindUpKeeps, OpenRootKeeps, VisitKeeps, BackKeeps, WalkFoundKeeps
       DEF NodesNext
  <2>6. CASE UNCHANGED devVars
    <3>1. UNCHANGED <<call, pc, at, stack, result>> BY <2>6 DEF devVars, vars, mapVars
    <3>2. /\ Nodes' = Nodes /\ tree' = tree /\ TopNode' = TopNode /\ IsWalk' = IsWalk /\ Key' = Key
          /\ UpInv' = UpInv /\ GoesUp' = GoesUp
          /\ (\A k, n : Under(k, n)' = Under(k, n)) /\ \A k : HasIt(k)' = HasIt(k)
      BY <3>1, SameTree, SameSearch DEF Key
    <3>3. StackInv' = StackInv /\ VisitInv' = VisitInv /\ BackInv' = BackInv
      BY <3>1, <3>2 DEF StackInv, VisitInv, BackInv
    <3>4. FoundInv' = FoundInv BY <3>1, <3>2, <3>3 DEF FoundInv
    <3>5. /\ \A n : Above(n)' = Above(n)
          /\ \A k, h : Bearers(k, h)' = Bearers(k, h)
          /\ Interrupts' = Interrupts
      <4>1. \A n : Above(n)' = Above(n) BY <3>2 DEF Above
      <4>q. QED BY <3>1, <3>2, <4>1 DEF Bearers, Interrupts
    <3>6. PHandleFound' = PHandleFound BY <3>1, <3>5 DEF PHandleFound, Lowest
    <3>7. InterruptFound => InterruptFound'
      <4>1. \A n : Lowest(n)' = Lowest(n) BY DEF Lowest
      <4>q. QED BY <3>1, <3>2, <3>5, <4>1, ZenonT(40) DEF InterruptFound
    <3>q. QED BY <3>1, <3>2, <3>3, <3>4, <3>6, <3>7 DEF FindInv
  <2>q. QED BY <2>2, <2>4, <2>5, <2>6 DEF Next
<1>q. QED BY <1>2, <1>3

\* The keys that are open at each place of each call.
Open ==
    CASE pc \in {"table", "memory"} -> 1
      [] pc \in {"visit", "back", "found"} /\ call.op = "interrupt" -> 1
      [] pc = "done" /\ call.op = "symbol" /\ result.ok -> 1
      [] OTHER -> 0
KeysInv ==
    /\ pc \in {"entry", "walk", "table", "path", "up", "visit", "back", "found", "memory", "parse", "scan", "done"}
    /\ call.op = "symbol" => pc \in {"entry", "table", "path", "done"}
    /\ pc \in {"table", "path"} => IsTable
    /\ pc = "path" => call.op = "symbol"
    /\ pc = "up" => call.op = "interrupt"
    /\ pc \in {"visit", "back", "found"} => IsWalk
    /\ keys = Open

LEMMA KeysStart == ASSUME Init PROVE KeysInv
<1>1. pc = "entry" /\ keys = 0
  BY DEF Init, MapInit, NodesInit, MemInit, NodesIdle
<1>q. QED BY <1>1 DEF KeysInv, Open

LEMMA KeysKeep == ASSUME KeysInv, [Next]_devVars PROVE KeysInv'
<1> USE DEF KeysInv, Open
<1>1. CASE MapNext /\ UNCHANGED <<stack, keys, memVars>>
  BY <1>1 DEF MapNext, EnterRefused, EnterMissing, EnterMap, WalkRecord, WalkEnd, IsMap, IsTable, IsPath, IsWalk
<1>2. CASE OpenTable BY <1>2 DEF OpenTable, IsTable, IsPath, IsWalk, Return, No
<1>3. CASE ReadEntry
  BY <1>3 DEF ReadEntry, IsTable, IsPath, IsWalk, Return, No
<1>4. CASE OpenPath BY <1>4 DEF OpenPath, IsTable, IsPath, IsWalk, Return, No, Found
<1>5. CASE EnterWalk BY <1>5 DEF EnterWalk, IsTable, IsPath, IsWalk
<1>6. CASE FindUp \/ OpenRoot BY <1>6 DEF FindUp, OpenRoot, IsTable, IsPath, IsWalk
<1>7. CASE Visit \/ Back BY <1>7 DEF Visit, Back, IsTable, IsPath, IsWalk
<1>8. CASE WalkFound BY <1>8 DEF WalkFound, IsTable, IsPath, IsWalk, Return
<1>9. CASE OpenMemory \/ CloseMemory \/ ParseRecord \/ ParseEnd \/ ScanHeader \/ ScanEnd
  BY <1>9 DEF OpenMemory, CloseMemory, ParseRecord, ParseEnd, ScanHeader, ScanEnd, IsTable, IsPath, IsWalk, IsInit,
              vars, mapVars, memVars
<1>10. CASE UNCHANGED devVars BY <1>10 DEF devVars, vars, mapVars, IsTable, IsPath, IsWalk
<1>q. QED BY <1>1, <1>2, <1>3, <1>4, <1>5, <1>6, <1>7, <1>8, <1>9, <1>10 DEF Next, NodesNext

\* DT_FindByPHandle() and DT_GetInterrupt() find what the tree says, in any tree, and no
\* helper leaves a key open but the one it returns.
THEOREM NodesFound == Spec => []LookupExact
<1>1. FindInv /\ KeysInv => LookupExact
  BY DEF FindInv, KeysInv, Open, LookupExact, IsWalk
<1>q. QED BY <1>1, FindStart, FindKeeps, KeysStart, KeysKeep, PTL DEF Spec
=============================================================================
