-------------------------------- MODULE DtMap --------------------------------
(***************************************************************************)
(* Address translation of src/devtree.c: dt_map(), which carries a span    *)
(* across a bus by its "ranges" or "dma-ranges", and the three calls made  *)
(* of it: DT_GetBaseAddressVirtual(), DT_GetDmaAddress() and               *)
(* DT_GetDmaWindow().  One call, and what it reads of the tree, chosen at  *)
(* the start; the walk over the records is taken a record at a time.       *)
(***************************************************************************)
EXTENDS DtCells, FiniteSets

CONSTANTS Buses,   \* [prop, child, parent, size]: the cells of the property or
                   \* Missing, and the numbers of cells of each part of a record
          MapCalls,  \* [op, addr, len, reg, index]
          Missing

\* What a driver asks about is there to be asked: a record's place in "reg", counted in
\* cells, is far below 2^32.
ASSUME MapAssumption ==
    /\ \A b \in Buses : /\ b.prop = Missing \/ b.prop \in Seq(0 .. Cell - 1)
                        /\ b.child \in Nat /\ b.parent \in Nat /\ b.size \in Nat
    /\ \A c \in MapCalls : /\ c.op \in {"base", "dma", "window"}
                           /\ c.addr \in 0 .. Cell - 1 /\ c.len \in 0 .. Cell - 1
                           /\ c.reg \in Seq(0 .. Cell - 1) /\ c.index \in Nat
    /\ \A b \in Buses, c \in MapCalls : (c.index + 1) * (b.child + b.size) < Cell

VARIABLES bus, call, pc,
          at,       \* offset of the record the walk is at
          span,     \* the addr and len given to dt_map()
          hit,      \* covered, mapped, range_start, range_end
          result    \* what the caller gets

mapVars == <<bus, call, pc, at, span, hit, result>>

Top == Cell - 1  \* 0xFFFFFFFF
NoHit == [covered |-> FALSE, mapped |-> 0, start |-> 0, end |-> 0]
No == [ok |-> FALSE, out |-> 0, start |-> 0, end |-> 0]
RecordCells == bus.child + bus.parent + bus.size

\* The records of a property: <<child, parent, size>>.
RecordAt(p) == <<NumberAt(bus.prop, p, bus.child),
                 NumberAt(bus.prop, p + bus.child, bus.parent),
                 NumberAt(bus.prop, p + bus.child + bus.parent, bus.size)>>
Records == IF bus.prop = Missing \/ RecordCells = 0 THEN {}
           ELSE {RecordAt(k * RecordCells) : k \in 0 .. (Len(bus.prop) \div RecordCells) - 1}

\* The trees and calls that make sense: a record does not run past the end of
\* the address space its cells give it on either side, nor a CPU span past 4 GiB.
Width(cells) == IF cells = 0 THEN 1 ELSE IF cells = 1 THEN Cell ELSE Cell * Cell
WellFormed ==
    /\ \A r \in Records : r[1] + r[3] <= Width(bus.child) /\ r[2] + r[3] <= Width(bus.parent)
    /\ call.addr + call.len <= Cell

IsMap == call.op \in {"base", "dma", "window"}
ToParent == call.op = "base"
From(r) == IF ToParent THEN r[1] ELSE r[2]
To(r) == IF ToParent THEN r[2] ELSE r[1]

MapInit ==
    /\ bus \in Buses /\ call \in MapCalls
    /\ WellFormed
    /\ pc = "entry" /\ at = 0 /\ span = [addr |-> 0, len |-> 0]
    /\ hit = NoHit /\ result = No

\* The calls refuse what they cannot ask dt_map() about: a "reg" without the
\* record, a span of no bytes.
RegCells == bus.child + bus.size
Refused == IF ToParent
             THEN \/ bus.child = 0
                  \/ Len(call.reg) < U32(U32(call.index + 1) * RegCells)
             ELSE call.len = 0

EnterRefused ==
    /\ pc = "entry" /\ IsMap /\ Refused
    /\ pc' = "done"
    /\ UNCHANGED <<bus, call, at, span, hit, result>>

\* An empty property covers everything, one to one.
EnterMap ==
    /\ pc = "entry" /\ IsMap /\ ~Refused /\ bus.prop # Missing
    /\ LET a == IF ToParent THEN NumberAt(call.reg, call.index * RegCells, bus.child)
                            ELSE call.addr
       IN  /\ span' = [addr |-> a, len |-> IF ToParent THEN 1 ELSE call.len]
           /\ hit' = [NoHit EXCEPT !.covered = (bus.prop = <<>>), !.mapped = a]
    /\ pc' = "walk"
    /\ UNCHANGED <<bus, call, at, result>>

EnterMissing ==
    /\ pc = "entry" /\ IsMap /\ ~Refused /\ bus.prop = Missing
    /\ pc' = "done"
    /\ UNCHANGED <<bus, call, at, span, hit, result>>

\* The record holds the whole span, tested by offsets that cannot wrap.
Covers_Sums(r) == span.addr >= From(r) /\ span.addr + span.len <= U64(From(r) + r[3])
Covers(r) ==
    /\ span.addr >= From(r)
    /\ span.addr - From(r) < r[3]
    /\ span.len <= r[3] - (span.addr - From(r))

MoreRecords ==
    ~hit.covered /\ RecordCells # 0 /\ Len(bus.prop) - at >= RecordCells

WalkRecord ==
    /\ pc = "walk" /\ MoreRecords
    /\ LET r == RecordAt(at)
       IN  hit' = IF Covers(r)
             THEN [covered |-> TRUE, mapped |-> U64(To(r) + (span.addr - From(r))),
                   start |-> From(r), end |-> U64(From(r) + r[3])]
             ELSE hit
    /\ at' = at + RecordCells
    /\ UNCHANGED <<bus, call, pc, span, result>>

\* The result and the whole span behind it fit 32 bits.
Fits == hit.covered /\ hit.mapped <= Top /\ U64(span.len - 1) <= Top - hit.mapped

\* from_range[]: a bound past 32 bits is the highest there is, and so is an
\* end that has wrapped (or was never set, for an empty property).
RangeStart == IF hit.start > Top THEN Top ELSE hit.start
RangeEnd_Cut == U32(hit.end)
RangeEnd == IF hit.end > Top \/ hit.end = 0 THEN Top ELSE hit.end

WalkEnd ==
    /\ pc = "walk" /\ ~MoreRecords
    /\ result' = IF ~Fits THEN No
                 ELSE [ok |-> TRUE, out |-> U32(hit.mapped),
                       start |-> IF call.op = "window" THEN RangeStart ELSE 0,
                       end |-> IF call.op = "window" THEN RangeEnd ELSE 0]
    /\ pc' = "done"
    /\ UNCHANGED <<bus, call, at, span, hit>>

MapNext == EnterRefused \/ EnterMissing \/ EnterMap \/ WalkRecord \/ WalkEnd

-----------------------------------------------------------------------------
(* Properties *)

\* The translations the property allows of a span, in unbounded arithmetic.
Holds(r, a, n) == Span(a, n) \subseteq Span(From(r), r[3])
Images(a, n) ==
    {m \in (IF bus.prop = <<>> THEN {a}
            ELSE {To(r) + (a - From(r)) : r \in {s \in Records : Holds(s, a, n)}}) :
        m + n - 1 <= Top}

\* A call that was let through succeeds only with an address the bus really
\* gives the whole span, and fails only when some record that could have
\* matched does not fit 32 bits or there is none: no wrapped sum, no record that
\* ends at the top of the address space and no partly covered span gets a
\* wrong answer.
MapExact ==
    pc = "done" /\ IsMap /\ ~Refused =>
        LET a == IF ToParent THEN NumberAt(call.reg, call.index * RegCells, bus.child)
                             ELSE call.addr
            n == IF ToParent THEN 1 ELSE call.len
        IN  /\ result.ok => bus.prop # Missing /\ result.out \in Images(a, n)
            /\ bus.prop # Missing /\ ~result.ok
                 => \/ Images(a, n) = {}
                    \/ \E r \in Records : Holds(r, a, n) /\ To(r) + (a - From(r)) + n - 1 > Top

\* The window DT_GetDmaWindow() reports lies inside the record that covered the
\* span and holds the span, up to the last address, which an exclusive 32-bit
\* end cannot include.
WindowIsRecord ==
    pc = "done" /\ call.op = "window" /\ result.ok =>
        LET window == Span(result.start, result.end - result.start)
        IN  /\ Span(call.addr, call.len) \ {Top} \subseteq window
            /\ bus.prop # <<>> =>
                 \E r \in Records : Holds(r, call.addr, call.len) /\ window \subseteq Span(From(r), r[3])
=============================================================================
