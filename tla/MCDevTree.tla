----------------------------- MODULE MCDevTree ------------------------------
(***************************************************************************)
(* TLC instance of DmaMem, DtNodes and DtMap: a cell counts to 16, a u64   *)
(* to 256, 2 GiB is 8.                                                     *)
(***************************************************************************)
EXTENDS DmaMem

Cells(n, values) == [1 .. n -> values]

\* Translation: records in every mix of one- and two-cell addresses, values at the
\* limits of a cell, one record or two, with cells left over.
Bus(p, c, n, s) == [prop |-> p, child |-> c, parent |-> n, size |-> s]
OneRecord == {Bus(p, l[1], l[2], l[3]) :
    p \in Cells(3, {0, 1, 8, 15}), l \in {<<1, 1, 1>>, <<1, 1, 2>>}}
  \cup {Bus(p, 2, 1, 1) : p \in Cells(4, {0, 2, 14, 15})}
  \cup {Bus(p, 1, 2, 1) : p \in Cells(4, {0, 2, 14, 15})}
TwoRecords == {Bus(p \o q \o r, 1, 1, 1) :
    p \in Cells(3, {0, 7, 9}), q \in Cells(3, {0, 6, 10}), r \in {<<>>, <<5, 5>>}}
MCBuses == OneRecord \cup TwoRecords
  \cup {Bus(p, 1, 1, 1) : p \in {Missing, <<>>, <<3>>}} \cup {Bus(<<1, 2>>, 0, 0, 0)}

Dma(o, a, n) == [op |-> o, addr |-> a, len |-> n, reg |-> <<>>, index |-> 0]
Base(r, i) == [op |-> "base", addr |-> 0, len |-> 0, reg |-> r, index |-> i]
MCMapCalls == {Dma(o, a, n) : o \in {"dma", "window"}, a \in {0, 2, 9, 15}, n \in {0, 1, 6}}
  \cup {Base(r, i) : r \in {<<>>, <<8, 1>>, <<0, 14, 5, 2>>, <<15, 15, 1>>}, i \in {0, 1}}

\* Lookup: every tree of up to four nodes, every placing of phandles and
\* "interrupt-parent"s, entries of two and three cells, whole or cut off.
RECURSIVE Up(_, _)
Up(p, n) == IF n = 0 THEN {} ELSE {n} \cup Up(p, p[n])
Shapes(n) == {p \in [1 .. n -> 0 .. n - 1] :
                p[1] = 0 /\ \A c \in 2 .. n : p[c] < c /\ p[c] \in Up(p, c - 1)}
Tree(p, h, i, c, e) == [parent |-> p, phandle |-> h, iparent |-> i, icells |-> c,
                        interrupts |-> [k \in DOMAIN p |-> e]]
None(n) == [k \in 1 .. n |-> Missing]
Walk(o, t, k, i, h) == [op |-> o, tree |-> t, key |-> k, index |-> i, phandle |-> h]
PHandleCalls == UNION {{Walk("phandle", Tree(p, h, None(n), None(n), Missing), k, 0, 1) :
    p \in Shapes(n), h \in [1 .. n -> {Missing, <<>>, <<1>>, <<2>>}], k \in 0 .. n} : n \in {1, 4}}
InterruptCells3 == {[k \in 1 .. 3 |-> <<2>>], <<Missing, <<1>>, <<3>>>>, <<<<3>>, <<2>>, <<>>>>}
InterruptCalls == {Walk("interrupt", Tree(p, h, u, c, e), k, i, 0) :
    p \in Shapes(3), h \in [1 .. 3 -> {Missing, <<1>>}] \cup {<<Missing, <<0>>, <<1>>>>},
    u \in [1 .. 3 -> {Missing, <<>>, <<1>>}], c \in InterruptCells3,
    e \in {Missing, <<0, 5>>, <<1, 4, 0, 0, 14, 1>>}, k \in {0, 2, 3}, i \in {0, 1}}

Table(o, t) == [op |-> o, table |-> t, nodes |-> {2}]
TableCalls ==
    {Table(o, Missing) : o \in {"alias", "symbol", "range", "probe"}}
    \cup {Table(o, [entry |-> e]) : o \in {"alias", "symbol"}, e \in {Missing, 2, 3}}
    \cup {Table(o, [entry |-> e]) : o \in {"range", "probe"}, e \in {Missing, <<>>, <<1>>, <<2>>, <<1, 5>>}}
MCNodeCalls == PHandleCalls \cup InterruptCalls \cup TableCalls

\* Discovery: every property of up to four cells over values next to the limits, in
\* each cell layout; the largest sizes make base + size wrap.  A table of two
\* regions is smaller than some of the lists.
Props == UNION {Cells(n, {0, 1, 5, 8, 15}) : n \in 0 .. 4}
Layouts == {<<<<1>>, Missing>>, <<Missing, <<>>>>, <<<<2>>, <<2>>>>, <<<<1>>, <<2>>>>}
Memory(f, p, l) == [found |-> f, reg |-> p, addrCells |-> l[1], sizeCells |-> l[2]]
MCTrees == {Memory("all", p, l) : p \in Props, l \in Layouts}
    \cup {Memory(f, <<0, 8>>, <<<<1>>, <<1>>>>) : f \in {"no_resource", "no_memory", "no_reg"}}

Fast(l, h) == [fast |-> TRUE, lo |-> l, hi |-> h]
Chip(l, h) == [fast |-> FALSE, lo |-> l, hi |-> h]
MCMemLists == {<<>>,
               <<Chip(0, 1), Fast(1, 5), Fast(5, 8)>>,
               <<Fast(5, 9), Fast(9, 12), Fast(0, 6)>>,
               <<Fast(1, 2), Fast(3, 4), Fast(4, 5), Chip(5, 6)>>}
=============================================================================
