------------------------------- MODULE DtCells -------------------------------
(***************************************************************************)
(* Numbers in device-tree properties (src/devtree.c).  A property is the   *)
(* sequence of its cells.  Widths are kept but scaled: a cell (u32) counts *)
(* to Cell, a u64 to Cell * Cell.                                          *)
(***************************************************************************)
EXTENDS Integers, Sequences

CONSTANT Cell
ASSUME CellAssumption == Cell \in Nat /\ Cell > 1

U32(x) == x % Cell
U64(x) == x % (Cell * Cell)

\* DT_GetNumber(): most significant cell first, holds two cells.
ValueAfter(cells) ==
    LET value[n \in 0 .. Len(cells)] == IF n = 0 THEN 0 ELSE U64(value[n - 1] * Cell + cells[n])
    IN  value
DT_GetNumber(cells) == ValueAfter(cells)[Len(cells)]

\* n cells of s from offset pos, and the number they make.
CellsAt(s, pos, n) == SubSeq(s, pos + 1, pos + n)
NumberAt(s, pos, n) == DT_GetNumber(CellsAt(s, pos, n))

\* The addresses [from, from + len), whatever the width.
Span(from, len) == from .. (from + len - 1)
=============================================================================
