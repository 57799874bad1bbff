--------------------------- MODULE DmaLayoutProofs ---------------------------
(***************************************************************************)
(* The layout of a dma_alloc() block is sound for every address, alignment *)
(* and size, whatever the widths of the bookkeeping words.                 *)
(***************************************************************************)
EXTENDS DmaLayout, TLAPS

\* Rounding down stays within one alignment below.
LEMMA AlignDownBounds ==
    ASSUME NEW x \in Nat, NEW a \in Nat \ {0}
    PROVE  /\ AlignDown(x, a) \in Nat
           /\ AlignDown(x, a) <= x
           /\ x < AlignDown(x, a) + a
<1> DEFINE q == x \div a
           r == x % a
<1>1. q \in Int /\ r \in 0 .. a - 1 /\ x = a * q + r
  BY SMT
<1>2. AlignDown(x, a) = a * q
  BY <1>1 DEF AlignDown
<1>3. q >= 0
  BY <1>1, SMT
<1>4. a * q \in Nat
  BY <1>1, <1>3, SMT
<1> HIDE DEF q, r
<1> QED
  BY <1>1, <1>2, <1>4, SMT

\* Rounding up adds less than the alignment.
LEMMA AlignUpBounds ==
    ASSUME NEW x \in Nat, NEW a \in Nat \ {0}
    PROVE  /\ AlignUp(x, a) \in Nat
           /\ x <= AlignUp(x, a)
           /\ AlignUp(x, a) <= x + a - 1
<1> DEFINE y == x + (a - 1)
<1>1. y \in Nat
  OBVIOUS
<1>2. AlignUp(x, a) = AlignDown(y, a)
  BY DEF AlignUp
<1> HIDE DEF y
<1>3. /\ AlignDown(y, a) \in Nat
      /\ AlignDown(y, a) <= y
      /\ y < AlignDown(y, a) + a
  BY <1>1, AlignDownBounds
<1> QED
  BY <1>1, <1>2, <1>3 DEF y

\* Rounded values are multiples of the alignment.
LEMMA AlignUpIsMultiple ==
    ASSUME NEW x \in Nat, NEW a \in Nat \ {0}
    PROVE  \E k \in Nat : AlignUp(x, a) = k * a
<1> DEFINE y == x + (a - 1)
           q == y \div a
<1>1. y \in Nat
  OBVIOUS
<1>2. q \in Int /\ q >= 0
  BY <1>1, SMT
<1>3. AlignUp(x, a) = q * a
  BY DEF AlignUp, AlignDown
<1> HIDE DEF q
<1> QED
  BY <1>2, <1>3

\* What the layout theorem needs of the parts, with the extents still hidden.
LEMMA Parts ==
    ASSUME NEW raw \in Nat, NEW align \in Nat, NEW size \in Nat
    PROVE  /\ EffAlign(align) \in Nat \ {0}
           /\ align <= EffAlign(align) /\ PtrSize <= EffAlign(align)
           /\ EffSize(align, size) \in Nat /\ size <= EffSize(align, size)
           /\ Aligned(raw, align) \in Nat
           /\ raw + LongSize + PtrSize <= Aligned(raw, align)
           /\ Aligned(raw, align) <= raw + LongSize + PtrSize + EffAlign(align) - 1
           /\ \E k \in Nat : Aligned(raw, align) = k * EffAlign(align)
<1> USE SizeAssumption
<1>1. EffAlign(align) \in Nat \ {0} /\ align <= EffAlign(align) /\ PtrSize <= EffAlign(align)
  BY DEF EffAlign
<1>2. EffSize(align, size) \in Nat /\ size <= EffSize(align, size)
  <2>1. /\ AlignUp(size, EffAlign(align)) \in Nat
        /\ size <= AlignUp(size, EffAlign(align))
    BY <1>1, AlignUpBounds
  <2> QED
    BY <2>1 DEF EffSize
<1>3. raw + LongSize + PtrSize \in Nat
  OBVIOUS
<1> QED
  BY <1>1, <1>2, <1>3, AlignUpBounds, AlignUpIsMultiple DEF Aligned

\* dma_alloc() keeps its promises to the caller: the buffer is aligned as asked,
\* holds the size asked for, and lies with both words of bookkeeping inside the
\* block the pool handed out, no two of the three overlapping.  So neither a
\* caller filling its buffer nor dma_alloc() writing the second word destroys
\* what dma_free() will read.
THEOREM LayoutSound ==
    ASSUME NEW raw \in Nat, NEW align \in Nat, NEW size \in Nat
    PROVE  LayoutOK(raw, align, size)
<1> DEFINE A == Aligned(raw, align)
           E == EffAlign(align)
           S == EffSize(align, size)
           T == Total(align, size)
<1> USE SizeAssumption
<1>1. /\ E \in Nat \ {0} /\ align <= E
      /\ S \in Nat /\ size <= S
      /\ A \in Nat /\ raw + LongSize + PtrSize <= A
      /\ A <= raw + LongSize + PtrSize + E - 1
      /\ \E k \in Nat : A = k * E
  BY Parts
<1>2. T = S + (E - 1) + PtrSize + LongSize
  BY DEF Total
<1> HIDE DEF A, E, S, T
<1>3. /\ SizeWord(raw) = raw .. raw + LongSize - 1
      /\ BackWord(raw, align) = A - PtrSize .. A - PtrSize + PtrSize - 1
      /\ Buffer(raw, align, size) = A .. A + S - 1
      /\ Block(raw, align, size) = raw .. raw + T - 1
      /\ Extent(A, size) = A .. A + size - 1
  BY DEF SizeWord, BackWord, Buffer, Block, Extent, A, S, T
<1>4. /\ SizeWord(raw) \subseteq Block(raw, align, size)
      /\ BackWord(raw, align) \subseteq Block(raw, align, size)
      /\ Buffer(raw, align, size) \subseteq Block(raw, align, size)
      /\ Extent(A, size) \subseteq Buffer(raw, align, size)
  BY <1>1, <1>2, <1>3
<1>5. /\ SizeWord(raw) \cap BackWord(raw, align) = {}
      /\ SizeWord(raw) \cap Buffer(raw, align, size) = {}
      /\ BackWord(raw, align) \cap Buffer(raw, align, size) = {}
  BY <1>1, <1>2, <1>3
<1> QED
  BY <1>1, <1>4, <1>5 DEF LayoutOK, A, E

-----------------------------------------------------------------------------
(* Which addresses share a cache line. *)

LEMMA TimesMono ==
    ASSUME NEW L \in Nat \ {0}, NEW x \in Int, NEW y \in Int
    PROVE  (x * L < y * L => x < y) /\ (x <= y => x * L <= y * L)
BY SMT

LEMMA LineBounds ==
    ASSUME NEW a \in Nat
    PROVE  /\ LineOf(a) \in Nat /\ AlignDown(a, Line) = LineOf(a) * Line
           /\ LineOf(a) * Line <= a /\ a < (LineOf(a) + 1) * Line
<1>1. AlignDown(a, Line) <= a /\ a < AlignDown(a, Line) + Line BY AlignDownBounds, SizeAssumption
<1>2. LineOf(a) \in Int /\ LineOf(a) >= 0 BY SizeAssumption, SMT DEF LineOf
<1>3. AlignDown(a, Line) = LineOf(a) * Line BY DEF AlignDown, LineOf
<1>4. (LineOf(a) + 1) * Line = LineOf(a) * Line + Line BY <1>2, SizeAssumption, SMT
<1>q. QED BY <1>1, <1>2, <1>3, <1>4, SizeAssumption

\* A range of whole lines has all of each line it touches.
LEMMA LineInside ==
    ASSUME NEW x \in Nat, NEW n \in Nat, NEW a \in Extent(x * Line, n * Line)
    PROVE  Extent(LineOf(a) * Line, Line) \subseteq Extent(x * Line, n * Line)
<1> USE SizeAssumption
<1> DEFINE m == LineOf(a)
<1>0. x * Line \in Nat /\ n * Line \in Nat OBVIOUS
<1>1. a \in Nat /\ x * Line <= a /\ a < x * Line + n * Line BY <1>0 DEF Extent
<1>2. m \in Nat /\ m * Line <= a /\ a < (m + 1) * Line BY <1>1, LineBounds
<1>4. x * Line + n * Line = (x + n) * Line BY SMT
<1> HIDE DEF m
<1>5. x * Line < (m + 1) * Line /\ m * Line < (x + n) * Line
  BY <1>0, <1>1, <1>2, <1>4
<1>6. x < m + 1 /\ m < x + n BY <1>2, <1>5, TimesMono
<1>7. x * Line <= m * Line /\ (m + 1) * Line <= (x + n) * Line BY <1>2, <1>6, TimesMono
<1>8. (m + 1) * Line = m * Line + Line /\ m * Line \in Nat BY <1>2, SMT
<1>9. Extent(m * Line, Line) \subseteq Extent(x * Line, n * Line)
  BY <1>0, <1>4, <1>7, <1>8 DEF Extent
<1>q. QED BY <1>9 DEF m

LEMMA WholeLines ==
    ASSUME NEW x \in Nat, NEW n \in Nat, NEW a \in Extent(x * Line, n * Line), NEW b \in Nat,
           LineOf(b) = LineOf(a)
    PROVE  b \in Extent(x * Line, n * Line)
<1> DEFINE m == LineOf(b)
<1>1. m \in Nat /\ m * Line <= b /\ b < (m + 1) * Line BY LineBounds
<1> HIDE DEF m
<1>2. (m + 1) * Line = m * Line + Line /\ m * Line \in Nat BY <1>1, SizeAssumption, SMT
<1>3. b \in Extent(m * Line, Line) BY <1>1, <1>2, SizeAssumption DEF Extent
<1>q. QED BY <1>3, LineInside DEF m

\* The buffer of a request aligned to a cache line, or to a multiple of it, is made
\* of whole lines.
LEMMA BufferLines ==
    ASSUME NEW raw \in Nat, NEW al \in Nat, NEW sz \in Nat, NEW k \in Nat \ {0}, al = k * Line,
           PtrSize <= Line
    PROVE  \E x, n \in Nat : Buffer(raw, al, sz) = Extent(x * Line, n * Line)
<1>2. al >= Line BY SizeAssumption, SMT
<1>3. EffAlign(al) = al /\ al \in Nat \ {0} BY <1>2, SizeAssumption DEF EffAlign
<1>4. PICK p \in Nat : Aligned(raw, al) = p * al BY <1>3, Parts
<1>5. EffSize(al, sz) = AlignUp(sz, al) BY <1>2, <1>3 DEF EffSize
<1>6. PICK q \in Nat : EffSize(al, sz) = q * al
  <2>1. \E q \in Nat : AlignUp(sz, al) = q * al BY <1>3, AlignUpIsMultiple, Zenon
  <2>q. QED BY <1>5, <2>1, Zenon
<1>7. p * al = (p * k) * Line /\ q * al = (q * k) * Line /\ p * k \in Nat /\ q * k \in Nat
  BY <1>4, <1>6, SizeAssumption, SMT
<1>8. Buffer(raw, al, sz) = Extent((p * k) * Line, (q * k) * Line)
  BY <1>4, <1>6, <1>7 DEF Buffer
<1>q. QED BY <1>7, <1>8
=============================================================================
