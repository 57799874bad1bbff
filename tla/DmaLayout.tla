------------------------------ MODULE DmaLayout ------------------------------
(***************************************************************************)
(* The arithmetic of dma_alloc() (include/dma_mem.h): where in a block of  *)
(* the region pool the caller's aligned buffer lies, and where the two     *)
(* words of bookkeeping go that dma_free() reads back: the block's size at *)
(* its start, and the block's address just below the buffer.               *)
(***************************************************************************)
EXTENDS Integers

CONSTANTS PtrSize,    \* sizeof(APTR): 4
          LongSize,   \* sizeof(ULONG): 4
          BlockSize,  \* MEM_BLOCKSIZE: 8
          Line        \* DMA_ALIGN_MIN: 64, the cache line

ASSUME SizeAssumption ==
    /\ PtrSize \in Nat \ {0} /\ LongSize \in Nat \ {0}
    /\ BlockSize \in Nat \ {0} /\ Line \in Nat \ {0}

\* x & ~(a - 1), a a power of two.
AlignDown(x, a) == (x \div a) * a

\* ALIGN_UP and its spelled-out forms: (x + (a - 1)) & ~(a - 1).
AlignUp(x, a) == AlignDown(x + (a - 1), a)

\* The cache line that an address is in.
LineOf(a) == a \div Line

\* An alignment below a pointer's is a pointer's.
EffAlign(align) == IF align < PtrSize THEN PtrSize ELSE align

\* Cache-line (or coarser) aligned requests get whole lines.
EffSize_Plain(align, size) == size
EffSize(align, size) ==
    IF EffAlign(align) >= Line THEN AlignUp(size, EffAlign(align)) ELSE size

\* What is asked of the region pool.
Total(align, size) ==
    EffSize(align, size) + (EffAlign(align) - 1) + PtrSize + LongSize

\* The buffer in the block at raw.
Aligned_NoRoom(raw, align) == AlignUp(raw + PtrSize, EffAlign(align))
Aligned(raw, align) == AlignUp(raw + LongSize + PtrSize, EffAlign(align))

\* The extents, as sets of addresses: [from, from + len).
Extent(from, len) == from .. (from + len - 1)

SizeWord(raw) == Extent(raw, LongSize)
BackWord(raw, align) == Extent(Aligned(raw, align) - PtrSize, PtrSize)
Buffer(raw, align, size) == Extent(Aligned(raw, align), EffSize(align, size))
Block(raw, align, size) == Extent(raw, Total(align, size))

-----------------------------------------------------------------------------
\* The layout is sound: the buffer is aligned, holds what was asked for, and lies
\* in the block together with the two words, the three of them apart.
LayoutOK(raw, align, size) ==
    /\ \E k \in Nat : Aligned(raw, align) = k * EffAlign(align)
    /\ Extent(Aligned(raw, align), size) \subseteq Buffer(raw, align, size)
    /\ SizeWord(raw) \subseteq Block(raw, align, size)
    /\ BackWord(raw, align) \subseteq Block(raw, align, size)
    /\ Buffer(raw, align, size) \subseteq Block(raw, align, size)
    /\ SizeWord(raw) \cap BackWord(raw, align) = {}
    /\ SizeWord(raw) \cap Buffer(raw, align, size) = {}
    /\ BackWord(raw, align) \cap Buffer(raw, align, size) = {}
=============================================================================
