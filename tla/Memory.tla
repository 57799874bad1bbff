------------------------------- MODULE Memory -------------------------------
(***************************************************************************)
(* memmove(), memcpy() and memset() (src/memmove_movem.S, memcpy_movem.S,  *)
(* memset_movem.S): bytes, longwords or movem.l blocks.  memmove() goes    *)
(* upwards unless dst lies inside the source, then from the end, and keeps *)
(* the long it ends on in a register; the other two have no overlap to     *)
(* mind and end with the long or the block that ends at n.                 *)
(*                                                                         *)
(* One call on a memory whose every byte starts out as its own address.    *)
(* The registers a0, a1 and d1 are the code's (memset() has no a1: it      *)
(* walks with a0); saved is the long that memmove() keeps in d0.  Each     *)
(* pass of a loop is a step.  A block is two movem.l of HalfBlock bytes each;   *)
(* its size is scaled, a long's is not.                                    *)
(***************************************************************************)
EXTENDS LibCall, Integers

CONSTANTS Long,     \* 4
          HalfBlock,     \* 32, scaled
          Space,    \* the address space: 2^32, scaled
          MaxLen,   \* bound on n
          Places,   \* the addresses src and dst are chosen from
          Pattern   \* memset()'s fill byte, in every lane of the registers

Block == 2 * HalfBlock   \* 64: MEMMOVE_SMALL, MEMCPY_SMALL and MEMSET_SMALL

ASSUME MoveAssumption ==
    /\ Long = 4   \* the byte moves at 0, n - 1 and n / 2 cover no more than three bytes
    /\ HalfBlock \in Nat /\ HalfBlock >= Long /\ HalfBlock % Long = 0
    /\ Space \in Nat /\ MaxLen \in Nat
    /\ \A p \in Places : p \in Nat /\ p + MaxLen <= Space

VARIABLES op, dst, src, n, mem, a0, a1, d1, left, saved

moveArgs == <<op, dst, src, n>>
moveVars == <<moveArgs, mem, a0, a1, d1, left, saved>>

Addresses == 0 .. Space - 1
U32(x) == x % Space

\* The regions of a memcpy() are apart; memset() has no source.
MoveIdle ==
    /\ op = "none" /\ dst = 0 /\ src = 0 /\ n = 0 /\ mem = <<>>
    /\ a0 = 0 /\ a1 = 0 /\ d1 = 0 /\ left = 0 /\ saved = <<>>
MoveInit ==
    /\ op \in {"memmove", "memcpy", "memset"}
    /\ dst \in Places /\ src \in Places /\ n \in 0 .. MaxLen
    /\ op = "memcpy" => dst + n <= src \/ src + n <= dst
    /\ op = "memset" => src = dst
    /\ mem = [a \in Addresses |-> a]
    /\ pc = "entry" /\ a0 = dst /\ a1 = src /\ d1 = 0 /\ left = n
    /\ saved = [i \in 0 .. Long - 1 |-> 0]

\* k bytes from one place to another, all read before any is stored.
Copy(m, from, to, k) ==
    [a \in Addresses |->
        IF a \notin to .. to + k - 1 THEN m[a]
        ELSE IF op = "memset" THEN Pattern ELSE m[from + (a - to)]]
CopyBlock(from, to) == Copy(Copy(mem, from, to, HalfBlock), from + HalfBlock, to + HalfBlock, HalfBlock)
LongAt(a) == [i \in 0 .. Long - 1 |-> mem[a + i]]
Stored(long, to) ==
    [a \in Addresses |-> IF a \in to .. to + Long - 1 THEN long[a - to] ELSE mem[a]]

-----------------------------------------------------------------------------
(* The branches at the entries. *)

\* dst lies inside the source: the difference is unsigned.
Inside == U32(dst - src) < n

Enter(to) == pc = "entry" /\ pc' = to /\ UNCHANGED <<moveArgs, mem, left>>
Move(to) == op = "memmove" /\ dst # src /\ Enter(to)

MoveSame ==
    /\ op = "memmove" /\ dst = src
    /\ Enter("moved")
    /\ UNCHANGED <<a0, a1, d1, saved>>
MoveTiny ==
    /\ ~Inside /\ n < Long
    /\ Move("tiny")
    /\ UNCHANGED <<a0, a1, d1, saved>>
MoveLong ==
    /\ ~Inside /\ n >= Long /\ n < Block
    /\ Move("long")
    /\ saved' = LongAt(src + n - Long) /\ d1' = src + n - Long
    /\ UNCHANGED <<a0, a1>>
MoveBlock ==
    /\ ~Inside /\ n >= Block
    /\ Move("block")
    /\ saved' = LongAt(src + n - Long)
    /\ UNCHANGED <<a0, a1, d1>>
MoveDownTiny ==
    /\ Inside /\ n < Long
    /\ Move("down_tiny")
    /\ UNCHANGED <<a0, a1, d1, saved>>
MoveDownLong ==
    /\ Inside /\ n >= Long /\ n < Block
    /\ Move("down_long")
    /\ saved' = LongAt(src) /\ d1' = src + Long
    /\ a0' = dst + n /\ a1' = src + n
MoveDownBlock ==
    /\ Inside /\ n >= Block
    /\ Move("down_block")
    /\ saved' = LongAt(src)
    /\ a0' = dst + n /\ a1' = src + n
    /\ UNCHANGED d1

\* memcpy() and memset().
CopyEntry ==
    /\ op # "memmove"
    /\ Enter(IF n >= Block THEN "block" ELSE IF n >= Long THEN "long" ELSE "three")
    /\ d1' = IF n >= Long THEN src + n - Long ELSE d1
    /\ UNCHANGED <<a0, a1, saved>>

-----------------------------------------------------------------------------
(* Upwards. *)

\* memmove()'s .Ltiny, .Lbyte.
TinyByte ==
    /\ pc = "tiny" /\ left # 0
    /\ mem' = Copy(mem, a1, a0, 1)
    /\ a0' = a0 + 1 /\ a1' = a1 + 1 /\ left' = left - 1
    /\ UNCHANGED <<moveArgs, pc, d1, saved>>
TinyDone ==
    /\ pc = "tiny" /\ left = 0
    /\ pc' = "moved"
    /\ UNCHANGED <<moveArgs, mem, a0, a1, d1, left, saved>>

\* .Ltiny of the other two: byte moves at 0, n - 1 and n / 2, or none.
Bytes == IF n = 0 THEN mem
         ELSE Copy(Copy(Copy(mem, src, dst, 1), src + n - 1, dst + n - 1, 1),
                   src + n \div 2, dst + n \div 2, 1)
Three ==
    /\ pc = "three"
    /\ mem' = Bytes
    /\ pc' = "moved"
    /\ UNCHANGED <<moveArgs, a0, a1, d1, left, saved>>

\* .Llong: while below the last long.
MoreLongs(a) == d1 > a
LongStep ==
    /\ pc = "long"
    /\ mem' = Copy(mem, a1, a0, Long)
    /\ a0' = a0 + Long /\ a1' = a1 + Long
    /\ pc' = IF MoreLongs(a1 + Long) THEN "long" ELSE "last"
    /\ UNCHANGED <<moveArgs, d1, left, saved>>

\* memmove()'s .Llast: a0 is as far past the last long as a1 is.
LastLong_Reread == LongAt(d1)
LastLong == saved
MoveLast ==
    /\ pc = "last" /\ op = "memmove"
    /\ mem' = Stored(LastLong, a0 + (d1 - a1))
    /\ pc' = "moved"
    /\ UNCHANGED <<moveArgs, a0, a1, d1, left, saved>>
\* The other two: the long ending at n.
CopyLast ==
    /\ pc = "last" /\ op # "memmove"
    /\ mem' = Copy(mem, src + n - Long, dst + n - Long, Long)
    /\ pc' = "moved"
    /\ UNCHANGED <<moveArgs, a0, a1, d1, left, saved>>

\* .Lblock, to the end of the whole blocks; memmove() goes on with what is left,
\* if more than the last long, the others with the block ending at n.
BlocksEnd == src + (n - (n % Block))
AfterBlocks(a) == IF op # "memmove" THEN "lastblock"
                  ELSE IF src + n - Long > a THEN "long" ELSE "last"
BlockStep ==
    /\ pc = "block"
    /\ mem' = CopyBlock(a1, a0)
    /\ a0' = a0 + Block /\ a1' = a1 + Block
    /\ IF a1 + Block # BlocksEnd
         THEN UNCHANGED <<pc, d1>>
         ELSE d1' = src + n - Long /\ pc' = AfterBlocks(a1 + Block)
    /\ UNCHANGED <<moveArgs, left, saved>>
LastBlock ==
    /\ pc = "lastblock"
    /\ LET back == (n % Block) - Block IN mem' = CopyBlock(a1 + back, a0 + back)
    /\ pc' = "moved"
    /\ UNCHANGED <<moveArgs, a0, a1, d1, left, saved>>

-----------------------------------------------------------------------------
(* memmove() from the end. *)

\* .Ldown_tiny: by index, from the last byte to the first.
DownTinyByte ==
    /\ pc = "down_tiny"
    /\ mem' = Copy(mem, a1 + left - 1, a0 + left - 1, 1)
    /\ left' = left - 1
    /\ pc' = IF left = 1 THEN "moved" ELSE pc
    /\ UNCHANGED <<moveArgs, a0, a1, d1, saved>>

\* .Ldown_long: while above the first long.
MoreDown(a) == d1 < a
DownLongStep ==
    /\ pc = "down_long"
    /\ mem' = Copy(mem, a1 - Long, a0 - Long, Long)
    /\ a0' = a0 - Long /\ a1' = a1 - Long
    /\ pc' = IF MoreDown(a1 - Long) THEN "down_long" ELSE "down_last"
    /\ UNCHANGED <<moveArgs, d1, left, saved>>

DownLastStep ==
    /\ pc = "down_last"
    /\ mem' = Stored(saved, dst)
    /\ a0' = dst
    /\ pc' = "moved"
    /\ UNCHANGED <<moveArgs, a1, d1, left, saved>>

\* .Ldown_block: the upper half first.
DownBlocksEnd == src + (n % Block)
DownBlockStep ==
    /\ pc = "down_block"
    /\ mem' = Copy(Copy(mem, a1 - HalfBlock, a0 - HalfBlock, HalfBlock), a1 - Block, a0 - Block, HalfBlock)
    /\ a0' = a0 - Block /\ a1' = a1 - Block
    /\ IF a1 - Block # DownBlocksEnd
         THEN UNCHANGED <<pc, d1>>
         ELSE /\ d1' = src + Long
              /\ pc' = IF src + Long < a1 - Block THEN "down_long" ELSE "down_last"
    /\ UNCHANGED <<moveArgs, left, saved>>

MoveNext ==
    \/ MoveSame \/ MoveTiny \/ MoveLong \/ MoveBlock
    \/ MoveDownTiny \/ MoveDownLong \/ MoveDownBlock \/ CopyEntry
    \/ TinyByte \/ TinyDone \/ Three \/ LongStep \/ MoveLast \/ CopyLast
    \/ BlockStep \/ LastBlock
    \/ DownTinyByte \/ DownLongStep \/ DownLastStep \/ DownBlockStep

-----------------------------------------------------------------------------
(* Properties *)

\* Whatever the overlap, alignment and length, one past a limit included, the
\* destination ends up as the source was (or as the pattern), and not a byte
\* outside it has changed.
MoveExact ==
    pc = "moved" => mem = [a \in Addresses |->
        IF a \notin dst .. dst + n - 1 THEN a
        ELSE IF op = "memset" THEN Pattern ELSE src + (a - dst)]

\* Every pass of a loop works inside the regions, never a long or a block too
\* far at either end: what lies behind a buffer may be a device's registers.
LoopsInside ==
    /\ pc = "long" => src <= a1 /\ a1 + Long <= src + n
    /\ pc = "block" => src <= a1 /\ a1 + Block <= src + n
    /\ pc = "down_long" => src + Long <= a1 /\ a1 <= src + n
    /\ pc = "down_block" => src + Block <= a1 /\ a1 <= src + n
=============================================================================
