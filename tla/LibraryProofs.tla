---------------------------- MODULE LibraryProofs ---------------------------
(***************************************************************************)
(* Library, for memories, files, texts and numbers of any size.            *)
(*                                                                         *)
(* The moves: MoveInv says, for each loop, which part of the destination   *)
(* holds what it should and that the rest of the memory is untouched; a    *)
(* copy is safe in the direction the code chose because no byte is stored  *)
(* to before it is read (CopyUp, CopyDown).  The values come out whole,    *)
(* with no byte read that an earlier round has overwritten.                *)
(*                                                                         *)
(* prefs_number(): NumberInv ties value to the number that the digits      *)
(* taken so far make, in unbounded arithmetic, and says that what was      *)
(* refused could not have been answered.                                   *)
(*                                                                         *)
(* The files: FileInv and SettingsInv say that what is read ends where a   *)
(* line ends and that the settings are those of the lines up to there;     *)
(* prefs_split() takes from a line the one thing it says (SplitSays).      *)
(*                                                                         *)
(* The functions on texts: each loop stops at the first place that makes   *)
(* it (ScanValue), and two texts are ordered by the first place where they *)
(* differ (PrecedesIs).                                                    *)
(*                                                                         *)
(* The printf engine: FormatInv follows it from piece to piece.  What it   *)
(* parses in the format is the piece that is there (DirectiveIs), the      *)
(* digits it puts make the number again (DigitsSpell, NumeralIs), and the  *)
(* buffer is that of all the texts so far put at once (EmitIs).            *)
(***************************************************************************)
EXTENDS Library, FiniteSetTheorems, WellFoundedInduction, TLAPS

\* What the call with these arguments leaves at a, and the memory in which it has
\* done so from lo up to hi, all else being as it was.
Goal(args, a) == IF args[1] = "memset" THEN Pattern ELSE args[3] + (a - args[2])
Filled(args, lo, hi) == [a \in Addresses |-> IF lo <= a /\ a < hi THEN Goal(args, a) ELSE a]

Regions ==
    /\ op \in {"memmove", "memcpy", "memset"}
    /\ dst \in Nat /\ src \in Nat /\ n \in Nat
    /\ dst + n <= Space /\ src + n <= Space
    /\ op = "memcpy" => dst + n <= src \/ src + n <= dst

\* Going upwards no byte is stored to before it is read.
UpSafe == op = "memmove" => dst < src \/ src + n <= dst
DownSafe == op = "memmove" /\ src < dst /\ dst < src + n

LEMMA CopyUp ==
    ASSUME Regions, UpSafe, NEW x \in Nat, NEW k \in Nat, dst <= x, x + k <= dst + n
    PROVE  Copy(Filled(moveArgs, dst, x), src + (x - dst), x, k) = Filled(moveArgs, dst, x + k)
<1> USE MoveAssumption DEF Regions, UpSafe
<1> DEFINE m == Filled(moveArgs, dst, x)
           from == src + (x - dst)
<1>1. ASSUME NEW a \in Addresses
      PROVE  (IF a \notin x .. x + k - 1 THEN m[a]
              ELSE IF op = "memset" THEN Pattern ELSE m[from + (a - x)])
             = (IF dst <= a /\ a < x + k THEN Goal(moveArgs, a) ELSE a)
  <2>1. a \in Nat BY DEF Addresses
  <2>2. CASE a \notin x .. x + k - 1 BY <2>1, <2>2 DEF Filled, moveArgs
  <2>3. CASE a \in x .. x + k - 1 /\ op = "memset" BY <2>1, <2>3 DEF Filled, Goal, moveArgs
  <2>4. CASE a \in x .. x + k - 1 /\ op # "memset"
    <3>1. from + (a - x) \in Addresses /\ from + (a - x) = src + (a - dst) BY <2>1, <2>4 DEF Addresses
    <3>2. ~(dst <= from + (a - x) /\ from + (a - x) < x) BY <2>1, <2>4
    <3>3. m[from + (a - x)] = src + (a - dst) BY <3>1, <3>2 DEF Filled, moveArgs
    <3>q. QED BY <2>1, <2>4, <3>3 DEF Goal, moveArgs
  <2>q. QED BY <2>2, <2>3, <2>4
<1>q. QED BY <1>1, Zenon DEF Copy, Filled

LEMMA CopyDown ==
    ASSUME Regions, DownSafe, NEW x \in Nat, NEW k \in Nat, dst + k <= x, x <= dst + n
    PROVE  Copy(Filled(moveArgs, x, dst + n), src + (x - dst) - k, x - k, k) = Filled(moveArgs, x - k, dst + n)
<1> USE MoveAssumption DEF Regions, DownSafe
<1> DEFINE m == Filled(moveArgs, x, dst + n)
           from == src + (x - dst) - k
<1>1. ASSUME NEW a \in Addresses
      PROVE  (IF a \notin x - k .. (x - k) + k - 1 THEN m[a]
              ELSE IF op = "memset" THEN Pattern ELSE m[from + (a - (x - k))])
             = (IF x - k <= a /\ a < dst + n THEN Goal(moveArgs, a) ELSE a)
  <2>1. a \in Nat BY DEF Addresses
  <2>2. CASE a \notin x - k .. x - 1 BY <2>1, <2>2 DEF Filled, moveArgs
  <2>4. CASE a \in x - k .. x - 1
    <3>1. from + (a - (x - k)) \in Addresses /\ from + (a - (x - k)) = src + (a - dst)
      BY <2>1, <2>4 DEF Addresses
    <3>2. ~(x <= from + (a - (x - k))) BY <2>1, <2>4
    <3>3. m[from + (a - (x - k))] = src + (a - dst) BY <3>1, <3>2 DEF Filled, moveArgs
    <3>q. QED BY <2>1, <2>4, <3>3 DEF Goal, moveArgs
  <2>q. QED BY <2>2, <2>4
<1>q. QED BY <1>1 DEF Copy, Filled

\* Where the regions are apart, anything may be copied again.
LEMMA CopyAgain ==
    ASSUME Regions, op # "memmove", NEW x \in Nat, NEW k \in Nat, NEW hi \in Nat,
           dst <= x, x <= hi, hi <= dst + n, x + k <= dst + n,
           NEW top, top = IF hi <= x + k THEN x + k ELSE hi
    PROVE  Copy(Filled(moveArgs, dst, hi), src + (x - dst), x, k) = Filled(moveArgs, dst, top)
<1> USE MoveAssumption DEF Regions
<1> DEFINE m == Filled(moveArgs, dst, hi)
           from == src + (x - dst)
<1>1. ASSUME NEW a \in Addresses
      PROVE  (IF a \notin x .. x + k - 1 THEN m[a]
              ELSE IF op = "memset" THEN Pattern ELSE m[from + (a - x)])
             = (IF dst <= a /\ a < top THEN Goal(moveArgs, a) ELSE a)
  <2>1. a \in Nat BY DEF Addresses
  <2>2. CASE a \notin x .. x + k - 1 BY <2>1, <2>2 DEF Filled, moveArgs
  <2>3. CASE a \in x .. x + k - 1 /\ op = "memset" BY <2>1, <2>3 DEF Filled, Goal, moveArgs
  <2>4. CASE a \in x .. x + k - 1 /\ op # "memset"
    <3>1. from + (a - x) \in Addresses /\ from + (a - x) = src + (a - dst) BY <2>1, <2>4 DEF Addresses
    <3>2. ~(dst <= from + (a - x) /\ from + (a - x) < hi) BY <2>1, <2>4
    <3>3. m[from + (a - x)] = src + (a - dst) BY <3>1, <3>2 DEF Filled, moveArgs
    <3>q. QED BY <2>1, <2>4, <3>3 DEF Goal, moveArgs
  <2>q. QED BY <2>2, <2>3, <2>4
<1>q. QED BY <1>1, Zenon DEF Copy, Filled

\* The last block of all, which begins among what has been copied.
LEMMA BlockAgain ==
    ASSUME Regions, op # "memmove", NEW x \in Nat, NEW hi \in Nat, NEW y,
           y = src + (x - dst), dst <= x, x <= hi, hi <= x + Block, x + Block = dst + n
    PROVE  Copy(Copy(Filled(moveArgs, dst, hi), y, x, HalfBlock), y + HalfBlock, x + HalfBlock, HalfBlock)
           = Filled(moveArgs, dst, dst + n)
<1> DEFINE z == x + HalfBlock
           mid == IF hi <= z THEN z ELSE hi
<1>1. /\ HalfBlock \in Nat /\ z \in Nat /\ mid \in Nat /\ z <= mid /\ mid <= dst + n /\ z <= dst + n
      /\ y + HalfBlock = src + (z - dst) /\ z + HalfBlock = dst + n /\ dst <= z /\ hi <= dst + n
      /\ dst + n = IF mid <= z + HalfBlock THEN z + HalfBlock ELSE mid
  BY MoveAssumption DEF Regions, Block
<1>2. mid = IF hi <= x + HalfBlock THEN x + HalfBlock ELSE hi OBVIOUS
<1> HIDE DEF z, mid
<1>3. x + HalfBlock <= dst + n BY <1>1 DEF z
<1>4. Copy(Filled(moveArgs, dst, hi), y, x, HalfBlock) = Filled(moveArgs, dst, mid)
  BY <1>1, <1>2, <1>3, CopyAgain
<1>5. z + HalfBlock <= dst + n BY <1>1 DEF Regions
<1>6. Copy(Filled(moveArgs, dst, mid), y + HalfBlock, z, HalfBlock) = Filled(moveArgs, dst, dst + n)
  BY <1>1, <1>5, CopyAgain
<1>q. QED BY <1>4, <1>6 DEF z

\* A long stored at to.
LEMMA StoredLong ==
    ASSUME Regions, NEW lo \in Nat, NEW hi \in Nat, NEW x \in Nat, mem = Filled(moveArgs, lo, hi),
           NEW l, op # "memset", l = [i \in 0 .. Long - 1 |-> src + (x - dst) + i],
           dst <= lo, dst <= x, x + Long <= dst + n, hi <= dst + n,
           \/ lo = dst /\ x <= hi /\ x + Long = dst + n
           \/ x = dst /\ lo <= dst + Long /\ hi = dst + n
    PROVE  Stored(l, x) = Filled(moveArgs, dst, dst + n)
<1> USE MoveAssumption DEF Regions
<1>1. ASSUME NEW a \in Addresses
      PROVE  (IF a \in x .. x + Long - 1 THEN l[a - x] ELSE mem[a])
             = (IF dst <= a /\ a < dst + n THEN Goal(moveArgs, a) ELSE a)
  <2>1. a \in Nat BY DEF Addresses
  <2>2. CASE a \notin x .. x + Long - 1 BY <2>1, <2>2 DEF Filled, moveArgs
  <2>3. CASE a \in x .. x + Long - 1
    <3>1. l[a - x] = src + (a - dst) BY <2>1, <2>3
    <3>q. QED BY <2>1, <2>3, <3>1 DEF Goal, moveArgs
  <2>q. QED BY <2>2, <2>3
<1>q. QED BY <1>1 DEF Stored, Filled

\* Where dst lies inside the source, in numbers that do not wrap.
LEMMA InsideMeans ==
    ASSUME Regions, dst # src
    PROVE  Inside <=> src < dst /\ dst < src + n
<1> USE MoveAssumption DEF Regions
<1>1. CASE n = 0
  <2>1. Space = 0 \/ Space > 0 OBVIOUS
  <2>2. CASE Space = 0 BY <1>1, <2>2
  <2>3. CASE Space > 0 BY <1>1, <2>3 DEF Inside, U32
  <2>q. QED BY <2>1, <2>2, <2>3
<1>2. CASE n > 0
  <2> DEFINE x == dst - src
  <2>1. Space > 0 /\ x \in Int /\ -Space < x /\ x < Space BY <1>2
  <2> HIDE DEF x
  <2>2. x % Space = IF x >= 0 THEN x ELSE x + Space BY <2>1
  <2>q. QED BY <1>2, <2>1, <2>2 DEF Inside, U32, x
<1>q. QED BY <1>1, <1>2

-----------------------------------------------------------------------------
(* The invariant, by where the call is. *)

FromSource(a, k) == [i \in 0 .. k - 1 |-> a + i]

EntryInv == pc = "entry" => a0 = dst /\ a1 = src /\ left = n /\ mem = Filled(moveArgs, dst, dst)

\* Upwards: a0 and a1 are as far from the beginnings, and all behind a0 is filled.
UpInv ==
    pc \in {"tiny", "long", "last", "block", "lastblock"} =>
        /\ UpSafe
        /\ a0 \in Nat /\ a1 \in Nat /\ a0 - dst = a1 - src /\ src <= a1 /\ a1 <= src + n
        /\ mem = Filled(moveArgs, dst, a0)
        /\ pc = "tiny" => left = src + n - a1 /\ op = "memmove"
        /\ pc # "tiny" => n >= Long
        /\ pc \in {"long", "last", "block"} /\ op = "memmove" => saved = FromSource(src + n - Long, Long)
        /\ pc \in {"long", "last"} => d1 = src + n - Long
        /\ pc = "long" => a1 <= d1
        /\ pc = "last" => d1 <= a1
        /\ pc = "block" => \E j \in Nat : BlocksEnd - a1 = (j + 1) * Block
        /\ pc = "lastblock" => n >= Block /\ a1 = BlocksEnd /\ op # "memmove"

ThreeInv == pc = "three" => op # "memmove" /\ n < Long /\ mem = Filled(moveArgs, dst, dst)

\* From the end: as far from the ends, and all from a0 on is filled.
DownInv ==
    pc \in {"down_tiny", "down_long", "down_last", "down_block"} =>
        /\ DownSafe
        /\ a0 \in Nat /\ a1 \in Nat /\ a0 - dst = a1 - src /\ src <= a1 /\ a1 <= src + n
        /\ pc = "down_tiny" => /\ a0 = dst /\ left \in Nat /\ 1 <= left /\ left <= n
                               /\ mem = Filled(moveArgs, dst + left, dst + n)
        /\ pc # "down_tiny" => /\ n >= Long /\ saved = FromSource(src, Long)
                               /\ mem = Filled(moveArgs, a0, dst + n)
        /\ pc = "down_long" => d1 = src + Long /\ d1 <= a1
        /\ pc = "down_last" => a1 <= src + Long
        /\ pc = "down_block" => \E j \in Nat : a1 - DownBlocksEnd = (j + 1) * Block

DoneInv == pc = "moved" => mem = Filled(moveArgs, dst, dst + n)

MoveInv == Regions /\ EntryInv /\ UpInv /\ ThreeInv /\ DownInv /\ DoneInv

LEMMA MoveStart == ASSUME MoveInit PROVE MoveInv
<1> USE MoveAssumption DEF MoveInit
<1>1. Regions
  <2>1. dst + MaxLen <= Space /\ src + MaxLen <= Space /\ dst \in Nat /\ src \in Nat /\ n \in Nat OBVIOUS
  <2>q. QED BY <2>1 DEF Regions
<1>2. mem = Filled(moveArgs, dst, dst) BY <1>1 DEF Filled, Regions, Addresses
<1>q. QED BY <1>1, <1>2 DEF MoveInv, EntryInv, UpInv, ThreeInv, DownInv, DoneInv

\* A step to a place upwards has to show what UpInv says there, and so on.
LEMMA ArgsStay == ASSUME Regions, UNCHANGED moveArgs PROVE Regions' /\ op' = op /\ dst' = dst /\ src' = src /\ n' = n
BY DEF Regions, moveArgs

LEMMA LongKept ==
    ASSUME Regions, mem = Filled(moveArgs, dst, dst), NEW x \in Nat, src <= x, x + Long <= src + n
    PROVE  LongAt(x) = FromSource(x, Long)
<1>1. ASSUME NEW i \in 0 .. Long - 1 PROVE mem[x + i] = x + i
  BY MoveAssumption DEF Regions, Filled, Addresses
<1>q. QED BY <1>1 DEF LongAt, FromSource

LEMMA DivMod ==
    ASSUME NEW x \in Nat, NEW y \in Nat \ {0}
    PROVE  /\ x % y \in Nat /\ x % y < y /\ x = y * (x \div y) + (x % y) /\ x \div y \in Nat
<1> DEFINE q == x \div y
           r == x % y
<1>1. q \in Int /\ r \in 0 .. y - 1 /\ x = y * q + r BY SMT
<1>2. q >= 0 BY <1>1, SMT
<1>3. q \in Nat /\ r \in Nat /\ r < y BY <1>1, <1>2
<1>q. QED BY <1>1, <1>3

LEMMA Blocks ==
    ASSUME NEW k \in Nat, k >= Block
    PROVE  /\ k % Block \in Nat /\ k % Block < Block
           /\ \E j \in Nat : k - (k % Block) = (j + 1) * Block
<1> DEFINE q == k \div Block
           r == k % Block
<1>1. Block \in Nat \ {0} BY MoveAssumption DEF Block
<1>2. r \in Nat /\ r < Block /\ k = Block * q + r /\ q \in Nat BY <1>1, DivMod
<1> HIDE DEF q, r
<1>3. q # 0 BY <1>1, <1>2
<1>4. q - 1 \in Nat BY <1>2, <1>3
<1>5. k - r = ((q - 1) + 1) * Block BY <1>1, <1>2
<1>q. QED BY <1>2, <1>4, <1>5 DEF r

LEMMA EntryKeeps ==
    ASSUME MoveInv,
           MoveSame \/ MoveTiny \/ MoveLong \/ MoveBlock \/ MoveDownTiny \/ MoveDownLong
           \/ MoveDownBlock \/ CopyEntry
    PROVE  MoveInv'
<1> USE MoveAssumption
<1>1. pc = "entry" /\ UNCHANGED <<mem, left>> /\ UNCHANGED moveArgs BY DEF MoveSame, MoveTiny, MoveLong,
        MoveBlock, MoveDownTiny, MoveDownLong, MoveDownBlock, CopyEntry, Move, Enter
<1>2. Regions /\ a0 = dst /\ a1 = src /\ left = n /\ mem = Filled(moveArgs, dst, dst)
  BY <1>1 DEF MoveInv, EntryInv
<1>3. Regions' /\ op' = op /\ dst' = dst /\ src' = src /\ n' = n BY <1>1, <1>2, ArgsStay
<1>4. dst \in Nat /\ src \in Nat /\ n \in Nat /\ op \in {"memmove", "memcpy", "memset"} BY <1>2 DEF Regions
<1> USE DEF MoveInv, EntryInv, ThreeInv, DoneInv, UpInv, DownInv
<1>5. CASE MoveSame
  <2>1. pc' = "moved" /\ op = "memmove" /\ dst = src BY <1>5 DEF MoveSame, Enter
  <2>2. Filled(moveArgs, dst, dst) = Filled(moveArgs, dst, dst + n)
    BY <2>1, <1>4 DEF Filled, Goal, moveArgs, Addresses
  <2>q. QED BY <1>1, <1>2, <1>3, <2>1, <2>2
<1>6. CASE MoveTiny
  <2>1. pc' = "tiny" /\ op = "memmove" /\ UNCHANGED <<a0, a1, d1, saved>> /\ UpSafe
    BY <1>6, <1>2, InsideMeans, <1>4 DEF MoveTiny, Move, Enter, UpSafe
  <2>q. QED BY <1>1, <1>2, <1>3, <1>4, <2>1 DEF UpSafe
<1>7. CASE MoveLong
  <2>1. pc' = "long" /\ op = "memmove" /\ UNCHANGED <<a0, a1>> /\ UpSafe /\ n >= Long
        /\ saved' = LongAt(src + n - Long) /\ d1' = src + n - Long
    BY <1>7, <1>2, InsideMeans, <1>4 DEF MoveLong, Move, Enter, UpSafe
  <2>2. saved' = FromSource(src + n - Long, Long) BY <1>2, <1>4, <2>1, LongKept
  <2>q. QED BY <1>1, <1>2, <1>3, <1>4, <2>1, <2>2 DEF UpSafe
<1>8. CASE MoveBlock
  <2>1. pc' = "block" /\ op = "memmove" /\ UNCHANGED <<a0, a1>> /\ UpSafe /\ n >= Block
        /\ saved' = LongAt(src + n - Long)
    <3>1. ~Inside /\ n >= Block /\ dst # src /\ op = "memmove" /\ pc' = "block" /\ UNCHANGED <<a0, a1>>
          /\ saved' = LongAt(src + n - Long) BY <1>8 DEF MoveBlock, Move, Enter
    <3>2. UpSafe BY <3>1, <1>2, InsideMeans, <1>4 DEF UpSafe
    <3>q. QED BY <3>1, <3>2
  <2>2. n >= Long BY <1>4, <2>1 DEF Block
  <2>3. saved' = FromSource(src + n - Long, Long) BY <1>2, <1>4, <2>1, <2>2, LongKept
  <2>4. \E j \in Nat : BlocksEnd - src = (j + 1) * Block BY <1>4, <2>1, Blocks DEF BlocksEnd
  <2>q. QED BY <1>1, <1>2, <1>3, <1>4, <2>1, <2>2, <2>3, <2>4 DEF UpSafe, BlocksEnd
<1>9. CASE MoveDownTiny
  <2>1. pc' = "down_tiny" /\ op = "memmove" /\ UNCHANGED <<a0, a1, d1, saved>> /\ DownSafe
    BY <1>9, <1>2, InsideMeans, <1>4 DEF MoveDownTiny, Move, Enter, DownSafe
  <2>2. Filled(moveArgs, dst, dst) = Filled(moveArgs, dst + n, dst + n) BY <1>4 DEF Filled, Addresses
  <2>q. QED BY <1>1, <1>2, <1>3, <1>4, <2>1, <2>2 DEF DownSafe
<1>10. CASE MoveDownLong
  <2>1. pc' = "down_long" /\ op = "memmove" /\ DownSafe /\ n >= Long
        /\ saved' = LongAt(src) /\ d1' = src + Long /\ a0' = dst + n /\ a1' = src + n
    BY <1>10, <1>2, InsideMeans, <1>4 DEF MoveDownLong, Move, Enter, DownSafe
  <2>2. Filled(moveArgs, dst, dst) = Filled(moveArgs, dst + n, dst + n) BY <1>4 DEF Filled, Addresses
  <2>3. saved' = FromSource(src, Long) BY <1>2, <1>4, <2>1, LongKept
  <2>q. QED BY <1>1, <1>2, <1>3, <1>4, <2>1, <2>2, <2>3 DEF DownSafe
<1>11. CASE MoveDownBlock
  <2>1. pc' = "down_block" /\ op = "memmove" /\ DownSafe /\ n >= Block
        /\ saved' = LongAt(src) /\ a0' = dst + n /\ a1' = src + n
    BY <1>11, <1>2, InsideMeans, <1>4 DEF MoveDownBlock, Move, Enter, DownSafe
  <2>2. Filled(moveArgs, dst, dst) = Filled(moveArgs, dst + n, dst + n) BY <1>4 DEF Filled, Addresses
  <2>3. n >= Long BY <1>4, <2>1 DEF Block
  <2>4. saved' = FromSource(src, Long) BY <1>2, <1>4, <2>1, <2>3, LongKept
  <2>5. \E j \in Nat : (src + n) - DownBlocksEnd = (j + 1) * Block BY <1>4, <2>1, Blocks DEF DownBlocksEnd
  <2>q. QED BY <1>1, <1>2, <1>3, <1>4, <2>1, <2>2, <2>3, <2>4, <2>5 DEF DownSafe, DownBlocksEnd
<1>12. CASE CopyEntry
  <2>1. op # "memmove" /\ UNCHANGED <<a0, a1, saved>> /\ pc' = (IF n >= Block THEN "block" ELSE IF n >= Long THEN "long" ELSE "three")
        /\ d1' = IF n >= Long THEN src + n - Long ELSE d1
    BY <1>12 DEF CopyEntry, Enter
  <2>2. n >= Block => n >= Long BY <1>4 DEF Block
  <2>3. n >= Block => \E j \in Nat : BlocksEnd - src = (j + 1) * Block BY <1>4, Blocks DEF BlocksEnd
  <2>q. QED BY <1>1, <1>2, <1>3, <1>4, <2>1, <2>2, <2>3 DEF UpSafe, BlocksEnd
<1>q. QED BY <1>5, <1>6, <1>7, <1>8, <1>9, <1>10, <1>11, <1>12

LEMMA UpKeeps ==
    ASSUME MoveInv, TinyByte \/ TinyDone \/ LongStep \/ MoveLast \/ CopyLast \/ BlockStep \/ LastBlock
    PROVE  MoveInv'
<1> USE MoveAssumption
<1>1. UNCHANGED moveArgs /\ pc \in {"tiny", "long", "last", "block", "lastblock"}
  BY DEF TinyByte, TinyDone, LongStep, MoveLast, CopyLast, BlockStep, LastBlock
<1>2. Regions /\ UpSafe /\ UpInv BY <1>1 DEF MoveInv, UpInv
<1>3. Regions' /\ op' = op /\ dst' = dst /\ src' = src /\ n' = n BY <1>1, <1>2, ArgsStay
<1>4. dst \in Nat /\ src \in Nat /\ n \in Nat /\ op \in {"memmove", "memcpy", "memset"}
      /\ a0 \in Nat /\ a1 \in Nat /\ a0 - dst = a1 - src /\ src <= a1 /\ a1 <= src + n
      /\ mem = Filled(moveArgs, dst, a0)
  BY <1>1, <1>2 DEF Regions, UpInv
<1>5. UpSafe' BY <1>2, <1>3 DEF UpSafe
<1>6. a1 = src + (a0 - dst) /\ dst <= a0 BY <1>4
<1> USE DEF MoveInv, EntryInv, ThreeInv, DoneInv, DownInv
<1>7. CASE TinyByte
  <2>1. pc = "tiny" /\ left # 0 /\ mem' = Copy(mem, a1, a0, 1) /\ a0' = a0 + 1 /\ a1' = a1 + 1
        /\ left' = left - 1 /\ pc' = pc BY <1>7 DEF TinyByte
  <2>2. left = src + n - a1 /\ op = "memmove" BY <2>1, <1>2 DEF UpInv
  <2>3. a1 + 1 <= src + n BY <1>4, <2>1, <2>2
  <2>4. mem' = Filled(moveArgs, dst, a0 + 1) BY <1>2, <1>4, <1>6, <2>1, <2>3, CopyUp
  <2>q. QED BY <1>1, <1>3, <1>4, <1>5, <2>1, <2>2, <2>3, <2>4 DEF UpInv
<1>8. CASE TinyDone
  <2>1. pc' = "moved" /\ UNCHANGED mem /\ left = 0 /\ pc = "tiny" BY <1>8 DEF TinyDone
  <2>2. a0 = dst + n BY <2>1, <1>2, <1>4 DEF UpInv
  <2>q. QED BY <1>1, <1>3, <1>4, <2>1, <2>2 DEF UpInv
<1>9. CASE LongStep
  <2>1. pc = "long" /\ mem' = Copy(mem, a1, a0, Long) /\ a0' = a0 + Long /\ a1' = a1 + Long
        /\ pc' = (IF MoreLongs(a1 + Long) THEN "long" ELSE "last") /\ UNCHANGED <<d1, saved>>
    BY <1>9 DEF LongStep
  <2>2. d1 = src + n - Long /\ a1 <= d1 /\ n >= Long
        /\ (op = "memmove" => saved = FromSource(src + n - Long, Long)) BY <2>1, <1>2 DEF UpInv
  <2>3. a1 + Long <= src + n BY <1>4, <2>2
  <2>4. mem' = Filled(moveArgs, dst, a0 + Long) BY <1>2, <1>4, <1>6, <2>1, <2>3, CopyUp
  <2>q. QED BY <1>1, <1>3, <1>4, <1>5, <2>1, <2>2, <2>3, <2>4 DEF UpInv, MoreLongs
<1>10. CASE MoveLast
  <2>1. pc = "last" /\ op = "memmove" /\ pc' = "moved" /\ mem' = Stored(saved, a0 + (d1 - a1))
    BY <1>10 DEF MoveLast, LastLong
  <2>2. d1 = src + n - Long /\ d1 <= a1 /\ n >= Long /\ saved = FromSource(src + n - Long, Long)
    BY <2>1, <1>2 DEF UpInv
  <2>3. a0 + (d1 - a1) = dst + n - Long /\ dst + n - Long \in Nat BY <1>4, <2>2
  <2>4. saved = [i \in 0 .. Long - 1 |-> src + ((dst + n - Long) - dst) + i] BY <1>4, <2>2 DEF FromSource
  <2>5. mem' = Filled(moveArgs, dst, dst + n)
    <3>1. dst + n - Long <= a0 /\ a0 <= dst + n BY <1>4, <2>2
    <3>q. QED BY <1>2, <1>4, <1>6, <2>1, <2>2, <2>3, <2>4, <3>1, StoredLong
  <2>q. QED BY <1>1, <1>3, <1>4, <2>1, <2>5 DEF UpInv
<1>11. CASE CopyLast
  <2>1. pc = "last" /\ op # "memmove" /\ pc' = "moved" /\ mem' = Copy(mem, src + n - Long, dst + n - Long, Long)
    BY <1>11 DEF CopyLast
  <2>2. d1 = src + n - Long /\ d1 <= a1 /\ n >= Long BY <2>1, <1>2 DEF UpInv
  <2>3. dst + n - Long \in Nat /\ src + n - Long = src + ((dst + n - Long) - dst)
        /\ (dst + n - Long) + Long = dst + n /\ dst + n - Long <= a0 /\ a0 <= dst + n BY <1>4, <2>2
  <2>5. mem' = Filled(moveArgs, dst, dst + n) BY <1>2, <1>4, <1>6, <2>1, <2>2, <2>3, CopyAgain
  <2>q. QED BY <1>1, <1>3, <1>4, <2>1, <2>5 DEF UpInv
<1>12. CASE BlockStep
  <2>1. pc = "block" /\ mem' = CopyBlock(a1, a0) /\ a0' = a0 + Block /\ a1' = a1 + Block /\ UNCHANGED saved
        /\ (IF a1 + Block # BlocksEnd THEN UNCHANGED <<pc, d1>>
             ELSE d1' = src + n - Long /\ pc' = AfterBlocks(a1 + Block))
    BY <1>12 DEF BlockStep
  <2>2. PICK j \in Nat : BlocksEnd - a1 = (j + 1) * Block BY <2>1, <1>2 DEF UpInv
  <2>3. n >= Long /\ (op = "memmove" => saved = FromSource(src + n - Long, Long)) BY <2>1, <1>2 DEF UpInv
  <2>4. Block \in Nat \ {0} /\ Block >= Long BY DEF Block
  <2>5. n % Block \in Nat /\ n % Block < Block BY <1>4, <2>4, DivMod
  <2>6. BlocksEnd \in Nat /\ BlocksEnd <= src + n /\ src + n < BlocksEnd + Block
    BY <1>4, <2>5, DivMod, <2>4 DEF BlocksEnd
  <2>7. (j + 1) * Block = j * Block + Block /\ j * Block \in Nat BY <2>4
  <2>8. a1 + Block <= BlocksEnd /\ BlocksEnd - (a1 + Block) = j * Block BY <1>4, <2>2, <2>4, <2>6, <2>7
  <2>9. mem' = Filled(moveArgs, dst, a0 + Block)
    <3>1. Copy(mem, a1, a0, HalfBlock) = Filled(moveArgs, dst, a0 + HalfBlock)
      BY <1>2, <1>4, <1>6, <2>6, <2>8, CopyUp DEF Block
    <3>2. a1 + HalfBlock = src + ((a0 + HalfBlock) - dst) /\ a0 + HalfBlock \in Nat
          /\ (a0 + HalfBlock) + HalfBlock = a0 + Block /\ a0 + Block <= dst + n
      BY <1>4, <2>6, <2>8 DEF Block
    <3>3. Copy(Filled(moveArgs, dst, a0 + HalfBlock), a1 + HalfBlock, a0 + HalfBlock, HalfBlock)
          = Filled(moveArgs, dst, a0 + Block)
      BY <1>2, <1>4, <1>6, <3>2, CopyUp
    <3>q. QED BY <2>1, <3>1, <3>3 DEF CopyBlock
  <2>10. CASE a1 + Block # BlocksEnd
    <3>1. j # 0 BY <1>4, <2>4, <2>6, <2>8, <2>10
    <3>2. j - 1 \in Nat /\ BlocksEnd - (a1 + Block) = ((j - 1) + 1) * Block BY <2>8, <3>1
    <3>3. \E i \in Nat : BlocksEnd - (a1 + Block) = (i + 1) * Block BY <3>2
    <3>4. BlocksEnd' = BlocksEnd BY <1>3 DEF BlocksEnd
    <3>q. QED BY <1>1, <1>3, <1>4, <1>5, <2>1, <2>3, <2>4, <2>6, <2>8, <2>9, <2>10, <3>3, <3>4 DEF UpInv
  <2>11. CASE a1 + Block = BlocksEnd
    <3>1. n >= Block BY <1>4, <2>4, <2>6, <2>11
    <3>q. QED BY <1>1, <1>3, <1>4, <1>5, <2>1, <2>3, <2>4, <2>6, <2>8, <2>9, <2>11, <3>1
             DEF UpInv, BlocksEnd, AfterBlocks
  <2>q. QED BY <2>10, <2>11
<1>13. CASE LastBlock
  <2>1. pc = "lastblock" /\ pc' = "moved"
        /\ mem' = CopyBlock(a1 + ((n % Block) - Block), a0 + ((n % Block) - Block))
    BY <1>13 DEF LastBlock
  <2>2. n >= Block /\ a1 = BlocksEnd /\ op # "memmove" BY <2>1, <1>2 DEF UpInv
  <2>4. Block \in Nat \ {0} /\ Block = HalfBlock + HalfBlock BY DEF Block
  <2>5. n % Block \in Nat /\ n % Block < Block BY <1>4, <2>4, DivMod
  <2> DEFINE x == a0 + ((n % Block) - Block)
             y == a1 + ((n % Block) - Block)
  <2>6. x = dst + n - Block /\ y = src + n - Block BY <1>4, <2>2, <2>4, <2>5 DEF BlocksEnd
  <2>7. x \in Nat /\ y = src + (x - dst) /\ dst <= x /\ x <= a0 /\ a0 <= x + Block /\ x + Block = dst + n
    BY <1>4, <2>2, <2>4, <2>5, <2>6
  <2> HIDE DEF x, y
  <2>8. mem' = Filled(moveArgs, dst, dst + n)
    <3>1. mem' = Copy(Copy(Filled(moveArgs, dst, a0), y, x, HalfBlock), y + HalfBlock, x + HalfBlock, HalfBlock)
      BY <1>4, <2>1 DEF CopyBlock, x, y
    <3>q. QED BY <1>2, <1>4, <2>2, <2>7, <3>1, BlockAgain
  <2>q. QED BY <1>1, <1>3, <1>4, <2>1, <2>8 DEF UpInv
<1>q. QED BY <1>7, <1>8, <1>9, <1>10, <1>11, <1>12, <1>13

LEMMA DownKeeps ==
    ASSUME MoveInv, DownTinyByte \/ DownLongStep \/ DownLastStep \/ DownBlockStep
    PROVE  MoveInv'
<1> USE MoveAssumption
<1>1. UNCHANGED moveArgs /\ pc \in {"down_tiny", "down_long", "down_last", "down_block"}
  BY DEF DownTinyByte, DownLongStep, DownLastStep, DownBlockStep
<1>2. Regions /\ DownSafe /\ DownInv BY <1>1 DEF MoveInv, DownInv
<1>3. Regions' /\ op' = op /\ dst' = dst /\ src' = src /\ n' = n BY <1>1, <1>2, ArgsStay
<1>4. dst \in Nat /\ src \in Nat /\ n \in Nat /\ op = "memmove"
      /\ a0 \in Nat /\ a1 \in Nat /\ a0 - dst = a1 - src /\ src <= a1 /\ a1 <= src + n
  BY <1>1, <1>2 DEF Regions, DownInv, DownSafe
<1>5. DownSafe' BY <1>2, <1>3 DEF DownSafe
<1>6. a1 = src + (a0 - dst) /\ dst <= a0 /\ a0 <= dst + n BY <1>4
<1> USE DEF MoveInv, EntryInv, ThreeInv, DoneInv, UpInv
<1>7. CASE DownTinyByte
  <2>1. pc = "down_tiny" /\ mem' = Copy(mem, a1 + left - 1, a0 + left - 1, 1) /\ left' = left - 1
        /\ pc' = (IF left = 1 THEN "moved" ELSE pc) /\ UNCHANGED <<a0, a1>>
    BY <1>7 DEF DownTinyByte
  <2>2. a0 = dst /\ left \in Nat /\ 1 <= left /\ left <= n /\ mem = Filled(moveArgs, dst + left, dst + n)
    BY <1>2, <2>1 DEF DownInv
  <2>3. dst + left \in Nat /\ a1 + left - 1 = src + ((dst + left) - dst) - 1 /\ a0 + left - 1 = (dst + left) - 1
        /\ dst + 1 <= dst + left /\ dst + left <= dst + n
    BY <1>4, <2>2
  <2>4. mem' = Filled(moveArgs, (dst + left) - 1, dst + n) BY <1>2, <2>1, <2>2, <2>3, CopyDown
  <2>5. (dst + left) - 1 = dst + (left - 1) BY <1>4, <2>2
  <2>q. QED BY <1>1, <1>3, <1>4, <1>5, <2>1, <2>2, <2>4, <2>5 DEF DownInv
<1>8. CASE DownLongStep
  <2>1. pc = "down_long" /\ mem' = Copy(mem, a1 - Long, a0 - Long, Long) /\ a0' = a0 - Long /\ a1' = a1 - Long
        /\ pc' = (IF MoreDown(a1 - Long) THEN "down_long" ELSE "down_last") /\ UNCHANGED <<d1, saved>>
    BY <1>8 DEF DownLongStep
  <2>2. d1 = src + Long /\ d1 <= a1 /\ n >= Long /\ saved = FromSource(src, Long) /\ mem = Filled(moveArgs, a0, dst + n)
    BY <1>2, <2>1 DEF DownInv
  <2>3. a1 - Long = src + (a0 - dst) - Long /\ dst + Long <= a0 BY <1>4, <2>2
  <2>4. mem' = Filled(moveArgs, a0 - Long, dst + n) BY <1>2, <1>4, <1>6, <2>1, <2>2, <2>3, CopyDown
  <2>q. QED BY <1>1, <1>3, <1>4, <1>5, <2>1, <2>2, <2>3, <2>4 DEF DownInv, MoreDown
<1>9. CASE DownLastStep
  <2>1. pc = "down_last" /\ mem' = Stored(saved, dst) /\ pc' = "moved" BY <1>9 DEF DownLastStep
  <2>2. a1 <= src + Long /\ n >= Long /\ saved = FromSource(src, Long) /\ mem = Filled(moveArgs, a0, dst + n)
    BY <1>2, <2>1 DEF DownInv
  <2>3. saved = [i \in 0 .. Long - 1 |-> src + (dst - dst) + i] BY <1>4, <2>2 DEF FromSource
  <2>4. a0 <= dst + Long /\ dst + Long <= dst + n /\ dst + n \in Nat BY <1>4, <2>2
  <2>5. mem' = Filled(moveArgs, dst, dst + n) BY <1>2, <1>4, <1>6, <2>1, <2>2, <2>3, <2>4, StoredLong
  <2>q. QED BY <1>1, <1>3, <2>1, <2>5 DEF DownInv
<1>10. CASE DownBlockStep
  <2>1. pc = "down_block" /\ a0' = a0 - Block /\ a1' = a1 - Block /\ UNCHANGED saved
        /\ mem' = Copy(Copy(mem, a1 - HalfBlock, a0 - HalfBlock, HalfBlock), a1 - Block, a0 - Block, HalfBlock)
        /\ (IF a1 - Block # DownBlocksEnd THEN UNCHANGED <<pc, d1>>
             ELSE d1' = src + Long /\ pc' = IF src + Long < a1 - Block THEN "down_long" ELSE "down_last")
    BY <1>10 DEF DownBlockStep
  <2>2. n >= Long /\ saved = FromSource(src, Long) /\ mem = Filled(moveArgs, a0, dst + n)
    BY <1>2, <2>1 DEF DownInv
  <2>3. PICK j \in Nat : a1 - DownBlocksEnd = (j + 1) * Block BY <2>1, <1>2 DEF DownInv
  <2>4. Block \in Nat \ {0} /\ Block = HalfBlock + HalfBlock BY DEF Block
  <2>5. n % Block \in Nat /\ n % Block < Block BY <1>4, <2>4, DivMod
  <2>6. DownBlocksEnd \in Nat /\ src <= DownBlocksEnd BY <1>4, <2>5 DEF DownBlocksEnd
  <2>7. (j + 1) * Block = j * Block + Block /\ j * Block \in Nat BY <2>4
  <2>8. DownBlocksEnd <= a1 - Block /\ (a1 - Block) - DownBlocksEnd = j * Block BY <1>4, <2>3, <2>4, <2>6, <2>7
  <2>9. mem' = Filled(moveArgs, a0 - Block, dst + n)
    <3>1. a1 - HalfBlock = src + (a0 - dst) - HalfBlock /\ dst + HalfBlock <= a0 BY <1>4, <2>4, <2>6, <2>8
    <3>2. Copy(mem, a1 - HalfBlock, a0 - HalfBlock, HalfBlock) = Filled(moveArgs, a0 - HalfBlock, dst + n)
      BY <1>2, <1>4, <1>6, <2>2, <3>1, CopyDown
    <3>3. a0 - HalfBlock \in Nat /\ a1 - Block = src + ((a0 - HalfBlock) - dst) - HalfBlock
          /\ dst + HalfBlock <= a0 - HalfBlock /\ (a0 - HalfBlock) - HalfBlock = a0 - Block
          /\ a0 - HalfBlock <= dst + n
      BY <1>4, <1>6, <2>4, <2>6, <2>8
    <3>4. Copy(Filled(moveArgs, a0 - HalfBlock, dst + n), a1 - Block, a0 - Block, HalfBlock)
          = Filled(moveArgs, a0 - Block, dst + n)
      BY <1>2, <3>3, CopyDown
    <3>q. QED BY <2>1, <3>2, <3>4
  <2>10. a0 - Block \in Nat /\ a1 - Block \in Nat /\ (a0 - Block) - dst = (a1 - Block) - src
         /\ src <= a1 - Block /\ a1 - Block <= src + n
    BY <1>4, <2>4, <2>6, <2>8
  <2>11. CASE a1 - Block # DownBlocksEnd
    <3>1. j # 0 BY <1>4, <2>4, <2>6, <2>8, <2>11
    <3>2. j - 1 \in Nat /\ (a1 - Block) - DownBlocksEnd = ((j - 1) + 1) * Block BY <2>8, <3>1
    <3>3. \E i \in Nat : (a1 - Block) - DownBlocksEnd = (i + 1) * Block BY <3>2
    <3>4. DownBlocksEnd' = DownBlocksEnd BY <1>3 DEF DownBlocksEnd
    <3>q. QED BY <1>1, <1>3, <1>5, <2>1, <2>2, <2>9, <2>10, <2>11, <3>3, <3>4 DEF DownInv
  <2>12. CASE a1 - Block = DownBlocksEnd
    BY <1>1, <1>3, <1>4, <1>5, <2>1, <2>2, <2>4, <2>9, <2>10, <2>12 DEF DownInv
  <2>q. QED BY <2>11, <2>12
<1>q. QED BY <1>7, <1>8, <1>9, <1>10

LEMMA ThreeKeeps == ASSUME MoveInv, Three PROVE MoveInv'
<1> USE MoveAssumption
<1>1. UNCHANGED moveArgs /\ pc = "three" /\ pc' = "moved" /\ mem' = Bytes BY DEF Three
<1>2. Regions /\ op # "memmove" /\ n < Long /\ mem = Filled(moveArgs, dst, dst) BY <1>1 DEF MoveInv, ThreeInv
<1>3. Regions' /\ op' = op /\ dst' = dst /\ src' = src /\ n' = n BY <1>1, <1>2, ArgsStay
<1>4. dst \in Nat /\ src \in Nat /\ n \in Nat BY <1>2 DEF Regions
<1>5. mem' = Filled(moveArgs, dst, dst + n)
  <2>1. CASE n = 0 BY <1>1, <1>2, <1>4, <2>1 DEF Bytes
  <2>2. CASE n # 0
    <3>1. Copy(mem, src, dst, 1) = Filled(moveArgs, dst, dst + 1)
      <4>1. src = src + (dst - dst) /\ dst + 1 <= dst + n /\ dst + 1 = IF dst <= dst + 1 THEN dst + 1 ELSE dst
        BY <1>4, <2>2
      <4>q. QED BY <1>2, <1>4, <4>1, CopyAgain
    <3>2. CASE n = 1
      <4>1. src + n - 1 = src /\ dst + n - 1 = dst /\ n \div 2 = 0 /\ src + 0 = src /\ dst + 0 = dst
        BY <1>4, <3>2
      <4>2. Copy(Filled(moveArgs, dst, dst + 1), src, dst, 1) = Filled(moveArgs, dst, dst + 1)
        <5>1. src = src + (dst - dst) /\ dst + 1 <= dst + n /\ dst + 1 = (IF dst + 1 <= dst + 1 THEN dst + 1 ELSE dst + 1)
              /\ dst + 1 \in Nat
          BY <1>4, <3>2
        <5>q. QED BY <1>2, <1>4, <5>1, CopyAgain
      <4>q. QED BY <1>1, <2>2, <3>1, <3>2, <4>1, <4>2 DEF Bytes
    <3>3. CASE n = 2
      <4>1. src + n - 1 = src + 1 /\ dst + n - 1 = dst + 1 /\ n \div 2 = 1 BY <1>4, <3>3
      <4>2. ASSUME NEW h \in {dst + 1, dst + 2}
            PROVE  Copy(Filled(moveArgs, dst, h), src + 1, dst + 1, 1) = Filled(moveArgs, dst, dst + 2)
        <5>1. src + 1 = src + ((dst + 1) - dst) /\ (dst + 1) + 1 <= dst + n
              /\ dst + 2 = (IF h <= (dst + 1) + 1 THEN (dst + 1) + 1 ELSE h) /\ dst + 1 \in Nat /\ h \in Nat
              /\ dst + 1 <= h /\ h <= dst + n /\ dst <= dst + 1
          BY <1>4, <3>3, <4>2
        <5>q. QED BY <1>2, <5>1, CopyAgain
      <4>q. QED BY <1>1, <2>2, <3>1, <3>3, <4>1, <4>2 DEF Bytes
    <3>4. CASE n = 3
      <4> USE <1>2, <1>4, <3>4 DEF Regions
      <4> DEFINE ends == Copy(Filled(moveArgs, dst, dst + 1), src + 2, dst + 2, 1)
      <4>1. src + n - 1 = src + 2 /\ dst + n - 1 = dst + 2 /\ n \div 2 = 1 OBVIOUS
      <4>2. ASSUME NEW a \in Addresses
            PROVE  ends[a] = IF a = dst \/ a = dst + 2 THEN Goal(moveArgs, a) ELSE a
        <5>1. a \in Nat BY DEF Addresses
        <5>2. op # "memset" /\ a = dst + 2 =>
                src + 2 \in Addresses /\ ~(dst <= src + 2 /\ src + 2 < dst + 1) /\ src + 2 + (a - (dst + 2)) = src + 2
          BY <5>1 DEF Addresses
        <5>q. QED BY <5>1, <5>2 DEF Copy, Filled, Goal, moveArgs
      <4>3. ASSUME NEW a \in Addresses
            PROVE  Copy(ends, src + 1, dst + 1, 1)[a] = Filled(moveArgs, dst, dst + n)[a]
        <5> HIDE DEF ends
        <5>1. a \in Nat BY DEF Addresses
        <5>2. op # "memset" /\ a = dst + 1 =>
                src + 1 \in Addresses /\ src + 1 # dst /\ src + 1 # dst + 2 /\ src + 1 + (a - (dst + 1)) = src + 1
          BY <5>1 DEF Addresses
        <5>3. CASE a = dst + 1 /\ op = "memset" BY <5>1, <5>3 DEF Copy, Filled, Goal, moveArgs
        <5>4. CASE a = dst + 1 /\ op # "memset"
          <6>1. ends[src + 1] = src + 1 BY <4>2, <5>2, <5>4
          <6>q. QED BY <5>1, <5>2, <5>4, <6>1 DEF Copy, Filled, Goal, moveArgs
        <5>5. CASE a # dst + 1
          <6>1. Copy(ends, src + 1, dst + 1, 1)[a] = ends[a] BY <5>1, <5>5 DEF Copy
          <6>q. QED BY <4>2, <5>1, <5>5, <6>1 DEF Filled, moveArgs
        <5>q. QED BY <5>3, <5>4, <5>5
      <4>4. Copy(ends, src + 1, dst + 1, 1) = Filled(moveArgs, dst, dst + n)
        <5> DEFINE have == Copy(ends, src + 1, dst + 1, 1)
                   want == Filled(moveArgs, dst, dst + n)
        <5> HIDE DEF ends
        <5>1. have = [a \in Addresses |-> have[a]] BY DEF Copy
        <5>2. want = [a \in Addresses |-> want[a]] BY Zenon DEF Filled
        <5>3. \A a \in Addresses : have[a] = want[a] BY <4>3
        <5> HIDE DEF have, want
        <5>4. have = want BY <5>1, <5>2, <5>3
        <5>q. QED BY <5>4, Zenon DEF have, want
      <4>q. QED BY <1>1, <2>2, <3>1, <4>1, <4>4 DEF Bytes
    <3>q. QED BY <1>2, <1>4, <2>2, <3>2, <3>3, <3>4
  <2>q. QED BY <2>1, <2>2
<1>q. QED BY <1>1, <1>3, <1>5 DEF MoveInv, EntryInv, ThreeInv, DoneInv, UpInv, DownInv

LEMMA MoveKeeps == ASSUME MoveInv, MoveNext PROVE MoveInv'
BY EntryKeeps, UpKeeps, DownKeeps, ThreeKeeps DEF MoveNext

LEMMA MoveMeans == ASSUME MoveInv PROVE MoveExact /\ LoopsInside
<1> USE MoveAssumption
<1>1. Regions BY DEF MoveInv
<1>2. dst \in Nat /\ src \in Nat /\ n \in Nat BY <1>1 DEF Regions
<1>3. MoveExact
  <2>1. ASSUME pc = "moved" PROVE mem = [a \in Addresses |-> IF a \notin dst .. dst + n - 1 THEN a
                    ELSE IF op = "memset" THEN Pattern ELSE src + (a - dst)]
    <3>1. mem = Filled(moveArgs, dst, dst + n) BY <2>1 DEF MoveInv, DoneInv
    <3>2. \A a \in Addresses : a \notin dst .. dst + n - 1 <=> ~(dst <= a /\ a < dst + n) BY <1>2 DEF Addresses
    <3>q. QED BY <3>1, <3>2 DEF Filled, Goal, moveArgs
  <2>q. QED BY <2>1 DEF MoveExact
<1>4. Block \in Nat \ {0} BY DEF Block
<1>5. n % Block \in Nat /\ n % Block < Block BY <1>2, <1>4, DivMod
<1>6. ASSUME NEW j \in Nat PROVE (j + 1) * Block >= Block
  <2>1. (j + 1) * Block = j * Block + Block /\ j * Block \in Nat BY <1>4
  <2>q. QED BY <1>4, <2>1
<1>7. pc = "long" => src <= a1 /\ a1 + Long <= src + n BY <1>2 DEF MoveInv, UpInv
<1>8. ASSUME pc = "block" PROVE src <= a1 /\ a1 + Block <= src + n
  <2>1. a1 \in Nat /\ src <= a1 /\ \E j \in Nat : BlocksEnd - a1 = (j + 1) * Block BY <1>8 DEF MoveInv, UpInv
  <2>2. BlocksEnd \in Int /\ BlocksEnd <= src + n BY <1>2, <1>5 DEF BlocksEnd
  <2>3. BlocksEnd - a1 >= Block BY <1>6, <2>1
  <2>q. QED BY <1>2, <1>4, <2>1, <2>2, <2>3
<1>9. pc = "down_long" => src + Long <= a1 /\ a1 <= src + n BY <1>2 DEF MoveInv, DownInv
<1>10. ASSUME pc = "down_block" PROVE src + Block <= a1 /\ a1 <= src + n
  <2>1. a1 \in Nat /\ a1 <= src + n /\ \E j \in Nat : a1 - DownBlocksEnd = (j + 1) * Block
    BY <1>10 DEF MoveInv, DownInv
  <2>2. DownBlocksEnd \in Int /\ src <= DownBlocksEnd BY <1>2, <1>5 DEF DownBlocksEnd
  <2>3. a1 - DownBlocksEnd >= Block BY <1>6, <2>1
  <2>q. QED BY <1>2, <1>4, <2>1, <2>2, <2>3
<1>q. QED BY <1>3, <1>7, <1>8, <1>9, <1>10 DEF LoopsInside

-----------------------------------------------------------------------------
(* The calls do not meet: each has its own places. *)

MovePlaces == {"entry", "tiny", "three", "long", "last", "block", "lastblock",
               "down_tiny", "down_long", "down_last", "down_block", "moved"}
PrefsPlaces == {"start", "opendos", "openfile", "reading", "sign", "digits", "eof", "end"}
TextPlaces == {"text", "format", "done"}

LEMMA MoveStays == ASSUME MoveNext PROVE pc \in MovePlaces /\ pc' \in MovePlaces
BY DEF MoveNext, MovePlaces, MoveSame, MoveTiny, MoveLong, MoveBlock, MoveDownTiny, MoveDownLong,
       MoveDownBlock, CopyEntry, Move, Enter, TinyByte, TinyDone, Three, LongStep, MoveLast, CopyLast,
       BlockStep, AfterBlocks, LastBlock, DownTinyByte, DownLongStep, DownLastStep, DownBlockStep

LEMMA PrefsStays == ASSUME PrefsNext PROVE pc \in PrefsPlaces /\ pc' \in PrefsPlaces
BY DEF PrefsNext, PrefsPlaces, OpenCheck, OpenDos, OpenFile, OpenFileFails, NextSkips, NextSetting,
       NextEnd, Close, Sign, TakeDigit, RefuseDigit, Finish, Answer

LEMMA TextStays == ASSUME TextNext PROVE pc \in TextPlaces /\ pc' \in TextPlaces
BY DEF TextNext, TextPlaces, Goto, FmtInit, FmtChar, FmtDirective, FmtUnknown, FmtDone, CopyCall, PureCall

LEMMA Apart == MovePlaces \cap (PrefsPlaces \cup TextPlaces) = {} /\ PrefsPlaces \cap TextPlaces = {}
BY DEF MovePlaces, PrefsPlaces, TextPlaces

\* While a move is under way, MoveInv.
Moving == pc \in MovePlaces => MoveInv

LEMMA MovingStart == ASSUME Init PROVE Moving
<1>1. CASE MoveInit BY <1>1, MoveStart DEF Moving
<1>2. CASE PrefsInit \/ TextInit BY <1>2 DEF PrefsInit, TextInit, Moving, MovePlaces
<1>q. QED BY <1>1, <1>2 DEF Init

LEMMA MovingUnchanged == ASSUME MoveInv, UNCHANGED moveVars, UNCHANGED pc PROVE MoveInv'
BY DEF MoveInv, moveVars, moveArgs, Regions, EntryInv, UpInv, UpSafe, ThreeInv, DownInv, DownSafe, DoneInv,
       BlocksEnd, DownBlocksEnd

LEMMA MovingKeeps == ASSUME Moving, [Next]_libVars PROVE Moving'
<1>1. CASE PrefsNext BY <1>1, PrefsStays, Apart DEF Moving
<1>2. CASE TextNext BY <1>2, TextStays, Apart DEF Moving
<1>3. CASE MoveNext BY <1>3, MoveStays, MoveKeeps DEF Moving
<1>4. CASE UNCHANGED libVars BY <1>4, MovingUnchanged DEF Moving, libVars
<1>q. QED BY <1>1, <1>2, <1>3, <1>4 DEF Next

LEMMA MovingMeans == ASSUME Moving PROVE MoveExact /\ LoopsInside
<1>1. CASE pc \in MovePlaces BY <1>1, MoveMeans DEF Moving
<1>2. CASE pc \notin MovePlaces BY <1>2 DEF MovePlaces, MoveExact, LoopsInside
<1>q. QED BY <1>1, <1>2

\* memmove(), memcpy() and memset() leave at the destination what they were asked
\* to, whatever the overlap, and every other byte alone.
THEOREM MoveCorrect == Spec => []MoveExact
BY MovingMeans, MovingStart, MovingKeeps, PTL DEF Spec

\* No round of their loops reads or writes outside of the two regions.
THEOREM LoopsStayInside == Spec => []LoopsInside
BY MovingMeans, MovingStart, MovingKeeps, PTL DEF Spec

-----------------------------------------------------------------------------
(* Prefs *)

\* A set of naturals has a least element: what an induction over a text rests on.
LEMMA Smallest ==
    ASSUME NEW T, T \subseteq Nat, T # {}
    PROVE  \E k \in T : \A m \in T : k <= m
<1> DEFINE R == OpToRel(<, Nat)
<1>1. IsWellFoundedOn(R, Nat) BY NatLessThanWellFounded, Zenon
<1>2. \A x, y \in Nat : <<y, x>> \in R <=> y < x BY Zenon DEF OpToRel
<1> HIDE DEF R
<1>3. PICK x \in T : \A y \in T : ~ (<<y, x>> \in R) BY <1>1, WFMin, Zenon
<1>4. \A y \in T : ~(y < x) BY <1>2, <1>3, Zenon
<1>q. QED BY <1>4

\* The recursive definition has a value.
LEMMA NumbersDefined ==
    ASSUME NEW d, Len(d) \in Nat
    PROVE  NumbersOf(d) = [i \in 0 .. Len(d) |->
               IF i = 0 THEN 0 ELSE NumbersOf(d)[i - 1] * 10 + DigitOf(d[i])]
<1> DEFINE E(g, k) == g = [i \in 0 .. k |-> IF i = 0 THEN 0 ELSE g[i - 1] * 10 + DigitOf(d[i])]
           T == {k \in Nat : ~ \E g : E(g, k)}
<1>1. T = {}
  <2> SUFFICES ASSUME T # {} PROVE FALSE OBVIOUS
  <2>1. PICK k \in T : \A m \in T : k <= m BY Smallest
  <2>2. CASE k = 0
    <3>1. E([i \in 0 .. 0 |-> 0], 0) OBVIOUS
    <3>q. QED BY <2>2, <3>1
  <2>3. CASE k # 0
    <3>1. k - 1 \in Nat /\ k \in Nat BY <2>3
    <3>2. k - 1 \notin T BY <2>1, <3>1
    <3>3. PICK g : E(g, k - 1) BY <3>1, <3>2
    <3> DEFINE h == [i \in 0 .. k |-> IF i < k THEN g[i] ELSE g[k - 1] * 10 + DigitOf(d[k])]
    <3>4. ASSUME NEW i \in 0 .. k
          PROVE  h[i] = IF i = 0 THEN 0 ELSE h[i - 1] * 10 + DigitOf(d[i])
      <4>1. CASE i = k
        <5>1. h[k] = g[k - 1] * 10 + DigitOf(d[k]) /\ h[k - 1] = g[k - 1] BY <3>1
        <5>q. QED BY <2>3, <4>1, <5>1
      <4>2. CASE i # k
        <5>1. i \in 0 .. k - 1 BY <3>1, <4>2
        <5>2. g[i] = IF i = 0 THEN 0 ELSE g[i - 1] * 10 + DigitOf(d[i]) BY <3>3, <5>1
        <5>3. h[i] = g[i] /\ (i # 0 => h[i - 1] = g[i - 1]) BY <3>1, <5>1
        <5>q. QED BY <5>2, <5>3
      <4>q. QED BY <4>1, <4>2
    <3>5. h = [i \in 0 .. k |-> h[i]] OBVIOUS
    <3> HIDE DEF h
    <3>6. E(h, k) BY <3>4, <3>5, Zenon
    <3>q. QED BY <2>1, <3>6
  <2>q. QED BY <2>2, <2>3
<1>2. \E g : E(g, Len(d)) BY <1>1
<1>3. E(CHOOSE g : E(g, Len(d)), Len(d)) BY <1>2, Zenon
<1>q. QED BY <1>3, Zenon DEF NumbersOf

LEMMA DigitIs == ASSUME NEW c \in Digit PROVE DigitOf(c) \in 0 .. 9
<1>1. Len(Numerals) = 10 /\ DOMAIN Numerals = 1 .. 10 BY DEF Numerals
<1>2. PICK i \in 1 .. 10 : c = Numerals[i] BY <1>1, Zenon DEF Digit
<1>3. i - 1 \in 0 .. 9 /\ (i - 1) + 1 = i BY <1>2
<1>4. \E k \in 0 .. 9 : Numerals[k + 1] = c BY <1>2, <1>3
<1>q. QED BY <1>4, Zenon DEF DigitOf

LEMMA Tenfold == \A x \in Nat, y \in 0 .. 9 : x * 10 + y \in Nat /\ x <= x * 10 + y
OBVIOUS

LEMMA NumbersStep ==
    ASSUME NEW d \in Seq(Chars), NEW i \in 1 .. Len(d)
    PROVE  NumbersOf(d)[i] = NumbersOf(d)[i - 1] * 10 + DigitOf(d[i])
<1>1. i \in 0 .. Len(d) /\ i # 0 /\ Len(d) \in Nat OBVIOUS
<1>q. QED BY <1>1, NumbersDefined

LEMMA NumbersNat ==
    ASSUME NEW d \in Seq(Chars), NEW k \in 0 .. Len(d), \A i \in 1 .. k : d[i] \in Digit
    PROVE  \A i \in 0 .. k : NumbersOf(d)[i] \in Nat
<1> DEFINE T == {i \in 0 .. k : NumbersOf(d)[i] \notin Nat}
<1> SUFFICES ASSUME T # {} PROVE FALSE OBVIOUS
<1>1. T \subseteq Nat OBVIOUS
<1>2. PICK i \in T : \A m \in T : i <= m BY <1>1, Smallest
<1>3. CASE i = 0
  <2>1. 0 \in 0 .. Len(d) /\ Len(d) \in Nat OBVIOUS
  <2>2. NumbersOf(d)[0] = 0 BY <2>1, NumbersDefined
  <2>q. QED BY <1>2, <1>3, <2>2
<1>4. CASE i # 0
  <2>1. i \in 1 .. Len(d) /\ i - 1 \in 0 .. k /\ i \in 1 .. k BY <1>2, <1>4
  <2>2. NumbersOf(d)[i - 1] \in Nat BY <1>2, <2>1
  <2>3. DigitOf(d[i]) \in 0 .. 9 BY <2>1, DigitIs
  <2>4. NumbersOf(d)[i] = NumbersOf(d)[i - 1] * 10 + DigitOf(d[i]) BY <2>1, NumbersStep
  <2>q. QED BY <1>2, <2>2, <2>3, <2>4, Tenfold
<1>q. QED BY <1>3, <1>4

LEMMA NumbersGrow ==
    ASSUME NEW d \in Seq(Chars), \A i \in 1 .. Len(d) : d[i] \in Digit, NEW k \in 0 .. Len(d)
    PROVE  \A i \in k .. Len(d) : NumbersOf(d)[k] <= NumbersOf(d)[i]
<1> DEFINE T == {i \in k .. Len(d) : ~(NumbersOf(d)[k] <= NumbersOf(d)[i])}
<1> SUFFICES ASSUME T # {} PROVE FALSE OBVIOUS
<1>1. T \subseteq Nat OBVIOUS
<1>2. PICK i \in T : \A m \in T : i <= m BY <1>1, Smallest
<1>3. \A m \in 0 .. Len(d) : NumbersOf(d)[m] \in Nat
  <2>1. Len(d) \in 0 .. Len(d) OBVIOUS
  <2>q. QED BY <2>1, NumbersNat
<1>4. CASE i = k BY <1>2, <1>3, <1>4
<1>5. CASE i # k
  <2>1. i \in 1 .. Len(d) /\ i - 1 \in k .. Len(d) /\ i - 1 \in 0 .. Len(d) /\ i \in 0 .. Len(d) BY <1>2, <1>5
  <2>2. NumbersOf(d)[k] <= NumbersOf(d)[i - 1] BY <1>2, <2>1
  <2>3. DigitOf(d[i]) \in 0 .. 9 BY <2>1, DigitIs
  <2>4. NumbersOf(d)[i] = NumbersOf(d)[i - 1] * 10 + DigitOf(d[i]) BY <2>1, NumbersStep
  <2>5. NumbersOf(d)[i - 1] <= NumbersOf(d)[i] BY <1>3, <2>1, <2>3, <2>4, Tenfold
  <2>q. QED BY <1>2, <1>3, <2>1, <2>2, <2>5
<1>q. QED BY <1>4, <1>5

-----------------------------------------------------------------------------
(* prefs_split() hands out texts, and no empty ones. *)

LEMMA FirstMeans ==
    ASSUME NEW s \in Seq(Chars), NEW K
    PROVE  /\ First(s, K) \in 1 .. Len(s) + 1
           /\ \A i \in 1 .. First(s, K) - 1 : s[i] \notin K
           /\ First(s, K) <= Len(s) => s[First(s, K)] \in K
<1> DEFINE found == {i \in DOMAIN s : s[i] \in K}
<1>1. CASE found = {} BY <1>1 DEF First
<1>2. CASE found # {}
  <2>1. found \subseteq Nat OBVIOUS
  <2>2. \E i \in found : \A k \in found : i <= k BY <1>2, <2>1, Smallest
  <2> DEFINE c == CHOOSE i \in found : \A k \in found : i <= k
  <2>3. c \in found /\ \A k \in found : c <= k BY <2>2, Zenon
  <2>4. First(s, K) = c BY <1>2, Zenon DEF First
  <2> HIDE DEF c
  <2>q. QED BY <2>3, <2>4
<1>q. QED BY <1>1, <1>2

LEMMA FirstIs == ASSUME NEW s \in Seq(Chars), NEW K PROVE First(s, K) \in 1 .. Len(s) + 1
BY FirstMeans

LEMMA PartIs == ASSUME NEW s \in Seq(Chars), NEW i \in Nat, NEW j \in 0 .. Len(s), i >= 1
                PROVE  SubSeq(s, i, j) \in Seq(Chars)
OBVIOUS

\* Blanks in front: the text starts at the first that is none.
LEMMA SkipMeans ==
    ASSUME NEW s \in Seq(Chars)
    PROVE  \E p \in 1 .. Len(s) + 1 :
               /\ SkipBlanks(s) = SubSeq(s, p, Len(s))
               /\ \A i \in 1 .. p - 1 : s[i] \in Blank
               /\ p <= Len(s) => s[p] \notin Blank
<1> DEFINE p == First(s, Chars \ Blank)
<1>1. /\ p \in 1 .. Len(s) + 1
      /\ \A i \in 1 .. p - 1 : s[i] \notin Chars \ Blank
      /\ p <= Len(s) => s[p] \in Chars \ Blank
  BY FirstMeans
<1>2. SkipBlanks(s) = SubSeq(s, (p - 1) + 1, Len(s)) BY DEF SkipBlanks, After
<1> HIDE DEF p
<1>3. (p - 1) + 1 = p /\ \A i \in 1 .. p - 1 : i \in 1 .. Len(s) BY <1>1
<1>4. \A i \in 1 .. p - 1 : s[i] \in Blank BY <1>1, <1>3
<1>q. QED BY <1>1, <1>2, <1>3, <1>4

\* Blanks behind: it ends at the last that is none.
LEMMA DropMeans ==
    ASSUME NEW s \in Seq(Chars)
    PROVE  \E q \in 0 .. Len(s) :
               /\ DropBlanks(s) = SubSeq(s, 1, q)
               /\ \A i \in q + 1 .. Len(s) : s[i] \in Blank
               /\ q >= 1 => s[q] \notin Blank
<1> DEFINE keep == {0} \cup {i \in DOMAIN s : s[i] \notin Blank}
           back == {Len(s) - i : i \in keep}
           c == CHOOSE i \in keep : \A k \in keep : k <= i
<1>1. back \subseteq Nat /\ back # {} /\ keep \subseteq 0 .. Len(s) OBVIOUS
<1>2. PICK b \in back : \A m \in back : b <= m BY <1>1, Smallest
<1>3. PICK i \in keep : b = Len(s) - i OBVIOUS
<1>4. ASSUME NEW k \in keep PROVE k <= i
  <2>1. Len(s) - k \in back OBVIOUS
  <2>2. b <= Len(s) - k BY <1>2, <2>1
  <2>3. k \in 0 .. Len(s) /\ i \in 0 .. Len(s) /\ Len(s) \in Nat BY <1>1
  <2> HIDE DEF keep, back
  <2>q. QED BY <1>3, <2>2, <2>3
<1>5. c \in keep /\ \A k \in keep : k <= c BY <1>3, <1>4, Zenon
<1>6. DropBlanks(s) = SubSeq(s, 1, c) BY Zenon DEF DropBlanks
<1> HIDE DEF c
<1>7. c \in 0 .. Len(s) BY <1>5
<1>8. ASSUME NEW k \in c + 1 .. Len(s) PROVE s[k] \in Blank
  <2>1. k \in DOMAIN s /\ ~(k <= c) BY <1>7
  <2>q. QED BY <1>5, <2>1
<1>9. c >= 1 => s[c] \notin Blank BY <1>5
<1>q. QED BY <1>6, <1>7, <1>8, <1>9

LEMMA SkipIs == ASSUME NEW s \in Seq(Chars) PROVE SkipBlanks(s) \in Seq(Chars)
<1>1. PICK p \in 1 .. Len(s) + 1 : SkipBlanks(s) = SubSeq(s, p, Len(s)) BY SkipMeans
<1>2. p \in Nat /\ p >= 1 /\ Len(s) \in 0 .. Len(s) BY <1>1
<1>q. QED BY <1>1, <1>2, PartIs

LEMMA DropIs == ASSUME NEW s \in Seq(Chars) PROVE DropBlanks(s) \in Seq(Chars)
<1>1. PICK q \in 0 .. Len(s) : DropBlanks(s) = SubSeq(s, 1, q) BY DropMeans
<1>q. QED BY <1>1

LEMMA SplitIs ==
    ASSUME NEW s \in Seq(Chars)
    PROVE  \A x \in Split(s) : x \in Seq(Chars) \X Seq(Chars) /\ x[2] # <<>>
<1> DEFINE line == SkipBlanks(Before(s, First(s, {"n", "r"})))
           eq   == First(line, {"="})
           key  == DropBlanks(Before(line, eq))
           val  == DropBlanks(SkipBlanks(After(line, eq)))
<1>1. First(s, {"n", "r"}) \in 1 .. Len(s) + 1 BY FirstIs
<1>2. Before(s, First(s, {"n", "r"})) \in Seq(Chars) BY <1>1 DEF Before
<1>3. line \in Seq(Chars) BY <1>2, SkipIs
<1>q. QED
  <2>1. CASE eq > Len(line)
    <3>1. Split(s) = {} BY <2>1, Zenon DEF Split
    <3>q. QED BY <3>1
  <2>2. CASE ~(eq > Len(line))
    <3> HIDE DEF line
    <3>1. eq \in 1 .. Len(line) + 1 BY <1>3, FirstIs
    <3> HIDE DEF eq
    <3>2. Before(line, eq) \in Seq(Chars) /\ After(line, eq) \in Seq(Chars) BY <1>3, <3>1, <2>2 DEF Before, After
    <3>3. key \in Seq(Chars) /\ val \in Seq(Chars) BY <3>2, SkipIs, DropIs
    <3>4. Split(s) = {} \/ (Split(s) = {<<key, val>>} /\ val # <<>>) BY Zenon DEF Split, line, eq
    <3> HIDE DEF key, val
    <3>q. QED BY <3>3, <3>4
  <2>q. QED BY <2>1, <2>2

-----------------------------------------------------------------------------
(* prefs_number() *)

DigitsOf(v) == IF v[1] \in Signs THEN Tail(v) ELSE v
StartOf(v) == IF v[1] \in Signs THEN 2 ELSE 1

LEMMA DigitsAre ==
    ASSUME NEW v \in Seq(Chars), v # <<>>
    PROVE  /\ DigitsOf(v) \in Seq(Chars) /\ StartOf(v) \in {1, 2}
           /\ Len(DigitsOf(v)) = Len(v) - StartOf(v) + 1
           /\ \A i \in StartOf(v) .. Len(v) : DigitsOf(v)[i - StartOf(v) + 1] = v[i]
<1>1. CASE v[1] \in Signs BY <1>1 DEF DigitsOf, StartOf
<1>2. CASE v[1] \notin Signs BY <1>2 DEF DigitsOf, StartOf
<1>q. QED BY <1>1, <1>2

LEMMA MeaningIs ==
    ASSUME NEW v \in Seq(Chars), v # <<>>
    PROVE  Meaning(v) = IF DigitsOf(v) = <<>> \/ \E i \in 1 .. Len(DigitsOf(v)) : DigitsOf(v)[i] \notin Digit
                          THEN {}
                          ELSE {IF v[1] = "-" THEN -NumbersOf(DigitsOf(v))[Len(DigitsOf(v))]
                                ELSE NumbersOf(DigitsOf(v))[Len(DigitsOf(v))]}
<1>1. DigitsOf(v) \in Seq(Chars) BY DigitsAre
<1>2. DOMAIN DigitsOf(v) = 1 .. Len(DigitsOf(v)) BY <1>1
<1>q. QED BY <1>2, Zenon DEF Meaning, DigitsOf, Signs

\* A digit is refused exactly where the number would leave a LONG.
LEMMA RefusedMeans ==
    ASSUME NEW x \in Nat, NEW c \in Digit
    PROVE  -x < Quotient(LEAST + DigitOf(c), 10) <=> x * 10 + DigitOf(c) > Half
<1> DEFINE d == DigitOf(c)
<1>1. d \in 0 .. 9 BY DigitIs
<1> HIDE DEF d
<1>2. Half \in Nat /\ Half >= 10 BY PrefsAssumption
<1> DEFINE q == (Half - d) \div 10
<1>3. q \in Int /\ 10 * q <= Half - d /\ Half - d < 10 * q + 10 BY <1>1, <1>2
<1>4. Quotient(LEAST + d, 10) = -q
  <2>1. LEAST + d < 0 /\ -(LEAST + d) = Half - d BY <1>1, <1>2 DEF LEAST
  <2>q. QED BY <2>1 DEF Quotient
<1> HIDE DEF q
<1>5. -x < -q <=> x * 10 + d > Half BY <1>1, <1>2, <1>3
<1>q. QED BY <1>4, <1>5 DEF d

NumberType ==
    /\ least \in LONG /\ most \in LONG /\ number \in LONG
    /\ rest \in Seq(Chars)
    /\ settings \in Seq(Seq(Chars) \X Seq(Chars))
    /\ \A i \in DOMAIN settings : settings[i][2] # <<>>
    /\ answers \in Seq(SUBSET Int)

\* A setting without its answer is there only while prefs_number() works on it.
InNumber == {"sign", "digits"}
NumberPlace == Len(settings) = IF pc \in InNumber THEN Len(answers) + 1 ELSE Len(answers)

\* The digits so far, and their number, below zero.
NumberLoop ==
    pc = "digits" =>
        /\ at \in StartOf(Value) .. Len(Value) + 1 /\ StartOf(Value) <= Len(Value)
        /\ \A i \in 1 .. at - StartOf(Value) : DigitsOf(Value)[i] \in Digit
        /\ number = -NumbersOf(DigitsOf(Value))[at - StartOf(Value)]

NumberAnswers == \A i \in DOMAIN answers : answers[i] = Meaning(settings[i][2]) \cap (least .. most)

NumberInv == NumberType /\ NumberPlace /\ NumberLoop /\ NumberAnswers

LEMMA LongIs == LONG \subseteq Int /\ 0 \in LONG /\ \A x \in LONG : -Half <= x /\ x < Half
<1>1. Half \in Nat /\ Half >= 10 BY PrefsAssumption
<1>q. QED BY <1>1 DEF LONG, LEAST, MOST

LEMMA NumberStart == ASSUME Init PROVE NumberInv
<1>1. least \in LONG /\ most \in LONG /\ rest \in Seq(Chars)
  <2>1. CASE PrefsInit BY <2>1, PrefsAssumption DEF PrefsInit
  <2>2. CASE PrefsIdle BY <2>2, LongIs DEF PrefsIdle
  <2>q. QED BY <2>1, <2>2 DEF Init
<1>2. number = 0 /\ settings = <<>> /\ answers = <<>> /\ pc \notin InNumber
  BY DEF Init, PrefsInit, PrefsIdle, TextInit, MoveInit, InNumber
<1>q. QED BY <1>1, <1>2, LongIs DEF NumberInv, NumberType, NumberPlace, NumberLoop, NumberAnswers, InNumber

LEMMA ValueIs ==
    ASSUME NumberInv, pc \in InNumber
    PROVE  Value \in Seq(Chars) /\ Value # <<>> /\ Len(settings) \in DOMAIN settings
<1>1. Len(settings) \in DOMAIN settings BY DEF NumberInv, NumberPlace, NumberType
<1>q. QED BY <1>1 DEF Value, NumberInv, NumberType

\* prefs_number() returns.
LEMMA AnswerKeeps ==
    ASSUME NumberInv, pc \in InNumber, NEW x, Answer(x), x = Meaning(Value) \cap (least .. most),
           x \subseteq Int, number' \in LONG, UNCHANGED <<prefsArgs, fileVars>>
    PROVE  NumberInv'
<1>1. UNCHANGED <<least, most, rest, settings>> BY DEF prefsArgs, fileVars
<1>2. answers' = Append(answers, x) /\ pc' = "reading" BY DEF Answer
<1>3. answers \in Seq(SUBSET Int) /\ Len(settings) = Len(answers) + 1 BY DEF NumberInv, NumberType, NumberPlace
<1>4. answers' \in Seq(SUBSET Int) /\ Len(answers') = Len(answers) + 1 /\ Len(answers) \in Nat BY <1>2, <1>3
<1>5. ASSUME NEW i \in DOMAIN answers' PROVE answers'[i] = Meaning(settings[i][2]) \cap (least .. most)
  <2>1. CASE i = Len(answers) + 1 BY <1>2, <1>3, <2>1 DEF Value
  <2>2. CASE i # Len(answers) + 1
    <3>1. i \in DOMAIN answers /\ answers'[i] = answers[i] BY <1>2, <1>3, <1>4, <2>2
    <3>q. QED BY <3>1 DEF NumberInv, NumberAnswers
  <2>q. QED BY <2>1, <2>2
<1>6. NumberType' BY <1>1, <1>4 DEF NumberInv, NumberType
<1>7. NumberPlace' /\ NumberLoop' BY <1>1, <1>2, <1>3, <1>4 DEF NumberPlace, NumberLoop, InNumber
<1>q. QED BY <1>1, <1>5, <1>6, <1>7 DEF NumberInv, NumberAnswers

LEMMA SignKeeps == ASSUME NumberInv, Sign PROVE NumberInv'
<1>1. pc = "sign" /\ pc \in InNumber /\ number' = 0 /\ number' \in LONG /\ UNCHANGED <<prefsArgs, fileVars>>
  BY LongIs DEF Sign, InNumber
<1>2. Value \in Seq(Chars) /\ Value # <<>> BY <1>1, ValueIs
<1>3. CASE Value[1] \in Signs /\ Len(Value) = 1
  <2>1. Answer({}) BY <1>3 DEF Sign
  <2>2. DigitsOf(Value) = <<>>
    <3>1. DigitsOf(Value) \in Seq(Chars) /\ Len(DigitsOf(Value)) = 0 BY <1>2, <1>3, DigitsAre DEF StartOf
    <3>q. QED BY <3>1
  <2>3. Meaning(Value) = {} BY <1>2, <2>2, MeaningIs, Zenon
  <2>q. QED BY <1>1, <2>1, <2>3, AnswerKeeps
<1>4. CASE ~(Value[1] \in Signs /\ Len(Value) = 1)
  <2>1. at' = StartOf(Value) /\ pc' = "digits" /\ UNCHANGED answers BY <1>4 DEF Sign, StartOf
  <2>2. UNCHANGED <<least, most, rest, settings>> /\ Value' = Value BY <1>1 DEF prefsArgs, fileVars, Value
  <2>3. StartOf(Value) <= Len(Value) /\ StartOf(Value) \in {1, 2}
    <3>1. Len(Value) \in Nat /\ Len(Value) # 0 BY <1>2
    <3>2. CASE Value[1] \in Signs
      <4>1. Len(Value) # 1 BY <1>4, <3>2
      <4>2. StartOf(Value) = 2 BY <3>2, Zenon DEF StartOf
      <4>3. \A k \in Nat : k # 0 /\ k # 1 => 2 <= k OBVIOUS
      <4>q. QED BY <3>1, <4>1, <4>2, <4>3, Zenon
    <3>3. CASE Value[1] \notin Signs
      <4>1. StartOf(Value) = 1 BY <3>3, Zenon DEF StartOf
      <4>q. QED BY <3>1, <4>1
    <3>q. QED BY <3>2, <3>3
  <2>4. at' - StartOf(Value) = 0 BY <2>1, <2>3
  <2>5. DigitsOf(Value) \in Seq(Chars) BY <1>2, DigitsAre
  <2>6. NumbersOf(DigitsOf(Value))[0] = 0
    <3>1. 0 \in 0 .. Len(DigitsOf(Value)) /\ Len(DigitsOf(Value)) \in Nat BY <2>5
    <3>q. QED BY <3>1, NumbersDefined
  <2>7. NumberLoop'
    <3>1. at' \in StartOf(Value) .. Len(Value) + 1 BY <1>2, <2>1, <2>3
    <3>2. number' = -NumbersOf(DigitsOf(Value))[at' - StartOf(Value)] BY <1>1, <2>4, <2>6
    <3>q. QED BY <2>2, <2>3, <2>4, <3>1, <3>2 DEF NumberLoop
  <2>q. QED BY <1>1, <2>1, <2>2, <2>7 DEF NumberInv, NumberType, NumberPlace, NumberAnswers, InNumber
<1>q. QED BY <1>3, <1>4

\* Where the loop is: the digit at hand, and the number of those before it.
LEMMA LoopIs ==
    ASSUME NumberInv, pc = "digits"
    PROVE  /\ Value \in Seq(Chars) /\ Value # <<>> /\ at \in Nat
           /\ DigitsOf(Value) \in Seq(Chars) /\ DigitsOf(Value) # <<>>
           /\ at - StartOf(Value) \in 0 .. Len(DigitsOf(Value))
           /\ NumbersOf(DigitsOf(Value))[at - StartOf(Value)] \in Nat
           /\ at <= Len(Value) <=> at - StartOf(Value) < Len(DigitsOf(Value))
           /\ at <= Len(Value) => Value[at] = DigitsOf(Value)[at - StartOf(Value) + 1]
<1>1. Value \in Seq(Chars) /\ Value # <<>> BY ValueIs DEF InNumber
<1>2. DigitsOf(Value) \in Seq(Chars) /\ StartOf(Value) \in {1, 2}
      /\ Len(DigitsOf(Value)) = Len(Value) - StartOf(Value) + 1
      /\ \A i \in StartOf(Value) .. Len(Value) : DigitsOf(Value)[i - StartOf(Value) + 1] = Value[i]
  BY <1>1, DigitsAre
<1>3. at \in StartOf(Value) .. Len(Value) + 1 /\ StartOf(Value) <= Len(Value)
      /\ \A i \in 1 .. at - StartOf(Value) : DigitsOf(Value)[i] \in Digit
  BY DEF NumberInv, NumberLoop
<1>4. at - StartOf(Value) \in 0 .. Len(DigitsOf(Value)) /\ Len(DigitsOf(Value)) > 0 /\ at \in Nat
  BY <1>1, <1>2, <1>3
<1>5. NumbersOf(DigitsOf(Value))[at - StartOf(Value)] \in Nat
  <2>1. at - StartOf(Value) \in 0 .. at - StartOf(Value) BY <1>4
  <2>q. QED BY <1>2, <1>3, <1>4, <2>1, NumbersNat
<1>6. at <= Len(Value) <=> at - StartOf(Value) < Len(DigitsOf(Value)) BY <1>1, <1>2, <1>3
<1>7. at <= Len(Value) => Value[at] = DigitsOf(Value)[at - StartOf(Value) + 1] BY <1>1, <1>2, <1>3
<1>8. DigitsOf(Value) # <<>> BY <1>4
<1>q. QED BY <1>1, <1>2, <1>4, <1>5, <1>6, <1>7, <1>8

LEMMA TakeKeeps == ASSUME NumberInv, TakeDigit PROVE NumberInv'
<1> DEFINE v == Value
           d == DigitsOf(v)
           k == at - StartOf(v)
<1>1. pc = "digits" /\ pc' = pc /\ at <= Len(v) /\ ~Refused(v[at]) /\ at' = at + 1
      /\ number' = number * 10 - DigitOf(v[at]) /\ UNCHANGED <<prefsArgs, fileVars, answers>>
  BY DEF TakeDigit
<1>2. UNCHANGED <<least, most, rest, settings>> /\ Value' = Value BY <1>1 DEF prefsArgs, fileVars, Value
<1>3. /\ v \in Seq(Chars) /\ v # <<>> /\ d \in Seq(Chars) /\ k \in 0 .. Len(d) /\ NumbersOf(d)[k] \in Nat /\ at \in Nat
      /\ k < Len(d) /\ v[at] = d[k + 1]
  BY <1>1, LoopIs
<1>4. v[at] \in Digit /\ ~(number < Quotient(LEAST + DigitOf(v[at]), 10)) BY <1>1 DEF Refused
<1>5. /\ number = -NumbersOf(d)[k] /\ StartOf(v) <= Len(v) /\ at \in StartOf(v) .. Len(v) + 1
      /\ \A i \in 1 .. k : d[i] \in Digit
  BY <1>1 DEF NumberInv, NumberLoop
<1>6. StartOf(v) \in {1, 2} BY DEF StartOf
<1>7. at' - StartOf(v) = k + 1 BY <1>1, <1>3, <1>6
<1> HIDE DEF k, d, v
<1>8. DigitOf(v[at]) \in 0 .. 9 BY <1>4, DigitIs
<1>9. NumbersOf(d)[k + 1] = NumbersOf(d)[k] * 10 + DigitOf(v[at])
  <2>1. k + 1 \in 1 .. Len(d) /\ (k + 1) - 1 = k BY <1>3
  <2>q. QED BY <1>3, <2>1, NumbersStep
<1>10. NumbersOf(d)[k] * 10 + DigitOf(v[at]) <= Half
  <2>1. ~(NumbersOf(d)[k] * 10 + DigitOf(v[at]) > Half) BY <1>3, <1>4, <1>5, RefusedMeans
  <2>2. NumbersOf(d)[k] * 10 + DigitOf(v[at]) \in Nat /\ Half \in Nat BY <1>3, <1>8, Tenfold, PrefsAssumption
  <2>q. QED BY <2>1, <2>2
<1>11. number' = -NumbersOf(d)[k + 1] /\ number' \in LONG
  <2> DEFINE x == NumbersOf(d)[k]
             y == DigitOf(v[at])
  <2>1. x \in Nat /\ y \in 0 .. 9 /\ number = -x /\ x * 10 + y <= Half /\ number' = number * 10 - y
        /\ NumbersOf(d)[k + 1] = x * 10 + y
    BY <1>1, <1>3, <1>5, <1>8, <1>9, <1>10 DEF v
  <2>2. Half \in Nat /\ Half >= 10 BY PrefsAssumption
  <2> HIDE DEF x, y
  <2>q. QED BY <2>1, <2>2 DEF LONG, LEAST, MOST
<1>12. NumberLoop'
  <2>1. ASSUME NEW i \in 1 .. k + 1 PROVE d[i] \in Digit
    <3>1. CASE i = k + 1 BY <1>3, <1>4, <3>1
    <3>2. CASE i # k + 1
      <4>1. i \in 1 .. k BY <1>3, <3>2
      <4>q. QED BY <1>5, <4>1
    <3>q. QED BY <3>1, <3>2
  <2>2. at' \in StartOf(v) .. Len(v) + 1 BY <1>1, <1>3, <1>5, <1>6 DEF v
  <2>q. QED BY <1>2, <1>5, <1>7, <1>11, <2>1, <2>2 DEF NumberLoop, v, d
<1>q. QED BY <1>1, <1>2, <1>11, <1>12 DEF NumberInv, NumberType, NumberPlace, NumberAnswers, InNumber

LEMMA RefuseKeeps == ASSUME NumberInv, RefuseDigit PROVE NumberInv'
<1> DEFINE v == Value
           d == DigitsOf(v)
           k == at - StartOf(v)
<1>1. pc = "digits" /\ at <= Len(v) /\ Refused(v[at]) /\ Answer({}) /\ UNCHANGED <<prefsArgs, fileVars, number>>
  BY DEF RefuseDigit
<1>3. /\ v \in Seq(Chars) /\ v # <<>> /\ d \in Seq(Chars) /\ k \in 0 .. Len(d) /\ NumbersOf(d)[k] \in Nat /\ at \in Nat
      /\ k < Len(d) /\ v[at] = d[k + 1]
  BY <1>1, LoopIs
<1>4. number = -NumbersOf(d)[k] BY <1>1 DEF NumberInv, NumberLoop
<1>5. least \in LONG /\ most \in LONG /\ number \in LONG BY DEF NumberInv, NumberType
<1>6. Meaning(v) = IF d = <<>> \/ \E i \in 1 .. Len(d) : d[i] \notin Digit THEN {}
                   ELSE {IF v[1] = "-" THEN -NumbersOf(d)[Len(d)] ELSE NumbersOf(d)[Len(d)]}
  BY <1>3, MeaningIs
<1> HIDE DEF k, d
<1>7. k + 1 \in 1 .. Len(d) /\ (k + 1) - 1 = k BY <1>3
<1>8. Meaning(v) \cap (least .. most) = {}
  <2>1. CASE \E i \in 1 .. Len(d) : d[i] \notin Digit BY <1>6, <2>1
  <2>2. CASE \A i \in 1 .. Len(d) : d[i] \in Digit
    <3>1. v[at] \in Digit BY <1>3, <1>7, <2>2
    <3>2. DigitOf(v[at]) \in 0 .. 9 BY <3>1, DigitIs
    <3>3. NumbersOf(d)[k + 1] = NumbersOf(d)[k] * 10 + DigitOf(v[at]) BY <1>3, <1>7, NumbersStep
    <3>4. NumbersOf(d)[k] * 10 + DigitOf(v[at]) > Half
      <4>1. number < Quotient(LEAST + DigitOf(v[at]), 10) BY <1>1, <3>1 DEF Refused
      <4>q. QED BY <1>3, <1>4, <3>1, <4>1, RefusedMeans
    <3>5. NumbersOf(d)[k + 1] <= NumbersOf(d)[Len(d)] /\ NumbersOf(d)[Len(d)] \in Nat /\ NumbersOf(d)[k + 1] \in Nat
      <4>1. k + 1 \in 0 .. Len(d) /\ Len(d) \in k + 1 .. Len(d) /\ Len(d) \in 0 .. Len(d) BY <1>3, <1>7
      <4>q. QED BY <1>3, <2>2, <4>1, NumbersGrow, NumbersNat
    <3>6. NumbersOf(d)[Len(d)] > Half
      <4>1. Half \in Nat BY PrefsAssumption
      <4> DEFINE x == NumbersOf(d)[k + 1]
                 z == NumbersOf(d)[Len(d)]
      <4>2. x > Half /\ x <= z /\ x \in Nat /\ z \in Nat BY <3>3, <3>4, <3>5
      <4> HIDE DEF x, z
      <4>q. QED BY <4>1, <4>2 DEF z
    <3> DEFINE z == NumbersOf(d)[Len(d)]
    <3>7. z \in Nat /\ z > Half /\ Meaning(v) \subseteq {z, -z} BY <1>6, <3>5, <3>6
    <3> HIDE DEF z
    <3>8. Half \in Nat BY PrefsAssumption
    <3>9. z \notin least .. most /\ -z \notin least .. most BY <1>5, <3>7, <3>8, LongIs
    <3>q. QED BY <3>7, <3>9
  <2>q. QED BY <2>1, <2>2
<1>q. QED BY <1>1, <1>5, <1>8, AnswerKeeps DEF InNumber

LEMMA FinishKeeps == ASSUME NumberInv, Finish PROVE NumberInv'
<1> DEFINE v == Value
           d == DigitsOf(v)
           z == NumbersOf(d)[Len(d)]
           x == IF HasSigned /\ least <= Signed /\ Signed <= most THEN {Signed} ELSE {}
<1>1. pc = "digits" /\ at > Len(v) /\ Answer(x) /\ UNCHANGED <<prefsArgs, fileVars>>
      /\ number' = IF HasSigned THEN Signed ELSE number
  BY DEF Finish
<1>2. /\ v \in Seq(Chars) /\ v # <<>> /\ d \in Seq(Chars) /\ d # <<>> /\ at \in Nat
      /\ at - StartOf(v) \in 0 .. Len(d) /\ NumbersOf(d)[at - StartOf(v)] \in Nat
      /\ at <= Len(v) <=> at - StartOf(v) < Len(d)
  BY <1>1, LoopIs
<1>3. at - StartOf(v) = Len(d) BY <1>1, <1>2
<1>4. z \in Nat /\ number = -z /\ \A i \in 1 .. Len(d) : d[i] \in Digit
  BY <1>1, <1>2, <1>3 DEF NumberInv, NumberLoop
<1>5. least \in LONG /\ most \in LONG /\ number \in LONG BY DEF NumberInv, NumberType
<1>6. Meaning(v) = IF d = <<>> \/ \E i \in 1 .. Len(d) : d[i] \notin Digit THEN {}
                   ELSE {IF v[1] = "-" THEN -z ELSE z}
  BY <1>2, MeaningIs
<1>7. Meaning(v) = {IF v[1] = "-" THEN -z ELSE z} BY <1>2, <1>4, <1>6
<1>8. Negative <=> v[1] = "-" BY DEF Negative
<1>9. Half \in Nat /\ Half >= 10 BY PrefsAssumption
<1> HIDE DEF z, v, d
<1>10. x = Meaning(v) \cap (least .. most) /\ number' \in LONG /\ x \subseteq Int
  <2>1. CASE Negative
    <3>1. HasSigned /\ Signed = -z /\ Meaning(v) = {-z} BY <2>1, <1>4, <1>7, <1>8 DEF HasSigned, Signed
    <3>q. QED BY <1>1, <1>4, <1>5, <1>9, <3>1 DEF LONG, LEAST, MOST
  <2>2. CASE ~Negative
    <3>1. Signed = z /\ Meaning(v) = {z} /\ (HasSigned <=> z # Half)
      BY <2>2, <1>4, <1>7, <1>8, <1>9 DEF HasSigned, Signed, LEAST
    <3>q. QED BY <1>1, <1>4, <1>5, <1>9, <3>1 DEF LONG, LEAST, MOST
  <2>q. QED BY <2>1, <2>2
<1> HIDE DEF x
<1>q. QED BY <1>1, <1>10, AnswerKeeps DEF InNumber, v

LEMMA ReadKeeps ==
    ASSUME NumberInv,
           OpenCheck \/ OpenDos \/ OpenFile \/ OpenFileFails \/ NextSkips \/ NextSetting \/ NextEnd \/ Close
    PROVE  NumberInv'
<1>1. UNCHANGED <<least, most, number, answers>> /\ pc \notin InNumber
  BY DEF OpenCheck, OpenDos, OpenFile, OpenFileFails, NextSkips, NextSetting, NextEnd, Close, prefsArgs,
         numberVars, InNumber
<1>2. rest \in Seq(Chars) /\ settings \in Seq(Seq(Chars) \X Seq(Chars)) /\ answers \in Seq(SUBSET Int)
      /\ Len(settings) = Len(answers)
  BY <1>1 DEF NumberInv, NumberType, NumberPlace
<1>3. ASSUME rest # <<>>
      PROVE  After(rest, LineLen(rest)) \in Seq(Chars) /\ Before(rest, LineLen(rest) + 1) \in Seq(Chars)
  <2>1. First(rest, {"n"}) \in 1 .. Len(rest) + 1 BY <1>2, FirstIs
  <2>2. LineLen(rest) \in 0 .. Len(rest) BY <1>2, <2>1, PrefsAssumption DEF LineLen, Least
  <2>3. After(rest, LineLen(rest)) \in Seq(Chars)
    <3>1. LineLen(rest) + 1 \in Nat /\ LineLen(rest) + 1 >= 1 /\ Len(rest) \in 0 .. Len(rest) BY <1>2, <2>2
    <3>q. QED BY <1>2, <3>1, PartIs DEF After
  <2>4. Before(rest, LineLen(rest) + 1) \in Seq(Chars)
    <3>1. (LineLen(rest) + 1) - 1 \in 0 .. Len(rest) /\ 1 \in Nat /\ 1 >= 1 BY <1>2, <2>2
    <3>q. QED BY <1>2, <3>1, PartIs DEF Before
  <2>q. QED BY <2>3, <2>4
<1>4. CASE NextSetting
  <2>1. rest # <<>> /\ rest' = After(rest, LineLen(rest)) /\ pc' = "sign" BY <1>4 DEF NextSetting
  <2>2. PICK s \in Split(Before(rest, LineLen(rest) + 1)) : settings' = Append(settings, s) BY <1>4 DEF NextSetting
  <2>3. s \in Seq(Chars) \X Seq(Chars) /\ s[2] # <<>> BY <1>3, <2>1, <2>2, SplitIs
  <2>4. settings' \in Seq(Seq(Chars) \X Seq(Chars)) /\ Len(settings') = Len(settings) + 1
        /\ \A i \in DOMAIN settings : settings'[i] = settings[i]
    BY <1>2, <2>2, <2>3
  <2>5. ASSUME NEW i \in DOMAIN settings' PROVE settings'[i][2] # <<>>
    <3>1. CASE i = Len(settings) + 1 BY <1>2, <2>2, <2>3, <3>1
    <3>2. CASE i # Len(settings) + 1
      <4>1. i \in DOMAIN settings BY <1>2, <2>4, <3>2
      <4>q. QED BY <2>4, <4>1 DEF NumberInv, NumberType
    <3>q. QED BY <3>1, <3>2
  <2>6. NumberAnswers'
    <3>1. \A i \in DOMAIN answers : i \in DOMAIN settings BY <1>2
    <3>q. QED BY <1>1, <2>4, <3>1 DEF NumberInv, NumberAnswers
  <2>7. NumberType' BY <1>1, <1>3, <2>1, <2>4, <2>5 DEF NumberInv, NumberType
  <2>q. QED BY <1>1, <1>2, <2>1, <2>4, <2>6, <2>7 DEF NumberInv, NumberPlace, NumberLoop, InNumber
<1>5. CASE ~NextSetting
  <2>1. UNCHANGED settings /\ pc' \notin InNumber /\ rest' \in Seq(Chars)
    <3>1. CASE NextSkips BY <1>1, <1>3, <3>1 DEF NextSkips
    <3>2. CASE ~NextSkips
      BY <1>2, <1>5, <3>2 DEF OpenCheck, OpenDos, OpenFile, OpenFileFails, NextEnd, Close, InNumber
    <3>q. QED BY <3>1, <3>2
  <2>q. QED BY <1>1, <1>2, <2>1 DEF NumberInv, NumberType, NumberPlace, NumberLoop, NumberAnswers, InNumber
<1>q. QED BY <1>4, <1>5

LEMMA OthersKeep ==
    ASSUME NumberInv, UNCHANGED prefsVars, pc' \notin InNumber \/ UNCHANGED pc, pc \in InNumber => UNCHANGED pc
    PROVE  NumberInv'
<1>1. UNCHANGED <<least, most, rest, settings, at, number, answers>> /\ Value' = Value
  BY DEF prefsVars, prefsArgs, fileVars, numberVars, Value
<1>q. QED BY <1>1 DEF NumberInv, NumberType, NumberPlace, NumberLoop, NumberAnswers, InNumber

LEMMA NumberKeeps == ASSUME NumberInv, [Next]_libVars PROVE NumberInv'
<1>1. CASE PrefsNext BY <1>1, ReadKeeps, SignKeeps, TakeKeeps, RefuseKeeps, FinishKeeps DEF PrefsNext
<1>2. CASE TextNext /\ UNCHANGED prefsVars
  <2>1. pc \notin InNumber /\ pc' \notin InNumber BY <1>2, TextStays DEF TextPlaces, InNumber
  <2>q. QED BY <1>2, <2>1, OthersKeep
<1>3. CASE MoveNext /\ UNCHANGED prefsVars
  <2>1. pc \notin InNumber /\ pc' \notin InNumber BY <1>3, MoveStays DEF MovePlaces, InNumber
  <2>q. QED BY <1>3, <2>1, OthersKeep
<1>4. CASE UNCHANGED libVars BY <1>4, OthersKeep DEF libVars
<1>q. QED BY <1>1, <1>2, <1>3, <1>4 DEF Next

\* prefs_number() answers every text as its digits say, and refuses exactly those that
\* are no number or do not fit.
THEOREM NumberCorrect == Spec => []NumberExact
<1>1. NumberInv => NumberExact BY DEF NumberInv, NumberType, NumberAnswers, NumberExact
<1>q. QED BY <1>1, NumberStart, NumberKeeps, PTL DEF Spec

-----------------------------------------------------------------------------
(* What prefs_split() takes from a line, by the places of its first and last     *)
(* characters.                                                                   *)

\* The part of a part, and what is in it.
LEMMA PartOfPart ==
    ASSUME NEW s \in Seq(Chars), NEW a \in Nat, NEW b \in 0 .. Len(s), a >= 1, a <= b + 1
    PROVE  /\ SubSeq(s, a, b) \in Seq(Chars) /\ Len(SubSeq(s, a, b)) = b - a + 1
           /\ \A i \in 1 .. b - a + 1 : SubSeq(s, a, b)[i] = s[a + i - 1]
           /\ \A i \in 1 .. b - a + 2, j \in 0 .. b - a + 1 :
                  i <= j + 1 => SubSeq(SubSeq(s, a, b), i, j) = SubSeq(s, a + i - 1, a + j - 1)
<1> DEFINE t == SubSeq(s, a, b)
<1>1. t \in Seq(Chars) /\ Len(t) = b - a + 1 /\ \A i \in 1 .. b - a + 1 : t[i] = s[a + i - 1] OBVIOUS
<1>2. ASSUME NEW i \in 1 .. b - a + 2, NEW j \in 0 .. b - a + 1, i <= j + 1
      PROVE  SubSeq(t, i, j) = SubSeq(s, a + i - 1, a + j - 1)
  <2> HIDE DEF t
  <2> DEFINE x == SubSeq(t, i, j)
             y == SubSeq(s, a + i - 1, a + j - 1)
  <2>1. x \in Seq(Chars) /\ Len(x) = j - i + 1 /\ \A k \in 1 .. j - i + 1 : x[k] = t[i + k - 1] BY <1>1, <1>2
  <2>2. y \in Seq(Chars) /\ Len(y) = j - i + 1 /\ \A k \in 1 .. j - i + 1 : y[k] = s[(a + i - 1) + k - 1] BY <1>2
  <2>3. ASSUME NEW k \in 1 .. j - i + 1 PROVE x[k] = y[k]
    <3>1. i + k - 1 \in 1 .. b - a + 1 /\ a + (i + k - 1) - 1 = (a + i - 1) + k - 1 BY <1>2
    <3>2. x[k] = s[a + (i + k - 1) - 1] BY <1>1, <2>1, <3>1
    <3>q. QED BY <2>2, <3>1, <3>2
  <2> HIDE DEF x, y
  <2>4. x = [k \in 1 .. j - i + 1 |-> x[k]] BY <2>1
  <2>5. y = [k \in 1 .. j - i + 1 |-> y[k]] BY <2>2
  <2>6. [k \in 1 .. j - i + 1 |-> x[k]] = [k \in 1 .. j - i + 1 |-> y[k]] BY <2>3, Zenon
  <2>7. x = y BY <2>4, <2>5, <2>6, Zenon
  <2>q. QED BY <2>7 DEF x, y
<1>q. QED BY <1>1, <1>2

\* The same two, of a part of a text.
LEMMA SkipPart ==
    ASSUME NEW s \in Seq(Chars), NEW a \in Nat, NEW b \in 0 .. Len(s), a >= 1, a <= b + 1
    PROVE  \E p \in a .. b + 1 :
               /\ SkipBlanks(SubSeq(s, a, b)) = SubSeq(s, p, b)
               /\ \A i \in a .. p - 1 : s[i] \in Blank
               /\ p <= b => s[p] \notin Blank
<1> DEFINE t == SubSeq(s, a, b)
<1>1. /\ t \in Seq(Chars) /\ Len(t) = b - a + 1
      /\ \A i \in 1 .. b - a + 1 : t[i] = s[a + i - 1]
      /\ \A i \in 1 .. b - a + 2, j \in 0 .. b - a + 1 : i <= j + 1 => SubSeq(t, i, j) = SubSeq(s, a + i - 1, a + j - 1)
  BY PartOfPart
<1> HIDE DEF t
<1>2. PICK o \in 1 .. Len(t) + 1 :
          /\ SkipBlanks(t) = SubSeq(t, o, Len(t))
          /\ \A i \in 1 .. o - 1 : t[i] \in Blank
          /\ o <= Len(t) => t[o] \notin Blank
  BY <1>1, SkipMeans
<1> DEFINE p == a + o - 1
<1>3. p \in a .. b + 1 BY <1>1, <1>2
<1>4. SkipBlanks(t) = SubSeq(s, p, b)
  <2>1. o \in 1 .. b - a + 2 /\ b - a + 1 \in 0 .. b - a + 1 /\ o <= (b - a + 1) + 1 /\ a + (b - a + 1) - 1 = b BY <1>1, <1>2
  <2>2. SubSeq(t, o, b - a + 1) = SubSeq(s, a + o - 1, a + (b - a + 1) - 1) BY <1>1, <2>1
  <2>q. QED BY <1>1, <1>2, <2>1, <2>2
<1>5. ASSUME NEW i \in a .. p - 1 PROVE s[i] \in Blank
  <2>1. i - a + 1 \in 1 .. o - 1 /\ i - a + 1 \in 1 .. b - a + 1 /\ a + (i - a + 1) - 1 = i BY <1>1, <1>2
  <2>q. QED BY <1>1, <1>2, <2>1
<1>6. p <= b => s[p] \notin Blank
  <2>1. p <= b => o <= Len(t) /\ o \in 1 .. b - a + 1 BY <1>1, <1>2
  <2>q. QED BY <1>1, <1>2, <2>1
<1> HIDE DEF p
<1>q. QED BY <1>3, <1>4, <1>5, <1>6 DEF t

LEMMA DropPart ==
    ASSUME NEW s \in Seq(Chars), NEW a \in Nat, NEW b \in 0 .. Len(s), a >= 1, a <= b + 1
    PROVE  \E q \in a - 1 .. b :
               /\ DropBlanks(SubSeq(s, a, b)) = SubSeq(s, a, q)
               /\ \A i \in q + 1 .. b : s[i] \in Blank
               /\ q >= a => s[q] \notin Blank
<1> DEFINE t == SubSeq(s, a, b)
<1>1. /\ t \in Seq(Chars) /\ Len(t) = b - a + 1
      /\ \A i \in 1 .. b - a + 1 : t[i] = s[a + i - 1]
      /\ \A i \in 1 .. b - a + 2, j \in 0 .. b - a + 1 : i <= j + 1 => SubSeq(t, i, j) = SubSeq(s, a + i - 1, a + j - 1)
  BY PartOfPart
<1> HIDE DEF t
<1>2. PICK o \in 0 .. Len(t) :
          /\ DropBlanks(t) = SubSeq(t, 1, o)
          /\ \A i \in o + 1 .. Len(t) : t[i] \in Blank
          /\ o >= 1 => t[o] \notin Blank
  BY <1>1, DropMeans
<1> DEFINE q == a + o - 1
<1>3. q \in a - 1 .. b BY <1>1, <1>2
<1>4. DropBlanks(t) = SubSeq(s, a, q)
  <2>1. 1 \in 1 .. b - a + 2 /\ o \in 0 .. b - a + 1 /\ 1 <= o + 1 /\ a + 1 - 1 = a BY <1>1, <1>2
  <2>2. SubSeq(t, 1, o) = SubSeq(s, a + 1 - 1, a + o - 1) BY <1>1, <2>1
  <2>q. QED BY <1>2, <2>1, <2>2
<1>5. ASSUME NEW i \in q + 1 .. b PROVE s[i] \in Blank
  <2>1. i - a + 1 \in o + 1 .. Len(t) /\ i - a + 1 \in 1 .. b - a + 1 /\ a + (i - a + 1) - 1 = i BY <1>1, <1>2
  <2>q. QED BY <1>1, <1>2, <2>1
<1>6. q >= a => s[q] \notin Blank
  <2>1. q >= a => o >= 1 /\ o \in 1 .. b - a + 1 BY <1>1, <1>2
  <2>q. QED BY <1>1, <1>2, <2>1
<1> HIDE DEF q
<1>q. QED BY <1>3, <1>4, <1>5, <1>6 DEF t

\* Between a first and a last that are no blanks, with blanks around: the word.
Spans(s, a, b, i, j) ==
    /\ a \in Nat /\ b \in Nat /\ i \in Nat /\ j \in Nat /\ a <= i /\ i <= j /\ j <= b
    /\ s[i] \notin Blank /\ s[j] \notin Blank
    /\ \A k \in a .. i - 1 : s[k] \in Blank
    /\ \A k \in j + 1 .. b : s[k] \in Blank
LEMMA WordIs ==
    ASSUME NEW s, NEW a, NEW b, NEW i, NEW j, Spans(s, a, b, i, j)
    PROVE  Word(s, a, b) = {<<i, j>>}
<1> USE DEF Spans
<1>1. i \in a .. b /\ j \in a .. b OBVIOUS
<1>2. <<i, j>> \in Word(s, a, b) BY <1>1 DEF Word, IsBlank
<1>3. ASSUME NEW w \in Word(s, a, b) PROVE w = <<i, j>>
  <2>1. /\ w \in (a .. b) \X (a .. b) /\ w[1] <= w[2] /\ s[w[1]] \notin Blank /\ s[w[2]] \notin Blank
        /\ \A k \in a .. w[1] - 1 : s[k] \in Blank
        /\ \A k \in w[2] + 1 .. b : s[k] \in Blank
    BY <1>3 DEF Word, IsBlank
  <2>2. ~(w[1] < i) /\ ~(i < w[1]) /\ ~(j < w[2]) /\ ~(w[2] < j) BY <1>1, <2>1
  <2>q. QED BY <1>1, <2>1, <2>2
<1>q. QED BY <1>2, <1>3

LEMMA NoWord ==
    ASSUME NEW s, NEW a \in Nat, NEW b \in Int, \A k \in a .. b : s[k] \in Blank
    PROVE  Word(s, a, b) = {}
BY DEF Word

\* The first "=" of a text and the end of its line, and what it says around them.
Cuts(s) ==
    {c \in (1 .. Len(s)) \X (1 .. Len(s)) :
        /\ c[1] <= c[2] /\ s[c[1]] = "=" /\ \A k \in 1 .. c[1] - 1 : s[k] # "="
        /\ \A k \in 1 .. c[2] : s[k] \notin {"n", "r"}
        /\ (c[2] = Len(s) \/ s[c[2] + 1] \in {"n", "r"})}
SaidAt(s, c) ==
    {<<SubSeq(s, k[1], k[2]), SubSeq(s, v[1], v[2])>> :
        k \in {w \in Word(s, 1, c[1] - 1) : s[w[1]] # "#"},
        v \in Word(s, c[1] + 1, c[2])}

LEMMA SayingsAre == ASSUME NEW l PROVE Sayings(l) = UNION {SaidAt(LineOf(l), c) : c \in Cuts(LineOf(l))}
BY DEF Sayings, SaidAt, Cuts

\* What a line says comes from one cut, and from none if it has no "=".
LEMMA SaidOnce ==
    ASSUME NEW l, NEW c, Cuts(LineOf(l)) = {c} PROVE Sayings(l) = SaidAt(LineOf(l), c)
<1>1. UNION {SaidAt(LineOf(l), x) : x \in {c}} = SaidAt(LineOf(l), c) OBVIOUS
<1>q. QED BY <1>1, SayingsAre, Zenon
LEMMA SaidNever ==
    ASSUME NEW l, Cuts(LineOf(l)) = {} PROVE Sayings(l) = {}
<1>1. UNION {SaidAt(LineOf(l), x) : x \in {}} = {} OBVIOUS
<1>q. QED BY <1>1, SayingsAre, Zenon

WordsAt(s, c, k, v) == Word(s, 1, c[1] - 1) = {k} /\ Word(s, c[1] + 1, c[2]) = {v}
LEMMA SaidIs ==
    ASSUME NEW s, NEW c, NEW k, NEW v, WordsAt(s, c, k, v)
    PROVE  SaidAt(s, c) = IF s[k[1]] = "#" THEN {} ELSE {<<SubSeq(s, k[1], k[2]), SubSeq(s, v[1], v[2])>>}
<1> USE DEF WordsAt
<1> DEFINE keys == {w \in Word(s, 1, c[1] - 1) : s[w[1]] # "#"}
           pair(x, y) == <<SubSeq(s, x[1], x[2]), SubSeq(s, y[1], y[2])>>
<1>1. \A z : z \in SaidAt(s, c) <=> \E x \in keys, y \in Word(s, c[1] + 1, c[2]) : z = pair(x, y)
  BY DEF SaidAt
<1>2. CASE s[k[1]] = "#"
  <2>1. keys = {} BY <1>2
  <2> HIDE DEF keys, pair
  <2>2. \A z : z \notin SaidAt(s, c) BY <1>1, <2>1, Zenon
  <2>q. QED BY <1>2, <2>2
<1>3. CASE s[k[1]] # "#"
  <2>1. keys = {k} BY <1>3
  <2> HIDE DEF keys, pair
  <2>2. \A z : z \in SaidAt(s, c) <=> z = pair(k, v) BY <1>1, <2>1, Zenon
  <2>3. SaidAt(s, c) = {pair(k, v)} BY <2>2
  <2>q. QED BY <1>3, <2>3 DEF pair
<1>q. QED BY <1>2, <1>3
LEMMA SaidNothing ==
    ASSUME NEW s, NEW q, NEW e, Word(s, 1, q - 1) = {} \/ Word(s, q + 1, e) = {}
    PROVE  SaidAt(s, <<q, e>>) = {}
<1>1. SaidAt(s, <<q, e>>) = {<<SubSeq(s, k[1], k[2]), SubSeq(s, v[1], v[2])>> :
                              k \in {w \in Word(s, 1, q - 1) : s[w[1]] # "#"}, v \in Word(s, q + 1, e)}
  BY DEF SaidAt
<1>q. QED BY <1>1

\* What prefs_split() gets from a line is what the line says.
LEMMA SplitSays ==
    ASSUME NEW l, LineOf(l) \in Seq(Chars)
    PROVE  Split(LineOf(l)) = Sayings(l)
<1> DEFINE s == LineOf(l)
           e == First(s, {"n", "r"}) - 1
           line == SkipBlanks(Before(s, First(s, {"n", "r"})))
           eq == First(line, {"="})
           key == DropBlanks(Before(line, eq))
           val == DropBlanks(SkipBlanks(After(line, eq)))
<1>1. Split(s) = IF line = <<>> \/ line[1] = "#" \/ eq > Len(line) \/ key = <<>> \/ val = <<>>
                   THEN {} ELSE {<<key, val>>}
  BY Zenon DEF Split
<1>3. Before(s, First(s, {"n", "r"})) = SubSeq(s, 1, e) BY DEF Before
<1>4. s \in Seq(Chars) /\ Len(s) \in Nat OBVIOUS
<1> HIDE DEF s
<1>5. /\ First(s, {"n", "r"}) \in 1 .. Len(s) + 1
      /\ \A i \in 1 .. First(s, {"n", "r"}) - 1 : s[i] \notin {"n", "r"}
      /\ First(s, {"n", "r"}) <= Len(s) => s[First(s, {"n", "r"})] \in {"n", "r"}
  BY <1>4, FirstMeans
<1>6. e \in 0 .. Len(s) /\ e + 1 = First(s, {"n", "r"}) BY <1>5
<1>7. /\ \A i \in 1 .. e : s[i] \notin {"n", "r"}
      /\ e = Len(s) \/ s[e + 1] \in {"n", "r"}
  BY <1>4, <1>5, <1>6
<1>8. PICK p \in 1 .. e + 1 :
          /\ SkipBlanks(SubSeq(s, 1, e)) = SubSeq(s, p, e)
          /\ \A i \in 1 .. p - 1 : s[i] \in Blank
          /\ p <= e => s[p] \notin Blank
  <2>1. 1 \in Nat /\ 1 >= 1 /\ 1 <= e + 1 BY <1>6
  <2> HIDE DEF e
  <2>q. QED BY <1>4, <1>6, <2>1, SkipPart
<1>9. line = SubSeq(s, p, e) BY <1>3, <1>8
<1> HIDE DEF e
<1>10. /\ line \in Seq(Chars) /\ Len(line) = e - p + 1
       /\ \A i \in 1 .. e - p + 1 : line[i] = s[p + i - 1]
       /\ \A i \in 1 .. e - p + 2, j \in 0 .. e - p + 1 :
              i <= j + 1 => SubSeq(line, i, j) = SubSeq(s, p + i - 1, p + j - 1)
  <2>1. p \in Nat /\ p >= 1 /\ p <= e + 1 BY <1>6, <1>8
  <2> HIDE DEF line
  <2>q. QED BY <1>4, <1>6, <1>9, <2>1, PartOfPart
<1> HIDE DEF line
<1>11. /\ eq \in 1 .. Len(line) + 1
       /\ \A i \in 1 .. eq - 1 : line[i] \notin {"="}
       /\ eq <= Len(line) => line[eq] \in {"="}
  BY <1>10, FirstMeans
<1> HIDE DEF eq
<1> DEFINE q == p + eq - 1
<1>12. /\ \A c \in Cuts(s) : c[2] = e
       /\ \A c \in Cuts(s) : c[1] \in 1 .. e /\ s[c[1]] = "=" /\ \A k \in 1 .. c[1] - 1 : s[k] # "="
  <2> SUFFICES ASSUME NEW c \in Cuts(s) PROVE c[2] = e /\ c[1] \in 1 .. e /\ s[c[1]] = "=" /\ \A k \in 1 .. c[1] - 1 : s[k] # "="
    OBVIOUS
  <2>1. /\ c[1] \in 1 .. Len(s) /\ c[2] \in 1 .. Len(s) /\ c[1] <= c[2]
        /\ \A k \in 1 .. c[2] : s[k] \notin {"n", "r"}
        /\ c[2] = Len(s) \/ s[c[2] + 1] \in {"n", "r"}
    BY DEF Cuts
  <2>2. ~(e < c[2]) BY <1>4, <1>6, <1>7, <2>1
  <2>3. ~(c[2] < e)
    <3> SUFFICES ASSUME c[2] < e PROVE FALSE OBVIOUS
    <3>1. c[2] + 1 \in 1 .. e /\ c[2] # Len(s) BY <1>4, <1>6, <2>1
    <3>q. QED BY <1>7, <2>1, <3>1
  <2>4. s[c[1]] = "=" /\ \A k \in 1 .. c[1] - 1 : s[k] # "=" BY DEF Cuts
  <2>q. QED BY <1>4, <1>6, <2>1, <2>2, <2>3, <2>4
<1>13. \A i \in 1 .. q - 1 : i <= e => s[i] # "="
  <2> SUFFICES ASSUME NEW i \in 1 .. q - 1, i <= e PROVE s[i] # "=" OBVIOUS
  <2>1. CASE i < p
    <3>1. i \in 1 .. p - 1 BY <1>6, <1>8, <2>1
    <3>2. s[i] \in {"_"} BY <1>8, <3>1 DEF Blank
    <3>q. QED BY <3>2
  <2>2. CASE i >= p
    <3>1. i - p + 1 \in 1 .. eq - 1 /\ i - p + 1 \in 1 .. e - p + 1 /\ p + (i - p + 1) - 1 = i
      BY <1>6, <1>8, <1>10, <1>11, <2>2
    <3>q. QED BY <1>10, <1>11, <3>1
  <2>q. QED BY <1>6, <1>8, <2>1, <2>2
<1>14. CASE eq > Len(line)
  <2>1. q - 1 = e BY <1>6, <1>8, <1>10, <1>11, <1>14
  <2>2. \A i \in 1 .. e : s[i] # "=" BY <1>6, <1>13, <2>1
  <2>3. Cuts(s) = {} BY <1>12, <2>2
  <2>4. Sayings(l) = {} BY <2>3, SaidNever DEF s
  <2>q. QED BY <1>1, <1>14, <2>4, Zenon DEF s
<1>15. CASE ~(eq > Len(line))
  <2>1. q \in p .. e /\ eq \in 1 .. e - p + 1 /\ s[q] = "="
    BY <1>6, <1>8, <1>10, <1>11, <1>15
  <2>2. Cuts(s) = {<<q, e>>}
    <3>1. <<q, e>> \in Cuts(s) BY <1>4, <1>6, <1>7, <1>8, <1>13, <2>1, SMTT(30) DEF Cuts
    <3>2. ASSUME NEW c \in Cuts(s) PROVE c = <<q, e>>
      <4>1. c \in (1 .. Len(s)) \X (1 .. Len(s)) BY DEF Cuts
      <4>2. c[2] = e /\ c[1] \in 1 .. e /\ s[c[1]] = "=" /\ \A k \in 1 .. c[1] - 1 : s[k] # "=" BY <1>12
      <4>3. q \in Nat /\ q >= 1 /\ q <= e /\ e \in Nat BY <1>6, <1>8, <2>1
      <4> HIDE DEF q
      <4>5. ~(q < c[1])
        <5> SUFFICES ASSUME q < c[1] PROVE FALSE OBVIOUS
        <5>1. q \in 1 .. c[1] - 1 BY <4>2, <4>3
        <5>q. QED BY <2>1, <4>2, <5>1
      <4>6. ~(c[1] < q)
        <5> SUFFICES ASSUME c[1] < q PROVE FALSE OBVIOUS
        <5>1. c[1] \in 1 .. q - 1 /\ c[1] <= e BY <4>2, <4>3
        <5>q. QED BY <1>13, <4>2, <5>1
      <4>q. QED BY <4>1, <4>2, <4>3, <4>5, <4>6
    <3> HIDE DEF q
    <3>q. QED BY <3>1, <3>2
  <2>3. Sayings(l) = SaidAt(s, <<q, e>>)
    <3> HIDE DEF q
    <3>q. QED BY <2>2, SaidOnce DEF s
  <2>5. Before(line, eq) = SubSeq(s, p, q - 1)
    <3>1. 1 \in 1 .. e - p + 2 /\ eq - 1 \in 0 .. e - p + 1 /\ 1 <= (eq - 1) + 1 /\ p + 1 - 1 = p /\ p + (eq - 1) - 1 = q - 1
      BY <1>6, <1>8, <2>1, <1>11, <1>10
    <3>2. SubSeq(line, 1, eq - 1) = SubSeq(s, p + 1 - 1, p + (eq - 1) - 1) BY <1>10, <3>1
    <3>q. QED BY <3>1, <3>2 DEF Before
  <2>6. After(line, eq) = SubSeq(s, q + 1, e)
    <3>1. eq + 1 \in 1 .. e - p + 2 /\ e - p + 1 \in 0 .. e - p + 1 /\ eq + 1 <= (e - p + 1) + 1
          /\ p + (eq + 1) - 1 = q + 1 /\ p + (e - p + 1) - 1 = e
      BY <1>6, <1>8, <2>1, <1>11, <1>10
    <3>2. SubSeq(line, eq + 1, e - p + 1) = SubSeq(s, p + (eq + 1) - 1, p + (e - p + 1) - 1) BY <1>10, <3>1
    <3>q. QED BY <1>10, <3>1, <3>2 DEF After
  <2>7. q \in Nat /\ p \in Nat /\ p >= 1 /\ p <= q /\ q <= e /\ e <= Len(s) /\ e \in Nat BY <1>4, <1>6, <1>8, <2>1
  <2> HIDE DEF q
  <2>8. PICK j \in p - 1 .. q - 1 :
            /\ key = SubSeq(s, p, j)
            /\ \A i \in j + 1 .. q - 1 : s[i] \in Blank
            /\ j >= p => s[j] \notin Blank
    <3>1. q - 1 \in 0 .. Len(s) /\ p <= (q - 1) + 1 BY <1>4, <2>7
    <3>q. QED BY <1>4, <2>5, <2>7, <3>1, DropPart
  <2>9. PICK a \in q + 1 .. e + 1 :
            /\ SkipBlanks(SubSeq(s, q + 1, e)) = SubSeq(s, a, e)
            /\ \A i \in q + 1 .. a - 1 : s[i] \in Blank
            /\ a <= e => s[a] \notin Blank
    <3>1. q + 1 \in Nat /\ q + 1 >= 1 /\ q + 1 <= e + 1 /\ e \in 0 .. Len(s) BY <1>4, <2>7
    <3>q. QED BY <1>4, <3>1, SkipPart
  <2>10. PICK b \in a - 1 .. e :
            /\ val = SubSeq(s, a, b)
            /\ \A i \in b + 1 .. e : s[i] \in Blank
            /\ b >= a => s[b] \notin Blank
    <3>1. a \in Nat /\ a >= 1 /\ a <= e + 1 /\ e \in 0 .. Len(s) BY <1>4, <2>7, <2>9
    <3>q. QED BY <1>4, <2>6, <2>9, <3>1, DropPart
  <2>11. (line # <<>>) /\ line[1] = s[p]
    <3>1. 1 \in 1 .. e - p + 1 /\ p + 1 - 1 = p BY <2>7
    <3>q. QED BY <1>10, <3>1
  <2>12. (key = <<>> <=> p = q) /\ (p # q => p <= j)
    <3>1. p = q => j = p - 1 BY <2>7, <2>8
    <3>2. p # q => j >= p
      <4> SUFFICES ASSUME p # q, ~(j >= p) PROVE FALSE OBVIOUS
      <4>1. p \in j + 1 .. q - 1 /\ p <= e BY <2>7, <2>8
      <4>q. QED BY <1>8, <2>8, <4>1
    <3>3. Len(key) = IF p <= j THEN j - p + 1 ELSE 0 BY <1>4, <2>7, <2>8
    <3>4. key \in Seq(Chars) BY <1>4, <2>7, <2>8
    <3> HIDE DEF key
    <3>q. QED BY <2>7, <2>8, <3>1, <3>2, <3>3, <3>4
  <2>13. (val = <<>> <=> a = e + 1) /\ (a # e + 1 => a <= b)
    <3>1. a = e + 1 => b = a - 1 BY <2>7, <2>9, <2>10
    <3>2. a # e + 1 => b >= a
      <4> SUFFICES ASSUME a # e + 1, ~(b >= a) PROVE FALSE OBVIOUS
      <4>1. a \in b + 1 .. e /\ a <= e BY <2>7, <2>9, <2>10
      <4>q. QED BY <2>9, <2>10, <4>1
    <3>3. Len(val) = IF a <= b THEN b - a + 1 ELSE 0 BY <1>4, <2>7, <2>9, <2>10
    <3>4. val \in Seq(Chars) BY <1>4, <2>7, <2>9, <2>10
    <3> HIDE DEF val
    <3>5. (val = <<>>) <=> Len(val) = 0 BY <3>4
    <3>6. a = e + 1 => ~(a <= b) BY <2>7, <2>9, <3>1
    <3>7. a # e + 1 => a <= b /\ b - a + 1 # 0 BY <2>7, <2>9, <2>10, <3>2
    <3>q. QED BY <3>3, <3>5, <3>6, <3>7
  <2>14. Word(s, 1, q - 1) = IF p = q THEN {} ELSE {<<p, j>>}
    <3>1. CASE p = q BY <1>8, <2>7, <3>1, NoWord, SMTT(30)
    <3>2. CASE p # q
      <4>1. p <= j /\ j <= q - 1 /\ j \in Nat /\ q - 1 \in Nat /\ p <= e BY <2>7, <2>8, <2>12, <3>2
      <4>2. s[p] \notin Blank /\ s[j] \notin Blank BY <1>8, <2>8, <4>1, <2>7
      <4>3. 1 \in Nat /\ 1 <= p /\ (\A k \in 1 .. p - 1 : s[k] \in Blank) /\ (\A k \in j + 1 .. q - 1 : s[k] \in Blank) BY <1>8, <2>7, <2>8
      <4>5. Spans(s, 1, q - 1, p, j) BY <2>7, <4>1, <4>2, <4>3 DEF Spans
      <4>4. Word(s, 1, q - 1) = {<<p, j>>} BY <4>5, WordIs
      <4>q. QED BY <3>2, <4>4
    <3>q. QED BY <3>1, <3>2
  <2>15. Word(s, q + 1, e) = IF a = e + 1 THEN {} ELSE {<<a, b>>}
    <3>1. CASE a = e + 1
      <4>1. \A k \in q + 1 .. e : s[k] \in Blank BY <2>7, <2>9, <3>1
      <4>2. q + 1 \in Nat /\ e \in Int BY <2>7
      <4>q. QED BY <3>1, <4>1, <4>2, NoWord
    <3>2. CASE a # e + 1
      <4>1. a <= b /\ b <= e /\ b \in Nat /\ a \in Nat /\ q + 1 <= a /\ a <= e /\ q + 1 \in Nat BY <2>7, <2>9, <2>10, <2>13, <3>2
      <4>2. s[a] \notin Blank /\ s[b] \notin Blank BY <2>9, <2>10, <4>1
      <4>3. (\A k \in q + 1 .. a - 1 : s[k] \in Blank) /\ (\A k \in b + 1 .. e : s[k] \in Blank) BY <2>9, <2>10
      <4>5. Spans(s, q + 1, e, a, b) BY <2>7, <4>1, <4>2, <4>3 DEF Spans
      <4>4. Word(s, q + 1, e) = {<<a, b>>} BY <4>5, WordIs
      <4>q. QED BY <3>2, <4>4
    <3>q. QED BY <3>1, <3>2
  <2> HIDE DEF key, val
  <2>16. CASE p = q \/ a = e + 1
    <3>1. Sayings(l) = {} BY <2>3, <2>14, <2>15, <2>16, SaidNothing
    <3>q. QED BY <1>1, <2>12, <2>13, <2>16, <3>1, Zenon DEF s
  <2>17. CASE p # q /\ a # e + 1
    <3> DEFINE c == <<q, e>>
               k == <<p, j>>
               v == <<a, b>>
    <3>1. Word(s, 1, c[1] - 1) = {k} /\ Word(s, c[1] + 1, c[2]) = {v} /\ k[1] = p /\ k[2] = j /\ v[1] = a /\ v[2] = b
      BY <2>14, <2>15, <2>17
    <3>2. Sayings(l) = SaidAt(s, c) BY <2>3
    <3> HIDE DEF c, k, v
    <3>3. SaidAt(s, c) = IF s[k[1]] = "#" THEN {} ELSE {<<SubSeq(s, k[1], k[2]), SubSeq(s, v[1], v[2])>>}
      <4>1. WordsAt(s, c, k, v) BY <3>1 DEF WordsAt
      <4>q. QED BY <4>1, SaidIs, Zenon
    <3>4. Sayings(l) = IF s[p] = "#" THEN {} ELSE {<<SubSeq(s, p, j), SubSeq(s, a, b)>>}
      BY <3>1, <3>2, <3>3, Zenon
    <3>q. QED
      <4>1. CASE s[p] = "#" BY <1>1, <2>11, <3>4, <4>1, Zenon DEF s
      <4>2. CASE s[p] # "#"
        <5>1. Split(s) = {<<key, val>>} BY <1>1, <1>15, <2>11, <2>12, <2>13, <2>17, <4>2, Zenon
        <5>q. QED BY <2>8, <2>10, <3>4, <4>2, <5>1, Zenon DEF s
      <4>q. QED BY <4>1, <4>2
  <2>q. QED BY <2>16, <2>17
<1>q. QED BY <1>14, <1>15

-----------------------------------------------------------------------------
(* prefs_next() over a file: what has been read ends where a line ends, and each   *)
(* of the lines read that says something has its setting.                          *)

Fit == \A l \in Lines : l[2] - l[1] < BufSize
Saying == {l \in Lines : Sayings(l) # {}}
SaidUpTo(e) == {l \in Saying : l[2] <= e}
Consumed == Len(file) - Len(rest)

FileInv ==
    /\ file \in Seq(Chars) /\ rest \in Seq(Chars)
    /\ Len(rest) <= Len(file) /\ rest = SubSeq(file, Consumed + 1, Len(file))
    /\ pc = "eof" => rest = <<>>

SettingsInv ==
    Fit => /\ Consumed \in Ends
           /\ Len(settings) = Cardinality(SaidUpTo(Consumed))
           /\ \A l \in SaidUpTo(Consumed) : settings[Cardinality(SaidUpTo(l[2]))] \in Sayings(l)

LEMMA EndsAre ==
    ASSUME file \in Seq(Chars)
    PROVE  /\ Ends \subseteq 0 .. Len(file) /\ Len(file) \in Nat
           /\ \A l \in Lines : /\ l[1] \in Ends /\ l[2] \in Ends /\ l = <<l[1], l[2]>>
                               /\ l[1] \in Nat /\ l[2] \in Nat /\ l[1] < l[2]
                               /\ \A x \in Ends : x <= l[1] \/ x >= l[2]
<1>1. Ends \subseteq 0 .. Len(file) /\ Len(file) \in Nat BY DEF Ends
<1>2. ASSUME NEW l \in Lines
      PROVE  /\ l[1] \in Ends /\ l[2] \in Ends /\ l = <<l[1], l[2]>>
             /\ l[1] \in Nat /\ l[2] \in Nat /\ l[1] < l[2]
             /\ \A x \in Ends : x <= l[1] \/ x >= l[2]
  <2>1. l \in Ends \X Ends /\ l[1] < l[2] /\ \A x \in Ends : x <= l[1] \/ x >= l[2] BY DEF Lines
  <2>2. l[1] \in Ends /\ l[2] \in Ends /\ l = <<l[1], l[2]>> BY <2>1
  <2>3. l[1] \in Nat /\ l[2] \in Nat BY <1>1, <2>2
  <2>q. QED BY <2>1, <2>2, <2>3, Zenon
<1>q. QED BY <1>1, <1>2

LEMMA SaidFinite ==
    ASSUME file \in Seq(Chars), NEW e PROVE IsFiniteSet(SaidUpTo(e)) /\ Cardinality(SaidUpTo(e)) \in Nat
<1>1. IsFiniteSet(0 .. Len(file)) BY FS_Interval
<1>2. IsFiniteSet(Ends) BY <1>1, EndsAre, FS_Subset
<1>3. IsFiniteSet(Ends \X Ends) BY <1>2, FS_Product
<1>4. SaidUpTo(e) \subseteq Ends \X Ends BY DEF SaidUpTo, Saying, Lines
<1>5. IsFiniteSet(SaidUpTo(e)) BY <1>3, <1>4, FS_Subset
<1>q. QED BY <1>5, FS_CardinalityType

\* The next line of the file is what FGets() reads, if it fits.
LEMMA NextLine ==
    ASSUME FileInv, Fit, Consumed \in Ends, rest # <<>>
    PROVE  \E l \in Lines :
               /\ l[1] = Consumed /\ l[2] = Consumed + LineLen(rest)
               /\ Before(rest, LineLen(rest) + 1) = LineOf(l)
               /\ LineLen(rest) \in 1 .. Len(rest)
<1> DEFINE c == Consumed
           p == First(rest, {"n"})
           m == IF p <= Len(rest) THEN p ELSE Len(rest)
           l == <<c, c + m>>
<1>1. /\ file \in Seq(Chars) /\ rest \in Seq(Chars) /\ Len(file) \in Nat /\ Len(rest) \in Nat
      /\ c \in 0 .. Len(file) /\ c + Len(rest) = Len(file) /\ Len(rest) >= 1
      /\ \A i \in 1 .. Len(rest) : rest[i] = file[c + i]
  <2>1. file \in Seq(Chars) /\ rest \in Seq(Chars) /\ Len(rest) <= Len(file) /\ rest = SubSeq(file, c + 1, Len(file))
    BY DEF FileInv
  <2>2. c \in 0 .. Len(file) /\ c + Len(rest) = Len(file) /\ Len(rest) >= 1 /\ Len(rest) \in Nat /\ Len(file) \in Nat
    BY <2>1 DEF Consumed
  <2> HIDE DEF c
  <2>3. \A i \in 1 .. Len(rest) : rest[i] = file[c + i] BY <2>1, <2>2
  <2>q. QED BY <2>1, <2>2, <2>3
<1>2. c \in Ends OBVIOUS
<1> HIDE DEF c
<1>3. /\ p \in 1 .. Len(rest) + 1
      /\ \A i \in 1 .. p - 1 : rest[i] \notin {"n"}
      /\ p <= Len(rest) => rest[p] \in {"n"}
  BY <1>1, FirstMeans
<1> HIDE DEF p
<1>4. m \in 1 .. Len(rest) /\ m <= p BY <1>1, <1>3
<1>5. c + m \in Ends
  <2>1. CASE p <= Len(rest)
    <3>1. file[c + p] = "n" /\ c + p \in DOMAIN file BY <1>1, <1>3, <2>1
    <3>q. QED BY <2>1, <3>1 DEF Ends
  <2>2. CASE ~(p <= Len(rest)) BY <1>1, <2>2 DEF Ends
  <2>q. QED BY <2>1, <2>2
<1>6. ASSUME NEW x \in Ends PROVE x <= c \/ x >= c + m
  <2> SUFFICES ASSUME c < x, x < c + m PROVE FALSE BY <1>1, <1>4, <1>6, EndsAre
  <2>1. x \in Nat /\ x # 0 /\ x # Len(file) /\ x - c \in 1 .. p - 1 /\ x - c \in 1 .. Len(rest) /\ c + (x - c) = x
    BY <1>1, <1>3, <1>4, EndsAre, SMTT(30)
  <2>2. x \in DOMAIN file /\ file[x] = "n" BY <2>1 DEF Ends
  <2>3. rest[x - c] = file[x] BY <1>1, <2>1
  <2>q. QED BY <1>3, <2>1, <2>2, <2>3
<1> HIDE DEF m
<1>7. l \in Lines /\ l[1] = c /\ l[2] = c + m
  <2>1. l \in Ends \X Ends /\ l[1] = c /\ l[2] = c + m /\ c < c + m BY <1>1, <1>2, <1>4, <1>5
  <2> HIDE DEF l
  <2>q. QED BY <1>6, <2>1 DEF Lines
<1>8. LineLen(rest) = m
  <2>1. m < BufSize
    <3>1. l[2] - l[1] < BufSize BY <1>7 DEF Fit
    <3>q. QED BY <1>1, <1>4, <1>7, <3>1
  <2>2. Least(p, Len(rest)) = m BY DEF Least, m
  <2>3. Least(m, BufSize - 1) = m BY <1>1, <1>4, <2>1, PrefsAssumption DEF Least
  <2>q. QED BY <2>2, <2>3 DEF LineLen, p
<1>9. Before(rest, m + 1) = LineOf(l)
  <2> DEFINE x == SubSeq(rest, 1, m)
             y == SubSeq(file, c + 1, c + m)
  <2>1. x \in Seq(Chars) /\ Len(x) = m /\ \A i \in 1 .. m : x[i] = rest[i] BY <1>1, <1>4
  <2>2. y \in Seq(Chars) /\ Len(y) = m /\ \A i \in 1 .. m : y[i] = file[c + i] BY <1>1, <1>4
  <2>3. Before(rest, m + 1) = x BY <1>4 DEF Before
  <2>4. LineOf(l) = y BY <1>7 DEF LineOf
  <2> HIDE DEF x, y, l
  <2>5. \A i \in 1 .. m : x[i] = y[i] BY <1>1, <1>4, <2>1, <2>2, SMTT(30)
  <2>6. x = [i \in 1 .. m |-> x[i]] /\ y = [i \in 1 .. m |-> y[i]] BY <2>1, <2>2
  <2>7. [i \in 1 .. m |-> x[i]] = [i \in 1 .. m |-> y[i]] BY <2>5, Zenon
  <2>q. QED BY <2>3, <2>4, <2>6, <2>7, Zenon
<1> HIDE DEF l
<1>q. QED BY <1>4, <1>7, <1>8, <1>9 DEF c

\* A line more has been read.
LEMMA LineMore ==
    ASSUME file \in Seq(Chars), NEW l \in Lines
    PROVE  SaidUpTo(l[2]) = IF Sayings(l) = {} THEN SaidUpTo(l[1]) ELSE SaidUpTo(l[1]) \cup {l}
<1>1. /\ l[1] \in Ends /\ l[2] \in Ends /\ l = <<l[1], l[2]>> /\ l[1] \in Nat /\ l[2] \in Nat /\ l[1] < l[2]
      /\ \A x \in Ends : x <= l[1] \/ x >= l[2]
  BY EndsAre
<1>2. ASSUME NEW k \in Lines, k[2] <= l[2] PROVE k[2] <= l[1] \/ k = l
  <2>1. /\ k[1] \in Ends /\ k[2] \in Ends /\ k = <<k[1], k[2]>> /\ k[1] \in Nat /\ k[2] \in Nat /\ k[1] < k[2]
        /\ \A x \in Ends : x <= k[1] \/ x >= k[2]
    BY EndsAre
  <2>2. CASE k[2] <= l[1] BY <2>2
  <2>3. CASE ~(k[2] <= l[1])
    <3>1. k[2] = l[2] BY <1>1, <1>2, <2>1, <2>3
    <3>2. l[1] <= k[1] BY <1>1, <2>1, <2>3
    <3>3. k[1] <= l[1] BY <1>1, <2>1, <3>1
    <3>4. k[1] = l[1] BY <1>1, <2>1, <3>2, <3>3
    <3>q. QED BY <1>1, <2>1, <3>1, <3>4, Zenon
  <2>q. QED BY <2>2, <2>3
<1>3. \A k \in Lines : k[2] <= l[1] => k[2] <= l[2] BY <1>1, EndsAre
<1>4. l[2] <= l[2] BY <1>1
<1>5. \A k : k \in SaidUpTo(l[2]) <=> k \in SaidUpTo(l[1]) \/ (k = l /\ Sayings(l) # {})
  BY <1>2, <1>3, <1>4, Zenon DEF SaidUpTo, Saying
<1>q. QED BY <1>5

LEMMA SaidBefore ==
    ASSUME file \in Seq(Chars), NEW e \in Nat, NEW k \in SaidUpTo(e)
    PROVE  Cardinality(SaidUpTo(k[2])) \in 1 .. Cardinality(SaidUpTo(e))
<1>1. k \in Lines /\ k[2] <= e /\ k[2] \in Nat BY EndsAre DEF SaidUpTo, Saying
<1>2. \A x \in Lines : x[2] <= k[2] => x[2] <= e BY <1>1, EndsAre
<1>3. SaidUpTo(k[2]) \subseteq SaidUpTo(e) BY <1>2, Zenon DEF SaidUpTo, Saying
<1>4. k \in SaidUpTo(k[2]) BY <1>1 DEF SaidUpTo
<1>5. IsFiniteSet(SaidUpTo(k[2])) /\ IsFiniteSet(SaidUpTo(e)) BY SaidFinite
<1>6. Cardinality(SaidUpTo(k[2])) <= Cardinality(SaidUpTo(e)) BY <1>3, <1>5, FS_Subset
<1>7. Cardinality(SaidUpTo(k[2])) # 0 BY <1>4, <1>5, FS_EmptySet
<1>q. QED BY <1>6, <1>7, SaidFinite

LEMMA FileStart == ASSUME Init PROVE FileInv /\ SettingsInv
<1>1. file \in Seq(Chars) /\ rest = file /\ settings = <<>> /\ pc # "eof"
  <2>1. CASE PrefsInit BY <2>1, PrefsAssumption DEF PrefsInit
  <2>2. CASE PrefsIdle /\ (TextInit \/ MoveInit) BY <2>2 DEF PrefsIdle, TextInit, MoveInit
  <2>q. QED BY <2>1, <2>2 DEF Init
<1>2. Consumed = 0 BY <1>1 DEF Consumed
<1>3. FileInv
  <2>1. SubSeq(file, 1, Len(file)) = file BY <1>1
  <2>q. QED BY <1>1, <1>2, <2>1 DEF FileInv
<1>4. SaidUpTo(0) = {} BY <1>1, EndsAre DEF SaidUpTo, Saying
<1>5. 0 \in Ends BY DEF Ends
<1>6. Cardinality(SaidUpTo(0)) = 0 BY <1>4, FS_EmptySet
<1>q. QED BY <1>1, <1>2, <1>3, <1>4, <1>5, <1>6 DEF SettingsInv

LEMMA SameFile ==
    ASSUME UNCHANGED file
    PROVE  /\ Ends' = Ends /\ Lines' = Lines /\ Fit' = Fit /\ Saying' = Saying
           /\ \A l : LineOf(l)' = LineOf(l) /\ Sayings(l)' = Sayings(l)
           /\ \A e : SaidUpTo(e)' = SaidUpTo(e)
<1>1. Ends' = Ends BY DEF Ends
<1>2. Lines' = Lines BY <1>1 DEF Lines
<1>3. \A l : LineOf(l)' = LineOf(l) BY DEF LineOf
<1>4. \A l : Sayings(l)' = Sayings(l) BY DEF LineOf, Sayings
<1>5. Saying' = Saying BY <1>2, <1>4, Zenon DEF Saying
<1>6. \A e : SaidUpTo(e)' = SaidUpTo(e) BY <1>5, Zenon DEF SaidUpTo
<1>7. Fit' = Fit BY <1>2, Zenon DEF Fit
<1>q. QED BY <1>1, <1>2, <1>3, <1>4, <1>5, <1>6, <1>7

\* A step that reads nothing.
LEMMA FileKept ==
    ASSUME FileInv, SettingsInv, UNCHANGED <<file, rest, settings>>, pc' # "eof" \/ UNCHANGED pc \/ rest = <<>>
    PROVE  FileInv' /\ SettingsInv'
<1>1. Consumed' = Consumed BY DEF Consumed
<1>2. FileInv' BY <1>1 DEF FileInv
<1>q. QED BY <1>1, <1>2, SameFile DEF SettingsInv

LEMMA ReadOn ==
    ASSUME NumberInv, FileInv, SettingsInv, NextSkips \/ NextSetting
    PROVE  FileInv' /\ SettingsInv'
<1> DEFINE m == LineLen(rest)
<1>1. rest # <<>> /\ rest' = After(rest, m) /\ file' = file /\ pc' # "eof"
  BY DEF NextSkips, NextSetting, prefsArgs
<1>2. /\ file \in Seq(Chars) /\ rest \in Seq(Chars) /\ Len(file) \in Nat /\ Len(rest) \in Nat /\ Len(rest) <= Len(file)
      /\ rest = SubSeq(file, Consumed + 1, Len(file)) /\ Consumed \in 0 .. Len(file) /\ Consumed + Len(rest) = Len(file)
  BY DEF FileInv, Consumed
<1>3. First(rest, {"n"}) \in 1 .. Len(rest) + 1 BY <1>2, FirstMeans
<1>4. m \in 1 .. Len(rest)
  <2>1. Len(rest) >= 1 BY <1>1, <1>2
  <2>q. QED BY <1>2, <1>3, <2>1, PrefsAssumption DEF LineLen, Least
<1> HIDE DEF m
<1>5. rest' = SubSeq(rest, m + 1, Len(rest)) BY <1>1 DEF After
<1>6. rest' \in Seq(Chars) /\ Len(rest') = Len(rest) - m BY <1>2, <1>4, <1>5
<1>7. Consumed' = Consumed + m BY <1>1, <1>2, <1>4, <1>6 DEF Consumed
<1>8. rest' = SubSeq(file', Consumed' + 1, Len(file'))
  <2> DEFINE a == Consumed + 1
             b == Len(file)
  <2>1. a \in Nat /\ b \in 0 .. Len(file) /\ a >= 1 /\ a <= b + 1 /\ m + 1 \in 1 .. b - a + 2 /\ Len(rest) \in 0 .. b - a + 1
        /\ m + 1 <= Len(rest) + 1 /\ a + (m + 1) - 1 = (Consumed + m) + 1 /\ a + Len(rest) - 1 = Len(file)
    <3>1. Consumed \in 0 .. Len(file) /\ Consumed + Len(rest) = Len(file) /\ Len(rest) \in Nat /\ Len(file) \in Nat
          /\ m \in 1 .. Len(rest)
      BY <1>2, <1>4
    <3>2. a \in Nat /\ b \in 0 .. Len(file) /\ a >= 1 /\ a <= b + 1 BY <3>1
    <3>3. b - a + 1 = Len(rest) BY <3>1
    <3>4. m + 1 \in 1 .. b - a + 2 /\ Len(rest) \in 0 .. b - a + 1 BY <3>1, <3>2, <3>3
    <3>q. QED BY <3>1, <3>2, <3>4
  <2>2. rest = SubSeq(file, a, b) BY <1>2
  <2> HIDE DEF a, b
  <2>3. SubSeq(SubSeq(file, a, b), m + 1, Len(rest)) = SubSeq(file, a + (m + 1) - 1, a + Len(rest) - 1)
    BY <1>2, <2>1, PartOfPart
  <2>q. QED BY <1>1, <1>5, <1>7, <2>1, <2>2, <2>3
<1>9. FileInv' BY <1>1, <1>2, <1>4, <1>6, <1>8 DEF FileInv
<1>10. SettingsInv'
  <2> SUFFICES ASSUME Fit PROVE /\ Consumed' \in Ends
                 /\ Len(settings') = Cardinality(SaidUpTo(Consumed'))
                 /\ \A k \in SaidUpTo(Consumed') : settings'[Cardinality(SaidUpTo(k[2]))] \in Sayings(k)
    <3>1. Ends' = Ends /\ Fit' = Fit /\ (\A k : Sayings(k)' = Sayings(k)) /\ \A e : SaidUpTo(e)' = SaidUpTo(e)
      BY <1>1, SameFile, Zenon
    <3>2. SettingsInv' <=> (Fit' =>
              /\ Consumed' \in Ends'
              /\ Len(settings') = Cardinality(SaidUpTo(Consumed)')
              /\ \A k \in SaidUpTo(Consumed)' : settings'[Cardinality(SaidUpTo(k[2])')] \in Sayings(k)')
      BY DEF SettingsInv
    <3>q. QED BY <3>1, <3>2
  <2>1. /\ Consumed \in Ends /\ Len(settings) = Cardinality(SaidUpTo(Consumed))
        /\ \A k \in SaidUpTo(Consumed) : settings[Cardinality(SaidUpTo(k[2]))] \in Sayings(k)
    BY DEF SettingsInv
  <2>2. PICK l \in Lines : l[1] = Consumed /\ l[2] = Consumed + m /\ Before(rest, m + 1) = LineOf(l)
    BY <1>1, <2>1, NextLine DEF m
  <2>3. Consumed' \in Ends /\ Consumed' = l[2] BY <1>2, <1>7, <2>2, EndsAre
  <2>4. LineOf(l) \in Seq(Chars)
    <3>1. Before(rest, m + 1) = SubSeq(rest, 1, m) BY <1>4 DEF Before
    <3>2. SubSeq(rest, 1, m) \in Seq(Chars) BY <1>2, <1>4
    <3>q. QED BY <2>2, <3>1, <3>2
  <2>5. Split(Before(rest, m + 1)) = Sayings(l) BY <2>2, <2>4, SplitSays
  <2>6. SaidUpTo(Consumed') = IF Sayings(l) = {} THEN SaidUpTo(Consumed) ELSE SaidUpTo(Consumed) \cup {l}
    BY <1>2, <2>2, <2>3, LineMore
  <2>7. CASE NextSkips
    <3>1. Sayings(l) = {} /\ settings' = settings BY <2>5, <2>7 DEF NextSkips, m
    <3>q. QED BY <2>1, <2>3, <2>6, <3>1
  <2>8. CASE NextSetting
    <3>1. PICK s \in Sayings(l) : settings' = Append(settings, s) BY <2>5, <2>8 DEF NextSetting, m
    <3>2. SaidUpTo(Consumed') = SaidUpTo(Consumed) \cup {l} BY <2>6, <3>1
    <3>3. l \notin SaidUpTo(Consumed) BY <1>2, <2>2, <1>4 DEF SaidUpTo
    <3>4. Cardinality(SaidUpTo(Consumed')) = Cardinality(SaidUpTo(Consumed)) + 1
          /\ Cardinality(SaidUpTo(Consumed)) \in Nat
      BY <1>2, <3>2, <3>3, SaidFinite, FS_AddElement
    <3>5. settings \in Seq(Seq(Chars) \X Seq(Chars)) BY DEF NumberInv, NumberType
    <3>6. s \in Seq(Chars) \X Seq(Chars) BY <2>4, <2>5, <2>2, <3>1, SplitIs
    <3>7. Len(settings') = Len(settings) + 1 /\ settings'[Len(settings) + 1] = s
          /\ \A i \in 1 .. Len(settings) : settings'[i] = settings[i]
      BY <3>1, <3>5, <3>6
    <3>8. ASSUME NEW k \in SaidUpTo(Consumed') PROVE settings'[Cardinality(SaidUpTo(k[2]))] \in Sayings(k)
      <4>1. CASE k = l BY <2>1, <2>3, <3>1, <3>4, <3>7, <4>1
      <4>2. CASE k # l
        <5>1. k \in SaidUpTo(Consumed) BY <3>2, <4>2
        <5>2. Cardinality(SaidUpTo(k[2])) \in 1 .. Cardinality(SaidUpTo(Consumed))
          <6>1. Consumed \in Nat BY <1>2
          <6>q. QED BY <1>2, <5>1, <6>1, SaidBefore
        <5>q. QED BY <2>1, <3>7, <5>1, <5>2
      <4>q. QED BY <4>1, <4>2
    <3>q. QED BY <2>1, <2>3, <3>4, <3>7, <3>8
  <2>q. QED BY <2>7, <2>8
<1>q. QED BY <1>9, <1>10

LEMMA FileKeeps == ASSUME NumberInv, FileInv, SettingsInv, [Next]_libVars PROVE FileInv' /\ SettingsInv'
<1>1. CASE NextSkips \/ NextSetting BY <1>1, ReadOn
<1>2. CASE NextEnd BY <1>2, FileKept DEF NextEnd, AtEnd, prefsArgs
<1>3. CASE PrefsNext /\ ~(NextSkips \/ NextSetting \/ NextEnd)
  <2>1. UNCHANGED <<file, rest, settings>> /\ pc' # "eof"
    BY <1>3 DEF PrefsNext, OpenCheck, OpenDos, OpenFile, OpenFileFails, Close, Sign, TakeDigit, RefuseDigit, Finish,
               Answer, prefsArgs, fileVars
  <2>q. QED BY <2>1, FileKept
<1>4. CASE (TextNext \/ MoveNext) /\ UNCHANGED prefsVars
  <2>1. pc' # "eof" BY <1>4, TextStays, MoveStays DEF TextPlaces, MovePlaces
  <2>q. QED BY <1>4, <2>1, FileKept DEF prefsVars, prefsArgs, fileVars
<1>5. CASE UNCHANGED libVars BY <1>5, FileKept DEF libVars, prefsVars, prefsArgs, fileVars
<1>q. QED BY <1>1, <1>2, <1>3, <1>4, <1>5 DEF Next

LEMMA AllRead == ASSUME FileInv, SettingsInv PROVE SettingsExact
<1> SUFFICES ASSUME pc = "eof", Fit
             PROVE  /\ Len(settings) = Cardinality(Saying)
                    /\ \A l \in Saying : settings[Cardinality({k \in Saying : k[2] <= l[2]})] \in Sayings(l)
  BY DEF SettingsExact, Fit, Saying
<1>1. file \in Seq(Chars) /\ Consumed = Len(file) BY DEF FileInv, Consumed
<1>2. SaidUpTo(Consumed) = Saying BY <1>1, EndsAre DEF SaidUpTo, Saying
<1>q. QED BY <1>2 DEF SettingsInv, SaidUpTo

\* A loop of prefs_next() over a file whose lines fit its buffer hands out what the
\* file says, all of it and nothing else, in the file's order.
THEOREM SettingsCorrect == Spec => []SettingsExact
BY NumberStart, NumberKeeps, FileStart, FileKeeps, AllRead, PTL DEF Spec

-----------------------------------------------------------------------------
(* The loops over texts: from a place to the next until one where they stop.       *)

ScanRange(lo, hi, d, Stop) ==
    /\ lo \in Nat /\ hi \in Nat /\ d \in Nat /\ lo <= hi /\ d >= 1
    /\ \A i \in lo .. hi : i \notin Stop => i + d <= hi
IsScan(g, lo, hi, d, Stop, Val) == g = [i \in lo .. hi |-> IF i \in Stop THEN Val[i] ELSE g[i + d]]
FirstStop(j, lo, hi, Stop) ==
    lo \in Nat /\ hi \in Nat /\ j \in lo .. hi /\ j \in Stop /\ \A i \in lo .. j - 1 : i \notin Stop

\* The recursive definition has a value.
LEMMA ScanDefined ==
    ASSUME NEW lo, NEW hi, NEW d, NEW Stop, NEW Val, ScanRange(lo, hi, d, Stop)
    PROVE  \E g : IsScan(g, lo, hi, d, Stop, Val)
<1> USE DEF ScanRange, IsScan
<1> DEFINE E(g, k) == g = [i \in hi - k .. hi |-> IF i \in Stop THEN Val[i] ELSE g[i + d]]
           T == {k \in 0 .. hi - lo : ~ \E g : E(g, k)}
<1>1. T = {}
  <2> SUFFICES ASSUME T # {} PROVE FALSE OBVIOUS
  <2>1. T \subseteq Nat OBVIOUS
  <2>2. PICK k \in T : \A m \in T : k <= m BY <2>1, Smallest
  <2>3. CASE k = 0
    <3>1. hi \in Stop BY lo \in Nat, hi \in Nat, d \in Nat
    <3> DEFINE g == [i \in hi .. hi |-> Val[i]]
    <3>2. \A i \in hi .. hi : i \in Stop BY <3>1
    <3>3. g = [i \in hi .. hi |-> IF i \in Stop THEN Val[i] ELSE g[i + d]] BY <3>2, Zenon
    <3>4. hi - 0 = hi OBVIOUS
    <3>5. E(g, 0) BY <3>3, <3>4
    <3>q. QED BY <2>3, <3>5
  <2>4. CASE k # 0
    <3>1. k - 1 \in 0 .. hi - lo /\ k \in 0 .. hi - lo BY <2>4
    <3>2. k - 1 \notin T
      <4> HIDE DEF T
      <4>1. k - 1 \in T => k <= k - 1 BY <2>2, Zenon
      <4>q. QED BY <3>1, <4>1
    <3>3. PICK g : E(g, k - 1) BY <3>1, <3>2
    <3> DEFINE b == hi - k
               h == [i \in b .. hi |-> IF i # b THEN g[i] ELSE IF b \in Stop THEN Val[b] ELSE g[b + d]]
    <3>4. b \in lo .. hi /\ hi - (k - 1) = b + 1 /\ b \in Nat BY <3>1
    <3> HIDE DEF b
    <3>5. g = [i \in b + 1 .. hi |-> IF i \in Stop THEN Val[i] ELSE g[i + d]] BY <3>3, <3>4
    <3>6. ASSUME NEW i \in b .. hi PROVE h[i] = IF i \in Stop THEN Val[i] ELSE h[i + d]
      <4>1. i \notin Stop => i + d \in b + 1 .. hi /\ i + d # b /\ i + d \in b .. hi BY <3>4
      <4>2. i \notin Stop => h[i + d] = g[i + d] BY <4>1
      <4>3. CASE i = b
        <5>1. h[b] = IF b \in Stop THEN Val[b] ELSE g[b + d] BY <3>4
        <5>q. QED BY <4>2, <4>3, <5>1
      <4>4. CASE i # b
        <5>1. h[i] = g[i] /\ i \in b + 1 .. hi BY <3>4, <4>4
        <5>2. g[i] = IF i \in Stop THEN Val[i] ELSE g[i + d] BY <3>5, <5>1
        <5>q. QED BY <4>2, <5>1, <5>2
      <4>q. QED BY <4>3, <4>4
    <3>7. h = [i \in b .. hi |-> h[i]] OBVIOUS
    <3> HIDE DEF h
    <3>8. h = [i \in b .. hi |-> IF i \in Stop THEN Val[i] ELSE h[i + d]] BY <3>6, <3>7, Zenon
    <3>9. E(h, k) BY <3>8, Zenon DEF b
    <3>q. QED BY <2>2, <3>9
  <2>q. QED BY <2>3, <2>4
<1>2. hi - lo \in 0 .. hi - lo /\ hi - (hi - lo) = lo OBVIOUS
<1>3. \E g : E(g, hi - lo) BY <1>1, <1>2
<1>q. QED BY <1>2, <1>3

\* It is that of the first place where they stop.
LEMMA ScanValue ==
    ASSUME NEW lo, NEW hi, NEW Stop, NEW Val, NEW g, NEW j,
           IsScan(g, lo, hi, 1, Stop, Val), FirstStop(j, lo, hi, Stop)
    PROVE  g[lo] = Val[j]
<1> USE DEF FirstStop
<1>0. \A i \in lo .. hi : g[i] = IF i \in Stop THEN Val[i] ELSE g[i + 1] BY DEF IsScan
<1> DEFINE T == {i \in lo .. j : g[i] # g[lo]}
<1>1. T = {}
  <2> SUFFICES ASSUME T # {} PROVE FALSE OBVIOUS
  <2>1. T \subseteq Nat OBVIOUS
  <2>2. PICK k \in T : \A m \in T : k <= m BY <2>1, Smallest
  <2>3. k # lo /\ k - 1 \in lo .. j - 1 /\ k - 1 \in lo .. j /\ k - 1 \in lo .. hi /\ (k - 1) + 1 = k BY <2>2
  <2>4. g[k - 1] = g[lo] BY <2>2, <2>3
  <2>5. g[k - 1] = g[k] BY <1>0, <2>3
  <2>q. QED BY <2>2, <2>4, <2>5
<1>2. j \in lo .. j OBVIOUS
<1>3. g[j] = g[lo] BY <1>1, <1>2
<1>q. QED BY <1>0, <1>3

-----------------------------------------------------------------------------
(* strcmp(), strncmp(), Stricmp() and Strnicmp() *)

\* What they see at a place of a string: nothing behind its end or the limit.
SeenAt(s, anyCase, limit, i) ==
    IF i > limit THEN 0 ELSE IF anyCase THEN Upper(At(s, i)) ELSE At(s, i)
StopsAt(s, t, anyCase, limit) ==
    {i \in Nat : \/ SeenAt(s, anyCase, limit, i) # SeenAt(t, anyCase, limit, i)
                 \/ SeenAt(s, anyCase, limit, i) = 0}

LEMMA SeenIs ==
    ASSUME NEW s \in Seq(1 .. 255), NEW anyCase \in BOOLEAN, NEW limit \in Int, NEW i \in Nat, i >= 1
    PROVE  /\ SeenAt(s, anyCase, limit, i) \in Nat
           /\ SeenAt(s, anyCase, limit, i) = 0 <=> (i > limit \/ i > Len(s))
<1> DEFINE c == At(s, i)
<1>1. c \in 0 .. 255 /\ ((c = 0) <=> (i > Len(s)))
  <2>1. CASE i <= Len(s)
    <3>1. i \in DOMAIN s /\ s[i] \in 1 .. 255 BY <2>1
    <3>2. c = s[i] BY <2>1 DEF At
    <3>3. ~(i > Len(s)) BY <2>1
    <3> HIDE DEF c
    <3>4. c \in 1 .. 255 BY <3>1, <3>2, Zenon
    <3>5. c \in 0 .. 255 /\ c # 0 BY <3>4
    <3>q. QED BY <3>3, <3>5, Zenon
  <2>2. CASE ~(i <= Len(s)) BY <2>2 DEF At
  <2>q. QED BY <2>1, <2>2
<1> HIDE DEF c
<1>2. (Upper(c) = 0) <=> (c = 0) BY <1>1 DEF Upper
<1>7. Upper(c) \in Nat BY <1>1 DEF Upper
<1>3. SeenAt(s, anyCase, limit, i) = IF i > limit THEN 0 ELSE IF anyCase THEN Upper(c) ELSE c BY DEF SeenAt, c
<1>4. CASE i > limit BY <1>3, <1>4
<1>5. CASE ~(i > limit) /\ anyCase
  <2>1. SeenAt(s, anyCase, limit, i) = Upper(c) BY <1>3, <1>5, Zenon
  <2>q. QED BY <1>1, <1>2, <1>5, <1>7, <2>1, Zenon
<1>6. CASE ~(i > limit) /\ ~anyCase BY <1>1, <1>3, <1>6
<1>q. QED BY <1>4, <1>5, <1>6

EndsAt(s, t, anyCase, limit, j) ==
    /\ j \in StopsAt(s, t, anyCase, limit)
    /\ \A i \in 1 .. j - 1 : i \notin StopsAt(s, t, anyCase, limit)
    /\ Compared(s, t, anyCase, limit) = SeenAt(s, anyCase, limit, j) - SeenAt(t, anyCase, limit, j)

LEMMA ComparedIs ==
    ASSUME NEW s \in Seq(1 .. 255), NEW t \in Seq(1 .. 255), NEW anyCase \in BOOLEAN, NEW limit \in Int
    PROVE  \E j \in 1 .. Len(s) + 1 : EndsAt(s, t, anyCase, limit, j)
<1> DEFINE u(i) == SeenAt(s, anyCase, limit, i)
           v(i) == SeenAt(t, anyCase, limit, i)
           Stop == StopsAt(s, t, anyCase, limit)
           hi == Len(s) + 2
           Val == [i \in 1 .. hi |-> u(i) - v(i)]
           code(c) == IF anyCase THEN Upper(c) ELSE c
           E(g) == g = [i \in 1 .. hi |-> IF i > limit THEN 0
                                          ELSE IF code(At(s, i)) # code(At(t, i)) THEN code(At(s, i)) - code(At(t, i))
                                          ELSE IF code(At(s, i)) = 0 THEN 0 ELSE g[i + 1]]
           G(g) == IsScan(g, 1, hi, 1, Stop, Val)
<1>1. hi \in Nat /\ 1 <= hi /\ Len(s) \in Nat OBVIOUS
<1>2. \A i \in 1 .. hi : i \in Nat /\ i >= 1 /\ u(i) \in Nat /\ v(i) \in Nat /\ (i \in Stop <=> u(i) # v(i) \/ u(i) = 0)
  <2> SUFFICES ASSUME NEW i \in 1 .. hi
               PROVE  i \in Nat /\ i >= 1 /\ u(i) \in Nat /\ v(i) \in Nat /\ (i \in Stop <=> u(i) # v(i) \/ u(i) = 0)
    OBVIOUS
  <2>1. i \in Nat /\ i >= 1 OBVIOUS
  <2>2. u(i) \in Nat /\ v(i) \in Nat BY <2>1, SeenIs
  <2>q. QED BY <2>1, <2>2 DEF StopsAt
<1>3. \A i \in 1 .. hi : i > Len(s) => i \in Stop
  <2> SUFFICES ASSUME NEW i \in 1 .. hi, i > Len(s) PROVE i \in Stop OBVIOUS
  <2>1. i \in Nat /\ i >= 1 OBVIOUS
  <2>2. u(i) = 0 BY <2>1, SeenIs
  <2>q. QED BY <1>2, <2>2
<1>4. ASSUME NEW g, NEW i \in 1 .. hi
      PROVE  (IF i > limit THEN 0
              ELSE IF code(At(s, i)) # code(At(t, i)) THEN code(At(s, i)) - code(At(t, i))
              ELSE IF code(At(s, i)) = 0 THEN 0 ELSE g[i + 1])
             = (IF i \in Stop THEN Val[i] ELSE g[i + 1])
  <2>1. CASE i > limit
    <3>1. u(i) = 0 /\ v(i) = 0 BY <2>1 DEF SeenAt
    <3>2. i \in Stop /\ Val[i] = 0 BY <1>2, <3>1
    <3>q. QED BY <2>1, <3>2
  <2>2. CASE ~(i > limit)
    <3>1. u(i) = code(At(s, i)) /\ v(i) = code(At(t, i)) BY <2>2 DEF SeenAt
    <3>2. Val[i] = u(i) - v(i) /\ u(i) \in Nat /\ v(i) \in Nat /\ (i \in Stop <=> u(i) # v(i) \/ u(i) = 0) BY <1>2
    <3> HIDE DEF u, v, Val, Stop, code
    <3>q. QED BY <2>2, <3>1, <3>2
  <2>q. QED BY <2>1, <2>2
<1>5. Compared(s, t, anyCase, limit) = (CHOOSE g : E(g))[1] BY Zenon DEF Compared
<1> HIDE DEF u, v, Val, Stop, code
<1>6. \A g : E(g) <=> G(g) BY <1>4, ZenonT(30) DEF IsScan
<1>7. \E g : G(g)
  <2>1. \A i \in 1 .. hi : i \notin Stop => i + 1 <= hi BY <1>1, <1>3
  <2>2. ScanRange(1, hi, 1, Stop) BY <1>1, <2>1 DEF ScanRange
  <2> HIDE DEF hi
  <2>q. QED BY <2>2, ScanDefined, Zenon
<1>8. PICK g : G(g) /\ Compared(s, t, anyCase, limit) = g[1]
  <2>1. \E g : E(g) BY <1>6, <1>7, Zenon
  <2>2. E(CHOOSE g : E(g)) BY <2>1, Zenon
  <2>q. QED BY <1>5, <1>6, <2>2, Zenon
<1>10. PICK j \in Stop \cap (1 .. hi) : \A k \in Stop \cap (1 .. hi) : j <= k
  <2>1. Stop \cap (1 .. hi) \subseteq Nat OBVIOUS
  <2>2. Len(s) + 1 \in Stop \cap (1 .. hi) BY <1>1, <1>3
  <2>q. QED BY <2>1, <2>2, Smallest
<1>11. j \in 1 .. Len(s) + 1 /\ \A i \in 1 .. j - 1 : i \notin Stop
  <2>1. Len(s) + 1 \in Stop \cap (1 .. hi) BY <1>1, <1>3
  <2>2. j \in 1 .. Len(s) + 1 BY <1>1, <1>10, <2>1
  <2>q. QED BY <1>1, <1>10, <2>2
<1>12. g[1] = Val[j]
  <2>1. FirstStop(j, 1, hi, Stop) BY <1>1, <1>10, <1>11 DEF FirstStop
  <2> HIDE DEF hi
  <2>2. IsScan(g, 1, hi, 1, Stop, Val) BY <1>8
  <2>q. QED BY <2>1, <2>2, ScanValue
<1>13. Val[j] = u(j) - v(j) BY <1>10 DEF Val
<1>q. QED BY <1>8, <1>10, <1>11, <1>12, <1>13 DEF u, v, Stop, EndsAt

\* The order of two texts is that of the first place where they are not the same.
Lower(u, v, j) == j <= Len(v) /\ (j > Len(u) \/ u[j] < v[j])
Parts(u, v, j) ==
    /\ j \in Nat /\ j >= 1
    /\ \A i \in 1 .. j - 1 : i <= Len(u) /\ i <= Len(v) /\ u[i] = v[i]
    /\ j <= Len(u) /\ j <= Len(v) => u[j] # v[j]

LEMMA PartsBoth == ASSUME NEW u, NEW v, NEW j, Parts(u, v, j) PROVE Parts(v, u, j)
BY DEF Parts

LEMMA CutIs ==
    ASSUME NEW S, NEW u \in Seq(S), NEW k \in Nat, k <= Len(u)
    PROVE  Cut(u, k) \in Seq(S) /\ Len(Cut(u, k)) = k /\ \A i \in 1 .. k : Cut(u, k)[i] = u[i]
<1>1. Cut(u, k) = SubSeq(u, 1, k) BY DEF Cut
<1>q. QED BY <1>1

LEMMA PrecedesIs ==
    ASSUME NEW u \in Seq(Nat), NEW v \in Seq(Nat), NEW j, Parts(u, v, j)
    PROVE  Precedes(u, v) <=> Lower(u, v, j)
<1> USE DEF Parts
<1>1. j \in Nat /\ j >= 1 /\ Len(u) \in Nat /\ Len(v) \in Nat OBVIOUS
<1>2. ASSUME Lower(u, v, j) PROVE Precedes(u, v)
  <2> DEFINE k == j - 1
             x == Cut(u, k)
             y == Cut(v, k)
  <2>1. k \in 0 .. Len(u) /\ k < Len(v) /\ k \in Nat /\ k <= Len(u) /\ k <= Len(v) /\ k + 1 = j
    <3>1. k <= Len(v) /\ k < Len(v) BY <1>1, <1>2 DEF Lower
    <3>2. k <= Len(u)
      <4>1. CASE k = 0 BY <1>1, <4>1
      <4>2. CASE k # 0
        <5>1. k \in 1 .. j - 1 BY <1>1, <4>2
        <5>q. QED BY <5>1
      <4>q. QED BY <4>1, <4>2
    <3>q. QED BY <1>1, <3>1, <3>2
  <2>2. /\ x \in Seq(Nat) /\ Len(x) = k /\ \A i \in 1 .. k : x[i] = u[i]
        /\ y \in Seq(Nat) /\ Len(y) = k /\ \A i \in 1 .. k : y[i] = v[i]
    BY <2>1, CutIs
  <2>3. \A i \in 1 .. k : x[i] = y[i] BY <2>2
  <2>4. k = Len(u) \/ u[k + 1] < v[k + 1] BY <1>1, <1>2, <2>1 DEF Lower
  <2> HIDE DEF x, y, k
  <2>5. x = [i \in 1 .. k |-> x[i]] /\ y = [i \in 1 .. k |-> y[i]] BY <2>2
  <2>6. [i \in 1 .. k |-> x[i]] = [i \in 1 .. k |-> y[i]] BY <2>3, Zenon
  <2>7. x = y BY <2>5, <2>6, Zenon
  <2>q. QED BY <2>1, <2>4, <2>7 DEF Precedes, x, y
<1>3. ASSUME Precedes(u, v) PROVE Lower(u, v, j)
  <2>1. PICK k \in 0 .. Len(u) : k < Len(v) /\ Cut(u, k) = Cut(v, k) /\ (k = Len(u) \/ u[k + 1] < v[k + 1])
    BY <1>3 DEF Precedes
  <2>2. k \in Nat /\ k <= Len(u) /\ k <= Len(v) BY <1>1, <2>1
  <2>3. ASSUME NEW i \in 1 .. k PROVE u[i] = v[i]
    <3>1. Cut(u, k)[i] = u[i] /\ Cut(v, k)[i] = v[i] BY <2>2, CutIs
    <3>q. QED BY <2>1, <3>1, Zenon
  <2>4. ~(k + 1 < j)
    <3> SUFFICES ASSUME k + 1 < j PROVE FALSE OBVIOUS
    <3>1. k + 1 \in 1 .. j - 1 BY <1>1, <2>2
    <3>2. k + 1 <= Len(u) /\ k + 1 <= Len(v) /\ u[k + 1] = v[k + 1] BY <3>1
    <3>3. k # Len(u) BY <1>1, <2>2, <3>2
    <3>4. u[k + 1] < v[k + 1] BY <2>1, <3>3
    <3>5. v[k + 1] \in Nat
      <4>1. k + 1 \in DOMAIN v BY <1>1, <2>2, <3>2
      <4>q. QED BY <4>1
    <3>q. QED BY <3>2, <3>4, <3>5
  <2>5. ~(j <= k)
    <3> SUFFICES ASSUME j <= k PROVE FALSE OBVIOUS
    <3>1. j \in 1 .. k /\ j <= Len(u) /\ j <= Len(v) BY <1>1, <2>2
    <3>q. QED BY <2>3, <3>1
  <2>6. k + 1 = j BY <1>1, <2>2, <2>4, <2>5
  <2>q. QED BY <1>1, <2>1, <2>2, <2>6 DEF Lower
<1>q. QED BY <1>2, <1>3

LEMMA OrderedBy ==
    ASSUME NEW u \in Seq(Nat), NEW v \in Seq(Nat), NEW j, NEW r, Parts(u, v, j),
           r < 0 <=> Lower(u, v, j), r > 0 <=> Lower(v, u, j)
    PROVE  InOrder(r, u, v)
<1>1. Precedes(u, v) <=> Lower(u, v, j) BY PrecedesIs
<1>2. Parts(v, u, j) BY PartsBoth
<1>3. Precedes(v, u) <=> Lower(v, u, j) BY <1>2, PrecedesIs
<1>q. QED BY <1>1, <1>3, Zenon DEF InOrder

\* A text that is what a comparison sees of a string, as far as it looks.
Views(u, s, anyCase, limit, m) ==
    /\ u \in Seq(Nat)
    /\ \A i \in 1 .. m : /\ (i <= Len(u)) <=> (SeenAt(s, anyCase, limit, i) # 0)
                         /\ i <= Len(u) => u[i] = SeenAt(s, anyCase, limit, i)

Viewed(s, t, anyCase, limit, u, v) ==
    /\ s \in Seq(1 .. 255) /\ t \in Seq(1 .. 255) /\ anyCase \in BOOLEAN /\ limit \in Int
    /\ Views(u, s, anyCase, limit, Len(s) + 1) /\ Views(v, t, anyCase, limit, Len(s) + 1)

LEMMA ComparedOrders ==
    ASSUME NEW s, NEW t, NEW anyCase, NEW limit, NEW u, NEW v, Viewed(s, t, anyCase, limit, u, v)
    PROVE  InOrder(Compared(s, t, anyCase, limit), u, v) /\ (Compared(s, t, anyCase, limit) = 0 <=> u = v)
<1> DEFINE a(i) == SeenAt(s, anyCase, limit, i)
           b(i) == SeenAt(t, anyCase, limit, i)
           r == Compared(s, t, anyCase, limit)
<1> USE DEF Viewed
<1>0. PICK j \in 1 .. Len(s) + 1 : EndsAt(s, t, anyCase, limit, j) BY ComparedIs
<1>1. /\ j \in 1 .. Len(s) + 1 /\ j \in StopsAt(s, t, anyCase, limit)
      /\ \A i \in 1 .. j - 1 : i \notin StopsAt(s, t, anyCase, limit)
      /\ r = a(j) - b(j)
  BY <1>0 DEF EndsAt
<1>2. u \in Seq(Nat) /\ v \in Seq(Nat) /\ Len(u) \in Nat /\ Len(v) \in Nat /\ Len(s) \in Nat BY DEF Views
<1>3. \A i \in 1 .. Len(s) + 1 : /\ (i <= Len(u) <=> a(i) # 0) /\ (i <= Len(u) => u[i] = a(i))
                                 /\ (i <= Len(v) <=> b(i) # 0) /\ (i <= Len(v) => v[i] = b(i))
  BY DEF Views
<1>4. a(j) # b(j) \/ a(j) = 0 BY <1>1 DEF StopsAt
<1>5. ASSUME NEW i \in 1 .. j - 1 PROVE a(i) = b(i) /\ a(i) # 0
  <2>1. i \notin StopsAt(s, t, anyCase, limit) /\ i \in Nat BY <1>1
  <2>q. QED BY <2>1 DEF StopsAt
<1>6. a(j) \in Nat /\ b(j) \in Nat
  <2>1. j \in Nat /\ j >= 1 BY <1>1, <1>2
  <2>q. QED BY <2>1, SeenIs
<1> HIDE DEF a, b, r
<1>7. Parts(u, v, j)
  <2>1. j \in Nat /\ j >= 1 BY <1>1, <1>2
  <2>2. ASSUME NEW i \in 1 .. j - 1 PROVE i <= Len(u) /\ i <= Len(v) /\ u[i] = v[i]
    <3>1. i \in 1 .. Len(s) + 1 BY <1>1, <1>2
    <3>q. QED BY <1>3, <1>5, <3>1
  <2>3. j <= Len(u) /\ j <= Len(v) => u[j] # v[j] BY <1>1, <1>3, <1>4
  <2>q. QED BY <2>1, <2>2, <2>3 DEF Parts
<1>8. Lower(u, v, j) <=> a(j) < b(j)
  <2>0. j \in Nat /\ (j <= Len(u) <=> a(j) # 0) /\ (j <= Len(u) => u[j] = a(j))
        /\ (j <= Len(v) <=> b(j) # 0) /\ (j <= Len(v) => v[j] = b(j))
    BY <1>1, <1>2, <1>3
  <2>1. CASE a(j) = 0 BY <1>2, <1>6, <2>0, <2>1 DEF Lower
  <2>2. CASE a(j) # 0
    <3>1. j <= Len(u) /\ ~(j > Len(u)) /\ u[j] = a(j) BY <1>2, <2>0, <2>2
    <3>2. CASE b(j) = 0 BY <1>2, <1>6, <2>0, <3>1, <3>2 DEF Lower
    <3>3. CASE b(j) # 0
      <4>1. j <= Len(v) /\ v[j] = b(j) BY <2>0, <3>3
      <4>q. QED BY <3>1, <4>1 DEF Lower
    <3>q. QED BY <3>2, <3>3
  <2>q. QED BY <2>1, <2>2
<1>9. Lower(v, u, j) <=> b(j) < a(j)
  <2>0. j \in Nat /\ (j <= Len(u) <=> a(j) # 0) /\ (j <= Len(u) => u[j] = a(j))
        /\ (j <= Len(v) <=> b(j) # 0) /\ (j <= Len(v) => v[j] = b(j))
    BY <1>1, <1>2, <1>3
  <2>1. CASE b(j) = 0 BY <1>2, <1>6, <2>0, <2>1 DEF Lower
  <2>2. CASE b(j) # 0
    <3>1. j <= Len(v) /\ ~(j > Len(v)) /\ v[j] = b(j) BY <1>2, <2>0, <2>2
    <3>2. CASE a(j) = 0 BY <1>2, <1>6, <2>0, <3>1, <3>2 DEF Lower
    <3>3. CASE a(j) # 0
      <4>1. j <= Len(u) /\ u[j] = a(j) BY <2>0, <3>3
      <4>q. QED BY <3>1, <4>1 DEF Lower
    <3>q. QED BY <3>2, <3>3
  <2>q. QED BY <2>1, <2>2
<1>10. (r < 0 <=> Lower(u, v, j)) /\ (r > 0 <=> Lower(v, u, j)) BY <1>1, <1>6, <1>8, <1>9
<1>11. InOrder(r, u, v) BY <1>2, <1>7, <1>10, OrderedBy
<1>12. ASSUME r = 0 PROVE u = v
  <2>1. a(j) = 0 /\ b(j) = 0 BY <1>1, <1>4, <1>6, <1>12
  <2>2. Len(u) = j - 1 /\ Len(v) = j - 1
    <3>1. ~(j <= Len(u)) /\ ~(j <= Len(v)) BY <1>1, <1>3, <2>1
    <3>2. j - 1 <= Len(u) /\ j - 1 <= Len(v)
      <4>1. CASE j = 1 BY <1>2, <4>1
      <4>2. CASE j # 1
        <5>1. j - 1 \in 1 .. j - 1 BY <1>1, <1>2, <4>2
        <5>q. QED BY <1>7, <5>1 DEF Parts
      <4>q. QED BY <4>1, <4>2
    <3>q. QED BY <1>1, <1>2, <3>1, <3>2
  <2>3. \A i \in 1 .. j - 1 : u[i] = v[i] BY <1>7 DEF Parts
  <2>4. u = [i \in 1 .. j - 1 |-> u[i]] /\ v = [i \in 1 .. j - 1 |-> v[i]] BY <1>2, <2>2
  <2>5. [i \in 1 .. j - 1 |-> u[i]] = [i \in 1 .. j - 1 |-> v[i]] BY <2>3, Zenon
  <2>q. QED BY <2>4, <2>5, Zenon
<1>13. ASSUME u = v PROVE r = 0
  <2>1. a(j) = b(j)
    <3>1. CASE j <= Len(u) BY <1>1, <1>3, <1>13, <3>1
    <3>2. CASE ~(j <= Len(u)) BY <1>1, <1>3, <1>13, <3>2
    <3>q. QED BY <3>1, <3>2
  <2>q. QED BY <1>1, <1>6, <2>1
<1>q. QED BY <1>11, <1>12, <1>13 DEF r

LEMMA ItemIs == ASSUME NEW S, NEW s \in Seq(S), NEW i \in 1 .. Len(s) PROVE s[i] \in S
OBVIOUS
LEMMA Widened ==
    ASSUME NEW S, NEW s \in Seq(S), NEW R, S \subseteq R PROVE s \in Seq(R)
OBVIOUS
LEMMA BytesNat == ASSUME NEW s \in Seq(1 .. 255) PROVE s \in Seq(Nat)
<1>1. 1 .. 255 \subseteq Nat OBVIOUS
<1>q. QED BY <1>1, Widened, Zenon

LEMMA FoldedIs ==
    ASSUME NEW s \in Seq(1 .. 255)
    PROVE  Folded(s) \in Seq(Nat) /\ Len(Folded(s)) = Len(s) /\ \A i \in 1 .. Len(s) : Folded(s)[i] = Upper(s[i])
<1>1. Folded(s) = [i \in 1 .. Len(s) |-> Upper(s[i])] BY DEF Folded
<1>2. \A i \in 1 .. Len(s) : Upper(s[i]) \in Nat
  <2> SUFFICES ASSUME NEW i \in 1 .. Len(s) PROVE Upper(s[i]) \in Nat OBVIOUS
  <2>1. s[i] \in 1 .. 255 BY ItemIs, Zenon
  <2> DEFINE c == s[i]
  <2> HIDE DEF c
  <2>2. c \in 1 .. 255 => Upper(c) \in Nat BY DEF Upper
  <2>q. QED BY <2>1, <2>2 DEF c
<1>q. QED BY <1>1, <1>2

\* Without a limit, a text as a whole.
LEMMA ViewWhole ==
    ASSUME NEW s \in Seq(1 .. 255), NEW anyCase \in BOOLEAN, NEW m \in Nat
    PROVE  Views(IF anyCase THEN Folded(s) ELSE s, s, anyCase, m, m)
<1> DEFINE u == IF anyCase THEN Folded(s) ELSE s
<1>1. u \in Seq(Nat) /\ Len(u) = Len(s) /\ \A i \in 1 .. Len(s) : u[i] = IF anyCase THEN Upper(s[i]) ELSE s[i]
  <2>1. CASE anyCase BY <2>1, FoldedIs
  <2>2. CASE ~anyCase
    <3>1. u = s BY <2>2
    <3>2. s \in Seq(Nat) BY BytesNat, Zenon
    <3>q. QED BY <2>2, <3>1, <3>2, Zenon
  <2>q. QED BY <2>1, <2>2
<1> HIDE DEF u
<1>2. ASSUME NEW i \in 1 .. m
      PROVE  /\ (i <= Len(u)) <=> (SeenAt(s, anyCase, m, i) # 0)
             /\ i <= Len(u) => u[i] = SeenAt(s, anyCase, m, i)
  <2>1. i \in Nat /\ i >= 1 /\ ~(i > m) /\ m \in Int OBVIOUS
  <2>2. SeenAt(s, anyCase, m, i) = 0 <=> i > Len(s) BY <2>1, SeenIs
  <2>3. ASSUME i <= Len(s) PROVE u[i] = SeenAt(s, anyCase, m, i)
    <3>1. i \in 1 .. Len(s) /\ At(s, i) = s[i] BY <2>1, <2>3 DEF At
    <3>q. QED BY <1>1, <2>1, <3>1 DEF SeenAt
  <2>q. QED BY <1>1, <2>1, <2>2, <2>3
<1>q. QED BY <1>1, <1>2 DEF Views, u

\* With one, as far as it goes.
LEMMA ViewCut ==
    ASSUME NEW s \in Seq(1 .. 255), NEW anyCase \in BOOLEAN, NEW limit \in Nat, NEW m \in Nat
    PROVE  Views(IF anyCase THEN Folded(Cut(s, limit)) ELSE Cut(s, limit), s, anyCase, limit, m)
<1> DEFINE c == Cut(s, limit)
           n0 == IF limit < Len(s) THEN limit ELSE Len(s)
           u == IF anyCase THEN Folded(c) ELSE c
<1>1. c \in Seq(1 .. 255) /\ Len(c) = n0 /\ \A i \in 1 .. n0 : c[i] = s[i] 
  <2> DEFINE S == 1 .. 255
  <2>1. s \in Seq(S) OBVIOUS
  <2> HIDE DEF S
  <2>2. n0 \in 0 .. Len(s) BY <2>1
  <2>3. c = SubSeq(s, 1, n0) BY DEF Cut
  <2>4. c \in Seq(S) /\ Len(c) = n0 /\ \A i \in 1 .. n0 : c[i] = s[i] BY <2>1, <2>2, <2>3
  <2>q. QED BY <2>4 DEF S
<1> HIDE DEF c
<1>2. u \in Seq(Nat) /\ Len(u) = n0 /\ \A i \in 1 .. n0 : u[i] = IF anyCase THEN Upper(s[i]) ELSE s[i]
  <2>1. CASE anyCase BY <1>1, <2>1, FoldedIs
  <2>2. CASE ~anyCase
    <3>1. u = c BY <2>2
    <3>2. c \in Seq(Nat) BY <1>1, BytesNat, Zenon
    <3>q. QED BY <1>1, <2>2, <3>1, <3>2, Zenon
  <2>q. QED BY <2>1, <2>2
<1> HIDE DEF u
<1>3. ASSUME NEW i \in 1 .. m
      PROVE  /\ (i <= Len(u)) <=> (SeenAt(s, anyCase, limit, i) # 0)
             /\ i <= Len(u) => u[i] = SeenAt(s, anyCase, limit, i)
  <2>1. i \in Nat /\ i >= 1 /\ limit \in Int /\ Len(s) \in Nat OBVIOUS
  <2>2. SeenAt(s, anyCase, limit, i) = 0 <=> (i > limit \/ i > Len(s)) BY <2>1, SeenIs
  <2>3. i <= n0 <=> ~(i > limit \/ i > Len(s)) BY <2>1
  <2>4. ASSUME i <= n0 PROVE u[i] = SeenAt(s, anyCase, limit, i)
    <3>1. i \in 1 .. n0 /\ At(s, i) = s[i] /\ ~(i > limit) BY <2>1, <2>3, <2>4 DEF At
    <3>2. u[i] = IF anyCase THEN Upper(s[i]) ELSE s[i] BY <1>2, <3>1
    <3>q. QED BY <3>1, <3>2, Zenon DEF SeenAt
  <2>q. QED BY <1>2, <2>2, <2>3, <2>4
<1>q. QED BY <1>2, <1>3 DEF Views, u, c

-----------------------------------------------------------------------------
(* memcmp() *)

IsLongs(g, a, b, size) == g = [i \in 0 .. size |-> IF LongsEqual(a, b, i, size) THEN g[i + 4] ELSE i]

\* Where the longs end, all before is equal.
LEMMA LongsAre ==
    ASSUME NEW a, NEW b, NEW size \in Nat, NEW g, IsLongs(g, a, b, size)
    PROVE  g[0] \in 0 .. size /\ \A i \in 1 .. g[0] : a[i] = b[i]
<1> USE DEF IsLongs
<1> DEFINE Same(k) == \A i \in 1 .. k : a[i] = b[i]
           Bad(k) == ~(g[k] \in 0 .. size /\ \A i \in 1 .. g[k] : a[i] = b[i])
           T == {k \in 0 .. size : Same(size - k) /\ Bad(size - k)}
<1>1. T = {}
  <2> SUFFICES ASSUME T # {} PROVE FALSE OBVIOUS
  <2>1. T \subseteq Nat OBVIOUS
  <2>2. PICK k \in T : \A m \in T : k <= m BY <2>1, Smallest
  <2> DEFINE i == size - k
  <2>3. i \in 0 .. size /\ Same(i) /\ Bad(i) /\ k \in 0 .. size
    <3> HIDE DEF Same, Bad
    <3>1. k \in 0 .. size /\ Same(size - k) /\ Bad(size - k) BY <2>2
    <3>q. QED BY <3>1
  <2>4. CASE ~LongsEqual(a, b, i, size)
    <3>1. g[i] = i BY <2>3, <2>4
    <3>q. QED BY <2>3, <3>1
  <2>5. CASE LongsEqual(a, b, i, size)
    <3>1. g[i] = g[i + 4] BY <2>3, <2>5
    <3>2. size - i >= 4 /\ \A m \in i + 1 .. i + 4 : a[m] = b[m] BY <2>5 DEF LongsEqual
    <3>3. k - 4 \in 0 .. size /\ size - (k - 4) = i + 4 /\ ~(k <= k - 4) BY <2>3, <3>2
    <3>4. Same(i + 4)
      <4> SUFFICES ASSUME NEW m \in 1 .. i + 4 PROVE a[m] = b[m] OBVIOUS
      <4>1. m \in 1 .. i \/ m \in i + 1 .. i + 4 BY <2>3
      <4>q. QED BY <2>3, <3>2, <4>1
    <3>5. Bad(i + 4) BY <2>3, <3>1
    <3>6. k - 4 \in T BY <3>3, <3>4, <3>5
    <3> HIDE DEF T
    <3>q. QED BY <2>2, <3>3, <3>6
  <2>q. QED BY <2>4, <2>5
<1>2. size \in 0 .. size /\ size - size = 0 /\ Same(0) OBVIOUS
<1>3. ~Bad(0)
  <2> HIDE DEF Same, Bad
  <2>1. ~(Same(size - size) /\ Bad(size - size)) BY <1>1, <1>2
  <2>q. QED BY <1>2, <2>1
<1>q. QED BY <1>3

\* Then the first byte that differs decides, from wherever the bytes begin.
DiffersAt(a, b, k, size) ==
    {i \in k .. size : i = size \/ a[i + 1] # b[i + 1]}

BytesEnd(a, b, size, aligned, j) ==
    /\ \A i \in 1 .. j : a[i] = b[i]
    /\ j # size => a[j + 1] # b[j + 1]
    /\ memcmp(a, b, size, aligned) = IF j = size THEN 0 ELSE a[j + 1] - b[j + 1]

LEMMA MemcmpIs ==
    ASSUME NEW a, NEW b, NEW size \in Nat, NEW aligned \in BOOLEAN
    PROVE  \E j \in 0 .. size : BytesEnd(a, b, size, aligned, j)
<1> DEFINE E(g) == g = [i \in 0 .. size |-> IF LongsEqual(a, b, i, size) THEN g[i + 4] ELSE i]
           F(g) == g = [i \in 0 .. size |-> IF i = size THEN 0
                                            ELSE IF a[i + 1] # b[i + 1] THEN a[i + 1] - b[i + 1] ELSE g[i + 1]]
           longs == CHOOSE g : E(g)
           bytes == CHOOSE g : F(g)
           LStop == {i \in 0 .. size : ~LongsEqual(a, b, i, size)}
           LVal == [i \in 0 .. size |-> i]
           BStop == DiffersAt(a, b, 0, size)
           BVal == [i \in 0 .. size |-> IF i = size THEN 0 ELSE a[i + 1] - b[i + 1]]
<1>1. memcmp(a, b, size, aligned) = bytes[IF aligned THEN longs[0] ELSE 0] BY Zenon DEF memcmp
<1>2. E(longs)
  <2>1. ScanRange(0, size, 4, LStop) BY DEF ScanRange, LongsEqual
  <2>2. PICK g : IsScan(g, 0, size, 4, LStop, LVal)
    <3> HIDE DEF LStop, LVal
    <3>q. QED BY <2>1, ScanDefined, Zenon
  <2>3. ASSUME NEW i \in 0 .. size
        PROVE  (IF i \in LStop THEN LVal[i] ELSE g[i + 4]) = (IF LongsEqual(a, b, i, size) THEN g[i + 4] ELSE i)
    OBVIOUS
  <2> HIDE DEF LStop, LVal
  <2>4. E(g) BY <2>2, <2>3, Zenon DEF IsScan
  <2>q. QED BY <2>4, Zenon
<1>3. F(bytes) /\ IsScan(bytes, 0, size, 1, BStop, BVal)
  <2>1. ScanRange(0, size, 1, BStop) BY DEF ScanRange, DiffersAt
  <2>2. PICK g : IsScan(g, 0, size, 1, BStop, BVal)
    <3> HIDE DEF BStop, BVal
    <3>q. QED BY <2>1, ScanDefined, Zenon
  <2>3. ASSUME NEW h, NEW i \in 0 .. size
        PROVE  (IF i \in BStop THEN BVal[i] ELSE h[i + 1])
               = (IF i = size THEN 0 ELSE IF a[i + 1] # b[i + 1] THEN a[i + 1] - b[i + 1] ELSE h[i + 1])
    BY DEF DiffersAt
  <2> HIDE DEF BStop, BVal
  <2>4. \A h : F(h) <=> IsScan(h, 0, size, 1, BStop, BVal) BY <2>3, Zenon DEF IsScan
  <2>5. F(bytes) BY <2>2, <2>4, Zenon
  <2>q. QED BY <2>4, <2>5, Zenon
<1> DEFINE k == IF aligned THEN longs[0] ELSE 0
<1>4. k \in 0 .. size /\ \A i \in 1 .. k : a[i] = b[i]
  <2> HIDE DEF longs
  <2>1. longs[0] \in 0 .. size /\ \A i \in 1 .. longs[0] : a[i] = b[i] 
    <3>1. IsLongs(longs, a, b, size) BY <1>2 DEF IsLongs
    <3>q. QED BY <3>1, LongsAre
  <2>2. CASE aligned BY <2>1, <2>2
  <2>3. CASE ~aligned BY <2>3
  <2>q. QED BY <2>2, <2>3
<1>5. memcmp(a, b, size, aligned) = bytes[k] BY <1>1
<1> HIDE DEF longs, bytes, k
<1>6. PICK j \in DiffersAt(a, b, k, size) : \A m \in DiffersAt(a, b, k, size) : j <= m
  <2>1. DiffersAt(a, b, k, size) \subseteq Nat /\ size \in DiffersAt(a, b, k, size) BY <1>4 DEF DiffersAt
  <2>q. QED BY <2>1, Smallest
<1>7. j \in k .. size /\ (j = size \/ a[j + 1] # b[j + 1]) /\ k \in Nat /\ j \in Nat BY <1>4, <1>6 DEF DiffersAt
<1>8. \A i \in k .. j - 1 : i \notin BStop /\ a[i + 1] = b[i + 1]
  <2> SUFFICES ASSUME NEW i \in k .. j - 1 PROVE i \notin BStop /\ a[i + 1] = b[i + 1] OBVIOUS
  <2>1. i \in k .. size /\ i # size /\ ~(j <= i) BY <1>7
  <2>2. i \notin DiffersAt(a, b, k, size) BY <1>6, <2>1
  <2>q. QED BY <2>1, <2>2 DEF DiffersAt
<1>9. bytes[k] = BVal[j]
  <2>1. j \in BStop BY <1>4, <1>7 DEF DiffersAt
  <2>2. ScanRange(0, size, 1, BStop) BY DEF ScanRange, DiffersAt
  <2>3. IsScan(bytes, 0, size, 1, BStop, BVal) BY <1>3
  <2> HIDE DEF BStop, BVal
  <2>4. \A i \in 0 .. size : bytes[i] = IF i \in BStop THEN BVal[i] ELSE bytes[i + 1] BY <2>3 DEF IsScan
  <2> DEFINE T == {i \in k .. j : bytes[i] # bytes[k]}
  <2>5. T = {}
    <3> SUFFICES ASSUME T # {} PROVE FALSE OBVIOUS
    <3>1. T \subseteq Nat BY <1>7
    <3>2. PICK m \in T : \A x \in T : m <= x BY <3>1, Smallest
    <3>3. m # k /\ m - 1 \in k .. j - 1 /\ m - 1 \in k .. j /\ m - 1 \in 0 .. size /\ (m - 1) + 1 = m BY <1>4, <1>7, <3>2
    <3>4. bytes[m - 1] = bytes[k] BY <3>2, <3>3
    <3>5. bytes[m - 1] = bytes[m] BY <1>8, <2>4, <3>3
    <3>q. QED BY <3>2, <3>4, <3>5
  <2>6. j \in k .. j /\ j \in 0 .. size BY <1>4, <1>7
  <2>7. bytes[j] = bytes[k] BY <2>5, <2>6
  <2>8. bytes[j] = BVal[j] BY <2>1, <2>4, <2>6
  <2>q. QED BY <2>7, <2>8
<1>10. j \in 0 .. size BY <1>4, <1>7
<1>11. ASSUME NEW i \in 1 .. j PROVE a[i] = b[i]
  <2>1. CASE i <= k BY <1>4, <1>7, <2>1
  <2>2. CASE ~(i <= k)
    <3>1. i - 1 \in k .. j - 1 /\ (i - 1) + 1 = i BY <1>7, <2>2
    <3>q. QED BY <1>8, <3>1
  <2>q. QED BY <2>1, <2>2
<1>12. BVal[j] = IF j = size THEN 0 ELSE a[j + 1] - b[j + 1] BY <1>10
<1> HIDE DEF BVal
<1>q. QED BY <1>5, <1>7, <1>9, <1>10, <1>11, <1>12 DEF BytesEnd

LEMMA MemcmpOrders ==
    ASSUME NEW a \in Seq(0 .. 255), NEW b \in Seq(0 .. 255), NEW size \in Nat, size <= Len(a), size <= Len(b),
           NEW aligned \in BOOLEAN
    PROVE  InOrder(memcmp(a, b, size, aligned), Cut(a, size), Cut(b, size))
<1> DEFINE u == Cut(a, size)
           v == Cut(b, size)
           r == memcmp(a, b, size, aligned)
<1>0. PICK j \in 0 .. size : BytesEnd(a, b, size, aligned, j) BY MemcmpIs
<1>1. /\ j \in 0 .. size /\ \A i \in 1 .. j : a[i] = b[i]
      /\ j # size => a[j + 1] # b[j + 1]
      /\ r = IF j = size THEN 0 ELSE a[j + 1] - b[j + 1]
  BY <1>0 DEF BytesEnd
<1>2. a \in Seq(Nat) /\ b \in Seq(Nat)
  <2>1. 0 .. 255 \subseteq Nat OBVIOUS
  <2>q. QED BY <2>1, Widened, Zenon
<1>3. /\ u \in Seq(Nat) /\ Len(u) = size /\ \A i \in 1 .. size : u[i] = a[i]
      /\ v \in Seq(Nat) /\ Len(v) = size /\ \A i \in 1 .. size : v[i] = b[i]
  BY <1>2, CutIs
<1> HIDE DEF u, v, r
<1>4. Parts(u, v, j + 1)
  <2>1. j + 1 \in Nat /\ j + 1 >= 1 /\ \A i \in 1 .. (j + 1) - 1 : i \in 1 .. j /\ i \in 1 .. size BY <1>1
  <2>2. j + 1 <= size => j + 1 \in 1 .. size /\ j # size BY <1>1
  <2>3. ASSUME NEW i \in 1 .. (j + 1) - 1 PROVE i <= Len(u) /\ i <= Len(v) /\ u[i] = v[i]
    <3>1. i \in 1 .. j /\ i \in 1 .. size /\ i <= size BY <2>1
    <3>2. u[i] = a[i] /\ v[i] = b[i] /\ a[i] = b[i] BY <1>1, <1>3, <3>1
    <3>q. QED BY <1>3, <3>1, <3>2
  <2>4. j + 1 <= Len(u) /\ j + 1 <= Len(v) => u[j + 1] # v[j + 1] BY <1>1, <1>3, <2>2
  <2>q. QED BY <2>1, <2>3, <2>4 DEF Parts
<1>5. (r < 0 <=> Lower(u, v, j + 1)) /\ (r > 0 <=> Lower(v, u, j + 1))
  <2>1. CASE j = size
    <3>1. r = 0 /\ ~(j + 1 <= Len(u)) /\ ~(j + 1 <= Len(v)) BY <1>1, <1>3, <2>1
    <3>q. QED BY <3>1 DEF Lower
  <2>2. CASE j # size
    <3> DEFINE x == a[j + 1]
               y == b[j + 1]
    <3>1. j + 1 \in 1 .. size /\ j + 1 <= Len(u) /\ j + 1 <= Len(v) /\ ~(j + 1 > Len(u)) /\ ~(j + 1 > Len(v)) BY <1>1, <1>3, <2>2
    <3>2. u[j + 1] = x /\ v[j + 1] = y BY <1>3, <3>1
    <3>3. x \in Nat /\ y \in Nat
      <4>1. j + 1 \in 1 .. Len(a) /\ j + 1 \in 1 .. Len(b) BY <1>1, <3>1
      <4>q. QED BY <1>2, <4>1, ItemIs
    <3>4. r = x - y BY <1>1, <2>2
    <3>5. (Lower(u, v, j + 1) <=> x < y) /\ (Lower(v, u, j + 1) <=> y < x) BY <3>1, <3>2 DEF Lower
    <3> HIDE DEF x, y
    <3>q. QED BY <3>3, <3>4, <3>5
  <2>q. QED BY <2>1, <2>2
<1>q. QED BY <1>3, <1>4, <1>5, OrderedBy DEF u, v, r

-----------------------------------------------------------------------------
(* atoi() and prefs_bool() *)

RunsTo(s, i, kind, k) ==
    /\ i \in Nat /\ k \in i .. Len(s) + 1 /\ Len(s) \in Nat
    /\ At(s, k) \notin kind /\ \A j \in i .. k - 1 : At(s, j) \in kind
LEMMA PastIs ==
    ASSUME NEW s, NEW i, NEW kind, NEW k, RunsTo(s, i, kind, k)
    PROVE  Past(s, i, kind) = k
<1> USE DEF RunsTo
<1> DEFINE P(x) == At(s, x) \notin kind /\ \A j \in i .. x - 1 : At(s, j) \in kind
           c == CHOOSE x \in i .. Len(s) + 1 : P(x)
<1>1. k \in i .. Len(s) + 1 /\ P(k) OBVIOUS
<1>2. c \in i .. Len(s) + 1 /\ P(c)
  <2> HIDE DEF P
  <2>q. QED BY <1>1, Zenon
<1>3. Past(s, i, kind) = c BY Zenon DEF Past
<1> HIDE DEF c
<1>4. ~(c < k)
  <2> SUFFICES ASSUME c < k PROVE FALSE OBVIOUS
  <2>1. c \in i .. k - 1 BY <1>1, <1>2
  <2>q. QED BY <1>2, <2>1
<1>5. ~(k < c)
  <2> SUFFICES ASSUME k < c PROVE FALSE OBVIOUS
  <2>1. k \in i .. c - 1 BY <1>1, <1>2
  <2>q. QED BY <1>2, <2>1
<1>6. c = k BY <1>1, <1>2, <1>4, <1>5
<1>q. QED BY <1>3, <1>6

LEMMA AtoiIs ==
    ASSUME NEW c, IsNumber(c)
    PROVE  atoi(c.s) = IF c.minus THEN -Positional(c.digits, 10) ELSE Positional(c.digits, 10)
<1> DEFINE s == c.s
           d == c.digits
           first == Past(s, 1, White)
           begin == IF At(s, first) \in {43, 45} THEN first + 1 ELSE first
           size  == Past(s, begin, Figures) - begin
           made  == [k \in 1 .. size |-> At(s, begin + k - 1) - 48]
<1>1. atoi(s) = IF At(s, first) = 45 THEN -Positional(made, 10) ELSE Positional(made, 10) BY Zenon DEF atoi
<1>2. s \in Seq(1 .. 255) /\ d \in Seq(0 .. 9) BY DEF IsNumber
<1>3. PICK b \in 0 .. Len(s) :
          LET sign == IF At(s, b + 1) \in {43, 45} THEN 1 ELSE 0
          IN  /\ \A k \in 1 .. b : s[k] \in White
              /\ At(s, b + 1) \notin White /\ c.minus = (At(s, b + 1) = 45)
              /\ b + sign + Len(d) <= Len(s)
              /\ \A k \in DOMAIN d : s[b + sign + k] = d[k] + 48
              /\ At(s, b + sign + Len(d) + 1) \notin Figures
  BY DEF IsNumber
<1> DEFINE sign == IF At(s, b + 1) \in {43, 45} THEN 1 ELSE 0
<1>4. /\ \A k \in 1 .. b : s[k] \in White
      /\ At(s, b + 1) \notin White /\ c.minus = (At(s, b + 1) = 45)
      /\ b + sign + Len(d) <= Len(s)
      /\ \A k \in DOMAIN d : s[b + sign + k] = d[k] + 48
      /\ At(s, b + sign + Len(d) + 1) \notin Figures
  BY <1>3
<1>5. Len(s) \in Nat /\ Len(d) \in Nat /\ DOMAIN d = 1 .. Len(d) /\ \A k \in 1 .. Len(d) : d[k] \in 0 .. 9
  <2> DEFINE S == 0 .. 9
  <2>1. d \in Seq(S) BY <1>2
  <2> HIDE DEF S
  <2>2. Len(d) \in Nat /\ DOMAIN d = 1 .. Len(d) /\ \A k \in 1 .. Len(d) : d[k] \in S BY <2>1
  <2>3. Len(s) \in Nat BY <1>2
  <2>q. QED BY <2>2, <2>3 DEF S
<1> HIDE DEF s, d
<1>6. \A k \in 1 .. Len(s) : At(s, k) = s[k] BY <1>5 DEF At
<1>7. first = b + 1
  <2>1. b + 1 \in 1 .. Len(s) + 1 /\ 1 \in Nat /\ \A k \in 1 .. (b + 1) - 1 : k \in 1 .. b /\ k \in 1 .. Len(s) BY <1>3, <1>5
  <2>2. \A k \in 1 .. (b + 1) - 1 : At(s, k) \in White BY <1>4, <1>6, <2>1
  <2>3. RunsTo(s, 1, White, b + 1) BY <1>4, <1>5, <2>1, <2>2 DEF RunsTo
  <2>q. QED BY <2>3, PastIs
<1>8. begin = b + sign + 1 /\ sign \in {0, 1}
  <2>1. begin = IF At(s, b + 1) \in {43, 45} THEN (b + 1) + 1 ELSE b + 1 BY <1>7
  <2>2. CASE At(s, b + 1) \in {43, 45} BY <1>3, <2>1, <2>2
  <2>3. CASE At(s, b + 1) \notin {43, 45} BY <1>3, <2>1, <2>3
  <2>q. QED BY <2>2, <2>3
<1> HIDE DEF first, sign
<1>9. size = Len(d)
  <2> DEFINE e == b + sign + Len(d) + 1
             x == b + sign + 1
  <2>1. x \in Nat /\ e \in x .. Len(s) + 1 /\ e - x = Len(d) BY <1>3, <1>4, <1>5, <1>8
  <2>2. ASSUME NEW j \in x .. e - 1 PROVE At(s, j) \in Figures
    <3> DEFINE k == j - (b + sign)
    <3>1. k \in 1 .. Len(d) /\ b + sign + k = j /\ j \in 1 .. Len(s) BY <1>3, <1>4, <1>5, <1>8, <2>1
    <3> HIDE DEF k
    <3>2. s[b + sign + k] = d[k] + 48 /\ d[k] \in 0 .. 9 BY <1>4, <1>5, <3>1
    <3>3. At(s, j) = d[k] + 48 BY <1>6, <3>1, <3>2
    <3>4. \A y \in 0 .. 9 : y + 48 \in Figures BY DEF Figures
    <3>q. QED BY <3>2, <3>3, <3>4, Zenon
  <2>3. RunsTo(s, x, Figures, e) BY <1>4, <1>5, <2>1, <2>2 DEF RunsTo
  <2> HIDE DEF e, x
  <2>4. Past(s, x, Figures) = e BY <2>3, PastIs
  <2>5. begin = x BY <1>8 DEF x
  <2>q. QED BY <2>1, <2>4, <2>5
<1>10. made = d
  <2>1. ASSUME NEW k \in 1 .. Len(d) PROVE At(s, begin + k - 1) - 48 = d[k]
    <3>1. begin + k - 1 = b + sign + k /\ b + sign + k \in 1 .. Len(s) BY <1>3, <1>4, <1>5, <1>8, SMTT(30)
    <3>2. At(s, begin + k - 1) = d[k] + 48 BY <1>4, <1>5, <1>6, <3>1
    <3>3. d[k] \in 0 .. 9 BY <1>5
    <3>q. QED BY <3>2, <3>3
  <2>2. d = [k \in 1 .. Len(d) |-> d[k]]
    <3>1. d \in Seq(0 .. 9) BY <1>2 DEF d
    <3>q. QED BY <3>1
  <2>3. made = [k \in 1 .. Len(d) |-> At(s, begin + k - 1) - 48] BY <1>9
  <2> HIDE DEF made, begin
  <2>4. [k \in 1 .. Len(d) |-> At(s, begin + k - 1) - 48] = [k \in 1 .. Len(d) |-> d[k]] BY <2>1, Zenon
  <2>q. QED BY <2>2, <2>3, <2>4, Zenon
<1>11. c.minus = (At(s, first) = 45) BY <1>4, <1>7
<1> HIDE DEF made
<1>q. QED BY <1>1, <1>10, <1>11, Zenon DEF s, d

LEMMA StricmpZero ==
    ASSUME NEW s \in Seq(1 .. 255), NEW t \in Seq(1 .. 255)
    PROVE  Stricmp(s, t) = 0 <=> Folded(s) = Folded(t)
<1> DEFINE m == Len(s) + 1
<1>1. m \in Nat /\ m \in Int /\ TRUE \in BOOLEAN OBVIOUS
<1>2. Views(IF TRUE THEN Folded(s) ELSE s, s, TRUE, m, m) /\ Views(IF TRUE THEN Folded(t) ELSE t, t, TRUE, m, m)
  <2> HIDE DEF m
  <2>q. QED BY <1>1, ViewWhole
<1>3. Views(Folded(s), s, TRUE, m, Len(s) + 1) /\ Views(Folded(t), t, TRUE, m, Len(s) + 1) BY <1>2
<1>4. Compared(s, t, TRUE, m) = 0 <=> Folded(s) = Folded(t)
  <2> HIDE DEF m
  <2>1. PICK any : any = TRUE OBVIOUS
  <2>2. Viewed(s, t, any, m, Folded(s), Folded(t)) BY <1>1, <1>3, <2>1 DEF Viewed
  <2>3. Compared(s, t, any, m) = 0 <=> Folded(s) = Folded(t) BY <2>2, ComparedOrders
  <2>q. QED BY <2>1, <2>3, Zenon
<1>q. QED BY <1>4 DEF Stricmp, NoLimit

\* The eight words are different in any case.
LEMMA WordsAre ==
    /\ Len(On) = 4 /\ Len(Off) = 4 /\ DOMAIN On = 1 .. 4 /\ DOMAIN Off = 1 .. 4
    /\ \A i \in 1 .. 4 : On[i] \in Seq(1 .. 255) /\ Off[i] \in Seq(1 .. 255)
    /\ \A i, k \in 1 .. 4 : Folded(On[i]) # Folded(Off[k])
<1>1. Len(On) = 4 /\ Len(Off) = 4 /\ DOMAIN On = 1 .. 4 /\ DOMAIN Off = 1 .. 4 BY DEF On, Off
<1>2. /\ On[1] = <<111, 110>> /\ On[2] = <<121, 101, 115>> /\ On[3] = <<116, 114, 117, 101>> /\ On[4] = <<49>>
      /\ Off[1] = <<111, 102, 102>> /\ Off[2] = <<110, 111>> /\ Off[3] = <<102, 97, 108, 115, 101>> /\ Off[4] = <<48>>
  BY DEF On, Off
<1>3. \A i \in 1 .. 4 : i = 1 \/ i = 2 \/ i = 3 \/ i = 4 OBVIOUS
<1>4. /\ On[1] \in Seq(1 .. 255) /\ Off[1] \in Seq(1 .. 255)
      /\ On[2] \in Seq(1 .. 255) /\ Off[2] \in Seq(1 .. 255)
      /\ On[3] \in Seq(1 .. 255) /\ Off[3] \in Seq(1 .. 255)
      /\ On[4] \in Seq(1 .. 255) /\ Off[4] \in Seq(1 .. 255)
  BY <1>2
<1>5. ASSUME NEW i \in 1 .. 4 PROVE On[i] \in Seq(1 .. 255) /\ Off[i] \in Seq(1 .. 255)
  <2>1. CASE i = 1 BY <1>4, <2>1, Zenon
  <2>2. CASE i = 2 BY <1>4, <2>2, Zenon
  <2>3. CASE i = 3 BY <1>4, <2>3, Zenon
  <2>4. CASE i = 4 BY <1>4, <2>4, Zenon
  <2>q. QED BY <1>3, <2>1, <2>2, <2>3, <2>4
<1>6. /\ Len(On[1]) = 2 /\ Len(On[2]) = 3 /\ Len(On[3]) = 4 /\ Len(On[4]) = 1
      /\ Len(Off[1]) = 3 /\ Len(Off[2]) = 2 /\ Len(Off[3]) = 5 /\ Len(Off[4]) = 1
      /\ On[1][1] = 111 /\ On[2][1] = 121 /\ On[3][1] = 116 /\ On[4][1] = 49
      /\ Off[1][1] = 111 /\ Off[2][1] = 110 /\ Off[3][1] = 102 /\ Off[4][1] = 48
  BY <1>2
<1>7. Upper(111) = 79 /\ Upper(121) = 89 /\ Upper(49) = 49 /\ Upper(110) = 78 /\ Upper(48) = 48 BY DEF Upper
<1>8. ASSUME NEW k \in 1 .. 4
      PROVE  /\ Len(Off[k]) = 2 => k = 2
             /\ Len(Off[k]) = 3 => k = 1
             /\ Len(Off[k]) = 1 => k = 4
             /\ Len(Off[k]) # 4 /\ Len(Off[k]) >= 1
  <2>1. CASE k = 1
    <3>1. Len(Off[k]) = 3 BY <1>6, <2>1, Zenon
    <3>q. QED BY <2>1, <3>1
  <2>2. CASE k = 2
    <3>1. Len(Off[k]) = 2 BY <1>6, <2>2, Zenon
    <3>q. QED BY <2>2, <3>1
  <2>3. CASE k = 3
    <3>1. Len(Off[k]) = 5 BY <1>6, <2>3, Zenon
    <3>q. QED BY <2>3, <3>1
  <2>4. CASE k = 4
    <3>1. Len(Off[k]) = 1 BY <1>6, <2>4, Zenon
    <3>q. QED BY <2>4, <3>1
  <2>q. QED BY <1>3, <2>1, <2>2, <2>3, <2>4
<1>9. ASSUME NEW i \in 1 .. 4, NEW k \in 1 .. 4, Folded(On[i]) = Folded(Off[k]) PROVE FALSE
  <2>1. Len(On[i]) = Len(Off[k])
    <3>1. Len(Folded(On[i])) = Len(On[i]) /\ Len(Folded(Off[k])) = Len(Off[k]) BY <1>5, FoldedIs
    <3>q. QED BY <1>9, <3>1, Zenon
  <2>2. Upper(On[i][1]) = Upper(Off[k][1])
    <3>1. Len(On[i]) >= 1 /\ Len(Off[k]) >= 1 BY <1>8, <2>1
    <3>2. 1 \in 1 .. Len(On[i]) /\ 1 \in 1 .. Len(Off[k])
      <4>1. Len(On[i]) \in Nat /\ Len(Off[k]) \in Nat BY <1>5
      <4>q. QED BY <3>1, <4>1
    <3>3. Folded(On[i])[1] = Upper(On[i][1]) /\ Folded(Off[k])[1] = Upper(Off[k][1]) BY <1>5, <3>2, FoldedIs
    <3>q. QED BY <1>9, <3>3, Zenon
  <2>3. CASE i = 1
    <3>1. k = 2
      <4>1. Len(Off[k]) = 2 BY <1>6, <2>1, <2>3, Zenon
      <4>q. QED BY <1>8, <4>1
    <3>q. QED BY <1>6, <1>7, <2>2, <2>3, <3>1
  <2>4. CASE i = 2
    <3>1. k = 1
      <4>1. Len(Off[k]) = 3 BY <1>6, <2>1, <2>4, Zenon
      <4>q. QED BY <1>8, <4>1
    <3>q. QED BY <1>6, <1>7, <2>2, <2>4, <3>1
  <2>5. CASE i = 3
    <3>1. Len(Off[k]) = 4 BY <1>6, <2>1, <2>5, Zenon
    <3>q. QED BY <1>8, <3>1
  <2>6. CASE i = 4
    <3>1. k = 4
      <4>1. Len(Off[k]) = 1 BY <1>6, <2>1, <2>6, Zenon
      <4>q. QED BY <1>8, <4>1
    <3>q. QED BY <1>6, <1>7, <2>2, <2>6, <3>1
  <2>q. QED BY <1>3, <2>3, <2>4, <2>5, <2>6
<1>q. QED BY <1>1, <1>5, <1>9

IsWord(s, words) == \E i \in DOMAIN words : Folded(s) = Folded(words[i])

LEMMA BoolIs ==
    ASSUME NEW s \in Seq(1 .. 255)
    PROVE  (TRUE \in PrefsBool(s) <=> IsWord(s, On)) /\ (FALSE \in PrefsBool(s) <=> IsWord(s, Off))
<1> DEFINE E(g) == g = [i \in 1 .. 5 |->
                          IF i > 4 THEN {}
                          ELSE IF Stricmp(s, On[i]) = 0 THEN {TRUE}
                          ELSE IF Stricmp(s, Off[i]) = 0 THEN {FALSE}
                          ELSE g[i + 1]]
           on(i) == Folded(s) = Folded(On[i])
           off(i) == Folded(s) = Folded(Off[i])
           Stop == {i \in 1 .. 5 : i > 4 \/ on(i) \/ off(i)}
           Val == [i \in 1 .. 5 |-> IF i > 4 THEN {} ELSE IF on(i) THEN {TRUE} ELSE {FALSE}]
<1>1. PrefsBool(s) = (CHOOSE g : E(g))[1]
  <2>1. Len(On) + 1 = 5 /\ Len(On) = 4 BY WordsAre
  <2>q. QED BY <2>1, ZenonT(30) DEF PrefsBool
<1>2. \A i \in 1 .. 5 : ~(i > 4) => i \in 1 .. 4 OBVIOUS
<1>3. \A i \in 1 .. 4 : (Stricmp(s, On[i]) = 0 <=> on(i)) /\ (Stricmp(s, Off[i]) = 0 <=> off(i)) BY WordsAre, StricmpZero
<1> HIDE DEF on, off
<1>4. ASSUME NEW g, NEW i \in 1 .. 5
      PROVE  (IF i > 4 THEN {} ELSE IF Stricmp(s, On[i]) = 0 THEN {TRUE} ELSE IF Stricmp(s, Off[i]) = 0 THEN {FALSE} ELSE g[i + 1])
             = (IF i \in Stop THEN Val[i] ELSE g[i + 1])
  <2>1. CASE i > 4
    <3>1. i \in Stop /\ Val[i] = {} BY <2>1
    <3>q. QED BY <2>1, <3>1
  <2>2. CASE ~(i > 4) /\ on(i)
    <3>1. i \in Stop /\ Val[i] = {TRUE} /\ Stricmp(s, On[i]) = 0 BY <1>2, <1>3, <2>2
    <3> HIDE DEF Stop, Val
    <3>q. QED BY <2>2, <3>1, Zenon
  <2>3. CASE ~(i > 4) /\ ~on(i) /\ off(i)
    <3>1. i \in Stop /\ Val[i] = {FALSE} /\ Stricmp(s, On[i]) # 0 /\ Stricmp(s, Off[i]) = 0 BY <1>2, <1>3, <2>3
    <3> HIDE DEF Stop, Val
    <3>q. QED BY <2>3, <3>1, Zenon
  <2>4. CASE ~(i > 4) /\ ~on(i) /\ ~off(i)
    <3>1. i \notin Stop /\ Stricmp(s, On[i]) # 0 /\ Stricmp(s, Off[i]) # 0 BY <1>2, <1>3, <2>4
    <3> HIDE DEF Stop, Val
    <3>q. QED BY <2>4, <3>1, Zenon
  <2>q. QED BY <2>1, <2>2, <2>3, <2>4
<1> HIDE DEF Stop, Val
<1>5. \A g : E(g) <=> IsScan(g, 1, 5, 1, Stop, Val) BY <1>4, ZenonT(30) DEF IsScan
<1>6. \E g : IsScan(g, 1, 5, 1, Stop, Val)
  <2>1. ScanRange(1, 5, 1, Stop) BY DEF ScanRange, Stop
  <2>q. QED BY <2>1, ScanDefined, Zenon
<1>7. PICK g : IsScan(g, 1, 5, 1, Stop, Val) /\ PrefsBool(s) = g[1]
  <2>1. \E g : E(g) BY <1>5, <1>6, Zenon
  <2>2. E(CHOOSE g : E(g)) BY <2>1, Zenon
  <2>q. QED BY <1>1, <1>5, <2>2, Zenon
<1>8. PICK j \in Stop : \A k \in Stop : j <= k
  <2>1. Stop \subseteq Nat /\ 5 \in Stop BY DEF Stop
  <2>q. QED BY <2>1, Smallest
<1>9. j \in 1 .. 5 /\ (j > 4 \/ on(j) \/ off(j)) BY <1>8 DEF Stop
<1>10. \A i \in 1 .. 5 : i < j => i \notin Stop BY <1>8, <1>9
<1>11. g[1] = Val[j]
  <2>1. FirstStop(j, 1, 5, Stop) BY <1>8, <1>9, <1>10 DEF FirstStop
  <2>q. QED BY <1>7, <2>1, ScanValue
<1>12. PrefsBool(s) = IF j > 4 THEN {} ELSE IF on(j) THEN {TRUE} ELSE {FALSE} BY <1>7, <1>9, <1>11 DEF Val
<1>13. (IsWord(s, On) <=> \E i \in 1 .. 4 : on(i)) /\ (IsWord(s, Off) <=> \E i \in 1 .. 4 : off(i))
  BY WordsAre DEF IsWord, on, off
<1>14. \A i, k \in 1 .. 4 : ~(on(i) /\ off(k)) BY WordsAre DEF on, off
<1>15. CASE j > 4
  <2>1. ASSUME NEW i \in 1 .. 4 PROVE ~on(i) /\ ~off(i)
    <3>1. i \in 1 .. 5 /\ i < j BY <1>9, <1>15
    <3>q. QED BY <1>10, <3>1 DEF Stop
  <2>2. PrefsBool(s) = {} BY <1>12, <1>15
  <2>q. QED BY <1>13, <2>1, <2>2
<1>16. CASE ~(j > 4) /\ on(j)
  <2>1. PrefsBool(s) = {TRUE} /\ j \in 1 .. 4 BY <1>2, <1>9, <1>12, <1>16
  <2>2. TRUE \in {TRUE} /\ FALSE \notin {TRUE} OBVIOUS
  <2>q. QED BY <1>13, <1>14, <1>16, <2>1, <2>2, Zenon
<1>17. CASE ~(j > 4) /\ ~on(j)
  <2>1. PrefsBool(s) = {FALSE} /\ j \in 1 .. 4 /\ off(j) BY <1>2, <1>9, <1>12, <1>17
  <2>2. FALSE \in {FALSE} /\ TRUE \notin {FALSE} OBVIOUS
  <2>q. QED BY <1>13, <1>14, <2>1, <2>2, Zenon
<1>q. QED BY <1>15, <1>16, <1>17

-----------------------------------------------------------------------------
(* The calls *)

TextInv ==
    pc \in TextPlaces => /\ call \in TextCalls
                         /\ pc = "format" => call.op = "format"
                         /\ TextExact

LEMMA OrdersWhole ==
    ASSUME NEW s \in Seq(1 .. 255), NEW t \in Seq(1 .. 255)
    PROVE  InOrder(strcmp(s, t), s, t) /\ InOrder(Stricmp(s, t), Folded(s), Folded(t))
<1> DEFINE m == Len(s) + 1
<1>1. m \in Nat /\ m \in Int /\ m = Len(s) + 1 OBVIOUS
<1>2. ASSUME NEW any \in BOOLEAN
      PROVE  InOrder(Compared(s, t, any, m), IF any THEN Folded(s) ELSE s, IF any THEN Folded(t) ELSE t)
  <2> DEFINE u == IF any THEN Folded(s) ELSE s
             v == IF any THEN Folded(t) ELSE t
  <2> HIDE DEF m
  <2>1. Views(u, s, any, m, m) /\ Views(v, t, any, m, m) BY <1>1, ViewWhole
  <2> HIDE DEF u, v
  <2>2. Viewed(s, t, any, m, u, v) BY <1>1, <2>1 DEF Viewed
  <2>3. InOrder(Compared(s, t, any, m), u, v) BY <2>2, ComparedOrders
  <2>q. QED BY <2>3 DEF u, v
<1>3. strcmp(s, t) = Compared(s, t, FALSE, m) /\ Stricmp(s, t) = Compared(s, t, TRUE, m) BY DEF strcmp, Stricmp, NoLimit
<1> HIDE DEF m
<1>4. TRUE \in BOOLEAN /\ FALSE \in BOOLEAN OBVIOUS
<1>5. InOrder(Compared(s, t, FALSE, m), s, t)
  <2>1. InOrder(Compared(s, t, FALSE, m), IF FALSE THEN Folded(s) ELSE s, IF FALSE THEN Folded(t) ELSE t) BY <1>2, <1>4, Zenon
  <2>q. QED BY <2>1
<1>6. InOrder(Compared(s, t, TRUE, m), Folded(s), Folded(t))
  <2>1. InOrder(Compared(s, t, TRUE, m), IF TRUE THEN Folded(s) ELSE s, IF TRUE THEN Folded(t) ELSE t) BY <1>2, <1>4, Zenon
  <2>q. QED BY <2>1
<1>q. QED BY <1>3, <1>5, <1>6, Zenon

LEMMA OrdersCut ==
    ASSUME NEW s \in Seq(1 .. 255), NEW t \in Seq(1 .. 255), NEW limit \in Nat
    PROVE  /\ InOrder(Compared(s, t, FALSE, limit), Cut(s, limit), Cut(t, limit))
           /\ InOrder(Compared(s, t, TRUE, limit), Folded(Cut(s, limit)), Folded(Cut(t, limit)))
<1>1. Len(s) + 1 \in Nat /\ limit \in Int OBVIOUS
<1>2. ASSUME NEW any \in BOOLEAN
      PROVE  InOrder(Compared(s, t, any, limit), IF any THEN Folded(Cut(s, limit)) ELSE Cut(s, limit),
                                                 IF any THEN Folded(Cut(t, limit)) ELSE Cut(t, limit))
  <2> DEFINE u == IF any THEN Folded(Cut(s, limit)) ELSE Cut(s, limit)
             v == IF any THEN Folded(Cut(t, limit)) ELSE Cut(t, limit)
  <2>1. Views(u, s, any, limit, Len(s) + 1) /\ Views(v, t, any, limit, Len(s) + 1) BY <1>1, ViewCut
  <2> HIDE DEF u, v
  <2>2. Viewed(s, t, any, limit, u, v) BY <1>1, <2>1 DEF Viewed
  <2>3. InOrder(Compared(s, t, any, limit), u, v) BY <2>2, ComparedOrders
  <2>q. QED BY <2>3 DEF u, v
<1>3. TRUE \in BOOLEAN /\ FALSE \in BOOLEAN OBVIOUS
<1>4. InOrder(Compared(s, t, FALSE, limit), Cut(s, limit), Cut(t, limit))
  <2>1. InOrder(Compared(s, t, FALSE, limit), IF FALSE THEN Folded(Cut(s, limit)) ELSE Cut(s, limit),
                                             IF FALSE THEN Folded(Cut(t, limit)) ELSE Cut(t, limit)) BY <1>2, <1>3, Zenon
  <2>q. QED BY <2>1
<1>5. InOrder(Compared(s, t, TRUE, limit), Folded(Cut(s, limit)), Folded(Cut(t, limit)))
  <2>1. InOrder(Compared(s, t, TRUE, limit), IF TRUE THEN Folded(Cut(s, limit)) ELSE Cut(s, limit),
                                             IF TRUE THEN Folded(Cut(t, limit)) ELSE Cut(t, limit)) BY <1>2, <1>3, Zenon
  <2>q. QED BY <2>1
<1>q. QED BY <1>4, <1>5

LEMMA CutEmpty == ASSUME NEW S, NEW s \in Seq(S) PROVE Cut(s, 0) = <<>>
BY DEF Cut

LEMMA EmptyOrder == InOrder(0, Folded(<<>>), Folded(<<>>))
<1>1. Folded(<<>>) = <<>> BY DEF Folded
<1>2. ~Precedes(<<>>, <<>>) BY DEF Precedes
<1>q. QED BY <1>1, <1>2 DEF InOrder

LEMMA TextStart == ASSUME Init PROVE TextInv
<1>1. CASE TextInit BY <1>1 DEF TextInit, TextInv, TextExact
<1>2. CASE PrefsInit \/ MoveInit BY <1>2 DEF PrefsInit, MoveInit, TextInv, TextPlaces
<1>q. QED BY <1>1, <1>2 DEF Init

PureOps == {"strcmp", "strncmp", "Stricmp", "Strnicmp", "memcmp", "atoi", "bool"}

LEMMA PureAnswers ==
    ASSUME TextInv, PureCall
    PROVE  TextExact'
<1>1. call \in TextCalls /\ call' = call /\ call.op \in PureOps BY DEF PureCall, Goto, TextInv, TextPlaces, PureOps
<1>2. CASE call.op = "strcmp"
  <2>1. call.s \in Seq(1 .. 255) /\ call.t \in Seq(1 .. 255) BY <1>1, <1>2, TextAssumption
  <2>2. answer' = strcmp(call.s, call.t) BY <1>2 DEF PureCall
  <2>3. InOrder(answer', call.s, call.t) BY <2>1, <2>2, OrdersWhole
  <2>q. QED BY <1>1, <1>2, <2>3 DEF TextExact
<1>3. CASE call.op = "strncmp"
  <2>1. call.s \in Seq(1 .. 255) /\ call.t \in Seq(1 .. 255) /\ call.n \in Nat
    <3>1. call.op \in {"strcmp", "strncmp", "Stricmp", "Strnicmp"} BY <1>3
    <3>2. call.s \in Seq(1 .. 255) /\ call.t \in Seq(1 .. 255) /\ call.n \in Int BY <1>1, <3>1, TextAssumption, Zenon
    <3>3. call.n >= 0 BY <1>1, <1>3, TextAssumption, Zenon
    <3>q. QED BY <3>2, <3>3
  <2>2. answer' = Compared(call.s, call.t, FALSE, call.n) BY <1>3 DEF PureCall, strncmp
  <2>3. InOrder(answer', Cut(call.s, call.n), Cut(call.t, call.n)) BY <2>1, <2>2, OrdersCut
  <2>q. QED BY <1>1, <1>3, <2>3 DEF TextExact
<1>4. CASE call.op = "Stricmp"
  <2>1. call.s \in Seq(1 .. 255) /\ call.t \in Seq(1 .. 255) BY <1>1, <1>4, TextAssumption
  <2>2. answer' = Stricmp(call.s, call.t) BY <1>4 DEF PureCall
  <2>3. InOrder(answer', Folded(call.s), Folded(call.t)) BY <2>1, <2>2, OrdersWhole
  <2>q. QED BY <1>1, <1>4, <2>3 DEF TextExact
<1>5. CASE call.op = "Strnicmp"
  <2> DEFINE m == IF call.n < 0 THEN 0 ELSE call.n
  <2>1. call.s \in Seq(1 .. 255) /\ call.t \in Seq(1 .. 255) /\ call.n \in Int BY <1>1, <1>5, TextAssumption
  <2>2. answer' = IF call.n <= 0 THEN 0 ELSE Compared(call.s, call.t, TRUE, call.n) BY <1>5 DEF PureCall, Strnicmp
  <2>3. m \in Nat BY <2>1
  <2>4. CASE call.n <= 0
    <3>1. answer' = 0 /\ m = 0 BY <2>1, <2>2, <2>4
    <3>2. Cut(call.s, 0) = <<>> /\ Cut(call.t, 0) = <<>> BY <2>1, CutEmpty
    <3>3. InOrder(0, Folded(<<>>), Folded(<<>>)) BY EmptyOrder
    <3> HIDE DEF m
    <3>q. QED BY <3>1, <3>2, <3>3, <1>1, <1>5 DEF TextExact, m
  <2>5. CASE ~(call.n <= 0)
    <3>1. answer' = Compared(call.s, call.t, TRUE, call.n) BY <2>2, <2>5, Zenon
    <3>2. m = call.n BY <2>1, <2>5
    <3>3. InOrder(answer', Folded(Cut(call.s, m)), Folded(Cut(call.t, m)))
      <4> HIDE DEF m
      <4>q. QED BY <2>1, <2>3, <3>1, <3>2, OrdersCut, Zenon
    <3>q. QED BY <1>1, <1>5, <3>3 DEF TextExact
  <2>q. QED BY <2>4, <2>5
<1>6. CASE call.op = "memcmp"
  <2>1. /\ call.s \in Seq(0 .. 255) /\ call.t \in Seq(0 .. 255) /\ call.aligned \in BOOLEAN
        /\ call.n \in Nat /\ call.n <= Len(call.s) /\ call.n <= Len(call.t)
    <3>1. /\ call.s \in Seq(0 .. 255) /\ call.t \in Seq(0 .. 255)
          /\ call.n \in 0 .. Len(call.s) /\ call.n <= Len(call.t) /\ call.aligned \in BOOLEAN
      BY <1>1, <1>6, TextAssumption, Zenon
    <3>q. QED BY <3>1
  <2>2. answer' = memcmp(call.s, call.t, call.n, call.aligned) BY <1>6 DEF PureCall
  <2>3. InOrder(answer', Cut(call.s, call.n), Cut(call.t, call.n)) BY <2>1, <2>2, MemcmpOrders
  <2>q. QED BY <1>1, <1>6, <2>3 DEF TextExact
<1>7. CASE call.op = "atoi"
  <2>1. IsNumber(call) BY <1>1, <1>7, TextAssumption
  <2>2. answer' = atoi(call.s) BY <1>7 DEF PureCall
  <2>3. answer' = IF call.minus THEN -Positional(call.digits, 10) ELSE Positional(call.digits, 10)
    BY <2>1, <2>2, AtoiIs
  <2>q. QED BY <1>1, <1>7, <2>3 DEF TextExact
<1>8. CASE call.op = "bool"
  <2>1. call.s \in Seq(1 .. 255) BY <1>1, <1>8, TextAssumption
  <2>2. answer' = PrefsBool(call.s) BY <1>8 DEF PureCall
  <2>3. /\ (TRUE \in answer') <=> (\E i \in DOMAIN On : Folded(call.s) = Folded(On[i]))
        /\ (FALSE \in answer') <=> (\E i \in DOMAIN Off : Folded(call.s) = Folded(Off[i]))
    BY <2>1, <2>2, BoolIs DEF IsWord
  <2>q. QED BY <1>1, <1>8, <2>3 DEF TextExact
<1>q. QED BY <1>1, <1>2, <1>3, <1>4, <1>5, <1>6, <1>7, <1>8 DEF PureOps

LEMMA TextKeeps == ASSUME TextInv, [Next]_libVars PROVE TextInv'
<1>1. CASE PureCall BY <1>1, PureAnswers DEF PureCall, Goto, TextInv, TextPlaces
<1>2. CASE CopyCall
  <2>1. call' = call /\ call \in TextCalls /\ call.op \in {"strlcpy", "strfit"} /\ pc' = "done"
    BY <1>2 DEF CopyCall, Goto, TextInv, TextPlaces
  <2>q. QED BY <2>1 DEF TextInv, TextExact
<1>3. CASE FmtInit \/ FmtChar \/ FmtDirective \/ FmtUnknown \/ FmtDone
  <2>1. call' = call /\ call \in TextCalls /\ call.op = "format"
    BY <1>3 DEF FmtInit, FmtChar, FmtDirective, FmtUnknown, FmtDone, Goto, TextInv, TextPlaces
  <2>q. QED BY <2>1 DEF TextInv, TextExact
<1>4. CASE PrefsNext \/ MoveNext BY <1>4, PrefsStays, MoveStays, Apart DEF TextInv
<1>5. CASE UNCHANGED libVars BY <1>5 DEF libVars, textVars, TextInv, TextExact
<1>q. QED BY <1>1, <1>2, <1>3, <1>4, <1>5 DEF Next, TextNext

\* The comparisons order any two strings or buffers as their first difference does;
\* atoi() reads the number in front; prefs_bool() knows its eight words and no other.
THEOREM TextCorrect == Spec => []TextExact
<1>1. TextInv => TextExact BY DEF TextInv, TextPlaces, TextExact
<1>q. QED BY <1>1, TextStart, TextKeeps, PTL DEF Spec

-----------------------------------------------------------------------------
(* Texts put together: FlattenSeq(), a text at a time.                             *)

IsFlat(g, ts, k) == g = [i \in 1 .. k |-> IF i = 1 THEN ts[i] ELSE g[i - 1] \o ts[i]]

LEMMA FlatDefined == ASSUME NEW ts, NEW m \in Nat PROVE \E g : IsFlat(g, ts, m)
<1> DEFINE T == {k \in Nat : ~ \E g : IsFlat(g, ts, k)}
<1>1. T = {}
  <2> SUFFICES ASSUME T # {} PROVE FALSE OBVIOUS
  <2>1. PICK k \in T : \A j \in T : k <= j BY Smallest
  <2>2. CASE k = 0
    <3>1. IsFlat([i \in 1 .. 0 |-> ts[1]], ts, 0) BY DEF IsFlat
    <3>q. QED BY <2>2, <3>1
  <2>3. CASE k # 0
    <3>1. k - 1 \in Nat /\ k \in Nat BY <2>3
    <3>2. k - 1 \notin T
      <4>1. ~(k <= k - 1) BY <3>1
      <4> HIDE DEF T
      <4>q. QED BY <2>1, <4>1
    <3>3. PICK g : IsFlat(g, ts, k - 1) BY <3>1, <3>2
    <3> DEFINE h == [i \in 1 .. k |-> IF i < k THEN g[i] ELSE IF k = 1 THEN ts[k] ELSE g[k - 1] \o ts[k]]
    <3>4. ASSUME NEW i \in 1 .. k
          PROVE  h[i] = IF i = 1 THEN ts[i] ELSE h[i - 1] \o ts[i]
      <4>1. CASE i = k
        <5>1. h[k] = IF k = 1 THEN ts[k] ELSE g[k - 1] \o ts[k] BY <3>1, <4>1
        <5>2. k # 1 => h[k - 1] = g[k - 1] BY <3>1
        <5> HIDE DEF h
        <5>q. QED BY <4>1, <5>1, <5>2, Zenon
      <4>2. CASE i # k
        <5>1. i \in 1 .. k - 1 BY <3>1, <4>2
        <5>2. g[i] = IF i = 1 THEN ts[i] ELSE g[i - 1] \o ts[i] BY <3>3, <5>1, Zenon DEF IsFlat
        <5>3. h[i] = g[i] /\ (i # 1 => h[i - 1] = g[i - 1]) BY <3>1, <5>1
        <5> HIDE DEF h
        <5>q. QED BY <5>2, <5>3, Zenon
      <4>q. QED BY <4>1, <4>2
    <3>5. h = [i \in 1 .. k |-> h[i]] OBVIOUS
    <3> HIDE DEF h
    <3>6. h = [i \in 1 .. k |-> IF i = 1 THEN ts[i] ELSE h[i - 1] \o ts[i]] BY <3>4, <3>5, Zenon
    <3>7. IsFlat(h, ts, k) BY <3>6, Zenon DEF IsFlat
    <3>q. QED BY <3>7
  <2>q. QED BY <2>2, <2>3
<1>q. QED BY <1>1

LEMMA FlatAt ==
    ASSUME NEW ts, NEW k \in Nat, NEW g, IsFlat(g, ts, k), NEW i \in 1 .. k
    PROVE  g[i] = IF i = 1 THEN ts[i] ELSE g[i - 1] \o ts[i]
BY Zenon DEF IsFlat

LEMMA FlatAgree ==
    ASSUME NEW S, NEW ts, NEW us, NEW k \in Nat, NEW m \in Nat, k <= m, NEW g, NEW h,
           IsFlat(g, ts, k), IsFlat(h, us, m), \A i \in 1 .. k : ts[i] = us[i] /\ ts[i] \in Seq(S)
    PROVE  \A i \in 1 .. k : g[i] = h[i] /\ g[i] \in Seq(S)
<1> DEFINE T == {i \in 1 .. k : ~(g[i] = h[i] /\ g[i] \in Seq(S))}
<1> SUFFICES ASSUME T # {} PROVE FALSE OBVIOUS
<1>1. PICK i \in T : \A j \in T : i <= j
  <2>1. T \subseteq Nat OBVIOUS
  <2>q. QED BY <2>1, Smallest
<1>2. i \in 1 .. k /\ i \in 1 .. m /\ i \in Nat OBVIOUS
<1>3. g[i] = (IF i = 1 THEN ts[i] ELSE g[i - 1] \o ts[i]) /\ h[i] = IF i = 1 THEN us[i] ELSE h[i - 1] \o us[i]
  BY <1>2, FlatAt
<1>4. CASE i = 1 BY <1>2, <1>3, <1>4
<1>5. CASE i # 1
  <2>1. i - 1 \in 1 .. k /\ ~(i <= i - 1) BY <1>2, <1>5
  <2>2. i - 1 \notin T
    <3> HIDE DEF T
    <3>q. QED BY <1>1, <2>1
  <2>3. g[i - 1] = h[i - 1] /\ g[i - 1] \in Seq(S) BY <2>1, <2>2
  <2>4. g[i] = g[i - 1] \o ts[i] /\ h[i] = h[i - 1] \o us[i] BY <1>3, <1>5
  <2>5. ts[i] = us[i] /\ ts[i] \in Seq(S) BY <1>2
  <2>6. g[i - 1] \o ts[i] \in Seq(S) BY <2>3, <2>5
  <2>7. g[i] = h[i] BY <2>3, <2>4, <2>5, Zenon
  <2>q. QED BY <1>1, <2>4, <2>6, <2>7
<1>q. QED BY <1>4, <1>5

LEMMA FlatValue ==
    ASSUME NEW ts, Len(ts) \in Nat, Len(ts) # 0
    PROVE  \E g : IsFlat(g, ts, Len(ts)) /\ FlattenSeq(ts) = g[Len(ts)]
<1> DEFINE c == CHOOSE g : IsFlat(g, ts, Len(ts))
<1>1. IsFlat(c, ts, Len(ts)) BY FlatDefined, Zenon
<1>2. FlattenSeq(ts) = c[Len(ts)] BY Zenon DEF FlattenSeq, IsFlat
<1>q. QED BY <1>1, <1>2

LEMMA FlatEmpty == FlattenSeq(<<>>) = <<>>
<1>1. Len(<<>>) = 0 OBVIOUS
<1>q. QED BY <1>1, Zenon DEF FlattenSeq

LEMMA FlatGrows ==
    ASSUME NEW S, NEW ts \in Seq(Seq(S)), NEW t \in Seq(S)
    PROVE  FlattenSeq(ts) \in Seq(S) /\ FlattenSeq(Append(ts, t)) = FlattenSeq(ts) \o t
<1> DEFINE us == Append(ts, t)
           m == Len(ts)
<1>1. m \in Nat /\ Len(us) = m + 1 /\ us[m + 1] = t /\ \A i \in 1 .. m : us[i] = ts[i] /\ ts[i] \in Seq(S) OBVIOUS
<1> HIDE DEF us, m
<1>2. PICK h : IsFlat(h, us, m + 1) /\ FlattenSeq(us) = h[m + 1]
  <2>1. Len(us) \in Nat /\ Len(us) # 0 BY <1>1
  <2>q. QED BY <1>1, <2>1, FlatValue
<1>3. (m = 0 => h[m + 1] = us[m + 1]) /\ (m # 0 => h[m + 1] = h[m] \o us[m + 1])
  <2> DEFINE k == m + 1
  <2>1. k \in Nat /\ k \in 1 .. k /\ k - 1 = m /\ (k = 1 <=> m = 0) BY <1>1
  <2>2. IsFlat(h, us, k) BY <1>2
  <2> HIDE DEF k
  <2>3. h[k] = IF k = 1 THEN us[k] ELSE h[k - 1] \o us[k] BY <2>1, <2>2, FlatAt
  <2>4. (m = 0 => h[k] = us[k]) /\ (m # 0 => h[k] = h[m] \o us[k]) BY <2>1, <2>3, Zenon
  <2>q. QED BY <2>4 DEF k
<1>4. CASE m = 0
  <2>1. ts = <<>> BY <1>4 DEF m
  <2>2. FlattenSeq(ts) = <<>> BY <2>1, FlatEmpty
  <2>3. FlattenSeq(us) = t BY <1>1, <1>2, <1>3, <1>4
  <2>4. <<>> \o t = t /\ <<>> \in Seq(S) OBVIOUS
  <2>q. QED BY <2>2, <2>3, <2>4 DEF us
<1>5. CASE m # 0
  <2>1. PICK g : IsFlat(g, ts, m) /\ FlattenSeq(ts) = g[m] BY <1>1, <1>5, FlatValue DEF m
  <2>2. m \in 1 .. m /\ m + 1 \in Nat /\ m <= m + 1 /\ m + 1 # 1 /\ m + 1 - 1 = m BY <1>1, <1>5
  <2>3. g[m] = h[m] /\ g[m] \in Seq(S)
    <3>1. \A i \in 1 .. m : ts[i] = us[i] /\ ts[i] \in Seq(S) BY <1>1
    <3>2. \A i \in 1 .. m : g[i] = h[i] /\ g[i] \in Seq(S) BY <1>1, <1>2, <2>1, <2>2, <3>1, FlatAgree
    <3>q. QED BY <2>2, <3>2
  <2>4. FlattenSeq(us) = h[m] \o t BY <1>1, <1>2, <1>3, <2>2
  <2>q. QED BY <2>1, <2>3, <2>4 DEF us
<1>q. QED BY <1>4, <1>5

-----------------------------------------------------------------------------
(* The buffer: what it is after a text has been put to it.                         *)

RoomFor(size) == IF size # 0 THEN size - 1 ELSE 0
HeldOf(size, text) == IF Len(text) < RoomFor(size) THEN Len(text) ELSE RoomFor(size)
BufferOf(size, text) ==
    [mem |-> [i \in 1 .. Cap |-> IF i <= HeldOf(size, text) THEN text[i] ELSE "?"],
     cursor |-> HeldOf(size, text) + 1, room |-> RoomFor(size) - HeldOf(size, text), length |-> Len(text)]

LEMMA AppendIs ==
    ASSUME NEW S, NEW s \in Seq(S), NEW e \in S
    PROVE  /\ Append(s, e) \in Seq(S) /\ Len(Append(s, e)) = Len(s) + 1 /\ Len(s) \in Nat
           /\ Append(s, e)[Len(s) + 1] = e /\ \A i \in 1 .. Len(s) : Append(s, e)[i] = s[i]
OBVIOUS

LEMMA PutchIs ==
    ASSUME NEW size \in 0 .. Cap, NEW text \in Seq(Char), NEW c \in Char
    PROVE  Putch(BufferOf(size, text), c) = BufferOf(size, Append(text, c))
<1> DEFINE b == BufferOf(size, text)
           room == RoomFor(size)
           k == HeldOf(size, text)
           u == Append(text, c)
<1>1. Cap \in Nat /\ size \in Nat /\ size <= Cap
  <2>1. Cap \in Nat BY TextAssumption, Zenon
  <2>q. QED BY <2>1
<1>2. /\ u \in Seq(Char) /\ Len(u) = Len(text) + 1 /\ Len(text) \in Nat /\ u[Len(text) + 1] = c
      /\ \A i \in 1 .. Len(text) : u[i] = text[i]
  <2>1. u \in Seq(Char) BY AppendIs
  <2>2. Len(u) = Len(text) + 1 /\ Len(text) \in Nat BY AppendIs
  <2>3. u[Len(text) + 1] = c BY AppendIs
  <2>4. \A i \in 1 .. Len(text) : u[i] = text[i] BY AppendIs
  <2>q. QED BY <2>1, <2>2, <2>3, <2>4, Zenon
<1>3. room \in Nat /\ (room # 0 => room + 1 <= Cap) BY <1>1 DEF RoomFor
<1>4. k \in Nat /\ k <= room /\ k <= Len(text) /\ (k # room => k = Len(text)) BY <1>2, <1>3 DEF HeldOf
<1>5. HeldOf(size, u) = IF k = room THEN k ELSE k + 1 BY <1>2, <1>3, <1>4 DEF HeldOf
<1>6. /\ b.mem = [i \in 1 .. Cap |-> IF i <= k THEN text[i] ELSE "?"]
      /\ b.cursor = k + 1 /\ b.room = room - k /\ b.length = Len(text)
  BY DEF BufferOf
<1>7. b = [mem |-> b.mem, cursor |-> b.cursor, room |-> b.room, length |-> b.length] BY DEF BufferOf
<1>8. BufferOf(size, u) = [mem |-> [i \in 1 .. Cap |-> IF i <= HeldOf(size, u) THEN u[i] ELSE "?"],
                           cursor |-> HeldOf(size, u) + 1, room |-> room - HeldOf(size, u), length |-> Len(u)]
  BY DEF BufferOf
<1> HIDE DEF b, room, k, u
<1>9. CASE k = room
  <2>1. b.room = 0 BY <1>4, <1>6, <1>9
  <2>2. Putch(b, c) = [b EXCEPT !.length = @ + 1] BY <2>1, Zenon DEF Putch
  <2>3. Putch(b, c) = [mem |-> b.mem, cursor |-> k + 1, room |-> room - k, length |-> Len(text) + 1]
    BY <1>6, <1>7, <2>2
  <2>4. [i \in 1 .. Cap |-> IF i <= k THEN u[i] ELSE "?"] = b.mem
    <3>1. ASSUME NEW i \in 1 .. Cap PROVE (IF i <= k THEN u[i] ELSE "?") = IF i <= k THEN text[i] ELSE "?"
      <4>1. i <= k => i \in 1 .. Len(text) BY <1>1, <1>2, <1>4
      <4>q. QED BY <1>2, <4>1
    <3>q. QED BY <1>6, <3>1, Zenon
  <2>5. HeldOf(size, u) = k BY <1>5, <1>9
  <2>q. QED BY <1>2, <1>8, <2>3, <2>4, <2>5, Zenon DEF b, u
<1>10. CASE k # room
  <2>1. b.room # 0 /\ room # 0 /\ k + 1 \in 1 .. Cap BY <1>1, <1>3, <1>4, <1>6, <1>10
  <2>2. Putch(b, c) = [mem |-> [b.mem EXCEPT ![b.cursor] = c], cursor |-> b.cursor + 1,
                       room |-> b.room - 1, length |-> b.length + 1]
    BY <2>1, Zenon DEF Putch
  <2>3. b.cursor + 1 = (k + 1) + 1 /\ b.room - 1 = room - (k + 1) /\ b.length + 1 = Len(u)
    BY <1>2, <1>3, <1>4, <1>6
  <2>4. [b.mem EXCEPT ![b.cursor] = c] = [i \in 1 .. Cap |-> IF i <= k + 1 THEN u[i] ELSE "?"]
    <3>1. [b.mem EXCEPT ![b.cursor] = c]
             = [i \in 1 .. Cap |-> IF i = k + 1 THEN c ELSE IF i <= k THEN text[i] ELSE "?"]
      BY <1>6, <2>1
    <3>2. ASSUME NEW i \in 1 .. Cap
          PROVE  (IF i = k + 1 THEN c ELSE IF i <= k THEN text[i] ELSE "?") = IF i <= k + 1 THEN u[i] ELSE "?"
      <4>1. i \in Nat /\ i >= 1 BY <1>1
      <4>2. CASE i = k + 1
        <5>1. u[i] = c BY <1>2, <1>4, <1>10, <4>2
        <5>2. i <= k + 1 BY <1>4, <4>2
        <5>q. QED BY <4>2, <5>1, <5>2, Zenon
      <4>3. CASE i # k + 1
        <5>1. (i <= k + 1) <=> (i <= k) BY <1>4, <4>1, <4>3
        <5>2. i <= k => u[i] = text[i] BY <1>2, <1>4, <4>1
        <5>q. QED BY <4>3, <5>1, <5>2, Zenon
      <4>q. QED BY <4>2, <4>3
    <3>q. QED BY <3>1, <3>2, Zenon
  <2>5. HeldOf(size, u) = k + 1 BY <1>5, <1>10
  <2>q. QED BY <1>8, <2>2, <2>3, <2>4, <2>5, Zenon DEF b, u
<1>q. QED BY <1>9, <1>10

LEMMA EmitIs ==
    ASSUME NEW size \in 0 .. Cap, NEW all \in Seq(Char), NEW text \in Seq(Char)
    PROVE  Emit(BufferOf(size, all), text) = BufferOf(size, all \o text)
<1> DEFINE b == BufferOf(size, all)
           upto(i) == all \o SubSeq(text, 1, i)
           E(g) == g = [i \in 0 .. Len(text) |-> IF i = 0 THEN b ELSE Putch(g[i - 1], text[i])]
           w == [i \in 0 .. Len(text) |-> BufferOf(size, upto(i))]
           c == CHOOSE g : E(g)
<1>1. Len(text) \in Nat OBVIOUS
<1>2. upto(0) = all /\ upto(Len(text)) = all \o text OBVIOUS
<1>3. ASSUME NEW i \in 1 .. Len(text)
      PROVE  Putch(BufferOf(size, upto(i - 1)), text[i]) = BufferOf(size, upto(i))
  <2>1. upto(i - 1) \in Seq(Char) /\ text[i] \in Char BY <1>1
  <2>2. upto(i) = Append(upto(i - 1), text[i])
    <3>1. i - 1 \in Nat /\ i \in Nat /\ i >= 1 /\ i <= Len(text) BY <1>1
    <3>2. SubSeq(text, 1, i) = Append(SubSeq(text, 1, i - 1), text[i]) BY <3>1
    <3>3. SubSeq(text, 1, i - 1) \in Seq(Char) BY <3>1
    <3> DEFINE x == SubSeq(text, 1, i - 1)
    <3> HIDE DEF x
    <3>4. all \o Append(x, text[i]) = Append(all \o x, text[i]) BY <2>1, <3>3 DEF x
    <3>q. QED BY <3>2, <3>4 DEF x
  <2> HIDE DEF upto
  <2>q. QED BY <2>1, <2>2, PutchIs
<1>4. ASSUME NEW i \in 0 .. Len(text)
      PROVE  w[i] = IF i = 0 THEN b ELSE Putch(w[i - 1], text[i])
  <2>1. CASE i = 0 BY <1>2, <2>1
  <2>2. CASE i # 0
    <3>1. i \in 1 .. Len(text) /\ i - 1 \in 0 .. Len(text) BY <1>1, <2>2
    <3>2. w[i] = BufferOf(size, upto(i)) /\ w[i - 1] = BufferOf(size, upto(i - 1)) BY <3>1, Zenon
    <3>q. QED BY <1>3, <2>2, <3>1, <3>2, Zenon
  <2>q. QED BY <2>1, <2>2
<1>5. E(w)
  <2>1. w = [i \in 0 .. Len(text) |-> w[i]] OBVIOUS
  <2> HIDE DEF w
  <2>q. QED BY <1>4, <2>1, Zenon
<1>6. E(c) BY <1>5, Zenon
<1>7. Emit(b, text) = c[Len(text)] BY Zenon DEF Emit
<1> HIDE DEF c, b
<1>8. \A i \in 0 .. Len(text) : c[i] = IF i = 0 THEN b ELSE Putch(c[i - 1], text[i]) BY <1>6, Zenon
<1> HIDE DEF w, E
<1> DEFINE T == {i \in 0 .. Len(text) : c[i] # w[i]}
<1>9. T = {}
  <2> SUFFICES ASSUME T # {} PROVE FALSE OBVIOUS
  <2>1. PICK i \in T : \A j \in T : i <= j
    <3>1. T \subseteq Nat BY <1>1
    <3>q. QED BY <3>1, Smallest
  <2>2. i \in 0 .. Len(text) OBVIOUS
  <2>3. CASE i = 0 BY <1>4, <1>8, <2>2, <2>3
  <2>4. CASE i # 0
    <3>1. i - 1 \in 0 .. Len(text) /\ ~(i <= i - 1) BY <1>1, <2>2, <2>4
    <3>2. i - 1 \notin T
      <4> HIDE DEF T
      <4>q. QED BY <2>1, <3>1
    <3>3. c[i - 1] = w[i - 1] BY <3>1, <3>2
    <3>4. c[i] = w[i] BY <1>4, <1>8, <2>2, <2>4, <3>3, Zenon
    <3>q. QED BY <2>1, <3>4
  <2>q. QED BY <2>3, <2>4
<1>10. c[Len(text)] = w[Len(text)] BY <1>1, <1>9
<1>11. w[Len(text)] = BufferOf(size, all \o text)
  <2>1. Len(text) \in 0 .. Len(text) BY <1>1
  <2> HIDE DEF upto
  <2>2. w[Len(text)] = BufferOf(size, upto(Len(text))) BY <2>1, Zenon DEF w
  <2>q. QED BY <1>2, <2>2, Zenon
<1>q. QED BY <1>7, <1>10, <1>11, Zenon DEF b

-----------------------------------------------------------------------------
(* The pieces of a format, where they are in it.                                   *)

CharsOf(c, k) == [i \in 1 .. k |-> c.pieces[i].chars]
FlatTo(c, k) == FlattenSeq(CharsOf(c, k))

LEMMA PiecesAre ==
    ASSUME NEW c, IsFormat(c)
    PROVE  /\ Len(c.pieces) \in Nat /\ DOMAIN c.pieces = 1 .. Len(c.pieces)
           /\ \A i \in 1 .. Len(c.pieces) : /\ c.pieces[i].chars \in Seq(Char)
                                            /\ Len(c.pieces[i].chars) \in Nat /\ Len(c.pieces[i].chars) >= 1
<1>1. Len(c.pieces) \in Nat /\ c.pieces = [i \in 1 .. Len(c.pieces) |-> c.pieces[i]] BY DEF IsFormat, IsSeq
<1>2. DOMAIN c.pieces = 1 .. Len(c.pieces) BY <1>1, Zenon
<1>3. ASSUME NEW i \in 1 .. Len(c.pieces)
      PROVE  /\ c.pieces[i].chars \in Seq(Char)
             /\ Len(c.pieces[i].chars) \in Nat /\ Len(c.pieces[i].chars) >= 1
  <2>1. c.pieces[i].chars \in Seq(Char) /\ c.pieces[i].chars # <<>> BY <1>2, Zenon DEF IsFormat
  <2>q. QED BY <2>1
<1>q. QED BY <1>1, <1>2, <1>3

LEMMA FlatStep ==
    ASSUME NEW c, IsFormat(c)
    PROVE  /\ FlatTo(c, 0) = <<>>
           /\ \A k \in 0 .. Len(c.pieces) : CharsOf(c, k) \in Seq(Seq(Char)) /\ FlatTo(c, k) \in Seq(Char)
           /\ \A k \in 0 .. Len(c.pieces) - 1 : FlatTo(c, k + 1) = FlatTo(c, k) \o c.pieces[k + 1].chars
<1>1. Len(c.pieces) \in Nat /\ \A i \in 1 .. Len(c.pieces) : c.pieces[i].chars \in Seq(Char) BY PiecesAre
<1> DEFINE S == Seq(Char)
           t(i) == c.pieces[i].chars
<1>2. <<>> \in Seq(Char) OBVIOUS
<1>3. \A i \in 1 .. Len(c.pieces) : t(i) \in S BY <1>1
<1> HIDE DEF S, t
<1>4. ASSUME NEW k \in 0 .. Len(c.pieces) PROVE CharsOf(c, k) \in Seq(S) /\ Len(CharsOf(c, k)) = k
  <2>1. k \in Nat /\ \A i \in 1 .. k : t(i) \in S BY <1>1, <1>3
  <2>2. [i \in 1 .. k |-> t(i)] \in Seq(S) /\ Len([i \in 1 .. k |-> t(i)]) = k BY <2>1
  <2>3. CharsOf(c, k) = [i \in 1 .. k |-> t(i)] BY Zenon DEF CharsOf, t
  <2>q. QED BY <2>2, <2>3, Zenon
<1>5. ASSUME NEW k \in 0 .. Len(c.pieces) PROVE FlatTo(c, k) \in Seq(Char)
  <2>1. CharsOf(c, k) \in Seq(Seq(Char)) BY <1>4, Zenon DEF S
  <2>q. QED BY <1>2, <2>1, FlatGrows, Zenon DEF FlatTo
<1>6. FlatTo(c, 0) = <<>>
  <2>1. CharsOf(c, 0) = <<>> BY <1>1, <1>4
  <2>q. QED BY <2>1, FlatEmpty, Zenon DEF FlatTo
<1>7. ASSUME NEW k \in 0 .. Len(c.pieces) - 1 PROVE FlatTo(c, k + 1) = FlatTo(c, k) \o c.pieces[k + 1].chars
  <2>1. k \in Nat /\ k \in 0 .. Len(c.pieces) /\ k + 1 \in 0 .. Len(c.pieces) /\ k + 1 \in 1 .. Len(c.pieces) /\ k + 1 \in Nat
    BY <1>1
  <2>2. t(k + 1) \in S BY <1>3, <2>1
  <2> DEFINE x == CharsOf(c, k)
             y == CharsOf(c, k + 1)
             e == t(k + 1)
  <2>3. x \in Seq(S) /\ Len(x) = k /\ y \in Seq(S) /\ Len(y) = k + 1 BY <1>4, <2>1
  <2>4. \A i \in 1 .. k : y[i] = x[i]
    <3>1. ASSUME NEW i \in 1 .. k PROVE y[i] = t(i) /\ x[i] = t(i)
      <4>1. i \in 1 .. k + 1 BY <2>1
      <4>q. QED BY <4>1, Zenon DEF CharsOf, t
    <3>q. QED BY <3>1, Zenon
  <2>5. y[k + 1] = e
    <3>1. k + 1 \in 1 .. k + 1 BY <2>1
    <3>q. QED BY <3>1, Zenon DEF CharsOf, t
  <2> HIDE DEF x, y, e
  <2>6. Append(x, e) \in Seq(S) /\ Len(Append(x, e)) = k + 1 /\ Append(x, e)[k + 1] = e
        /\ \A i \in 1 .. k : Append(x, e)[i] = x[i]
    BY <2>2, <2>3, AppendIs DEF e
  <2>7. \A i \in 1 .. k + 1 : y[i] = Append(x, e)[i]
    <3>1. ASSUME NEW i \in 1 .. k + 1 PROVE i \in 1 .. k \/ i = k + 1 BY <2>1
    <3>q. QED BY <2>4, <2>5, <2>6, <3>1, Zenon
  <2>8. y = Append(x, e)
    <3> DEFINE z == Append(x, e)
    <3>1. z \in Seq(S) /\ Len(z) = k + 1 /\ \A i \in 1 .. k + 1 : y[i] = z[i] BY <2>6, <2>7
    <3> HIDE DEF z
    <3>2. y = [i \in 1 .. k + 1 |-> y[i]] /\ z = [i \in 1 .. k + 1 |-> z[i]] BY <2>3, <3>1
    <3>q. QED BY <3>1, <3>2, Zenon DEF z
  <2>9. x \in Seq(Seq(Char)) /\ e \in Seq(Char) BY <2>2, <2>3, Zenon DEF S, e
  <2>10. FlattenSeq(Append(x, e)) = FlattenSeq(x) \o e BY <2>9, FlatGrows, Zenon
  <2>q. QED BY <2>8, <2>10, Zenon DEF FlatTo, x, y, e, t
<1>8. \A k \in 0 .. Len(c.pieces) : CharsOf(c, k) \in Seq(Seq(Char)) BY <1>4, Zenon DEF S
<1>q. QED BY <1>5, <1>6, <1>7, <1>8

\* A text is in another from behind a place on.
Placed(big, o, t) ==
    /\ o \in Nat /\ Len(t) \in Nat /\ Len(big) \in Nat /\ o + Len(t) <= Len(big)
    /\ \A j \in 1 .. Len(t) : big[o + j] = t[j]

LEMMA PlacedLast ==
    ASSUME NEW S, NEW u \in Seq(S), NEW t \in Seq(S)
    PROVE  Placed(u \o t, Len(u), t) /\ Len(u \o t) = Len(u) + Len(t)
BY DEF Placed

LEMMA PlacedOn ==
    ASSUME NEW S, NEW big \in Seq(S), NEW u \in Seq(S), NEW o, NEW t, Placed(big, o, t)
    PROVE  Placed(big \o u, o, t)
<1>1. o \in Nat /\ Len(t) \in Nat /\ Len(big) \in Nat /\ Len(u) \in Nat /\ o + Len(t) <= Len(big) /\ Len(big \o u) = Len(big) + Len(u)
  BY DEF Placed
<1>2. ASSUME NEW j \in 1 .. Len(t) PROVE (big \o u)[o + j] = t[j]
  <2>1. o + j \in 1 .. Len(big) BY <1>1
  <2>2. (big \o u)[o + j] = big[o + j] BY <2>1
  <2>q. QED BY <2>2 DEF Placed
<1>q. QED BY <1>1, <1>2 DEF Placed

LEMMA PieceAt ==
    ASSUME NEW c, IsFormat(c), NEW k \in 0 .. Len(c.pieces) - 1
    PROVE  /\ Placed(FlatTo(c, Len(c.pieces)), Len(FlatTo(c, k)), c.pieces[k + 1].chars)
           /\ Len(FlatTo(c, k + 1)) = Len(FlatTo(c, k)) + Len(c.pieces[k + 1].chars)
<1> DEFINE N == Len(c.pieces)
           o == Len(FlatTo(c, k))
           t == c.pieces[k + 1].chars
           T == {m \in k + 1 .. N : ~Placed(FlatTo(c, m), o, t)}
<1>1. N \in Nat /\ k \in Nat /\ k + 1 \in 1 .. N /\ t \in Seq(Char)
  <2>1. N \in Nat BY PiecesAre
  <2>2. k \in Nat /\ k + 1 \in 1 .. N BY <2>1
  <2>q. QED BY <2>1, <2>2, PiecesAre
<1>2. \A m \in 0 .. N : FlatTo(c, m) \in Seq(Char) BY FlatStep
<1>3. \A m \in 0 .. N - 1 : FlatTo(c, m + 1) = FlatTo(c, m) \o c.pieces[m + 1].chars BY FlatStep
<1> HIDE DEF N, t
<1>4. Placed(FlatTo(c, k + 1), o, t) /\ Len(FlatTo(c, k + 1)) = o + Len(t)
  <2>1. k \in 0 .. N - 1 /\ k \in 0 .. N BY <1>1
  <2>2. FlatTo(c, k + 1) = FlatTo(c, k) \o t BY <1>3, <2>1 DEF t
  <2>3. FlatTo(c, k) \in Seq(Char) BY <1>2, <2>1
  <2>q. QED BY <1>1, <2>2, <2>3, PlacedLast
<1> HIDE DEF o
<1>5. T = {}
  <2> SUFFICES ASSUME T # {} PROVE FALSE OBVIOUS
  <2>1. PICK m \in T : \A j \in T : m <= j
    <3>1. T \subseteq Nat BY <1>1
    <3>q. QED BY <3>1, Smallest
  <2>2. m \in k + 1 .. N /\ m \in Nat BY <1>1
  <2>3. m # k + 1 BY <1>4
  <2>4. m - 1 \in k + 1 .. N /\ ~(m <= m - 1) /\ m - 1 \in 0 .. N - 1 /\ m - 1 \in 0 .. N /\ (m - 1) + 1 = m /\ m \in 1 .. N
    BY <1>1, <2>2, <2>3
  <2>5. m - 1 \notin T
    <3> HIDE DEF T
    <3>q. QED BY <2>1, <2>4
  <2>6. Placed(FlatTo(c, m - 1), o, t) BY <2>4, <2>5
  <2>7. FlatTo(c, m) = FlatTo(c, m - 1) \o c.pieces[m].chars
    <3>1. FlatTo(c, (m - 1) + 1) = FlatTo(c, m - 1) \o c.pieces[(m - 1) + 1].chars BY <1>3, <2>4
    <3>q. QED BY <2>4, <3>1
  <2>8. FlatTo(c, m - 1) \in Seq(Char) /\ c.pieces[m].chars \in Seq(Char) BY <1>2, <2>4, PiecesAre DEF N
  <2>9. Placed(FlatTo(c, m), o, t) BY <2>6, <2>7, <2>8, PlacedOn
  <2>q. QED BY <2>1, <2>9
<1>6. Placed(FlatTo(c, N), o, t)
  <2>1. N \in k + 1 .. N BY <1>1
  <2>q. QED BY <1>5, <2>1
<1>q. QED BY <1>4, <1>6 DEF N, o, t

-----------------------------------------------------------------------------
(* A directive means in the format what it means by itself.                        *)

LEMMA EndOfIs ==
    ASSUME NEW i \in Nat, NEW k, NEW kinds, Len(Format) \in Nat, k \in i .. Len(Format) + 1, Run(Format, i, k, kinds)
    PROVE  EndOf(i, kinds) = k
<1> DEFINE N == Len(Format)
           P(x) == Run(Format, i, x, kinds)
           c == CHOOSE x \in i .. N + 1 : P(x)
<1>1. c \in i .. N + 1 /\ P(c)
  <2>1. \E x \in i .. N + 1 : P(x) OBVIOUS
  <2> HIDE DEF P
  <2>q. QED BY <2>1, Zenon
<1>2. EndOf(i, kinds) = c BY Zenon DEF EndOf
<1> HIDE DEF c
<1>3. ~(c < k)
  <2> SUFFICES ASSUME c < k PROVE FALSE OBVIOUS
  <2>1. c \in i .. k - 1 /\ c # N + 1 BY <1>1
  <2>q. QED BY <1>1, <2>1 DEF Run
<1>4. ~(k < c)
  <2> SUFFICES ASSUME k < c PROVE FALSE OBVIOUS
  <2>1. k \in i .. c - 1 /\ k # N + 1 BY <1>1
  <2>q. QED BY <1>1, <2>1 DEF Run
<1>q. QED BY <1>1, <1>2, <1>3, <1>4

LEMMA RunMoved ==
    ASSUME NEW big, NEW o, NEW t, Placed(big, o, t), NEW i \in Nat, i >= 1, NEW j \in i .. Len(t) + 1, NEW kinds,
           Run(t, i, j, kinds), j <= Len(t) \/ o + Len(t) = Len(big)
    PROVE  Run(big, o + i, o + j, kinds)
<1>1. o \in Nat /\ Len(t) \in Nat /\ Len(big) \in Nat /\ o + Len(t) <= Len(big) /\ j \in Nat BY DEF Placed
<1>2. \A x \in 1 .. Len(t) : big[o + x] = t[x] BY DEF Placed
<1>3. ASSUME NEW k \in o + i .. (o + j) - 1 PROVE big[k] \in kinds
  <2>1. k - o \in i .. j - 1 /\ k - o \in 1 .. Len(t) /\ o + (k - o) = k BY <1>1
  <2>2. t[k - o] \in kinds BY <2>1 DEF Run
  <2>3. big[o + (k - o)] = t[k - o] BY <1>2, <2>1
  <2>q. QED BY <2>1, <2>2, <2>3
<1>4. o + j = Len(big) + 1 \/ big[o + j] \notin kinds
  <2>1. CASE j <= Len(t)
    <3>1. j \in 1 .. Len(t) /\ j # Len(t) + 1 BY <1>1, <2>1
    <3>2. t[j] \notin kinds BY <3>1 DEF Run
    <3>q. QED BY <1>2, <3>1, <3>2
  <2>2. CASE ~(j <= Len(t))
    <3>1. j = Len(t) + 1 BY <1>1, <2>2
    <3>2. o + Len(t) = Len(big) BY <2>2
    <3>q. QED BY <1>1, <3>1, <3>2
  <2>q. QED BY <2>1, <2>2
<1>q. QED BY <1>3, <1>4, Zenon DEF Run

LEMMA NumberMoved ==
    ASSUME NEW big, NEW o, NEW t, Placed(big, o, t), NEW i \in Nat, i >= 1, NEW j \in i .. Len(t) + 1
    PROVE  NumberIn(big, o + i, o + j) = NumberIn(t, i, j)
<1>1. o \in Nat /\ Len(t) \in Nat /\ j \in Nat BY DEF Placed
<1>2. \A x \in 1 .. Len(t) : big[o + x] = t[x] BY DEF Placed
<1>3. (o + j) - (o + i) = j - i BY <1>1
<1>4. ASSUME NEW k \in 1 .. j - i PROVE DigitOf(big[(o + i) + k - 1]) = DigitOf(t[i + k - 1])
  <2>1. i + k - 1 \in 1 .. Len(t) /\ (o + i) + k - 1 = o + (i + k - 1) BY <1>1
  <2>2. big[o + (i + k - 1)] = t[i + k - 1] BY <1>2, <2>1
  <2>q. QED BY <2>1, <2>2
<1>5. [k \in 1 .. j - i |-> DigitOf(big[(o + i) + k - 1])] = [k \in 1 .. j - i |-> DigitOf(t[i + k - 1])]
  BY <1>4, Zenon
<1>q. QED BY <1>3, <1>5, Zenon DEF NumberIn

LEMMA DirectiveIs ==
    ASSUME NEW p, IsDirective(p), p.chars \in Seq(Char), NEW o, Placed(Format, o, p.chars),
           p.conv = "nul" => o + Len(p.chars) = Len(Format)
    PROVE  /\ Directive(o + 2).left <=> p.left
           /\ Directive(o + 2).zero <=> p.zero
           /\ Directive(o + 2).width = p.width /\ Directive(o + 2).prec = p.prec /\ Directive(o + 2).conv = p.conv
           /\ Directive(o + 2).next = o + Len(p.chars) + 1
<1> DEFINE t == p.chars
           N == Len(Format)
<1>1. o \in Nat /\ Len(t) \in Nat /\ N \in Nat /\ o + Len(t) <= N BY DEF Placed
<1>2. \A x \in 1 .. Len(t) : Format[o + x] = t[x] BY DEF Placed
<1>3. PICK a \in 2 .. Len(t) + 1 :
        /\ Run(t, 2, a, FlagChars)
        /\ p.left <=> \E k \in 2 .. a - 1 : t[k] = "-"
        /\ p.zero <=> \E k \in 2 .. a - 1 : t[k] = "0"
        /\ \E b \in a .. Len(t) + 1 :
              /\ Run(t, a, b, Digit) /\ p.width = NumberIn(t, a, b)
              /\ \E c \in b .. Len(t) + 1 :
                    /\ IF b <= Len(t) /\ t[b] = "."
                         THEN c > b /\ Run(t, b + 1, c, Digit) /\ p.prec = NumberIn(t, b + 1, c)
                         ELSE c = b /\ p.prec = -1
                    /\ \E d \in c .. Len(t) + 1 :
                          /\ Run(t, c, d, Modifiers)
                          /\ IF d = Len(t) THEN p.conv = t[d] ELSE d > Len(t) /\ p.conv = "nul"
  BY Zenon DEF IsDirective
<1>4. PICK b \in a .. Len(t) + 1 :
        /\ Run(t, a, b, Digit) /\ p.width = NumberIn(t, a, b)
        /\ \E c \in b .. Len(t) + 1 :
              /\ IF b <= Len(t) /\ t[b] = "."
                   THEN c > b /\ Run(t, b + 1, c, Digit) /\ p.prec = NumberIn(t, b + 1, c)
                   ELSE c = b /\ p.prec = -1
              /\ \E d \in c .. Len(t) + 1 :
                    /\ Run(t, c, d, Modifiers)
                    /\ IF d = Len(t) THEN p.conv = t[d] ELSE d > Len(t) /\ p.conv = "nul"
  BY <1>3, Zenon
<1>5. PICK c \in b .. Len(t) + 1 :
        /\ IF b <= Len(t) /\ t[b] = "."
             THEN c > b /\ Run(t, b + 1, c, Digit) /\ p.prec = NumberIn(t, b + 1, c)
             ELSE c = b /\ p.prec = -1
        /\ \E d \in c .. Len(t) + 1 :
              /\ Run(t, c, d, Modifiers)
              /\ IF d = Len(t) THEN p.conv = t[d] ELSE d > Len(t) /\ p.conv = "nul"
  BY <1>4, Zenon
<1>6. PICK d \in c .. Len(t) + 1 :
        /\ Run(t, c, d, Modifiers)
        /\ IF d = Len(t) THEN p.conv = t[d] ELSE d > Len(t) /\ p.conv = "nul"
  BY <1>5, Zenon
<1> DEFINE dot == b <= Len(t) /\ t[b] = "."
<1>7. dot => c > b /\ Run(t, b + 1, c, Digit) /\ p.prec = NumberIn(t, b + 1, c) BY <1>5
<1>8. ~dot => c = b /\ p.prec = -1 BY <1>5
<1>9. a \in Nat /\ b \in Nat /\ c \in Nat /\ d \in Nat /\ 2 <= a /\ a <= b /\ b <= c /\ c <= d /\ d <= Len(t) + 1 BY <1>1
<1>10. (d = Len(t) /\ p.conv = t[d]) \/ (d = Len(t) + 1 /\ p.conv = "nul" /\ o + Len(t) = N) BY <1>1, <1>6, <1>9
<1>11. \A x \in 2 .. d : x <= Len(t) \/ o + Len(t) = N BY <1>1, <1>9, <1>10
<1>12. Placed(Format, o, t) OBVIOUS
<1> HIDE DEF t, N
<1> DEFINE D == Directive(o + 2)
           flags == EndOf(o + 2, FlagChars)
           width == EndOf(flags, Digit)
           point == width <= N /\ Format[width] = "."
           prec == IF point THEN EndOf(width + 1, Digit) ELSE width
           mods == EndOf(prec, Modifiers)
<1>13. ASSUME NEW i, NEW j, NEW kinds, i \in 2 .. j, j \in 2 .. d, Run(t, i, j, kinds)
       PROVE  EndOf(o + i, kinds) = o + j
  <2>1. i \in Nat /\ i >= 1 /\ j \in i .. Len(t) + 1 /\ (j <= Len(t) \/ o + Len(t) = N) BY <1>1, <1>9, <1>11, <1>13
  <2>2. Run(Format, o + i, o + j, kinds) BY <1>12, <1>13, <2>1, RunMoved DEF N
  <2>3. o + i \in Nat /\ o + j \in o + i .. N + 1 BY <1>1, <1>9, <2>1
  <2>q. QED BY <1>1, <2>2, <2>3, EndOfIs DEF N
<1>14. flags = o + a
  <2>1. 2 \in 2 .. a /\ a \in 2 .. d BY <1>9
  <2>q. QED BY <1>3, <1>13, <2>1
<1>15. width = o + b
  <2>1. a \in 2 .. b /\ b \in 2 .. d BY <1>9
  <2>2. EndOf(o + a, Digit) = o + b BY <1>4, <1>13, <2>1
  <2>q. QED BY <1>14, <2>2, Zenon
<1>16. point <=> dot
  <2>1. CASE b <= Len(t)
    <3>1. b \in 1 .. Len(t) /\ o + b <= N BY <1>1, <1>9, <2>1
    <3>2. Format[o + b] = t[b] BY <1>2, <3>1 DEF t
    <3>q. QED BY <1>15, <2>1, <3>1, <3>2
  <2>2. CASE ~(b <= Len(t))
    <3>1. o + Len(t) = N /\ b > Len(t) BY <1>1, <1>9, <1>11, <2>2
    <3>2. ~(o + b <= N) BY <1>1, <1>9, <3>1
    <3>q. QED BY <1>15, <2>2, <3>2
  <2>q. QED BY <2>1, <2>2
<1>17. prec = o + c
  <2>1. CASE dot
    <3>1. b + 1 \in 2 .. c /\ c \in 2 .. d BY <1>7, <1>9, <2>1
    <3>2. EndOf(o + (b + 1), Digit) = o + c BY <1>7, <1>13, <2>1, <3>1
    <3>3. width + 1 = o + (b + 1) BY <1>1, <1>9, <1>15
    <3>q. QED BY <1>16, <2>1, <3>2, <3>3, Zenon
  <2>2. CASE ~dot BY <1>8, <1>15, <1>16, <2>2
  <2>q. QED BY <2>1, <2>2
<1>18. mods = o + d
  <2>1. c \in 2 .. d /\ d \in 2 .. d BY <1>9
  <2>2. EndOf(o + c, Modifiers) = o + d BY <1>6, <1>13, <2>1
  <2>q. QED BY <1>17, <2>2, Zenon
<1>19. D = [left  |-> \E j \in o + 2 .. flags - 1 : Format[j] = "-",
            zero  |-> \E j \in o + 2 .. flags - 1 : Format[j] = "0",
            width |-> NumberIn(Format, flags, width),
            prec  |-> IF point THEN NumberIn(Format, width + 1, prec) ELSE -1,
            conv  |-> IF mods <= N THEN Format[mods] ELSE "nul",
            next  |-> IF mods <= N THEN mods + 1 ELSE mods]
  BY Zenon DEF Directive, N
<1> HIDE DEF flags, width, point, prec, mods, D
<1>20. D.left <=> p.left
  <2>1. (\E j \in o + 2 .. flags - 1 : Format[j] = "-") <=> \E k \in 2 .. a - 1 : t[k] = "-"
    <3>1. ASSUME NEW j \in o + 2 .. flags - 1 PROVE j - o \in 2 .. a - 1 /\ Format[j] = t[j - o]
      <4>1. j - o \in 2 .. a - 1 /\ j - o \in 1 .. Len(t) /\ o + (j - o) = j BY <1>1, <1>9, <1>14
      <4>2. Format[o + (j - o)] = t[j - o] BY <1>2, <4>1 DEF t
      <4>q. QED BY <4>1, <4>2
    <3>2. ASSUME NEW k \in 2 .. a - 1 PROVE o + k \in o + 2 .. flags - 1 /\ Format[o + k] = t[k]
      <4>1. o + k \in o + 2 .. flags - 1 /\ k \in 1 .. Len(t) BY <1>1, <1>9, <1>14
      <4>q. QED BY <1>2, <4>1 DEF t
    <3>q. QED BY <3>1, <3>2, Zenon
  <2>2. D.left = \E j \in o + 2 .. flags - 1 : Format[j] = "-" BY <1>19
  <2>q. QED BY <1>3, <2>1, <2>2, Zenon
<1>21. D.zero <=> p.zero
  <2>1. (\E j \in o + 2 .. flags - 1 : Format[j] = "0") <=> \E k \in 2 .. a - 1 : t[k] = "0"
    <3>1. ASSUME NEW j \in o + 2 .. flags - 1 PROVE j - o \in 2 .. a - 1 /\ Format[j] = t[j - o]
      <4>1. j - o \in 2 .. a - 1 /\ j - o \in 1 .. Len(t) /\ o + (j - o) = j BY <1>1, <1>9, <1>14
      <4>2. Format[o + (j - o)] = t[j - o] BY <1>2, <4>1 DEF t
      <4>q. QED BY <4>1, <4>2
    <3>2. ASSUME NEW k \in 2 .. a - 1 PROVE o + k \in o + 2 .. flags - 1 /\ Format[o + k] = t[k]
      <4>1. o + k \in o + 2 .. flags - 1 /\ k \in 1 .. Len(t) BY <1>1, <1>9, <1>14
      <4>q. QED BY <1>2, <4>1 DEF t
    <3>q. QED BY <3>1, <3>2, Zenon
  <2>2. D.zero = \E j \in o + 2 .. flags - 1 : Format[j] = "0" BY <1>19
  <2>q. QED BY <1>3, <2>1, <2>2, Zenon
<1>22. D.width = p.width
  <2>1. a >= 1 /\ b \in a .. Len(t) + 1 BY <1>9
  <2>2. NumberIn(Format, o + a, o + b) = NumberIn(t, a, b) BY <1>9, <1>12, <2>1, NumberMoved
  <2>3. D.width = NumberIn(Format, flags, width) BY <1>19
  <2>q. QED BY <1>4, <1>14, <1>15, <2>2, <2>3, Zenon
<1>23. D.prec = p.prec
  <2>1. D.prec = IF point THEN NumberIn(Format, width + 1, prec) ELSE -1 BY <1>19
  <2>2. CASE dot
    <3>1. b + 1 \in Nat /\ b + 1 >= 1 /\ c \in b + 1 .. Len(t) + 1 /\ width + 1 = o + (b + 1)
      BY <1>1, <1>7, <1>9, <1>15, <2>2
    <3>2. NumberIn(Format, o + (b + 1), o + c) = NumberIn(t, b + 1, c) BY <1>12, <3>1, NumberMoved
    <3>q. QED BY <1>7, <1>16, <1>17, <2>1, <2>2, <3>1, <3>2, Zenon
  <2>3. CASE ~dot BY <1>8, <1>16, <2>1, <2>3, Zenon
  <2>q. QED BY <2>2, <2>3
<1>24. D.conv = p.conv /\ D.next = o + Len(t) + 1
  <2>1. D.conv = (IF mods <= N THEN Format[mods] ELSE "nul") /\ D.next = IF mods <= N THEN mods + 1 ELSE mods BY <1>19
  <2>2. CASE d = Len(t) /\ p.conv = t[d]
    <3>1. mods <= N /\ d \in 1 .. Len(t) /\ mods + 1 = o + Len(t) + 1 BY <1>1, <1>9, <1>18, <2>2
    <3>2. Format[o + d] = t[d] BY <1>2, <3>1 DEF t
    <3>q. QED BY <1>18, <2>1, <2>2, <3>1, <3>2, Zenon
  <2>3. CASE d = Len(t) + 1 /\ p.conv = "nul" /\ o + Len(t) = N
    <3>1. ~(mods <= N) /\ mods = o + Len(t) + 1 BY <1>1, <1>18, <2>3
    <3>q. QED BY <2>1, <2>3, <3>1, Zenon
  <2>q. QED BY <1>10, <2>2, <2>3
<1>q. QED BY <1>20, <1>21, <1>22, <1>23, <1>24 DEF D, t

-----------------------------------------------------------------------------
(* Numerals: fmt_digits() writes a number as its digits make it again.             *)

Radix == {10, 16}
IsPositional(g, ds, radix, k) == g = [i \in 0 .. k |-> IF i = 0 THEN 0 ELSE g[i - 1] * radix + ds[i]]

LEMMA PositionalDefined == ASSUME NEW ds, NEW radix, NEW m \in Nat PROVE \E g : IsPositional(g, ds, radix, m)
<1> DEFINE T == {k \in Nat : ~ \E g : IsPositional(g, ds, radix, k)}
<1>1. T = {}
  <2> SUFFICES ASSUME T # {} PROVE FALSE OBVIOUS
  <2>1. PICK k \in T : \A j \in T : k <= j BY Smallest
  <2>2. CASE k = 0
    <3>1. IsPositional([i \in 0 .. 0 |-> 0], ds, radix, 0) BY DEF IsPositional
    <3>q. QED BY <2>2, <3>1
  <2>3. CASE k # 0
    <3>1. k - 1 \in Nat /\ k \in Nat BY <2>3
    <3>2. k - 1 \notin T
      <4>1. ~(k <= k - 1) BY <3>1
      <4> HIDE DEF T
      <4>q. QED BY <2>1, <4>1
    <3>3. PICK g : IsPositional(g, ds, radix, k - 1) BY <3>1, <3>2
    <3> DEFINE last == g[k - 1] * radix + ds[k]
               h == [i \in 0 .. k |-> IF i < k THEN g[i] ELSE last]
    <3> HIDE DEF last
    <3>4. ASSUME NEW i \in 0 .. k
          PROVE  h[i] = IF i = 0 THEN 0 ELSE h[i - 1] * radix + ds[i]
      <4>1. CASE i = k
        <5>1. h[k] = last /\ h[k - 1] = g[k - 1] BY <3>1
        <5> HIDE DEF h
        <5>q. QED BY <2>3, <4>1, <5>1, Zenon DEF last
      <4>2. CASE i # k
        <5>1. i \in 0 .. k - 1 BY <3>1, <4>2
        <5>2. g[i] = IF i = 0 THEN 0 ELSE g[i - 1] * radix + ds[i] BY <3>3, <5>1, Zenon DEF IsPositional
        <5>3. h[i] = g[i] /\ (i # 0 => h[i - 1] = g[i - 1]) BY <3>1, <5>1
        <5> HIDE DEF h
        <5>q. QED BY <5>2, <5>3, Zenon
      <4>q. QED BY <4>1, <4>2
    <3>5. h = [i \in 0 .. k |-> h[i]] OBVIOUS
    <3> HIDE DEF h
    <3>6. IsPositional(h, ds, radix, k) BY <3>4, <3>5, Zenon DEF IsPositional
    <3>q. QED BY <3>6
  <2>q. QED BY <2>2, <2>3
<1>q. QED BY <1>1

LEMMA PositionalValue ==
    ASSUME NEW ds, NEW radix, Len(ds) \in Nat
    PROVE  \E g : IsPositional(g, ds, radix, Len(ds)) /\ Positional(ds, radix) = g[Len(ds)]
<1> DEFINE c == CHOOSE g : IsPositional(g, ds, radix, Len(ds))
<1>1. IsPositional(c, ds, radix, Len(ds)) BY PositionalDefined, Zenon
<1>2. Positional(ds, radix) = c[Len(ds)] BY Zenon DEF Positional, IsPositional
<1>q. QED BY <1>1, <1>2

\* With x zeros in front the digits make the same numbers.
Leads(x, ds, k, es, m) ==
    /\ k \in Nat /\ m \in Nat /\ x \in Nat /\ x + k <= m
    /\ \A i \in 1 .. x : es[i] = 0
    /\ \A i \in 1 .. k : es[x + i] = ds[i] /\ ds[i] \in Nat
LEMMA PositionalAgree ==
    ASSUME NEW x, NEW ds, NEW k, NEW es, NEW m, Leads(x, ds, k, es, m), NEW radix \in Radix, NEW g, NEW h,
           IsPositional(g, ds, radix, k), IsPositional(h, es, radix, m)
    PROVE  \A i \in 0 .. k : h[x + i] = g[i] /\ g[i] \in Nat
<1> USE DEF Leads
<1> DEFINE L == {i \in 0 .. x : h[i] # 0}
           T == {i \in 0 .. k : ~(h[x + i] = g[i] /\ g[i] \in Nat)}
<1>1. radix = 10 \/ radix = 16 BY DEF Radix
<1>2. L = {}
  <2> SUFFICES ASSUME L # {} PROVE FALSE OBVIOUS
  <2>1. PICK i \in L : \A j \in L : i <= j
    <3>1. L \subseteq Nat OBVIOUS
    <3>q. QED BY <3>1, Smallest
  <2>2. i \in 0 .. x /\ i \in 0 .. m OBVIOUS
  <2>3. h[i] = IF i = 0 THEN 0 ELSE h[i - 1] * radix + es[i] BY <2>2, Zenon DEF IsPositional
  <2>4. i # 0 BY <2>1, <2>3
  <2>5. i - 1 \in 0 .. x /\ ~(i <= i - 1) /\ i \in 1 .. x BY <2>2, <2>4
  <2>6. i - 1 \notin L
    <3> HIDE DEF L
    <3>q. QED BY <2>1, <2>5
  <2>7. h[i - 1] = 0 /\ es[i] = 0 BY <2>5, <2>6
  <2>8. h[i] = 0 BY <1>1, <2>3, <2>4, <2>7
  <2>q. QED BY <2>1, <2>8
<1>3. h[x] = 0 BY <1>2
<1>4. T = {}
  <2> SUFFICES ASSUME T # {} PROVE FALSE OBVIOUS
  <2>1. PICK i \in T : \A j \in T : i <= j
    <3>1. T \subseteq Nat OBVIOUS
    <3>q. QED BY <3>1, Smallest
  <2>2. i \in 0 .. k /\ x + i \in 0 .. m OBVIOUS
  <2>3. g[i] = IF i = 0 THEN 0 ELSE g[i - 1] * radix + ds[i] BY <2>2, Zenon DEF IsPositional
  <2>4. CASE i = 0
    <3>1. g[i] = 0 /\ x + i = x BY <2>3, <2>4
    <3>q. QED BY <1>3, <2>1, <3>1
  <2>5. CASE i # 0
    <3>1. i - 1 \in 0 .. k /\ ~(i <= i - 1) /\ i \in 1 .. k /\ x + i # 0 /\ (x + i) - 1 = x + (i - 1) BY <2>2, <2>5
    <3>2. i - 1 \notin T
      <4> HIDE DEF T
      <4>q. QED BY <2>1, <3>1
    <3>3. h[x + (i - 1)] = g[i - 1] /\ g[i - 1] \in Nat BY <3>1, <3>2
    <3>4. h[x + i] = h[x + (i - 1)] * radix + es[x + i]
      <4> DEFINE j == x + i
      <4>1. j \in 0 .. m /\ j # 0 /\ j - 1 = x + (i - 1) BY <2>2, <3>1
      <4> HIDE DEF j
      <4>2. h[j] = IF j = 0 THEN 0 ELSE h[j - 1] * radix + es[j] BY <4>1, Zenon DEF IsPositional
      <4>3. h[j] = h[x + (i - 1)] * radix + es[j] BY <4>1, <4>2, Zenon
      <4>q. QED BY <4>3 DEF j
    <3>5. g[i] = g[i - 1] * radix + ds[i] /\ es[x + i] = ds[i] /\ ds[i] \in Nat BY <2>3, <2>5, <3>1
    <3>6. h[x + i] = g[i] BY <3>3, <3>4, <3>5, Zenon
    <3>7. g[i] \in Nat BY <1>1, <3>3, <3>5
    <3>q. QED BY <2>1, <3>6, <3>7
  <2>q. QED BY <2>4, <2>5
<1>q. QED BY <1>4

LEMMA PositionalLead ==
    ASSUME NEW radix \in Radix, NEW ds \in Seq(Nat), NEW es \in Seq(Nat), NEW x \in Nat, Len(es) = x + Len(ds),
           \A i \in 1 .. x : es[i] = 0, \A i \in 1 .. Len(ds) : es[x + i] = ds[i]
    PROVE  Positional(es, radix) = Positional(ds, radix)
<1>1. Len(ds) \in Nat /\ Len(es) \in Nat /\ x + Len(ds) <= Len(es) /\ \A i \in 1 .. Len(ds) : ds[i] \in Nat OBVIOUS
<1>2. PICK g : IsPositional(g, ds, radix, Len(ds)) /\ Positional(ds, radix) = g[Len(ds)] BY <1>1, PositionalValue
<1>3. PICK h : IsPositional(h, es, radix, Len(es)) /\ Positional(es, radix) = h[Len(es)] BY <1>1, PositionalValue
<1>4. \A i \in 1 .. Len(ds) : es[x + i] = ds[i] /\ ds[i] \in Nat BY <1>1
<1>5. \A i \in 0 .. Len(ds) : h[x + i] = g[i] /\ g[i] \in Nat
  <2>1. Leads(x, ds, Len(ds), es, Len(es)) BY <1>1, <1>4 DEF Leads
  <2>q. QED BY <1>2, <1>3, <2>1, PositionalAgree, Zenon
<1>6. Len(ds) \in 0 .. Len(ds) BY <1>1
<1>7. h[x + Len(ds)] = g[Len(ds)] BY <1>5, <1>6
<1>q. QED BY <1>2, <1>3, <1>7

LEMMA PositionalAppend ==
    ASSUME NEW radix \in Radix, NEW ds \in Seq(Nat), NEW e \in Nat
    PROVE  Positional(ds, radix) \in Nat /\ Positional(Append(ds, e), radix) = Positional(ds, radix) * radix + e
<1> DEFINE es == Append(ds, e)
           m == Len(ds)
<1>1. /\ m \in Nat /\ Len(es) = m + 1 /\ es[m + 1] = e /\ Len(es) \in Nat /\ 0 + m <= m + 1
      /\ \A i \in 1 .. m : es[i] = ds[i] /\ ds[i] \in Nat
  OBVIOUS
<1> HIDE DEF es, m
<1>2. PICK g : IsPositional(g, ds, radix, m) /\ Positional(ds, radix) = g[m] BY <1>1, PositionalValue DEF m
<1>3. PICK h : IsPositional(h, es, radix, m + 1) /\ Positional(es, radix) = h[m + 1] BY <1>1, PositionalValue
<1>4. h[m] = g[m] /\ g[m] \in Nat
  <2>1. \A i \in 1 .. 0 : es[i] = 0 OBVIOUS
  <2>2. \A i \in 1 .. m : es[0 + i] = ds[i] /\ ds[i] \in Nat BY <1>1
  <2>3. 0 \in Nat /\ m + 1 \in Nat BY <1>1
  <2>4. \A i \in 0 .. m : h[0 + i] = g[i] /\ g[i] \in Nat
    <3>1. Leads(0, ds, m, es, m + 1) BY <1>1, <2>1, <2>2, <2>3 DEF Leads
    <3>q. QED BY <1>2, <1>3, <3>1, PositionalAgree, Zenon
  <2>5. m \in 0 .. m /\ 0 + m = m BY <1>1
  <2>q. QED BY <2>4, <2>5
<1>5. h[m + 1] = h[m] * radix + es[m + 1]
  <2> DEFINE k == m + 1
  <2>1. k \in Nat /\ k \in 0 .. k /\ k - 1 = m /\ k # 0 BY <1>1
  <2>2. IsPositional(h, es, radix, k) BY <1>3
  <2> HIDE DEF k
  <2>3. h[k] = IF k = 0 THEN 0 ELSE h[k - 1] * radix + es[k] BY <2>1, <2>2, Zenon DEF IsPositional
  <2>4. h[k] = h[m] * radix + es[k] BY <2>1, <2>3, Zenon
  <2>q. QED BY <2>4 DEF k
<1>q. QED BY <1>1, <1>2, <1>3, <1>4, <1>5 DEF es

\* The sixteen figures are different.
Figure == {Hex, HEX}
Rank(c) ==
    CASE c = "0" -> 1
      [] c = "1" -> 2
      [] c = "2" -> 3
      [] c = "3" -> 4
      [] c = "4" -> 5
      [] c = "5" -> 6
      [] c = "6" -> 7
      [] c = "7" -> 8
      [] c = "8" -> 9
      [] c = "9" -> 10
      [] c \in {"a", "A"} -> 11
      [] c \in {"b", "B"} -> 12
      [] c \in {"c", "C"} -> 13
      [] c \in {"d", "D"} -> 14
      [] c \in {"e", "E"} -> 15
      [] c \in {"f", "F"} -> 16

LEMMA FiguresAre ==
    ASSUME NEW dig \in Figure
    PROVE  /\ dig[1] = "0"
           /\ \A k \in 1 .. 16 : dig[k] \in Char /\ Rank(dig[k]) = k
<1>1. /\ Rank("0") = 1 /\ Rank("1") = 2 /\ Rank("2") = 3 /\ Rank("3") = 4 /\ Rank("4") = 5 /\ Rank("5") = 6 /\ Rank("6") = 7 /\ Rank("7") = 8
      /\ Rank("8") = 9 /\ Rank("9") = 10 /\ Rank("a") = 11 /\ Rank("b") = 12 /\ Rank("c") = 13 /\ Rank("d") = 14 /\ Rank("e") = 15 /\ Rank("f") = 16
      /\ Rank("A") = 11 /\ Rank("B") = 12 /\ Rank("C") = 13 /\ Rank("D") = 14 /\ Rank("E") = 15 /\ Rank("F") = 16
  BY DEF Rank
<1>2. \A k \in 1 .. 16 : k = 1 \/ k = 2 \/ k = 3 \/ k = 4 \/ k = 5 \/ k = 6 \/ k = 7 \/ k = 8
                            \/ k = 9 \/ k = 10 \/ k = 11 \/ k = 12 \/ k = 13 \/ k = 14 \/ k = 15 \/ k = 16
  OBVIOUS
<1>3. /\ Hex[1] = "0" /\ Hex[2] = "1" /\ Hex[3] = "2" /\ Hex[4] = "3" /\ Hex[5] = "4" /\ Hex[6] = "5"
      /\ Hex[7] = "6" /\ Hex[8] = "7" /\ Hex[9] = "8" /\ Hex[10] = "9" /\ Hex[11] = "a" /\ Hex[12] = "b"
      /\ Hex[13] = "c" /\ Hex[14] = "d" /\ Hex[15] = "e" /\ Hex[16] = "f"
  BY DEF Hex
<1>4. /\ HEX[1] = "0" /\ HEX[2] = "1" /\ HEX[3] = "2" /\ HEX[4] = "3" /\ HEX[5] = "4" /\ HEX[6] = "5"
      /\ HEX[7] = "6" /\ HEX[8] = "7" /\ HEX[9] = "8" /\ HEX[10] = "9" /\ HEX[11] = "A" /\ HEX[12] = "B"
      /\ HEX[13] = "C" /\ HEX[14] = "D" /\ HEX[15] = "E" /\ HEX[16] = "F"
  BY DEF HEX
<1>5. ASSUME NEW k \in 1 .. 16 PROVE Rank(Hex[k]) = k
  <2>1. CASE k = 1 BY <1>1, <1>3, <2>1, Zenon
  <2>2. CASE k = 2 BY <1>1, <1>3, <2>2, Zenon
  <2>3. CASE k = 3 BY <1>1, <1>3, <2>3, Zenon
  <2>4. CASE k = 4 BY <1>1, <1>3, <2>4, Zenon
  <2>5. CASE k = 5 BY <1>1, <1>3, <2>5, Zenon
  <2>6. CASE k = 6 BY <1>1, <1>3, <2>6, Zenon
  <2>7. CASE k = 7 BY <1>1, <1>3, <2>7, Zenon
  <2>8. CASE k = 8 BY <1>1, <1>3, <2>8, Zenon
  <2>9. CASE k = 9 BY <1>1, <1>3, <2>9, Zenon
  <2>10. CASE k = 10 BY <1>1, <1>3, <2>10, Zenon
  <2>11. CASE k = 11 BY <1>1, <1>3, <2>11, Zenon
  <2>12. CASE k = 12 BY <1>1, <1>3, <2>12, Zenon
  <2>13. CASE k = 13 BY <1>1, <1>3, <2>13, Zenon
  <2>14. CASE k = 14 BY <1>1, <1>3, <2>14, Zenon
  <2>15. CASE k = 15 BY <1>1, <1>3, <2>15, Zenon
  <2>16. CASE k = 16 BY <1>1, <1>3, <2>16, Zenon
  <2>q. QED BY <1>2, <2>1, <2>2, <2>3, <2>4, <2>5, <2>6, <2>7, <2>8, <2>9, <2>10, <2>11, <2>12, <2>13, <2>14, <2>15, <2>16, Zenon
<1>6. ASSUME NEW k \in 1 .. 16 PROVE Rank(HEX[k]) = k
  <2>1. CASE k = 1 BY <1>1, <1>4, <2>1, Zenon
  <2>2. CASE k = 2 BY <1>1, <1>4, <2>2, Zenon
  <2>3. CASE k = 3 BY <1>1, <1>4, <2>3, Zenon
  <2>4. CASE k = 4 BY <1>1, <1>4, <2>4, Zenon
  <2>5. CASE k = 5 BY <1>1, <1>4, <2>5, Zenon
  <2>6. CASE k = 6 BY <1>1, <1>4, <2>6, Zenon
  <2>7. CASE k = 7 BY <1>1, <1>4, <2>7, Zenon
  <2>8. CASE k = 8 BY <1>1, <1>4, <2>8, Zenon
  <2>9. CASE k = 9 BY <1>1, <1>4, <2>9, Zenon
  <2>10. CASE k = 10 BY <1>1, <1>4, <2>10, Zenon
  <2>11. CASE k = 11 BY <1>1, <1>4, <2>11, Zenon
  <2>12. CASE k = 12 BY <1>1, <1>4, <2>12, Zenon
  <2>13. CASE k = 13 BY <1>1, <1>4, <2>13, Zenon
  <2>14. CASE k = 14 BY <1>1, <1>4, <2>14, Zenon
  <2>15. CASE k = 15 BY <1>1, <1>4, <2>15, Zenon
  <2>16. CASE k = 16 BY <1>1, <1>4, <2>16, Zenon
  <2>q. QED BY <1>2, <2>1, <2>2, <2>3, <2>4, <2>5, <2>6, <2>7, <2>8, <2>9, <2>10, <2>11, <2>12, <2>13, <2>14, <2>15, <2>16, Zenon
<1>7. dig \in Seq(Char) /\ Len(dig) = 16
  <2>1. Len(Hex) = 16 /\ Len(HEX) = 16 BY DEF Hex, HEX
  <2>q. QED BY <2>1, TextAssumption DEF Figure
<1>8. \A k \in 1 .. 16 : dig[k] \in Char BY <1>7, ItemIs
<1>q. QED BY <1>3, <1>4, <1>5, <1>6, <1>8 DEF Figure

IsDigits(g, v, radix, dig) ==
    g = [w \in 0 .. v |-> IF w < radix THEN <<dig[w + 1]>> ELSE Append(g[w \div radix], dig[(w % radix) + 1])]

LEMMA Quotients ==
    ASSUME NEW radix \in Radix, NEW w \in Nat
    PROVE  /\ w \div radix \in Nat /\ w % radix \in 0 .. radix - 1 /\ (w \div radix) * radix + (w % radix) = w
           /\ w >= radix => w \div radix < w /\ w \div radix >= 1
<1>1. /\ w \div 10 \in Nat /\ w % 10 \in 0 .. 10 - 1 /\ (w \div 10) * 10 + (w % 10) = w
      /\ w >= 10 => w \div 10 < w /\ w \div 10 >= 1
  OBVIOUS
<1>2. /\ w \div 16 \in Nat /\ w % 16 \in 0 .. 16 - 1 /\ (w \div 16) * 16 + (w % 16) = w
      /\ w >= 16 => w \div 16 < w /\ w \div 16 >= 1
  OBVIOUS
<1>3. radix = 10 \/ radix = 16 BY DEF Radix
<1>4. CASE radix = 10 BY <1>1, <1>4, Zenon
<1>5. CASE radix = 16 BY <1>2, <1>5, Zenon
<1>q. QED BY <1>3, <1>4, <1>5

LEMMA DigitsDefined == ASSUME NEW radix \in Radix, NEW dig, NEW v \in Nat PROVE \E g : IsDigits(g, v, radix, dig)
<1> DEFINE T == {k \in Nat : ~ \E g : IsDigits(g, k, radix, dig)}
<1>9. radix \in Nat /\ radix > 0 BY DEF Radix
<1>1. T = {}
  <2> SUFFICES ASSUME T # {} PROVE FALSE OBVIOUS
  <2>1. PICK k \in T : \A j \in T : k <= j BY Smallest
  <2>2. CASE k = 0
    <3> DEFINE h == [w \in 0 .. 0 |-> <<dig[w + 1]>>]
    <3>1. ASSUME NEW w \in 0 .. 0
          PROVE  <<dig[w + 1]>> = IF w < radix THEN <<dig[w + 1]>> ELSE Append(h[w \div radix], dig[(w % radix) + 1])
      <4>1. w < radix BY <1>9
      <4>q. QED BY <4>1, Zenon
    <3>2. IsDigits(h, 0, radix, dig) BY <3>1, Zenon DEF IsDigits
    <3>q. QED BY <2>2, <3>2
  <2>3. CASE k # 0
    <3>1. k - 1 \in Nat /\ k \in Nat BY <2>3
    <3>2. k - 1 \notin T
      <4>1. ~(k <= k - 1) BY <3>1
      <4> HIDE DEF T
      <4>q. QED BY <2>1, <4>1
    <3>3. PICK g : IsDigits(g, k - 1, radix, dig) BY <3>1, <3>2
    <3> DEFINE last == IF k < radix THEN <<dig[k + 1]>> ELSE Append(g[k \div radix], dig[(k % radix) + 1])
               h == [w \in 0 .. k |-> IF w < k THEN g[w] ELSE last]
    <3> HIDE DEF last
    <3>4. \A w \in 0 .. k : w < k => h[w] = g[w] BY <3>1
    <3>5. h[k] = last BY <3>1
    <3>6. h = [w \in 0 .. k |-> h[w]] OBVIOUS
    <3> HIDE DEF h
    <3>7. ASSUME NEW w \in 0 .. k
          PROVE  h[w] = IF w < radix THEN <<dig[w + 1]>> ELSE Append(h[w \div radix], dig[(w % radix) + 1])
      <4>1. ~(w < radix) => h[w \div radix] = g[w \div radix]
        <5> SUFFICES ASSUME ~(w < radix) PROVE h[w \div radix] = g[w \div radix] OBVIOUS
        <5> DEFINE q == w \div radix
        <5>1. w \in Nat /\ w >= radix BY <1>9, <3>1
        <5>2. q \in Nat /\ q < w BY <5>1, Quotients
        <5> HIDE DEF q
        <5>3. q \in 0 .. k /\ q < k BY <3>1, <5>1, <5>2
        <5>4. h[q] = g[q] BY <3>4, <5>3
        <5>q. QED BY <5>4 DEF q
      <4>2. CASE w = k BY <3>5, <4>1, <4>2, Zenon DEF last
      <4>3. CASE w # k
        <5>1. w \in 0 .. k - 1 /\ w < k BY <3>1, <4>3
        <5>2. g[w] = IF w < radix THEN <<dig[w + 1]>> ELSE Append(g[w \div radix], dig[(w % radix) + 1])
          BY <3>3, <5>1, Zenon DEF IsDigits
        <5>3. h[w] = g[w] BY <3>4, <5>1
        <5>q. QED BY <4>1, <5>2, <5>3, Zenon
      <4>q. QED BY <4>2, <4>3
    <3>8. IsDigits(h, k, radix, dig) BY <3>6, <3>7, Zenon DEF IsDigits
    <3>q. QED BY <3>8
  <2>q. QED BY <2>2, <2>3
<1>q. QED BY <1>1

\* A text spells a number with the digits ds, and puts no zero in front.
Spells(t, ds, v, radix, dig) ==
    /\ t \in Seq(Char) /\ ds \in Seq(0 .. radix - 1) /\ ds \in Seq(Nat) /\ Len(t) = Len(ds) /\ Len(ds) >= 1
    /\ \A i \in 1 .. Len(ds) : t[i] = dig[ds[i] + 1]
    /\ Positional(ds, radix) = v
    /\ v = 0 => Len(ds) = 1
    /\ v # 0 => ds[1] # 0

LEMMA SpellsOne ==
    ASSUME NEW radix \in Radix, NEW dig \in Figure, NEW w \in Nat, w < radix
    PROVE  Spells(<<dig[w + 1]>>, <<w>>, w, radix, dig)
<1>1. radix = 10 \/ radix = 16 BY DEF Radix
<1>2. w + 1 \in 1 .. 16 /\ w \in 0 .. radix - 1 BY <1>1
<1>3. dig[w + 1] \in Char BY <1>2, FiguresAre
<1>4. Positional(<<w>>, radix) = w
  <2>1. <<>> \in Seq(Nat) /\ Append(<<>>, w) = <<w>> /\ Len(<<>>) = 0 OBVIOUS
  <2>2. Positional(<<>>, radix) = 0
    <3>1. Len(<<>>) \in Nat /\ 0 \in 0 .. 0 BY <2>1
    <3>2. PICK g : IsPositional(g, <<>>, radix, Len(<<>>)) /\ Positional(<<>>, radix) = g[Len(<<>>)]
      BY <3>1, PositionalValue
    <3>3. IsPositional(g, <<>>, radix, 0) /\ Positional(<<>>, radix) = g[0] BY <2>1, <3>2
    <3>4. g[0] = 0 BY <3>1, <3>3, Zenon DEF IsPositional
    <3>q. QED BY <3>3, <3>4
  <2>3. Positional(Append(<<>>, w), radix) = Positional(<<>>, radix) * radix + w BY <2>1, PositionalAppend
  <2>q. QED BY <1>1, <2>1, <2>2, <2>3
<1>5. <<dig[w + 1]>> \in Seq(Char) /\ Len(<<dig[w + 1]>>) = 1 /\ <<dig[w + 1]>>[1] = dig[w + 1] BY <1>3
<1>6. <<w>> \in Seq(0 .. radix - 1) /\ <<w>> \in Seq(Nat) /\ Len(<<w>>) = 1 /\ <<w>>[1] = w BY <1>2
<1>q. QED BY <1>4, <1>5, <1>6 DEF Spells

LEMMA SpellsMore ==
    ASSUME NEW radix \in Radix, NEW dig \in Figure, NEW t, NEW ds, NEW q \in Nat, q >= 1, Spells(t, ds, q, radix, dig),
           NEW r \in 0 .. radix - 1
    PROVE  Spells(Append(t, dig[r + 1]), Append(ds, r), q * radix + r, radix, dig)
<1>1. radix = 10 \/ radix = 16 BY DEF Radix
<1>2. r \in Nat /\ r + 1 \in 1 .. 16 BY <1>1
<1> DEFINE e == dig[r + 1]
           m == Len(ds)
           x == Append(t, e)
           es == Append(ds, r)
           D == 0 .. radix - 1
<1>3. e \in Char BY <1>2, FiguresAre
<1>4. /\ t \in Seq(Char) /\ ds \in Seq(D) /\ ds \in Seq(Nat) /\ Len(t) = m /\ m >= 1
      /\ \A i \in 1 .. m : t[i] = dig[ds[i] + 1]
      /\ Positional(ds, radix) = q /\ ds[1] # 0
  BY DEF Spells
<1>5. Positional(es, radix) = q * radix + r BY <1>2, <1>4, PositionalAppend
<1> HIDE DEF e, m, D
<1>6. x \in Seq(Char) /\ Len(x) = m + 1 /\ x[m + 1] = e /\ (\A i \in 1 .. m : x[i] = t[i]) /\ m \in Nat
  <2>2. t \in Seq(Char) /\ e \in Char BY <1>3, <1>4
  <2>3. x \in Seq(Char) BY <2>2, AppendIs
  <2>4. Len(x) = Len(t) + 1 /\ Len(t) \in Nat BY <2>2, AppendIs
  <2>5. x[Len(t) + 1] = e BY <2>2, AppendIs
  <2>6. \A i \in 1 .. Len(t) : x[i] = t[i] BY <2>2, AppendIs
  <2>q. QED BY <1>4, <2>3, <2>4, <2>5, <2>6, Zenon
<1>7. es \in Seq(D) /\ es \in Seq(Nat) /\ Len(es) = m + 1 /\ es[m + 1] = r /\ \A i \in 1 .. m : es[i] = ds[i]
  <2>1. r \in D BY DEF D
  <2>2. es \in Seq(D) BY <1>4, <2>1, AppendIs
  <2>3. es \in Seq(Nat) /\ Len(es) = m + 1 /\ es[m + 1] = r /\ \A i \in 1 .. m : es[i] = ds[i]
    BY <1>2, <1>4, AppendIs DEF m
  <2>q. QED BY <2>2, <2>3
<1> HIDE DEF x, es
<1>8. ASSUME NEW i \in 1 .. m + 1 PROVE x[i] = dig[es[i] + 1]
  <2>1. i \in 1 .. m \/ i = m + 1 BY <1>6
  <2>2. CASE i \in 1 .. m BY <1>4, <1>6, <1>7, <2>2
  <2>3. CASE i = m + 1 BY <1>6, <1>7, <2>3 DEF e
  <2>q. QED BY <2>1, <2>2, <2>3
<1>9. es[1] # 0 /\ Len(es) >= 1 /\ q * radix + r # 0
  <2>1. 1 \in 1 .. m BY <1>4, <1>6
  <2>2. es[1] = ds[1] BY <1>7, <2>1
  <2>q. QED BY <1>1, <1>2, <1>4, <1>6, <1>7, <2>2
<1>q. QED BY <1>5, <1>6, <1>7, <1>8, <1>9 DEF Spells, x, es, e, D

LEMMA DigitsSpell ==
    ASSUME NEW radix \in Radix, NEW dig \in Figure, NEW v \in Nat
    PROVE  \E ds : Spells(Digits(v, radix, dig), ds, v, radix, dig)
<1> DEFINE c == CHOOSE g : IsDigits(g, v, radix, dig)
           T == {w \in 0 .. v : ~ \E ds : Spells(c[w], ds, w, radix, dig)}
<1>1. IsDigits(c, v, radix, dig) BY DigitsDefined, Zenon
<1>2. Digits(v, radix, dig) = c[v] BY Zenon DEF Digits, IsDigits
<1>3. radix \in Nat /\ radix > 0 BY DEF Radix
<1> HIDE DEF c
<1>4. T = {}
  <2> SUFFICES ASSUME T # {} PROVE FALSE OBVIOUS
  <2>1. PICK w \in T : \A j \in T : w <= j
    <3>1. T \subseteq Nat OBVIOUS
    <3>q. QED BY <3>1, Smallest
  <2>2. w \in 0 .. v /\ w \in Nat OBVIOUS
  <2>3. c[w] = IF w < radix THEN <<dig[w + 1]>> ELSE Append(c[w \div radix], dig[(w % radix) + 1])
    BY <1>1, <2>2, Zenon DEF IsDigits
  <2>4. CASE w < radix
    <3>1. c[w] = <<dig[w + 1]>> BY <2>3, <2>4, Zenon
    <3>2. Spells(c[w], <<w>>, w, radix, dig) BY <2>2, <2>4, <3>1, SpellsOne
    <3>q. QED BY <2>1, <3>2
  <2>5. CASE ~(w < radix)
    <3> DEFINE q == w \div radix
               r == w % radix
    <3>1. w >= radix BY <1>3, <2>2, <2>5
    <3>2. q \in Nat /\ r \in 0 .. radix - 1 /\ q * radix + r = w /\ q < w /\ q >= 1 BY <2>2, <3>1, Quotients, Zenon
    <3>3. c[w] = Append(c[q], dig[r + 1]) BY <2>3, <2>5, Zenon
    <3> HIDE DEF q, r
    <3>4. q \in 0 .. v /\ ~(w <= q) BY <2>2, <3>2
    <3>5. q \notin T
      <4> HIDE DEF T
      <4>q. QED BY <2>1, <3>4
    <3>6. PICK ds : Spells(c[q], ds, q, radix, dig) BY <3>4, <3>5
    <3>7. Spells(Append(c[q], dig[r + 1]), Append(ds, r), q * radix + r, radix, dig) BY <3>2, <3>6, SpellsMore
    <3>8. Spells(c[w], Append(ds, r), w, radix, dig) BY <3>2, <3>3, <3>7, Zenon
    <3>q. QED BY <2>1, <3>8
  <2>q. QED BY <2>4, <2>5
<1>5. \E ds : Spells(c[v], ds, v, radix, dig) BY <1>4
<1>q. QED BY <1>2, <1>5, Zenon

-----------------------------------------------------------------------------
(* A field: the blanks, the sign, the zeros and the body in their places.          *)

LEMMA Joined ==
    ASSUME NEW S, NEW a \in Seq(S), NEW b \in Seq(S), NEW c \in Seq(S), NEW d \in Seq(S), NEW e \in Seq(S)
    PROVE  /\ a \o b \o c \o d \o e \in Seq(S)
           /\ Len(a \o b \o c \o d \o e) = Len(a) + Len(b) + Len(c) + Len(d) + Len(e)
           /\ Placed(a \o b \o c \o d \o e, 0, a)
           /\ Placed(a \o b \o c \o d \o e, Len(a), b)
           /\ Placed(a \o b \o c \o d \o e, Len(a) + Len(b), c)
           /\ Placed(a \o b \o c \o d \o e, Len(a) + Len(b) + Len(c), d)
           /\ Placed(a \o b \o c \o d \o e, Len(a) + Len(b) + Len(c) + Len(d), e)
<1> DEFINE u1 == a \o b
           u2 == u1 \o c
           u3 == u2 \o d
           u4 == u3 \o e
<1>1. u1 \in Seq(S) OBVIOUS
<1>2. Placed(u1, 0, a) BY DEF Placed
<1>3. Placed(u1, Len(a), b) /\ Len(u1) = Len(a) + Len(b) BY PlacedLast
<1> HIDE DEF u1
<1>4. u2 \in Seq(S) BY <1>1
<1>5. Placed(u2, 0, a) /\ Placed(u2, Len(a), b) BY <1>1, <1>2, <1>3, PlacedOn
<1>6. Placed(u2, Len(a) + Len(b), c) /\ Len(u2) = Len(a) + Len(b) + Len(c)
  <2>1. Placed(u2, Len(u1), c) /\ Len(u2) = Len(u1) + Len(c) BY <1>1, PlacedLast
  <2>q. QED BY <1>3, <2>1, Zenon
<1> HIDE DEF u2
<1>7. u3 \in Seq(S) BY <1>4
<1>8. Placed(u3, 0, a) /\ Placed(u3, Len(a), b) BY <1>4, <1>5, PlacedOn
<1>9. Placed(u3, Len(a) + Len(b), c) BY <1>4, <1>6, PlacedOn
<1>10. Placed(u3, Len(a) + Len(b) + Len(c), d) /\ Len(u3) = Len(a) + Len(b) + Len(c) + Len(d)
  <2>1. Placed(u3, Len(u2), d) /\ Len(u3) = Len(u2) + Len(d) BY <1>4, PlacedLast
  <2>q. QED BY <1>6, <2>1, Zenon
<1> HIDE DEF u3
<1>11. u4 \in Seq(S) BY <1>7
<1>12. Placed(u4, 0, a) /\ Placed(u4, Len(a), b) BY <1>7, <1>8, PlacedOn
<1>13. Placed(u4, Len(a) + Len(b), c) BY <1>7, <1>9, PlacedOn
<1>14. Placed(u4, Len(a) + Len(b) + Len(c), d) BY <1>7, <1>10, PlacedOn
<1>15. /\ Placed(u4, Len(a) + Len(b) + Len(c) + Len(d), e)
       /\ Len(u4) = Len(a) + Len(b) + Len(c) + Len(d) + Len(e)
  <2>1. Placed(u4, Len(u3), e) /\ Len(u4) = Len(u3) + Len(e) BY <1>7, PlacedLast
  <2>q. QED BY <1>10, <2>1, Zenon
<1>q. QED BY <1>11, <1>12, <1>13, <1>14, <1>15, Zenon DEF u1, u2, u3, u4

LEMMA FillIs ==
    ASSUME NEW c \in Char, NEW count \in Int
    PROVE  /\ Fill(c, count) \in Seq(Char) /\ Len(Fill(c, count)) = IF count > 0 THEN count ELSE 0
           /\ \A i \in 1 .. Len(Fill(c, count)) : Fill(c, count)[i] = c
<1> DEFINE m == IF count > 0 THEN count ELSE 0
<1>1. m \in Nat OBVIOUS
<1>2. Fill(c, count) = [i \in 1 .. m |-> c] BY Zenon DEF Fill
<1> HIDE DEF m
<1>3. [i \in 1 .. m |-> c] \in Seq(Char) /\ Len([i \in 1 .. m |-> c]) = m BY <1>1
<1>4. \A i \in 1 .. m : [j \in 1 .. m |-> c][i] = c OBVIOUS
<1>5. Len(Fill(c, count)) = m BY <1>2, <1>3, Zenon
<1>6. Fill(c, count) \in Seq(Char) BY <1>2, <1>3, Zenon
<1>7. \A i \in 1 .. Len(Fill(c, count)) : Fill(c, count)[i] = c BY <1>2, <1>4, <1>5, Zenon
<1>q. QED BY <1>5, <1>6, <1>7 DEF m

LEMMA CharsAre == "%" \in Char /\ "-" \in Char /\ Gap \in Char /\ "0" \in Char /\ NullText \in Seq(Char) /\ Gap # "0"
<1>1. {"%", "-", Gap, "0"} \subseteq Char /\ NullText \in Seq(Char) BY TextAssumption, Zenon
<1>2. Gap # "0" BY Zenon DEF Gap
<1>q. QED BY <1>1, <1>2

\* A field: x blanks, the sign, z zeros, the text and y blanks, as wide as asked.
SignLen(negative) == IF negative THEN 1 ELSE 0
IsLaid(p, text, negative, pad, width, u, x, z, y) ==
    /\ u \in Seq(Char) /\ x \in Nat /\ z \in Nat /\ y \in Nat
    /\ Len(u) = x + SignLen(negative) + z + Len(text) + y
    /\ \A i \in 1 .. x : u[i] = Gap
    /\ negative => u[x + 1] = "-"
    /\ \A i \in 1 .. z : u[x + SignLen(negative) + i] = "0"
    /\ \A i \in 1 .. Len(text) : u[x + SignLen(negative) + z + i] = text[i]
    /\ \A i \in 1 .. y : u[x + SignLen(negative) + z + Len(text) + i] = Gap
    /\ IF p.left THEN x = 0 /\ z = 0 ELSE y = 0
    /\ pad = "0" => x = 0
    /\ pad = Gap => z = 0
    /\ Len(u) >= width /\ (Len(u) > width => x = 0 /\ z = 0 /\ y = 0)

LEMMA LaidIs ==
    ASSUME NEW p, NEW text \in Seq(Char), NEW negative, NEW pad \in {Gap, "0"}, NEW width \in Nat
    PROVE  \E x, z, y : IsLaid(p, text, negative, pad, width, Laid(p, Body(text, negative, pad, width)), x, z, y)
<1> DEFINE fill == width - Len(text) - (IF negative THEN 1 ELSE 0)
           sign == IF negative THEN <<"-">> ELSE <<>>
           front == IF ~p.left /\ pad = Gap THEN Fill(Gap, fill) ELSE <<>>
           zeros == IF ~p.left /\ pad = "0" THEN Fill("0", fill) ELSE <<>>
           back == IF p.left THEN Fill(Gap, fill) ELSE <<>>
           u == front \o sign \o zeros \o text \o back
           m == IF fill > 0 THEN fill ELSE 0
<1>1. Laid(p, Body(text, negative, pad, width)) = u
  <2> DEFINE b == Body(text, negative, pad, width)
  <2>1. b.text = text /\ b.negative = negative /\ b.pad = pad /\ b.width = width BY DEF Body
  <2>2. Laid(p, b) = (IF ~p.left /\ b.pad = Gap THEN Fill(Gap, b.width - Len(b.text) - (IF b.negative THEN 1 ELSE 0)) ELSE <<>>)
          \o (IF b.negative THEN <<"-">> ELSE <<>>)
          \o (IF ~p.left /\ b.pad = "0" THEN Fill("0", b.width - Len(b.text) - (IF b.negative THEN 1 ELSE 0)) ELSE <<>>)
          \o b.text
          \o (IF p.left THEN Fill(Gap, b.width - Len(b.text) - (IF b.negative THEN 1 ELSE 0)) ELSE <<>>)
    BY Zenon DEF Laid
  <2> HIDE DEF b
  <2>q. QED BY <2>1, <2>2, Zenon DEF b
<1>2. Gap \in Char /\ "0" \in Char /\ "-" \in Char BY CharsAre
<1>3. Len(text) \in Nat OBVIOUS
<1>4. fill \in Int BY <1>3
<1>5. sign \in Seq(Char) /\ Len(sign) = SignLen(negative) /\ SignLen(negative) \in Nat /\ (negative => sign[1] = "-" /\ Len(sign) = 1)
  <2>1. CASE negative BY <1>2, <2>1 DEF SignLen
  <2>2. CASE ~negative BY <2>2 DEF SignLen
  <2>q. QED BY <2>1, <2>2
<1>6. m = width - Len(text) - SignLen(negative) \/ (m = 0 /\ width <= Len(text) + SignLen(negative))
  <2>1. CASE negative BY <1>3, <2>1 DEF SignLen
  <2>2. CASE ~negative BY <1>3, <2>2 DEF SignLen
  <2>q. QED BY <2>1, <2>2
<1>7. m \in Nat BY <1>4
<1>8. /\ Fill(Gap, fill) \in Seq(Char) /\ Len(Fill(Gap, fill)) = m
      /\ \A i \in 1 .. Len(Fill(Gap, fill)) : Fill(Gap, fill)[i] = Gap
  <2> HIDE DEF fill
  <2>q. QED BY <1>2, <1>4, FillIs, Zenon
<1>9. /\ Fill("0", fill) \in Seq(Char) /\ Len(Fill("0", fill)) = m
      /\ \A i \in 1 .. Len(Fill("0", fill)) : Fill("0", fill)[i] = "0"
  <2> HIDE DEF fill
  <2>q. QED BY <1>2, <1>4, FillIs, Zenon
<1>10. <<>> \in Seq(Char) /\ Len(<<>>) = 0 OBVIOUS
<1> HIDE DEF fill, m, sign
<1>11. /\ front \in Seq(Char) /\ Len(front) \in Nat /\ (\A i \in 1 .. Len(front) : front[i] = Gap)
       /\ Len(front) = IF ~p.left /\ pad = Gap THEN m ELSE 0
  <2>1. CASE ~p.left /\ pad = Gap BY <1>7, <1>8, <2>1
  <2>2. CASE ~(~p.left /\ pad = Gap) BY <1>10, <2>2
  <2>q. QED BY <2>1, <2>2
<1>12. /\ zeros \in Seq(Char) /\ Len(zeros) \in Nat /\ (\A i \in 1 .. Len(zeros) : zeros[i] = "0")
       /\ Len(zeros) = IF ~p.left /\ pad = "0" THEN m ELSE 0
  <2>1. CASE ~p.left /\ pad = "0" BY <1>7, <1>9, <2>1
  <2>2. CASE ~(~p.left /\ pad = "0") BY <1>10, <2>2
  <2>q. QED BY <2>1, <2>2
<1>13. /\ back \in Seq(Char) /\ Len(back) \in Nat /\ (\A i \in 1 .. Len(back) : back[i] = Gap)
       /\ Len(back) = IF p.left THEN m ELSE 0
  <2>1. CASE p.left BY <1>7, <1>8, <2>1
  <2>2. CASE ~p.left BY <1>10, <2>2
  <2>q. QED BY <2>1, <2>2
<1> HIDE DEF front, zeros, back
<1> DEFINE x == Len(front)
           z == Len(zeros)
           y == Len(back)
           sg == SignLen(negative)
<1>14. /\ u \in Seq(Char)
       /\ Len(u) = x + sg + z + Len(text) + y
       /\ Placed(u, 0, front) /\ Placed(u, x, sign) /\ Placed(u, x + sg, zeros)
       /\ Placed(u, x + sg + z, text) /\ Placed(u, x + sg + z + Len(text), back)
  <2>1. /\ u \in Seq(Char)
        /\ Len(u) = Len(front) + Len(sign) + Len(zeros) + Len(text) + Len(back)
        /\ Placed(u, 0, front) /\ Placed(u, Len(front), sign) /\ Placed(u, Len(front) + Len(sign), zeros)
        /\ Placed(u, Len(front) + Len(sign) + Len(zeros), text)
        /\ Placed(u, Len(front) + Len(sign) + Len(zeros) + Len(text), back)
    <3>1. front \in Seq(Char) /\ sign \in Seq(Char) /\ zeros \in Seq(Char) /\ back \in Seq(Char)
      BY <1>5, <1>11, <1>12, <1>13, Zenon
    <3>q. QED BY <3>1, Joined
  <2>q. QED BY <1>5, <2>1, Zenon
<1> HIDE DEF u
<1>15. \A i \in 1 .. x : u[i] = Gap
  <2>1. \A i \in 1 .. x : u[0 + i] = front[i] BY <1>14 DEF Placed
  <2>q. QED BY <1>11, <2>1
<1>16. negative => u[x + 1] = "-"
  <2>1. negative => Len(sign) = 1 BY <1>5, Zenon
  <2>3. 1 \in 1 .. 1 OBVIOUS
  <2>2. \A i \in 1 .. Len(sign) : u[x + i] = sign[i]
    <3>1. Placed(u, x, sign) BY <1>14, Zenon
    <3>q. QED BY <3>1, Zenon DEF Placed
  <2>q. QED BY <1>5, <2>1, <2>2, <2>3, Zenon
<1>17. \A i \in 1 .. z : u[x + sg + i] = "0"
  <2>1. Placed(u, x + sg, zeros) BY <1>14, Zenon
  <2>2. \A i \in 1 .. z : u[x + sg + i] = zeros[i] BY <2>1, Zenon DEF Placed
  <2>3. \A i \in 1 .. z : zeros[i] = "0" BY <1>12, Zenon
  <2>q. QED BY <2>2, <2>3, Zenon
<1>18. \A i \in 1 .. Len(text) : u[x + sg + z + i] = text[i]
  <2>1. Placed(u, x + sg + z, text) BY <1>14, Zenon
  <2>q. QED BY <2>1, Zenon DEF Placed
<1>19. \A i \in 1 .. y : u[x + sg + z + Len(text) + i] = Gap
  <2>1. Placed(u, x + sg + z + Len(text), back) BY <1>14, Zenon
  <2>2. \A i \in 1 .. y : u[x + sg + z + Len(text) + i] = back[i] BY <2>1, Zenon DEF Placed
  <2>3. \A i \in 1 .. y : back[i] = Gap BY <1>13, Zenon
  <2>q. QED BY <2>2, <2>3, Zenon
<1>20. x \in Nat /\ z \in Nat /\ y \in Nat BY <1>11, <1>12, <1>13
<1>21. IF p.left THEN x = 0 /\ z = 0 ELSE y = 0 BY <1>11, <1>12, <1>13
<1>22. (pad = "0" => x = 0) /\ (pad = Gap => z = 0)
  <2>1. Gap # "0" BY CharsAre
  <2>q. QED BY <1>11, <1>12, <2>1, Zenon
<1>23. x + z + y = m
  <2>1. (pad = Gap /\ pad # "0") \/ (pad = "0" /\ pad # Gap) BY CharsAre, Zenon
  <2>2. (x = m /\ z = 0 /\ y = 0) \/ (x = 0 /\ z = m /\ y = 0) \/ (x = 0 /\ z = 0 /\ y = m)
    BY <1>11, <1>12, <1>13, <2>1, Zenon
  <2> HIDE DEF x, y, z
  <2>q. QED BY <1>7, <2>2
<1>24. Len(u) >= width /\ (Len(u) > width => x = 0 /\ z = 0 /\ y = 0)
  <2> HIDE DEF x, y, z, sg
  <2>1. Len(u) = m + sg + Len(text) BY <1>3, <1>5, <1>7, <1>14, <1>20, <1>23 DEF sg
  <2>q. QED BY <1>3, <1>5, <1>6, <1>7, <1>20, <1>23, <2>1 DEF sg
<1>25. IsLaid(p, text, negative, pad, width, u, x, z, y)
  <2> HIDE DEF x, y, z
  <2>q. QED BY <1>14, <1>15, <1>16, <1>17, <1>18, <1>19, <1>20, <1>21, <1>22, <1>24, Zenon DEF IsLaid
<1>q. QED BY <1>1, <1>25, Zenon

LEMMA OnlyFigure ==
    ASSUME NEW radix \in Radix, NEW dig \in Figure, NEW e \in 0 .. radix - 1
    PROVE  /\ (CHOOSE k \in 0 .. radix - 1 : dig[k + 1] = dig[e + 1]) = e
           /\ \E k \in 1 .. radix : dig[k] = dig[e + 1]
           /\ e # 0 => dig[e + 1] # "0"
<1>1. radix = 10 \/ radix = 16 BY DEF Radix
<1>2. \A k \in 0 .. radix - 1 : k \in Int /\ k + 1 \in 1 .. 16 /\ k + 1 \in 1 .. radix BY <1>1
<1>3. \A k \in 0 .. radix - 1 : Rank(dig[k + 1]) = k + 1 BY <1>2, FiguresAre
<1>4. ASSUME NEW k \in 0 .. radix - 1, dig[k + 1] = dig[e + 1] PROVE k = e
  <2>1. k + 1 = e + 1 BY <1>3, <1>4
  <2>q. QED BY <1>2, <2>1
<1>5. (CHOOSE k \in 0 .. radix - 1 : dig[k + 1] = dig[e + 1]) = e
  <2> DEFINE c == CHOOSE k \in 0 .. radix - 1 : dig[k + 1] = dig[e + 1]
  <2>1. c \in 0 .. radix - 1 /\ dig[c + 1] = dig[e + 1] BY Zenon
  <2> HIDE DEF c
  <2>2. c = e BY <1>4, <2>1
  <2>q. QED BY <2>2 DEF c
<1>6. \E k \in 1 .. radix : dig[k] = dig[e + 1] BY <1>2
<1>7. ASSUME e # 0 PROVE dig[e + 1] # "0"
  <2>1. dig[1] = "0" BY FiguresAre
  <2>2. 0 \in 0 .. radix - 1 /\ 0 + 1 = 1 BY <1>1
  <2>3. dig[0 + 1] = "0" BY <2>1, <2>2
  <2>q. QED BY <1>4, <1>7, <2>2, <2>3
<1>q. QED BY <1>5, <1>6, <1>7

LEMMA DigitsText ==
    ASSUME NEW radix \in Radix, NEW dig \in Figure, NEW v \in Nat
    PROVE  Digits(v, radix, dig) \in Seq(Char) /\ Len(Digits(v, radix, dig)) \in Nat /\ Len(Digits(v, radix, dig)) >= 1
<1>1. PICK ds : Spells(Digits(v, radix, dig), ds, v, radix, dig) BY DigitsSpell
<1> DEFINE t == Digits(v, radix, dig)
<1>2. t \in Seq(Char) /\ Len(t) >= 1 BY <1>1, Zenon DEF Spells
<1> HIDE DEF t
<1>3. Len(t) \in Nat BY <1>2
<1>q. QED BY <1>2, <1>3 DEF t

\* A text is the digits of v behind z zeros.
ZerosThen(t, z, w) ==
    /\ t \in Seq(Char) /\ z \in Nat /\ Len(t) = z + Len(w)
    /\ \A i \in 1 .. z : t[i] = "0"
    /\ \A i \in 1 .. Len(w) : t[z + i] = w[i]

LEMMA NumeralIs ==
    ASSUME NEW radix \in Radix, NEW dig \in Figure, NEW v \in Nat, NEW t, NEW z,
           ZerosThen(t, z, Digits(v, radix, dig)), NEW zeros, zeros \/ z = 0
    PROVE  IsNumeral(t, v, radix, dig, zeros)
<1> DEFINE w == Digits(v, radix, dig)
<1>1. PICK ds : Spells(w, ds, v, radix, dig) BY DigitsSpell
<1> HIDE DEF w
<1>2. /\ w \in Seq(Char) /\ ds \in Seq(0 .. radix - 1) /\ ds \in Seq(Nat) /\ Len(w) = Len(ds) /\ Len(ds) >= 1
      /\ \A i \in 1 .. Len(ds) : w[i] = dig[ds[i] + 1]
      /\ Positional(ds, radix) = v /\ (v = 0 => Len(ds) = 1) /\ (v # 0 => ds[1] # 0)
  BY <1>1, Zenon DEF Spells
<1>3. /\ t \in Seq(Char) /\ z \in Nat /\ Len(t) = z + Len(ds)
      /\ \A i \in 1 .. z : t[i] = "0"
      /\ \A i \in 1 .. Len(ds) : t[z + i] = w[i]
  BY <1>2, Zenon DEF ZerosThen, w
<1>4. radix = 10 \/ radix = 16 BY DEF Radix
<1> DEFINE m == Len(ds)
           D == 0 .. radix - 1
<1>5. m \in Nat /\ m >= 1 /\ \A i \in 1 .. m : ds[i] \in D
  <2>1. m \in Nat /\ m >= 1 BY <1>2
  <2>2. \A i \in 1 .. m : ds[i] \in D
    <3> HIDE DEF D
    <3>q. QED BY <1>2, ItemIs DEF D
  <2>q. QED BY <2>1, <2>2
<1>6. 0 \in D /\ D \subseteq Nat BY <1>4
<1> HIDE DEF m, D
<1> DEFINE es == [i \in 1 .. z + m |-> IF i <= z THEN 0 ELSE ds[i - z]]
<1>7. ASSUME NEW i \in 1 .. z + m PROVE (IF i <= z THEN 0 ELSE ds[i - z]) \in D
  <2>1. CASE i <= z BY <1>6, <2>1
  <2>2. CASE ~(i <= z)
    <3>1. i - z \in 1 .. m BY <1>3, <1>5, <2>2
    <3>q. QED BY <1>5, <2>2, <3>1
  <2>q. QED BY <2>1, <2>2
<1>8. z + m \in Nat BY <1>3, <1>5
<1>9. es \in Seq(D) /\ Len(es) = z + m BY <1>7, <1>8
<1>10. es \in Seq(Nat) BY <1>6, <1>9, Widened, Zenon
<1>11. \A i \in 1 .. z : es[i] = 0
  <2>1. \A i \in 1 .. z : i \in 1 .. z + m /\ i <= z BY <1>3, <1>5
  <2>q. QED BY <2>1, Zenon
<1>12. \A i \in 1 .. m : es[z + i] = ds[i]
  <2>1. \A i \in 1 .. m : z + i \in 1 .. z + m /\ ~(z + i <= z) /\ (z + i) - z = i BY <1>3, <1>5
  <2>q. QED BY <2>1, Zenon
<1>13. \A i \in 1 .. z + m : es[i] \in D BY <1>7
<1> HIDE DEF es
<1>14. Positional(es, radix) = v BY <1>2, <1>3, <1>9, <1>10, <1>11, <1>12, PositionalLead DEF m
<1>15. ASSUME NEW i \in 1 .. z + m PROVE t[i] = dig[es[i] + 1]
  <2>1. CASE i <= z
    <3>1. i \in 1 .. z BY <1>3, <1>5, <2>1
    <3>2. t[i] = "0" /\ es[i] = 0 BY <1>3, <1>11, <3>1
    <3>3. dig[1] = "0" /\ 0 + 1 = 1 BY FiguresAre
    <3>q. QED BY <3>2, <3>3
  <2>2. CASE ~(i <= z)
    <3> DEFINE j == i - z
    <3>1. j \in 1 .. m /\ i = z + j BY <1>3, <1>5, <2>2
    <3> HIDE DEF j
    <3>2. t[z + j] = w[j] /\ es[z + j] = ds[j] /\ w[j] = dig[ds[j] + 1] BY <1>2, <1>3, <1>12, <3>1 DEF m
    <3>q. QED BY <3>1, <3>2
  <2>q. QED BY <2>1, <2>2
<1>16. DOMAIN t = 1 .. z + m BY <1>3 DEF m
<1>17. t # <<>> BY <1>3, <1>5 DEF m
<1>18. Valued(t, radix, dig)
  <2>1. ASSUME NEW i \in 1 .. z + m PROVE \E k \in 1 .. radix : dig[k] = t[i]
    <3>1. es[i] \in 0 .. radix - 1 BY <1>13 DEF D
    <3>2. \E k \in 1 .. radix : dig[k] = dig[es[i] + 1] BY <3>1, OnlyFigure
    <3>q. QED BY <1>15, <3>2
  <2>q. QED BY <1>16, <1>17, <2>1, Zenon DEF Valued
<1>19. ValueOf(t, radix, dig) = v
  <2>1. ASSUME NEW i \in 1 .. z + m PROVE (CHOOSE k \in 0 .. radix - 1 : dig[k + 1] = t[i]) = es[i]
    <3>1. es[i] \in 0 .. radix - 1 BY <1>13 DEF D
    <3>2. (CHOOSE k \in 0 .. radix - 1 : dig[k + 1] = dig[es[i] + 1]) = es[i] BY <3>1, OnlyFigure
    <3>q. QED BY <1>15, <3>2, Zenon
  <2>2. [i \in 1 .. z + m |-> CHOOSE k \in 0 .. radix - 1 : dig[k + 1] = t[i]] = [i \in 1 .. z + m |-> es[i]] BY <2>1, Zenon
  <2>3. es = [i \in 1 .. z + m |-> es[i]] BY <1>9
  <2>q. QED BY <1>14, <1>16, <2>2, <2>3, Zenon DEF ValueOf
<1>20. z = 0 => Len(t) = 1 \/ t[1] # "0"
  <2> SUFFICES ASSUME z = 0 PROVE Len(t) = 1 \/ t[1] # "0" OBVIOUS
  <2>1. CASE v = 0 BY <1>2, <1>3, <2>1
  <2>2. CASE v # 0
    <3>1. 1 \in 1 .. m /\ z + 1 = 1 /\ 1 \in 1 .. z + m BY <1>3, <1>5
    <3>2. ds[1] # 0 BY <1>2, <2>2
    <3>3. es[1] # 0 /\ es[1] \in 0 .. radix - 1
      <4>1. es[z + 1] = ds[1] BY <1>12, <3>1
      <4>q. QED BY <1>13, <3>1, <3>2, <4>1 DEF D
    <3>4. dig[es[1] + 1] # "0" BY <3>3, OnlyFigure
    <3>5. t[1] = dig[es[1] + 1] BY <1>15, <3>1
    <3>q. QED BY <3>4, <3>5
  <2>q. QED BY <2>1, <2>2
<1>q. QED BY <1>18, <1>19, <1>20, Zenon DEF IsNumeral

-----------------------------------------------------------------------------
(* The field of a directive.                                                       *)

\* The width and the precision are numbers.
LEMMA NumberInIs ==
    ASSUME NEW t \in Seq(Char), NEW i \in Nat, i >= 1, NEW j \in i .. Len(t) + 1, Run(t, i, j, Digit)
    PROVE  NumberIn(t, i, j) \in Nat
<1> DEFINE ds == [k \in 1 .. j - i |-> DigitOf(t[i + k - 1])]
<1>1. j - i \in Nat OBVIOUS
<1>2. ASSUME NEW k \in 1 .. j - i PROVE DigitOf(t[i + k - 1]) \in Nat
  <2>1. i + k - 1 \in i .. j - 1 OBVIOUS
  <2>2. t[i + k - 1] \in Digit BY <2>1, Zenon DEF Run
  <2>3. DigitOf(t[i + k - 1]) \in 0 .. 9 BY <2>2, DigitIs
  <2>q. QED BY <2>3
<1>3. ds \in Seq(Nat) BY <1>1, <1>2
<1> HIDE DEF ds
<1>4. 10 \in Radix /\ 0 \in Nat BY DEF Radix
<1>5. Positional(ds, 10) \in Nat BY <1>3, <1>4, PositionalAppend
<1>q. QED BY <1>5, Zenon DEF NumberIn, ds

LEMMA DirectiveType == ASSUME NEW p, IsDirective(p), p.chars \in Seq(Char) PROVE p.width \in Nat /\ p.prec \in Int
<1> DEFINE t == p.chars
<1>1. \E a \in 2 .. Len(t) + 1 : \E b \in a .. Len(t) + 1 : \E c \in b .. Len(t) + 1 :
         /\ Run(t, a, b, Digit) /\ p.width = NumberIn(t, a, b)
         /\ IF b <= Len(t) /\ t[b] = "."
              THEN c > b /\ Run(t, b + 1, c, Digit) /\ p.prec = NumberIn(t, b + 1, c)
              ELSE c = b /\ p.prec = -1
  BY Zenon DEF IsDirective
<1> PICK a \in 2 .. Len(t) + 1, b \in Nat, c \in Nat :
         /\ b \in a .. Len(t) + 1 /\ c \in b .. Len(t) + 1
         /\ Run(t, a, b, Digit) /\ p.width = NumberIn(t, a, b)
         /\ IF b <= Len(t) /\ t[b] = "."
              THEN c > b /\ Run(t, b + 1, c, Digit) /\ p.prec = NumberIn(t, b + 1, c)
              ELSE c = b /\ p.prec = -1
  <2>1. \A a \in 2 .. Len(t) + 1 : \A b \in a .. Len(t) + 1 : b \in Nat /\ \A c \in b .. Len(t) + 1 : c \in Nat OBVIOUS
  <2>q. QED BY <1>1, <2>1, Zenon
<1>2. a \in Nat /\ a >= 1 /\ b \in Nat /\ b + 1 >= 1 /\ b + 1 \in Nat /\ c \in Nat /\ Len(t) \in Nat OBVIOUS
<1>3. p.width \in Nat BY <1>2, NumberInIs
<1>4. CASE b <= Len(t) /\ t[b] = "."
  <2>1. c > b /\ Run(t, b + 1, c, Digit) /\ p.prec = NumberIn(t, b + 1, c) BY <1>4, Zenon
  <2>2. c \in b + 1 .. Len(t) + 1 BY <1>2, <2>1
  <2>3. p.prec \in Nat BY <1>2, <2>1, <2>2, NumberInIs
  <2>q. QED BY <1>3, <2>3
<1>5. CASE ~(b <= Len(t) /\ t[b] = ".")
  <2>1. p.prec = -1 BY <1>5, Zenon
  <2>q. QED BY <1>3, <2>1
<1>q. QED BY <1>4, <1>5

\* The part of a field between the blanks.
Core(u, x, k) == SubSeq(u, x + 1, x + k)
LEMMA CoreIs ==
    ASSUME NEW u \in Seq(Char), NEW x \in Nat, NEW k \in Nat, x + k <= Len(u)
    PROVE  Core(u, x, k) \in Seq(Char) /\ Len(Core(u, x, k)) = k /\ \A i \in 1 .. k : Core(u, x, k)[i] = u[x + i]
<1>1. x + 1 \in Nat /\ x + k \in Nat /\ x + 1 >= 1 /\ x + k <= Len(u) /\ x + 1 <= (x + k) + 1 OBVIOUS
<1>2. Core(u, x, k) \in Seq(Char) BY <1>1 DEF Core
<1>3. Len(Core(u, x, k)) = k BY <1>1 DEF Core
<1>4. ASSUME NEW i \in 1 .. k PROVE Core(u, x, k)[i] = u[x + i] BY <1>1 DEF Core
<1>q. QED BY <1>2, <1>3, <1>4

CoreLen(text, negative, z) == SignLen(negative) + z + Len(text)
LEMMA LaidSizes ==
    ASSUME NEW p, NEW text \in Seq(Char), NEW negative, NEW pad, NEW width, NEW u, NEW x, NEW z, NEW y,
           IsLaid(p, text, negative, pad, width, u, x, z, y)
    PROVE  /\ SignLen(negative) \in {0, 1} /\ (negative <=> SignLen(negative) = 1) /\ CoreLen(text, negative, z) \in Nat
           /\ u \in Seq(Char) /\ x \in Nat /\ y \in Nat /\ z \in Nat /\ Len(u) = x + CoreLen(text, negative, z) + y
<1>1. u \in Seq(Char) /\ x \in Nat /\ z \in Nat /\ y \in Nat /\ Len(u) = x + SignLen(negative) + z + Len(text) + y
  BY Zenon DEF IsLaid
<1>2. SignLen(negative) \in {0, 1} /\ (negative <=> SignLen(negative) = 1)
  <2>1. CASE negative BY <2>1 DEF SignLen
  <2>2. CASE ~negative BY <2>2 DEF SignLen
  <2>q. QED BY <2>1, <2>2
<1> DEFINE sg == SignLen(negative)
<1> HIDE DEF sg
<1>3. sg \in {0, 1} /\ Len(u) = x + sg + z + Len(text) + y BY <1>1, <1>2, Zenon DEF sg
<1>4. CoreLen(text, negative, z) = sg + z + Len(text) BY Zenon DEF CoreLen, sg
<1>5. Len(text) \in Nat OBVIOUS
<1>6. sg + z + Len(text) \in Nat /\ Len(u) = x + (sg + z + Len(text)) + y BY <1>1, <1>3, <1>5
<1>q. QED BY <1>1, <1>2, <1>4, <1>6, Zenon

LEMMA FieldIs ==
    ASSUME NEW p, NEW cell, NEW text \in Seq(Char), NEW negative, NEW pad, NEW u, NEW x, NEW z, NEW y,
           WidthOf(p) \in Nat,
           IsLaid(p, text, negative, pad, WidthOf(p), u, x, z, y),
           IsBody(p, cell, Core(u, x, CoreLen(text, negative, z))),
           p.conv = "p" => CoreLen(text, negative, z) >= 8,
           p.zero /\ ~p.left /\ p.conv \notin {"s", "c", "%"} => x = 0
    PROVE  IsField(p, cell, u)
<1> DEFINE W == WidthOf(p)
           k == CoreLen(text, negative, z)
           i == x + 1
           j == x + k
<1>1. k \in Nat /\ u \in Seq(Char) /\ x \in Nat /\ y \in Nat /\ z \in Nat /\ Len(u) = x + k + y BY LaidSizes
<1>2. /\ \A e \in 1 .. x : u[e] = Gap
      /\ \A e \in 1 .. y : u[x + SignLen(negative) + z + Len(text) + e] = Gap
      /\ IF p.left THEN x = 0 /\ z = 0 ELSE y = 0
      /\ Len(u) >= W /\ (Len(u) > W => x = 0 /\ z = 0 /\ y = 0)
  BY Zenon DEF IsLaid
<1>3. x + k = x + SignLen(negative) + z + Len(text)
  <2>1. SignLen(negative) \in {0, 1} /\ Len(text) \in Nat BY LaidSizes
  <2> DEFINE sg == SignLen(negative)
  <2>2. k = sg + z + Len(text) BY Zenon DEF CoreLen
  <2> HIDE DEF sg, k
  <2>q. QED BY <1>1, <2>1, <2>2 DEF sg
<1>4. \A e \in 1 .. y : u[(x + k) + e] = Gap
  <2> TAKE e \in 1 .. y
  <2> HIDE DEF k
  <2>1. u[x + SignLen(negative) + z + Len(text) + e] = Gap BY <1>2, Zenon
  <2>q. QED BY <1>3, <2>1, Zenon
<1> HIDE DEF k, W
<1>5. DOMAIN u = 1 .. Len(u) BY <1>1
<1>6. ASSUME NEW e \in 1 .. Len(u), e \notin i .. j PROVE u[e] = Gap
  <2>1. CASE e <= x
    <3>1. e \in 1 .. x BY <1>1, <2>1
    <3>q. QED BY <1>2, <3>1
  <2>2. CASE ~(e <= x)
    <3>1. e - (x + k) \in 1 .. y /\ (x + k) + (e - (x + k)) = e BY <1>1, <1>6, <2>2
    <3>2. u[(x + k) + (e - (x + k))] = Gap BY <1>4, <3>1
    <3>q. QED BY <3>1, <3>2
  <2>q. QED BY <2>1, <2>2
<1>7. i <= j + 1 /\ i \in 1 .. Len(u) + 1 /\ j \in 0 .. Len(u) /\ j - i + 1 = k BY <1>1
<1>8. Framed(u, i, j) BY <1>5, <1>6, <1>7, Zenon DEF Framed
<1>9. IsBody(p, cell, SubSeq(u, i, j)) BY Zenon DEF Core, k
<1>10. IF p.left THEN i = 1 ELSE j = Len(u) BY <1>1, <1>2
<1>11. Len(u) >= WidthOf(p) /\ (Len(u) > WidthOf(p) => i = 1 /\ j = Len(u)) BY <1>1, <1>2 DEF W
<1>12. p.conv = "p" => j - i + 1 >= 8 BY <1>7, Zenon DEF k
<1>13. p.zero /\ ~p.left /\ p.conv \notin {"s", "c", "%"} => i = 1
  <2>1. x = 0 => i = 1 OBVIOUS
  <2>q. QED BY <2>1, Zenon
<1> HIDE DEF i, j
<1>q. QED BY <1>7, <1>8, <1>9, <1>10, <1>11, <1>12, <1>13, Zenon DEF IsField

\* A conversion to a text: nothing is added to it.
LEMMA TextField ==
    ASSUME NEW p, p.width \in Nat, p.conv \in {"s", "c", "%"}, NEW cell, NEW text \in Seq(Char),
           Converted(p, cell) = Body(text, FALSE, Gap, p.width), IsBody(p, cell, text)
    PROVE  /\ Laid(p, Converted(p, cell)) \in Seq(Char)
           /\ IsField(p, cell, Laid(p, Converted(p, cell)))
<1> DEFINE W == p.width
           no == FALSE
           u == Laid(p, Body(text, no, Gap, W))
<1>1. WidthOf(p) = W BY DEF WidthOf
<1>2. \E x, z, y : IsLaid(p, text, no, Gap, W, u, x, z, y) BY LaidIs, Zenon
<1>0. ~no OBVIOUS
<1> HIDE DEF u, W, no
<1>3. PICK x, z, y : IsLaid(p, text, no, Gap, W, u, x, z, y) BY <1>2
<1> DEFINE k == CoreLen(text, no, z)
<1>4. k \in Nat /\ u \in Seq(Char) /\ x \in Nat /\ y \in Nat /\ z \in Nat /\ Len(u) = x + k + y BY <1>3, LaidSizes
<1>5. z = 0 /\ \A i \in 1 .. Len(text) : u[x + SignLen(no) + z + i] = text[i]
  <2>1. Gap = Gap OBVIOUS
  <2>q. QED BY <1>3, <2>1, Zenon DEF IsLaid
<1>6. SignLen(no) = 0 BY <1>0, Zenon DEF SignLen
<1>7. k = Len(text)
  <2>1. k = 0 + 0 + Len(text) BY <1>5, <1>6, Zenon DEF CoreLen
  <2> HIDE DEF k
  <2>q. QED BY <2>1
<1>8. \A i \in 1 .. Len(text) : u[x + i] = text[i]
  <2>1. x + 0 + 0 = x BY <1>4
  <2>q. QED BY <1>5, <1>6, <2>1, Zenon
<1>9. Core(u, x, k) = text
  <2>0. x + k <= Len(u)
    <3> HIDE DEF k
    <3>q. QED BY <1>4
  <2>1. /\ Core(u, x, k) \in Seq(Char) /\ Len(Core(u, x, k)) = k
        /\ \A i \in 1 .. k : Core(u, x, k)[i] = u[x + i]
    <3> HIDE DEF k
    <3>q. QED BY <1>4, <2>0, CoreIs
  <2> DEFINE c == Core(u, x, k)
  <2> HIDE DEF c, k
  <2>2. c \in Seq(Char) /\ Len(c) = Len(text) /\ \A i \in 1 .. Len(text) : c[i] = text[i] BY <1>7, <1>8, <2>1, Zenon DEF c
  <2>3. c = text BY <2>2
  <2>q. QED BY <2>3 DEF c
<1>10. p.conv # "p" OBVIOUS
<1>11. IsField(p, cell, u)
  <2>1. IsLaid(p, text, no, Gap, WidthOf(p), u, x, z, y) BY <1>1, <1>3, Zenon
  <2>2. IsBody(p, cell, Core(u, x, CoreLen(text, no, z))) BY <1>9, Zenon
  <2>3. WidthOf(p) \in Nat BY <1>1 DEF W
  <2>q. QED BY <1>10, <2>1, <2>2, <2>3, FieldIs, Zenon
<1>q. QED BY <1>4, <1>11, Zenon DEF u, W, no

NumberConv == {"d", "i", "u", "x", "X", "p"}
BelowZero(p, cell) == p.conv \in {"d", "i"} /\ cell >= Half
Absolute(p, cell) == IF BelowZero(p, cell) THEN 2 * Half - cell ELSE cell
FiguresOf(p) == IF p.conv = "X" THEN HEX ELSE Hex
PadOf(p) == IF p.conv = "p" \/ (p.zero /\ ~p.left) THEN "0" ELSE Gap
DigitsOfCell(p, cell) == Digits(Absolute(p, cell), RadixOf(p), FiguresOf(p))

\* -cell of a ULONG that is negative as a LONG.
LEMMA Negated == ASSUME NEW cell \in Half .. 2 * Half - 1 PROVE (-cell) % (2 * Half) = 2 * Half - cell
<1> DEFINE y == 2 * Half
           q == (-cell) \div y
           r == (-cell) % y
<1>1. Half \in Nat /\ Half >= 10 BY PrefsAssumption, Zenon
<1>2. y \in Nat \ {0} /\ cell \in Nat /\ cell < y /\ cell >= 1 BY <1>1
<1> HIDE DEF y
<1>3. -cell \in Int BY <1>2
<1>4. q \in Int /\ r \in 0 .. y - 1 /\ -cell = y * q + r BY <1>2, <1>3, SMT
<1> HIDE DEF q, r
<1>5. q < 0
  <2> SUFFICES ASSUME q >= 0 PROVE FALSE BY <1>4
  <2>1. y * q >= 0 BY <1>2, <1>4
  <2> DEFINE m == y * q
  <2>2. m \in Int BY <1>2, <1>4
  <2> HIDE DEF m
  <2>q. QED BY <1>2, <1>4, <2>1, <2>2 DEF m
<1>6. q > -2
  <2> SUFFICES ASSUME q <= -2 PROVE FALSE BY <1>4
  <2>1. y * q <= -2 * y BY <1>2, <1>4
  <2> DEFINE m == y * q
  <2>2. m \in Int BY <1>2, <1>4
  <2>3. m <= -2 * y BY <2>1
  <2> HIDE DEF m
  <2>4. -cell = m + r BY <1>4 DEF m
  <2>q. QED BY <1>2, <1>4, <2>2, <2>3, <2>4
<1>7. q = -1 BY <1>4, <1>5, <1>6
<1>8. -cell = y * (-1) + r BY <1>4, <1>7
<1>9. r = y - cell BY <1>2, <1>4, <1>8
<1>q. QED BY <1>9 DEF r, y

LEMMA NumberConverted ==
    ASSUME NEW p, p.conv \in NumberConv, NEW cell \in 0 .. 2 * Half - 1
    PROVE  /\ \E negative : /\ negative <=> BelowZero(p, cell)
                            /\ Converted(p, cell) = Body(DigitsOfCell(p, cell), negative, PadOf(p), WidthOf(p))
           /\ Absolute(p, cell) \in Nat /\ RadixOf(p) \in Radix /\ FiguresOf(p) \in Figure
<1>1. Half \in Nat /\ Half >= 10 BY PrefsAssumption, Zenon
<1>2. Absolute(p, cell) \in Nat
  <2>1. CASE BelowZero(p, cell) BY <1>1, <2>1 DEF Absolute
  <2>2. CASE ~BelowZero(p, cell) BY <1>1, <2>2 DEF Absolute
  <2>q. QED BY <2>1, <2>2
<1>3. RadixOf(p) \in Radix /\ FiguresOf(p) \in Figure BY Zenon DEF RadixOf, Radix, FiguresOf, Figure
<1> DEFINE Good(negative) == /\ negative <=> BelowZero(p, cell)
                             /\ Converted(p, cell) = Body(DigitsOfCell(p, cell), negative, PadOf(p), WidthOf(p))
<1>4. CASE p.conv \in {"d", "i"}
  <2> DEFINE neg == cell >= Half
  <2>1. /\ p.conv # "s" /\ p.conv # "c" /\ p.conv # "X" /\ p.conv # "p" /\ p.conv # "u" /\ p.conv # "x" /\ p.conv # "%"
        /\ p.conv \in {"d", "i", "u"}
    BY <1>4
  <2>2. Converted(p, cell) = Body(Digits(IF neg THEN (-cell) % (2 * Half) ELSE cell, 10, Hex), neg,
                                  IF p.zero /\ ~p.left THEN "0" ELSE Gap, p.width)
    BY <1>4, <2>1, Zenon DEF Converted
  <2>3. BelowZero(p, cell) <=> neg BY <1>4, Zenon DEF BelowZero
  <2>4. neg => (-cell) % (2 * Half) = 2 * Half - cell
    <3> SUFFICES ASSUME neg PROVE (-cell) % (2 * Half) = 2 * Half - cell OBVIOUS
    <3>1. cell \in Half .. 2 * Half - 1 BY <1>1
    <3>q. QED BY <3>1, Negated
  <2>5. (IF neg THEN (-cell) % (2 * Half) ELSE cell) = Absolute(p, cell)
    <3> HIDE DEF neg
    <3>q. QED BY <2>3, <2>4, Zenon DEF Absolute
  <2>6. RadixOf(p) = 10 /\ FiguresOf(p) = Hex /\ WidthOf(p) = p.width BY <2>1, Zenon DEF RadixOf, FiguresOf, WidthOf
  <2>7. PadOf(p) = IF p.zero /\ ~p.left THEN "0" ELSE Gap BY <2>1, Zenon DEF PadOf
  <2>8. Good(neg)
    <3> HIDE DEF neg
    <3>q. QED BY <2>2, <2>3, <2>5, <2>6, <2>7, Zenon DEF DigitsOfCell
  <2>q. QED BY <1>2, <1>3, <2>8, Zenon
<1>5. CASE p.conv \in {"u", "x", "X"}
  <2>1. /\ p.conv # "s" /\ p.conv # "c" /\ p.conv # "d" /\ p.conv # "i" /\ p.conv # "p" /\ p.conv # "%"
        /\ p.conv \notin {"d", "i"}
    BY <1>5
  <2>2. ~BelowZero(p, cell) BY <2>1, Zenon DEF BelowZero
  <2>3. Absolute(p, cell) = cell BY <2>2, Zenon DEF Absolute
  <2>4. PadOf(p) = (IF p.zero /\ ~p.left THEN "0" ELSE Gap) /\ WidthOf(p) = p.width BY <2>1, Zenon DEF PadOf, WidthOf
  <2>5. Converted(p, cell) = Body(Digits(cell, RadixOf(p), FiguresOf(p)), FALSE,
                                  IF p.zero /\ ~p.left THEN "0" ELSE Gap, p.width)
    <3>1. CASE p.conv = "u" BY <2>1, <3>1, Zenon DEF Converted, RadixOf, FiguresOf
    <3>2. CASE p.conv = "x" BY <2>1, <3>2, Zenon DEF Converted, RadixOf, FiguresOf
    <3>3. CASE p.conv = "X" BY <2>1, <3>3, Zenon DEF Converted, RadixOf, FiguresOf
    <3>q. QED BY <1>5, <3>1, <3>2, <3>3, Zenon
  <2>6. Good(FALSE) BY <2>2, <2>3, <2>4, <2>5, Zenon DEF DigitsOfCell
  <2>q. QED BY <1>2, <1>3, <2>6, Zenon
<1>6. CASE p.conv = "p"
  <2>1. /\ p.conv # "s" /\ p.conv # "c" /\ p.conv # "d" /\ p.conv # "i" /\ p.conv # "u" /\ p.conv # "x" /\ p.conv # "X"
        /\ p.conv # "%" /\ p.conv \notin {"d", "i", "u"}
    BY <1>6
  <2>2. ~BelowZero(p, cell) BY <2>1, Zenon DEF BelowZero
  <2>3. Absolute(p, cell) = cell BY <2>2, Zenon DEF Absolute
  <2>4. PadOf(p) = "0" BY <1>6, Zenon DEF PadOf
  <2>5. Converted(p, cell) = Body(Digits(cell, 16, Hex), FALSE, "0", IF p.width < 8 THEN 8 ELSE p.width)
    BY <1>6, <2>1, Zenon DEF Converted
  <2>6. RadixOf(p) = 16 /\ FiguresOf(p) = Hex BY <2>1, Zenon DEF RadixOf, FiguresOf
  <2>7. WidthOf(p) = IF p.width < 8 THEN 8 ELSE p.width BY <1>6, Zenon DEF WidthOf
  <2>8. Good(FALSE) BY <2>2, <2>3, <2>4, <2>5, <2>6, <2>7, Zenon DEF DigitsOfCell
  <2>q. QED BY <1>2, <1>3, <2>8, Zenon
<1>q. QED BY <1>4, <1>5, <1>6, Zenon DEF NumberConv

LEMMA NumberField ==
    ASSUME NEW p, p.width \in Nat, p.conv \in NumberConv, NEW cell \in 0 .. 2 * Half - 1
    PROVE  /\ Laid(p, Converted(p, cell)) \in Seq(Char)
           /\ Settled(p) => IsField(p, cell, Laid(p, Converted(p, cell)))
<1> DEFINE w == DigitsOfCell(p, cell)
           v == Absolute(p, cell)
           radix == RadixOf(p)
           dig == FiguresOf(p)
           pad == PadOf(p)
           W == WidthOf(p)
<1>1. v \in Nat /\ radix \in Radix /\ dig \in Figure BY NumberConverted
<1>2. PICK neg : (neg <=> BelowZero(p, cell)) /\ Converted(p, cell) = Body(w, neg, pad, W) BY NumberConverted
<1>3. w \in Seq(Char) /\ Len(w) \in Nat /\ Len(w) >= 1 BY <1>1, DigitsText DEF DigitsOfCell
<1>4. pad \in {Gap, "0"} BY Zenon DEF PadOf
<1>5. W \in Nat BY DEF WidthOf
<1> DEFINE u == Laid(p, Body(w, neg, pad, W))
<1> HIDE DEF w, v, radix, dig, pad, W
<1>6. PICK x, z, y : IsLaid(p, w, neg, pad, W, u, x, z, y) BY <1>3, <1>4, <1>5, LaidIs
<1> HIDE DEF u
<1> DEFINE k == CoreLen(w, neg, z)
           sg == SignLen(neg)
           core == Core(u, x, k)
<1>7. /\ sg \in {0, 1} /\ (neg <=> sg = 1) /\ k \in Nat
      /\ u \in Seq(Char) /\ x \in Nat /\ y \in Nat /\ z \in Nat /\ Len(u) = x + k + y
  BY <1>3, <1>6, LaidSizes
<1>8. k = sg + z + Len(w) BY Zenon DEF CoreLen
<1>9. /\ neg => u[x + 1] = "-"
      /\ \A i \in 1 .. z : u[x + sg + i] = "0"
      /\ \A i \in 1 .. Len(w) : u[x + sg + z + i] = w[i]
      /\ IF p.left THEN x = 0 /\ z = 0 ELSE y = 0
      /\ pad = "0" => x = 0
      /\ pad = Gap => z = 0
      /\ Len(u) >= W /\ (Len(u) > W => x = 0 /\ z = 0 /\ y = 0)
  BY <1>6, Zenon DEF IsLaid
<1> HIDE DEF k, sg
<1>10. core \in Seq(Char) /\ Len(core) = k /\ \A i \in 1 .. k : core[i] = u[x + i]
  <2>1. x + k <= Len(u) BY <1>7
  <2>q. QED BY <1>7, <2>1, CoreIs
<1> HIDE DEF core
<1> DEFINE zeros == p.conv = "p" \/ (p.zero /\ ~p.left /\ Len(core) = p.width)
           t == IF BelowZero(p, cell) THEN Tail(core) ELSE core
<1>11. zeros \/ z = 0
  <2> SUFFICES ASSUME z # 0, p.conv # "p" PROVE p.zero /\ ~p.left /\ Len(core) = p.width OBVIOUS
  <2>1. pad = "0" BY <1>4, <1>9, Zenon
  <2>2. p.zero /\ ~p.left BY <2>1, CharsAre, Zenon DEF pad, PadOf
  <2>3. x = 0 /\ y = 0 /\ Len(u) = W BY <1>5, <1>7, <1>9, <2>1, <2>2
  <2>4. W = p.width BY Zenon DEF W, WidthOf
  <2>5. Len(core) = p.width BY <1>7, <1>10, <2>3, <2>4
  <2>q. QED BY <2>2, <2>5
<1>12. ZerosThen(t, z, w)
  <2>1. CASE BelowZero(p, cell)
    <3>1. sg = 1 BY <1>2, <1>7, <2>1
    <3>2. k = 1 + z + Len(w) BY <1>8, <3>1
    <3>3. Tail(core) \in Seq(Char) /\ Len(Tail(core)) = k - 1 /\ \A i \in 1 .. k - 1 : Tail(core)[i] = core[i + 1]
      <4>1. core # <<>> BY <1>3, <1>7, <1>10, <3>2
      <4>q. QED BY <1>10, <4>1
    <3> DEFINE tl == Tail(core)
    <3> HIDE DEF tl
    <3>4. Len(tl) = z + Len(w) BY <1>3, <1>7, <3>2, <3>3 DEF tl
    <3>5. ASSUME NEW i \in 1 .. z + Len(w) PROVE tl[i] = u[x + 1 + i]
      <4>1. i \in 1 .. k - 1 /\ i + 1 \in 1 .. k /\ x + (i + 1) = x + 1 + i BY <1>3, <1>7, <3>2
      <4>2. tl[i] = core[i + 1] BY <3>3, <4>1 DEF tl
      <4>3. core[i + 1] = u[x + (i + 1)] BY <1>10, <4>1
      <4>q. QED BY <4>1, <4>2, <4>3
    <3>6. ASSUME NEW i \in 1 .. z PROVE tl[i] = "0"
      <4>1. i \in 1 .. z + Len(w) BY <1>3, <1>7
      <4>q. QED BY <1>9, <3>1, <3>5, <4>1
    <3>7. ASSUME NEW i \in 1 .. Len(w) PROVE tl[z + i] = w[i]
      <4>1. z + i \in 1 .. z + Len(w) /\ x + 1 + (z + i) = x + 1 + z + i BY <1>3, <1>7
      <4>2. u[x + 1 + z + i] = w[i] BY <1>9, <3>1
      <4>3. tl[z + i] = u[x + 1 + (z + i)] BY <3>5, <4>1
      <4>q. QED BY <4>1, <4>2, <4>3
    <3>8. ZerosThen(tl, z, w) BY <1>7, <3>3, <3>4, <3>6, <3>7, Zenon DEF ZerosThen, tl
    <3>q. QED BY <2>1, <3>8, Zenon DEF tl
  <2>2. CASE ~BelowZero(p, cell)
    <3>1. sg = 0 BY <1>2, <1>7, <2>2
    <3>2. k = z + Len(w) BY <1>3, <1>7, <1>8, <3>1
    <3>3. ASSUME NEW i \in 1 .. z PROVE core[i] = "0"
      <4>1. i \in 1 .. k /\ x + 0 + i = x + i BY <1>3, <1>7, <3>2
      <4>2. u[x + 0 + i] = "0" BY <1>9, <3>1
      <4>q. QED BY <1>10, <4>1, <4>2
    <3>4. ASSUME NEW i \in 1 .. Len(w) PROVE core[z + i] = w[i]
      <4>1. z + i \in 1 .. k /\ x + 0 + z + i = x + (z + i) BY <1>3, <1>7, <3>2
      <4>2. u[x + 0 + z + i] = w[i] BY <1>9, <3>1
      <4>3. core[z + i] = u[x + (z + i)] BY <1>10, <4>1
      <4>q. QED BY <4>1, <4>2, <4>3
    <3>5. ZerosThen(core, z, w) BY <1>7, <1>10, <3>2, <3>3, <3>4, Zenon DEF ZerosThen
    <3>q. QED BY <2>2, <3>5, Zenon
  <2>q. QED BY <2>1, <2>2
<1> HIDE DEF zeros, t
<1>13. IsNumeral(t, v, radix, dig, zeros)
  <2>1. ZerosThen(t, z, Digits(v, radix, dig)) BY <1>12, Zenon DEF w, v, radix, dig, DigitsOfCell
  <2>q. QED BY <1>1, <1>11, <2>1, NumeralIs
<1>14. BelowZero(p, cell) => core[1] = "-"
  <2> SUFFICES ASSUME BelowZero(p, cell) PROVE core[1] = "-" OBVIOUS
  <2>1. sg = 1 BY <1>2, <1>7
  <2>2. 1 \in 1 .. k BY <1>3, <1>7, <1>8, <2>1
  <2>q. QED BY <1>2, <1>9, <1>10, <2>2, Zenon
<1>15. IsBody(p, cell, core)
  <2>1. p.conv # "s" /\ p.conv # "c" /\ p.conv # "%" BY DEF NumberConv
  <2>2. IsNumeral(IF BelowZero(p, cell) THEN Tail(core) ELSE core, IF BelowZero(p, cell) THEN 2 * Half - cell ELSE cell,
                  RadixOf(p), IF p.conv = "X" THEN HEX ELSE Hex, p.conv = "p" \/ (p.zero /\ ~p.left /\ Len(core) = p.width))
    BY <1>13, Zenon DEF t, v, Absolute, radix, dig, FiguresOf, zeros
  <2>q. QED BY <1>14, <2>1, <2>2, Zenon DEF IsBody, BelowZero
<1>16. p.conv = "p" /\ ~p.left => k >= 8
  <2> SUFFICES ASSUME p.conv = "p", ~p.left PROVE k >= 8 OBVIOUS
  <2>1. pad = "0" BY Zenon DEF pad, PadOf
  <2>2. W >= 8 BY DEF W, WidthOf
  <2>q. QED BY <1>5, <1>7, <1>9, <2>1, <2>2
<1>17. p.zero /\ ~p.left /\ p.conv \notin {"s", "c", "%"} => x = 0
  <2> SUFFICES ASSUME p.zero, ~p.left PROVE x = 0 OBVIOUS
  <2>1. pad = "0" BY Zenon DEF pad, PadOf
  <2>q. QED BY <1>9, <2>1, Zenon
<1>18. ASSUME Settled(p) PROVE IsField(p, cell, u)
  <2>0. p.conv = "p" => ~p.left BY <1>18, Zenon DEF Settled, Known, Reads
  <2>1. IsLaid(p, w, neg, pad, WidthOf(p), u, x, z, y) /\ WidthOf(p) \in Nat BY <1>5, <1>6 DEF W
  <2>2. IsBody(p, cell, Core(u, x, CoreLen(w, neg, z))) BY <1>15, Zenon DEF core, k
  <2>3. p.conv = "p" => CoreLen(w, neg, z) >= 8 BY <1>16, <2>0, Zenon DEF k
  <2>q. QED BY <1>3, <1>17, <2>1, <2>2, <2>3, FieldIs, Zenon
<1>q. QED BY <1>2, <1>7, <1>18, Zenon DEF u, w, pad, W

LEMMA CutText == ASSUME NEW s \in Seq(Char), NEW k \in Nat PROVE Cut(s, k) \in Seq(Char)
<1> DEFINE m == IF k < Len(s) THEN k ELSE Len(s)
<1>1. m \in 0 .. Len(s) OBVIOUS
<1> HIDE DEF m
<1>2. SubSeq(s, 1, m) \in Seq(Char) BY <1>1
<1>q. QED BY <1>2, Zenon DEF Cut, m

\* What a directive puts is the field its parts and its argument ask for.
LEMMA DirectiveField ==
    ASSUME NEW p, p.width \in Nat, p.prec \in Int, p.conv \in Known, NEW cell, p.conv \in Reads => IsCell(p.conv, cell)
    PROVE  /\ Laid(p, Converted(p, cell)) \in Seq(Char)
           /\ Settled(p) => IsField(p, cell, Laid(p, Converted(p, cell)))
<1>1. CASE p.conv = "s"
  <2> DEFINE str == IF cell = Null THEN NullText ELSE cell
             text == IF p.prec < 0 THEN str ELSE Cut(str, p.prec)
  <2>1. p.conv \in Reads BY <1>1 DEF Reads
  <2>2. cell = Null \/ cell \in Seq(Char) BY <1>1, <2>1, Zenon DEF IsCell
  <2>3. str \in Seq(Char) BY <2>2, CharsAre, Zenon
  <2>4. Converted(p, cell) = Body(text, FALSE, Gap, p.width) BY <1>1, Zenon DEF Converted
  <2>5. IsBody(p, cell, text) BY <1>1, Zenon DEF IsBody
  <2> HIDE DEF str
  <2>6. text \in Seq(Char)
    <3>1. CASE p.prec < 0 BY <2>3, <3>1, Zenon
    <3>2. CASE ~(p.prec < 0)
      <4>1. p.prec \in Nat BY <3>2
      <4>2. Cut(str, p.prec) \in Seq(Char) BY <2>3, <4>1, CutText
      <4>q. QED BY <3>2, <4>2, Zenon
    <3>q. QED BY <3>1, <3>2
  <2> HIDE DEF text
  <2>7. p.conv \in {"s", "c", "%"} BY <1>1
  <2>q. QED BY <2>4, <2>5, <2>6, <2>7, TextField, Zenon
<1>2. CASE p.conv = "c"
  <2>1. p.conv \in Reads /\ p.conv # "s" BY <1>2 DEF Reads
  <2>2. cell \in Char BY <1>2, <2>1, Zenon DEF IsCell
  <2>3. <<cell>> \in Seq(Char) BY <2>2
  <2>4. Converted(p, cell) = Body(<<cell>>, FALSE, Gap, p.width) BY <1>2, Zenon DEF Converted
  <2>5. IsBody(p, cell, <<cell>>) BY <1>2, Zenon DEF IsBody
  <2>6. p.conv \in {"s", "c", "%"} BY <1>2
  <2>q. QED BY <2>3, <2>4, <2>5, <2>6, TextField, Zenon
<1>3. CASE p.conv = "%"
  <2>1. <<"%">> \in Seq(Char)
    <3>1. "%" \in Char BY CharsAre
    <3>q. QED BY <3>1
  <2>2. Converted(p, cell) = Body(<<"%">>, FALSE, Gap, p.width) BY <1>3, Zenon DEF Converted
  <2>3. IsBody(p, cell, <<"%">>) BY <1>3, Zenon DEF IsBody
  <2>4. p.conv \in {"s", "c", "%"} BY <1>3
  <2>q. QED BY <2>1, <2>2, <2>3, <2>4, TextField, Zenon
<1>4. CASE p.conv \in NumberConv
  <2>1. p.conv \in Reads /\ p.conv # "s" /\ p.conv # "c" BY <1>4 DEF Reads, NumberConv
  <2>2. cell \in 0 .. 2 * Half - 1 BY <2>1, Zenon DEF IsCell
  <2>q. QED BY <1>4, <2>2, NumberField, Zenon
<1>q. QED BY <1>1, <1>2, <1>3, <1>4 DEF Known, Reads, NumberConv

\* fmt_core() works with what it has parsed: the same parts, the same text.
Means(d, p) ==
    /\ d.left <=> p.left
    /\ d.zero <=> p.zero
    /\ d.width = p.width /\ d.prec = p.prec /\ d.conv = p.conv
LEMMA SameText == ASSUME NEW d, NEW p, Means(d, p), NEW cell PROVE Laid(d, Converted(d, cell)) = Laid(p, Converted(p, cell))
<1>1. (d.left <=> p.left) /\ (d.zero <=> p.zero) /\ d.width = p.width /\ d.prec = p.prec /\ d.conv = p.conv
  BY Zenon DEF Means
<1>2. (IF d.zero /\ ~d.left THEN "0" ELSE Gap) = IF p.zero /\ ~p.left THEN "0" ELSE Gap BY <1>1, Zenon
<1>3. Converted(d, cell) = Converted(p, cell) BY <1>1, <1>2, Zenon DEF Converted
<1>4. ASSUME NEW b PROVE Laid(d, b) = Laid(p, b)
  <2>1. CASE p.left BY <1>1, <2>1, Zenon DEF Laid
  <2>2. CASE ~p.left BY <1>1, <2>2, Zenon DEF Laid
  <2>q. QED BY <2>1, <2>2
<1>q. QED BY <1>3, <1>4, Zenon

LEMMA DirectiveConv ==
    ASSUME NEW p, IsDirective(p), p.chars \in Seq(Char), p.conv # "nul"
    PROVE  p.conv \in Char /\ p.conv = p.chars[Len(p.chars)]
<1> DEFINE t == p.chars
<1>1. \E a \in 2 .. Len(t) + 1 : \E b \in a .. Len(t) + 1 : \E c \in b .. Len(t) + 1 : \E d \in c .. Len(t) + 1 :
         d = Len(t) /\ p.conv = t[d]
  BY Zenon DEF IsDirective
<1>2. Len(t) \in Nat OBVIOUS
<1>3. Len(t) >= 1 /\ p.conv = t[Len(t)]
  <2>1. PICK a \in 2 .. Len(t) + 1 : \E b \in a .. Len(t) + 1 : \E c \in b .. Len(t) + 1 : \E d \in c .. Len(t) + 1 :
         d = Len(t) /\ p.conv = t[d]
    BY <1>1
  <2>q. QED BY <1>2, <2>1
<1>4. Len(t) \in 1 .. Len(t) BY <1>2, <1>3
<1>q. QED BY <1>3, <1>4, ItemIs

\* The arguments behind the first r.
Unread(cs, c, r) ==
    /\ r \in Nat /\ cs \in Seq({c.cells[i] : i \in 1 .. Len(c.cells)}) /\ r + Len(cs) = Len(c.cells)
    /\ \A i \in 1 .. Len(cs) : cs[i] = c.cells[r + i]

LEMMA UnreadAll == ASSUME NEW c, IsFormat(c) PROVE Unread(c.cells, c, 0)
<1> DEFINE s == c.cells
           S == {s[i] : i \in 1 .. Len(s)}
<1>1. Len(s) \in Nat /\ s = [i \in 1 .. Len(s) |-> s[i]] BY Zenon DEF IsFormat, IsSeq
<1>2. \A i \in 1 .. Len(s) : s[i] \in S OBVIOUS
<1> HIDE DEF S, s
<1>3. [i \in 1 .. Len(s) |-> s[i]] \in Seq(S) BY <1>1, <1>2
<1>4. s \in Seq(S) BY <1>1, <1>3, Zenon
<1>5. 0 \in Nat /\ 0 + Len(s) = Len(s) /\ \A i \in 1 .. Len(s) : 0 + i = i BY <1>1
<1>6. \A i \in 1 .. Len(s) : s[i] = s[0 + i] BY <1>5, Zenon
<1>q. QED BY <1>4, <1>5, <1>6, Zenon DEF Unread, S, s

LEMMA UnreadTail ==
    ASSUME NEW cs, NEW c, NEW r, Unread(cs, c, r), r + 1 <= Len(c.cells)
    PROVE  Unread(Tail(cs), c, r + 1) /\ Head(cs) = c.cells[r + 1]
<1> DEFINE S == {c.cells[i] : i \in 1 .. Len(c.cells)}
           t == Tail(cs)
<1>1. r \in Nat /\ cs \in Seq(S) /\ r + Len(cs) = Len(c.cells) /\ \A i \in 1 .. Len(cs) : cs[i] = c.cells[r + i]
  BY Zenon DEF Unread
<1> HIDE DEF S
<1>2. Len(cs) \in Nat /\ Len(cs) >= 1 BY <1>1
<1>3. cs # <<>> BY <1>2
<1>4. t \in Seq(S) /\ Len(t) = Len(cs) - 1 /\ Head(cs) = cs[1] /\ \A i \in 1 .. Len(t) : t[i] = cs[i + 1] BY <1>1, <1>3
<1> HIDE DEF t
<1>5. Head(cs) = c.cells[r + 1]
  <2>1. 1 \in 1 .. Len(cs) BY <1>2
  <2>q. QED BY <1>1, <1>4, <2>1, Zenon
<1>6. ASSUME NEW i \in 1 .. Len(t) PROVE t[i] = c.cells[(r + 1) + i]
  <2>1. i + 1 \in 1 .. Len(cs) /\ r + (i + 1) = (r + 1) + i BY <1>1, <1>2, <1>4
  <2>2. cs[i + 1] = c.cells[r + (i + 1)] BY <1>1, <2>1, Zenon
  <2>q. QED BY <1>4, <2>1, <2>2, Zenon
<1>7. r + 1 \in Nat /\ (r + 1) + Len(t) = Len(c.cells)
  <2>1. r \in Nat /\ Len(t) = Len(cs) - 1 BY <1>1, <1>4, Zenon
  <2>2. r + 1 \in Nat /\ (r + 1) + Len(t) = r + Len(cs) BY <1>2, <2>1
  <2>q. QED BY <1>1, <2>2, Zenon
<1>8. Unread(t, c, r + 1) BY <1>4, <1>6, <1>7, Zenon DEF Unread, S
<1>q. QED BY <1>5, <1>8, Zenon DEF t

LEMMA ReadToIs ==
    ASSUME NEW c, NEW m \in Nat
    PROVE  /\ ReadTo(c, 0) = 0
           /\ c.pieces[m + 1].conv \in Reads => ReadTo(c, m + 1) = ReadTo(c, m) + 1
           /\ c.pieces[m + 1].conv \notin Reads => ReadTo(c, m + 1) = ReadTo(c, m)
<1> DEFINE R(i) == {k \in 1 .. i : c.pieces[k].conv \in Reads}
<1>1. ReadTo(c, 0) = 0
  <2>1. R(0) = {} OBVIOUS
  <2>q. QED BY <2>1, FS_EmptySet, Zenon DEF ReadTo
<1>2. IsFiniteSet(R(m))
  <2>1. R(m) \subseteq 1 .. m OBVIOUS
  <2>2. IsFiniteSet(1 .. m)
    <3>1. 1 \in Int /\ m \in Int OBVIOUS
    <3>q. QED BY <3>1, FS_Interval
  <2>q. QED BY <2>1, <2>2, FS_Subset
<1>3. m + 1 \notin R(m) OBVIOUS
<1>4. ASSUME c.pieces[m + 1].conv \in Reads PROVE ReadTo(c, m + 1) = ReadTo(c, m) + 1
  <2>1. R(m + 1) = R(m) \cup {m + 1}
    <3>1. \A k : k \in 1 .. m + 1 <=> (k \in 1 .. m \/ k = m + 1) OBVIOUS
    <3>q. QED BY <1>4, <3>1, Zenon
  <2> HIDE DEF R
  <2>2. Cardinality(R(m) \cup {m + 1}) = Cardinality(R(m)) + 1 BY <1>2, <1>3, FS_AddElement
  <2>q. QED BY <2>1, <2>2, Zenon DEF ReadTo, R
<1>5. ASSUME c.pieces[m + 1].conv \notin Reads PROVE ReadTo(c, m + 1) = ReadTo(c, m)
  <2>1. R(m + 1) = R(m)
    <3>1. \A k : k \in 1 .. m + 1 <=> (k \in 1 .. m \/ k = m + 1) OBVIOUS
    <3>q. QED BY <1>5, <3>1, Zenon
  <2>q. QED BY <2>1, Zenon DEF ReadTo
<1>q. QED BY <1>1, <1>4, <1>5

-----------------------------------------------------------------------------
(* A call of the printf engine under way.                                          *)

\* What the piece i has put is right.
Right(c, i, text) ==
    LET p == c.pieces[i]
    IN  Settled(p) => IF p.conv \in Known THEN IsField(p, IF p.conv \in Reads THEN c.cells[ReadTo(c, i)] ELSE 0, text)
                      ELSE text = p.chars

\* The pieces so far have put the texts, the buffer holds them as far as they fit, and
\* the place in the format and the arguments left are those of the next piece.
Progress ==
    /\ texts \in Seq(Seq(Char)) /\ Len(texts) <= Len(call.pieces)
    /\ f = Len(FlatTo(call, Len(texts))) + 1
    /\ Unread(cells, call, ReadTo(call, Len(texts)))
    /\ \A i \in 1 .. Len(texts) : Right(call, i, texts[i])
    /\ buf = BufferOf(call.size, FlattenSeq(texts))

FormatInv ==
    /\ pc = "text" => TextIdle
    /\ pc = "format" => call.op = "format" /\ Progress
    /\ FormatExact /\ BufferExact

LEMMA FormatCall ==
    ASSUME NEW c \in TextCalls, c.op = "format" PROVE IsFormat(c) /\ c.size \in 0 .. Cap /\ Cap \in Nat
BY TextAssumption, Zenon

LEMMA FormatIs == ASSUME IsFormat(call) PROVE Format = FlatTo(call, Len(call.pieces))
<1>1. DOMAIN call.pieces = 1 .. Len(call.pieces) BY PiecesAre
<1>q. QED BY <1>1, Zenon DEF Format, FlatTo, CharsOf

\* The next piece, and where it is.
LEMMA NextPiece ==
    ASSUME IsFormat(call), Progress
    PROVE  /\ Len(texts) \in Nat /\ Len(call.pieces) \in Nat
           /\ InFormat <=> Len(texts) < Len(call.pieces)
           /\ InFormat => /\ Placed(Format, f - 1, call.pieces[Len(texts) + 1].chars)
                          /\ Len(FlatTo(call, Len(texts) + 1)) = (f - 1) + Len(call.pieces[Len(texts) + 1].chars)
                          /\ Format[f] = call.pieces[Len(texts) + 1].chars[1]
                          /\ f \in Nat
<1> DEFINE m == Len(texts)
           N == Len(call.pieces)
           o == Len(FlatTo(call, m))
           t == call.pieces[m + 1].chars
<1>1. m \in Nat
  <2>1. texts \in Seq(Seq(Char)) BY Zenon DEF Progress
  <2>q. QED BY <2>1
<1>2. m <= N /\ f = o + 1 BY Zenon DEF Progress
<1>3. N \in Nat BY PiecesAre
<1>4. Format = FlatTo(call, N) BY FormatIs
<1>5. o \in Nat
  <2>1. m \in 0 .. N BY <1>1, <1>2, <1>3
  <2>2. FlatTo(call, m) \in Seq(Char) BY <2>1, FlatStep
  <2>q. QED BY <2>2
<1>6. f - 1 = o /\ f \in Nat BY <1>2, <1>5
<1>7. CASE m = N
  <2>1. Len(Format) = o BY <1>4, <1>7, Zenon
  <2>2. ~InFormat /\ ~(m < N) BY <1>1, <1>2, <1>5, <1>7, <2>1 DEF InFormat
  <2>q. QED BY <1>1, <1>3, <2>2, Zenon
<1>8. CASE m # N
  <2>1. m \in 0 .. N - 1 /\ m + 1 \in 1 .. N /\ m < N BY <1>1, <1>2, <1>3, <1>8
  <2>2. Placed(FlatTo(call, N), o, t) /\ Len(FlatTo(call, m + 1)) = o + Len(t) BY <2>1, PieceAt
  <2>3. Placed(Format, o, t) BY <1>4, <2>2, Zenon
  <2>4. Len(t) \in Nat /\ Len(t) >= 1 BY <2>1, PiecesAre
  <2> HIDE DEF o, t, m, N
  <2>5. InFormat
    <3>1. o + Len(t) <= Len(Format) /\ Len(Format) \in Nat BY <2>3, Zenon DEF Placed
    <3>q. QED BY <1>2, <1>5, <2>4, <3>1 DEF InFormat
  <2>6. Format[f] = t[1]
    <3>1. 1 \in 1 .. Len(t) BY <2>4
    <3>2. Format[o + 1] = t[1] BY <2>3, <3>1, Zenon DEF Placed
    <3>q. QED BY <1>2, <3>2, Zenon
  <2>7. Placed(Format, f - 1, t) /\ Len(FlatTo(call, m + 1)) = (f - 1) + Len(t) BY <1>6, <2>2, <2>3, Zenon
  <2>q. QED BY <1>1, <1>3, <1>6, <2>1, <2>5, <2>6, <2>7, Zenon DEF m, N, t
<1>q. QED BY <1>7, <1>8

\* The piece that is next puts its text.
Puts(text) ==
    LET m == Len(texts)
    IN  /\ text \in Seq(Char) /\ Right(call, m + 1, text) /\ call' = call
        /\ texts' = Append(texts, text) /\ buf' = Emit(buf, text)
        /\ f' = Len(FlatTo(call, m + 1)) + 1
        /\ Unread(cells', call, ReadTo(call, m + 1))

LEMMA PutKeeps ==
    ASSUME IsFormat(call), call.size \in 0 .. Cap, Progress, InFormat, NEW text, Puts(text)
    PROVE  Progress'
<1> DEFINE m == Len(texts)
           S == Seq(Char)
           us == Append(texts, text)
<1>1. /\ text \in Seq(Char) /\ Right(call, m + 1, text) /\ call' = call
      /\ texts' = us /\ buf' = Emit(buf, text)
      /\ f' = Len(FlatTo(call, m + 1)) + 1
      /\ Unread(cells', call, ReadTo(call, m + 1))
  BY Zenon DEF Puts
<1>2. m \in Nat /\ Len(call.pieces) \in Nat /\ m < Len(call.pieces) BY NextPiece
<1>3. texts \in Seq(S) /\ buf = BufferOf(call.size, FlattenSeq(texts)) /\ \A i \in 1 .. m : Right(call, i, texts[i])
  BY Zenon DEF Progress
<1>4. us \in Seq(S) /\ Len(us) = m + 1 /\ us[m + 1] = text /\ \A i \in 1 .. m : us[i] = texts[i]
  <2> HIDE DEF S
  <2>1. text \in S BY <1>1 DEF S
  <2>q. QED BY <1>3, <2>1, AppendIs
<1> HIDE DEF us
<1>5. FlattenSeq(texts) \in Seq(Char) /\ FlattenSeq(us) = FlattenSeq(texts) \o text BY <1>1, <1>3, FlatGrows DEF us
<1>6. buf' = BufferOf(call.size, FlattenSeq(us))
  <2>1. Emit(BufferOf(call.size, FlattenSeq(texts)), text) = BufferOf(call.size, FlattenSeq(texts) \o text)
    BY <1>1, <1>5, EmitIs
  <2>q. QED BY <1>1, <1>3, <1>5, <2>1, Zenon
<1>7. \A i \in 1 .. m + 1 : Right(call, i, us[i])
  <2> TAKE i \in 1 .. m + 1
  <2>1. i \in 1 .. m \/ i = m + 1 BY <1>2
  <2>q. QED BY <1>1, <1>3, <1>4, <2>1, Zenon
<1>8. m + 1 <= Len(call.pieces) BY <1>2
<1> HIDE DEF m, S
<1>9. texts' = us /\ Len(us) = m + 1 /\ call' = call BY <1>1, <1>4, Zenon
<1>10. Len(texts') = m + 1 BY <1>9, Zenon
<1>11. texts' \in Seq(Seq(Char)) /\ Len(texts') <= Len(call'.pieces) BY <1>4, <1>8, <1>9, <1>10, Zenon DEF S
<1>12. f' = Len(FlatTo(call', Len(texts'))) + 1 BY <1>1, <1>9, <1>10, Zenon DEF m
<1>13. Unread(cells', call', ReadTo(call', Len(texts'))) BY <1>1, <1>9, <1>10, Zenon DEF m
<1>14. \A i \in 1 .. Len(texts') : Right(call', i, texts'[i]) BY <1>7, <1>9, <1>10, Zenon
<1>15. buf' = BufferOf(call'.size, FlattenSeq(texts')) BY <1>6, <1>9, Zenon
<1>q. QED BY <1>11, <1>12, <1>13, <1>14, <1>15, Zenon DEF Progress

LEMMA CharKeeps ==
    ASSUME IsFormat(call), call.size \in 0 .. Cap, Progress, FmtChar
    PROVE  Progress'
<1> DEFINE m == Len(texts)
           p == call.pieces[m + 1]
<1>1. /\ call' = call /\ InFormat /\ Format[f] # "%" /\ f' = f + 1 /\ cells' = cells
      /\ buf' = Emit(buf, <<Format[f]>>) /\ texts' = Append(texts, <<Format[f]>>)
  BY Zenon DEF FmtChar, Goto, Put
<1>2. /\ m \in Nat /\ Len(call.pieces) \in Nat /\ m < Len(call.pieces) /\ Format[f] = p.chars[1] /\ f \in Nat
      /\ Len(FlatTo(call, m + 1)) = (f - 1) + Len(p.chars)
  BY <1>1, NextPiece, Zenon
<1>3. m + 1 \in 1 .. Len(call.pieces) /\ m + 1 \in DOMAIN call.pieces
  <2>1. DOMAIN call.pieces = 1 .. Len(call.pieces) BY PiecesAre
  <2>q. QED BY <1>2, <2>1
<1>4. /\ p.chars \in Seq(Char)
      /\ IF p.conv = "lit" THEN Len(p.chars) = 1 /\ p.chars[1] # "%" ELSE IsDirective(p)
  BY <1>3, Zenon DEF IsFormat
<1>5. p.conv = "lit" /\ Len(p.chars) = 1
  <2>1. IsDirective(p) => p.chars[1] = "%" BY Zenon DEF IsDirective
  <2>q. QED BY <1>1, <1>2, <1>4, <2>1, Zenon
<1> HIDE DEF p, m
<1>6. <<Format[f]>> = p.chars BY <1>2, <1>4, <1>5
<1>7. p.conv \notin Known /\ p.conv \notin Reads BY <1>5 DEF Known, Reads
<1>8. Right(call, m + 1, p.chars) BY <1>7, Zenon DEF Right, p
<1>9. f' = Len(FlatTo(call, m + 1)) + 1
  <2>1. Len(FlatTo(call, m + 1)) = (f - 1) + 1 BY <1>2, <1>5, Zenon
  <2>q. QED BY <1>1, <1>2, <2>1
<1>10. Unread(cells', call, ReadTo(call, m + 1))
  <2>1. ReadTo(call, m + 1) = ReadTo(call, m) BY <1>2, <1>7, ReadToIs DEF p
  <2>2. Unread(cells, call, ReadTo(call, m)) BY Zenon DEF Progress, m
  <2>q. QED BY <1>1, <2>1, <2>2, Zenon
<1>11. Puts(p.chars)
  <2>1. texts' = Append(texts, p.chars) /\ buf' = Emit(buf, p.chars) BY <1>1, <1>6, Zenon
  <2>q. QED BY <1>1, <1>4, <1>8, <1>9, <1>10, <2>1, Zenon DEF Puts, m
<1>q. QED BY <1>1, <1>11, PutKeeps

\* At a "%" there is a directive, and fmt_core() finds its parts.
LEMMA PercentIs ==
    ASSUME IsFormat(call), Progress, InFormat, Format[f] = "%"
    PROVE  LET m == Len(texts)
               p == call.pieces[m + 1]
               d == Directive(f + 1)
           IN  /\ IsDirective(p) /\ p.chars \in Seq(Char) /\ p.conv # "lit" /\ Means(d, p)
               /\ p.width \in Nat /\ p.prec \in Int
               /\ d.next = Len(FlatTo(call, m + 1)) + 1
               /\ p.conv \in Reads => /\ ReadTo(call, m + 1) <= Len(call.cells)
                                      /\ IsCell(p.conv, call.cells[ReadTo(call, m + 1)])
<1> DEFINE m == Len(texts)
           p == call.pieces[m + 1]
           d == Directive(f + 1)
           o == f - 1
<1>1. /\ m \in Nat /\ Len(call.pieces) \in Nat /\ m < Len(call.pieces) /\ Format[f] = p.chars[1] /\ f \in Nat
      /\ Placed(Format, o, p.chars)
      /\ Len(FlatTo(call, m + 1)) = o + Len(p.chars)
  BY NextPiece, Zenon
<1>2. m + 1 \in 1 .. Len(call.pieces) /\ m + 1 \in DOMAIN call.pieces
  <2>1. DOMAIN call.pieces = 1 .. Len(call.pieces) BY PiecesAre
  <2>q. QED BY <1>1, <2>1
<1>3. /\ p.chars \in Seq(Char)
      /\ IF p.conv = "lit" THEN Len(p.chars) = 1 /\ p.chars[1] # "%"
         ELSE IsDirective(p) /\ (p.conv = "nul" => m + 1 = Len(call.pieces))
      /\ p.conv \in Reads => /\ ReadTo(call, m + 1) <= Len(call.cells)
                             /\ IsCell(p.conv, call.cells[ReadTo(call, m + 1)])
  BY <1>2, Zenon DEF IsFormat
<1>4. p.conv # "lit" /\ IsDirective(p) /\ (p.conv = "nul" => m + 1 = Len(call.pieces)) BY <1>1, <1>3, Zenon
<1>5. p.conv = "nul" => o + Len(p.chars) = Len(Format)
  <2>1. Format = FlatTo(call, Len(call.pieces)) BY FormatIs
  <2>q. QED BY <1>1, <1>4, <2>1, Zenon
<1>6. o + 2 = f + 1 BY <1>1
<1> HIDE DEF p, o, m
<1>7. /\ d.left <=> p.left
      /\ d.zero <=> p.zero
      /\ d.width = p.width /\ d.prec = p.prec /\ d.conv = p.conv
      /\ d.next = o + Len(p.chars) + 1
  <2>1. /\ Directive(o + 2).left <=> p.left
        /\ Directive(o + 2).zero <=> p.zero
        /\ Directive(o + 2).width = p.width /\ Directive(o + 2).prec = p.prec /\ Directive(o + 2).conv = p.conv
        /\ Directive(o + 2).next = o + Len(p.chars) + 1
    BY <1>1, <1>3, <1>4, <1>5, DirectiveIs, Zenon
  <2>q. QED BY <1>6, <2>1, Zenon
<1> HIDE DEF d
<1>8. Means(d, p) BY <1>7, Zenon DEF Means
<1>9. p.width \in Nat /\ p.prec \in Int BY <1>3, <1>4, DirectiveType, Zenon
<1>10. d.next = Len(FlatTo(call, m + 1)) + 1 BY <1>1, <1>7, Zenon
<1>q. QED BY <1>3, <1>4, <1>8, <1>9, <1>10, Zenon DEF d, p, m

LEMMA DirectiveKeeps ==
    ASSUME IsFormat(call), call.size \in 0 .. Cap, Progress, FmtDirective
    PROVE  Progress'
<1> DEFINE m == Len(texts)
           p == call.pieces[m + 1]
           d == Directive(f + 1)
           cell == IF d.conv \in Reads THEN Head(cells) ELSE 0
           text == Laid(d, Converted(d, cell))
<1>1. /\ call' = call /\ InFormat /\ Format[f] = "%" /\ d.conv \in Known
      /\ buf' = Emit(buf, text) /\ texts' = Append(texts, text)
      /\ cells' = (IF d.conv \in Reads THEN Tail(cells) ELSE cells)
      /\ f' = d.next
  BY Zenon DEF FmtDirective, Goto, Put
<1>2. /\ IsDirective(p) /\ p.chars \in Seq(Char) /\ Means(d, p)
      /\ p.width \in Nat /\ p.prec \in Int
      /\ d.next = Len(FlatTo(call, m + 1)) + 1
      /\ p.conv \in Reads => /\ ReadTo(call, m + 1) <= Len(call.cells)
                             /\ IsCell(p.conv, call.cells[ReadTo(call, m + 1)])
  BY <1>1, PercentIs, Zenon
<1>3. d.conv = p.conv BY <1>2, Zenon DEF Means
<1>4. m \in Nat BY NextPiece, Zenon
<1>5. Unread(cells, call, ReadTo(call, m)) BY Zenon DEF Progress
<1> HIDE DEF d
<1>6. /\ Unread(cells', call, ReadTo(call, m + 1))
      /\ cell = IF p.conv \in Reads THEN call.cells[ReadTo(call, m + 1)] ELSE 0
  <2>1. CASE p.conv \in Reads
    <3>1. ReadTo(call, m + 1) = ReadTo(call, m) + 1 BY <1>4, <2>1, ReadToIs
    <3>2. ReadTo(call, m) + 1 <= Len(call.cells) BY <1>2, <2>1, <3>1, Zenon
    <3>3. /\ Unread(Tail(cells), call, ReadTo(call, m) + 1)
          /\ Head(cells) = call.cells[ReadTo(call, m) + 1]
      BY <1>5, <3>2, UnreadTail
    <3>q. QED BY <1>1, <1>3, <2>1, <3>1, <3>3, Zenon
  <2>2. CASE p.conv \notin Reads
    <3>1. ReadTo(call, m + 1) = ReadTo(call, m) BY <1>4, <2>2, ReadToIs
    <3>q. QED BY <1>1, <1>3, <1>5, <2>2, <3>1, Zenon
  <2>q. QED BY <2>1, <2>2
<1> HIDE DEF m, p, cell, text
<1>7. p.conv \in Known BY <1>1, <1>3, Zenon
<1>8. text = Laid(p, Converted(p, cell)) BY <1>2, SameText, Zenon DEF text
<1>9. p.conv \in Reads => IsCell(p.conv, cell) BY <1>2, <1>6, Zenon
<1>10. text \in Seq(Char) /\ (Settled(p) => IsField(p, cell, text)) BY <1>2, <1>7, <1>8, <1>9, DirectiveField, Zenon
<1>11. Right(call, m + 1, text) BY <1>6, <1>7, <1>10, Zenon DEF Right, p
<1>12. Puts(text) BY <1>1, <1>2, <1>6, <1>10, <1>11, Zenon DEF Puts, m
<1>q. QED BY <1>1, <1>12, PutKeeps

LEMMA UnknownKeeps ==
    ASSUME IsFormat(call), call.size \in 0 .. Cap, Progress, FmtUnknown
    PROVE  Progress'
<1> DEFINE m == Len(texts)
           p == call.pieces[m + 1]
           d == Directive(f + 1)
           text == IF d.conv = "nul" THEN <<"%">> ELSE <<"%", d.conv>>
<1>1. /\ call' = call /\ InFormat /\ Format[f] = "%" /\ d.conv \notin Known
      /\ buf' = Emit(buf, text) /\ texts' = Append(texts, text)
      /\ cells' = cells /\ f' = d.next
  BY Zenon DEF FmtUnknown, Goto, Put
<1>2. /\ IsDirective(p) /\ p.chars \in Seq(Char) /\ p.conv # "lit" /\ Means(d, p)
      /\ d.next = Len(FlatTo(call, m + 1)) + 1
  BY <1>1, PercentIs, Zenon
<1>3. d.conv = p.conv BY <1>2, Zenon DEF Means
<1>4. m \in Nat BY NextPiece, Zenon
<1>5. Unread(cells, call, ReadTo(call, m)) BY Zenon DEF Progress
<1> HIDE DEF d
<1>6. p.conv \notin Known /\ p.conv \notin Reads
  <2>1. Reads \subseteq Known BY Zenon DEF Known
  <2>q. QED BY <1>1, <1>3, <2>1, Zenon
<1>7. Unread(cells', call, ReadTo(call, m + 1))
  <2>1. ReadTo(call, m + 1) = ReadTo(call, m) BY <1>4, <1>6, ReadToIs
  <2>q. QED BY <1>1, <1>5, <2>1, Zenon
<1>8. ASSUME Settled(p) PROVE text = p.chars
  <2>1. p.chars[1] = "%" /\ Len(p.chars) = IF p.conv \in {"lit", "nul"} THEN 1 ELSE 2
    BY <1>2, <1>6, <1>8, Zenon DEF IsDirective, Settled
  <2>2. CASE p.conv = "nul"
    <3>1. Len(p.chars) = 1 BY <2>1, <2>2, Zenon
    <3>2. p.chars = <<"%">> BY <1>2, <2>1, <3>1
    <3>q. QED BY <1>3, <2>2, <3>2, Zenon
  <2>3. CASE p.conv # "nul"
    <3>1. Len(p.chars) = 2 /\ p.chars[Len(p.chars)] = p.conv BY <1>2, <2>1, <2>3, DirectiveConv, Zenon
    <3> DEFINE t == p.chars
               e == p.conv
    <3>2. t \in Seq(Char) /\ Len(t) = 2 /\ t[1] = "%" /\ t[2] = e BY <1>2, <2>1, <3>1, Zenon
    <3> HIDE DEF t, e
    <3>3. t = <<"%", e>> BY <3>2
    <3>q. QED BY <1>3, <2>3, <3>3, Zenon DEF t, e
  <2>q. QED BY <2>2, <2>3
<1>9. text \in Seq(Char)
  <2>0. "%" \in Char BY CharsAre
  <2>1. CASE p.conv = "nul"
    <3>1. <<"%">> \in Seq(Char) BY <2>0
    <3>q. QED BY <1>3, <2>1, <3>1, Zenon
  <2>2. CASE p.conv # "nul"
    <3>1. p.conv \in Char BY <1>2, <2>2, DirectiveConv, Zenon
    <3> DEFINE e == p.conv
    <3> HIDE DEF e
    <3>2. <<"%", e>> \in Seq(Char) BY <2>0, <3>1 DEF e
    <3>q. QED BY <1>3, <2>2, <3>2, Zenon DEF e
  <2>q. QED BY <2>1, <2>2
<1> HIDE DEF m, p, text
<1>10. Right(call, m + 1, text) BY <1>6, <1>8, Zenon DEF Right, p
<1>11. Puts(text) BY <1>1, <1>2, <1>7, <1>9, <1>10, Zenon DEF Puts, m
<1>q. QED BY <1>1, <1>11, PutKeeps

LEMMA InitKeeps ==
    ASSUME IsFormat(call), call.size \in 0 .. Cap, Cap \in Nat, TextIdle, FmtInit
    PROVE  Progress'
<1> DEFINE size == call.size
<1>1. /\ call' = call /\ f' = 1 /\ texts' = <<>> /\ cells' = call.cells
      /\ buf' = [NoBuffer EXCEPT !.room = IF size # 0 THEN size - 1 ELSE 0]
  BY Zenon DEF FmtInit, Goto, TextIdle, Buffered, RoomOf
<1>2. Len(<<>>) = 0 /\ <<>> \in Seq(Seq(Char)) /\ \A i \in 1 .. 0 : FALSE OBVIOUS
<1>3. Len(call.pieces) \in Nat BY PiecesAre
<1>4. FlatTo(call, 0) = <<>> BY FlatStep
<1>5. f' = Len(FlatTo(call, 0)) + 1 BY <1>1, <1>2, <1>4
<1>6. Unread(cells', call, ReadTo(call, 0))
  <2>1. Unread(call.cells, call, 0) BY UnreadAll
  <2>2. ReadTo(call, 0) = 0
    <3>1. 0 \in Nat OBVIOUS
    <3>q. QED BY <3>1, ReadToIs
  <2>q. QED BY <1>1, <2>1, <2>2, Zenon
<1>7. buf' = BufferOf(size, <<>>)
  <2> DEFINE room == RoomFor(size)
  <2>1. room \in Nat /\ room = IF size # 0 THEN size - 1 ELSE 0 BY DEF RoomFor
  <2>2. HeldOf(size, <<>>) = 0 BY <1>2, <2>1 DEF HeldOf
  <2>3. buf' = [mem |-> [i \in 1 .. Cap |-> "?"], cursor |-> 1, room |-> room, length |-> 0]
    <3> HIDE DEF room
    <3>q. QED BY <1>1, <2>1 DEF NoBuffer
  <2>4. [i \in 1 .. Cap |-> IF i <= 0 THEN <<>>[i] ELSE "?"] = [i \in 1 .. Cap |-> "?"]
    <3>1. \A i \in 1 .. Cap : ~(i <= 0) OBVIOUS
    <3>q. QED BY <3>1, Zenon
  <2>5. 0 + 1 = 1 /\ room - 0 = room BY <2>1
  <2>6. BufferOf(size, <<>>) = [mem |-> [i \in 1 .. Cap |-> IF i <= 0 THEN <<>>[i] ELSE "?"],
                                cursor |-> 0 + 1, room |-> room - 0, length |-> 0]
    BY <1>2, <2>2, Zenon DEF BufferOf
  <2>q. QED BY <2>3, <2>4, <2>5, <2>6, Zenon
<1>8. FlattenSeq(<<>>) = <<>> BY FlatEmpty
<1>9. Len(texts') = 0 BY <1>1, <1>2, Zenon
<1>10. texts' \in Seq(Seq(Char)) /\ Len(texts') <= Len(call'.pieces) BY <1>1, <1>2, <1>3
<1>11. f' = Len(FlatTo(call', Len(texts'))) + 1 BY <1>1, <1>5, <1>9, Zenon
<1>12. Unread(cells', call', ReadTo(call', Len(texts'))) BY <1>1, <1>6, <1>9, Zenon
<1>13. \A i \in 1 .. Len(texts') : Right(call', i, texts'[i]) BY <1>2, <1>9, Zenon
<1>14. buf' = BufferOf(call'.size, FlattenSeq(texts')) BY <1>1, <1>7, <1>8, Zenon
<1>q. QED BY <1>10, <1>11, <1>12, <1>13, <1>14, Zenon DEF Progress

\* What BufferExact says of the buffer.
Kept(size, all) == IF Len(all) < size THEN Len(all) ELSE size - 1
Holds(b, size, all, used) ==
    /\ b.length = Len(all)
    /\ b.mem = [i \in 1 .. Cap |->
           IF ~used \/ i > Kept(size, all) + 1 THEN "?" ELSE IF i <= Kept(size, all) THEN all[i] ELSE "nul"]

LEMMA KeptIs ==
    ASSUME NEW size \in 0 .. Cap, Cap \in Nat, NEW all \in Seq(Char), size # 0
    PROVE  /\ Kept(size, all) \in Nat /\ Kept(size, all) + 1 \in 1 .. Cap /\ Kept(size, all) <= Len(all)
           /\ HeldOf(size, all) = Kept(size, all)
<1>1. Len(all) \in Nat OBVIOUS
<1>2. size \in Nat /\ size >= 1 /\ size <= Cap OBVIOUS
<1>3. RoomFor(size) = size - 1 BY <1>2 DEF RoomFor
<1>q. QED BY <1>1, <1>2, <1>3 DEF Kept, HeldOf

LEMMA DoneHolds ==
    ASSUME NEW size \in 0 .. Cap, Cap \in Nat, NEW all \in Seq(Char), NEW b, b = BufferOf(size, all), NEW c,
           c = IF size # 0 THEN [b EXCEPT !.mem[b.cursor] = "nul"] ELSE b
    PROVE  Holds(c, size, all, size # 0)
<1>1. /\ b.mem = [i \in 1 .. Cap |-> IF i <= HeldOf(size, all) THEN all[i] ELSE "?"]
      /\ b.cursor = HeldOf(size, all) + 1 /\ b.length = Len(all)
      /\ b = [mem |-> b.mem, cursor |-> b.cursor, room |-> b.room, length |-> b.length]
  BY DEF BufferOf
<1>2. CASE size = 0
  <2>1. c = b BY <1>2, Zenon
  <2>2. HeldOf(size, all) = 0
    <3>1. RoomFor(size) = 0 BY <1>2, Zenon DEF RoomFor
    <3>2. Len(all) \in Nat OBVIOUS
    <3>q. QED BY <3>1, <3>2 DEF HeldOf
  <2>3. \A i \in 1 .. Cap : ~(i <= 0) OBVIOUS
  <2>4. b.mem = [i \in 1 .. Cap |-> "?"] BY <1>1, <2>2, <2>3, Zenon
  <2>5. \A i \in 1 .. Cap : (IF ~(size # 0) \/ i > Kept(size, all) + 1 THEN "?"
                             ELSE IF i <= Kept(size, all) THEN all[i] ELSE "nul") = "?"
    BY <1>2, Zenon
  <2>q. QED BY <1>1, <2>1, <2>4, <2>5, Zenon DEF Holds
<1>3. CASE size # 0
  <2> DEFINE k == Kept(size, all)
  <2>1. k \in Nat /\ k + 1 \in 1 .. Cap /\ k <= Len(all) /\ HeldOf(size, all) = k BY <1>3, KeptIs
  <2> HIDE DEF k
  <2>2. c = [b EXCEPT !.mem[b.cursor] = "nul"] BY <1>3, Zenon
  <2>3. c.length = Len(all) /\ c.mem = [b.mem EXCEPT ![b.cursor] = "nul"] BY <1>1, <2>2
  <2>4. b.mem = [i \in 1 .. Cap |-> IF i <= k THEN all[i] ELSE "?"] /\ b.cursor = k + 1 BY <1>1, <2>1, Zenon
  <2>5. c.mem = [i \in 1 .. Cap |-> IF i = k + 1 THEN "nul" ELSE IF i <= k THEN all[i] ELSE "?"]
    <3> DEFINE mem0 == b.mem
    <3>1. c.mem = [mem0 EXCEPT ![k + 1] = "nul"] BY <2>3, <2>4, Zenon
    <3>2. mem0 = [i \in 1 .. Cap |-> IF i <= k THEN all[i] ELSE "?"] BY <2>4
    <3> HIDE DEF mem0
    <3>3. [mem0 EXCEPT ![k + 1] = "nul"] = [i \in 1 .. Cap |-> IF i = k + 1 THEN "nul" ELSE IF i <= k THEN all[i] ELSE "?"]
      BY <2>1, <3>2
    <3>q. QED BY <3>1, <3>3, Zenon
  <2>6. ASSUME NEW i \in 1 .. Cap
        PROVE  (IF i = k + 1 THEN "nul" ELSE IF i <= k THEN all[i] ELSE "?")
               = IF ~(size # 0) \/ i > k + 1 THEN "?" ELSE IF i <= k THEN all[i] ELSE "nul"
    <3>1. i \in Nat OBVIOUS
    <3>2. CASE i = k + 1
      <4>1. ~(i > k + 1) /\ ~(i <= k) BY <2>1, <3>2
      <4>q. QED BY <1>3, <3>2, <4>1, Zenon
    <3>3. CASE i <= k
      <4>1. i # k + 1 /\ ~(i > k + 1) BY <2>1, <3>1, <3>3
      <4>q. QED BY <1>3, <3>3, <4>1, Zenon
    <3>4. CASE i > k + 1
      <4>1. i # k + 1 /\ ~(i <= k) BY <2>1, <3>1, <3>4
      <4>q. QED BY <3>4, <4>1, Zenon
    <3>5. i = k + 1 \/ i <= k \/ i > k + 1 BY <2>1, <3>1
    <3>q. QED BY <3>2, <3>3, <3>4, <3>5
  <2>7. c.mem = [i \in 1 .. Cap |-> IF ~(size # 0) \/ i > k + 1 THEN "?" ELSE IF i <= k THEN all[i] ELSE "nul"]
    BY <2>5, <2>6, Zenon
  <2>q. QED BY <2>3, <2>7, Zenon DEF Holds, k
<1>q. QED BY <1>2, <1>3

LEMMA DoneMeans ==
    ASSUME IsFormat(call), call.size \in 0 .. Cap, Cap \in Nat, call.op = "format", Progress, FmtDone
    PROVE  FormatExact' /\ BufferExact'
<1> DEFINE N == Len(call.pieces)
           all == FlattenSeq(texts)
<1>1. /\ call' = call /\ texts' = texts /\ ~InFormat /\ pc' = "done"
      /\ buf' = IF call.size # 0 THEN [buf EXCEPT !.mem[buf.cursor] = "nul"] ELSE buf
  BY Zenon DEF FmtDone, Goto, Buffered
<1>2. texts \in Seq(Seq(Char)) /\ Len(texts) <= N /\ buf = BufferOf(call.size, all)
      /\ \A i \in 1 .. Len(texts) : Right(call, i, texts[i])
  BY Zenon DEF Progress
<1>3. Len(texts) = N
  <2>1. Len(texts) \in Nat /\ N \in Nat /\ ~(Len(texts) < N) BY <1>1, NextPiece, Zenon
  <2>q. QED BY <1>2, <2>1
<1>4. FormatExact'
  <2>1. DOMAIN texts = 1 .. Len(texts) BY <1>2
  <2>2. \A i \in DOMAIN texts : Right(call, i, texts[i]) BY <1>2, <2>1, Zenon
  <2>q. QED BY <1>1, <1>3, <2>2, Zenon DEF FormatExact, Right
<1>5. all \in Seq(Char)
  <2>1. <<>> \in Seq(Char) OBVIOUS
  <2>q. QED BY <1>2, <2>1, FlatGrows
<1> HIDE DEF all
<1>6. Holds(buf', call.size, all, call.size # 0) BY <1>1, <1>2, <1>5, DoneHolds
<1>7. (call.op = "strfit" => Len(all) = Kept(call.size, all))
  <2>1. call.op # "strfit" OBVIOUS
  <2>q. QED BY <2>1
<1>8. BufferExact'
  <2>1. call' = call /\ FlattenSeq(texts') = all BY <1>1, Zenon DEF all
  <2>q. QED BY <1>6, <1>7, <2>1, Zenon DEF BufferExact, Holds, Kept
<1>q. QED BY <1>4, <1>8

LEMMA CopyHolds ==
    ASSUME NEW size \in 0 .. Cap, Cap \in Nat, NEW src0 \in Seq(Char), NEW dst0, dst0 = [i \in 1 .. Cap |-> "?"]
    PROVE  /\ strlcpy(dst0, src0, size, "nul") = [i \in 1 .. Cap |->
                  IF ~(size # 0) \/ i > Kept(size, src0) + 1 THEN "?" ELSE IF i <= Kept(size, src0) THEN src0[i] ELSE "nul"]
           /\ Fits(src0, size) <=> size # 0 /\ Len(src0) = Kept(size, src0)
<1>1. Len(src0) \in Nat /\ size \in Nat OBVIOUS
<1> DEFINE k == Kept(size, src0)
           j == IF Len(src0) < size - 1 THEN Len(src0) ELSE size - 1
<1>2. Fits(src0, size) <=> size # 0 /\ Len(src0) = Kept(size, src0) BY <1>1 DEF Fits, Kept
<1>3. CASE size = 0
  <2>1. strlcpy(dst0, src0, size, "nul") = dst0 BY <1>3, Zenon DEF strlcpy
  <2>2. \A i \in 1 .. Cap : "?" = IF ~(size # 0) \/ i > k + 1 THEN "?" ELSE IF i <= k THEN src0[i] ELSE "nul"
    BY <1>3, Zenon
  <2>q. QED BY <1>2, <2>1, <2>2, Zenon
<1>4. CASE size # 0
  <2>1. k \in Nat BY <1>4, KeptIs
  <2>2. j = k BY <1>1, <1>4 DEF Kept
  <2>3. DOMAIN dst0 = 1 .. Cap /\ \A i \in 1 .. Cap : dst0[i] = "?" BY Zenon
  <2>4. strlcpy(dst0, src0, size, "nul")
          = [i \in DOMAIN dst0 |-> IF i <= j THEN src0[i] ELSE IF i = j + 1 THEN "nul" ELSE dst0[i]]
    BY <1>4, Zenon DEF strlcpy
  <2> HIDE DEF k, j
  <2>5. ASSUME NEW i \in 1 .. Cap
        PROVE  (IF i <= k THEN src0[i] ELSE IF i = k + 1 THEN "nul" ELSE "?")
               = IF ~(size # 0) \/ i > k + 1 THEN "?" ELSE IF i <= k THEN src0[i] ELSE "nul"
    <3>1. i \in Nat OBVIOUS
    <3>2. CASE i = k + 1
      <4>1. ~(i > k + 1) /\ ~(i <= k) BY <2>1, <3>2
      <4>q. QED BY <1>4, <3>2, <4>1, Zenon
    <3>3. CASE i <= k
      <4>1. i # k + 1 /\ ~(i > k + 1) BY <2>1, <3>1, <3>3
      <4>q. QED BY <1>4, <3>3, <4>1, Zenon
    <3>4. CASE i > k + 1
      <4>1. i # k + 1 /\ ~(i <= k) BY <2>1, <3>1, <3>4
      <4>q. QED BY <3>4, <4>1, Zenon
    <3>5. i = k + 1 \/ i <= k \/ i > k + 1 BY <2>1, <3>1
    <3>q. QED BY <3>2, <3>3, <3>4, <3>5
  <2>6. [i \in DOMAIN dst0 |-> IF i <= j THEN src0[i] ELSE IF i = j + 1 THEN "nul" ELSE dst0[i]]
          = [i \in 1 .. Cap |-> IF i <= k THEN src0[i] ELSE IF i = k + 1 THEN "nul" ELSE "?"]
    BY <2>2, <2>3, Zenon
  <2>7. [i \in 1 .. Cap |-> IF i <= k THEN src0[i] ELSE IF i = k + 1 THEN "nul" ELSE "?"]
          = [i \in 1 .. Cap |-> IF ~(size # 0) \/ i > k + 1 THEN "?" ELSE IF i <= k THEN src0[i] ELSE "nul"]
    BY <2>5, Zenon
  <2>8. strlcpy(dst0, src0, size, "nul")
          = [i \in 1 .. Cap |-> IF ~(size # 0) \/ i > k + 1 THEN "?" ELSE IF i <= k THEN src0[i] ELSE "nul"]
    BY <2>4, <2>6, <2>7
  <2>q. QED BY <1>2, <2>8, Zenon DEF k
<1>q. QED BY <1>3, <1>4

LEMMA FlatOne == ASSUME NEW t \in Seq(Char) PROVE FlattenSeq(<<t>>) = t
<1>1. <<>> \in Seq(Seq(Char)) /\ Append(<<>>, t) = <<t>> /\ <<>> \o t = t OBVIOUS
<1>2. FlattenSeq(Append(<<>>, t)) = FlattenSeq(<<>>) \o t BY <1>1, FlatGrows
<1>q. QED BY <1>1, <1>2, FlatEmpty

LEMMA CopyMeans ==
    ASSUME call \in TextCalls, TextIdle, CopyCall
    PROVE  FormatExact' /\ BufferExact'
<1> DEFINE size == call.size
           s == call.src
           copied == IF call.op = "strfit" THEN strfit(buf.mem, s, size, "nul") ELSE strlcpy(buf.mem, s, size, "nul")
           used == size # 0 /\ (call.op = "strfit" => Len(s) = Kept(size, s))
<1>1. /\ call' = call /\ texts' = <<s>> /\ pc' = "done" /\ call.op \in {"strlcpy", "strfit"}
      /\ buf' = [NoBuffer EXCEPT !.mem = copied, !.length = Len(s)] /\ buf = NoBuffer
  BY Zenon DEF CopyCall, Goto, TextIdle
<1>2. size \in 0 .. Cap /\ s \in Seq(Char) /\ Cap \in Nat BY <1>1, TextAssumption, Zenon
<1>3. call'.op # "format"
  <2>1. call.op # "format" BY <1>1
  <2>q. QED BY <1>1, <2>1, Zenon
<1>4. FormatExact' BY <1>3, Zenon DEF FormatExact
<1>5. buf.mem = [i \in 1 .. Cap |-> "?"] BY <1>1 DEF NoBuffer
<1>6. /\ strlcpy(buf.mem, s, size, "nul") = [i \in 1 .. Cap |->
            IF ~(size # 0) \/ i > Kept(size, s) + 1 THEN "?" ELSE IF i <= Kept(size, s) THEN s[i] ELSE "nul"]
      /\ Fits(s, size) <=> size # 0 /\ Len(s) = Kept(size, s)
  <2> HIDE DEF size, s
  <2>q. QED BY <1>2, <1>5, CopyHolds, Zenon
<1>7. copied = [i \in 1 .. Cap |->
            IF ~used \/ i > Kept(size, s) + 1 THEN "?" ELSE IF i <= Kept(size, s) THEN s[i] ELSE "nul"]
  <2>1. CASE call.op # "strfit"
    <3>1. copied = strlcpy(buf.mem, s, size, "nul") BY <2>1, Zenon
    <3>2. used <=> size # 0 BY <2>1, Zenon
    <3> HIDE DEF used, copied, size, s
    <3>q. QED BY <1>6, <3>1, <3>2, Zenon
  <2>2. CASE call.op = "strfit" /\ Fits(s, size)
    <3>1. copied = strlcpy(buf.mem, s, size, "nul") BY <2>2, Zenon DEF strfit
    <3>2. used <=> size # 0 BY <1>6, <2>2, Zenon
    <3> HIDE DEF used, copied, size, s
    <3>q. QED BY <1>6, <3>1, <3>2, Zenon
  <2>3. CASE call.op = "strfit" /\ ~Fits(s, size)
    <3>1. copied = buf.mem BY <2>3, Zenon DEF strfit
    <3>2. ~used BY <1>6, <2>3, Zenon
    <3> HIDE DEF used, copied, size, s
    <3>q. QED BY <1>5, <3>1, <3>2, Zenon
  <2>q. QED BY <2>1, <2>2, <2>3, Zenon
<1>8. buf'.length = Len(s) /\ buf'.mem = copied
  <2> HIDE DEF copied, s
  <2>q. QED BY <1>1 DEF NoBuffer
<1>9. FlattenSeq(<<s>>) = s BY <1>2, FlatOne
<1>10. Holds(buf', size, s, used)
  <2> HIDE DEF copied, s, size, used
  <2>q. QED BY <1>7, <1>8, Zenon DEF Holds
<1>11. call' = call /\ FlattenSeq(texts') = s BY <1>1, <1>9, Zenon
<1>12. BufferExact' BY <1>10, <1>11, Zenon DEF BufferExact, Holds, Kept
<1>q. QED BY <1>4, <1>12

LEMMA FormatStart == ASSUME Init PROVE FormatInv
<1>1. CASE TextInit BY <1>1 DEF TextInit, FormatInv, FormatExact, BufferExact
<1>2. CASE PrefsInit \/ MoveInit BY <1>2 DEF PrefsInit, MoveInit, FormatInv, FormatExact, BufferExact
<1>q. QED BY <1>1, <1>2 DEF Init

LEMMA FormatKeeps == ASSUME TextInv, FormatInv, [Next]_libVars PROVE FormatInv'
<1>1. CASE FmtInit
  <2>1. pc = "text" /\ pc' = "format" /\ call' = call /\ call.op = "format" BY <1>1 DEF FmtInit, Goto
  <2>2. call \in TextCalls BY <2>1 DEF TextInv, TextPlaces
  <2>3. TextIdle BY <2>1, Zenon DEF FormatInv
  <2>4. Progress' BY <1>1, <2>1, <2>2, <2>3, FormatCall, InitKeeps
  <2>q. QED BY <2>1, <2>4 DEF FormatInv, FormatExact, BufferExact
<1>2. CASE FmtChar \/ FmtDirective \/ FmtUnknown
  <2>1. pc = "format" /\ pc' = "format" /\ call' = call BY <1>2 DEF FmtChar, FmtDirective, FmtUnknown, Goto
  <2>2. call \in TextCalls BY <2>1 DEF TextInv, TextPlaces
  <2>3. call.op = "format" /\ Progress BY <2>1, Zenon DEF FormatInv
  <2>4. IsFormat(call) /\ call.size \in 0 .. Cap BY <2>2, <2>3, FormatCall
  <2>5. Progress' BY <1>2, <2>3, <2>4, CharKeeps, DirectiveKeeps, UnknownKeeps
  <2>q. QED BY <2>1, <2>3, <2>5 DEF FormatInv, FormatExact, BufferExact
<1>3. CASE FmtDone
  <2>1. pc = "format" /\ pc' = "done" /\ call' = call BY <1>3 DEF FmtDone, Goto
  <2>2. call \in TextCalls BY <2>1 DEF TextInv, TextPlaces
  <2>3. call.op = "format" /\ Progress BY <2>1, Zenon DEF FormatInv
  <2>4. IsFormat(call) /\ call.size \in 0 .. Cap /\ Cap \in Nat BY <2>2, <2>3, FormatCall
  <2>5. FormatExact' /\ BufferExact' BY <1>3, <2>3, <2>4, DoneMeans
  <2>q. QED BY <2>1, <2>5 DEF FormatInv
<1>4. CASE CopyCall
  <2>1. pc = "text" /\ pc' = "done" BY <1>4 DEF CopyCall, Goto
  <2>2. call \in TextCalls BY <2>1 DEF TextInv, TextPlaces
  <2>3. TextIdle BY <2>1, Zenon DEF FormatInv
  <2>4. FormatExact' /\ BufferExact' BY <1>4, <2>2, <2>3, CopyMeans
  <2>q. QED BY <2>1, <2>4 DEF FormatInv
<1>5. CASE PureCall
  <2>1. pc' = "done" /\ call' = call /\ call.op \in PureOps BY <1>5 DEF PureCall, Goto, PureOps
  <2>2. call'.op \notin {"format", "strlcpy", "strfit"} BY <2>1 DEF PureOps
  <2>q. QED BY <2>1, <2>2 DEF FormatInv, FormatExact, BufferExact
<1>6. CASE PrefsNext \/ MoveNext
  <2>1. pc' \notin TextPlaces BY <1>6, PrefsStays, MoveStays, Apart
  <2>q. QED BY <2>1 DEF TextPlaces, FormatInv, FormatExact, BufferExact
<1>7. CASE UNCHANGED libVars
  <2>1. pc' = pc /\ call' = call /\ f' = f /\ cells' = cells /\ texts' = texts /\ buf' = buf /\ answer' = answer
    BY <1>7 DEF libVars, textVars
  <2>2. TextIdle' <=> TextIdle BY <2>1 DEF TextIdle
  <2>3. Progress' <=> Progress BY <2>1 DEF Progress
  <2>4. (FormatExact' <=> FormatExact) /\ (BufferExact' <=> BufferExact) BY <2>1 DEF FormatExact, BufferExact
  <2>q. QED BY <2>1, <2>2, <2>3, <2>4, Zenon DEF FormatInv
<1>q. QED BY <1>1, <1>2, <1>3, <1>4, <1>5, <1>6, <1>7 DEF Next, TextNext

\* fmt_core() finds the directives of any format again and puts, for each, its own
\* argument in the field its flags ask for: any width, precision and number.
THEOREM FormatCorrect == Spec => []FormatExact
<1>1. FormatInv => FormatExact BY DEF FormatInv
<1>q. QED BY <1>1, TextStart, TextKeeps, FormatStart, FormatKeeps, PTL DEF Spec

\* Of what is formatted or copied the buffer, of any size, holds as much as fits with
\* its end, and the length returned is that of the whole.
THEOREM BufferCorrect == Spec => []BufferExact
<1>1. FormatInv => BufferExact BY DEF FormatInv
<1>q. QED BY <1>1, TextStart, TextKeeps, FormatStart, FormatKeeps, PTL DEF Spec
=============================================================================
