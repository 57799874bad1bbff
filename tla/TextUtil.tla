------------------------------ MODULE TextUtil ------------------------------
(***************************************************************************)
(* The string functions of src/textutil.c, memcmp() of src/memory.c and    *)
(* prefs_bool() of src/prefs.c.  A string is the sequence of its character *)
(* codes, the terminating 0 left out; a loop is a recursive function of    *)
(* the place it is at.                                                     *)
(***************************************************************************)
EXTENDS Integers, Sequences

At(s, i) == IF i <= Len(s) THEN s[i] ELSE 0
Upper(c) == IF 97 <= c /\ c <= 122 THEN c - 32 ELSE c

\* The loop of the four: to the first difference, the end of both or the limit.
Compared(s, t, anyCase, limit) ==
    LET code(c) == IF anyCase THEN Upper(c) ELSE c
        from[i \in 1 .. Len(s) + 2] ==
            LET c1 == code(At(s, i))
                c2 == code(At(t, i))
            IN  IF i > limit THEN 0
                ELSE IF c1 # c2 THEN c1 - c2
                ELSE IF c1 = 0 THEN 0 ELSE from[i + 1]
    IN  from[1]

NoLimit(s) == Len(s) + 1
strcmp(s, t) == Compared(s, t, FALSE, NoLimit(s))
strncmp(s, t, n) == Compared(s, t, FALSE, n)
Stricmp(s, t) == Compared(s, t, TRUE, NoLimit(s))
Strnicmp(s, t, len) == IF len <= 0 THEN 0 ELSE Compared(s, t, TRUE, len)

\* memcmp(): while the longs are equal, if both are aligned, then by bytes.
LongsEqual_Any(a, b, i, n) == n - i >= 4
LongsEqual(a, b, i, n) == n - i >= 4 /\ \A k \in i + 1 .. i + 4 : a[k] = b[k]
memcmp(a, b, n, aligned) ==
    LET longs[i \in 0 .. n] == IF LongsEqual(a, b, i, n) THEN longs[i + 4] ELSE i
        bytes[i \in 0 .. n] == IF i = n THEN 0
                               ELSE IF a[i + 1] # b[i + 1] THEN a[i + 1] - b[i + 1]
                               ELSE bytes[i + 1]
    IN  bytes[IF aligned THEN longs[0] ELSE 0]

\* The first place from i on whose character is not of a kind.
Past(s, i, kind) ==
    CHOOSE k \in i .. Len(s) + 1 :
        At(s, k) \notin kind /\ \A j \in i .. k - 1 : At(s, j) \in kind

\* value = value * radix + digit, for each digit in turn.
Positional(digits, radix) ==
    LET upto[i \in 0 .. Len(digits)] ==
            IF i = 0 THEN 0 ELSE upto[i - 1] * radix + digits[i]
    IN  upto[Len(digits)]

\* atoi(): blanks, a sign, digits, whatever.
White == {32} \cup 9 .. 13
Figures == 48 .. 57
atoi(s) ==
    LET first == Past(s, 1, White)
        begin == IF At(s, first) \in {43, 45} THEN first + 1 ELSE first
        size  == Past(s, begin, Figures) - begin
        value == Positional([k \in 1 .. size |-> At(s, begin + k - 1) - 48], 10)
    IN  IF At(s, first) = 45 THEN -value ELSE value

\* prefs_bool(): on, yes, true, 1 and off, no, false, 0; what it stores, if anything.
On == <<<<111, 110>>, <<121, 101, 115>>, <<116, 114, 117, 101>>, <<49>>>>
Off == <<<<111, 102, 102>>, <<110, 111>>, <<102, 97, 108, 115, 101>>, <<48>>>>
PrefsBool(value) ==
    LET from[i \in 1 .. Len(On) + 1] ==
            IF i > Len(On) THEN {}
            ELSE IF Stricmp(value, On[i]) = 0 THEN {TRUE}
            ELSE IF Stricmp(value, Off[i]) = 0 THEN {FALSE}
            ELSE from[i + 1]
    IN  from[1]

\* strlcpy() and strfit() into dst, whose places from 1 on are the buffer; nul ends a
\* string.  strcpy() is strlcpy() with all the room there is.
strlcpy(dst, src, size, nul) ==
    LET n == IF Len(src) < size - 1 THEN Len(src) ELSE size - 1
    IN  IF size = 0 THEN dst
        ELSE [i \in DOMAIN dst |-> IF i <= n THEN src[i] ELSE IF i = n + 1 THEN nul ELSE dst[i]]
Fits(src, size) == Len(src) < size
strfit(dst, src, size, nul) == IF Fits(src, size) THEN strlcpy(dst, src, size, nul) ELSE dst

-----------------------------------------------------------------------------
\* Reference: the order of strings, by what they have in common.
Cut(s, n) == SubSeq(s, 1, IF n < Len(s) THEN n ELSE Len(s))
Precedes(s, t) ==
    \E k \in 0 .. Len(s) :
        /\ k < Len(t) /\ Cut(s, k) = Cut(t, k)
        /\ k = Len(s) \/ s[k + 1] < t[k + 1]
InOrder(result, s, t) == (result < 0 <=> Precedes(s, t)) /\ (result > 0 <=> Precedes(t, s))
Folded(s) == [i \in DOMAIN s |-> Upper(s[i])]
=============================================================================
