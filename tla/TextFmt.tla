------------------------------- MODULE TextFmt ------------------------------
(***************************************************************************)
(* The printf engine (src/textfmt.c): fmt_core(), a character or a         *)
(* directive at a time, and its buffer front ends; and calls of the        *)
(* functions of TextUtil.  The numerals are those of Prefs.                *)
(*                                                                         *)
(* A format is put together of pieces, each a character or a directive     *)
(* with its parts named; fmt_core() sees the characters only.  A number is *)
(* a ULONG, scaled to 2 * Half; the argument of a %s is a text or Null.    *)
(***************************************************************************)
EXTENDS Prefs, TextUtil, SequencesExt

CONSTANTS TextCalls,  \* [op, ...], see the actions
          Char,       \* the characters, without the 0 that ends a string
          Cap,        \* the places of the buffer, more than any call may use
          Null

\* What fmt_core() writes by itself.
Hex == <<"0", "1", "2", "3", "4", "5", "6", "7", "8", "9", "a", "b", "c", "d", "e", "f">>
HEX == <<"0", "1", "2", "3", "4", "5", "6", "7", "8", "9", "A", "B", "C", "D", "E", "F">>
Gap == "_"   \* the blank that fills a field
NullText == <<"(", "n", "u", "l", "l", ")">>

\* A text for atoi(): blanks, a sign or none, the digits, and something else.
IsNumber(c) ==
    /\ c.s \in Seq(1 .. 255) /\ c.digits \in Seq(0 .. 9)
    /\ \E b \in 0 .. Len(c.s) :
          LET sign == IF At(c.s, b + 1) \in {43, 45} THEN 1 ELSE 0
          IN  /\ \A k \in 1 .. b : c.s[k] \in White
              /\ At(c.s, b + 1) \notin White /\ c.minus = (At(c.s, b + 1) = 45)
              /\ b + sign + Len(c.digits) <= Len(c.s)
              /\ \A k \in DOMAIN c.digits : c.s[b + sign + k] = c.digits[k] + 48
              /\ At(c.s, b + sign + Len(c.digits) + 1) \notin Figures

\* The characters from i up to j, and no more, are of some kinds; the number they make.
Run(t, i, j, kinds) ==
    /\ \A k \in i .. j - 1 : t[k] \in kinds
    /\ j = Len(t) + 1 \/ t[j] \notin kinds
NumberIn(t, i, j) == Positional([k \in 1 .. j - i |-> DigitOf(t[i + k - 1])], 10)

\* %[-][0][width][.prec][h|l|z]type; without a type the format ends with it.  The
\* width and the precision are LONGs.
FlagChars == {"-", "0"}
Modifiers == {"h", "l", "z"}
IsDirective(p) ==
    LET t == p.chars
        Upto(i) == i .. Len(t) + 1
    IN  /\ t[1] = "%" /\ p.width <= MOST /\ p.prec <= MOST
        /\ \E a \in Upto(2) :
              /\ Run(t, 2, a, FlagChars)
              /\ p.left <=> \E k \in 2 .. a - 1 : t[k] = "-"
              /\ p.zero <=> \E k \in 2 .. a - 1 : t[k] = "0"
              /\ \E b \in Upto(a) :
                    /\ Run(t, a, b, Digit) /\ p.width = NumberIn(t, a, b)
                    /\ \E c \in Upto(b) :
                          /\ IF b <= Len(t) /\ t[b] = "."
                               THEN c > b /\ Run(t, b + 1, c, Digit) /\ p.prec = NumberIn(t, b + 1, c)
                               ELSE c = b /\ p.prec = -1
                          /\ \E d \in Upto(c) :
                                /\ Run(t, c, d, Modifiers)
                                /\ IF d = Len(t) THEN p.conv = t[d] ELSE d > Len(t) /\ p.conv = "nul"

\* The conversions that read an argument, and what they take it for.
Reads == {"s", "c", "d", "i", "u", "x", "X", "p"}
Known == Reads \cup {"%"}
IsCell(conv, cell) ==
    CASE conv = "s" -> cell = Null \/ cell \in Seq(Char)
      [] conv = "c" -> cell \in Char
      [] OTHER -> cell \in 0 .. 2 * Half - 1

\* A format in pieces, "lit" a character of its own, with an argument for each that
\* reads one.
IsSeq(s) == Len(s) \in Nat /\ s = [i \in 1 .. Len(s) |-> s[i]]
ReadTo(c, i) == Cardinality({k \in 1 .. i : c.pieces[k].conv \in Reads})
IsFormat(c) ==
    /\ IsSeq(c.pieces) /\ IsSeq(c.cells)
    /\ \A i \in DOMAIN c.pieces :
          LET p == c.pieces[i]
          IN  /\ p.chars \in Seq(Char) /\ p.chars # <<>>
              /\ IF p.conv = "lit" THEN Len(p.chars) = 1 /\ p.chars[1] # "%"
                 ELSE IsDirective(p) /\ (p.conv = "nul" => i = Len(c.pieces))
              /\ p.conv \in Reads => ReadTo(c, i) <= Len(c.cells) /\ IsCell(p.conv, c.cells[ReadTo(c, i)])

\* Strings end before their first 0, and the limits of memcmp() are within its buffers.
ASSUME TextAssumption ==
    /\ Cap \in Nat /\ "lit" \notin Char /\ "nul" \notin Char
    /\ {"%", "-", Gap, "0"} \subseteq Char /\ NullText \in Seq(Char) /\ Hex \in Seq(Char) /\ HEX \in Seq(Char)
    /\ \A c \in TextCalls :
          /\ c.op \in {"strcmp", "strncmp", "Stricmp", "Strnicmp"} =>
                c.s \in Seq(1 .. 255) /\ c.t \in Seq(1 .. 255) /\ c.n \in Int
          /\ c.op = "strncmp" => c.n >= 0
          /\ c.op = "memcmp" => /\ c.s \in Seq(0 .. 255) /\ c.t \in Seq(0 .. 255)
                                /\ c.n \in 0 .. Len(c.s) /\ c.n <= Len(c.t) /\ c.aligned \in BOOLEAN
          /\ c.op = "bool" => c.s \in Seq(1 .. 255)
          /\ c.op = "atoi" => IsNumber(c)
          /\ c.op = "format" => c.size \in 0 .. Cap /\ IsFormat(c)
          /\ c.op \in {"strlcpy", "strfit"} => c.size \in 0 .. Cap /\ c.src \in Seq(Char)

VARIABLES call, f,    \* the place in the format
          cells,      \* the arguments not read yet
          texts,      \* what each character or directive has put
          buf,        \* struct fmt_buf, and the buffer: [mem, cursor, room, length]
          answer      \* what a function of TextUtil returned

textVars == <<call, f, cells, texts, buf, answer>>

NoBuffer == [mem |-> [i \in 1 .. Cap |-> "?"], cursor |-> 1, room |-> 0, length |-> 0]
TextIdle == f = 1 /\ cells = <<>> /\ texts = <<>> /\ buf = NoBuffer /\ answer = 0
TextInit == pc = "text" /\ call \in TextCalls /\ TextIdle

Goto(from, to) == pc = from /\ pc' = to /\ UNCHANGED call

-----------------------------------------------------------------------------
(* The characters. *)

\* fmt_digits(): from the last digit to the first.
Digits(v, radix, dig) ==
    LET of[w \in 0 .. v] == IF w < radix THEN <<dig[w + 1]>>
                            ELSE Append(of[w \div radix], dig[(w % radix) + 1])
    IN  of[v]

Fill(c, count) == [i \in 1 .. (IF count > 0 THEN count ELSE 0) |-> c]

Format == FlattenSeq([i \in DOMAIN call.pieces |-> call.pieces[i].chars])

\* A directive, read from the place behind its "%".
EndOf(i, kinds) == CHOOSE k \in i .. Len(Format) + 1 : Run(Format, i, k, kinds)
Directive(i) ==
    LET flags == EndOf(i, FlagChars)
        width == EndOf(flags, Digit)
        dot   == width <= Len(Format) /\ Format[width] = "."
        prec  == IF dot THEN EndOf(width + 1, Digit) ELSE width
        mods  == EndOf(prec, Modifiers)
        whole == mods <= Len(Format)
    IN  [left  |-> \E j \in i .. flags - 1 : Format[j] = "-",
         zero  |-> \E j \in i .. flags - 1 : Format[j] = "0",
         width |-> NumberIn(Format, flags, width),
         prec  |-> IF dot THEN NumberIn(Format, width + 1, prec) ELSE -1,
         conv  |-> IF whole THEN Format[mods] ELSE "nul",
         next  |-> IF whole THEN mods + 1 ELSE mods]

\* What a conversion makes of its argument: the body, its sign and its padding.
Body(text, negative, pad, width) ==
    [text |-> text, negative |-> negative, pad |-> pad, width |-> width]
Converted(d, cell) ==
    LET pad == IF d.zero /\ ~d.left THEN "0" ELSE Gap
        str == IF cell = Null THEN NullText ELSE cell
        neg == cell >= Half
    IN  CASE d.conv = "s" -> Body(IF d.prec < 0 THEN str ELSE Cut(str, d.prec), FALSE, Gap, d.width)
          [] d.conv = "c" -> Body(<<cell>>, FALSE, Gap, d.width)
          [] d.conv \in {"d", "i"} ->
                 Body(Digits(IF neg THEN (-cell) % (2 * Half) ELSE cell, 10, Hex), neg, pad, d.width)
          [] d.conv = "u" -> Body(Digits(cell, 10, Hex), FALSE, pad, d.width)
          [] d.conv = "x" -> Body(Digits(cell, 16, Hex), FALSE, pad, d.width)
          [] d.conv = "X" -> Body(Digits(cell, 16, HEX), FALSE, pad, d.width)
          [] d.conv = "p" -> Body(Digits(cell, 16, Hex), FALSE, "0", IF d.width < 8 THEN 8 ELSE d.width)
          [] d.conv = "%" -> Body(<<"%">>, FALSE, Gap, d.width)

\* The fill, the sign and the body in their places; zeros go after the sign.
Laid_ZerosFirst(d, b) ==
    LET fill == b.width - Len(b.text) - (IF b.negative THEN 1 ELSE 0)
        sign == IF b.negative THEN <<"-">> ELSE <<>>
    IN  (IF ~d.left THEN Fill(b.pad, fill) ELSE <<>>)
          \o sign \o b.text \o (IF d.left THEN Fill(Gap, fill) ELSE <<>>)
Laid(d, b) ==
    LET fill == b.width - Len(b.text) - (IF b.negative THEN 1 ELSE 0)
        sign == IF b.negative THEN <<"-">> ELSE <<>>
    IN  (IF ~d.left /\ b.pad = Gap THEN Fill(Gap, fill) ELSE <<>>)
          \o sign
          \o (IF ~d.left /\ b.pad = "0" THEN Fill("0", fill) ELSE <<>>)
          \o b.text
          \o (IF d.left THEN Fill(Gap, fill) ELSE <<>>)

-----------------------------------------------------------------------------
(* The buffer front ends: _VSNPrintf(), _SNPrintf() and _SNPrintfArgs(). *)

\* call: [op |-> "format", pieces, cells, size]; a size of 0 stands for no buffer too.
Buffered == call.size # 0
RoomOf_Whole(size) == size
RoomOf(size) == size - 1
FmtInit ==
    /\ Goto("text", "format") /\ call.op = "format"
    /\ buf' = [NoBuffer EXCEPT !.room = IF Buffered THEN RoomOf(call.size) ELSE 0]
    /\ cells' = call.cells
    /\ UNCHANGED <<f, texts, answer>>

\* fmt_buf_putch() of every character of a text.
Putch(b, c) ==
    IF b.room = 0 THEN [b EXCEPT !.length = @ + 1]
    ELSE [mem |-> [b.mem EXCEPT ![b.cursor] = c], cursor |-> b.cursor + 1,
          room |-> b.room - 1, length |-> b.length + 1]
Emit(b, text) ==
    LET after[i \in 0 .. Len(text)] == IF i = 0 THEN b ELSE Putch(after[i - 1], text[i])
    IN  after[Len(text)]
Put(text) == buf' = Emit(buf, text) /\ texts' = Append(texts, text)

InFormat == f <= Len(Format)
FmtChar ==
    /\ Goto("format", "format") /\ InFormat /\ Format[f] # "%"
    /\ Put(<<Format[f]>>)
    /\ f' = f + 1
    /\ UNCHANGED <<cells, answer>>
FmtDirective ==
    /\ Goto("format", "format") /\ InFormat /\ Format[f] = "%"
    /\ LET d == Directive(f + 1)
       IN  /\ d.conv \in Known
           /\ Put(Laid(d, Converted(d, IF d.conv \in Reads THEN Head(cells) ELSE 0)))
           /\ cells' = IF d.conv \in Reads THEN Tail(cells) ELSE cells
           /\ f' = d.next
    /\ UNCHANGED answer
\* Unknown or cut off by the end: echoed, and no argument is read.
FmtUnknown ==
    /\ Goto("format", "format") /\ InFormat /\ Format[f] = "%"
    /\ LET d == Directive(f + 1)
       IN  /\ d.conv \notin Known
           /\ Put(IF d.conv = "nul" THEN <<"%">> ELSE <<"%", d.conv>>)
           /\ f' = d.next
    /\ UNCHANGED <<cells, answer>>
FmtDone ==
    /\ Goto("format", "done") /\ ~InFormat
    /\ buf' = IF Buffered THEN [buf EXCEPT !.mem[buf.cursor] = "nul"] ELSE buf
    /\ UNCHANGED <<f, cells, texts, answer>>

\* call: [op |-> "strlcpy" | "strfit", src, size]
CopyCall ==
    /\ Goto("text", "done") /\ call.op \in {"strlcpy", "strfit"}
    /\ buf' = [NoBuffer EXCEPT
                 !.mem = IF call.op = "strfit" THEN strfit(buf.mem, call.src, call.size, "nul")
                         ELSE strlcpy(buf.mem, call.src, call.size, "nul"),
                 !.length = Len(call.src)]
    /\ texts' = <<call.src>>
    /\ UNCHANGED <<f, cells, answer>>

\* call: [op, s, t, n, aligned]
PureCall ==
    /\ Goto("text", "done")
    /\ call.op \in {"strcmp", "strncmp", "Stricmp", "Strnicmp", "memcmp", "atoi", "bool"}
    /\ answer' = CASE call.op = "strcmp" -> strcmp(call.s, call.t)
                   [] call.op = "strncmp" -> strncmp(call.s, call.t, call.n)
                   [] call.op = "Stricmp" -> Stricmp(call.s, call.t)
                   [] call.op = "Strnicmp" -> Strnicmp(call.s, call.t, call.n)
                   [] call.op = "memcmp" -> memcmp(call.s, call.t, call.n, call.aligned)
                   [] call.op = "atoi" -> atoi(call.s)
                   [] call.op = "bool" -> PrefsBool(call.s)
    /\ UNCHANGED <<f, cells, texts, buf>>

TextNext ==
    \/ FmtInit \/ FmtChar \/ FmtDirective \/ FmtUnknown \/ FmtDone
    \/ CopyCall \/ PureCall

-----------------------------------------------------------------------------
(* Properties *)

\* A text with nothing but blanks around text[i .. j].
Framed(text, i, j) == i <= j + 1 /\ \A k \in DOMAIN text : k \notin i .. j => text[k] = Gap
Valued(t, radix, dig) ==
    t # <<>> /\ \A i \in DOMAIN t : \E k \in 1 .. radix : dig[k] = t[i]
ValueOf(t, radix, dig) ==
    Positional([i \in DOMAIN t |-> CHOOSE k \in 0 .. radix - 1 : dig[k + 1] = t[i]], radix)

\* The numeral of v, with zeros in front only where they are asked for.
IsNumeral(t, v, radix, dig, zeros) ==
    /\ Valued(t, radix, dig) /\ ValueOf(t, radix, dig) = v
    /\ zeros \/ Len(t) = 1 \/ t[1] # "0"
RadixOf(p) == IF p.conv \in {"d", "i", "u"} THEN 10 ELSE 16
IsBody(p, cell, t) ==
    LET signed == p.conv \in {"d", "i"} /\ cell >= Half
        zeros  == p.conv = "p" \/ (p.zero /\ ~p.left /\ Len(t) = p.width)
    IN  CASE p.conv = "s" -> t = (IF p.prec < 0 THEN (IF cell = Null THEN NullText ELSE cell)
                                  ELSE Cut(IF cell = Null THEN NullText ELSE cell, p.prec))
          [] p.conv = "c" -> t = <<cell>>
          [] p.conv = "%" -> t = <<"%">>
          [] OTHER -> /\ signed => t[1] = "-"
                      /\ IsNumeral(IF signed THEN Tail(t) ELSE t,
                                   IF signed THEN 2 * Half - cell ELSE cell, RadixOf(p),
                                   IF p.conv = "X" THEN HEX ELSE Hex, zeros)

\* The field of a directive: the body at one end, as wide as asked or as it needs.
WidthOf(p) == IF p.conv = "p" /\ p.width < 8 THEN 8 ELSE p.width
IsField(p, cell, text) ==
    \E i \in 1 .. Len(text) + 1, j \in 0 .. Len(text) :
        /\ Framed(text, i, j) /\ IsBody(p, cell, SubSeq(text, i, j))
        /\ IF p.left THEN i = 1 ELSE j = Len(text)
        /\ Len(text) >= WidthOf(p) /\ (Len(text) > WidthOf(p) => i = 1 /\ j = Len(text))
        /\ p.conv = "p" => j - i + 1 >= 8
        /\ p.zero /\ ~p.left /\ p.conv \notin {"s", "c", "%"} => i = 1

\* Where fmt_core() keeps to its description: not for a left-justified %p, of which
\* textfmt.c:15 says "8 zero-padded hex digits" and which gets blanks, nor for an unknown
\* conversion with flags, a width or modifiers, or one cut off by the end with anything
\* behind its "%": textfmt.c:18 says it "is emitted literally", and these are dropped.
Settled(p) ==
    IF p.conv \in Known THEN p.conv = "p" => ~p.left
    ELSE Len(p.chars) = IF p.conv \in {"lit", "nul"} THEN 1 ELSE 2

\* Every directive of a format puts its own argument, as a number, a text or a pointer
\* reads, justified and filled as its flags say, at the extremes of a LONG too, and a bare
\* unknown conversion itself (textfmt.c:11-20).  No other piece, whatever it puts, takes
\* an argument or a character from those behind it.
FormatExact ==
    pc = "done" /\ call.op = "format" =>
        /\ Len(texts) = Len(call.pieces)
        /\ \A i \in DOMAIN texts :
              LET p == call.pieces[i]
              IN  Settled(p) =>
                      IF p.conv \in Known
                        THEN IsField(p, IF p.conv \in Reads THEN call.cells[ReadTo(call, i)] ELSE 0, texts[i])
                        ELSE texts[i] = p.chars

\* A formatted or copied text is in the buffer as far as it fits with its end, the
\* end always, and not a place behind it is written; the length returned is that of
\* the whole text.  strfit() leaves the buffer alone if it does not fit.
BufferExact ==
    pc = "done" /\ call.op \in {"format", "strlcpy", "strfit"} =>
        LET all  == FlattenSeq(texts)
            kept == IF Len(all) < call.size THEN Len(all) ELSE call.size - 1
            used == call.size # 0 /\ (call.op = "strfit" => Len(all) = kept)
        IN  /\ buf.length = Len(all)
            /\ buf.mem = [i \in 1 .. Cap |->
                   IF ~used \/ i > kept + 1 THEN "?" ELSE IF i <= kept THEN all[i] ELSE "nul"]

\* The comparisons order strings and buffers as their first difference does, within
\* the limit and without regard to case where they do so; atoi() reads the number in
\* front, behind blanks and a sign; prefs_bool() knows its eight words in any case
\* and no other.
TextExact ==
    pc = "done" =>
        CASE call.op = "strcmp" -> InOrder(answer, call.s, call.t)
          [] call.op = "strncmp" -> InOrder(answer, Cut(call.s, call.n), Cut(call.t, call.n))
          [] call.op = "Stricmp" -> InOrder(answer, Folded(call.s), Folded(call.t))
          [] call.op = "Strnicmp" ->
                 LET n == IF call.n < 0 THEN 0 ELSE call.n
                 IN  InOrder(answer, Folded(Cut(call.s, n)), Folded(Cut(call.t, n)))
          [] call.op = "memcmp" -> InOrder(answer, Cut(call.s, call.n), Cut(call.t, call.n))
          [] call.op = "atoi" ->
                 LET value == Positional(call.digits, 10)
                 IN  answer = IF call.minus THEN -value ELSE value
          [] call.op = "bool" ->
                 /\ (TRUE \in answer) <=> (\E i \in DOMAIN On : Folded(call.s) = Folded(On[i]))
                 /\ (FALSE \in answer) <=> (\E i \in DOMAIN Off : Folded(call.s) = Folded(Off[i]))
          [] OTHER -> TRUE
=============================================================================
