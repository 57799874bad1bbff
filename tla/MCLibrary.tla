------------------------------ MODULE MCLibrary -----------------------------
(***************************************************************************)
(* TLC instance of Library.  Prefs files: every one of up to five          *)
(* characters of a kind each, files of three lines, lines longer than a    *)
(* buffer of ten; and, for a LONG from -128 to 127, values of up to four   *)
(* digits, longer than any LONG needs, signed or not, within three pairs   *)
(* of limits.  Memory: longs of 4 bytes, blocks of 16, lengths up to two   *)
(* blocks and a half, at every distance of src and dst up to more than     *)
(* that, overlapping, touching and apart.                                  *)
(***************************************************************************)
EXTENDS Library

Case(t, l, m) == [file |-> t, least |-> l, most |-> m]

Short == UNION {[1 .. k -> {"a", "=", "_", "#", "n", "r"}] : k \in 0 .. 5}
Line == {<<"a", "=", "7">>, <<"_", "a", "_", "=", "a", "_">>, <<"#", "a">>, <<"=", "a">>, <<>>}
Longer == {a \o <<"n">> \o b \o <<"r", "n">> \o c : a \in Line, b \in Line, c \in Line}
Overlong == {<<"#", "_", "_", "_", "_", "_", "_", "_", "_", "a", "=", "a", "n">>,
             <<"a", "=", "a", "a", "a", "a", "a", "a", "a", "=", "a", "a">>}

Tails == UNION {[1 .. k -> {"0", "1", "2", "7", "8", "9"}] : k \in 0 .. 4}
Values == {s \o b : s \in {<<>>, <<"-">>, <<"+">>}, b \in Tails}
  \cup {<<"1", "-">>, <<"+", "-", "1">>, <<"1", "+", "2">>, <<"1", "2", "a">>, <<"-", "a">>}
Limits == {<<LEAST, MOST>>, <<0, 100>>, <<-20, 20>>}

MCCases ==
    {Case(t, -20, 20) : t \in Short \cup Longer \cup Overlong}
    \cup {Case(<<"a", "=">> \o v, l[1], l[2]) : v \in Values, l \in Limits}

MCChar == Digit \cup {"%", "-", ".", "_", "(", ")", "a", "b", "c", "d", "e", "f", "A", "B", "C", "D", "E", "F",
                      "h", "i", "l", "n", "p", "q", "s", "u", "x", "y", "z", "X"}

\* Formats: every directive by itself, with numbers at the limits of a LONG and of
\* the radices, and lines in which directives follow each other.
Lit(c) == [chars |-> <<c>>, conv |-> "lit"]
Flags == {<<>>, <<"-">>, <<"0">>, <<"0", "-">>}
Widths == {<<>>, <<"1">>, <<"4">>, <<"1", "0">>}
Number(w) == CASE w = <<>> -> 0 [] w = <<"1">> -> 1 [] w = <<"2">> -> 2 [] w = <<"4">> -> 4 [] OTHER -> 10
Dir(fl, w, p, mods, c) ==
    [chars |-> <<"%">> \o fl \o w \o (IF p = Null THEN <<>> ELSE <<".">> \o p) \o mods \o <<c>>,
     left  |-> \E i \in DOMAIN fl : fl[i] = "-", zero |-> \E i \in DOMAIN fl : fl[i] = "0",
     width |-> Number(w), prec |-> IF p = Null THEN -1 ELSE Number(p), conv |-> c]
Plain(c) == Dir(<<>>, <<>>, Null, <<>>, c)
CutOff == [chars |-> <<"%", "-", "4">>, left |-> TRUE, zero |-> FALSE, width |-> 4, prec |-> -1, conv |-> "nul"]
Flagged == Dir(<<"0">>, <<"4">>, Null, <<"l">>, "q")
Formatted(p, c, lim) == [op |-> "format", pieces |-> p, cells |-> c, size |-> lim]

Numbers == {0, 9, 10, 127, 128, 255}
Strings == {<<>>, <<"a", "b", "c">>, Null}
Directives == {Dir(fl, w, p, m, c) : fl \in Flags, w \in Widths, p \in {Null, <<"2">>},
                                     m \in {<<>>, <<"l">>}, c \in {"d", "u", "x", "X", "p"}}
FormatCalls ==
    {Formatted(<<d>>, <<v>>, lim) : d \in Directives,
                                  v \in Numbers, lim \in {4, 12}}
    \cup {Formatted(<<Dir(fl, w, p, <<>>, "s")>>, <<v>>, lim) :
            fl \in Flags, w \in Widths, p \in {Null, <<>>, <<"2">>, <<"4">>}, v \in Strings, lim \in {0, 1, 3, 12}}
    \cup {Formatted(<<a, Lit("a"), b, Dir(<<"0">>, <<"4">>, Null, <<"h", "z">>, "i"), Plain("c"), c>>,
                    <<200, "e">>, lim) :
            a \in {Plain("q"), Flagged, Plain("%"), Lit("_")}, b \in {Plain("q"), Dir(<<"-">>, <<"4">>, Null, <<>>, "%")},
            c \in {CutOff, Plain("y"), Lit("n")}, lim \in 0 .. 12}
    \cup {Formatted(<<d>>, <<>>, 12) : d \in {Flagged, Plain("q")}}

Code == {65, 97, 98, 64}
Words == UNION {[1 .. k -> Code] : k \in 0 .. 3}
Pure(o, s, t, lim, a) == [op |-> o, s |-> s, t |-> t, n |-> lim, aligned |-> a]
ByteStrings == {<<1, 1, 1, 1>> \o b : b \in [1 .. 6 -> {0, 255}]}
MinusOf == {<<>>, <<43>>, <<45>>}
TextFunctions ==
    {Pure(o, s, t, 0, FALSE) : o \in {"strcmp", "Stricmp"}, s \in Words, t \in UNION {[1 .. k -> Code] : k \in 0 .. 2}}
    \cup {Pure(o, s, t, lim, FALSE) : o \in {"strncmp", "Strnicmp"}, lim \in 0 .. 4,
                                    s \in Words, t \in {<<>>, <<97>>, <<65, 98>>, <<97, 97, 64>>}}
    \cup {Pure("memcmp", s, t, lim, a) : s \in ByteStrings,
             t \in {<<1, 1, 1, 1>> \o b : b \in {<<0, 0, 0, 0, 255, 0>>, <<0, 255, 0, 0, 0, 255>>}}, lim \in {4, 7, 8, 9, 10}, a \in BOOLEAN}
    \cup {[op |-> "atoi", s |-> b \o m \o [i \in DOMAIN d |-> d[i] + 48] \o e, minus |-> Head(m \o d \o e \o <<0>>) = 45, digits |-> d] :
            b \in {<<>>, <<32, 9>>}, m \in MinusOf, d \in {<<>>, <<0>>, <<7>>, <<1, 2>>, <<9, 0, 9>>},
            e \in {<<>>, <<45>>, <<97>>}}
    \cup {Pure("bool", Folded(w) \o e, <<>>, 0, FALSE) : w \in {On[i] : i \in 1 .. 4} \cup {Off[i] : i \in 1 .. 4},
                                                        e \in {<<>>, <<97>>}}
    \cup {Pure("bool", w, <<>>, 0, FALSE) : w \in Words \cup {On[i] : i \in 1 .. 4} \cup {Off[i] : i \in 1 .. 4}}
    \cup {[op |-> o, src |-> [i \in 1 .. k |-> "a"], size |-> lim] : o \in {"strlcpy", "strfit"}, k \in 0 .. 5, lim \in 0 .. 6}
MCTextCalls == FormatCalls \cup TextFunctions

MCPlaces == {1} \cup 20 .. 26 \cup {30, 36, 37, 44, 55, 63}
=============================================================================
