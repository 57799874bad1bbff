-------------------------------- MODULE Prefs --------------------------------
(***************************************************************************)
(* Prefs files: prefs_open(), prefs_next() and prefs_close()               *)
(* (src/prefs_file.c) over prefs_split() (src/prefs.c), and a driver that  *)
(* takes every value it gets for a number: prefs_number() (src/prefs.c),   *)
(* decimal and within limits, counted downwards because a LONG reaches one *)
(* further below zero.                                                     *)
(*                                                                         *)
(* A character is one of its kinds: "a" stands for any that means nothing  *)
(* here, "_" for a blank, "#" for a comment mark, "n" and "r" for LF and   *)
(* CR; a digit is itself.  External: FGets(), which reads up to and with a *)
(* LF, or as many characters as the buffer holds less one.                 *)
(***************************************************************************)
EXTENDS LibCall, Integers, Sequences, FiniteSets

CONSTANTS Cases,    \* [file, least, most]: files as sequences of characters, and
                    \* the limits the driver gives prefs_number()
          BufSize,  \* sizeof(f->line): 300, scaled
          Half      \* 2^31, scaled: a LONG has 2 * Half values

Numerals == <<"0", "1", "2", "3", "4", "5", "6", "7", "8", "9">>
Digit == {Numerals[i] : i \in DOMAIN Numerals}
Chars == {"a", "=", "_", "#", "n", "r", "+", "-"} \cup Digit

LEAST == -Half       \* PREFS_NUMBER_LEAST
MOST == Half - 1     \* PREFS_NUMBER_MOST
LONG == LEAST .. MOST

ASSUME PrefsAssumption ==
    /\ BufSize \in Nat /\ BufSize > 1 /\ Half \in Nat /\ Half >= 10
    /\ \A c \in Cases : c.file \in Seq(Chars) /\ c.least \in LONG /\ c.most \in LONG

VARIABLES file, least, most,
          rest,           \* what is not read yet
          dos, fh,        \* dos.library and the file are open
          isOpen,         \* what prefs_open() told its caller
          settings,       \* the <<key, value>> handed out so far
          at, number,     \* prefs_number()'s place in the value, and its number
          answers         \* what it stored for each of them: {} when it returned FALSE

prefsArgs == <<file, least, most>>
fileVars == <<rest, dos, fh, isOpen, settings>>
numberVars == <<at, number, answers>>
prefsVars == <<prefsArgs, fileVars, numberVars>>

PrefsIdle ==
    /\ file = <<>> /\ least = 0 /\ most = 0 /\ rest = <<>>
    /\ dos = FALSE /\ fh = FALSE /\ isOpen = FALSE /\ settings = <<>>
    /\ at = 1 /\ number = 0 /\ answers = <<>>
PrefsInit ==
    /\ \E c \in Cases : file = c.file /\ least = c.least /\ most = c.most
    /\ rest = file
    /\ pc = "start" /\ dos = FALSE /\ fh = FALSE /\ isOpen = FALSE /\ settings = <<>>
    /\ at = 1 /\ number = 0 /\ answers = <<>>

-----------------------------------------------------------------------------
(* prefs_open(): a Process, dos.library, the file. *)

OpenCheck ==
    /\ pc = "start"
    /\ pc' \in {"opendos", "end"}   \* a bare Task is refused
    /\ UNCHANGED <<prefsArgs, numberVars, rest, dos, fh, isOpen, settings>>
OpenDos ==
    /\ pc = "opendos"
    /\ dos' \in BOOLEAN
    /\ pc' = IF dos' THEN "openfile" ELSE "end"
    /\ UNCHANGED <<prefsArgs, numberVars, rest, fh, isOpen, settings>>
OpenFile ==
    /\ pc = "openfile"
    /\ fh' = TRUE /\ isOpen' = TRUE /\ pc' = "reading"
    /\ UNCHANGED <<prefsArgs, numberVars, rest, dos, settings>>
OpenFileFails ==
    /\ pc = "openfile"
    /\ dos' = FALSE /\ pc' = "end"
    /\ UNCHANGED <<prefsArgs, numberVars, rest, fh, isOpen, settings>>

-----------------------------------------------------------------------------
(* prefs_split() *)

Blank == {"_"}
\* The index of the first character of a kind, one past the end if there is none.
First(s, kinds) ==
    LET found == {i \in DOMAIN s : s[i] \in kinds}
    IN  IF found = {} THEN Len(s) + 1 ELSE CHOOSE i \in found : \A k \in found : i <= k
Before(s, i) == SubSeq(s, 1, i - 1)
After(s, i) == SubSeq(s, i + 1, Len(s))
SkipBlanks(s) == After(s, First(s, Chars \ Blank) - 1)
DropBlanks_None(s) == s
DropBlanks(s) ==
    LET keep == {0} \cup {i \in DOMAIN s : s[i] \notin Blank}
    IN  SubSeq(s, 1, CHOOSE i \in keep : \A k \in keep : k <= i)

\* The key and the value of a line, or nothing.
Split(raw) ==
    LET line == SkipBlanks(Before(raw, First(raw, {"n", "r"})))
        eq   == First(line, {"="})
        key  == DropBlanks(Before(line, eq))
        val  == DropBlanks(SkipBlanks(After(line, eq)))
    IN  IF \/ line = <<>> \/ line[1] = "#"
           \/ eq > Len(line)
           \/ key = <<>> \/ val = <<>>
          THEN {} ELSE {<<key, val>>}

-----------------------------------------------------------------------------
(* prefs_next() and prefs_close() *)

\* FGets().
Least(a, b) == IF a <= b THEN a ELSE b
LineLen(s) == Least(Least(First(s, {"n"}), Len(s)), BufSize - 1)

\* prefs_next() goes past a line without a setting ...
NextSkips ==
    /\ pc = "reading" /\ rest # <<>>
    /\ Split(Before(rest, LineLen(rest) + 1)) = {}
    /\ rest' = After(rest, LineLen(rest))
    /\ UNCHANGED <<prefsArgs, numberVars, pc, dos, fh, isOpen, settings>>
\* ... to the next with one ...
NextSetting ==
    /\ pc = "reading" /\ rest # <<>>
    /\ \E s \in Split(Before(rest, LineLen(rest) + 1)) : settings' = Append(settings, s)
    /\ rest' = After(rest, LineLen(rest))
    /\ pc' = "sign"
    /\ UNCHANGED <<prefsArgs, numberVars, dos, fh, isOpen>>
\* ... or says the file is at its end.
AtEnd == rest = <<>>
NextEnd ==
    /\ pc = "reading" /\ AtEnd
    /\ pc' = "eof"
    /\ UNCHANGED <<prefsArgs, numberVars, rest, dos, fh, isOpen, settings>>

\* The caller closes, at the end or as soon as it has seen enough.
Close ==
    /\ pc \in {"reading", "eof"}
    /\ fh' = FALSE /\ dos' = FALSE /\ isOpen' = FALSE /\ pc' = "end"
    /\ UNCHANGED <<prefsArgs, numberVars, rest, settings>>

-----------------------------------------------------------------------------
(* prefs_number(), of the value just handed out. *)

Value == settings[Len(settings)][2]
DigitOf(c) == CHOOSE d \in 0 .. 9 : Numerals[d + 1] = c
Negative == Value[1] = "-"

\* It returns to the driver, which reads on.
Answer(a) ==
    /\ answers' = Append(answers, a)
    /\ at' = 1
    /\ pc' = "reading"

\* C's division, which rounds towards zero; Quotient_Floor does not.
Quotient_Floor(x, y) == x \div y
Quotient(x, y) == IF x < 0 THEN -((-x) \div y) ELSE x \div y

\* Lines 83-87: a sign, and something behind it.
Signs == {"-", "+"}
Sign ==
    /\ pc = "sign"
    /\ number' = 0
    /\ IF Value[1] \in Signs /\ Len(Value) = 1
         THEN Answer({})
         ELSE /\ at' = IF Value[1] \in Signs THEN 2 ELSE 1
              /\ pc' = "digits" /\ UNCHANGED answers
    /\ UNCHANGED <<prefsArgs, fileVars>>

\* One turn of the loop of lines 91-97.
Refused(c) == c \in Digit => number < Quotient(LEAST + DigitOf(c), 10)
TakeDigit ==
    /\ pc = "digits" /\ at <= Len(Value)
    /\ ~Refused(Value[at])
    /\ number' = number * 10 - DigitOf(Value[at])
    /\ at' = at + 1
    /\ UNCHANGED <<prefsArgs, fileVars, pc, answers>>
RefuseDigit ==
    /\ pc = "digits" /\ at <= Len(Value)
    /\ Refused(Value[at])
    /\ Answer({})
    /\ UNCHANGED <<prefsArgs, fileVars, number>>

\* Lines 98-106: the sign, which the least number cannot lose, and the limits.
HasSigned == Negative \/ number # LEAST
Signed == IF Negative THEN number ELSE -number
Finish ==
    /\ pc = "digits" /\ at > Len(Value)
    /\ Answer(IF HasSigned /\ least <= Signed /\ Signed <= most THEN {Signed} ELSE {})
    /\ number' = IF HasSigned THEN Signed ELSE number
    /\ UNCHANGED <<prefsArgs, fileVars>>

PrefsNext == \/ OpenCheck \/ OpenDos \/ OpenFile \/ OpenFileFails
             \/ NextSkips \/ NextSetting \/ NextEnd \/ Close
             \/ Sign \/ TakeDigit \/ RefuseDigit \/ Finish

-----------------------------------------------------------------------------
(* Properties *)

\* The lines of the file by their LFs, the last perhaps without one.
Ends == {0, Len(file)} \cup {i \in DOMAIN file : file[i] = "n"}
Lines == {l \in Ends \X Ends : l[1] < l[2] /\ \A x \in Ends : x <= l[1] \/ x >= l[2]}
LineOf(l) == SubSeq(file, l[1] + 1, l[2])

\* The one word in s[from .. to] between its blanks, as its ends; none if all is blank.
IsBlank(s, i, j) == \A k \in i .. j : s[k] \in Blank
Word(s, from, to) ==
    {w \in (from .. to) \X (from .. to) :
        /\ w[1] <= w[2] /\ s[w[1]] \notin Blank /\ s[w[2]] \notin Blank
        /\ IsBlank(s, from, w[1] - 1) /\ IsBlank(s, w[2] + 1, to)}

\* A line says key = val: a word before its first "=" that is no comment, a word
\* behind it, and whatever follows a CR or LF.
Sayings(l) ==
    LET s == LineOf(l)
        \* the first "=" and the end of the line
        cuts == {c \in (1 .. Len(s)) \X (1 .. Len(s)) :
                    /\ c[1] <= c[2] /\ s[c[1]] = "=" /\ \A k \in 1 .. c[1] - 1 : s[k] # "="
                    /\ \A k \in 1 .. c[2] : s[k] \notin {"n", "r"}
                    /\ (c[2] = Len(s) \/ s[c[2] + 1] \in {"n", "r"})}
    IN  UNION {{<<SubSeq(s, k[1], k[2]), SubSeq(s, v[1], v[2])>> :
                   k \in {w \in Word(s, 1, c[1] - 1) : s[w[1]] # "#"},
                   v \in Word(s, c[1] + 1, c[2])} : c \in cuts}

\* A loop of prefs_next() over a file whose lines fit the buffer hands out every
\* setting the file holds, in its order, and nothing that is not one.
SettingsExact ==
    pc = "eof" /\ (\A l \in Lines : l[2] - l[1] < BufSize) =>
        LET saying == {l \in Lines : Sayings(l) # {}}
        IN  /\ Len(settings) = Cardinality(saying)
            /\ \A l \in saying :
                  settings[Cardinality({k \in saying : k[2] <= l[2]})] \in Sayings(l)

\* The numbers of the first so many digits, in unbounded arithmetic.
NumbersOf(digits) ==
    LET upto[i \in 0 .. Len(digits)] ==
            IF i = 0 THEN 0 ELSE upto[i - 1] * 10 + DigitOf(digits[i])
    IN  upto

\* What a value means: the set of the number, or of none.
Meaning(v) ==
    LET digits == IF v[1] \in {"-", "+"} THEN Tail(v) ELSE v
        size == NumbersOf(digits)[Len(digits)]
    IN  IF digits = <<>> \/ \E i \in DOMAIN digits : digits[i] \notin Digit THEN {}
        ELSE {IF v[1] = "-" THEN -size ELSE size}

\* The driver gets the number a value means exactly if it means one within the
\* limits, both extremes of a LONG included, and otherwise FALSE with *out
\* untouched; and however long the value is, no intermediate value leaves a LONG:
\* nothing in prefs_number() overflows, the negation of the least number included.
NumberExact ==
    /\ \A i \in DOMAIN answers : answers[i] = Meaning(settings[i][2]) \cap (least .. most)
    /\ number \in LONG
=============================================================================
