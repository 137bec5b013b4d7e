------------------------------- MODULE Printk -------------------------------
(***************************************************************************)
(* The formatted printing of libc/stdio: printk.c, which writes to the        *)
(* terminal, and snprintk.c, which writes to a buffer.  One step per round of  *)
(* their loops over the format.                                             *)
(*                                                                         *)
(* A format is a sequence of characters, and an argument is a record of what   *)
(* va_arg finds when it takes it as a number, a character or a string: the     *)
(* types that the format tells are the types of the arguments.  A field is no     *)
(* wider than the 64 bytes in which the code makes it, without a test:        *)
(* FormatAssumption leaves out the formats that ask for more.                 *)
(***************************************************************************)
EXTENDS Integers, Sequences, SequencesExt

CONSTANTS
    WordMod,    \* 2^32, the range of an unsigned int and of an unsigned long
    Formats,    \* format strings
    ArgLists,   \* what va_arg finds in turn, enough for any format
    BufSizes    \* sizes of the buffers of snprintk

IntMax == WordMod \div 2 - 1
Pending == -2

VARIABLES
    call,   \* the call: function, format, arguments and size
    at,     \* the position of the pointer format in the format string
    arg,    \* arguments that were taken
    out,    \* characters printed, or stored in the buffer
    nul,    \* where in the buffer the final NUL is, or -1
    ret     \* what the call returned, or Pending

printVars == <<call, at, arg, out, nul, ret>>

Calls ==
    [fn : {"printk"}, format : Formats, args : ArgLists, size : {0}]
      \cup [fn : {"snprintk"}, format : Formats, args : ArgLists, size : BufSizes]

PrintInit ==
    /\ call \in Calls
    /\ at = 1 /\ arg = 0 /\ out = << >> /\ nul = -1 /\ ret = Pending

\* format[k] of the code, with the NUL at the end.
Ch(k) == IF k <= Len(call.format) THEN call.format[k] ELSE "nul"
Rest(k) == SubSeq(call.format, k, Len(call.format))

-----------------------------------------------------------------------------
(* Numbers.                                                                 *)
Lower == <<"0", "1", "2", "3", "4", "5", "6", "7", "8", "9", "a", "b", "c", "d", "e", "f">>
Upper == <<"0", "1", "2", "3", "4", "5", "6", "7", "8", "9", "A", "B", "C", "D", "E", "F">>
IsDigit(c) == \E k \in 1 .. 10 : Lower[k] = c
DigitValue(c) == (CHOOSE k \in 1 .. 10 : Lower[k] = c) - 1
Decimal(s) ==
    LET w[k \in 0 .. Len(s)] == IF k = 0 THEN 0 ELSE w[k - 1] * 10 + DigitValue(s[k])
    IN  w[Len(s)]

\* buf[64] of printk() and snprintk(), where a number is written and padded.
FieldBytes == 64

\* The digits behind a '%', as far as one reads, ask for no wider field.
WidthsFit(f) ==
    \A k \in 1 .. Len(f) : \A n \in k .. Len(f) :
       f[k] = "%" /\ (\A j \in k + 1 .. n : IsDigit(f[j])) =>
          Decimal(SubSeq(f, k + 1, n)) <= FieldBytes

\* A directive has two characters at least, so the arguments are enough; no field
\* is wider than buf.
ASSUME FormatAssumption ==
    /\ WordMod \in Nat \ {0, 1}
    /\ Formats \subseteq Seq(STRING \ {"nul"})
    /\ \A f \in Formats : WidthsFit(f)
    /\ ArgLists \subseteq Seq([word : 0 .. WordMod - 1, char : STRING, str : Seq(STRING)])
    /\ \A f \in Formats, a \in ArgLists : Len(f) <= 2 * Len(a)
    /\ BufSizes \subseteq Nat

\* Lowest digit first into temp, then the reverse of it.
utoa_custom(value, base, digits) ==
    LET temp[v \in 0 .. value] ==
            IF v = 0 THEN << >> ELSE <<digits[(v % base) + 1]>> \o temp[v \div base]
    IN  IF value = 0 THEN <<"0">> ELSE Reverse(temp[value])

\* The digits are moved to the end of the field and the pad character goes before them.
utoa_padded_custom(value, base, digits, width, pad_char) ==
    LET text == utoa_custom(value, base, digits)
    IN  IF width > 0 /\ width > Len(text)
        THEN [k \in 1 .. width - Len(text) |-> pad_char] \o text
        ELSE text

\* An unsigned long is as wide as an unsigned int on i386.
ultoa_custom(value, base, digits) == utoa_custom(value, base, digits)

ultoa_padded_custom(value, base, digits, width, pad_char) ==
    utoa_padded_custom(value, base, digits, width, pad_char)

\* Mutant: the sign is not counted in the width.
MutantItoa(word, width, pad_char) ==
    IF word > IntMax
    THEN <<"-">> \o utoa_padded_custom((WordMod - word) % WordMod, 10, Lower, width, pad_char)
    ELSE utoa_padded_custom(word, 10, Lower, width, pad_char)

\* itoa() of printk.c.  -value of the smallest int is that int again, whose
\* bits are the unsigned number wanted.
itoa(word, width, pad_char) ==
    IF word > IntMax
    THEN <<"-">> \o utoa_padded_custom((WordMod - word) % WordMod, 10, Lower, width - 1, pad_char)
    ELSE utoa_padded_custom(word, 10, Lower, width, pad_char)

\* Those of snprintk.c: small letters only, and no width for signed numbers.
utoa(value, base) == utoa_custom(value, base, Lower)
utoa_padded(value, base, width, pad_char) ==
    utoa_padded_custom(value, base, Lower, width, pad_char)
itoaPlain(word) ==
    IF word > IntMax THEN <<"-">> \o utoa((WordMod - word) % WordMod, 10) ELSE utoa(word, 10)

-----------------------------------------------------------------------------
(* Where a round finds a directive: '%' at position at and not "%%".          *)
AtLiteral == Ch(at) # "%" \/ Ch(at + 1) = "%"

\* The character after the zero and the digits of the width.
Letter == CHOOSE k \in at + 1 .. Len(call.format) + 1 :
             ~IsDigit(Ch(k)) /\ \A j \in at + 1 .. k - 1 : IsDigit(Ch(j))
PadChar == IF Ch(at + 1) = "0" THEN "0" ELSE " "
FieldWidth == Decimal(SubSeq(call.format, at + 1, Letter - 1))

\* The cases of printk's switch: c is the letter and l the one after it.
printkKnows(c, l) ==
    c \in {"c", "s", "d", "i", "u", "x", "X", "p"} \/ (c = "l" /\ l \in {"u", "x", "X"})

printkText(c, l, a) ==
    CASE c = "c" -> <<a.char>>
      [] c = "s" -> a.str
      [] c \in {"d", "i"} -> itoa(a.word, FieldWidth, PadChar)
      [] c = "u" -> utoa_padded_custom(a.word, 10, Lower, FieldWidth, PadChar)
      [] c \in {"x", "X"} -> utoa_padded_custom(a.word, 16, IF c = "X" THEN Upper ELSE Lower,
                                                FieldWidth, PadChar)
      [] c = "l" /\ l = "u" -> ultoa_padded_custom(a.word, 10, Lower, FieldWidth, PadChar)
      [] c = "l" /\ l # "u" -> ultoa_padded_custom(a.word, 16, IF l = "X" THEN Upper ELSE Lower,
                                                   FieldWidth, PadChar)
      [] c = "p" -> <<"0", "x">> \o ultoa_custom(a.word, 16, Lower)

\* The chain of tests in snprintk.
snprintkKnows(c, l) == c \in {"c", "s", "d", "i", "u", "x", "p"} \/ (c = "l" /\ l = "u")

snprintkText(c, l, a) ==
    CASE c = "c" -> <<a.char>>
      [] c = "s" -> a.str
      [] c \in {"d", "i"} -> itoaPlain(a.word)
      [] c \in {"u", "l"} -> utoa_padded(a.word, 10, FieldWidth, PadChar)
      [] c = "x" -> utoa(a.word, 16)
      [] c = "p" -> <<"0", "x">> \o utoa(a.word, 16)

Knows(c, l) == IF call.fn = "printk" THEN printkKnows(c, l) ELSE snprintkKnows(c, l)
Text(c, l, a) == IF call.fn = "printk" THEN printkText(c, l, a) ELSE snprintkText(c, l, a)

-----------------------------------------------------------------------------
(* Output.                                                                  *)

\* Mutant: the last character of the buffer is not kept for the NUL.
MutantPutchar(s, c) == IF Len(s) >= call.size THEN s ELSE Append(s, c)

\* snprintk_putchar(): nothing when there is just room for the NUL.
snprintk_putchar(s, c) == IF Len(s) >= call.size - 1 THEN s ELSE Append(s, c)

snprintk_print(s, data) ==
    LET r[k \in 0 .. Len(data)] == IF k = 0 THEN s ELSE snprintk_putchar(r[k - 1], data[k])
    IN  r[Len(data)]

\* print() and snprintk_print(): on the terminal nothing fails.
Printed(data) == IF call.fn = "printk" THEN out \o data ELSE snprintk_print(out, data)

\* Print data and go on at position next with used more arguments taken.  Where
\* that is more than an int counts, printk and the literal part of snprintk
\* return at once; the label overflow stores the NUL.
Emit(data, next, used) ==
    LET maxrem == IntMax - Len(out)
        s == Printed(data)
        ok == Len(data) <= maxrem /\ Len(s) = Len(out) + Len(data)
    IN  /\ UNCHANGED call
        /\ out' = IF Len(data) <= maxrem THEN s ELSE out
        /\ at' = IF ok THEN next ELSE at
        /\ arg' = IF ok THEN arg + used ELSE arg
        /\ ret' = IF ok THEN ret ELSE -1
        /\ nul' = IF ok \/ call.fn = "printk" \/ (Len(data) > maxrem /\ AtLiteral) THEN nul
                  ELSE Len(out')

Running == ret = Pending /\ ~(call.fn = "snprintk" /\ call.size = 0)
InFormat == Running /\ at <= Len(call.format)

\* A run of characters up to the next '%'; of "%%" it starts with the second.
PrintLiteral ==
    LET from == IF Ch(at) = "%" THEN at + 1 ELSE at
        to == CHOOSE k \in from .. Len(call.format) :
                 Ch(k + 1) \in {"nul", "%"} /\ \A j \in from + 1 .. k : Ch(j) # "%"
    IN  InFormat /\ AtLiteral /\ Emit(SubSeq(call.format, from, to), to + 1, 0)

PrintDirective ==
    LET c == Ch(Letter)
        l == Ch(Letter + 1)
    IN  /\ InFormat /\ ~AtLiteral /\ Knows(c, l)
        /\ Emit(Text(c, l, call.args[arg + 1]), Letter + (IF c = "l" THEN 2 ELSE 1), 1)

\* printk takes "%l" before another letter and prints nothing for it.
SkipLong ==
    /\ InFormat /\ ~AtLiteral /\ call.fn = "printk"
    /\ Ch(Letter) = "l" /\ ~Knows("l", Ch(Letter + 1))
    /\ Emit(<< >>, Letter + 1, 0)

\* From an unknown directive on the format is printed as it is.
PrintUnknown ==
    /\ InFormat /\ ~AtLiteral /\ ~Knows(Ch(Letter), Ch(Letter + 1))
    /\ ~(call.fn = "printk" /\ Ch(Letter) = "l")
    /\ Emit(Rest(at), Len(call.format) + 1, 0)

\* Without a buffer snprintk returns at once.
RefuseEmpty ==
    /\ ret = Pending /\ call.fn = "snprintk" /\ call.size = 0
    /\ ret' = -1
    /\ UNCHANGED <<call, at, arg, out, nul>>

Return ==
    /\ Running /\ at > Len(call.format)
    /\ ret' = Len(out)
    /\ nul' = IF call.fn = "snprintk" THEN Len(out) ELSE nul
    /\ UNCHANGED <<call, at, arg, out>>

PrintNext ==
    PrintLiteral \/ PrintDirective \/ SkipLong \/ PrintUnknown \/ RefuseEmpty \/ Return

PrintSpec == PrintInit /\ [][PrintNext]_printVars

-----------------------------------------------------------------------------
(* Reference: what a format means, one character at a time.                 *)

\* The numeral of v: its digits by position, as many as it takes.
Numeral(v, b, digits) ==
    LET power[k \in 0 .. v + 1] == IF k = 0 THEN 1 ELSE b * power[k - 1]
        n == CHOOSE k \in 1 .. v + 1 : v < power[k] /\ (k > 1 => v >= power[k - 1])
    IN  [k \in 1 .. n |-> digits[((v \div power[n - k]) % b) + 1]]

\* sign and numeral with the padding between them, width characters at least.
Field(sign, numeral, width, pad) ==
    LET n == width - Len(sign) - Len(numeral)
    IN  sign \o [k \in 1 .. (IF n > 0 THEN n ELSE 0) |-> pad] \o numeral

Signed(word) == IF word >= WordMod \div 2 THEN word - WordMod ELSE word

\* What directive d (without '%' and width) makes of argument a; width 0 for
\* the directives of snprintk that do not know one.
Value(fn, d, width, pad, a) ==
    LET w == IF fn = "printk" \/ d \in {<<"u">>, <<"l", "u">>} THEN width ELSE 0
        v == Signed(a.word)
        upper == d \in {<<"X">>, <<"l", "X">>}
    IN  CASE d = <<"c">> -> <<a.char>>
          [] d = <<"s">> -> a.str
          [] d = <<"p">> -> Field(<<"0", "x">>, Numeral(a.word, 16, Lower), 0, pad)
          [] d \in {<<"d">>, <<"i">>} ->
                Field(IF v < 0 THEN <<"-">> ELSE << >>,
                      Numeral(IF v < 0 THEN -v ELSE v, 10, Lower), w, pad)
          [] d \in {<<"u">>, <<"l", "u">>} -> Field(<< >>, Numeral(a.word, 10, Lower), w, pad)
          [] d \in {<<"x">>, <<"X">>, <<"l", "x">>, <<"l", "X">>} ->
                Field(<< >>, Numeral(a.word, 16, IF upper THEN Upper ELSE Lower), w, pad)

Directives(fn) ==
    {<<"c">>, <<"s">>, <<"d">>, <<"i">>, <<"u">>, <<"x">>, <<"p">>, <<"l", "u">>}
      \cup (IF fn = "printk" THEN {<<"X">>, <<"l", "x">>, <<"l", "X">>} ELSE {})

\* The directives that stand at position j.
Found(fn, f, j) ==
    {d \in Directives(fn) : j + Len(d) <= Len(f) + 1 /\ SubSeq(f, j, j + Len(d) - 1) = d}

\* What stands behind the '%' at position k and its digits.
Behind(f, k) == CHOOSE j \in k + 1 .. Len(f) + 1 :
                   (\A i \in k + 1 .. j - 1 : IsDigit(f[i])) /\ (j <= Len(f) => ~IsDigit(f[j]))

\* The meaning of f from position k on with the arguments behind the first used
\* ones, when m has those of the later positions.
From(fn, f, args, m, k, used) ==
    IF k > Len(f) THEN << >>
    ELSE IF f[k] # "%" THEN <<f[k]>> \o m[k + 1][used]
    ELSE IF k < Len(f) /\ f[k + 1] = "%" THEN <<"%">> \o m[k + 2][used]
    ELSE LET j == Behind(f, k)
             d == CHOOSE d \in Found(fn, f, j) : TRUE
             width == Decimal(SubSeq(f, k + 1, j - 1))
             pad == IF j > k + 1 /\ f[k + 1] = "0" THEN "0" ELSE " "
         IN  IF Found(fn, f, j) # {}
             THEN Value(fn, d, width, pad, args[used + 1]) \o m[j + Len(d)][used + 1]
             ELSE IF fn = "printk" /\ j <= Len(f) /\ f[j] = "l" THEN m[j + 1][used]
             ELSE SubSeq(f, k, Len(f))

Meaning(fn, f, args) ==
    LET m[k \in 1 .. Len(f) + 1] == [used \in Nat |-> From(fn, f, args, m, k, used)]
    IN  m[1][0]

-----------------------------------------------------------------------------
(* Properties.                                                              *)

\* printk prints what its format means, with the number of characters as its
\* result: padding and signs, numbers to the smallest int and the largest
\* unsigned, "%%", and the rest of the format from a directive it does not know.
PrintkMeansFormat ==
    call.fn = "printk" /\ ret # Pending =>
       out = Meaning("printk", call.format, call.args) /\ ret = Len(out)

\* snprintk stays in its buffer whatever the arguments and whatever the format (one
\* whose fields fit in the 64 bytes where it makes them), always ends it
\* with a NUL, and stores the first size - 1 characters of the meaning of its
\* format; it returns their number when these are all, else -1.
SnprintkFillsBuffer ==
    LET m == Meaning("snprintk", call.format, call.args)
    IN  /\ call.fn = "snprintk" => Len(out) < call.size \/ out = << >>
        /\ call.fn = "snprintk" /\ ret # Pending /\ call.size > 0 =>
              /\ nul = Len(out) /\ nul < call.size
              /\ IF Len(m) < call.size THEN out = m /\ ret = Len(m)
                 ELSE out = SubSeq(m, 1, call.size - 1) /\ ret = -1
=============================================================================
