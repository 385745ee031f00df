------------------------------- MODULE Printfmt -------------------------------
(***************************************************************************)
(* vsnprintf() of lib/printfmt.c: vprintfmt interprets the format, one     *)
(* action per case of its switch, and sprintputch stores what it prints    *)
(* into a buffer of n bytes.  A character is a string of length one.       *)
(***************************************************************************)
EXTENDS Integers, Sequences, SequencesExt, FiniteSets, Numerals

CONSTANTS
  MAXERROR,
  UINT,        \* 2^32: %x and %u of a negative int,
  ULONGLONG,   \* and 2^64: with two l's of a negative long long
  BufBytes,    \* the memory around the buffer: 0 .. BufBytes - 1, the buffer at its start
  Formats,     \* the calls checked: sequences of characters,
  Arguments    \* and [int, chr, star, str] for each %d, %c, * and %s in them,
               \* with n, the size of the buffer

VARIABLES
  call,       \* [fmt, int, chr, star, str, n]
  at,         \* "text", "escape", "digits", "number", "done", "refused" or "idle"
  fmt,        \* the index of the next character
  esc,        \* what the escape has set: [padc, width, precision, lflag, altflag]
  out,        \* everything passed to putch
  b,          \* sprintbuf: [mem, pos, cnt]
  number,     \* printnum's innermost call: [num, base, width, padc, digits],
              \* with the digits its callers have yet to print
  field       \* the last field printed: [conv, esc, text]

\* The null that ends a format is none of its characters; the buffer lies in
\* the memory around it.
ASSUME PrintfmtAssumption ==
  /\ UINT \in Nat \ {0} /\ ULONGLONG \in Nat \ {0} /\ MAXERROR \in Nat /\ BufBytes \in Nat
  /\ \A f \in Formats : f \in Seq(STRING) /\ \A i \in DOMAIN f : f[i] # "NUL"
  /\ \A a \in Arguments :
       /\ a.int \in Int /\ a.star \in Int /\ a.n \in Int /\ a.n <= BufBytes
       /\ a.chr \in STRING /\ a.str \in Seq(STRING)

printfmt == <<call, at, fmt, esc, out, b, number, field>>

NUL == "NUL"
Untouched == "?"
None == [padc |-> " ", width |-> -1, precision |-> -1, lflag |-> 0, altflag |-> FALSE]
NoNumber == [num |-> 0, base |-> 10, width |-> -1, padc |-> " ", digits |-> <<>>]

\* vsnprintf refuses a null buffer and one of no bytes.
PrintfmtInit ==
  \E f \in Formats, a \in Arguments :
    /\ call = [fmt |-> f, int |-> a.int, chr |-> a.chr, star |-> a.star, str |-> a.str, n |-> a.n]
    /\ \E null \in BOOLEAN : at = (IF null \/ a.n < 1 THEN "refused" ELSE "text")
    /\ fmt = 1 /\ esc = None /\ out = <<>>
    /\ b = [mem |-> [i \in 0 .. BufBytes - 1 |-> Untouched], pos |-> 0, cnt |-> 0]
    /\ number = NoNumber
    /\ field = [conv |-> NUL, esc |-> None, text |-> <<>>]

PrintfmtIdle ==
  /\ call = <<>> /\ at = "idle" /\ fmt = 1 /\ esc = None /\ out = <<>>
  /\ b = <<>> /\ number = NoNumber /\ field = <<>>

CharAt(i) == IF i <= Len(call.fmt) THEN call.fmt[i] ELSE NUL
ch == IF at = "idle" THEN NUL ELSE CharAt(fmt)

\* Mutant of ebuf: the null has no room.
ebuf_end == call.n

ebuf == call.n - 1

\* Characters passed one by one to sprintputch, which drops those beyond ebuf.
Putch(s) ==
  LET pos == Least(ebuf, b.pos + Len(s))
  IN  /\ out' = out \o s
      /\ b' = [mem |-> [i \in DOMAIN b.mem |->
                          IF i \in b.pos .. pos - 1 THEN s[i - b.pos + 1] ELSE b.mem[i]],
               pos |-> pos, cnt |-> b.cnt + Len(s)]

Copy(c, n) == [i \in 1 .. (IF n > 0 THEN n ELSE 0) |-> c]

-----------------------------------------------------------------------------
(* Outside escapes *)

Text ==
  /\ at = "text" /\ ch \notin {"%", NUL}
  /\ Putch(<<ch>>) /\ fmt' = fmt + 1
  /\ UNCHANGED <<call, at, esc, number, field>>

Percent ==
  /\ at = "text" /\ ch = "%"
  /\ at' = "escape" /\ fmt' = fmt + 1 /\ esc' = None
  /\ UNCHANGED <<call, out, b, number, field>>

\* The end of the format: vsnprintf ends the buffer with a null.
End ==
  /\ at = "text" /\ ch = NUL
  /\ at' = "done" /\ fmt' = fmt + 1
  /\ b' = [b EXCEPT !.mem[b.pos] = NUL]
  /\ UNCHANGED <<call, esc, out, number, field>>

(* Flags, width and precision *)

Modify(e, next) ==
  /\ at = "escape"
  /\ esc' = e /\ fmt' = next
  /\ UNCHANGED <<call, at, out, b, number, field>>

PadFlag == ch \in {"-", "0"} /\ Modify([esc EXCEPT !.padc = ch], fmt + 1)

process_precision(p) ==
  IF esc.width < 0 THEN [esc EXCEPT !.width = p, !.precision = -1]
                   ELSE [esc EXCEPT !.precision = p]

DigitSet == {DigitChars[d] : d \in 1 .. 10}

\* The loop over a run of digits, which gathers them in precision.
Number ==
  /\ at = "escape" /\ ch \in DigitSet \ {"0"}
  /\ at' = "digits" /\ fmt' = fmt + 1 /\ esc' = [esc EXCEPT !.precision = DigitValue(ch)]
  /\ UNCHANGED <<call, out, b, number, field>>

Digit ==
  /\ at = "digits" /\ ch \in DigitSet
  /\ fmt' = fmt + 1 /\ esc' = [esc EXCEPT !.precision = @ * 10 + DigitValue(ch)]
  /\ UNCHANGED <<call, at, out, b, number, field>>

NumberEnd ==
  /\ at = "digits" /\ ch \notin DigitSet
  /\ at' = "escape" /\ esc' = process_precision(esc.precision)
  /\ UNCHANGED <<call, fmt, out, b, number, field>>

Star == ch = "*" /\ Modify(process_precision(call.star), fmt + 1)

\* Mutant of Dot: looks at the same character again.
DotAgain == ch = "." /\ Modify([esc EXCEPT !.width = IF @ < 0 THEN 0 ELSE @], fmt)

Dot == ch = "." /\ Modify([esc EXCEPT !.width = IF @ < 0 THEN 0 ELSE @], fmt + 1)

AltFlag == ch = "#" /\ Modify([esc EXCEPT !.altflag = TRUE], fmt + 1)

LongFlag == ch = "l" /\ Modify([esc EXCEPT !.lflag = @ + 1], fmt + 1)

(* Conversions *)

Field(text) ==
  /\ at = "escape" /\ at' = "text" /\ fmt' = fmt + 1
  /\ Putch(text) /\ field' = [conv |-> ch, esc |-> esc, text |-> text]
  /\ UNCHANGED <<call, esc, number>>

\* The call of printnum, with what is printed before it.
PrintNumber(lead, num, base, width, padc) ==
  /\ at = "escape" /\ at' = "number" /\ fmt' = fmt + 1
  /\ Putch(lead) /\ field' = [conv |-> ch, esc |-> esc, text |-> lead]
  /\ number' = [num |-> num, base |-> base, width |-> width, padc |-> padc, digits |-> <<>>]
  /\ UNCHANGED <<call, esc>>

OwnDigit == DigitChars[(number.num % number.base) + 1]

\* Mutant of Recurse: the width is not reduced with each digit.
RecurseWide ==
  /\ at = "number" /\ number.num >= number.base
  /\ number' = [number EXCEPT !.num = @ \div number.base, !.digits = <<OwnDigit>> \o @]
  /\ UNCHANGED <<call, at, fmt, esc, out, b, field>>

\* printnum prints the more significant digits before its own.
Recurse ==
  /\ at = "number" /\ number.num >= number.base
  /\ number' = [number EXCEPT !.num = @ \div number.base, !.width = @ - 1,
                              !.digits = <<OwnDigit>> \o @]
  /\ UNCHANGED <<call, at, fmt, esc, out, b, field>>

\* The innermost call prints the padding, and then each call its digit.
Unwind ==
  /\ at = "number" /\ number.num < number.base
  /\ LET text == Copy(number.padc, number.width - 1) \o <<OwnDigit>> \o number.digits
     IN  Putch(text) /\ field' = [field EXCEPT !.text = @ \o text]
  /\ at' = "text" /\ number' = NoNumber
  /\ UNCHANGED <<call, fmt, esc>>

\* getuint: an int and a long have the same width.
Unsigned(num, lflag) == num % (IF lflag >= 2 THEN ULONGLONG ELSE UINT)

Character == ch = "c" /\ Field(<<call.chr>>)

Decimal ==
  /\ ch = "d"
  /\ IF call.int < 0 THEN PrintNumber(<<"-">>, -call.int, 10, esc.width, esc.padc)
                     ELSE PrintNumber(<<>>, call.int, 10, esc.width, esc.padc)

UnsignedDecimal ==
  ch = "u" /\ PrintNumber(<<>>, Unsigned(call.int, esc.lflag), 10, esc.width, esc.padc)

Hexadecimal ==
  ch = "x" /\ PrintNumber(<<>>, Unsigned(call.int, esc.lflag), 16, esc.width, esc.padc)

Pointer ==
  ch = "p" /\ PrintNumber(<<"0", "x">>, Unsigned(call.int, 0), 16, esc.width, esc.padc)

\* The message of a known error is a letter here; others are printed as numbers.
ErrorMessage ==
  /\ ch = "e"
  /\ LET err == IF call.int < 0 THEN -call.int ELSE call.int
     IN  IF err \in 1 .. MAXERROR - 1 THEN Field(<<"m">>)
                                      ELSE PrintNumber(<<"e", " ">>, err, 10, -1, " ")

Octal == ch = "o" /\ Field(<<"X", "X", "X">>)

Literal == ch = "%" /\ Field(<<"%">>)

Printable(c) == c # "\t"

\* Mutant of Shown: strnlen is left out, and the padding counts the whole string.
ShownWhole(p) == Len(p)

\* What strnlen says of the string, and so how much of it is printed.
Shown(p) == IF esc.precision < 0 THEN Len(p) ELSE Least(Len(p), esc.precision)

String ==
  /\ ch = "s"
  /\ LET p == IF call.str = <<>> THEN <<"(", "n", ")">> ELSE call.str
         printed == IF esc.precision < 0 THEN Len(p) ELSE Least(Len(p), esc.precision)
         left == IF esc.width > 0 /\ esc.padc # "-" THEN esc.width - Shown(p) ELSE 0
         right == IF esc.width > 0 /\ esc.padc # "-" THEN 0 ELSE esc.width - printed
     IN  Field(Copy(esc.padc, left)
               \o [i \in 1 .. printed |-> IF esc.altflag /\ ~Printable(p[i]) THEN "?" ELSE p[i]]
               \o Copy(" ", right))

Conversions == {"c", "d", "u", "x", "p", "e", "o", "%", "s"}
Flags == {"-", "*", ".", "#", "l"} \cup DigitSet

LastPercent == CHOOSE i \in 1 .. fmt - 1 : CharAt(i) = "%" /\ \A j \in i + 1 .. fmt - 1 : CharAt(j) # "%"

\* Mutant of Unknown: what follows the percent sign is lost.
UnknownLost ==
  /\ at = "escape" /\ ch \notin Conversions \cup Flags
  /\ at' = "text" /\ fmt' = fmt
  /\ Putch(<<"%">>)
  /\ UNCHANGED <<call, esc, number, field>>

\* An unknown escape, or the format's end: go back and print it as text.
Unknown ==
  /\ at = "escape" /\ ch \notin Conversions \cup Flags
  /\ at' = "text" /\ fmt' = LastPercent + 1
  /\ Putch(<<"%">>)
  /\ UNCHANGED <<call, esc, number, field>>

PrintfmtNext ==
  \/ Text \/ Percent \/ End
  \/ PadFlag \/ Number \/ Digit \/ NumberEnd \/ Star \/ Dot \/ AltFlag \/ LongFlag
  \/ Character \/ Decimal \/ UnsignedDecimal \/ Hexadecimal \/ Pointer \/ ErrorMessage \/ Octal
  \/ Recurse \/ Unwind \/ Literal \/ String \/ Unknown

\* One call, or none: what a behaviour of Library looks like here.
PrintfmtSpec == (PrintfmtInit \/ PrintfmtIdle) /\ [][PrintfmtNext]_printfmt

-----------------------------------------------------------------------------
(* Properties *)

\* Whatever the format, the buffer's n bytes hold the beginning of what would
\* have been printed and a null, no byte behind the null is touched, and the
\* count returned is that of the whole output (printfmt.c:266, :273, :282).
BufferBounded ==
  at = "done" =>
    LET kept == Least(Len(out), call.n - 1)
    IN  /\ b.cnt = Len(out)
        /\ \A i \in DOMAIN b.mem :
             b.mem[i] = CASE i < kept -> out[i + 1]
                          [] i = kept -> NUL
                          [] OTHER -> Untouched

Strip(s, c) == LET pads == {i \in 0 .. Len(s) - 1 : \A j \in 1 .. i : s[j] = c}
               IN  SubSeq(s, 1 + (CHOOSE i \in pads : \A j \in pads : j <= i), Len(s))

\* A number is printed in its base without loss, right-justified with the
\* padding character in exactly the width asked for, or more if it needs more;
\* a minus sign stands before the padding and is not counted
\* (printfmt.c:36-50).  The - flag is excluded: by the comment at printfmt.c:107 it
\* pads on the right, by the code it is a padding character on the left.
NumberField ==
  at \in {"text", "done"} /\ field.conv \in {"d", "u", "x"} /\ field.esc.padc # "-" =>
    LET signed == field.conv = "d" /\ call.int < 0
        value == CASE signed -> -call.int
                   [] field.conv = "d" /\ ~signed -> call.int
                   [] OTHER -> Unsigned(call.int, field.esc.lflag)
        base == IF field.conv = "x" THEN 16 ELSE 10
        text == IF signed THEN Tail(field.text) ELSE field.text
        digits == Strip(text, field.esc.padc)
    IN  /\ signed => field.text[1] = "-"
        /\ \A i \in DOMAIN digits : DigitValue(digits[i]) < base
        /\ Value(digits, base) = value
        /\ Len(digits) > 1 => digits[1] # "0"
        /\ LET needed == IF digits = <<>> THEN 1 ELSE Len(digits)
           IN  Len(text) = (IF field.esc.width > needed THEN field.esc.width ELSE needed)

\* A string is cut to the precision and then padded to the width: on the left
\* with the padding character, or with the - flag on the right with spaces;
\* without escapes nothing of it is replaced (printfmt.c:176-187).  This is
\* what the code does; the comment at printfmt.c:12-13 has padding and widths for
\* numbers only.
StringField ==
  at \in {"text", "done"} /\ field.conv = "s" /\ ~field.esc.altflag =>
    LET p == IF call.str = <<>> THEN <<"(", "n", ")">> ELSE call.str
        shown == SubSeq(p, 1, IF field.esc.precision < 0 THEN Len(p) ELSE Least(Len(p), field.esc.precision))
        padding == IF field.esc.width > Len(shown) THEN field.esc.width - Len(shown) ELSE 0
    IN  /\ Len(field.text) = padding + Len(shown)
        /\ IF field.esc.padc = "-"
           THEN /\ IsPrefix(shown, field.text)
                /\ \A i \in 1 .. padding : field.text[Len(shown) + i] = " "
           ELSE /\ IsSuffix(shown, field.text)
                /\ \A i \in 1 .. padding : field.text[i] = field.esc.padc

\* A format without a conversion is printed as it stands, whatever flags follow
\* its percent sign and wherever it ends, also within the escape
\* (printfmt.c:236-241).
UnknownLiteral ==
  /\ at = "done"
  /\ \A i \in DOMAIN call.fmt : call.fmt[i] \in Conversions => call.fmt[i] = "%"
  /\ Cardinality({i \in DOMAIN call.fmt : call.fmt[i] = "%"}) = 1
  => out = call.fmt
=============================================================================
