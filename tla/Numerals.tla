------------------------------- MODULE Numerals -------------------------------
(* The digits printnum prints and strtol reads.                              *)
EXTENDS Integers, Sequences

Least(x, y) == IF x < y THEN x ELSE y

DigitChars == <<"0", "1", "2", "3", "4", "5", "6", "7", "8", "9", "a", "b", "c", "d", "e", "f">>

DigitValue(c) == IF \E d \in 0 .. 15 : DigitChars[d + 1] = c
                 THEN CHOOSE d \in 0 .. 15 : DigitChars[d + 1] = c ELSE 99

\* The number a sequence of digits is written for.
Value(digits, base) ==
  LET upto[i \in 0 .. Len(digits)] ==
        IF i = 0 THEN 0 ELSE upto[i - 1] * base + DigitValue(digits[i])
  IN  upto[Len(digits)]

-----------------------------------------------------------------------------
(* strtol of lib/string.c, over the characters of a string: the number that  *)
(* begins it, for numbers that a long holds.                                 *)

Blanks == {" ", "\t"}

\* The index of the first character that is no blank, behind the last if
\* there is none.
Skip(s) ==
  CHOOSE i \in 1 .. Len(s) + 1 :
    (\A j \in 1 .. i - 1 : s[j] \in Blanks) /\ (i <= Len(s) => s[i] \notin Blanks)

From(s, i) == SubSeq(s, i, Len(s))

Capitals == <<"A", "B", "C", "D", "E", "F">>
Lower(c) == IF \E d \in 1 .. 6 : Capitals[d] = c
            THEN DigitChars[10 + CHOOSE d \in 1 .. 6 : Capitals[d] = c] ELSE c

\* The digits s begins with, for bases up to 16.
Digits(s, base) ==
  LET end == CHOOSE i \in 1 .. Len(s) + 1 :
               /\ \A j \in 1 .. i - 1 : DigitValue(Lower(s[j])) < base
               /\ i <= Len(s) => DigitValue(Lower(s[i])) >= base
  IN  [i \in 1 .. end - 1 |-> Lower(s[i])]

\* Mutant of HexPrefix: 0x is read as a zero and the end of the number.
NoPrefix(s) == FALSE

HexPrefix(s) == Len(s) >= 2 /\ s[1] = "0" /\ s[2] = "x"

strtol(str, base0) ==
  LET s == From(str, Skip(str))
      signed == s # <<>> /\ s[1] \in {"+", "-"}
      u == IF signed THEN From(s, 2) ELSE s
      hex == base0 \in {0, 16} /\ HexPrefix(u)
      oct == ~hex /\ base0 = 0 /\ u # <<>> /\ u[1] = "0"
      base == CASE hex -> 16 [] oct -> 8 [] ~hex /\ ~oct /\ base0 = 0 -> 10 [] OTHER -> base0
      val == Value(Digits(IF hex THEN From(u, 3) ELSE IF oct THEN From(u, 2) ELSE u, base), base)
  IN  IF signed /\ s[1] = "-" THEN -val ELSE val
=============================================================================
