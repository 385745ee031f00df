------------------------------- MODULE MCLibrary -------------------------------
(* Model of Library for TLC.                                                 *)
EXTENDS Library

\* bounds: every escape of up to three characters, then those of four and five
\* that combine a flag, a width and a precision; text before and after some.
Chars == {"-", "0", "2", ".", "*", "l", "d", "s", "x", "q", "%"}
Conv == {"d", "u", "x", "s", "q"}
Short == UNION {[1 .. k -> Chars] : k \in 0 .. 3}
Long == {<<f, w, ".", p, c>> : f \in {"-", "0", "#"}, w \in {"2", "*"}, p \in {"1", "*"}, c \in Conv}
        \cup {<<f, w, z, c>> : f \in {"-", "0"}, w \in {"1", "3"}, z \in {"0", "."}, c \in Conv}
Single == {<<c>> : c \in Conversions}
MCFormats == {<<"%">> \o s : s \in Short \cup Long \cup Single}
             \cup {<<"a", "%">> \o s \o <<"%", "b">> : s \in Single}

Argument(int, star, str, n) == [int |-> int, chr |-> "c", star |-> star, str |-> str, n |-> n]
MCArguments ==
  {Argument(0, 3, <<"h">>, 1), Argument(37, 1, <<"h", "\t", "i">>, 4), Argument(-5, 0, <<"h", "i">>, 12),
   Argument(5, -1, <<>>, 0), Argument(100, 6, <<>>, 2)}

\* bound: lines of up to six characters, argv of three, so two words fit.
MCLines == UNION {[1 .. k -> {"h", "k", " "}] : k \in 0 .. 6}
MCCommands == {<<"h">>, <<"h", "k">>}

\* bounds: two tables of two bytes (one of them above 127) and a null, with tails
\* of either as strings, sizes up to three, and copies wherever there is room.
MCBytes == {0, 1, 200}
Tables == {[a \in 0 .. 7 |-> CASE a \in 0 .. 1 -> t[a + 1] [] a \in 3 .. 4 -> t[a] [] a = 6 -> 9 [] OTHER -> 0] :
             t \in [1 .. 4 -> MCBytes]}
CallsOf(names, qs, sizes, bytes) ==
  {[name |-> name, mem |-> m, p |-> p, q |-> q, n |-> n, c |-> c] :
     name \in names, m \in Tables, p \in {0, 1, 3}, q \in qs, n \in sizes, c \in bytes}
MCStringCalls ==
  LET one == {0}
      two == {0, 3, 4}
      n == 0 .. 3
  IN  {k \in CallsOf({"strlen"}, one, one, one)
             \cup CallsOf({"strnlen"}, one, n, one)
             \cup CallsOf({"strchr", "strfind"}, one, one, MCBytes)
             \cup CallsOf({"memfind"}, one, n, MCBytes)
             \cup CallsOf({"strcmp", "strcpy", "strcat"}, two, one, one)
             \cup CallsOf({"strncmp", "memcmp", "strncpy", "strlcpy"}, two, n, one) : Owed(k)}
=============================================================================
