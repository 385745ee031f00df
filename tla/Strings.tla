------------------------------- MODULE Strings -------------------------------
(***************************************************************************)
(* The string functions of lib/string.c over a memory of bytes, in which   *)
(* a null ends a string: one action per function, a turn of its loop or    *)
(* the way out of it.                                                      *)
(***************************************************************************)
EXTENDS Integers, Sequences, Numerals

CONSTANTS
  StringMemory,  \* the size of memory
  StringCalls    \* the calls: [name, mem, p, q, n, c], where mem is memory
                 \* before, p and q are addresses, n is a size and c a byte

VARIABLES
  asked,   \* the call
  locals,     \* its locals: [mem, p, q, n, val]; val is returned in the end
  strpc    \* "loop", "copy" (the second half of strcat), "returned" or "idle"

stringvars == <<asked, locals, strpc>>

Places == 0 .. StringMemory - 1
Byte == 0 .. 255
NULL == -1   \* no address

\* The end of the string at address s, if it has one.
Ends(m, s) == \E e \in Places : e >= s /\ m[e] = 0
EndOf(m, s) == CHOOSE e \in Places : e >= s /\ m[e] = 0 /\ \A a \in s .. e - 1 : m[a] # 0

\* What the callers of each function owe it: strings end, there is room for
\* what is written, and it is not what is read.
Room(p, size, m, q) ==
  /\ p + size <= StringMemory
  /\ p + size <= q \/ EndOf(m, q) < p

Owed(k) ==
  CASE k.name \in {"strlen", "strnlen", "strchr", "strfind"} -> Ends(k.mem, k.p)
    [] k.name \in {"strcmp", "strncmp"} -> Ends(k.mem, k.p) /\ Ends(k.mem, k.q)
    [] k.name = "strcpy" -> Ends(k.mem, k.q) /\ Room(k.p, EndOf(k.mem, k.q) - k.q + 1, k.mem, k.q)
    [] k.name = "strcat" ->
         /\ Ends(k.mem, k.p) /\ Ends(k.mem, k.q)
         /\ Room(EndOf(k.mem, k.p), EndOf(k.mem, k.q) - k.q + 1, k.mem, k.q)
    [] k.name \in {"strncpy", "strlcpy"} -> Ends(k.mem, k.q) /\ Room(k.p, k.n, k.mem, k.q)
    [] k.name = "memcmp" -> k.p + k.n <= StringMemory /\ k.q + k.n <= StringMemory
    [] k.name = "memfind" -> k.p + k.n <= StringMemory

ASSUME StringsAssumption ==
  /\ StringMemory \in Nat
  /\ \A k \in StringCalls :
       /\ k.name \in {"strlen", "strnlen", "strcpy", "strcat", "strncpy", "strlcpy", "strcmp",
                      "strncmp", "strchr", "strfind", "memcmp", "memfind"}
       /\ k.mem \in [Places -> Byte] /\ k.p \in Nat /\ k.q \in Nat /\ k.n \in Nat /\ k.c \in Byte
       /\ Owed(k)

StringsInit ==
  /\ asked \in StringCalls
  /\ locals = [mem |-> asked.mem, p |-> asked.p, q |-> asked.q, n |-> asked.n, val |-> 0]
  /\ strpc = "loop"

StringsIdle == asked = <<>> /\ locals = <<>> /\ strpc = "idle"

Of(name) == strpc = "loop" /\ asked.name = name
P == locals.mem[locals.p]
Q == locals.mem[locals.q]

Again(next) == locals' = next /\ UNCHANGED <<asked, strpc>>
Give(next, v) == locals' = [next EXCEPT !.val = v] /\ strpc' = "returned" /\ UNCHANGED asked

-----------------------------------------------------------------------------
strlen ==
  /\ Of("strlen")
  /\ IF P # 0 THEN Again([locals EXCEPT !.p = @ + 1, !.val = @ + 1]) ELSE Give(locals, locals.val)

strnlen ==
  /\ Of("strnlen")
  /\ IF locals.n > 0 /\ P # 0
     THEN Again([locals EXCEPT !.p = @ + 1, !.n = @ - 1, !.val = @ + 1]) ELSE Give(locals, locals.val)

\* The assignment and the increments are in the condition of the loop.
strcpy ==
  /\ Of("strcpy") \/ strpc = "copy"
  /\ LET copied == [locals EXCEPT !.mem[locals.p] = Q, !.p = @ + 1, !.q = @ + 1]
     IN  IF Q # 0 THEN Again(copied) ELSE Give(copied, asked.p)

\* strcat looks for the end of dst, and then calls strcpy.
strcat ==
  /\ Of("strcat")
  /\ IF P # 0 THEN Again([locals EXCEPT !.p = @ + 1])
     ELSE strpc' = "copy" /\ UNCHANGED <<asked, locals>>

strncpy ==
  /\ Of("strncpy")
  /\ IF locals.n > 0
     THEN Again([locals EXCEPT !.mem[locals.p] = Q, !.p = @ + 1, !.n = @ - 1,
                            !.q = IF Q # 0 THEN @ + 1 ELSE @])
     ELSE Give(locals, asked.p)

\* Mutant of strlcpy: the loop leaves no room for the null.
strlcpy_full ==
  /\ Of("strlcpy")
  /\ IF locals.n > 0 /\ Q # 0
     THEN Again([locals EXCEPT !.mem[locals.p] = Q, !.p = @ + 1, !.q = @ + 1, !.n = @ - 1])
     ELSE Give([locals EXCEPT !.mem[locals.p] = 0], locals.p - asked.p)

strlcpy ==
  /\ Of("strlcpy")
  /\ IF locals.n - 1 > 0 /\ Q # 0
     THEN Again([locals EXCEPT !.mem[locals.p] = Q, !.p = @ + 1, !.q = @ + 1, !.n = @ - 1])
     ELSE Give(IF asked.n > 0 THEN [locals EXCEPT !.mem[locals.p] = 0] ELSE locals, locals.p - asked.p)

strcmp ==
  /\ Of("strcmp")
  /\ IF P # 0 /\ P = Q THEN Again([locals EXCEPT !.p = @ + 1, !.q = @ + 1]) ELSE Give(locals, P - Q)

\* Mutant of strncmp: the size is not looked at again after the loop.
strncmp_past ==
  /\ Of("strncmp")
  /\ IF locals.n > 0 /\ P # 0 /\ P = Q
     THEN Again([locals EXCEPT !.p = @ + 1, !.q = @ + 1, !.n = @ - 1])
     ELSE Give(locals, P - Q)

strncmp ==
  /\ Of("strncmp")
  /\ IF locals.n > 0 /\ P # 0 /\ P = Q
     THEN Again([locals EXCEPT !.p = @ + 1, !.q = @ + 1, !.n = @ - 1])
     ELSE Give(locals, IF locals.n = 0 THEN 0 ELSE P - Q)

\* Mutant of strchr: a null is looked for like any other character.
strchr_null ==
  /\ Of("strchr")
  /\ IF P # 0 /\ P # asked.c THEN Again([locals EXCEPT !.p = @ + 1])
     ELSE Give(locals, IF P = asked.c THEN locals.p ELSE NULL)

strchr ==
  /\ Of("strchr")
  /\ IF P # 0 /\ P # asked.c THEN Again([locals EXCEPT !.p = @ + 1])
     ELSE Give(locals, IF P # 0 THEN locals.p ELSE NULL)

strfind ==
  /\ Of("strfind")
  /\ IF P # 0 /\ P # asked.c THEN Again([locals EXCEPT !.p = @ + 1]) ELSE Give(locals, locals.p)

memcmp ==
  /\ Of("memcmp")
  /\ IF locals.n > 0 /\ P = Q
     THEN Again([locals EXCEPT !.p = @ + 1, !.q = @ + 1, !.n = @ - 1])
     ELSE Give(locals, IF locals.n = 0 THEN 0 ELSE P - Q)

memfind ==
  /\ Of("memfind")
  /\ IF locals.n > 0 /\ P # asked.c THEN Again([locals EXCEPT !.p = @ + 1, !.n = @ - 1])
     ELSE Give(locals, locals.p)

StringsNext ==
  \/ strlen \/ strnlen \/ strcpy \/ strcat \/ strncpy \/ strlcpy
  \/ strcmp \/ strncmp \/ strchr \/ strfind \/ memcmp \/ memfind

\* One call, or none: what a behaviour of Library looks like here.
StringsSpec == (StringsInit \/ StringsIdle) /\ [][StringsNext]_stringvars

-----------------------------------------------------------------------------
(* Properties *)

\* The string and the n bytes at an address, as sequences.
StringOf(m, s) == [i \in 1 .. EndOf(m, s) - s |-> m[s + i - 1]]
Bytes(m, s, n) == [i \in 1 .. n |-> m[s + i - 1]]
Cut(t, n) == SubSeq(t, 1, Least(n, Len(t)))

\* How many bytes come before the first c.
Distance(t, c) == CHOOSE n \in 0 .. Len(t) : (\A i \in 1 .. n : t[i] # c) /\ (n < Len(t) => t[n + 1] = c)

\* What is looked for is found at its first place, and not behind the end of
\* the string or the size given, whichever comes first (string.c:11-29,
\* :98-118, :231-239).
ScansExact ==
  strpc = "returned" =>
    LET s == StringOf(asked.mem, asked.p)
        found == asked.p + Distance(s, asked.c)
    IN  CASE asked.name = "strlen" -> locals.val = Len(s)
          [] asked.name = "strnlen" -> locals.val = Least(asked.n, Len(s))
          [] asked.name = "strchr" -> locals.val = IF found < asked.p + Len(s) THEN found ELSE NULL
          [] asked.name = "strfind" -> locals.val = found
          [] asked.name = "memfind" ->
               locals.val = asked.p + Distance(Bytes(asked.mem, asked.p, asked.n), asked.c)
          [] OTHER -> TRUE

\* The sign of the difference of s and t where they differ first; a string that
\* the other one continues is the smaller.
Sign(x) == CASE x < 0 -> -1 [] x = 0 -> 0 [] x > 0 -> 1
Compared(s, t) ==
  LET same == {i \in 0 .. Least(Len(s), Len(t)) : \A j \in 1 .. i : s[j] = t[j]}
      first == 1 + (CHOOSE i \in same : \A j \in same : j <= i)
  IN  IF first <= Len(s) /\ first <= Len(t) THEN Sign(s[first] - t[first]) ELSE Sign(Len(s) - Len(t))

\* A comparison has the sign of the lexicographic order of bytes from 0 to 255:
\* of the strings, of as much of them as the size allows, or of that many bytes
\* (string.c:79-96, :216-229).
ComparesExact ==
  strpc = "returned" =>
    LET s == StringOf(asked.mem, asked.p)
        t == StringOf(asked.mem, asked.q)
        n == asked.n
    IN  CASE asked.name = "strcmp" -> Sign(locals.val) = Compared(s, t)
          [] asked.name = "strncmp" -> Sign(locals.val) = Compared(Cut(s, n), Cut(t, n))
          [] asked.name = "memcmp" ->
               Sign(locals.val) = Compared(Bytes(asked.mem, asked.p, n), Bytes(asked.mem, asked.q, n))
          [] OTHER -> TRUE

\* What is to be at the destination when the function returns.
Written ==
  LET t == StringOf(asked.mem, asked.q)
  IN  CASE asked.name = "strcpy" -> t \o <<0>>
        [] asked.name = "strcat" -> StringOf(asked.mem, asked.p) \o t \o <<0>>
        [] asked.name = "strncpy" -> [i \in 1 .. asked.n |-> IF i <= Len(t) THEN t[i] ELSE 0]
        [] asked.name = "strlcpy" /\ asked.n > 0 -> Cut(t, asked.n - 1) \o <<0>>
        [] OTHER -> <<>>

\* The copies write the string and what follows it, a null or nulls up to the
\* size, and nothing else; strlcpy returns how much it copied, the others the
\* destination (string.c:31-77).
CopiesExact ==
  strpc = "returned" =>
    /\ locals.mem = [a \in Places |-> IF a \in asked.p .. asked.p + Len(Written) - 1
                                  THEN Written[a - asked.p + 1] ELSE asked.mem[a]]
    /\ asked.name \in {"strcpy", "strcat", "strncpy"} => locals.val = asked.p
    /\ asked.name = "strlcpy" => locals.val = Len(Cut(StringOf(asked.mem, asked.q), asked.n - 1))
=============================================================================
