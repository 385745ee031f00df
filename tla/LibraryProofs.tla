----------------------------- MODULE LibraryProofs -----------------------------
(***************************************************************************)
(* What the kernel's sequential functions promise, for every call:         *)
(* memmove and memset move exactly the bytes they should, runcmd splits a  *)
(* line into its words, vsnprintf prints each field as its escape asks and *)
(* keeps to its buffer, strtol reads back what it printed, and the string  *)
(* functions find, compare and copy what their strings and sizes say.      *)
(***************************************************************************)
EXTENDS Library, FiniteSetTheorems, SequenceTheorems, WellFoundedInduction, TLAPS

\* A set of natural numbers has a least element, a bounded one a greatest.
LEMMA LeastOf ==
  \A T \in SUBSET Nat : T # {} => \E m \in T : \A n \in T : m <= n
<1> SUFFICES ASSUME NEW T \in SUBSET Nat, T # {} PROVE \E m \in T : \A n \in T : m <= n
  OBVIOUS
<1>1. PICK m \in T : \A n \in T : <<n, m>> \notin OpToRel(<, Nat)
  BY NatLessThanWellFounded, WFMin
<1>2. ASSUME NEW n \in T PROVE m <= n
  <2>1. ~(n < m)  BY <1>1 DEF OpToRel
  <2> QED BY <2>1
<1> QED BY <1>2

LEMMA GreatestOf ==
  \A top \in Int : \A T \in SUBSET (0 .. top) : T # {} => \E m \in T : \A n \in T : n <= m
<1> SUFFICES ASSUME NEW top \in Int, NEW T \in SUBSET (0 .. top), T # {}
             PROVE  \E m \in T : \A n \in T : n <= m
  OBVIOUS
<1> DEFINE below == {top - n : n \in T}
<1>1. PICK d \in below : \A n \in below : d <= n
  <2>1. \A n \in T : n \in Int /\ n <= top  OBVIOUS
  <2>2. \A n \in T : top - n \in Nat  BY <2>1
  <2>3. below \subseteq Nat /\ below # {}  BY <2>2
  <2> QED BY <2>3, LeastOf
<1>2. PICK m \in T : d = top - m  OBVIOUS
<1>3. ASSUME NEW n \in T PROVE n <= m
  <2>1. d <= top - n  BY <1>1
  <2> QED BY <1>2, <2>1
<1> QED BY <1>3

-----------------------------------------------------------------------------
(* Memory *)

\* What the call makes of the byte at address a of the destination.
Wanted(a) == IF op.name = "memmove" THEN before[op.src + (a - op.dst)] ELSE op.c % 256

CallMade ==
  /\ op.name \in {"memmove", "memset"}
  /\ op.dst \in Nat /\ op.src \in Nat /\ op.n \in Nat /\ op.c \in Int
  /\ op.dst + op.n <= MemBytes
  /\ op.name = "memmove" => op.src + op.n <= MemBytes
  /\ before \in [Address -> Int]

\* The bytes the string instruction has still to move, at the low end of both
\* ranges when it runs downwards and at the high end otherwise.
Left == rep.left * rep.unit

Pending == IF df THEN op.dst .. op.dst + Left - 1
           ELSE op.dst + (op.n - Left) .. op.dst + op.n - 1

Registers ==
  /\ rep \in [left : Nat, di : Int, si : Int, unit : {1, Word}, eax : Int] /\ Left <= op.n
  /\ df <=> op.name = "memmove" /\ Downwards(op.dst, op.src, op.n)
  /\ rep.di = op.dst + (IF df THEN Left - rep.unit ELSE op.n - Left)
  /\ op.name = "memmove" =>
       rep.si = op.src + (IF df THEN Left - rep.unit ELSE op.n - Left)
  /\ op.name = "memset" => rep.eax = IF rep.unit = Word THEN Replicated(op.c) ELSE op.c

\* Of the destination, what is not pending is as wanted and the rest, like
\* everything outside, as it was.
Progress ==
  \A a \in Address :
    mem[a] = IF a \in op.dst .. op.dst + op.n - 1 /\ a \notin Pending THEN Wanted(a) ELSE before[a]

Complete ==
  \A a \in Address :
    mem[a] = IF a \in op.dst .. op.dst + op.n - 1 THEN Wanted(a) ELSE before[a]

MemoryInv ==
  /\ mempc \in {"idle", "call", "rep", "done"}
  /\ mempc # "idle" => CallMade
  /\ mempc = "call" => mem = before /\ df = FALSE
  /\ mempc = "rep"  => df \in BOOLEAN /\ Registers /\ Progress
  /\ mempc = "done" => df = FALSE /\ Complete

-----------------------------------------------------------------------------
\* A pending element: the bytes still to move are at least one of it, and one
\* of it less afterwards.
LEMMA ElementLeft ==
  ASSUME NEW n \in Nat, n > 0, NEW unit \in {1, Word}
  PROVE  /\ n * unit \in Nat /\ n * unit >= unit
         /\ (n - 1) * unit = n * unit - unit
<1>1. CASE unit = 1
  BY <1>1
<1>2. CASE unit = 4
  <2>1. (n - 1) * 4 = n * 4 - 4 /\ n * 4 >= 4 /\ n * 4 \in Nat  OBVIOUS
  <2> QED BY <1>2, <2>1
<1> QED BY <1>1, <1>2 DEF Word

\* A size that is moved word by word is a whole number of words.
LEMMA WholeUnits ==
  ASSUME NEW n \in Nat, NEW unit \in {1, Word}, unit = Word => n % Word = 0
  PROVE  n \div unit \in Nat /\ (n \div unit) * unit = n
<1>1. CASE unit = 1
  BY <1>1
<1>2. CASE unit = 4
  <2>1. n % 4 = 0  BY <1>2 DEF Word
  <2>2. n \div 4 \in Nat /\ (n \div 4) * 4 = n  BY <2>1
  <2> QED BY <1>2, <2>2
<1> QED BY <1>1, <1>2 DEF Word

\* What stos stores is the low byte of memset's argument: as a byte, and at each
\* place of a word.
LEMMA StoredByte ==
  ASSUME NEW c \in Int, NEW unit \in {1, Word}, NEW i \in 0 .. unit - 1
  PROVE  ByteOf(IF unit = Word THEN Replicated(c) ELSE c, i) = c % 256
<1>1. CASE unit = 1
  <2>1. i = 0 /\ unit # Word  BY <1>1, SMT DEF Word
  <2>2. ByteOf(c, 0) = c % 256  BY SMT DEF ByteOf
  <2> QED BY <2>1, <2>2
<1>2. CASE unit = Word
  <2>1. i \in {0, 1, 2, 3}  BY <1>2, SMT DEF Word
  <2> DEFINE low == c % 256
  <2>2. low \in 0 .. 255  BY SMT
  <2>3. PICK w \in Int : w = Replicated(c) /\ w = low * 16777216 + low * 65536 + low * 256 + low
    BY <2>2, SMT DEF Replicated
  <2> HIDE DEF low
  <2>4. w % 256 = low  BY <2>2, <2>3, SMT
  <2>5. (w \div 256) % 256 = low
    <3>1. w \div 256 = low * 65536 + low * 256 + low  BY <2>2, <2>3, SMT
    <3> QED BY <2>2, <3>1, SMT
  <2>6. (w \div 65536) % 256 = low
    <3>1. w \div 65536 = low * 256 + low  BY <2>2, <2>3, SMT
    <3> QED BY <2>2, <3>1, SMT
  <2>7. (w \div 16777216) % 256 = low
    <3>1. w \div 16777216 = low  BY <2>2, <2>3, SMT
    <3> QED BY <2>2, <3>1, SMT
  <2>8. ByteOf(w, i) = low  BY <2>1, <2>4, <2>5, <2>6, <2>7, SMT DEF ByteOf
  <2>9. Replicated(c) = w  BY <2>3
  <2>10. ByteOf(Replicated(c), i) = low  BY <2>8, <2>9
  <2> QED BY <1>2, <2>10 DEF low
<1> QED BY <1>1, <1>2

\* A call starts with its arguments, and with nothing moved.
LEMMA MemoryInitInv == MemoryInit \/ MemoryIdle => MemoryInv
<1>1. CASE MemoryIdle  BY <1>1 DEF MemoryIdle, MemoryInv
<1>2. ASSUME NEW n \in 0 .. MaxSize, NEW dst \in Address, NEW src \in Address,
             dst + n <= MemBytes, src + n <= MemBytes, MemoryCall("memmove", dst, src, n, 0)
      PROVE  MemoryInv
  BY <1>2, MemoryAssumption DEF MemoryCall, MemoryInv, CallMade, Address
<1>3. ASSUME NEW n \in 0 .. MaxSize, NEW dst \in Address, NEW c \in {100, 256 + 100},
             dst + n <= MemBytes, MemoryCall("memset", dst, 0, n, c)
      PROVE  MemoryInv
  BY <1>3, MemoryAssumption DEF MemoryCall, MemoryInv, CallMade, Address
<1> QED BY <1>1, <1>2, <1>3 DEF MemoryInit

\* memmove sets the string instruction up at the right end.
LEMMA MoveInv == MemoryInv /\ memmove => MemoryInv'
<1> SUFFICES ASSUME MemoryInv, memmove PROVE MemoryInv'  OBVIOUS
<1> DEFINE down == Downwards(op.dst, op.src, op.n)
           shift == IF down THEN op.n ELSE 0
           unit == IF WordWise(op.dst + shift, op.src + shift, op.n) THEN Word ELSE 1
           back == IF down THEN unit ELSE 0
<1>1. CallMade /\ op.name = "memmove" /\ mem = before
  BY DEF MemoryInv, memmove
<1>2. UNCHANGED <<op, before, mem>> /\ mempc' = "rep"  BY DEF memmove
<1>3. unit \in {1, Word} /\ (unit = Word => op.n % Word = 0)
  BY DEF WordWise, Word
<1>4. rep' = [left |-> op.n \div unit, unit |-> unit, eax |-> 0,
              di |-> op.dst + shift - back, si |-> op.src + shift - back] /\ df' = down
  BY DEF memmove
<1>5. down \in BOOLEAN  BY <1>1 DEF Downwards
<1> HIDE DEF unit
<1>6. op.n \div unit \in Nat /\ (op.n \div unit) * unit = op.n
  BY <1>1, <1>3, WholeUnits DEF CallMade
<1>7. Left' = op.n  BY <1>4, <1>6 DEF Left
<1>8. Registers'
  <2>1. unit \in Nat  BY <1>3 DEF Word
  <2>2. rep' \in [left : Nat, di : Int, si : Int, unit : {1, Word}, eax : Int] /\ Left' <= op.n
    BY <1>1, <1>3, <1>4, <1>5, <1>6, <1>7, <2>1 DEF CallMade
  <2>3. (rep.di = op.dst + (IF df THEN Left - rep.unit ELSE op.n - Left))'
    BY <1>1, <1>2, <1>4, <1>7, <2>1 DEF CallMade
  <2>4. (rep.si = op.src + (IF df THEN Left - rep.unit ELSE op.n - Left))'
    BY <1>1, <1>2, <1>4, <1>7, <2>1 DEF CallMade
  <2>5. (df <=> op.name = "memmove" /\ Downwards(op.dst, op.src, op.n))'
    BY <1>1, <1>2, <1>4, <1>5 DEF Downwards
  <2> QED BY <1>1, <1>2, <2>2, <2>3, <2>4, <2>5 DEF Registers
<1>9. Progress'
  <2>1. op.dst .. op.dst + op.n - 1 = Pending'
    BY <1>1, <1>2, <1>7 DEF Pending, CallMade
  <2> QED BY <1>1, <1>2, <2>1 DEF Progress
<1> QED BY <1>1, <1>2, <1>4, <1>5, <1>8, <1>9 DEF MemoryInv, CallMade

\* memset returns at once or sets the string instruction up at the low end.
LEMMA SetInv == MemoryInv /\ memset => MemoryInv'
<1> SUFFICES ASSUME MemoryInv, memset PROVE MemoryInv'  OBVIOUS
<1>1. CallMade /\ op.name = "memset" /\ mem = before /\ df = FALSE /\ UNCHANGED <<op, before, mem>>
  BY DEF MemoryInv, memset
<1>2. CallMade'  BY <1>1 DEF CallMade
<1>3. CASE op.n = 0 /\ mempc' = "done" /\ UNCHANGED <<rep, df>>
  <2>1. Complete'
    BY <1>1, <1>3 DEF Complete, CallMade, Address
  <2> QED BY <1>1, <1>2, <1>3, <2>1 DEF MemoryInv
<1>4. CASE op.n > 0 /\ mempc' = "rep"
  <2> DEFINE unit == IF WordWise(op.dst, 0, op.n) THEN Word ELSE 1
  <2>1. unit \in {1, Word} /\ (unit = Word => op.n % Word = 0)
    BY DEF WordWise, Word
  <2>2. /\ rep' = [left |-> op.n \div unit, unit |-> unit, di |-> op.dst, si |-> 0,
                   eax |-> IF unit = Word THEN Replicated(op.c) ELSE op.c]
        /\ df' = FALSE
    BY <1>4, <1>1 DEF memset, CallMade
  <2> HIDE DEF unit
  <2>3. op.n \div unit \in Nat /\ (op.n \div unit) * unit = op.n
    BY <1>1, <2>1, WholeUnits DEF CallMade
  <2>4. Left' = op.n  BY <2>2, <2>3 DEF Left
  <2>5. Progress'
    <3>1. op.dst .. op.dst + op.n - 1 = Pending'
      BY <1>1, <2>2, <2>4 DEF Pending, CallMade
    <3> QED BY <1>1, <3>1 DEF Progress
  <2>6. Registers'
    <3>1. Replicated(op.c) \in Int /\ op.c \in Int  BY <1>1 DEF Replicated, CallMade
    <3> QED BY <1>1, <2>1, <2>2, <2>3, <2>4, <3>1 DEF Registers, CallMade
  <2> QED BY <1>2, <1>4, <2>2, <2>5, <2>6 DEF MemoryInv
<1> QED BY <1>1, <1>3, <1>4 DEF memset, CallMade

\* An element moves from the one range to the other, and what it reads has not
\* been written: the direction keeps the destination behind the source.
LEMMA ElementInv == MemoryInv /\ Element => MemoryInv'
<1> SUFFICES ASSUME MemoryInv, Element PROVE MemoryInv'  OBVIOUS
<1> DEFINE u == rep.unit
           here == rep.di .. rep.di + u - 1
<1>1. CallMade /\ Registers /\ Progress /\ df \in BOOLEAN /\ rep.left > 0
  BY DEF MemoryInv, Element
<1>2. UNCHANGED <<op, before, df, mempc>> /\ mempc' = "rep"  BY DEF MemoryInv, Element
<1>3. u \in Nat /\ u >= 1  BY <1>1 DEF Registers, Word
<1>4. /\ rep'.unit = u /\ rep'.left = rep.left - 1 /\ rep'.eax = rep.eax
      /\ rep'.di = rep.di + (IF df THEN -u ELSE u) /\ rep'.si = rep.si + (IF df THEN -u ELSE u)
  <2>1. rep' = [rep EXCEPT !.left = @ - 1, !.di = @ + (IF df THEN -u ELSE u),
                           !.si = @ + (IF df THEN -u ELSE u)]
    BY DEF Element
  <2> QED BY <1>1, <2>1 DEF Registers
<1>5. Left \in Nat /\ Left >= u /\ Left' = Left - u
  <2>1. rep.left \in Nat /\ rep.left > 0 /\ u \in {1, Word}  BY <1>1 DEF Registers
  <2>2. rep.left * u \in Nat /\ rep.left * u >= u /\ (rep.left - 1) * u = rep.left * u - u
    BY <2>1, ElementLeft
  <2>3. Left = rep.left * u /\ Left' = (rep.left - 1) * u  BY <1>4 DEF Left
  <2> QED BY <2>2, <2>3
<1>6. Registers'
  <2>1. rep' \in [left : Nat, di : Int, si : Int, unit : {1, Word}, eax : Int]
    <3>1. rep' = [left |-> rep.left - 1, di |-> rep'.di, si |-> rep'.si, unit |-> u, eax |-> rep.eax]
      BY <1>1, <1>4 DEF Registers, Element
    <3> QED BY <1>1, <1>3, <1>4, <3>1 DEF Registers
  <2> QED BY <1>1, <1>2, <1>3, <1>4, <1>5, <2>1 DEF Registers, CallMade
\* What moves is the end of what was pending.
<1>7. /\ here = Pending \ Pending' /\ Pending' \subseteq Pending
      /\ Pending \subseteq op.dst .. op.dst + op.n - 1
  BY <1>1, <1>2, <1>3, <1>5 DEF Registers, CallMade, Pending
<1>8. ASSUME NEW a \in here PROVE mem'[a] = Wanted(a) /\ a \in Address
  <2>1. a \in op.dst .. op.dst + op.n - 1 /\ a \in Address
    <3>1. a \in op.dst .. op.dst + op.n - 1  BY <1>7
    <3> QED BY <1>1, <3>1, MemoryAssumption DEF CallMade, Address
  <2>2. mem'[a] = IF op.name = "memmove" THEN mem[rep.si + (a - rep.di)]
                  ELSE ByteOf(rep.eax, a - rep.di)
    BY <2>1 DEF Element
  <2>3. CASE op.name = "memmove"
    <3> DEFINE from == rep.si + (a - rep.di)
    <3>1. from = op.src + (a - op.dst)
      BY <1>1, <1>3, <1>5, <2>1, <2>3 DEF Registers, CallMade
    <3>2. from \in Address
      <4> HIDE DEF from
      <4>1. op.src + op.n <= MemBytes /\ op.src \in Nat /\ op.dst \in Nat /\ op.n \in Nat
        BY <1>1, <2>3 DEF CallMade
      <4> QED BY <2>1, <3>1, <4>1, MemoryAssumption DEF Address
    <3>3. ~(from \in op.dst .. op.dst + op.n - 1 /\ from \notin Pending)
      <4> HIDE DEF from
      <4>1. CASE df
        <5>1. op.src < op.dst /\ a < op.dst + Left
          BY <1>1, <1>3, <1>5, <4>1 DEF Registers, CallMade, Downwards
        <5> QED BY <1>1, <1>5, <2>1, <2>3, <3>1, <4>1, <5>1 DEF CallMade, Pending
      <4>2. CASE ~df
        <5>1. op.src >= op.dst \/ op.src + op.n <= op.dst
          BY <1>1, <2>3, <4>2 DEF Registers, CallMade, Downwards
        <5>2. a >= op.dst + (op.n - Left)
          BY <1>1, <1>3, <1>5, <4>2 DEF Registers, CallMade
        <5> QED BY <1>1, <1>5, <2>1, <2>3, <3>1, <4>2, <5>1, <5>2 DEF CallMade, Pending
      <4> QED BY <4>1, <4>2
    <3>4. mem[from] = before[from]  BY <1>1, <3>2, <3>3 DEF Progress
    <3> QED BY <2>2, <2>1, <2>3, <3>1, <3>4 DEF Wanted
  <2>4. CASE op.name # "memmove"
    <3>1. /\ op.c \in Int /\ rep.unit \in {1, Word}
          /\ rep.eax = IF rep.unit = Word THEN Replicated(op.c) ELSE op.c
      BY <1>1, <2>4 DEF CallMade, Registers
    <3>2. a - rep.di \in 0 .. rep.unit - 1  BY <1>1, <1>3 DEF Registers
    <3>3. ByteOf(rep.eax, a - rep.di) = op.c % 256  BY <3>1, <3>2, StoredByte
    <3> QED BY <2>1, <2>2, <2>4, <3>3 DEF Wanted
  <2> QED BY <2>3, <2>4
<1>9. Progress'
  <2> SUFFICES ASSUME NEW a \in Address
               PROVE  mem'[a] = IF a \in op.dst .. op.dst + op.n - 1 /\ a \notin Pending'
                                THEN Wanted(a) ELSE before[a]
    BY <1>2 DEF Progress, Wanted
  <2>1. CASE a \in here  BY <1>7, <1>8, <2>1
  <2>2. CASE a \notin here
    <3>1. mem'[a] = mem[a]  BY <2>2 DEF Element
    <3> QED BY <1>1, <1>7, <2>2, <3>1 DEF Progress
  <2> QED BY <2>1, <2>2
<1> QED BY <1>1, <1>2, <1>6, <1>9 DEF MemoryInv, CallMade

\* With nothing pending the whole destination is as wanted.
LEMMA ReturnInv == MemoryInv /\ Returned => MemoryInv'
<1> SUFFICES ASSUME MemoryInv, Returned PROVE MemoryInv'  OBVIOUS
<1>1. CallMade /\ Registers /\ Progress  BY DEF MemoryInv, Returned
<1>2. df' = FALSE /\ mempc' = "done" /\ UNCHANGED <<op, before, mem, rep>> /\ rep.left = 0
  BY DEF Returned
<1>3. Left = 0  BY <1>1, <1>2 DEF Left, Registers, Word
<1>4. Pending = {}  BY <1>1, <1>3 DEF Pending, CallMade
<1>5. Complete'  BY <1>1, <1>2, <1>4 DEF Complete, Progress, Wanted
<1> QED BY <1>1, <1>2, <1>5 DEF MemoryInv, CallMade

\* Within a call, the bytes the string instruction has passed are as wanted and
\* the others as they were, and its registers point at the first or, downwards,
\* the last of those pending (string.c:122-172).
THEOREM MemoryInvariance == MemorySpec => []MemoryInv
<1>1. MemoryInv /\ [MemoryNext]_memory => MemoryInv'
  <2> SUFFICES ASSUME MemoryInv, [MemoryNext]_memory PROVE MemoryInv'  OBVIOUS
  <2>1. CASE UNCHANGED memory
    BY <2>1 DEF memory, MemoryInv, CallMade, Registers, Progress, Complete, Pending, Left, Wanted
  <2> QED BY <2>1, MoveInv, SetInv, ElementInv, ReturnInv DEF MemoryNext
<1> QED BY <1>1, MemoryInitInv, PTL DEF MemorySpec

\* memmove and memset are exact, whatever the sizes, the overlap and the
\* alignment, and the direction flag is clear when they return (string.c:122).
THEOREM MoveCorrect == MemorySpec => []MoveExact
<1>1. MemoryInv => MoveExact
  BY DEF MemoryInv, Complete, Wanted, MoveExact
<1> QED BY <1>1, MemoryInvariance, PTL

-----------------------------------------------------------------------------
(* The command line *)

Blank(k) == k < Len(typed) /\ typed[k + 1] \in WHITESPACE

\* The words the tokenizer has put into argv: those that begin before buf, and
\* while it scans a word that one.
Saved == {i \in WordStarts : i <= (IF monpc = "scan" THEN buf + 1 ELSE buf)}

Before(i) == {j \in WordStarts : j < i}

MonitorTypes ==
  /\ typed \in Lines /\ buf \in 0 .. Len(typed)
  /\ argc \in 0 .. MAXARGS - 1 /\ argv \in [0 .. MAXARGS - 1 -> Int]
  /\ monpc \in {"gobble", "scan", "lookup", "returned"}

Tokenized ==
  /\ line = [k \in 0 .. Len(typed) |->
               IF k = Len(typed) \/ (k < buf /\ typed[k + 1] \in WHITESPACE) THEN Null ELSE typed[k + 1]]
  /\ argc = Cardinality(Saved)
  /\ \A i \in Saved : argv[Cardinality(Before(i))] = i - 1

\* The gobbling loop begins at the start of the line or at the end of a word.
BetweenWords ==
  monpc = "gobble" /\ buf < Len(typed) /\ typed[buf + 1] \notin WHITESPACE => buf + 1 \in WordStarts

\* What the loop leaves: the whole line taken apart, or a word too many.
Parsed ==
  /\ monpc = "lookup" => buf = Len(typed) /\ argv[argc] = Nil
  /\ monpc = "returned" =>
       \/ /\ ran = "too many arguments" /\ Cardinality(WordStarts) > MAXARGS - 1
       \/ /\ buf = Len(typed) /\ argv[argc] = Nil
          /\ ran = CASE argc = 0 -> "nothing"
                     [] argc > 0 /\ StringAt(argv[0]) \in commands -> "command"
                     [] OTHER -> "unknown command"

MonitorInv == monpc = "idle" \/ (MonitorTypes /\ Tokenized /\ BetweenWords /\ Parsed)

-----------------------------------------------------------------------------
\* A line is a sequence without a null in it.
LEMMA Line ==
  ASSUME typed \in Lines
  PROVE  /\ Len(typed) \in Nat /\ DOMAIN typed = 1 .. Len(typed)
         /\ \A i \in 1 .. Len(typed) : typed[i] # Null
<1>1. typed \in Seq(STRING) /\ \A i \in DOMAIN typed : typed[i] # Null
  BY MonitorAssumption DEF Null
<1>2. Len(typed) \in Nat /\ DOMAIN typed = 1 .. Len(typed)
  BY <1>1, LenProperties
<1> QED BY <1>1, <1>2

LEMMA Starts ==
  ASSUME typed \in Lines
  PROVE  /\ WordStarts \subseteq 1 .. Len(typed) /\ IsFiniteSet(WordStarts)
         /\ \A S \in SUBSET WordStarts :
              IsFiniteSet(S) /\ Cardinality(S) \in Nat /\ Cardinality(S) <= Cardinality(WordStarts)
<1>1. Len(typed) \in Nat /\ DOMAIN typed = 1 .. Len(typed)
  BY Line
<1>2. WordStarts \subseteq 1 .. Len(typed)
  BY <1>1 DEF WordStarts
<1>3. IsFiniteSet(1 .. Len(typed))
  BY <1>1, FS_Interval
<1>4. IsFiniteSet(WordStarts)
  BY <1>2, <1>3, FS_Subset
<1>5. ASSUME NEW S \in SUBSET WordStarts
      PROVE  IsFiniteSet(S) /\ Cardinality(S) \in Nat /\ Cardinality(S) <= Cardinality(WordStarts)
  BY <1>4, FS_Subset, FS_CardinalityType
<1> QED BY <1>2, <1>4, <1>5

\* Fewer words begin before one than up to it.
LEMMA BeforeOne ==
  ASSUME typed \in Lines, NEW S \in SUBSET WordStarts, NEW i \in S,
         \A j \in WordStarts : j < i => j \in S
  PROVE  /\ Cardinality(Before(i)) \in Nat /\ Cardinality(Before(i)) < Cardinality(S)
<1>1. Before(i) \subseteq S /\ Before(i) # S /\ Before(i) \subseteq WordStarts
  BY Line, Starts DEF Before
<1>2. IsFiniteSet(S) /\ Cardinality(S) \in Nat /\ Cardinality(Before(i)) \in Nat
  BY <1>1, Starts
<1>3. Cardinality(Before(i)) <= Cardinality(S) /\ Cardinality(S) # Cardinality(Before(i))
  BY <1>1, <1>2, FS_Subset
<1> QED BY <1>2, <1>3

LEMMA MonitorInitInv == MonitorInit \/ MonitorIdle => MonitorInv
<1>1. ASSUME MonitorInit PROVE MonitorInv
  <2>1. typed \in Lines
        /\ line = [i \in 0 .. Len(typed) |-> IF i = Len(typed) THEN Null ELSE typed[i + 1]]
        /\ buf = 0 /\ argc = 0 /\ argv = [i \in 0 .. MAXARGS - 1 |-> Nil] /\ monpc = "gobble"
    BY <1>1 DEF MonitorInit
  <2>2. Len(typed) \in Nat
    BY <2>1, Line
  <2>3. MonitorTypes
    BY <2>1, <2>2, MonitorAssumption DEF MonitorTypes, Nil
  <2>4. Saved = {}
    BY <2>1, <2>2, Starts DEF Saved
  <2>5. Tokenized
    <3>1. \A k \in 0 .. Len(typed) : ~(k < buf)  BY <2>1
    <3> QED BY <2>1, <2>4, <3>1, FS_EmptySet DEF Tokenized
  <2>6. BetweenWords
    <3>. DOMAIN typed = 1 .. Len(typed)  BY <2>1, Line
    <3>1. 0 < Len(typed) => 1 \in DOMAIN typed  BY <2>2
    <3>2. 0 < Len(typed) /\ typed[1] \notin WHITESPACE => 1 \in WordStarts  BY <3>1 DEF WordStarts
    <3>3. buf + 1 = 1
      <4>1. buf = 0  BY <2>1
      <4> QED BY <4>1
    <3> QED BY <2>1, <3>2, <3>3 DEF BetweenWords
  <2> QED BY <2>1, <2>3, <2>5, <2>6 DEF MonitorInv, Parsed
<1> QED BY <1>1 DEF MonitorIdle, MonitorInv

\* The line at buf.
LEMMA Here ==
  ASSUME MonitorTypes, Tokenized
  PROVE  /\ line[buf] = Null <=> buf = Len(typed)
         /\ line[buf] # Null => line[buf] = typed[buf + 1] /\ buf < Len(typed)
<1>1. buf \in 0 .. Len(typed) /\ Len(typed) \in Nat /\ \A i \in 1 .. Len(typed) : typed[i] # Null
  BY Line DEF MonitorTypes
<1>2. line[buf] = IF buf = Len(typed) THEN Null ELSE typed[buf + 1]
  BY <1>1 DEF Tokenized
<1>3. buf # Len(typed) => buf < Len(typed) /\ typed[buf + 1] # Null
  BY <1>1
<1> QED BY <1>2, <1>3

LEMMA GobbleInv ==
  ASSUME MonitorTypes, Tokenized, BetweenWords, Parsed, Gobble
  PROVE  MonitorInv'
<1>1. /\ monpc = "gobble" /\ line[buf] \in WHITESPACE /\ line' = [line EXCEPT ![buf] = Null]
      /\ buf' = buf + 1 /\ UNCHANGED <<typed, argc, argv, monpc, ran>>
  BY DEF Gobble
<1>2. /\ Len(typed) \in Nat /\ DOMAIN typed = 1 .. Len(typed) /\ buf \in 0 .. Len(typed)
      /\ typed \in Lines
  BY Line DEF MonitorTypes
<1>3. typed[buf + 1] \in WHITESPACE /\ buf < Len(typed)
  <2>1. line[buf] # Null  BY <1>1 DEF WHITESPACE, Null
  <2> QED BY <1>1, <2>1, Here
<1>4. MonitorTypes'
  BY <1>1, <1>2, <1>3 DEF MonitorTypes
<1>5. buf + 1 \notin WordStarts
  BY <1>3 DEF WordStarts
<1>6. WordStarts' = WordStarts
  BY <1>1 DEF WordStarts
<1>7. Saved' = Saved
  <2>1. \A i \in WordStarts : i \in Int /\ i # buf + 1  BY <1>2, <1>5, Starts
  <2>2. \A i \in WordStarts : i <= buf + 1 <=> i <= buf  BY <1>2, <2>1
  <2> QED BY <1>1, <1>6, <2>2 DEF Saved
<1>8. Tokenized'
  <2> DEFINE now == [k \in 0 .. Len(typed) |->
                      IF k = Len(typed) \/ (k < buf + 1 /\ typed[k + 1] \in WHITESPACE)
                      THEN Null ELSE typed[k + 1]]
  <2>1. ASSUME NEW k \in 0 .. Len(typed) PROVE line'[k] = now[k]
    <3>1. line[k] = IF k = Len(typed) \/ (k < buf /\ typed[k + 1] \in WHITESPACE)
                    THEN Null ELSE typed[k + 1]
      BY DEF Tokenized
    <3>2. CASE k = buf
      <4>1. line'[k] = Null  BY <1>1, <3>2 DEF Tokenized
      <4>2. k < buf + 1 /\ typed[k + 1] \in WHITESPACE  BY <1>2, <1>3, <3>2
      <4> QED BY <4>1, <4>2
    <3>3. CASE k # buf
      <4>1. line'[k] = line[k]  BY <1>1, <3>3 DEF Tokenized
      <4>2. k < buf + 1 <=> k < buf  BY <1>2, <3>3
      <4>3. k < buf => k < buf + 1  BY <4>2
      <4> QED BY <3>1, <4>1, <4>2, <4>3
    <3> QED BY <3>2, <3>3
  <2>2. line' = now
    <3>1. DOMAIN line' = 0 .. Len(typed) /\ line' = [k \in DOMAIN line' |-> line'[k]]
      BY <1>1 DEF Tokenized
    <3> QED BY <2>1, <3>1
  <2> QED BY <1>1, <1>6, <1>7, <2>2 DEF Tokenized, Before
<1>9. BetweenWords'
  <2>1. buf + 1 < Len(typed) /\ typed[buf + 2] \notin WHITESPACE => buf + 2 \in WordStarts
    <3> SUFFICES ASSUME buf + 1 < Len(typed), typed[buf + 2] \notin WHITESPACE
                 PROVE  buf + 2 \in WordStarts
      OBVIOUS
    <3>1. buf + 2 \in DOMAIN typed /\ (buf + 2) - 1 = buf + 1  BY <1>2
    <3> QED BY <1>3, <3>1 DEF WordStarts
  <2>2. buf' + 1 = buf + 2  BY <1>1, <1>2
  <2> QED BY <1>1, <1>6, <2>1, <2>2 DEF BetweenWords
<1> QED BY <1>1, <1>4, <1>8, <1>9 DEF MonitorInv, Parsed

LEMMA EndInv ==
  ASSUME MonitorTypes, Tokenized, EndOfLine
  PROVE  MonitorInv'
<1>1. /\ monpc = "gobble" /\ line[buf] = Null /\ argv' = [argv EXCEPT ![argc] = Nil]
      /\ monpc' = "lookup" /\ UNCHANGED <<typed, line, buf, argc, ran>>
  BY DEF EndOfLine
<1>2. argc \in 0 .. MAXARGS - 1 /\ MAXARGS \in Nat \ {0} /\ argv \in [0 .. MAXARGS - 1 -> Int]
  BY MonitorAssumption DEF MonitorTypes
<1>3. buf = Len(typed)
  BY <1>1, Here
<1>4. MonitorTypes'
  BY <1>1, <1>2 DEF MonitorTypes, Nil
<1>5. WordStarts' = WordStarts /\ Saved' = Saved /\ \A i : Before(i)' = Before(i)
  BY <1>1 DEF WordStarts, Saved, Before
<1>6. ASSUME NEW i \in Saved PROVE argv'[Cardinality(Before(i))] = i - 1
  <2>1. Saved \subseteq WordStarts /\ \A j \in WordStarts : j < i => j \in Saved
    <3>1. buf \in Int /\ typed \in Lines /\ monpc # "scan"  BY <1>1 DEF MonitorTypes
    <3>2. WordStarts \subseteq Int  BY <3>1, Starts, Line
    <3> QED BY <3>1, <3>2 DEF Saved
  <2>2. Cardinality(Before(i)) < argc /\ Cardinality(Before(i)) \in Nat
    BY <2>1, BeforeOne DEF Tokenized, MonitorTypes
  <2>3. Cardinality(Before(i)) # argc /\ Cardinality(Before(i)) \in 0 .. MAXARGS - 1
    BY <1>2, <2>2
  <2>4. argv'[Cardinality(Before(i))] = argv[Cardinality(Before(i))]
    BY <1>1, <1>2, <2>3
  <2> QED BY <2>4 DEF Tokenized
<1>7. Tokenized'
  BY <1>1, <1>5, <1>6 DEF Tokenized
<1>8. argv'[argc'] = Nil
  BY <1>1, <1>2
<1> QED BY <1>1, <1>3, <1>4, <1>7, <1>8 DEF MonitorInv, BetweenWords, Parsed

\* The word the loop is at is one that was not saved yet.
LEMMA NewWord ==
  ASSUME MonitorTypes, Tokenized, BetweenWords, AtWord
  PROVE  /\ buf + 1 \in WordStarts \ Saved /\ Before(buf + 1) = Saved /\ monpc = "gobble"
         /\ Saved \subseteq WordStarts /\ \A i \in WordStarts : i <= buf + 1 <=> i \in Saved \cup {buf + 1}
<1>1. monpc = "gobble" /\ line[buf] \notin WHITESPACE \cup {Null}
  BY DEF AtWord
<1>2. typed[buf + 1] \notin WHITESPACE /\ buf < Len(typed)
  BY <1>1, Here
<1>3. buf + 1 \in WordStarts
  BY <1>1, <1>2 DEF BetweenWords
<1>4. buf \in Int /\ WordStarts \subseteq Int
  BY Starts, Line DEF MonitorTypes
<1>5. Saved = {i \in WordStarts : i <= buf}
  BY <1>1 DEF Saved
<1>6. \A i \in WordStarts : (i <= buf <=> i < buf + 1) /\ (i <= buf + 1 <=> i <= buf \/ i = buf + 1)
  BY <1>4
<1>7. ~(buf + 1 <= buf)
  BY <1>4
<1> QED BY <1>1, <1>3, <1>5, <1>6, <1>7 DEF Before

LEMMA TooManyInv ==
  ASSUME MonitorTypes, Tokenized, BetweenWords, TooMany
  PROVE  MonitorInv'
<1>1. /\ AtWord /\ argc = MAXARGS - 1 /\ monpc' = "returned" /\ ran' = "too many arguments"
      /\ UNCHANGED <<typed, line, buf, argc, argv>>
  BY DEF TooMany
<1>2. buf + 1 \in WordStarts \ Saved /\ monpc = "gobble" /\ Saved \subseteq WordStarts
  BY <1>1, NewWord
<1>3. WordStarts' = WordStarts /\ Saved' = Saved /\ \A i : Before(i)' = Before(i)
  BY <1>1, <1>2 DEF WordStarts, Saved, Before
<1>4. MonitorTypes' /\ Tokenized'
  BY <1>1, <1>3 DEF MonitorTypes, Tokenized
<1>5. Cardinality(WordStarts) > MAXARGS - 1
  <2>1. IsFiniteSet(WordStarts) /\ Cardinality(WordStarts) \in Nat /\ Cardinality(Saved) \in Nat
    BY <1>2, Starts DEF MonitorTypes
  <2>2. Cardinality(Saved) <= Cardinality(WordStarts) /\ Cardinality(WordStarts) # Cardinality(Saved)
    BY <1>2, <2>1, FS_Subset
  <2>3. Cardinality(Saved) = MAXARGS - 1
    BY <1>1 DEF Tokenized
  <2>4. Cardinality(WordStarts) > Cardinality(Saved)
    BY <2>1, <2>2
  <2> QED BY <2>3, <2>4
<1> QED BY <1>1, <1>3, <1>4, <1>5 DEF MonitorInv, BetweenWords, Parsed

LEMMA SaveInv ==
  ASSUME MonitorTypes, Tokenized, BetweenWords, SaveArg
  PROVE  MonitorInv'
<1>1. /\ AtWord /\ argc # MAXARGS - 1 /\ argv' = [argv EXCEPT ![argc] = buf] /\ argc' = argc + 1
      /\ monpc' = "scan" /\ UNCHANGED <<typed, line, buf, ran>>
  BY DEF SaveArg
<1>2. /\ argc \in 0 .. MAXARGS - 1 /\ MAXARGS \in Nat \ {0} /\ argv \in [0 .. MAXARGS - 1 -> Int]
      /\ buf \in Int /\ typed \in Lines
  BY MonitorAssumption, Line DEF MonitorTypes
<1>3. MonitorTypes'
  BY <1>1, <1>2 DEF MonitorTypes
<1>4. WordStarts' = WordStarts /\ \A i : Before(i)' = Before(i)
  BY <1>1 DEF WordStarts, Before
<1>5. /\ buf + 1 \in WordStarts \ Saved /\ Before(buf + 1) = Saved /\ Saved \subseteq WordStarts
      /\ \A i \in WordStarts : i <= buf + 1 <=> i \in Saved \cup {buf + 1}
  BY <1>1, NewWord
<1>6. Saved' = Saved \cup {buf + 1}
  BY <1>1, <1>4, <1>5 DEF Saved
<1>7. Cardinality(Saved') = argc' /\ Cardinality(Saved) = argc
  BY <1>1, <1>2, <1>5, <1>6, Starts, FS_AddElement DEF Tokenized
<1>8. ASSUME NEW i \in Saved' PROVE argv'[Cardinality(Before(i))] = i - 1
  <2>1. CASE i = buf + 1
    BY <1>1, <1>2, <1>5, <1>7, <2>1
  <2>2. CASE i \in Saved
    <3>1. WordStarts \subseteq Int  BY <1>2, Starts, Line
    <3>2. \A j \in WordStarts : j < i => j \in Saved
      BY <1>2, <1>5, <2>2, <3>1
    <3>3. Cardinality(Before(i)) < argc /\ Cardinality(Before(i)) \in Nat
      BY <1>2, <1>5, <1>7, <2>2, <3>2, BeforeOne
    <3>4. Cardinality(Before(i)) # argc /\ Cardinality(Before(i)) \in 0 .. MAXARGS - 1
      BY <1>2, <3>3
    <3>5. argv'[Cardinality(Before(i))] = argv[Cardinality(Before(i))]
      BY <1>1, <1>2, <3>4
    <3> QED BY <2>2, <3>5 DEF Tokenized
  <2> QED BY <1>6, <2>1, <2>2
<1>9. Tokenized'
  BY <1>1, <1>4, <1>7, <1>8 DEF Tokenized
<1> QED BY <1>1, <1>3, <1>9 DEF MonitorInv, BetweenWords, Parsed

LEMMA ScanInv ==
  ASSUME MonitorTypes, Tokenized, Scan
  PROVE  MonitorInv'
<1>1. /\ monpc = "scan" /\ UNCHANGED <<typed, line, argc, argv, ran>>
      /\ IF line[buf] \in WHITESPACE \cup {Null}
         THEN monpc' = "gobble" /\ UNCHANGED buf
         ELSE buf' = buf + 1 /\ UNCHANGED monpc
  BY DEF Scan
<1>2. /\ Len(typed) \in Nat /\ DOMAIN typed = 1 .. Len(typed) /\ buf \in 0 .. Len(typed)
      /\ typed \in Lines
  BY Line DEF MonitorTypes
<1>3. WordStarts' = WordStarts /\ \A i : Before(i)' = Before(i)
  BY <1>1 DEF WordStarts, Before
<1>4. \A i \in WordStarts : i \in 1 .. Len(typed)
  BY <1>2, Starts
<1>5. CASE line[buf] \in WHITESPACE \cup {Null}
  <2>1. buf' = buf /\ monpc' = "gobble"  BY <1>1, <1>5
  <2>2. buf = Len(typed) \/ (buf < Len(typed) /\ typed[buf + 1] \in WHITESPACE)
    BY <1>5, Here
  <2>3. buf + 1 \notin WordStarts
    <3>1. buf = Len(typed) => buf + 1 \notin 1 .. Len(typed)  BY <1>2
    <3> QED BY <1>4, <2>2, <3>1 DEF WordStarts
  <2>4. \A i \in WordStarts : i <= buf + 1 <=> i <= buf  BY <1>2, <1>4, <2>3
  <2>5. Saved' = Saved  BY <1>1, <1>3, <2>1, <2>4 DEF Saved
  <2>6. MonitorTypes' /\ Tokenized'  BY <1>1, <1>3, <2>1, <2>5 DEF MonitorTypes, Tokenized
  <2>7. BetweenWords'
    <3>. buf = Len(typed) => ~(buf < Len(typed))  BY <1>2
    <3>1. ~(buf < Len(typed) /\ typed[buf + 1] \notin WHITESPACE)  BY <2>2
    <3> QED BY <1>1, <2>1, <3>1 DEF BetweenWords
  <2> QED BY <2>1, <2>6, <2>7 DEF MonitorInv, Parsed
<1>6. CASE line[buf] \notin WHITESPACE \cup {Null}
  <2>1. buf' = buf + 1 /\ monpc' = "scan"  BY <1>1, <1>6
  <2>2. buf < Len(typed) /\ typed[buf + 1] \notin WHITESPACE  BY <1>6, Here
  <2>3. (buf + 1) + 1 \notin WordStarts
    <3>1. (buf + 1) + 1 # 1 /\ ((buf + 1) + 1) - 1 = buf + 1  BY <1>2
    <3> QED BY <2>2, <3>1 DEF WordStarts
  <2>4. \A i \in WordStarts : i <= (buf + 1) + 1 <=> i <= buf + 1  BY <1>2, <1>4, <2>3
  <2>5. Saved' = Saved  BY <1>1, <1>3, <2>1, <2>4 DEF Saved
  <2>6. MonitorTypes'  BY <1>1, <1>2, <2>1, <2>2 DEF MonitorTypes
  <2>7. line' = [k \in 0 .. Len(typed) |->
                  IF k = Len(typed) \/ (k < buf + 1 /\ typed[k + 1] \in WHITESPACE)
                  THEN Null ELSE typed[k + 1]]
    <3>1. \A k \in 0 .. Len(typed) : (k < buf + 1 /\ typed[k + 1] \in WHITESPACE)
                                       <=> (k < buf /\ typed[k + 1] \in WHITESPACE)
      <4> SUFFICES ASSUME NEW k \in 0 .. Len(typed), typed[k + 1] \in WHITESPACE
                   PROVE  k < buf + 1 <=> k < buf
        OBVIOUS
      <4>1. k # buf  BY <2>2
      <4> QED BY <1>2, <4>1
    <3> QED BY <1>1, <3>1 DEF Tokenized
  <2>8. Tokenized'  BY <1>1, <1>3, <2>1, <2>5, <2>7 DEF Tokenized
  <2> QED BY <2>1, <2>6, <2>8 DEF MonitorInv, BetweenWords, Parsed
<1> QED BY <1>5, <1>6

LEMMA LookupInv ==
  ASSUME MonitorTypes, Tokenized, Parsed, Lookup
  PROVE  MonitorInv'
<1>1. /\ monpc = "lookup" /\ monpc' = "returned" /\ UNCHANGED <<typed, line, buf, argc, argv>>
      /\ ran' = CASE argc = 0 -> "nothing"
                   [] argc > 0 /\ StringAt(argv[0]) \in commands -> "command"
                   [] OTHER -> "unknown command"
  BY DEF Lookup
<1>2. WordStarts' = WordStarts /\ Saved' = Saved /\ \A i : Before(i)' = Before(i)
  BY <1>1 DEF WordStarts, Saved, Before
<1>3. MonitorTypes' /\ Tokenized'
  BY <1>1, <1>2 DEF MonitorTypes, Tokenized
<1>4. buf = Len(typed) /\ argv[argc] = Nil
  BY <1>1 DEF Parsed
<1>5. StringAt(argv[0])' = StringAt(argv[0])
  BY <1>1 DEF StringAt
<1>6. Parsed'
  BY <1>1, <1>4, <1>5 DEF Parsed
<1> QED BY <1>1, <1>3, <1>6 DEF MonitorInv, BetweenWords

\* At every character of the line, argv holds the words that begin before it.
LEMMA MonitorInvariance == MonitorSpec => []MonitorInv
<1>1. MonitorInv /\ [MonitorNext]_runcmd => MonitorInv'
  <2> SUFFICES ASSUME MonitorInv, [MonitorNext]_runcmd PROVE MonitorInv'  OBVIOUS
  <2>1. CASE UNCHANGED runcmd
    <3>1. UNCHANGED <<typed, line, buf, argc, argv, monpc, ran>>
      BY <2>1 DEF runcmd
    <3>2. WordStarts' = WordStarts /\ Saved' = Saved /\ (\A i : Before(i)' = Before(i))
          /\ \A i : StringAt(i)' = StringAt(i)
      BY <3>1 DEF WordStarts, Saved, Before, StringAt
    <3>3. (MonitorTypes <=> MonitorTypes') /\ (BetweenWords <=> BetweenWords')
      BY <3>1, <3>2 DEF MonitorTypes, BetweenWords
    <3>4. Tokenized <=> Tokenized'
      BY <3>1, <3>2 DEF Tokenized
    <3>5. Parsed <=> Parsed'
      BY <3>1, <3>2 DEF Parsed
    <3> QED BY <3>1, <3>3, <3>4, <3>5 DEF MonitorInv
  <2>2. CASE MonitorNext
    <3>1. monpc # "idle"
      BY <2>2 DEF MonitorNext, Gobble, EndOfLine, TooMany, AtWord, SaveArg, Scan, Lookup
    <3> QED BY <2>2, <3>1, GobbleInv, EndInv, TooManyInv, SaveInv, ScanInv, LookupInv
            DEF MonitorNext, MonitorInv
  <2> QED BY <2>1, <2>2
<1> QED BY <1>1, MonitorInitInv, PTL DEF MonitorSpec

\* The string at the start of a word is that word.
LEMMA StringIsWord ==
  ASSUME typed \in Lines, Tokenized, buf = Len(typed), NEW i \in WordStarts
  PROVE  StringAt(i - 1) = WordAt(i)
<1> DEFINE N == Len(typed)
           ends == {j \in i .. N : j = N \/ typed[j + 1] \in WHITESPACE}
<1>1. N \in Nat /\ i \in 1 .. N /\ typed[i] \notin WHITESPACE /\ \A k \in 1 .. N : typed[k] # Null
  BY Line, Starts DEF WordStarts
<1>2. \A k \in 0 .. N : line[k] = Null <=> (k = N \/ typed[k + 1] \in WHITESPACE)
  <2> SUFFICES ASSUME NEW k \in 0 .. N
               PROVE  line[k] = Null <=> (k = N \/ typed[k + 1] \in WHITESPACE)
    OBVIOUS
  <2>1. line[k] = IF k = N \/ (k < N /\ typed[k + 1] \in WHITESPACE) THEN Null ELSE typed[k + 1]
    BY DEF Tokenized
  <2>2. k # N => k < N /\ typed[k + 1] # Null
    BY <1>1
  <2> QED BY <2>1, <2>2
<1>3. \A k \in 0 .. N : k # N => line[k] = Null \/ line[k] = typed[k + 1]
  BY DEF Tokenized
<1>4. PICK last \in ends : \A j \in ends : last <= j
  <2>1. ends \subseteq Nat /\ N \in ends  BY <1>1
  <2> QED BY <2>1, LeastOf
<1>5. last \in i .. N /\ (last = N \/ typed[last + 1] \in WHITESPACE) /\ last \in Int
  BY <1>1, <1>4
<1>6. ASSUME NEW k \in i .. last PROVE typed[k] \notin WHITESPACE
  <2>1. CASE k = i  BY <1>1, <2>1
  <2>2. CASE k # i
    <3>1. k - 1 \in i .. N /\ k - 1 # N /\ ~(last <= k - 1) /\ (k - 1) + 1 = k
      BY <1>1, <1>5, <2>2
    <3>2. k - 1 \notin ends  BY <1>4, <3>1
    <3> QED BY <3>1, <3>2
  <2> QED BY <2>1, <2>2
<1> HIDE DEF ends
<1> DEFINE Wd(j) == (\A k \in i .. j : typed[k] \notin WHITESPACE)
                    /\ (j = N \/ typed[j + 1] \in WHITESPACE)
           Ln(n) == line[(i - 1) + n] = Null /\ \A k \in 0 .. n - 1 : line[(i - 1) + k] # Null
<1>7. ASSUME NEW j \in i .. N, Wd(j) PROVE j = last
  <2>1. CASE j < last
    <3>1. j # N /\ j + 1 \in i .. last  BY <1>1, <1>5, <2>1
    <3> QED BY <1>6, <1>7, <3>1
  <2>2. CASE last < j
    <3>1. last # N /\ last + 1 \in i .. j  BY <1>1, <1>5, <2>2
    <3> QED BY <1>5, <1>7, <3>1
  <2> QED BY <1>1, <1>5, <2>1, <2>2
<1>8. Wd(last)
  BY <1>5, <1>6
<1>9. (CHOOSE j \in i .. N : Wd(j)) = last
  <2> HIDE DEF Wd
  <2> QED BY <1>5, <1>7, <1>8
<1>10. WordAt(i) = SubSeq(typed, i, last)
  BY <1>9 DEF WordAt
<1> DEFINE len == last - i + 1
<1>11. len \in 0 .. N /\ (i - 1) + len = last /\ last \in 0 .. N
  BY <1>1, <1>5
<1>12. ASSUME NEW k \in 0 .. len - 1 PROVE line[(i - 1) + k] # Null /\ line[(i - 1) + k] = typed[i + k]
  <2>1. (i - 1) + k \in 0 .. N /\ (i - 1) + k # N /\ ((i - 1) + k) + 1 = i + k /\ i + k \in i .. last
    BY <1>1, <1>5
  <2>2. typed[i + k] \notin WHITESPACE  BY <1>6, <2>1
  <2> QED BY <1>2, <1>3, <2>1, <2>2
<1>13. Ln(len)
  <2>1. line[last] = Null  BY <1>2, <1>5, <1>11
  <2> QED BY <1>11, <1>12, <2>1
<1>14. ASSUME NEW n \in 0 .. N, Ln(n) PROVE n = len
  <2>1. CASE n < len
    <3>1. n \in 0 .. len - 1  BY <1>11, <2>1
    <3> QED BY <1>12, <1>14, <3>1
  <2>2. CASE len < n
    <3>1. len \in 0 .. n - 1  BY <1>11, <2>2
    <3> QED BY <1>13, <1>14, <3>1
  <2> QED BY <1>11, <2>1, <2>2
<1>15. (CHOOSE n \in 0 .. N : Ln(n)) = len
  <2> HIDE DEF Ln, len
  <2> QED BY <1>11, <1>13, <1>14
<1>16. StringAt(i - 1) = [k \in 1 .. len |-> line[(i - 1) + k - 1]]
  BY <1>15 DEF StringAt
<1>17. SubSeq(typed, i, last) = [k \in 1 .. len |-> typed[i + k - 1]]
  BY <1>1, <1>5
<1>18. ASSUME NEW k \in 1 .. len PROVE line[(i - 1) + k - 1] = typed[i + k - 1]
  <2>1. k - 1 \in 0 .. len - 1 /\ (i - 1) + (k - 1) = (i - 1) + k - 1 /\ i + (k - 1) = i + k - 1
    BY <1>1, <1>11
  <2> QED BY <1>12, <2>1
<1> HIDE DEF len
<1> QED BY <1>10, <1>16, <1>17, <1>18

\* Whatever line is typed and however many words argv has room for, the command
\* gets the words of the line, and a line with one more is refused
\* (monitor.c:84, :89, :93).
THEOREM ArgvCorrect == MonitorSpec => []ArgvIsWords
<1>1. MonitorInv => ArgvIsWords
  <2> SUFFICES ASSUME MonitorInv, monpc = "returned" PROVE ArgvIsWords
    BY DEF ArgvIsWords
  <2>1. MonitorTypes /\ Tokenized /\ Parsed
    BY DEF MonitorInv
  <2>2. CASE ran = "too many arguments" /\ Cardinality(WordStarts) > MAXARGS - 1
    BY <2>2 DEF ArgvIsWords
  <2>3. CASE /\ buf = Len(typed) /\ argv[argc] = Nil
             /\ ran = CASE argc = 0 -> "nothing"
                        [] argc > 0 /\ StringAt(argv[0]) \in commands -> "command"
                        [] OTHER -> "unknown command"
    <3>1. /\ typed \in Lines /\ Len(typed) \in Nat /\ argc \in 0 .. MAXARGS - 1 /\ MAXARGS \in Nat
          /\ WordStarts \subseteq 1 .. Len(typed)
      BY <2>1, Line, Starts, MonitorAssumption DEF MonitorTypes
    <3>2. Saved = WordStarts
      <4>1. monpc # "scan" /\ \A i \in WordStarts : i <= buf
        <5>1. buf = Len(typed)  BY <2>3
        <5>2. \A i \in WordStarts : i <= Len(typed)  BY <3>1
        <5> QED BY <5>1, <5>2
      <4> QED BY <4>1 DEF Saved
    <3>3. argc = Cardinality(WordStarts) /\ ~(Cardinality(WordStarts) > MAXARGS - 1)
      BY <2>1, <3>1, <3>2 DEF Tokenized
    <3>4. ASSUME NEW i \in WordStarts
          PROVE  argv[Cardinality(Before(i))] = i - 1 /\ StringAt(i - 1) = WordAt(i)
      BY <2>1, <2>3, <3>1, <3>2, StringIsWord DEF Tokenized
    <3>5. ASSUME argc > 0
          PROVE  (StringAt(argv[0]) \in commands)
                 <=> \E i \in WordStarts : WordAt(i) \in commands /\ \A j \in WordStarts : i <= j
      <4>1. WordStarts # {} /\ WordStarts \subseteq Nat
        BY <3>1, <3>3, <3>5, FS_EmptySet
      <4>2. PICK i \in WordStarts : \A j \in WordStarts : i <= j
        BY <4>1, LeastOf
      <4>3. Before(i) = {}
        <5>1. \A j \in WordStarts : ~(j < i)  BY <4>1, <4>2
        <5> QED BY <5>1 DEF Before
      <4>4. argv[0] = i - 1 /\ StringAt(argv[0]) = WordAt(i)
        BY <3>4, <4>3, FS_EmptySet
      <4>5. \A k \in WordStarts : (\A j \in WordStarts : k <= j) => k = i
        BY <4>1, <4>2
      <4> QED BY <4>2, <4>4, <4>5
    <3>6. ran = CASE argc = 0 -> "nothing"
                  [] argc > 0 /\ \E i \in WordStarts : WordAt(i) \in commands
                                     /\ \A j \in WordStarts : i <= j -> "command"
                  [] OTHER -> "unknown command"
      <4> DEFINE Known == StringAt(argv[0]) \in commands
                 First == \E i \in WordStarts : WordAt(i) \in commands /\ \A j \in WordStarts : i <= j
      <4>1. argc > 0 => (Known <=> First)
        BY <3>5
      <4>2. ran = CASE argc = 0 -> "nothing" [] argc > 0 /\ Known -> "command"
                    [] OTHER -> "unknown command"
        BY <2>3
      <4> HIDE DEF Known, First
      <4>3. ran = CASE argc = 0 -> "nothing" [] argc > 0 /\ First -> "command"
                    [] OTHER -> "unknown command"
        BY <3>1, <4>1, <4>2
      <4> QED BY <4>3 DEF First
    <3>7. \A i \in WordStarts :
            LET n == Cardinality({j \in WordStarts : j < i})
            IN  argv[n] = i - 1 /\ StringAt(argv[n]) = WordAt(i)
      BY <3>4 DEF Before
    <3> QED BY <2>3, <3>3, <3>6, <3>7 DEF ArgvIsWords
  <2> QED BY <2>1, <2>2, <2>3 DEF Parsed
<1> QED BY <1>1, MonitorInvariance, PTL

-----------------------------------------------------------------------------
(* Formatted output *)

Pads == {" ", "-", "0"}

\* The printed characters; the provers do not know which strings there are.
Characters == STRING \cup Pads \cup {NUL, Untouched, "x", "e", "m", "X", "%", "(", "n", ")"}
                     \cup {DigitChars[d + 1] : d \in 0 .. 15}

Escapes == [padc : Pads, width : Int, precision : Int, lflag : Nat, altflag : BOOLEAN]
Numbers == [num : Nat, base : {10, 16}, width : Int, padc : Pads, digits : Seq(Characters)]
Calls == [fmt : Formats, int : Int, chr : Characters, star : Int, str : Seq(Characters), n : Int]
Fields == [conv : Characters, esc : Escapes, text : Seq(Characters)]

\* Within an escape there is a percent sign behind, so stepping back ends.
EscapeOpen == at \in {"escape", "digits"} => \E i \in 1 .. fmt - 1 : CharAt(i) = "%"

FormatterTypes ==
  /\ call \in Calls /\ fmt \in Nat \ {0} /\ esc \in Escapes /\ number \in Numbers
  /\ out \in Seq(Characters) /\ field \in Fields
  /\ at \in {"text", "escape", "digits", "number", "done", "refused"}

-----------------------------------------------------------------------------
LEMMA SomeCharacters ==
  /\ NUL \in Characters /\ Untouched \in Characters /\ Pads \subseteq Characters
  /\ "x" \in Characters /\ "e" \in Characters /\ "m" \in Characters /\ "X" \in Characters
  /\ "%" \in Characters /\ "(" \in Characters /\ "n" \in Characters /\ ")" \in Characters
  /\ \A d \in 0 .. 15 : DigitChars[d + 1] \in Characters
  /\ STRING \subseteq Characters
BY Zenon DEF Characters

LEMMA SomeTexts ==
  /\ \A S : <<>> \in Seq(S)
  /\ \A S : \A x \in S : <<x>> \in Seq(S)
  /\ \A S : \A x, y \in S : <<x, y>> \in Seq(S)
  /\ \A S : \A x, y, z \in S : <<x, y, z>> \in Seq(S)
OBVIOUS

LEMMA ArgumentsTyped ==
  ASSUME NEW f \in Formats
  PROVE  /\ f \in Seq(Characters) /\ Len(f) \in Nat /\ DOMAIN f = 1 .. Len(f)
         /\ \A i \in 1 .. Len(f) : f[i] # NUL /\ f[i] \in Characters
<1>1. f \in Seq(Characters) /\ \A i \in DOMAIN f : f[i] # NUL
  <2>1. f \in Seq(STRING) /\ \A i \in DOMAIN f : f[i] # NUL  BY PrintfmtAssumption DEF NUL
  <2> QED BY <2>1, SomeCharacters, SeqMonotonic
<1>2. Len(f) \in Nat /\ DOMAIN f = 1 .. Len(f) /\ \A i \in 1 .. Len(f) : f[i] \in Characters
  BY <1>1, LenProperties, ElementOfSeq
<1> QED BY <1>1, <1>2

LEMMA CharTyped == FormatterTypes => ch \in Characters
<1> SUFFICES ASSUME FormatterTypes PROVE ch \in Characters  OBVIOUS
<1>1. call.fmt \in Formats /\ fmt \in Nat \ {0}
  BY DEF FormatterTypes, Calls
<1>2. fmt <= Len(call.fmt) => call.fmt[fmt] \in Characters
  BY <1>1, ArgumentsTyped
<1> QED BY <1>2, SomeCharacters DEF ch, CharAt

LEMMA CopyTyped ==
  ASSUME NEW c \in Characters, NEW n \in Int
  PROVE  /\ Copy(c, n) \in Seq(Characters) /\ Len(Copy(c, n)) = (IF n > 0 THEN n ELSE 0)
         /\ \A i \in 1 .. n : Copy(c, n)[i] = c
BY DEF Copy

LEMMA OwnDigitTyped ==
  ASSUME number \in Numbers
  PROVE  /\ number.num % number.base \in 0 .. 15 /\ OwnDigit \in Characters /\ <<OwnDigit>> \in Seq(Characters)
         /\ OwnDigit = DigitChars[(number.num % number.base) + 1]
         /\ number.num % number.base < number.base
<1>1. number.num \in Nat /\ number.base \in {10, 16}
  BY DEF Numbers
<1>2. number.num % number.base \in 0 .. 15 /\ number.num % number.base < number.base
  <2>1. CASE number.base = 10  BY <1>1, <2>1
  <2>2. CASE number.base = 16  BY <1>1, <2>2
  <2> QED BY <1>1, <2>1, <2>2
<1>3. OwnDigit \in Characters
  BY <1>2, SomeCharacters DEF OwnDigit
<1> QED BY <1>2, <1>3 DEF OwnDigit

LEMMA DigitIsInt == \A c : DigitValue(c) \in Nat
<1> SUFFICES ASSUME NEW c PROVE DigitValue(c) \in Nat  OBVIOUS
<1>1. CASE \E d \in 0 .. 15 : DigitChars[d + 1] = c
  <2>1. DigitValue(c) \in 0 .. 15  BY <1>1 DEF DigitValue
  <2> QED BY <2>1
<1>2. CASE ~\E d \in 0 .. 15 : DigitChars[d + 1] = c
  BY <1>2 DEF DigitValue
<1> QED BY <1>1, <1>2

-----------------------------------------------------------------------------
LEMMA ModifyTypes ==
  ASSUME FormatterTypes, NEW e \in Escapes, Modify(e, fmt + 1)
  PROVE  FormatterTypes'
BY DEF Modify, FormatterTypes

LEMMA FieldTypes ==
  ASSUME FormatterTypes, NEW text \in Seq(Characters), Field(text)
  PROVE  FormatterTypes'
<1>1. out \o text \in Seq(Characters) /\ fmt + 1 \in Nat \ {0}
  BY ConcatProperties DEF FormatterTypes
<1>2. [conv |-> ch, esc |-> esc, text |-> text] \in Fields
  BY CharTyped DEF FormatterTypes, Fields
<1> QED BY <1>1, <1>2 DEF Field, Putch, FormatterTypes

LEMMA PrintTypes ==
  ASSUME FormatterTypes, NEW lead \in Seq(Characters), NEW num \in Nat, NEW base \in {10, 16},
         NEW width \in Int, NEW padc \in Pads, PrintNumber(lead, num, base, width, padc)
  PROVE  FormatterTypes'
<1>1. out \o lead \in Seq(Characters) /\ fmt + 1 \in Nat \ {0}
  BY ConcatProperties DEF FormatterTypes
<1>2. [conv |-> ch, esc |-> esc, text |-> lead] \in Fields
  BY CharTyped DEF FormatterTypes, Fields
<1>3. [num |-> num, base |-> base, width |-> width, padc |-> padc, digits |-> <<>>] \in Numbers
  BY SomeTexts DEF Numbers
<1> QED BY <1>1, <1>2, <1>3 DEF PrintNumber, Putch, FormatterTypes

\* What is handed to printnum, and what it prints before that.
LEMMA Operands ==
  ASSUME FormatterTypes
  PROVE  /\ call.int \in Int /\ esc.width \in Int /\ esc.padc \in Pads
         /\ \A lflag : Unsigned(call.int, lflag) \in Nat
         /\ call.int < 0 => -call.int \in Nat
         /\ call.int >= 0 => call.int \in Nat
<1>1. call.int \in Int /\ esc.width \in Int /\ esc.padc \in Pads
  BY DEF FormatterTypes, Calls, Escapes
<1>2. \A m \in Nat \ {0} : call.int % m \in Nat
  BY <1>1
<1>3. \A lflag : Unsigned(call.int, lflag) \in Nat
  BY <1>2, PrintfmtAssumption DEF Unsigned
<1> QED BY <1>1, <1>3

\* Which calls of printnum there are.
Printing(lead, num, base, width, padc) ==
  /\ lead \in Seq(Characters) /\ num \in Nat /\ base \in {10, 16} /\ width \in Int /\ padc \in Pads
  /\ PrintNumber(lead, num, base, width, padc)

\* The sign or prefix, the number and the base of a field with conversion c.
SignOf(c) == IF c = "p" THEN <<"0", "x">> ELSE IF c = "d" /\ call.int < 0 THEN <<"-">> ELSE <<>>
OperandOf(c, lflag) == IF c # "d" THEN Unsigned(call.int, IF c = "p" THEN 0 ELSE lflag)
                       ELSE IF call.int < 0 THEN -call.int ELSE call.int
BaseOf(c) == IF c \in {"x", "p"} THEN 16 ELSE 10
Numeric == {"d", "u", "x", "p"}

StringText ==
  LET p == IF call.str = <<>> THEN <<"(", "n", ")">> ELSE call.str
      printed == IF esc.precision < 0 THEN Len(p) ELSE Least(Len(p), esc.precision)
      left == IF esc.width > 0 /\ esc.padc # "-" THEN esc.width - Shown(p) ELSE 0
      right == IF esc.width > 0 /\ esc.padc # "-" THEN 0 ELSE esc.width - printed
  IN  Copy(esc.padc, left)
      \o [i \in 1 .. printed |-> IF esc.altflag /\ ~Printable(p[i]) THEN "?" ELSE p[i]]
      \o Copy(" ", right)

LEMMA StringTextTyped == FormatterTypes => StringText \in Seq(Characters)
<1> SUFFICES ASSUME FormatterTypes PROVE StringText \in Seq(Characters)  OBVIOUS
<1> DEFINE p == IF call.str = <<>> THEN <<"(", "n", ")">> ELSE call.str
           printed == IF esc.precision < 0 THEN Len(p) ELSE Least(Len(p), esc.precision)
           left == IF esc.width > 0 /\ esc.padc # "-" THEN esc.width - Shown(p) ELSE 0
           right == IF esc.width > 0 /\ esc.padc # "-" THEN 0 ELSE esc.width - printed
           shown == [i \in 1 .. printed |-> IF esc.altflag /\ ~Printable(p[i]) THEN "?" ELSE p[i]]
<1>1. esc \in Escapes /\ call.str \in Seq(Characters)
  BY DEF FormatterTypes, Calls
<1>2. p \in Seq(Characters)
  BY <1>1, SomeCharacters, SomeTexts
<1>3. Len(p) \in Nat /\ \A i \in 1 .. Len(p) : p[i] \in Characters
  BY <1>2, LenProperties, ElementOfSeq
<1> HIDE DEF p
<1>4. /\ esc.precision \in Int /\ esc.width \in Int /\ esc.padc \in Characters
  BY <1>1, SomeCharacters DEF Escapes
<1>5. printed \in 0 .. Len(p) /\ Shown(p) \in Int
  BY <1>3, <1>4 DEF Least, Shown
<1>6. left \in Int /\ right \in Int
  BY <1>4, <1>5
<1> HIDE DEF printed, left, right
<1>7. Copy(esc.padc, left) \in Seq(Characters) /\ Copy(" ", right) \in Seq(Characters)
  BY <1>4, <1>6, SomeCharacters, CopyTyped DEF Pads
<1>8. shown \in Seq(Characters)
  <2>1. \A i \in 1 .. printed : (IF esc.altflag /\ ~Printable(p[i]) THEN "?" ELSE p[i]) \in Characters
    <3>1. \A i \in 1 .. printed : p[i] \in Characters  BY <1>3, <1>5
    <3>2. "?" \in Characters  BY SomeCharacters DEF Untouched
    <3> QED BY <3>1, <3>2
  <2>2. printed \in Nat  BY <1>3, <1>5
  <2> HIDE DEF p
  <2> QED BY <2>1, <2>2
<1> HIDE DEF shown
<1>9. (Copy(esc.padc, left) \o shown) \o Copy(" ", right) \in Seq(Characters)
  BY <1>7, <1>8, ConcatProperties
<1> QED BY <1>9 DEF StringText, p, printed, left, right, shown

\* A step within an escape, and a conversion, by what it prints.
Flagged == ch \in Flags /\ \E e \in Escapes : Modify(e, fmt + 1)
Converted == ch \in Conversions \ Numeric /\ ch # "s" /\ \E text \in Seq(Characters) : Field(text)
StringConverted == ch = "s" /\ Field(StringText)
NumberBegun == ch \in Numeric /\ Printing(SignOf(ch), OperandOf(ch, esc.lflag), BaseOf(ch), esc.width, esc.padc)
OtherBegun == /\ ch \in Conversions \ Numeric /\ ch # "s"
              /\ \E lead, num, base, width, padc : Printing(lead, num, base, width, padc)

LEMMA Precision == \A p \in Int : esc \in Escapes => process_precision(p) \in Escapes
<1> SUFFICES ASSUME NEW p \in Int, esc \in Escapes PROVE process_precision(p) \in Escapes
  OBVIOUS
<1>1. [esc EXCEPT !.width = p, !.precision = -1] \in Escapes
  <2>1. \A q \in Int : [esc EXCEPT !.width = p, !.precision = q] \in Escapes  BY DEF Escapes
  <2>2. -1 \in Int  OBVIOUS
  <2> QED BY ONLY <2>1, <2>2, Zenon
<1>2. [esc EXCEPT !.precision = p] \in Escapes
  BY DEF Escapes
<1> QED BY <1>1, <1>2 DEF process_precision

LEMMA Flagging ==
  ASSUME FormatterTypes, PadFlag \/ Star \/ Dot \/ AltFlag \/ LongFlag
  PROVE  Flagged
<1>1. esc \in Escapes /\ call.star \in Int
  BY DEF FormatterTypes, Calls
<1>2. CASE PadFlag
  <2>1. [esc EXCEPT !.padc = ch] \in Escapes  BY <1>1, <1>2 DEF PadFlag, Escapes, Pads
  <2>2. ch \in Flags
    <3>1. DigitChars[1] = "0"  BY DEF DigitChars
    <3> QED BY <1>2, <3>1 DEF PadFlag, Flags, DigitSet
  <2> QED BY <1>2, <2>1, <2>2 DEF PadFlag, Flagged
<1>3. CASE Star
  <2>1. process_precision(call.star) \in Escapes  BY <1>1, Precision
  <2> QED BY <1>3, <2>1 DEF Star, Flagged, Flags
<1>4. CASE Dot
  <2>1. [esc EXCEPT !.width = IF @ < 0 THEN 0 ELSE @] \in Escapes  BY <1>1 DEF Escapes
  <2> QED BY <1>4, <2>1 DEF Dot, Flagged, Flags
<1>5. CASE AltFlag
  <2>1. [esc EXCEPT !.altflag = TRUE] \in Escapes  BY <1>1 DEF Escapes
  <2> QED BY <1>5, <2>1 DEF AltFlag, Flagged, Flags
<1>6. CASE LongFlag
  <2>1. [esc EXCEPT !.lflag = @ + 1] \in Escapes  BY <1>1 DEF Escapes
  <2> QED BY <1>6, <2>1 DEF LongFlag, Flagged, Flags
<1> QED BY <1>2, <1>3, <1>4, <1>5, <1>6

LEMMA Converting ==
  ASSUME FormatterTypes,
         Character \/ Decimal \/ UnsignedDecimal \/ Hexadecimal \/ Pointer \/ ErrorMessage \/ Octal
         \/ Literal \/ String
  PROVE  Converted \/ StringConverted \/ NumberBegun \/ OtherBegun
<1>1. call.chr \in Characters /\ <<call.chr>> \in Seq(Characters)
  BY SomeTexts DEF FormatterTypes, Calls
<1>2. CASE Character
  BY <1>1, <1>2 DEF Character, Converted, Conversions, Numeric
<1>3. CASE Octal
  <2>1. <<"X", "X", "X">> \in Seq(Characters)  BY SomeCharacters, SomeTexts
  <2> QED BY <1>3, <2>1 DEF Octal, Converted, Conversions, Numeric
<1>4. CASE Literal
  <2>1. <<"%">> \in Seq(Characters)  BY SomeCharacters, SomeTexts
  <2> QED BY <1>4, <2>1 DEF Literal, Converted, Conversions, Numeric
<1>5. CASE String
  BY <1>5 DEF String, StringConverted, StringText
<1>6. <<>> \in Seq(Characters) /\ <<"-">> \in Seq(Characters)
  BY SomeCharacters, SomeTexts DEF Pads
<1>7. CASE Decimal
  <2>1. CASE call.int < 0
    <3>1. Printing(<<"-">>, -call.int, 10, esc.width, esc.padc)
      BY <1>6, <1>7, <2>1, Operands DEF Decimal, Printing
    <3> QED BY <1>7, <2>1, <3>1 DEF Decimal, NumberBegun, SignOf, OperandOf, BaseOf, Numeric
  <2>2. CASE ~(call.int < 0)
    <3>1. call.int \in Nat  BY <2>2, Operands
    <3>2. Printing(<<>>, call.int, 10, esc.width, esc.padc)
      BY <1>6, <1>7, <2>2, <3>1, Operands DEF Decimal, Printing
    <3> QED BY <1>7, <2>2, <3>2 DEF Decimal, NumberBegun, SignOf, OperandOf, BaseOf, Numeric
  <2> QED BY <2>1, <2>2
<1>8. CASE UnsignedDecimal
  <2>1. Printing(<<>>, Unsigned(call.int, esc.lflag), 10, esc.width, esc.padc)
    BY <1>6, <1>8, Operands DEF UnsignedDecimal, Printing
  <2> QED BY <1>8, <2>1 DEF UnsignedDecimal, NumberBegun, SignOf, OperandOf, BaseOf, Numeric
<1>9. CASE Hexadecimal
  <2>1. Printing(<<>>, Unsigned(call.int, esc.lflag), 16, esc.width, esc.padc)
    BY <1>6, <1>9, Operands DEF Hexadecimal, Printing
  <2> QED BY <1>9, <2>1 DEF Hexadecimal, NumberBegun, SignOf, OperandOf, BaseOf, Numeric
<1>10. CASE Pointer
  <2>1. <<"0", "x">> \in Seq(Characters)  BY SomeCharacters, SomeTexts DEF Pads
  <2>2. Printing(<<"0", "x">>, Unsigned(call.int, 0), 16, esc.width, esc.padc)
    BY <1>10, <2>1, Operands DEF Pointer, Printing
  <2> QED BY <1>10, <2>2 DEF Pointer, NumberBegun, SignOf, OperandOf, BaseOf, Numeric
<1>11. CASE ErrorMessage
  <2> DEFINE err == IF call.int < 0 THEN -call.int ELSE call.int
  <2>1. ch = "e" /\ IF err \in 1 .. MAXERROR - 1 THEN Field(<<"m">>)
                    ELSE PrintNumber(<<"e", " ">>, err, 10, -1, " ")
    BY <1>11 DEF ErrorMessage
  <2>2. ch \in Conversions \ Numeric /\ ch # "s"
    BY <2>1 DEF Conversions, Numeric
  <2>3. <<"m">> \in Seq(Characters) /\ <<"e", " ">> \in Seq(Characters) /\ " " \in Pads
    BY SomeCharacters, SomeTexts DEF Pads
  <2>4. err \in Nat
    BY Operands
  <2> HIDE DEF err
  <2>5. CASE err \in 1 .. MAXERROR - 1
    BY <2>1, <2>2, <2>3, <2>5 DEF Converted
  <2>6. CASE err \notin 1 .. MAXERROR - 1
    <3>1. Printing(<<"e", " ">>, err, 10, -1, " ")
      <4>1. PrintNumber(<<"e", " ">>, err, 10, -1, " ")  BY <2>1, <2>6
      <4>2. -1 \in Int /\ 10 \in {10, 16}  OBVIOUS
      <4> QED BY <2>3, <2>4, <4>1, <4>2 DEF Printing
    <3> QED BY <2>2, <3>1 DEF OtherBegun
  <2> QED BY <2>5, <2>6
<1> QED BY <1>2, <1>3, <1>4, <1>5, <1>7, <1>8, <1>9, <1>10, <1>11

\* Every step is one of these.
LEMMA Steps ==
  ASSUME FormatterTypes, PrintfmtNext
  PROVE  \/ Text \/ Percent \/ End \/ Number \/ Digit \/ NumberEnd \/ Recurse \/ Unwind \/ Unknown
         \/ Flagged \/ Converted \/ StringConverted \/ NumberBegun \/ OtherBegun
BY Flagging, Converting DEF PrintfmtNext

\* The percent sign the escape began with.
LEMMA PercentBehind ==
  ASSUME FormatterTypes, EscapeOpen, at \in {"escape", "digits"}
  PROVE  /\ LastPercent \in 1 .. fmt - 1 /\ CharAt(LastPercent) = "%"
         /\ \A j \in LastPercent + 1 .. fmt - 1 : CharAt(j) # "%"
<1> DEFINE signs == {i \in 1 .. fmt - 1 : CharAt(i) = "%"}
<1>1. fmt \in Nat \ {0}
  BY DEF FormatterTypes
<1>2. signs \subseteq 0 .. fmt - 1 /\ signs # {} /\ fmt - 1 \in Int
  BY <1>1 DEF EscapeOpen
<1>3. PICK i \in signs : \A j \in signs : j <= i
  <2>1. \A T \in SUBSET (0 .. fmt - 1) : T # {} => \E m \in T : \A n \in T : n <= m
    BY ONLY <1>2, GreatestOf, Zenon
  <2> HIDE DEF signs
  <2> QED BY <1>2, <2>1
<1>4. i \in 1 .. fmt - 1 /\ CharAt(i) = "%"
  OBVIOUS
<1>5. ASSUME NEW j \in i + 1 .. fmt - 1 PROVE CharAt(j) # "%"
  <2>1. ~(j <= i) /\ j \in 1 .. fmt - 1  BY <1>1, <1>4
  <2> QED BY <1>3, <2>1
<1> DEFINE Ending(k) == CharAt(k) = "%" /\ \A j \in k + 1 .. fmt - 1 : CharAt(j) # "%"
<1>6. i \in 1 .. fmt - 1 /\ Ending(i)
  BY <1>4, <1>5
<1> HIDE DEF Ending
<1>7. (CHOOSE k \in 1 .. fmt - 1 : Ending(k)) \in 1 .. fmt - 1 /\ Ending(CHOOSE k \in 1 .. fmt - 1 : Ending(k))
  BY <1>6
<1> QED BY <1>7 DEF LastPercent, Ending

LEMMA TypesKept ==
  ASSUME FormatterTypes, EscapeOpen, PrintfmtNext
  PROVE  FormatterTypes'
<1>1. esc \in Escapes /\ number \in Numbers /\ field \in Fields /\ out \in Seq(Characters)
      /\ fmt + 1 \in Nat \ {0} /\ call \in Calls
  BY DEF FormatterTypes
<1>2. CASE Text
  <2>1. out \o <<ch>> \in Seq(Characters)
    BY <1>1, CharTyped, SomeTexts, ConcatProperties
  <2> QED BY <1>1, <1>2, <2>1 DEF Text, Putch, FormatterTypes
<1>3. CASE Percent
  <2>1. None \in Escapes  BY DEF None, Escapes, Pads
  <2> QED BY <1>1, <1>3, <2>1 DEF Percent, FormatterTypes
<1>4. CASE End
  BY <1>1, <1>4 DEF End, FormatterTypes
<1>5. CASE Number
  <2>1. [esc EXCEPT !.precision = DigitValue(ch)] \in Escapes  BY <1>1, DigitIsInt DEF Escapes
  <2> QED BY <1>1, <1>5, <2>1 DEF Number, FormatterTypes
<1>6. CASE Digit
  <2>1. [esc EXCEPT !.precision = @ * 10 + DigitValue(ch)] \in Escapes  BY <1>1, DigitIsInt DEF Escapes
  <2> QED BY <1>1, <1>6, <2>1 DEF Digit, FormatterTypes
<1>7. CASE NumberEnd
  <2>1. process_precision(esc.precision) \in Escapes  BY <1>1, Precision DEF Escapes
  <2> QED BY <1>1, <1>7, <2>1 DEF NumberEnd, FormatterTypes
<1>8. CASE Recurse
  <2>1. number.num \in Nat /\ number.base \in {10, 16} /\ number.digits \in Seq(Characters)
        /\ number.width \in Int /\ number.padc \in Pads
    BY <1>1 DEF Numbers
  <2>2. number.num \div number.base \in Nat
    <3>1. CASE number.base = 10  BY <2>1, <3>1
    <3>2. CASE number.base = 16  BY <2>1, <3>2
    <3> QED BY <2>1, <3>1, <3>2
  <2>3. <<OwnDigit>> \o number.digits \in Seq(Characters)
    BY <1>1, <2>1, OwnDigitTyped, ConcatProperties
  <2>4. number' \in Numbers
    <3>1. number.width - 1 \in Int  BY <2>1
    <3>2. number' = [number EXCEPT !.num = number.num \div number.base, !.width = number.width - 1,
                                   !.digits = <<OwnDigit>> \o number.digits]
      BY <1>8 DEF Recurse
    <3> QED BY <1>1, <2>2, <2>3, <3>1, <3>2 DEF Numbers
  <2> QED BY <1>1, <1>8, <2>4 DEF Recurse, FormatterTypes
<1>9. CASE Unwind
  <2> DEFINE text == Copy(number.padc, number.width - 1) \o <<OwnDigit>> \o number.digits
  <2>1. number.padc \in Characters /\ number.width - 1 \in Int /\ number.digits \in Seq(Characters)
    BY <1>1, SomeCharacters DEF Numbers
  <2>2. text \in Seq(Characters)
    BY <1>1, <2>1, OwnDigitTyped, CopyTyped, ConcatProperties
  <2> HIDE DEF text
  <2>3. out \o text \in Seq(Characters) /\ field.text \o text \in Seq(Characters)
    BY <1>1, <2>2, ConcatProperties DEF Fields
  <2>4. NoNumber \in Numbers
    BY SomeTexts DEF NoNumber, Numbers, Pads
  <2>5. out' = out \o text /\ field' = [field EXCEPT !.text = @ \o text] /\ number' = NoNumber
        /\ at' = "text" /\ UNCHANGED <<call, fmt, esc>>
    BY <1>9 DEF Unwind, Putch, text
  <2>6. field' \in Fields
    BY <1>1, <2>3, <2>5 DEF Fields
  <2> QED BY <1>1, <2>3, <2>4, <2>5, <2>6 DEF FormatterTypes
<1>10. CASE Unknown
  <2>1. out \o <<"%">> \in Seq(Characters)
    BY <1>1, SomeCharacters, SomeTexts, ConcatProperties
  <2>2. LastPercent + 1 \in Nat \ {0}
    <3>1. LastPercent \in 1 .. fmt - 1 /\ fmt \in Nat
      BY <1>1, <1>10, PercentBehind DEF Unknown, FormatterTypes
    <3> QED BY <3>1
  <2> QED BY <1>1, <1>10, <2>1, <2>2 DEF Unknown, Putch, FormatterTypes
<1>11. CASE Flagged  BY <1>11, ModifyTypes DEF Flagged
<1>12. CASE Converted  BY <1>12, FieldTypes DEF Converted
<1>13. CASE StringConverted  BY <1>13, FieldTypes, StringTextTyped DEF StringConverted
<1>14. CASE NumberBegun  BY <1>14, PrintTypes DEF NumberBegun, Printing
<1>15. CASE OtherBegun  BY <1>15, PrintTypes DEF OtherBegun, Printing
<1> QED BY <1>2, <1>3, <1>4, <1>5, <1>6, <1>7, <1>8, <1>9, <1>10, <1>11, <1>12, <1>13, <1>14,
           <1>15, Steps

LEMMA OpenKept ==
  ASSUME FormatterTypes, EscapeOpen, PrintfmtNext
  PROVE  EscapeOpen'
<1>1. fmt \in Nat \ {0}
  BY DEF FormatterTypes
<1>2. CASE Percent
  <2>1. at = "text" /\ ch = "%" /\ fmt' = fmt + 1 /\ UNCHANGED call
    BY <1>2 DEF Percent
  <2>2. CharAt(fmt)' = CharAt(fmt)'  OBVIOUS
  <2>3. CharAt(fmt) = "%"  BY <2>1 DEF ch
  <2>4. fmt \in 1 .. fmt' - 1  BY <1>1, <2>1
  <2>5. \A i : CharAt(i)' = CharAt(i)  BY <2>1 DEF CharAt
  <2> QED BY <2>3, <2>4, <2>5 DEF EscapeOpen
<1>3. CASE at \in {"escape", "digits"} /\ fmt' \in {fmt, fmt + 1} /\ UNCHANGED call
  <2>1. PICK i \in 1 .. fmt - 1 : CharAt(i) = "%"
    BY <1>3 DEF EscapeOpen
  <2>2. CharAt(i)' = CharAt(i)
    BY <1>3 DEF CharAt
  <2>3. i \in 1 .. fmt' - 1
    <3>1. CASE fmt' = fmt  BY <3>1
    <3>2. CASE fmt' = fmt + 1
      <4>1. fmt' - 1 = fmt  BY <1>1, <3>2
      <4> QED BY <1>1, <4>1
    <3> QED BY <1>3, <3>1, <3>2
  <2> QED BY <2>1, <2>2, <2>3 DEF EscapeOpen
<1>4. CASE at' \notin {"escape", "digits"}
  BY <1>4 DEF EscapeOpen
<1> QED BY <1>2, <1>3, <1>4, Steps
        DEF Text, End, Number, Digit, NumberEnd, Recurse, Unwind, Unknown, Flagged, Converted,
            StringConverted, NumberBegun, OtherBegun, Modify, Field, PrintNumber, Printing

-----------------------------------------------------------------------------
(* The buffer. *)

\* What sprintputch makes of the buffer when it is passed the characters of o.
Buffer(o) ==
  [mem |-> [i \in 0 .. BufBytes - 1 |-> IF i < Least(Len(o), ebuf) THEN o[i + 1] ELSE Untouched],
   pos |-> Least(Len(o), ebuf), cnt |-> Len(o)]

BufferInv ==
  at # "refused" =>
    /\ call.n \in 1 .. BufBytes
    /\ b = IF at = "done" THEN [Buffer(out) EXCEPT !.mem[Least(Len(out), ebuf)] = NUL] ELSE Buffer(out)

LEMMA PutchBuffer ==
  ASSUME out \in Seq(Characters), call.n \in 1 .. BufBytes, b = Buffer(out), UNCHANGED call,
         NEW s \in Seq(Characters), Putch(s)
  PROVE  (b = Buffer(out))'
<1> DEFINE L == Len(out)
           M == Len(s)
           E == call.n - 1
           pos == Least(E, b.pos + M)
<1>1. L \in Nat /\ M \in Nat /\ E \in 0 .. BufBytes - 1 /\ BufBytes \in Nat
  BY LenProperties, PrintfmtAssumption
<1>2. /\ Len(out \o s) = L + M
      /\ \A i \in 1 .. L + M : (out \o s)[i] = IF i <= L THEN out[i] ELSE s[i - L]
  BY ConcatProperties
<1>3. b.pos = Least(L, E) /\ b.cnt = L /\ DOMAIN b.mem = 0 .. BufBytes - 1
      /\ \A i \in 0 .. BufBytes - 1 : b.mem[i] = IF i < Least(L, E) THEN out[i + 1] ELSE Untouched
  BY DEF Buffer, ebuf
<1>4. pos = Least(L + M, E)
  BY <1>1, <1>3 DEF Least
<1>5. out' = out \o s /\ b'.cnt = L + M /\ b'.pos = pos
      /\ b' = [mem |-> [i \in DOMAIN b.mem |->
                          IF i \in b.pos .. pos - 1 THEN s[i - b.pos + 1] ELSE b.mem[i]],
               pos |-> pos, cnt |-> L + M]
  BY <1>3 DEF Putch, ebuf
<1>. /\ b.pos = (IF L < E THEN L ELSE E) /\ pos = (IF L + M < E THEN L + M ELSE E)
     /\ b.pos \in Int /\ pos \in Int
  BY <1>1, <1>3, <1>4 DEF Least
<1> HIDE DEF pos
<1>6. ASSUME NEW i \in 0 .. BufBytes - 1
      PROVE  (IF i \in b.pos .. pos - 1 THEN s[i - b.pos + 1] ELSE b.mem[i])
             = IF i < pos THEN (out \o s)[i + 1] ELSE Untouched
  <2>1. b.mem[i] = IF i < b.pos THEN out[i + 1] ELSE Untouched
    BY <1>3
  <2>2. CASE i < b.pos
    <3>1. i < b.pos /\ i < pos /\ i + 1 \in 1 .. L + M /\ i + 1 <= L
      BY <1>1, <2>2
    <3>2. i \notin b.pos .. pos - 1  BY <2>2
    <3> QED BY <1>2, <2>1, <2>2, <3>1, <3>2
  <2>3. CASE i \in b.pos .. pos - 1
    <3>1. b.pos = L /\ i < pos /\ i + 1 \in 1 .. L + M /\ ~(i + 1 <= L) /\ (i + 1) - L = i - b.pos + 1
      BY <1>1, <2>3, SMTT(20)
    <3> QED BY <1>2, <2>3, <3>1
  <2>4. CASE i >= pos /\ ~(i < b.pos)
    <3>1. i \notin b.pos .. pos - 1 /\ ~(i < pos)
      BY <2>4
    <3> QED BY <2>1, <2>4, <3>1
  <2>5. i < b.pos \/ i \in b.pos .. pos - 1 \/ (i >= pos /\ ~(i < b.pos))
    OBVIOUS
  <2> QED BY <2>2, <2>3, <2>4, <2>5
<1>7. Len(out') = L + M /\ ebuf' = E /\ Least(Len(out'), ebuf') = pos
  BY <1>2, <1>4, <1>5 DEF ebuf
<1>8. b'.mem = [i \in 0 .. BufBytes - 1 |-> IF i < pos THEN out'[i + 1] ELSE Untouched]
  BY <1>3, <1>5, <1>6
<1> DEFINE mem2 == [i \in 0 .. BufBytes - 1 |-> IF i < pos THEN out'[i + 1] ELSE Untouched]
<1>9. Buffer(out)' = [mem |-> mem2, pos |-> pos, cnt |-> L + M]
  BY <1>7 DEF Buffer
<1>10. b' = [mem |-> mem2, pos |-> pos, cnt |-> L + M]
  <2>1. b' = [mem |-> b'.mem, pos |-> pos, cnt |-> L + M]  BY <1>5
  <2> QED BY <1>8, <2>1
<1> QED BY <1>9, <1>10

LEMMA BufferKept ==
  ASSUME FormatterTypes, EscapeOpen, BufferInv, PrintfmtNext
  PROVE  BufferInv'
<1>1. out \in Seq(Characters)
  BY DEF FormatterTypes
<1>2. at \notin {"done", "refused"} /\ UNCHANGED call
  BY Steps
     DEF Text, Percent, End, Number, Digit, NumberEnd, Recurse, Unwind, Unknown, Flagged, Converted,
         StringConverted, NumberBegun, OtherBegun, Modify, Field, PrintNumber, Printing
<1>3. call.n \in 1 .. BufBytes /\ b = Buffer(out)
  BY <1>2 DEF BufferInv
<1>4. CASE End
  <2>1. out' = out /\ at' = "done" /\ b' = [b EXCEPT !.mem[b.pos] = NUL]
    BY <1>4 DEF End
  <2>2. b.pos = Least(Len(out), ebuf)
    BY <1>3 DEF Buffer
  <2>3. Buffer(out)' = Buffer(out) /\ ebuf' = ebuf
    BY <1>2, <2>1 DEF Buffer, ebuf
  <2> QED BY <1>2, <1>3, <2>1, <2>2, <2>3 DEF BufferInv
<1>5. CASE UNCHANGED <<out, b>> /\ at' \notin {"done", "refused"}
  <2>1. Buffer(out)' = Buffer(out)
    BY <1>2, <1>5 DEF Buffer, ebuf
  <2> QED BY <1>2, <1>3, <1>5, <2>1 DEF BufferInv
<1>6. CASE at' \notin {"done", "refused"} /\ \E s \in Seq(Characters) : Putch(s)
  BY <1>1, <1>2, <1>3, <1>6, PutchBuffer DEF BufferInv
<1>7. CASE Unwind
  <2> DEFINE text == Copy(number.padc, number.width - 1) \o <<OwnDigit>> \o number.digits
  <2>1. number \in Numbers  BY DEF FormatterTypes
  <2>2. number.padc \in Characters /\ number.width - 1 \in Int /\ number.digits \in Seq(Characters)
    BY <2>1, SomeCharacters DEF Numbers
  <2>3. text \in Seq(Characters)
    BY <2>1, <2>2, OwnDigitTyped, CopyTyped, ConcatProperties
  <2>4. Putch(text) /\ at' = "text"
    BY <1>7 DEF Unwind
  <2> QED BY <1>6, <2>3, <2>4
<1>8. CASE Text \/ Unknown
  <2>1. <<ch>> \in Seq(Characters) /\ <<"%">> \in Seq(Characters)
    BY CharTyped, SomeCharacters, SomeTexts
  <2>2. (Putch(<<ch>>) \/ Putch(<<"%">>)) /\ at' = "text"
    BY <1>8 DEF Text, Unknown
  <2> QED BY <1>6, <2>1, <2>2
<1>9. CASE Converted \/ StringConverted \/ NumberBegun \/ OtherBegun
  BY <1>6, <1>9, StringTextTyped
     DEF Converted, StringConverted, NumberBegun, OtherBegun, Printing, Field, PrintNumber
<1>10. CASE Percent \/ Number \/ Digit \/ NumberEnd \/ Recurse \/ Flagged
  BY <1>2, <1>5, <1>10 DEF Percent, Number, Digit, NumberEnd, Recurse, Flagged, Modify
<1> QED BY <1>4, <1>7, <1>8, <1>9, <1>10, Steps

-----------------------------------------------------------------------------
(* Strings. *)

StringShape ==
  LET p == IF call.str = <<>> THEN <<"(", "n", ")">> ELSE call.str
      shown == SubSeq(p, 1, IF field.esc.precision < 0 THEN Len(p) ELSE Least(Len(p), field.esc.precision))
      padding == IF field.esc.width > Len(shown) THEN field.esc.width - Len(shown) ELSE 0
  IN  /\ Len(field.text) = padding + Len(shown)
      /\ IF field.esc.padc = "-"
         THEN /\ IsPrefix(shown, field.text)
              /\ \A i \in 1 .. padding : field.text[Len(shown) + i] = " "
         ELSE /\ IsSuffix(shown, field.text)
              /\ \A i \in 1 .. padding : field.text[i] = field.esc.padc

StringInv ==
  /\ at = "number" => field.conv # "s"
  /\ field.conv = "s" /\ ~field.esc.altflag => StringShape

LEMMA PadsAround ==
  ASSUME NEW A \in Seq(Characters), NEW B \in Seq(Characters), NEW C \in Seq(Characters)
  PROVE  /\ Len(A \o B \o C) = Len(A) + Len(B) + Len(C)
         /\ Len(A) = 0 => /\ IsPrefix(B, A \o B \o C)
                          /\ \A i \in 1 .. Len(C) : (A \o B \o C)[Len(B) + i] = C[i]
         /\ Len(C) = 0 => IsSuffix(B, A \o B \o C)
         /\ \A i \in 1 .. Len(A) : (A \o B \o C)[i] = A[i]
<1> DEFINE T == A \o B \o C
           a == Len(A)
           m == Len(B)
           c == Len(C)
<1>1. a \in Nat /\ m \in Nat /\ c \in Nat
  BY LenProperties
<1>2. /\ A \o B \in Seq(Characters) /\ Len(A \o B) = a + m
      /\ \A i \in 1 .. a + m : (A \o B)[i] = IF i <= a THEN A[i] ELSE B[i - a]
  BY ConcatProperties
<1>3. /\ T \in Seq(Characters) /\ Len(T) = (a + m) + c
      /\ \A i \in 1 .. (a + m) + c : T[i] = IF i <= a + m THEN (A \o B)[i] ELSE C[i - (a + m)]
  <2>1. \A D \in Seq(Characters) :
          /\ D \o C \in Seq(Characters) /\ Len(D \o C) = Len(D) + c
          /\ \A i \in 1 .. Len(D) + c : (D \o C)[i] = IF i <= Len(D) THEN D[i] ELSE C[i - Len(D)]
    BY ConcatProperties
  <2> QED BY <1>2, <2>1
<1> HIDE DEF T
<1>4. ASSUME NEW i \in 1 .. m PROVE T[a + i] = B[i]
  <2>1. a + i \in 1 .. (a + m) + c /\ a + i \in 1 .. a + m /\ a + i <= a + m /\ ~(a + i <= a)
        /\ (a + i) - a = i
    BY <1>1
  <2> QED BY <1>2, <1>3, <2>1
<1>5. ASSUME a = 0 PROVE IsPrefix(B, T)
  <2>1. \A i \in 1 .. m : T[i] = B[i]
    BY <1>1, <1>4, <1>5
  <2>2. Len(B) <= Len(T)
    BY <1>1, <1>3
  <2>3. SubSeq(B, 1, Len(B)) = [i \in 1 .. m |-> B[i]] /\ SubSeq(T, 1, Len(B)) = [i \in 1 .. m |-> T[i]]
    BY <1>1
  <2> QED BY <2>1, <2>2, <2>3 DEF IsPrefix
<1>6. ASSUME c = 0 PROVE IsSuffix(B, T)
  <2> DEFINE RB == Reverse(B)
             RT == Reverse(T)
  <2>1. Len(T) = a + m /\ Len(T) \in Nat
    BY <1>1, <1>3, <1>6
  <2>2. RB = [i \in 1 .. m |-> B[(m - i) + 1]] /\ RT = [i \in 1 .. a + m |-> T[((a + m) - i) + 1]]
    BY <2>1 DEF Reverse
  <2>3. Len(RB) = m /\ Len(RT) = a + m
    BY <1>1, <2>2
  <2>4. \A i \in 1 .. m : RB[i] = RT[i]
    <3> SUFFICES ASSUME NEW i \in 1 .. m PROVE RB[i] = RT[i]  OBVIOUS
    <3>1. i \in 1 .. a + m /\ (m - i) + 1 \in 1 .. m /\ a + ((m - i) + 1) = ((a + m) - i) + 1
      BY <1>1
    <3>2. RB[i] = B[(m - i) + 1] /\ RT[i] = T[((a + m) - i) + 1]
      BY <2>2, <3>1
    <3> QED BY <1>4, <3>1, <3>2
  <2>5. SubSeq(RB, 1, m) = [i \in 1 .. m |-> RB[i]] /\ SubSeq(RT, 1, m) = [i \in 1 .. m |-> RT[i]]
    BY <1>1
  <2>6. m <= a + m
    BY <1>1
  <2> HIDE DEF RB, RT
  <2>7. Len(RB) <= Len(RT) /\ SubSeq(RB, 1, Len(RB)) = SubSeq(RT, 1, Len(RB))
    BY <2>3, <2>4, <2>5, <2>6
  <2> QED BY <2>7 DEF IsSuffix, IsPrefix, RB, RT
<1>7. ASSUME a = 0, NEW i \in 1 .. c PROVE T[m + i] = C[i]
  <2>1. m + i \in 1 .. (a + m) + c /\ ~(m + i <= a + m) /\ (m + i) - (a + m) = i
    BY <1>1, <1>7
  <2> QED BY <1>3, <2>1
<1>8. ASSUME NEW i \in 1 .. a PROVE T[i] = A[i]
  <2>1. i \in 1 .. (a + m) + c /\ i \in 1 .. a + m /\ i <= a + m /\ i <= a
    BY <1>1
  <2> QED BY <1>2, <1>3, <2>1
<1> QED BY <1>1, <1>3, <1>5, <1>6, <1>7, <1>8 DEF T

LEMMA StringShaped ==
  ASSUME FormatterTypes, StringConverted, ~esc.altflag
  PROVE  StringShape'
<1> DEFINE p == IF call.str = <<>> THEN <<"(", "n", ")">> ELSE call.str
           printed == IF esc.precision < 0 THEN Len(p) ELSE Least(Len(p), esc.precision)
           left == IF esc.width > 0 /\ esc.padc # "-" THEN esc.width - Shown(p) ELSE 0
           right == IF esc.width > 0 /\ esc.padc # "-" THEN 0 ELSE esc.width - printed
           shown == SubSeq(p, 1, printed)
           A == Copy(esc.padc, left)
           C == Copy(" ", right)
           text == A \o shown \o C
<1>1. /\ call.str \in Seq(Characters) /\ esc.precision \in Int /\ esc.width \in Int
      /\ esc.padc \in Pads /\ esc.padc \in Characters
  BY SomeCharacters DEF FormatterTypes, Calls, Escapes
<1>2. p \in Seq(Characters)
  BY <1>1, SomeCharacters, SomeTexts
<1>3. Len(p) \in Nat /\ \A i \in 1 .. Len(p) : p[i] \in Characters
  BY <1>2, LenProperties, ElementOfSeq
<1>4. field' = [conv |-> "s", esc |-> esc, text |-> StringText] /\ UNCHANGED call
  BY DEF StringConverted, Field
<1> HIDE DEF p
<1>5. printed \in 0 .. Len(p) /\ Shown(p) = printed /\ printed \in Int
  BY <1>1, <1>3 DEF Least, Shown
<1>6. SubSeq(p, 1, printed) = [i \in 1 .. printed |-> p[i]] /\ shown \in Seq(Characters) /\ Len(shown) = printed
  BY <1>3, <1>5
<1>7. text = StringText
  <2>1. [i \in 1 .. printed |-> IF esc.altflag /\ ~Printable(p[i]) THEN "?" ELSE p[i]]
        = [i \in 1 .. printed |-> p[i]]
    OBVIOUS
  <2>2. StringText = A \o [i \in 1 .. printed |-> p[i]] \o C
    BY <2>1 DEF StringText, p
  <2> QED BY <1>6, <2>2
<1> HIDE DEF printed, shown
<1>8. left \in Int /\ right \in Int
  BY <1>1, <1>5
<1>9. A \in Seq(Characters) /\ C \in Seq(Characters)
      /\ Len(A) = (IF left > 0 THEN left ELSE 0) /\ Len(C) = (IF right > 0 THEN right ELSE 0)
      /\ (\A i \in 1 .. Len(A) : A[i] = esc.padc) /\ (\A i \in 1 .. Len(C) : C[i] = " ")
  <2> HIDE DEF left, right
  <2>1. A \in Seq(Characters) /\ C \in Seq(Characters)
        /\ Len(A) = (IF left > 0 THEN left ELSE 0) /\ Len(C) = (IF right > 0 THEN right ELSE 0)
    BY <1>1, <1>8, CopyTyped, SomeCharacters DEF Pads
  <2>2. A = [i \in 1 .. (IF left > 0 THEN left ELSE 0) |-> esc.padc]
        /\ C = [i \in 1 .. (IF right > 0 THEN right ELSE 0) |-> " "]
    BY Zenon DEF Copy
  <2> HIDE DEF A, C
  <2> QED BY <2>1, <2>2, Zenon
<1> HIDE DEF A, C
<1>10. /\ Len(text) = Len(A) + Len(shown) + Len(C)
       /\ Len(A) = 0 => IsPrefix(shown, text) /\ \A i \in 1 .. Len(C) : text[Len(shown) + i] = C[i]
       /\ Len(C) = 0 => IsSuffix(shown, text)
       /\ \A i \in 1 .. Len(A) : text[i] = A[i]
  BY <1>6, <1>9, PadsAround
<1> HIDE DEF text
<1> HIDE DEF left, right
<1>11. /\ Len(text) = Len(A) + Len(shown) + Len(C) /\ Len(shown) = printed
       /\ Len(A) = (IF left > 0 THEN left ELSE 0) /\ Len(C) = (IF right > 0 THEN right ELSE 0)
  BY <1>6, <1>9, <1>10, Zenon
<1>12. esc.width \in Int /\ printed \in Nat
  BY <1>1, <1>3, <1>5
<1>13. IF esc.width > 0 /\ esc.padc # "-"
       THEN left = esc.width - printed /\ right = 0
       ELSE left = 0 /\ right = esc.width - printed
  BY <1>5, Zenon DEF left, right
<1> DEFINE padding == IF esc.width > Len(shown) THEN esc.width - Len(shown) ELSE 0
<1>14. Len(A) + Len(C) = padding
       /\ ((left = 0 => Len(A) = 0 /\ Len(C) = padding) /\ (right = 0 => Len(C) = 0 /\ Len(A) = padding))
  <2>1. \/ left = esc.width - printed /\ right = 0 /\ esc.width > 0
        \/ left = 0 /\ right = esc.width - printed
    BY <1>13, Zenon
  <2>2. left \in Int /\ right \in Int
    BY <1>12, <2>1
  <2> QED BY <1>11, <1>12, <2>1, <2>2
<1>15. Len(text) = padding + Len(shown)
  <2>1. Len(A) \in Nat /\ Len(C) \in Nat
    BY <1>8, <1>11
  <2> QED BY <1>11, <1>12, <1>14, <2>1
<1>16. esc.padc = "-" => left = 0
  BY <1>13, Zenon
<1>17. esc.padc # "-" => right = 0 \/ (left = 0 /\ esc.width <= 0 /\ right = esc.width - printed)
  <2>1. esc.padc # "-" => right = 0 \/ (left = 0 /\ ~(esc.width > 0) /\ right = esc.width - printed)
    BY <1>13, Zenon
  <2>2. ~(esc.width > 0) => esc.width <= 0
    BY <1>12
  <2> QED BY <2>1, <2>2, Zenon
<1>18. esc.padc # "-" => Len(C) = 0 /\ Len(A) = padding
  <2>1. CASE right = 0
    BY <1>14, <2>1, Zenon
  <2>2. CASE left = 0 /\ esc.width <= 0 /\ right = esc.width - printed
    BY <1>11, <1>12, <2>2
  <2> QED BY <1>17, <2>1, <2>2, Zenon
<1> HIDE DEF padding
<1>19. IF esc.padc = "-"
       THEN IsPrefix(shown, text) /\ \A i \in 1 .. padding : text[Len(shown) + i] = " "
       ELSE IsSuffix(shown, text) /\ \A i \in 1 .. padding : text[i] = esc.padc
  <2>1. CASE esc.padc = "-"
    <3>1. Len(A) = 0 /\ Len(C) = padding
      BY <1>14, <1>16, <2>1, Zenon
    <3>2. \A i \in 1 .. padding : text[Len(shown) + i] = C[i] /\ C[i] = " "
      BY <1>9, <1>10, <3>1, Zenon
    <3> QED BY <1>10, <2>1, <3>1, <3>2, Zenon
  <2>2. CASE esc.padc # "-"
    <3>1. \A i \in 1 .. padding : text[i] = A[i] /\ A[i] = esc.padc
      BY <1>9, <1>10, <1>18, <2>2, Zenon
    <3> QED BY <1>10, <1>18, <2>2, <3>1, Zenon
  <2> QED BY <2>1, <2>2, Zenon
<1>20. field'.text = text /\ field'.esc = esc /\ call' = call
  BY <1>4, <1>7
<1> QED BY <1>15, <1>19, <1>20, Zenon DEF StringShape, p, printed, shown, padding

LEMMA StringKept ==
  ASSUME FormatterTypes, StringInv, PrintfmtNext
  PROVE  StringInv'
<1>1. UNCHANGED call
  BY Steps
     DEF Text, Percent, End, Number, Digit, NumberEnd, Recurse, Unwind, Unknown, Flagged, Converted,
         StringConverted, NumberBegun, OtherBegun, Modify, Field, PrintNumber, Printing
<1>2. CASE UNCHANGED field /\ (at' = "number" => at = "number")
  BY <1>1, <1>2 DEF StringInv, StringShape
<1>3. CASE Unwind
  <2>1. at = "number" /\ at' = "text" /\ field'.conv = field.conv
    BY <1>3 DEF Unwind, FormatterTypes, Fields
  <2> QED BY <2>1 DEF StringInv
<1>4. CASE StringConverted
  <2>1. at' = "text" /\ field'.esc = esc
    BY <1>4 DEF StringConverted, Field
  <2> QED BY <1>4, <2>1, StringShaped DEF StringInv
<1>5. CASE Converted \/ NumberBegun \/ OtherBegun
  <2>1. field'.conv # "s"
    BY <1>5 DEF Converted, NumberBegun, OtherBegun, Numeric, Field, PrintNumber, Printing
  <2> QED BY <2>1 DEF StringInv
<1> QED BY <1>2, <1>3, <1>4, <1>5, Steps
        DEF Text, Percent, End, Number, Digit, NumberEnd, Recurse, Unknown, Flagged, Modify

-----------------------------------------------------------------------------
(* A format without a conversion. *)

Only(p) ==
  /\ p \in 1 .. Len(call.fmt) /\ call.fmt[p] = "%"
  /\ \A i \in 1 .. Len(call.fmt) : i # p => call.fmt[i] \notin Conversions

\* Within the escape what precedes its percent sign is printed, outside all
\* that was read.
LiteralInv ==
  \A p : Only(p) =>
    /\ at = "text" => fmt \in 1 .. Len(call.fmt) + 1 /\ out = SubSeq(call.fmt, 1, fmt - 1)
    /\ at \in {"escape", "digits"} =>
         fmt \in p + 1 .. Len(call.fmt) + 1 /\ out = SubSeq(call.fmt, 1, p - 1)
    /\ at # "number"
    /\ at = "done" => out = call.fmt

LEMMA Grown ==
  ASSUME NEW f \in Seq(Characters), NEW i \in 1 .. Len(f)
  PROVE  SubSeq(f, 1, i - 1) \o <<f[i]>> = SubSeq(f, 1, i)
<1>1. Len(f) \in Nat /\ f[i] \in Characters
  BY LenProperties, ElementOfSeq
<1>2. 1 \in 1 .. Len(f) /\ i \in 1 .. Len(f)
  BY <1>1
<1> QED BY <1>2, SubSeqRecursiveSecond

LEMMA LiteralKept ==
  ASSUME FormatterTypes, EscapeOpen, LiteralInv, PrintfmtNext
  PROVE  LiteralInv'
<1> SUFFICES ASSUME NEW p, Only(p)'
             PROVE  /\ at' = "text" => fmt' \in 1 .. Len(call'.fmt) + 1 /\ out' = SubSeq(call'.fmt, 1, fmt' - 1)
                    /\ at' \in {"escape", "digits"} =>
                         fmt' \in p + 1 .. Len(call'.fmt) + 1 /\ out' = SubSeq(call'.fmt, 1, p - 1)
                    /\ at' # "number"
                    /\ at' = "done" => out' = call'.fmt
  BY DEF LiteralInv
<1> DEFINE F == call.fmt
           N == Len(F)
<1>1. UNCHANGED call
  BY Steps
     DEF Text, Percent, End, Number, Digit, NumberEnd, Recurse, Unwind, Unknown, Flagged, Converted,
         StringConverted, NumberBegun, OtherBegun, Modify, Field, PrintNumber, Printing
<1>2. Only(p)
  BY <1>1 DEF Only
<1>3. /\ at = "text" => fmt \in 1 .. N + 1 /\ out = SubSeq(F, 1, fmt - 1)
      /\ at \in {"escape", "digits"} => fmt \in p + 1 .. N + 1 /\ out = SubSeq(F, 1, p - 1)
      /\ at # "number"
  BY <1>2 DEF LiteralInv
<1>4. F \in Seq(Characters) /\ N \in Nat /\ \A i \in 1 .. N : F[i] # NUL
  BY ArgumentsTyped DEF FormatterTypes, Calls
<1>5. p \in 1 .. N /\ F[p] = "%" /\ \A i \in 1 .. N : i # p => F[i] \notin Conversions
  BY <1>2 DEF Only
<1>6. at # "idle" /\ fmt \in Nat
  BY DEF FormatterTypes
<1>7. ch = IF fmt <= N THEN F[fmt] ELSE NUL
  BY <1>6 DEF ch, CharAt
<1>8. ch # NUL => fmt <= N /\ ch = F[fmt]
  BY <1>7
<1>9. at \in {"escape", "digits"} => ch \notin Conversions
  <2>1. NUL \notin Conversions  BY DEF NUL, Conversions
  <2>2. at \in {"escape", "digits"} /\ fmt <= N => fmt \in 1 .. N /\ fmt # p  BY <1>3, <1>4, <1>5
  <2> QED BY <1>5, <1>7, <2>1, <2>2
<1> HIDE DEF F, N
<1>10. \A i \in 1 .. N : SubSeq(F, 1, i - 1) \o <<F[i]>> = SubSeq(F, 1, i)
  BY <1>4, Grown DEF N
<1>11. CASE Text
  <2>1. at = "text" /\ at' = "text" /\ fmt' = fmt + 1 /\ out' = out \o <<ch>> /\ ch # NUL
    BY <1>11 DEF Text, Putch
  <2>2. fmt \in 1 .. N /\ ch = F[fmt] /\ out = SubSeq(F, 1, fmt - 1)
    BY <1>3, <1>4, <1>8, <2>1
  <2>3. out' = SubSeq(F, 1, fmt) /\ fmt' - 1 = fmt /\ fmt' \in 1 .. N + 1
    BY <1>4, <1>10, <2>1, <2>2
  <2> QED BY <1>1, <2>1, <2>3 DEF F, N
<1>12. CASE Percent
  <2>1. at = "text" /\ at' = "escape" /\ fmt' = fmt + 1 /\ out' = out /\ ch = "%"
    BY <1>12 DEF Percent
  <2>2. ch # NUL /\ "%" \in Conversions
    BY <2>1 DEF NUL, Conversions
  <2>3. fmt = p /\ out = SubSeq(F, 1, fmt - 1)
    BY <1>3, <1>4, <1>5, <1>8, <2>1, <2>2
  <2>4. fmt' \in p + 1 .. N + 1
    BY <1>4, <1>5, <2>1, <2>3
  <2> QED BY <1>1, <2>1, <2>3, <2>4 DEF F, N
<1>13. CASE End
  <2>1. at = "text" /\ at' = "done" /\ out' = out /\ ch = NUL
    BY <1>13 DEF End
  <2>2. fmt = N + 1
    BY <1>3, <1>4, <1>7, <2>1
  <2>3. out = SubSeq(F, 1, N)
    BY <1>3, <1>4, <2>1, <2>2
  <2>4. SubSeq(F, 1, N) = F
    BY <1>4, SubSeqFull DEF N
  <2> QED BY <1>1, <2>1, <2>3, <2>4 DEF F, N
<1>14. CASE Number \/ Digit \/ NumberEnd \/ Flagged
  <2>1. at \in {"escape", "digits"} /\ at' \in {"escape", "digits"} /\ out' = out
        /\ (fmt' = fmt \/ (fmt' = fmt + 1 /\ ch \in Flags))
    BY <1>14 DEF Number, Digit, NumberEnd, Flagged, Modify, Flags
  <2>2. NUL \notin Flags
    <3>1. \A d \in 1 .. 10 : DigitChars[d] # NUL  BY DEF DigitChars, NUL
    <3> QED BY <3>1 DEF Flags, DigitSet, NUL
  <2>3. fmt' \in p + 1 .. N + 1
    <3>1. CASE fmt' = fmt  BY <1>3, <2>1, <3>1
    <3>2. CASE fmt' = fmt + 1 /\ ch \in Flags
      <4>1. fmt <= N  BY <1>8, <2>2, <3>2
      <4> QED BY <1>3, <1>4, <1>5, <2>1, <3>2, <4>1
    <3> QED BY <2>1, <3>1, <3>2
  <2> QED BY <1>1, <1>3, <2>1, <2>3 DEF F, N
<1>15. CASE Unknown
  <2>1. at = "escape" /\ at' = "text" /\ fmt' = LastPercent + 1 /\ out' = out \o <<"%">>
    BY <1>15 DEF Unknown, Putch
  <2>2. LastPercent \in 1 .. fmt - 1 /\ CharAt(LastPercent) = "%"
    BY <2>1, PercentBehind
  <2>3. LastPercent \in 1 .. N /\ F[LastPercent] = "%"
    <3>1. LastPercent \in 1 .. N  BY <1>3, <1>4, <1>5, <2>1, <2>2
    <3> QED BY <1>4, <2>2, <3>1 DEF CharAt, F, N
  <2>4. LastPercent = p
    BY <1>5, <2>3 DEF Conversions
  <2>5. fmt' = p + 1 /\ out' = SubSeq(F, 1, p) /\ fmt' - 1 = p /\ fmt' \in 1 .. N + 1
    BY <1>3, <1>4, <1>5, <1>10, <2>1, <2>4
  <2> QED BY <1>1, <2>1, <2>5 DEF F, N
<1>16. CASE Recurse \/ Unwind
  BY <1>3, <1>16 DEF Recurse, Unwind
<1>17. CASE Converted \/ StringConverted \/ NumberBegun \/ OtherBegun
  <2>1. at = "escape" /\ ch \in Conversions
    BY <1>17 DEF Converted, StringConverted, NumberBegun, OtherBegun, Numeric, Conversions,
                 Field, PrintNumber, Printing
  <2> QED BY <1>9, <2>1
<1> QED BY <1>11, <1>12, <1>13, <1>14, <1>15, <1>16, <1>17, Steps

-----------------------------------------------------------------------------
(* Numbers. *)

\* f reads the digits of s up to each of them, from acc on.
Upto(f, n, s, base, acc) ==
  f = [i \in 0 .. n |-> IF i = 0 THEN acc ELSE f[i - 1] * base + DigitValue(s[i])]
Reads(f, s, base, acc) == Upto(f, Len(s), s, base, acc)
ValueFrom(s, base, acc) == (CHOOSE f : Reads(f, s, base, acc))[Len(s)]

LEMMA UptoExists ==
  ASSUME NEW s, NEW base, NEW acc
  PROVE  \A n \in Nat : \E f : Upto(f, n, s, base, acc)
<1> DEFINE bad == {n \in Nat : ~\E f : Upto(f, n, s, base, acc)}
<1> SUFFICES ASSUME bad # {} PROVE FALSE
  OBVIOUS
<1>1. PICK n \in bad : \A k \in bad : n <= k
  BY LeastOf
<1>2. n \in Nat /\ ~\E f : Upto(f, n, s, base, acc)
  OBVIOUS
<1>3. CASE n = 0
  <2> DEFINE f == [i \in 0 .. 0 |-> acc]
  <2>1. f = [i \in 0 .. 0 |-> IF i = 0 THEN acc ELSE f[i - 1] * base + DigitValue(s[i])]
    OBVIOUS
  <2> QED BY <1>2, <1>3, <2>1 DEF Upto
<1>4. CASE n # 0
  <2>1. n - 1 \in Nat /\ ~(n <= n - 1)
    BY <1>2, <1>4
  <2>2. PICK f : Upto(f, n - 1, s, base, acc)
    BY <1>1, <2>1
  <2> DEFINE g == [i \in 0 .. n |-> IF i = 0 THEN acc
                                    ELSE IF i = n THEN f[n - 1] * base + DigitValue(s[n]) ELSE f[i]]
  <2>3. ASSUME NEW i \in 0 .. n
        PROVE  g[i] = IF i = 0 THEN acc ELSE g[i - 1] * base + DigitValue(s[i])
    <3>1. CASE i = 0  BY <3>1
    <3>2. CASE i # 0
      <4>1. i - 1 \in 0 .. n - 1 /\ i - 1 \in 0 .. n /\ i - 1 # n
        BY <1>2, <3>2
      <4>2. \A k \in 0 .. n - 1 : f[k] = IF k = 0 THEN acc ELSE f[k - 1] * base + DigitValue(s[k])
        BY <2>2 DEF Upto
      <4>3. g[i - 1] = f[i - 1]
        <5>1. f[0] = acc  BY <2>1, <4>2
        <5> QED BY <4>1, <5>1
      <4>4. CASE i = n  BY <3>2, <4>3, <4>4
      <4>5. CASE i # n
        <5>1. i \in 0 .. n - 1  BY <1>2, <4>5
        <5> QED BY <3>2, <4>2, <4>3, <4>5, <5>1
      <4> QED BY <4>4, <4>5
    <3> QED BY <3>1, <3>2
  <2>4. g = [i \in 0 .. n |-> g[i]]
    OBVIOUS
  <2> HIDE DEF g
  <2>5. g = [i \in 0 .. n |-> IF i = 0 THEN acc ELSE g[i - 1] * base + DigitValue(s[i])]
    BY <2>3, <2>4
  <2> QED BY <1>2, <2>5 DEF Upto
<1> QED BY <1>3, <1>4

LEMMA UptoUnique ==
  ASSUME NEW s, NEW base, NEW acc, NEW n \in Nat, NEW f, NEW g,
         Upto(f, n, s, base, acc), Upto(g, n, s, base, acc)
  PROVE  f = g
<1> DEFINE bad == {i \in 0 .. n : f[i] # g[i]}
<1>1. /\ \A i \in 0 .. n : f[i] = IF i = 0 THEN acc ELSE f[i - 1] * base + DigitValue(s[i])
      /\ \A i \in 0 .. n : g[i] = IF i = 0 THEN acc ELSE g[i - 1] * base + DigitValue(s[i])
      /\ f = [i \in 0 .. n |-> f[i]] /\ g = [i \in 0 .. n |-> g[i]]
  BY DEF Upto
<1>2. bad = {}
  <2> SUFFICES ASSUME bad # {} PROVE FALSE  OBVIOUS
  <2>1. PICK i \in bad : \A k \in bad : i <= k
    <3>1. bad \subseteq Nat  OBVIOUS
    <3> HIDE DEF bad
    <3> QED BY <3>1, LeastOf
  <2>2. i \in 0 .. n /\ f[i] # g[i]
    OBVIOUS
  <2>3. i # 0
    BY <1>1, <2>2
  <2>4. i - 1 \in 0 .. n /\ ~(i <= i - 1)
    BY <2>2, <2>3
  <2>5. f[i - 1] = g[i - 1]
    BY <2>1, <2>4
  <2> QED BY <1>1, <2>2, <2>3, <2>5
<1> QED BY <1>1, <1>2

LEMMA ValueFromIs ==
  ASSUME NEW s, Len(s) \in Nat, NEW base, NEW acc, NEW f, Reads(f, s, base, acc)
  PROVE  ValueFrom(s, base, acc) = f[Len(s)]
<1>1. Reads(CHOOSE g : Reads(g, s, base, acc), s, base, acc)
  OBVIOUS
<1>2. (CHOOSE g : Reads(g, s, base, acc)) = f
  BY <1>1, UptoUnique DEF Reads
<1> QED BY <1>2 DEF ValueFrom

LEMMA ValueIs == \A s, base : Value(s, base) = ValueFrom(s, base, 0)
BY Zenon DEF Value, ValueFrom, Reads, Upto

LEMMA ValueOfNone ==
  ASSUME NEW base, NEW acc
  PROVE  ValueFrom(<<>>, base, acc) = acc
<1> DEFINE f == [i \in 0 .. 0 |-> acc]
<1>1. f = [i \in 0 .. 0 |-> IF i = 0 THEN acc ELSE f[i - 1] * base + DigitValue(<<>>[i])]
  OBVIOUS
<1>2. Len(<<>>) = 0 /\ Reads(f, <<>>, base, acc)
  BY <1>1 DEF Reads, Upto
<1> QED BY <1>2, ValueFromIs

\* Reading a digit and then the others.
LEMMA ValueOfMore ==
  ASSUME NEW c \in Characters, NEW s \in Seq(Characters), NEW base, NEW acc
  PROVE  ValueFrom(<<c>> \o s, base, acc) = ValueFrom(s, base, acc * base + DigitValue(c))
<1> DEFINE t == <<c>> \o s
           n == Len(s)
           acc2 == acc * base + DigitValue(c)
<1>1. n \in Nat
  BY LenProperties
<1>2. Len(t) = n + 1 /\ t[1] = c /\ \A i \in 1 .. n : t[i + 1] = s[i]
  <2>1. <<c>> \in Seq(Characters) /\ Len(<<c>>) = 1 /\ <<c>>[1] = c  OBVIOUS
  <2>2. Len(t) = 1 + n /\ \A i \in 1 .. 1 + n : t[i] = IF i <= 1 THEN <<c>>[i] ELSE s[i - 1]
    BY <2>1, ConcatProperties
  <2>3. t[1] = c  BY <1>1, <2>1, <2>2
  <2>4. ASSUME NEW i \in 1 .. n PROVE t[i + 1] = s[i]
    <3>1. i + 1 \in 1 .. 1 + n /\ ~(i + 1 <= 1) /\ (i + 1) - 1 = i  BY <1>1
    <3> QED BY <2>2, <3>1
  <2> QED BY <1>1, <2>2, <2>3, <2>4
<1> HIDE DEF t
<1>3. PICK f : Upto(f, n + 1, t, base, acc)
  <2>1. \A k \in Nat : \E f : Upto(f, k, t, base, acc)
    BY UptoExists
  <2>2. n + 1 \in Nat
    BY <1>1
  <2> QED BY ONLY <2>1, <2>2, Zenon
<1>4. \A i \in 0 .. n + 1 : f[i] = IF i = 0 THEN acc ELSE f[i - 1] * base + DigitValue(t[i])
  BY <1>3 DEF Upto
<1> DEFINE g == [i \in 0 .. n |-> f[i + 1]]
<1>5. ASSUME NEW i \in 0 .. n
      PROVE  g[i] = IF i = 0 THEN acc2 ELSE g[i - 1] * base + DigitValue(s[i])
  <2>1. CASE i = 0
    <3>1. f[0] = acc /\ f[1] = f[0] * base + DigitValue(t[1])
      <4>1. 0 \in 0 .. n + 1 /\ 1 \in 0 .. n + 1 /\ 1 - 1 = 0  BY <1>1
      <4> QED BY <1>4, <4>1
    <3> QED BY <1>2, <2>1, <3>1
  <2>2. CASE i # 0
    <3>1. i + 1 \in 0 .. n + 1 /\ i + 1 # 0 /\ (i + 1) - 1 = i /\ i \in 1 .. n /\ i - 1 \in 0 .. n
          /\ (i - 1) + 1 = i
      BY <1>1, <2>2
    <3>2. f[i + 1] = f[i] * base + DigitValue(s[i])
      BY <1>2, <1>4, <3>1
    <3>3. g[i] = f[i + 1] /\ g[i - 1] = f[i]
      BY <3>1
    <3> QED BY <2>2, <3>2, <3>3
  <2> QED BY <2>1, <2>2
<1>6. g = [i \in 0 .. n |-> g[i]] /\ g[n] = f[n + 1]
  BY <1>1
<1> HIDE DEF g
<1>7. Reads(g, s, base, acc2)
  BY <1>5, <1>6 DEF Reads, Upto
<1>8. Reads(f, t, base, acc)
  BY <1>2, <1>3 DEF Reads
<1>9. Len(t) \in Nat
  BY <1>1, <1>2
<1> HIDE DEF acc2
<1>10. ValueFrom(t, base, acc) = f[n + 1] /\ ValueFrom(s, base, acc2) = g[n]
  BY <1>1, <1>2, <1>7, <1>8, <1>9, ValueFromIs
<1> QED BY <1>6, <1>10 DEF t, acc2

DigitsOf(s, base) == \A i \in 1 .. Len(s) : \E d \in 0 .. base - 1 : s[i] = DigitChars[d + 1]

\* In the innermost call so far, the number still to print followed by the
\* callers' digits is the one vprintfmt was given.
Begun ==
  LET c == field.conv IN
    /\ field.text = SignOf(c)
    /\ number.base = BaseOf(c) /\ number.padc = field.esc.padc
    /\ number.width = field.esc.width - Len(number.digits)
    /\ ValueFrom(number.digits, number.base, number.num) = OperandOf(c, field.esc.lflag)
    /\ DigitsOf(number.digits, number.base)
    /\ Len(number.digits) > 0 => number.num > 0

NumberShape ==
  LET c == field.conv IN
    \E s \in Seq(Characters) :
      /\ Len(s) > 0 /\ DigitsOf(s, BaseOf(c)) /\ (Len(s) > 1 => s[1] # "0")
      /\ ValueFrom(s, BaseOf(c), 0) = OperandOf(c, field.esc.lflag)
      /\ field.text = SignOf(c) \o (Copy(field.esc.padc, field.esc.width - Len(s)) \o s)

NumberInv ==
  field.conv \in Numeric => IF at = "number" THEN Begun ELSE NumberShape

LEMMA DigitDiffers ==
  /\ \A d, e \in 0 .. 15 : DigitChars[d + 1] = DigitChars[e + 1] => d = e
  /\ \A d \in 0 .. 15 : DigitChars[d + 1] # " " /\ (DigitChars[d + 1] = "0" => d = 0)
BY DEF DigitChars

LEMMA ValueOfDigit == \A d \in 0 .. 15 : DigitValue(DigitChars[d + 1]) = d
<1> SUFFICES ASSUME NEW d \in 0 .. 15 PROVE DigitValue(DigitChars[d + 1]) = d  OBVIOUS
<1> DEFINE Is(e) == DigitChars[e + 1] = DigitChars[d + 1]
<1>1. Is(d) /\ \A e \in 0 .. 15 : Is(e) => e = d
  BY DigitDiffers
<1> HIDE DEF Is
<1>2. (CHOOSE e \in 0 .. 15 : Is(e)) = d
  BY <1>1
<1>3. DigitValue(DigitChars[d + 1]) = IF \E e \in 0 .. 15 : Is(e) THEN CHOOSE e \in 0 .. 15 : Is(e) ELSE 99
  BY DEF DigitValue, Is
<1> QED BY <1>1, <1>2, <1>3

\* The digit of the innermost call before those of its callers.
LEMMA OneMoreDigit ==
  ASSUME number \in Numbers, DigitsOf(number.digits, number.base)
  PROVE  LET s == <<OwnDigit>> \o number.digits IN
         /\ s \in Seq(Characters) /\ Len(s) = Len(number.digits) + 1 /\ s[1] = OwnDigit
         /\ DigitsOf(s, number.base)
         /\ \A acc : ValueFrom(s, number.base, acc)
                     = ValueFrom(number.digits, number.base, acc * number.base + (number.num % number.base))
<1> DEFINE own == number.num % number.base
           s == <<OwnDigit>> \o number.digits
           n == Len(number.digits)
<1>1. /\ number.digits \in Seq(Characters) /\ number.base \in {10, 16} /\ number.num \in Nat
  BY DEF Numbers
<1>2. /\ own \in 0 .. number.base - 1 /\ own \in 0 .. 15 /\ OwnDigit \in Characters
      /\ OwnDigit = DigitChars[own + 1]
  BY <1>1, OwnDigitTyped
<1>3. DigitValue(OwnDigit) = own
  BY <1>2, ValueOfDigit
<1>4. /\ <<OwnDigit>> \in Seq(Characters) /\ Len(<<OwnDigit>>) = 1 /\ <<OwnDigit>>[1] = OwnDigit
      /\ n \in Nat
  BY <1>1, <1>2, LenProperties
<1> HIDE DEF own
<1>5. s \in Seq(Characters) /\ Len(s) = 1 + n
      /\ \A i \in 1 .. 1 + n : s[i] = IF i <= 1 THEN <<OwnDigit>>[i] ELSE number.digits[i - 1]
  BY <1>1, <1>4, ConcatProperties
<1>6. s[1] = OwnDigit /\ Len(s) = n + 1
  BY <1>4, <1>5
<1>7. DigitsOf(s, number.base)
  <2> SUFFICES ASSUME NEW i \in 1 .. Len(s)
               PROVE  \E d \in 0 .. number.base - 1 : s[i] = DigitChars[d + 1]
    BY DEF DigitsOf
  <2>1. CASE i = 1
    BY <1>2, <1>6, <2>1
  <2>2. CASE i # 1
    <3>1. i - 1 \in 1 .. n /\ ~(i <= 1) /\ i \in 1 .. 1 + n  BY <1>4, <1>5, <2>2
    <3>2. s[i] = number.digits[i - 1]  BY <1>5, <3>1
    <3> QED BY <3>1, <3>2 DEF DigitsOf
  <2> QED BY <2>1, <2>2
<1>8. ASSUME NEW acc
      PROVE  ValueFrom(s, number.base, acc) = ValueFrom(number.digits, number.base, acc * number.base + own)
  BY <1>1, <1>2, <1>3, ValueOfMore
<1> QED BY <1>5, <1>6, <1>7, <1>8 DEF own

LEMMA RecurseNumber ==
  ASSUME FormatterTypes, Begun, Recurse, field.conv \in Numeric
  PROVE  Begun' /\ at' = "number" /\ field' = field
<1> DEFINE s == <<OwnDigit>> \o number.digits
           quotient == number.num \div number.base
<1>1. number \in Numbers /\ DigitsOf(number.digits, number.base)
  BY DEF FormatterTypes, Begun
<1>2. number.num \in Nat /\ number.base \in {10, 16} /\ number.width \in Int /\ Len(number.digits) \in Nat
  BY <1>1, LenProperties DEF Numbers
<1>3. /\ number.num >= number.base /\ UNCHANGED <<call, at, fmt, esc, out, b, field>> /\ at = "number"
      /\ number' = [number EXCEPT !.num = quotient, !.width = number.width - 1, !.digits = s]
  BY DEF Recurse
<1>4. number'.num = quotient /\ number'.base = number.base /\ number'.width = number.width - 1
      /\ number'.padc = number.padc /\ number'.digits = s
  BY <1>1, <1>3 DEF Numbers
<1>5. quotient * number.base + (number.num % number.base) = number.num /\ quotient > 0
  <2>1. CASE number.base = 10  BY <1>2, <1>3, <2>1
  <2>2. CASE number.base = 16  BY <1>2, <1>3, <2>2
  <2> QED BY <1>2, <2>1, <2>2
<1>6. /\ Len(s) = Len(number.digits) + 1 /\ DigitsOf(s, number.base)
      /\ ValueFrom(s, number.base, quotient)
         = ValueFrom(number.digits, number.base, quotient * number.base + (number.num % number.base))
  BY <1>1, OneMoreDigit
<1> HIDE DEF s, quotient
<1>7. ValueFrom(s, number.base, quotient) = ValueFrom(number.digits, number.base, number.num)
  BY <1>5, <1>6
<1>8. field.esc.width \in Int
  BY DEF FormatterTypes, Fields, Escapes
<1>9. number.width - 1 = field.esc.width - Len(s)
  <2>1. number.width = field.esc.width - Len(number.digits)  BY DEF Begun
  <2> QED BY <1>2, <1>6, <1>8, <2>1
<1>10. SignOf(field.conv)' = SignOf(field.conv) /\ BaseOf(field.conv)' = BaseOf(field.conv)
       /\ OperandOf(field.conv, field.esc.lflag)' = OperandOf(field.conv, field.esc.lflag)
  BY <1>3 DEF SignOf, BaseOf, OperandOf, Unsigned
<1> QED BY <1>3, <1>4, <1>5, <1>6, <1>7, <1>9, <1>10 DEF Begun

LEMMA UnwindNumber ==
  ASSUME FormatterTypes, Begun, Unwind, field.conv \in Numeric
  PROVE  NumberShape' /\ at' = "text" /\ field'.conv = field.conv
<1> DEFINE s == <<OwnDigit>> \o number.digits
<1>1. number \in Numbers /\ DigitsOf(number.digits, number.base) /\ field \in Fields
  BY DEF FormatterTypes, Begun
<1>2. number.num \in Nat /\ number.base \in {10, 16} /\ number.width \in Int /\ Len(number.digits) \in Nat
      /\ number.padc \in Characters /\ number.digits \in Seq(Characters)
  BY <1>1, LenProperties, SomeCharacters DEF Numbers
<1> DEFINE A == Copy(number.padc, number.width - 1)
           text == A \o <<OwnDigit>> \o number.digits
<1>3. /\ number.num < number.base /\ at = "number" /\ at' = "text" /\ UNCHANGED <<call, fmt, esc>>
      /\ field' = [field EXCEPT !.text = @ \o text]
  BY DEF Unwind
<1>4. field'.conv = field.conv /\ field'.esc = field.esc /\ field'.text = field.text \o text
  BY <1>1, <1>3 DEF Fields
<1>5. A \in Seq(Characters)
  BY <1>2, CopyTyped
<1>6. <<OwnDigit>> \in Seq(Characters)
  BY <1>1, OwnDigitTyped
<1>7. text = A \o s
  <2>1. \A u, v, w \in Seq(Characters) : (u \o v) \o w = u \o (v \o w)
    BY ConcatAssociative
  <2> HIDE DEF A
  <2> QED BY <1>2, <1>5, <1>6, <2>1
<1>8. 0 * number.base + (number.num % number.base) = number.num
  <2>1. CASE number.base = 10  BY <1>2, <1>3, <2>1
  <2>2. CASE number.base = 16  BY <1>2, <1>3, <2>2
  <2> QED BY <1>2, <2>1, <2>2
<1>9. /\ s \in Seq(Characters) /\ Len(s) = Len(number.digits) + 1 /\ s[1] = OwnDigit
      /\ DigitsOf(s, number.base)
      /\ ValueFrom(s, number.base, 0)
         = ValueFrom(number.digits, number.base, 0 * number.base + (number.num % number.base))
  BY <1>1, OneMoreDigit
<1> HIDE DEF s, text
<1>10. ValueFrom(s, number.base, 0) = OperandOf(field.conv, field.esc.lflag)
  BY <1>8, <1>9 DEF Begun
<1>11. Len(s) > 1 => s[1] # "0"
  <2> SUFFICES ASSUME Len(s) > 1 PROVE OwnDigit # "0"  BY <1>9
  <2>1. number.num > 0  BY <1>2, <1>9 DEF Begun
  <2>2. number.num % number.base = number.num  BY <1>2, <1>8
  <2>3. OwnDigit = DigitChars[number.num + 1] /\ number.num \in 0 .. 15
    BY <1>1, <2>2, OwnDigitTyped
  <2>4. \A d \in 0 .. 15 : DigitChars[d + 1] = "0" => d = 0
    BY DigitDiffers
  <2>5. number.num # 0
    BY <1>2, <2>1
  <2> QED BY <2>3, <2>4, <2>5
<1>12. number.width - 1 = field.esc.width - Len(s) /\ Len(s) > 0
  <2>1. number.width = field.esc.width - Len(number.digits)  BY DEF Begun
  <2>2. field.esc.width \in Int  BY <1>1 DEF Fields, Escapes
  <2> QED BY <1>2, <1>9, <2>1, <2>2, SMTT(20)
<1>13. A = Copy(field.esc.padc, field.esc.width - Len(s))
  BY <1>12 DEF Begun
<1>14. SignOf(field.conv)' = SignOf(field.conv) /\ BaseOf(field.conv)' = BaseOf(field.conv)
       /\ OperandOf(field.conv, field.esc.lflag)' = OperandOf(field.conv, field.esc.lflag)
  BY <1>3, <1>4 DEF SignOf, BaseOf, OperandOf, Unsigned
<1>15. field.text = SignOf(field.conv) /\ number.base = BaseOf(field.conv)
  BY DEF Begun
<1> HIDE DEF A
<1> QED BY <1>3, <1>4, <1>7, <1>9, <1>10, <1>11, <1>12, <1>13, <1>14, <1>15 DEF NumberShape

LEMMA BeginNumber ==
  ASSUME FormatterTypes, NumberBegun
  PROVE  Begun' /\ at' = "number"
<1>1. /\ UNCHANGED call /\ at' = "number"
      /\ field' = [conv |-> ch, esc |-> esc, text |-> SignOf(ch)]
      /\ number' = [num |-> OperandOf(ch, esc.lflag), base |-> BaseOf(ch), width |-> esc.width,
                    padc |-> esc.padc, digits |-> <<>>]
      /\ OperandOf(ch, esc.lflag) \in Nat
  BY DEF NumberBegun, Printing, PrintNumber
<1>2. esc.width \in Int
  BY DEF FormatterTypes, Escapes
<1>3. field'.conv = ch /\ field'.esc = esc /\ field'.text = SignOf(ch) /\ number'.digits = <<>>
      /\ number'.num = OperandOf(ch, esc.lflag) /\ number'.base = BaseOf(ch)
      /\ number'.width = esc.width /\ number'.padc = esc.padc
  BY <1>1
<1>4. Len(<<>>) = 0 /\ esc.width - 0 = esc.width /\ ~(0 > 0) /\ 1 .. 0 = {}
  BY <1>2
<1>5. /\ SignOf(field.conv)' = SignOf(ch) /\ BaseOf(field.conv)' = BaseOf(ch)
      /\ OperandOf(field.conv, field.esc.lflag)' = OperandOf(ch, esc.lflag)
  BY <1>1, <1>3 DEF SignOf, BaseOf, OperandOf, Unsigned
<1> QED BY <1>1, <1>3, <1>4, <1>5, ValueOfNone DEF Begun, DigitsOf

LEMMA NumberKept ==
  ASSUME FormatterTypes, NumberInv, PrintfmtNext
  PROVE  NumberInv'
<1>1. UNCHANGED call
  BY Steps
     DEF Text, Percent, End, Number, Digit, NumberEnd, Recurse, Unwind, Unknown, Flagged, Converted,
         StringConverted, NumberBegun, OtherBegun, Modify, Field, PrintNumber, Printing
<1>2. CASE UNCHANGED field /\ at # "number" /\ at' # "number"
  <2>1. NumberShape' <=> NumberShape
    BY <1>1, <1>2 DEF NumberShape, SignOf, BaseOf, OperandOf, Unsigned
  <2> QED BY <1>2, <2>1 DEF NumberInv
<1>3. CASE Recurse
  <2>1. at = "number" /\ at' = "number" /\ field' = field  BY <1>3 DEF Recurse
  <2> QED BY <1>3, <2>1, RecurseNumber DEF NumberInv
<1>4. CASE Unwind
  <2>1. at = "number" /\ at' = "text" /\ field'.conv = field.conv
    BY <1>4 DEF Unwind, FormatterTypes, Fields
  <2> QED BY <1>4, <2>1, UnwindNumber DEF NumberInv
<1>5. CASE NumberBegun
  BY <1>5, BeginNumber DEF NumberInv
<1>6. CASE Converted \/ StringConverted \/ OtherBegun
  <2>1. field'.conv \notin Numeric
    BY <1>6 DEF Converted, StringConverted, OtherBegun, Numeric, Field, PrintNumber, Printing
  <2> QED BY <2>1 DEF NumberInv
<1> QED BY <1>2, <1>3, <1>4, <1>5, <1>6, Steps
        DEF Text, Percent, End, Number, Digit, NumberEnd, Unknown, Flagged, Modify

-----------------------------------------------------------------------------
FormatInv ==
  \/ at = "idle"
  \/ FormatterTypes /\ EscapeOpen /\ BufferInv /\ StringInv /\ LiteralInv /\ NumberInv

LEMMA FormatInitInv == PrintfmtInit \/ PrintfmtIdle => FormatInv
<1>1. ASSUME PrintfmtInit PROVE FormatInv
  <2>1. PICK f \in Formats, a \in Arguments :
          /\ call = [fmt |-> f, int |-> a.int, chr |-> a.chr, star |-> a.star, str |-> a.str, n |-> a.n]
          /\ \E null \in BOOLEAN : at = (IF null \/ a.n < 1 THEN "refused" ELSE "text")
          /\ fmt = 1 /\ esc = None /\ out = <<>>
          /\ b = [mem |-> [i \in 0 .. BufBytes - 1 |-> Untouched], pos |-> 0, cnt |-> 0]
          /\ number = NoNumber
          /\ field = [conv |-> NUL, esc |-> None, text |-> <<>>]
    BY <1>1 DEF PrintfmtInit
  <2>2. /\ a.int \in Int /\ a.star \in Int /\ a.n \in Int /\ a.n <= BufBytes /\ BufBytes \in Nat
        /\ a.chr \in STRING /\ a.str \in Seq(STRING)
    BY PrintfmtAssumption
  <2>3. a.chr \in Characters /\ a.str \in Seq(Characters)
    BY <2>2, SomeCharacters, SeqMonotonic
  <2>4. call \in Calls
    BY <2>1, <2>2, <2>3 DEF Calls
  <2>5. None \in Escapes /\ NoNumber \in Numbers
    BY SomeTexts DEF None, NoNumber, Escapes, Numbers, Pads
  <2>6. field \in Fields
    BY <2>1, <2>5, SomeCharacters, SomeTexts DEF Fields
  <2>7. FormatterTypes
    BY <2>1, <2>4, <2>5, <2>6, SomeTexts DEF FormatterTypes
  <2>8. field.conv = NUL /\ NUL # "s" /\ NUL \notin Numeric
    BY <2>1 DEF NUL, Numeric
  <2>9. BufferInv
    <3> SUFFICES ASSUME at # "refused" PROVE call.n \in 1 .. BufBytes /\ at # "done" /\ b = Buffer(out)
      BY DEF BufferInv
    <3>1. call.n = a.n /\ ~(a.n < 1) /\ at = "text"
      BY <2>1
    <3>2. ebuf \in Nat /\ Least(Len(out), ebuf) = 0 /\ Len(out) = 0
      BY <2>1, <2>2, <3>1 DEF ebuf, Least
    <3>3. Buffer(out) = [mem |-> [i \in 0 .. BufBytes - 1 |-> Untouched], pos |-> 0, cnt |-> 0]
      <4>1. \A i \in 0 .. BufBytes - 1 : ~(i < 0)  OBVIOUS
      <4> QED BY <3>2, <4>1 DEF Buffer
    <3> QED BY <2>1, <2>2, <3>1, <3>3
  <2>10. LiteralInv
    <3> SUFFICES ASSUME NEW p, Only(p)
                 PROVE  fmt \in 1 .. Len(call.fmt) + 1 /\ out = SubSeq(call.fmt, 1, fmt - 1)
      BY <2>1 DEF LiteralInv
    <3>1. Len(call.fmt) \in Nat
      BY <2>4, ArgumentsTyped DEF Calls
    <3>2. SubSeq(call.fmt, 1, fmt - 1) = <<>> /\ fmt = 1 /\ out = <<>>
      BY <2>1, SubSeqEmpty
    <3> QED BY <3>1, <3>2
  <2>11. at \notin {"number", "escape", "digits"}
    BY <2>1
  <2> QED BY <2>7, <2>8, <2>9, <2>10, <2>11 DEF FormatInv, EscapeOpen, StringInv, NumberInv
<1> QED BY <1>1 DEF PrintfmtIdle, FormatInv

\* At every character of the format, the buffer is what the output so far makes
\* of it, a percent sign lies behind every escape, and within printnum the number
\* left and the digits to come make up the argument (printfmt.c:78-241).
THEOREM FormatInvariance == PrintfmtSpec => []FormatInv
<1>1. FormatInv /\ [PrintfmtNext]_printfmt => FormatInv'
  <2> SUFFICES ASSUME FormatInv, [PrintfmtNext]_printfmt PROVE FormatInv'  OBVIOUS
  <2>1. CASE UNCHANGED printfmt
    <3> USE <2>1 DEF printfmt
    <3>1. (FormatterTypes <=> FormatterTypes') /\ (EscapeOpen <=> EscapeOpen')
      BY DEF FormatterTypes, EscapeOpen, CharAt
    <3>2. BufferInv <=> BufferInv'
      BY DEF BufferInv, Buffer, ebuf
    <3>3. StringInv <=> StringInv'
      BY DEF StringInv, StringShape
    <3>4. LiteralInv <=> LiteralInv'
      BY DEF LiteralInv, Only
    <3>5. NumberInv <=> NumberInv'
      BY DEF NumberInv, Begun, NumberShape, SignOf, BaseOf, OperandOf, Unsigned
    <3> QED BY <3>1, <3>2, <3>3, <3>4, <3>5 DEF FormatInv
  <2>2. CASE PrintfmtNext
    <3>1. at # "idle"
      BY <2>2 DEF PrintfmtNext, Text, Percent, End, PadFlag, Number, Digit, NumberEnd, Star, Dot, AltFlag,
                  LongFlag, Character, Decimal, UnsignedDecimal, Hexadecimal, Pointer, ErrorMessage, Octal,
                  Recurse, Unwind, Literal, String, Unknown, Modify, Field, PrintNumber
    <3> QED BY <2>2, <3>1, TypesKept, OpenKept, BufferKept, StringKept, LiteralKept, NumberKept DEF FormatInv
  <2> QED BY <2>1, <2>2
<1> QED BY <1>1, FormatInitInv, PTL DEF PrintfmtSpec

\* Whatever the format and the arguments, vsnprintf leaves in the n bytes it was
\* given the beginning of its output and a null, touches nothing behind it, and
\* returns the length of the whole output (printfmt.c:266, :273, :282).
THEOREM BufferCorrect == PrintfmtSpec => []BufferBounded
<1>1. FormatInv => BufferBounded
  <2> SUFFICES ASSUME FormatInv, at = "done" PROVE BufferBounded
    BY DEF BufferBounded
  <2> DEFINE kept == Least(Len(out), call.n - 1)
  <2>1. out \in Seq(Characters) /\ call.n \in 1 .. BufBytes /\ BufBytes \in Nat
        /\ b = [Buffer(out) EXCEPT !.mem[kept] = NUL]
    BY PrintfmtAssumption DEF FormatInv, FormatterTypes, BufferInv, ebuf
  <2>2. Len(out) \in Nat
    BY <2>1, LenProperties
  <2>3. kept \in 0 .. BufBytes - 1
    BY <2>1, <2>2 DEF Least
  <2>4. /\ Buffer(out).cnt = Len(out)
        /\ Buffer(out).mem = [i \in 0 .. BufBytes - 1 |-> IF i < kept THEN out[i + 1] ELSE Untouched]
        /\ Buffer(out) = [mem |-> Buffer(out).mem, pos |-> Buffer(out).pos, cnt |-> Buffer(out).cnt]
    BY DEF Buffer, ebuf
  <2> HIDE DEF kept
  <2>5. b.cnt = Len(out) /\ b.mem = [Buffer(out).mem EXCEPT ![kept] = NUL]
    BY <2>1, <2>4
  <2>6. DOMAIN b.mem = 0 .. BufBytes - 1
        /\ \A i \in 0 .. BufBytes - 1 :
             b.mem[i] = IF i = kept THEN NUL ELSE IF i < kept THEN out[i + 1] ELSE Untouched
    BY <2>3, <2>4, <2>5
  <2>7. \A i \in DOMAIN b.mem : b.mem[i] = CASE i < kept -> out[i + 1]
                                           [] i = kept -> NUL
                                           [] OTHER -> Untouched
    <3> SUFFICES ASSUME NEW i \in 0 .. BufBytes - 1
                 PROVE  b.mem[i] = CASE i < kept -> out[i + 1] [] i = kept -> NUL [] OTHER -> Untouched
      BY <2>6
    <3>1. ~(i < kept /\ i = kept)  BY <2>3
    <3> QED BY <2>6, <3>1
  <2> QED BY <2>5, <2>7 DEF BufferBounded, kept
<1> QED BY <1>1, FormatInvariance, PTL

\* A string is cut to the precision and padded to the width, for every string,
\* width, precision and flags (printfmt.c:176-187).
THEOREM StringCorrect == PrintfmtSpec => []StringField
<1>1. FormatInv => StringField
  BY DEF FormatInv, StringInv, StringField, StringShape
<1> QED BY <1>1, FormatInvariance, PTL

\* A format whose only percent sign begins no conversion is printed as it
\* stands: vprintfmt steps back to the sign (printfmt.c:236-241).
THEOREM LiteralCorrect == PrintfmtSpec => []UnknownLiteral
<1>1. FormatInv => UnknownLiteral
  <2> SUFFICES ASSUME FormatInv, at = "done",
                      \A i \in DOMAIN call.fmt : call.fmt[i] \in Conversions => call.fmt[i] = "%",
                      Cardinality({i \in DOMAIN call.fmt : call.fmt[i] = "%"}) = 1
               PROVE  out = call.fmt
    BY DEF UnknownLiteral
  <2> DEFINE signs == {i \in DOMAIN call.fmt : call.fmt[i] = "%"}
  <2>1. LiteralInv /\ call.fmt \in Formats
    BY DEF FormatInv, FormatterTypes, Calls
  <2>2. Len(call.fmt) \in Nat /\ DOMAIN call.fmt = 1 .. Len(call.fmt)
    BY <2>1, ArgumentsTyped
  <2>3. IsFiniteSet(signs)
    <3>1. IsFiniteSet(1 .. Len(call.fmt))  BY <2>2, FS_Interval
    <3>2. signs \subseteq 1 .. Len(call.fmt)  BY <2>2
    <3> HIDE DEF signs
    <3> QED BY <3>1, <3>2, FS_Subset
  <2>4. PICK p : signs = {p}
    BY <2>3, FS_Singleton
  <2>5. p \in DOMAIN call.fmt /\ call.fmt[p] = "%"
        /\ \A i \in DOMAIN call.fmt : call.fmt[i] = "%" => i = p
    BY <2>4
  <2>6. Only(p)
    BY <2>2, <2>5 DEF Only
  <2> QED BY <2>1, <2>6 DEF LiteralInv
<1> QED BY <1>1, FormatInvariance, PTL

\* Only the padding is stripped: of a digit that looks like it, the last stays.
LEMMA Stripped ==
  ASSUME NEW c \in Characters, NEW n \in Int, NEW s \in Seq(Characters), Len(s) > 0,
         Len(s) > 1 => s[1] # c
  PROVE  Strip(Copy(c, n) \o s, c) = s
<1> DEFINE t == Copy(c, n) \o s
           m == IF n > 0 THEN n ELSE 0
           L == Len(s)
           pads == {i \in 0 .. Len(t) - 1 : \A j \in 1 .. i : t[j] = c}
           Greatest(i) == i \in pads /\ \A j \in pads : j <= i
<1>1. m \in Nat /\ L \in Nat \ {0}
  BY LenProperties
<1>2. Copy(c, n) \in Seq(Characters) /\ Len(Copy(c, n)) = m /\ \A i \in 1 .. m : Copy(c, n)[i] = c
  <2>1. /\ Copy(c, n) \in Seq(Characters) /\ Len(Copy(c, n)) = (IF n > 0 THEN n ELSE 0)
        /\ \A i \in 1 .. n : Copy(c, n)[i] = c
    BY CopyTyped, Zenon
  <2>2. \A i \in 1 .. m : i \in 1 .. n
    BY SMTT(20)
  <2> QED BY <2>1, <2>2
<1>3. t \in Seq(Characters) /\ Len(t) = m + L
      /\ \A i \in 1 .. m + L : t[i] = IF i <= m THEN Copy(c, n)[i] ELSE s[i - m]
  BY <1>2, ConcatProperties, SMTT(20)
<1> HIDE DEF t, m
<1>4. /\ \A i \in 1 .. m : t[i] = c
      /\ \A i \in 1 .. L : t[m + i] = s[i]
  <2>1. ASSUME NEW i \in 1 .. m PROVE t[i] = c
    <3>1. i \in 1 .. m + L /\ i <= m  BY <1>1
    <3> QED BY <1>2, <1>3, <3>1
  <2>2. ASSUME NEW i \in 1 .. L PROVE t[m + i] = s[i]
    <3>1. m + i \in 1 .. m + L /\ ~(m + i <= m) /\ (m + i) - m = i  BY <1>1
    <3> QED BY <1>3, <3>1
  <2> QED BY <2>1, <2>2
<1>5. m \in pads
  <2>1. m \in 0 .. Len(t) - 1  BY <1>1, <1>3
  <2> QED BY <1>4, <2>1
<1>6. ASSUME NEW i \in pads PROVE i <= m
  <2> SUFFICES ASSUME ~(i <= m) PROVE FALSE  OBVIOUS
  <2>1. i \in 0 .. (m + L) - 1 /\ \A j \in 1 .. i : t[j] = c
    BY <1>3
  <2>2. m + 1 \in 1 .. i /\ L > 1 /\ 1 \in 1 .. L
    BY <1>1, <2>1
  <2>3. t[m + 1] = c /\ t[m + 1] = s[1]
    BY <1>4, <2>1, <2>2
  <2> QED BY <2>2, <2>3
<1>7. \A i : Greatest(i) => i = m
  <2> SUFFICES ASSUME NEW i, Greatest(i) PROVE i = m  OBVIOUS
  <2>1. i \in Int /\ i <= m /\ m <= i
    BY <1>3, <1>5, <1>6
  <2> QED BY <1>1, <2>1
<1>8. Greatest(m)
  BY <1>5, <1>6
<1>9. (CHOOSE i \in pads : \A j \in pads : j <= i) = m
  <2>1. (CHOOSE i : Greatest(i)) = m
    <3> HIDE DEF Greatest
    <3> QED BY <1>7, <1>8
  <2> QED BY <2>1
<1>10. SubSeq(t, 1 + m, Len(t)) = s
  <2>1. /\ SubSeq(t, 1 + m, m + L) \in Seq(Characters)
        /\ Len(SubSeq(t, 1 + m, m + L)) = (m + L) - (1 + m) + 1
        /\ \A i \in 1 .. (m + L) - (1 + m) + 1 : SubSeq(t, 1 + m, m + L)[i] = t[(1 + m) + i - 1]
    <3>1. 1 + m \in 1 .. Len(t) + 1 /\ m + L \in (1 + m) - 1 .. Len(t)  BY <1>1, <1>3
    <3> QED BY <1>1, <1>3, <3>1, SubSeqProperties
  <2>2. (m + L) - (1 + m) + 1 = L /\ \A i \in 1 .. L : (1 + m) + i - 1 = m + i
    BY <1>1
  <2>3. Len(SubSeq(t, 1 + m, m + L)) = Len(s) /\ \A i \in 1 .. L : SubSeq(t, 1 + m, m + L)[i] = s[i]
    BY <1>4, <2>1, <2>2
  <2> QED BY <1>3, <2>1, <2>3, SeqEqual
<1> QED BY <1>9, <1>10 DEF Strip, t

\* A number is printed in its base without loss or a leading zero, padded to
\* the width, for every number, width and padding character: each call of
\* printnum leaves to the inner one what its own digit does not say
\* (printfmt.c:35-50).
THEOREM NumberCorrect == PrintfmtSpec => []NumberField
<1>1. FormatInv => NumberField
  <2>1. SUFFICES ASSUME FormatInv, at \in {"text", "done"}, field.conv \in Numeric \ {"p"},
                        field.esc.padc # "-"
               PROVE  NumberField
    BY DEF NumberField, Numeric
  <2>2. FormatterTypes /\ NumberShape
    BY <2>1 DEF FormatInv, NumberInv
  <2> DEFINE c == field.conv
             e == field.esc
             signed == c = "d" /\ call.int < 0
             text == IF signed THEN Tail(field.text) ELSE field.text
             base == IF c = "x" THEN 16 ELSE 10
             value == CASE signed -> -call.int
                        [] c = "d" /\ ~signed -> call.int
                        [] OTHER -> Unsigned(call.int, e.lflag)
  <2>3. PICK s :
          /\ s \in Seq(Characters) /\ Len(s) > 0 /\ DigitsOf(s, BaseOf(c)) /\ (Len(s) > 1 => s[1] # "0")
          /\ ValueFrom(s, BaseOf(c), 0) = OperandOf(c, e.lflag)
          /\ field.text = SignOf(c) \o (Copy(e.padc, e.width - Len(s)) \o s)
    BY <2>2 DEF NumberShape
  <2> DEFINE n == Len(s)
             w == e.width
             padc == e.padc
  <2>4. n \in Nat /\ w \in Int /\ padc \in Characters /\ (padc # "0" => padc = " ")
    <3>1. n \in Nat  BY <2>3, LenProperties
    <3>2. field \in Fields  BY <2>2 DEF FormatterTypes
    <3>3. e \in Escapes /\ w \in Int /\ padc \in Pads /\ padc # "-"  BY <2>1, <3>2 DEF Fields, Escapes
    <3> HIDE DEF n, w, padc
    <3>4. padc \in Characters  BY <3>3, SomeCharacters
    <3>5. padc # "0" => padc = " "  BY <3>3, Zenon DEF Pads
    <3> QED BY <3>1, <3>3, <3>4, <3>5, Zenon
  <2> HIDE DEF n, w, padc
  <2>5. n \in Nat /\ w \in Int /\ w - n \in Int /\ (n > 0 => 1 \in 1 .. n)
    <3>1. n \in Nat /\ w \in Int  BY <2>4, Zenon
    <3> QED BY <3>1
  <2> DEFINE pad == Copy(padc, w - n)
  <2>6. pad \in Seq(Characters) /\ Len(pad) = (IF w - n > 0 THEN w - n ELSE 0)
    BY <2>4, <2>5, CopyTyped, Zenon
  <2> HIDE DEF pad
  <2>7. pad \o s \in Seq(Characters) /\ Len(pad \o s) = Len(pad) + Len(s)
    BY <2>3, <2>6, ConcatProperties
  <2>8. c # "p"
    BY <2>1
  <2>9. text = pad \o s /\ (signed => field.text[1] = "-")
    <3>1. CASE signed
      <4>1. field.text = <<"-">> \o (pad \o s)  BY <2>3, <3>1 DEF SignOf, pad, n, w, padc
      <4>2. <<"-">> \in Seq(Characters) /\ Len(<<"-">>) = 1 /\ <<"-">>[1] = "-"
        <5>1. "-" \in Characters
          <6>1. "-" \in Pads  BY DEF Pads
          <6> QED BY <6>1, SomeCharacters
        <5>2. <<"-">> \in Seq(Characters)  BY <5>1, SomeTexts
        <5> QED BY <5>2
      <4> DEFINE u == pad \o s
      <4>3. Len(u) \in Nat /\ u \in Seq(Characters)  BY <2>7, LenProperties
      <4> HIDE DEF u
      <4>4. /\ field.text \in Seq(Characters) /\ Len(field.text) = 1 + Len(u)
            /\ \A i \in 1 .. 1 + Len(u) : field.text[i] = IF i <= 1 THEN <<"-">>[i] ELSE u[i - 1]
        <5>1. field.text = <<"-">> \o u  BY <4>1 DEF u
        <5> QED BY <4>2, <4>3, <5>1, ConcatProperties
      <4>5. field.text[1] = "-"
        <5>1. 1 \in 1 .. 1 + Len(u)  BY <4>3
        <5> QED BY <4>2, <4>4, <5>1
      <4>6. Tail(field.text) \in Seq(Characters) /\ Len(Tail(field.text)) = Len(u)
            /\ \A i \in 1 .. Len(u) : Tail(field.text)[i] = field.text[i + 1]
        <5>1. field.text # <<>> /\ Len(field.text) - 1 = Len(u)  BY <4>3, <4>4
        <5> QED BY <4>4, <5>1, HeadTailProperties
      <4>7. ASSUME NEW i \in 1 .. Len(u) PROVE Tail(field.text)[i] = u[i]
        <5>1. i + 1 \in 1 .. 1 + Len(u) /\ ~(i + 1 <= 1) /\ (i + 1) - 1 = i  BY <4>3
        <5> QED BY <4>4, <4>6, <5>1
      <4>8. Tail(field.text) = u
        BY <4>3, <4>6, <4>7, SeqEqual
      <4> QED BY <3>1, <4>5, <4>8 DEF u
    <3>2. CASE ~signed
      <4>1. field.text = <<>> \o (pad \o s)  BY <2>3, <2>8, <3>2 DEF SignOf, pad, n, w, padc
      <4>2. <<>> \o (pad \o s) = pad \o s  BY <2>7, ConcatEmptySeq
      <4> QED BY <3>2, <4>1, <4>2
    <3> QED BY <3>1, <3>2
  <2>10. base = BaseOf(c) /\ value = OperandOf(c, e.lflag)
    <3>1. call.int \in Int  BY <2>2, Operands
    <3>2. CASE c = "d" /\ call.int < 0  BY <2>8, <3>2 DEF BaseOf, OperandOf
    <3>3. CASE c = "d" /\ ~(call.int < 0)  BY <2>8, <3>3 DEF BaseOf, OperandOf
    <3>4. CASE c # "d"  BY <2>8, <3>4 DEF BaseOf, OperandOf
    <3> QED BY <3>2, <3>3, <3>4
  <2>11. \A i \in 1 .. Len(s) : \E d \in 0 .. base - 1 : d \in 0 .. 15 /\ s[i] = DigitChars[d + 1]
    <3>1. base \in {10, 16}  BY DEF BaseOf
    <3>2. \A d \in 0 .. base - 1 : d \in 0 .. 15  BY <3>1
    <3> HIDE DEF base
    <3> QED BY <2>3, <2>10, <3>2 DEF DigitsOf
  <2>12. Strip(text, padc) = s
    <3>1. 1 \in 1 .. Len(s)  BY <2>3, <2>5 DEF n
    <3>2. s[1] # " "
      <4> HIDE DEF base
      <4>1. PICK d \in 0 .. base - 1 : d \in 0 .. 15 /\ s[1] = DigitChars[d + 1]
        BY <2>11, <3>1
      <4>2. DigitChars[d + 1] # " "  BY <4>1, DigitDiffers, Zenon
      <4> QED BY <4>1, <4>2, Zenon
    <3>3. Len(s) > 1 => s[1] # padc
      <4>1. Len(s) > 1 => s[1] # "0"  BY <2>3, Zenon
      <4>2. padc # "0" => padc = " "  BY <2>4, Zenon
      <4> QED BY <3>2, <4>1, <4>2, Zenon
    <3>4. Strip(pad \o s, padc) = s
      <4>1. s \in Seq(Characters) /\ Len(s) > 0 /\ padc \in Characters
        BY <2>3, <2>4, Zenon
      <4> QED BY <2>5, <3>3, <4>1, Stripped, Zenon DEF pad
    <3> QED BY <2>9, <3>4
  <2>13. Value(s, base) = value
    BY <2>3, <2>10, ValueIs
  <2>14. \A i \in DOMAIN s : DigitValue(s[i]) < base
    <3>1. DOMAIN s = 1 .. Len(s)  BY LenProperties
    <3>2. ASSUME NEW i \in 1 .. Len(s) PROVE DigitValue(s[i]) < base
      <4>1. PICK d \in 0 .. base - 1 : d \in 0 .. 15 /\ s[i] = DigitChars[d + 1]
        BY <2>11
      <4>2. DigitValue(s[i]) = d  BY <4>1, ValueOfDigit
      <4>3. base \in Nat  OBVIOUS
      <4> HIDE DEF base
      <4> QED BY <4>2, <4>3
    <3> QED BY <3>1, <3>2
  <2>15. Len(text) = (IF e.width > Len(s) THEN e.width ELSE Len(s)) /\ s # <<>>
    <3>1. Len(text) = Len(pad) + n  BY <2>7, <2>9 DEF n
    <3>2. s # <<>>  BY <2>3
    <3>3. Len(text) = (IF w > n THEN w ELSE n)
      <4> HIDE DEF text
      <4> QED BY <2>6, <2>5, <3>1
    <3> QED BY <3>2, <3>3 DEF n, w
  <2> DEFINE digits == Strip(text, padc)
             needed == IF digits = <<>> THEN 1 ELSE Len(digits)
  <2>16. digits = s
    BY <2>12
  <2>17. needed = Len(s)
    BY <2>15, <2>16
  <2>18. /\ signed => field.text[1] = "-"
         /\ \A i \in DOMAIN digits : DigitValue(digits[i]) < base
         /\ Value(digits, base) = value
         /\ Len(digits) > 1 => digits[1] # "0"
         /\ Len(text) = (IF e.width > needed THEN e.width ELSE needed)
    <3> HIDE DEF text, digits, needed, value, base, signed
    <3>1. signed => field.text[1] = "-"  BY <2>9
    <3> QED BY <2>3, <2>13, <2>14, <2>15, <2>16, <2>17, <3>1
  <2> QED BY <2>18 DEF NumberField, n, w, padc
<1> QED BY <1>1, FormatInvariance, PTL

-----------------------------------------------------------------------------
(* Reading a number back. *)

LEMMA Associative == \A u, v, w \in Seq(Characters) : (u \o v) \o w = u \o (v \o w)
BY ConcatAssociative, SMTT(20)

LEMMA DigitPlain ==
  \A d \in 0 .. 15 :
    LET c == DigitChars[d + 1]
    IN  c # " " /\ c # "\t" /\ c # "-" /\ c # "+" /\ c # "x" /\ c \in Characters /\ Lower(c) = c
<1>1. \A d \in 0 .. 15 : DigitChars[d + 1] # " "
  BY DigitDiffers
<1>2. \A d \in 0 .. 15 : DigitChars[d + 1] # "\t"
  BY DEF DigitChars
<1>3. \A d \in 0 .. 15 : DigitChars[d + 1] # "-"
  BY DEF DigitChars
<1>4. \A d \in 0 .. 15 : DigitChars[d + 1] # "+"
  BY DEF DigitChars
<1>5. \A d \in 0 .. 15 : DigitChars[d + 1] # "x"
  BY DEF DigitChars
<1>6. \A d \in 0 .. 15 : Lower(DigitChars[d + 1]) = DigitChars[d + 1]
  <2>1. \A d \in 0 .. 15 : \A e \in 1 .. 6 : Capitals[e] # DigitChars[d + 1]
    BY DEF DigitChars, Capitals
  <2> QED BY <2>1 DEF Lower
<1>7. \A d \in 0 .. 15 : DigitChars[d + 1] \in Characters
  BY SomeCharacters
<1> QED BY <1>1, <1>2, <1>3, <1>4, <1>5, <1>6, <1>7

\* What follows the beginning a of a sequence.
LEMMA FromIs ==
  ASSUME NEW a \in Seq(Characters), NEW s \in Seq(Characters)
  PROVE  From(a \o s, Len(a) + 1) = s
<1> DEFINE t == a \o s
           m == Len(a)
           L == Len(s)
<1>1. m \in Nat /\ L \in Nat
  BY LenProperties
<1>2. t \in Seq(Characters) /\ Len(t) = m + L
      /\ \A i \in 1 .. m + L : t[i] = IF i <= m THEN a[i] ELSE s[i - m]
  BY ConcatProperties
<1> HIDE DEF t, m, L
<1>3. \A i \in m + 1 .. m + L : t[i] \in Characters
  <2>1. \A i \in 1 .. Len(t) : t[i] \in Characters  BY <1>2, ElementOfSeq
  <2> QED BY <1>1, <1>2, <2>1
<1>4. /\ SubSeq(t, m + 1, m + L) \in Seq(Characters)
      /\ Len(SubSeq(t, m + 1, m + L)) = (IF m + 1 <= m + L THEN (m + L) - (m + 1) + 1 ELSE 0)
      /\ \A i \in 1 .. (m + L) - (m + 1) + 1 : SubSeq(t, m + 1, m + L)[i] = t[(m + 1) + i - 1]
  <2>1. m + 1 \in Int /\ m + L \in Int  BY <1>1
  <2> QED BY <1>3, <2>1, SubSeqProperties
<1>5. (m + L) - (m + 1) + 1 = L /\ (IF m + 1 <= m + L THEN (m + L) - (m + 1) + 1 ELSE 0) = L
  BY <1>1
<1>6. ASSUME NEW i \in 1 .. L PROVE SubSeq(t, m + 1, m + L)[i] = s[i]
  <2>1. (m + 1) + i - 1 \in 1 .. m + L /\ ~((m + 1) + i - 1 <= m) /\ ((m + 1) + i - 1) - m = i
    BY <1>1
  <2> QED BY <1>2, <1>4, <1>5, <2>1
<1>7. SubSeq(t, m + 1, m + L) = s
  BY <1>4, <1>5, <1>6, SeqEqual DEF L
<1> QED BY <1>2, <1>7 DEF From, t, m

LEMMA SkipIs ==
  ASSUME NEW t, NEW m, Len(t) \in Nat, m \in 1 .. Len(t) + 1,
         \A j \in 1 .. m - 1 : t[j] \in Blanks, m <= Len(t) => t[m] \notin Blanks
  PROVE  Skip(t) = m
<1> DEFINE Good(i) == i \in 1 .. Len(t) + 1
                      /\ (\A j \in 1 .. i - 1 : t[j] \in Blanks) /\ (i <= Len(t) => t[i] \notin Blanks)
<1>1. Good(m)
  OBVIOUS
<1>2. ASSUME NEW i, Good(i) PROVE i = m
  <2>1. CASE i < m
    <3>1. i \in 1 .. m - 1 /\ i <= Len(t)  BY <1>2, <2>1
    <3> QED BY <1>2, <3>1
  <2>2. CASE i > m
    <3>1. m \in 1 .. i - 1 /\ m <= Len(t)  BY <1>2, <2>2
    <3> QED BY <1>2, <3>1
  <2> QED BY <1>2, <2>1, <2>2
<1> HIDE DEF Good
<1>3. (CHOOSE i : Good(i)) = m
  BY <1>1, <1>2
<1>4. Skip(t) = CHOOSE i : Good(i)
  BY DEF Skip, Good
<1> QED BY <1>3, <1>4

LEMMA DigitsIs ==
  ASSUME NEW t \in Seq(Characters), NEW base \in {10, 16}, DigitsOf(t, base)
  PROVE  Digits(t, base) = t
<1> DEFINE L == Len(t)
           Good(i) == i \in 1 .. L + 1
                      /\ (\A j \in 1 .. i - 1 : DigitValue(Lower(t[j])) < base)
                      /\ (i <= L => DigitValue(Lower(t[i])) >= base)
<1>1. L \in Nat
  BY LenProperties
<1>2. \A j \in 1 .. L : DigitValue(Lower(t[j])) < base /\ DigitValue(Lower(t[j])) \in Nat /\ Lower(t[j]) = t[j]
  <2> SUFFICES ASSUME NEW j \in 1 .. L PROVE DigitValue(Lower(t[j])) < base /\ Lower(t[j]) = t[j]
    BY DigitIsInt
  <2>1. PICK d \in 0 .. base - 1 : t[j] = DigitChars[d + 1]
    BY DEF DigitsOf
  <2>2. d \in 0 .. 15  OBVIOUS
  <2>3. DigitValue(t[j]) = d /\ Lower(t[j]) = t[j]  BY <2>1, <2>2, ValueOfDigit, DigitPlain
  <2> QED BY <2>3
<1> HIDE DEF L
<1>3. Good(L + 1)
  BY <1>1, <1>2
<1>4. ASSUME NEW i, Good(i) PROVE i = L + 1
  <2>1. CASE i <= L
    <3>1. i \in 1 .. L  BY <1>4, <2>1
    <3> QED BY <1>2, <1>4, <2>1, <3>1
  <2> QED BY <1>1, <1>4, <2>1
<1> HIDE DEF Good
<1>5. (CHOOSE i : Good(i)) = L + 1
  BY <1>3, <1>4
<1>6. Digits(t, base) = [i \in 1 .. (CHOOSE i : Good(i)) - 1 |-> Lower(t[i])]
  BY Zenon DEF Digits, Good, L
<1>7. (L + 1) - 1 = L
  BY <1>1
<1>8. [i \in 1 .. L |-> Lower(t[i])] = [i \in 1 .. L |-> t[i]]
  BY <1>2
<1>9. t = [i \in 1 .. L |-> t[i]]
  BY DEF L
<1> QED BY <1>5, <1>6, <1>7, <1>8, <1>9

LEMMA ValueOfZeros ==
  ASSUME NEW s \in Seq(Characters), NEW base \in {10, 16}
  PROVE  \A n \in Nat : ValueFrom(Copy("0", n) \o s, base, 0) = ValueFrom(s, base, 0)
<1> DEFINE Same(n) == ValueFrom(Copy("0", n) \o s, base, 0) = ValueFrom(s, base, 0)
           bad == {n \in Nat : ~Same(n)}
<1> SUFFICES ASSUME bad # {} PROVE FALSE
  OBVIOUS
<1>1. PICK n \in bad : \A k \in bad : n <= k
  BY LeastOf
<1>2. n \in Nat /\ ~Same(n)
  OBVIOUS
<1>3. n # 0
  <2>1. Copy("0", 0) = <<>>  BY DEF Copy
  <2>2. <<>> \o s = s  BY ConcatEmptySeq
  <2> QED BY <1>2, <2>1, <2>2
<1>4. n - 1 \in Nat /\ Same(n - 1)
  <2>1. n - 1 \in Nat /\ ~(n <= n - 1)  BY <1>2, <1>3
  <2> QED BY <1>1, <2>1
<1>5. "0" \in Characters /\ DigitValue("0") = 0
  <2>1. "0" \in Pads  BY DEF Pads
  <2>2. DigitChars[0 + 1] = "0"  BY DEF DigitChars
  <2>3. DigitValue(DigitChars[0 + 1]) = 0  BY ValueOfDigit
  <2> QED BY <2>1, <2>2, <2>3, SomeCharacters
<1> DEFINE A == Copy("0", n - 1)
           u == A \o s
<1>6. A \in Seq(Characters) /\ Len(A) = n - 1 /\ \A i \in 1 .. n - 1 : A[i] = "0"
  <2>1. n - 1 \in Int /\ (IF n - 1 > 0 THEN n - 1 ELSE 0) = n - 1  BY <1>4
  <2>2. "0" \in Characters  BY <1>5
  <2>3. /\ Copy("0", n - 1) \in Seq(Characters)
        /\ Len(Copy("0", n - 1)) = (IF n - 1 > 0 THEN n - 1 ELSE 0)
        /\ \A i \in 1 .. n - 1 : Copy("0", n - 1)[i] = "0"
    BY ONLY <2>1, <2>2, CopyTyped, Zenon
  <2> QED BY ONLY <2>1, <2>3, Zenon DEF A
<1>7. Copy("0", n) = <<"0">> \o A
  <2>1. /\ Copy("0", n) \in Seq(Characters) /\ Len(Copy("0", n)) = n /\ \A i \in 1 .. n : Copy("0", n)[i] = "0"
    BY <1>2, <1>3, <1>5, CopyTyped
  <2>2. <<"0">> \in Seq(Characters) /\ Len(<<"0">>) = 1 /\ <<"0">>[1] = "0"
    BY <1>5
  <2> HIDE DEF A
  <2>3. /\ <<"0">> \o A \in Seq(Characters) /\ Len(<<"0">> \o A) = 1 + (n - 1)
        /\ \A i \in 1 .. 1 + (n - 1) : (<<"0">> \o A)[i] = IF i <= 1 THEN <<"0">>[i] ELSE A[i - 1]
    BY <1>6, <2>2, ConcatProperties
  <2>4. ASSUME NEW i \in 1 .. n PROVE Copy("0", n)[i] = (<<"0">> \o A)[i]
    <3>1. i \in 1 .. 1 + (n - 1) /\ (i <= 1 => i = 1) /\ (~(i <= 1) => i - 1 \in 1 .. n - 1)
      BY <1>2
    <3> QED BY <1>6, <2>1, <2>2, <2>3, <3>1
  <2>5. 1 + (n - 1) = n  BY <1>2
  <2> QED BY <2>1, <2>3, <2>4, <2>5, SeqEqual
<1> HIDE DEF A
<1>8. u \in Seq(Characters)
  BY <1>6, ConcatProperties
<1>9. Copy("0", n) \o s = <<"0">> \o u
  <2>1. <<"0">> \in Seq(Characters)  BY <1>5
  <2>2. A \in Seq(Characters)  BY <1>6
  <2>3. (<<"0">> \o A) \o s = <<"0">> \o (A \o s)  BY <2>1, <2>2, Associative
  <2> QED BY ONLY <1>7, <2>3, Zenon DEF u
<1> HIDE DEF u
<1>10. ValueFrom(<<"0">> \o u, base, 0) = ValueFrom(u, base, 0 * base + DigitValue("0"))
  BY <1>5, <1>8, ValueOfMore
<1>11. 0 * base + DigitValue("0") = 0
  BY <1>5
<1>12. ValueFrom(u, base, 0) = ValueFrom(s, base, 0)
  BY <1>4 DEF u, A
<1> QED BY <1>2, <1>9, <1>10, <1>11, <1>12

\* Digits after blanks, after a minus sign and after the prefix.
LEMMA FirstDigit ==
  ASSUME NEW u \in Seq(Characters), NEW base \in {10, 16}, DigitsOf(u, base), Len(u) > 0
  PROVE  u # <<>> /\ u[1] # " " /\ u[1] # "\t" /\ u[1] # "-" /\ u[1] # "+" /\ ~HexPrefix(u)
<1>1. Len(u) \in Nat /\ 1 \in 1 .. Len(u) /\ u # <<>>
  <2>1. Len(u) \in Nat  BY LenProperties
  <2>2. 1 \in 1 .. Len(u)  BY <2>1
  <2> QED BY <2>1, <2>2
<1>2. \A i \in 1 .. Len(u) : \E d \in 0 .. 15 : u[i] = DigitChars[d + 1]
  <2>1. \A d \in 0 .. base - 1 : d \in 0 .. 15  OBVIOUS
  <2> QED BY <2>1 DEF DigitsOf
<1>3. PICK d \in 0 .. 15 : u[1] = DigitChars[d + 1]
  BY <1>1, <1>2
<1>4. u[1] # " " /\ u[1] # "\t" /\ u[1] # "-" /\ u[1] # "+"
  BY <1>3, DigitPlain, Zenon
<1>5. ~HexPrefix(u)
  <2> SUFFICES ASSUME Len(u) >= 2 PROVE u[2] # "x"  BY DEF HexPrefix
  <2>1. 2 \in 1 .. Len(u)  BY <1>1
  <2>2. PICK e \in 0 .. 15 : u[2] = DigitChars[e + 1]  BY <1>2, <2>1
  <2> QED BY <2>2, DigitPlain, Zenon
<1> QED BY <1>1, <1>4, <1>5

LEMMA DigitsValue ==
  ASSUME NEW u \in Seq(Characters), NEW base \in {10, 16}, DigitsOf(u, base)
  PROVE  Value(Digits(u, base), base) = ValueFrom(u, base, 0)
<1>1. Digits(u, base) = u
  BY DigitsIs
<1> QED BY <1>1, ValueIs

LEMMA StrtolPlain ==
  ASSUME NEW u \in Seq(Characters), NEW base \in {10, 16}, DigitsOf(u, base), Len(u) > 0, NEW k \in Int
  PROVE  strtol(Copy(" ", k) \o u, base) = ValueFrom(u, base, 0)
<1> DEFINE A == Copy(" ", k)
           t == A \o u
           m == Len(A)
<1>1. " " \in Characters
  <2>1. " " \in Pads  BY Zenon DEF Pads
  <2> QED BY <2>1, SomeCharacters
<1>2. A \in Seq(Characters) /\ \A i \in 1 .. m : A[i] = " "
  <2>1. /\ A \in Seq(Characters) /\ m = (IF k > 0 THEN k ELSE 0) /\ \A i \in 1 .. k : A[i] = " "
    BY <1>1, CopyTyped, Zenon
  <2> HIDE DEF A, m
  <2>2. m = (IF k > 0 THEN k ELSE 0)  BY <2>1, Zenon
  <2>3. \A i \in 1 .. m : i \in 1 .. k  BY <2>2
  <2> QED BY <2>1, <2>3, Zenon
<1>3. m \in Nat /\ Len(u) \in Nat
  BY <1>2, LenProperties
<1>4. t \in Seq(Characters) /\ Len(t) = m + Len(u)
      /\ \A i \in 1 .. m + Len(u) : t[i] = IF i <= m THEN A[i] ELSE u[i - m]
  BY <1>2, ConcatProperties
<1>5. From(t, m + 1) = u
  BY <1>2, FromIs
<1> HIDE DEF A, m, t
<1>6. \A j \in 1 .. m : t[j] \in Blanks
  <2>1. \A j \in 1 .. m : j \in 1 .. m + Len(u) /\ j <= m  BY <1>3
  <2>2. \A j \in 1 .. m : t[j] = " "  BY <1>2, <1>4, <2>1
  <2> QED BY <2>2, Zenon DEF Blanks
<1>7. t[m + 1] \notin Blanks
  <2>1. m + 1 \in 1 .. m + Len(u) /\ ~(m + 1 <= m) /\ (m + 1) - m = 1  BY <1>3
  <2>2. t[m + 1] = u[1]  BY <1>4, <2>1
  <2> QED BY <2>2, FirstDigit, Zenon DEF Blanks
<1>8. Skip(t) = m + 1
  <2>1. m + 1 \in 1 .. Len(t) + 1 /\ Len(t) \in Nat /\ (m + 1) - 1 = m  BY <1>3, <1>4
  <2>2. \A j \in 1 .. (m + 1) - 1 : t[j] \in Blanks  BY <1>6, <2>1
  <2> QED BY <1>7, <2>1, <2>2, SkipIs
<1>9. From(t, Skip(t)) = u
  BY <1>5, <1>8
<1>10. ~(u # <<>> /\ u[1] \in {"+", "-"})
  BY FirstDigit, Zenon
<1>11. ~(base \in {0, 16} /\ HexPrefix(u)) /\ base # 0
  <2>1. ~HexPrefix(u)  BY FirstDigit, Zenon
  <2>2. base # 0  OBVIOUS
  <2> QED BY <2>1, <2>2, Zenon
<1>12. strtol(t, base) = Value(Digits(u, base), base)
  BY <1>9, <1>10, <1>11 DEF strtol
<1> QED BY <1>12, DigitsValue DEF t, A

LEMMA StrtolZeros ==
  ASSUME NEW u \in Seq(Characters), NEW base \in {10, 16}, DigitsOf(u, base), Len(u) > 0, NEW k \in Int
  PROVE  strtol(Copy("0", k) \o u, base) = ValueFrom(u, base, 0)
<1> DEFINE A == Copy("0", k)
           t == A \o u
           m == IF k > 0 THEN k ELSE 0
<1>1. "0" \in Characters /\ "0" = DigitChars[0 + 1]
  <2>1. "0" \in Pads  BY Zenon DEF Pads
  <2>2. "0" = DigitChars[0 + 1]  BY DEF DigitChars
  <2> QED BY <2>1, <2>2, SomeCharacters
<1>2. A \in Seq(Characters) /\ Len(A) = m /\ m \in Nat /\ \A i \in 1 .. m : A[i] = "0"
  <2>1. A \in Seq(Characters) /\ Len(A) = m /\ \A i \in 1 .. k : A[i] = "0"
    BY <1>1, CopyTyped, Zenon
  <2> HIDE DEF A
  <2>2. m \in Nat /\ \A i \in 1 .. m : i \in 1 .. k  OBVIOUS
  <2> HIDE DEF m
  <2> QED BY <2>1, <2>2, Zenon
<1>3. A = Copy("0", m)
  BY DEF Copy
<1> HIDE DEF A, m
<1>4. t \in Seq(Characters) /\ Len(t) = m + Len(u) /\ Len(u) \in Nat
      /\ \A i \in 1 .. m + Len(u) : t[i] = IF i <= m THEN A[i] ELSE u[i - m]
  BY <1>2, ConcatProperties, LenProperties
<1> HIDE DEF t
<1>5. DigitsOf(t, base)
  <2>1. ASSUME NEW i \in 1 .. Len(t) PROVE \E d \in 0 .. base - 1 : t[i] = DigitChars[d + 1]
    <3>1. i \in 1 .. m + Len(u)  BY <1>4
    <3>2. CASE i <= m
      <4>1. i \in 1 .. m  BY <3>1, <3>2
      <4>2. t[i] = "0"  BY <1>2, <1>4, <3>1, <3>2, <4>1
      <4>3. 0 \in 0 .. base - 1  OBVIOUS
      <4> QED BY <1>1, <4>2, <4>3
    <3>3. CASE ~(i <= m)
      <4>1. i - m \in 1 .. Len(u)  BY <1>2, <1>4, <3>1, <3>3
      <4>2. t[i] = u[i - m]  BY <1>4, <3>1, <3>3
      <4> QED BY <4>1, <4>2 DEF DigitsOf
    <3> QED BY <3>2, <3>3
  <2> QED BY <2>1 DEF DigitsOf
<1>6. Len(t) > 0
  BY <1>2, <1>4
<1>7. strtol(Copy(" ", 0) \o t, base) = ValueFrom(t, base, 0)
  <2>1. 0 \in Int  OBVIOUS
  <2> QED BY <1>4, <1>5, <1>6, <2>1, StrtolPlain
<1>8. Copy(" ", 0) \o t = t
  <2>1. Copy(" ", 0) = <<>>
    <3>1. \A d : Copy(d, 0) = <<>>  BY DEF Copy
    <3> QED BY <3>1, Zenon
  <2> QED BY <1>4, <2>1, ConcatEmptySeq
<1>9. ValueFrom(t, base, 0) = ValueFrom(u, base, 0)
  BY <1>2, <1>3, ValueOfZeros DEF t
<1> QED BY <1>7, <1>8, <1>9 DEF t, A

LEMMA StrtolSigned ==
  ASSUME NEW u \in Seq(Characters), DigitsOf(u, 10), Len(u) > 0
  PROVE  strtol(<<"-">> \o u, 10) = -ValueFrom(u, 10, 0)
<1> DEFINE A == <<"-">>
           t == A \o u
<1>1. A \in Seq(Characters) /\ Len(A) = 1 /\ A[1] = "-"
  <2>1. "-" \in Pads  BY Zenon DEF Pads
  <2> QED BY <2>1, SomeCharacters
<1>2. Len(u) \in Nat
  BY LenProperties
<1>3. t \in Seq(Characters) /\ Len(t) = 1 + Len(u)
      /\ \A i \in 1 .. 1 + Len(u) : t[i] = IF i <= 1 THEN A[i] ELSE u[i - 1]
  BY <1>1, ConcatProperties
<1>4. From(t, 1 + 1) = u
  BY <1>1, FromIs
<1> HIDE DEF A, t
<1>5. t[1] = "-" /\ t # <<>> /\ Len(t) \in Nat /\ Len(t) > 0
  <2>1. 1 \in 1 .. 1 + Len(u) /\ 1 <= 1  BY <1>2
  <2>2. t[1] = "-"  BY <1>1, <1>3, <2>1
  <2>3. Len(t) \in Nat /\ Len(t) > 0  BY <1>2, <1>3
  <2> QED BY <2>2, <2>3
<1>6. Skip(t) = 1
  <2>1. 1 \in 1 .. Len(t) + 1 /\ \A j \in 1 .. 1 - 1 : t[j] \in Blanks  BY <1>5
  <2>2. t[1] \notin Blanks  BY <1>5, Zenon DEF Blanks
  <2> QED BY <1>5, <2>1, <2>2, SkipIs
<1>7. From(t, 1) = t
  BY <1>3, SubSeqFull DEF From
<1>8. From(t, 2) = u
  BY <1>4
<1>9. ~(10 \in {0, 16} /\ HexPrefix(u)) /\ 10 # 0
  OBVIOUS
<1>10. strtol(t, 10) = -Value(Digits(u, 10), 10)
  BY <1>5, <1>6, <1>7, <1>8, <1>9 DEF strtol
<1> QED BY <1>10, DigitsValue DEF t, A

LEMMA StrtolPrefixed ==
  ASSUME NEW u \in Seq(Characters), DigitsOf(u, 16), NEW base0 \in {0, 16}
  PROVE  strtol(<<"0", "x">> \o u, base0) = ValueFrom(u, 16, 0)
<1> DEFINE A == <<"0", "x">>
           t == A \o u
<1>1. A \in Seq(Characters) /\ Len(A) = 2 /\ A[1] = "0" /\ A[2] = "x"
  <2>1. "0" \in Pads  BY Zenon DEF Pads
  <2>2. "0" \in Characters /\ "x" \in Characters  BY <2>1, SomeCharacters
  <2> QED BY <2>2
<1>2. Len(u) \in Nat
  BY LenProperties
<1>3. t \in Seq(Characters) /\ Len(t) = 2 + Len(u)
      /\ \A i \in 1 .. 2 + Len(u) : t[i] = IF i <= 2 THEN A[i] ELSE u[i - 2]
  BY <1>1, ConcatProperties
<1>4. From(t, 2 + 1) = u
  BY <1>1, FromIs
<1> HIDE DEF A, t
<1>5. t[1] = "0" /\ t[2] = "x" /\ t # <<>> /\ Len(t) \in Nat /\ Len(t) >= 2
  <2>1. 1 \in 1 .. 2 + Len(u) /\ 1 <= 2 /\ 2 \in 1 .. 2 + Len(u) /\ 2 <= 2  BY <1>2
  <2>2. t[1] = "0" /\ t[2] = "x"  BY <1>1, <1>3, <2>1
  <2>3. Len(t) \in Nat /\ Len(t) >= 2  BY <1>2, <1>3
  <2> QED BY <2>2, <2>3
<1>6. Skip(t) = 1
  <2>1. 1 \in 1 .. Len(t) + 1 /\ \A j \in 1 .. 1 - 1 : t[j] \in Blanks  BY <1>5
  <2>2. t[1] \notin Blanks  BY <1>5, Zenon DEF Blanks
  <2> QED BY <1>5, <2>1, <2>2, SkipIs
<1>7. From(t, 1) = t
  BY <1>3, SubSeqFull DEF From
<1>8. From(t, 3) = u
  BY <1>4
<1>9. ~(t # <<>> /\ t[1] \in {"+", "-"})
  BY <1>5, Zenon
<1>10. HexPrefix(t)
  BY <1>5 DEF HexPrefix
<1>11. strtol(t, base0) = Value(Digits(u, 16), 16)
  BY <1>6, <1>7, <1>8, <1>9, <1>10 DEF strtol
<1> QED BY <1>11, DigitsValue DEF t, A

\* strtol gives back the number that was printed (string.c:241-286,
\* printfmt.c:190-229): its digits have not lost anything, and neither the
\* blanks nor the zeros before them, nor the prefix of a pointer, change what
\* is read.
THEOREM ReadBackCorrect == PrintfmtSpec => []ReadBack
<1>1. FormatInv => ReadBack
  <2>1. SUFFICES ASSUME FormatInv, at \in {"text", "done"}, field.conv \in {"d", "x", "p"},
                        field.esc.padc # "-",
                        call.int < 0 \/ field.conv = "p" => field.esc.width <= 0
               PROVE  CASE field.conv = "d" -> strtol(field.text, 10) = call.int
                        [] field.conv = "x" -> strtol(field.text, 16) = Unsigned(call.int, field.esc.lflag)
                        [] field.conv = "p" -> /\ strtol(field.text, 0) = Unsigned(call.int, 0)
                                               /\ strtol(field.text, 16) = Unsigned(call.int, 0)
    BY DEF ReadBack
  <2>2. FormatterTypes /\ NumberShape
    BY <2>1 DEF FormatInv, NumberInv, Numeric
  <2> DEFINE c == field.conv
             e == field.esc
             base == BaseOf(c)
             n == OperandOf(c, e.lflag)
  <2>3. PICK s :
          /\ s \in Seq(Characters) /\ Len(s) > 0 /\ DigitsOf(s, base)
          /\ ValueFrom(s, base, 0) = n
          /\ field.text = SignOf(c) \o (Copy(e.padc, e.width - Len(s)) \o s)
    BY <2>2 DEF NumberShape
  <2>4. Len(s) \in Nat /\ e.width \in Int /\ (e.padc = " " \/ e.padc = "0") /\ base \in {10, 16}
    <3>1. field \in Fields  BY <2>2 DEF FormatterTypes
    <3>2. e.width \in Int /\ e.padc \in Pads /\ e.padc # "-"  BY <2>1, <3>1 DEF Fields, Escapes
    <3>3. Len(s) \in Nat  BY <2>3, LenProperties
    <3>4. base \in {10, 16}  BY DEF BaseOf
    <3>5. e.padc = " " \/ e.padc = "0"  BY <3>2, Zenon DEF Pads
    <3> QED BY <3>2, <3>3, <3>4, <3>5, Zenon
  <2> DEFINE k == e.width - Len(s)
             pad == Copy(e.padc, k)
  <2>5. Len(s) \in Nat /\ e.width \in Int
    BY <2>4, Zenon
  <2>6. k \in Int
    BY <2>5
  <2>7. call.int < 0 \/ c = "p" => pad \o s = s
    <3>1. SUFFICES ASSUME call.int < 0 \/ c = "p" PROVE pad \o s = s  OBVIOUS
    <3>2. ~(k > 0)
      <4>1. e.width <= 0  BY <2>1, <3>1
      <4>2. Len(s) > 0  BY <2>3
      <4> QED BY <2>5, <4>1, <4>2
    <3>3. pad = <<>>
      <4>1. (IF k > 0 THEN k ELSE 0) = 0  BY <3>2
      <4>2. pad = [i \in 1 .. 0 |-> e.padc]  BY <4>1, Zenon DEF Copy
      <4> QED BY <4>2
    <3> QED BY <2>3, <3>3, ConcatEmptySeq
  <2>8. CASE c = "p"
    <3>1. field.text = <<"0", "x">> \o s /\ base = 16 /\ n = Unsigned(call.int, 0)
      BY <2>3, <2>7, <2>8 DEF SignOf, BaseOf, OperandOf
    <3>2. DigitsOf(s, 16) /\ ValueFrom(s, 16, 0) = n  BY <2>3, <3>1
    <3>3. strtol(field.text, 0) = n  BY <2>3, <3>1, <3>2, StrtolPrefixed
    <3>4. strtol(field.text, 16) = n  BY <2>3, <3>1, <3>2, StrtolPrefixed
    <3> QED BY <2>8, <3>1, <3>3, <3>4
  <2>9. CASE c = "d" /\ call.int < 0
    <3>1. field.text = <<"-">> \o s /\ base = 10 /\ n = -call.int
      BY <2>3, <2>7, <2>9 DEF SignOf, BaseOf, OperandOf
    <3>2. DigitsOf(s, 10) /\ ValueFrom(s, 10, 0) = n  BY <2>3, <3>1
    <3>3. strtol(field.text, 10) = -n  BY <2>3, <3>1, <3>2, StrtolSigned
    <3>4. call.int \in Int  BY <2>2, Operands
    <3>5. -(-call.int) = call.int  BY <3>4
    <3>6. strtol(field.text, 10) = call.int  BY <3>1, <3>3, <3>5
    <3> QED BY <2>9, <3>6
  <2>10. CASE c # "p" /\ ~(c = "d" /\ call.int < 0)
    <3>1. field.text = pad \o s
      <4>1. field.text = <<>> \o (pad \o s)  BY <2>3, <2>10 DEF SignOf
      <4>2. pad \in Seq(Characters)
        <5>1. e.padc \in Characters
          <6>1. e.padc \in Pads  BY <2>4, Zenon DEF Pads
          <6> QED BY <6>1, SomeCharacters
        <5> QED BY <2>6, <5>1, CopyTyped, Zenon
      <4>3. pad \o s \in Seq(Characters)  BY <2>3, <4>2, ConcatProperties
      <4> QED BY <4>1, <4>3, ConcatEmptySeq
    <3>2. strtol(field.text, base) = n
      <4>1. CASE e.padc = " "
        <5>1. field.text = Copy(" ", k) \o s  BY <3>1, <4>1
        <5> QED BY <2>3, <2>4, <2>6, <5>1, StrtolPlain
      <4>2. CASE e.padc = "0"
        <5>1. field.text = Copy("0", k) \o s  BY <3>1, <4>2
        <5> QED BY <2>3, <2>4, <2>6, <5>1, StrtolZeros
      <4> QED BY <2>4, <4>1, <4>2
    <3>3. CASE c = "d"
      <4>1. base = 10 /\ n = call.int  BY <2>10, <3>3 DEF BaseOf, OperandOf
      <4> QED BY <3>2, <3>3, <4>1
    <3>4. CASE c = "x"
      <4>1. base = 16 /\ n = Unsigned(call.int, e.lflag)  BY <3>4 DEF BaseOf, OperandOf
      <4> QED BY <3>2, <3>4, <4>1
    <3> QED BY <2>1, <2>10, <3>3, <3>4
  <2> QED BY <2>8, <2>9, <2>10
<1> QED BY <1>1, FormatInvariance, PTL

-----------------------------------------------------------------------------
(* String functions *)

Locals == [mem : [Places -> Byte], p : Nat, q : Nat, n : Nat, val : Int]

StringsTypes ==
  /\ asked \in StringCalls /\ locals \in Locals
  /\ strpc \in {"loop", "copy", "returned"} /\ (strpc = "copy" => asked.name = "strcat")

Scans == {"strlen", "strnlen", "strchr", "strfind", "memfind"}
Compares == {"strcmp", "strncmp", "memcmp"}
Copies == {"strcpy", "strcat", "strncpy", "strlcpy"}
Counting == {"strnlen", "memfind", "strncmp", "memcmp", "strncpy", "strlcpy"}

-----------------------------------------------------------------------------
LEMMA CallTyped ==
  ASSUME NEW k \in StringCalls
  PROVE  /\ k.mem \in [Places -> Byte] /\ k.p \in Nat /\ k.q \in Nat /\ k.n \in Nat /\ k.c \in Byte
         /\ k.name \in Scans \cup Compares \cup Copies
         /\ StringMemory \in Nat /\ Owed(k)
BY StringsAssumption DEF Scans, Compares, Copies

\* The end of a string is the one there is.
LEMMA EndIs ==
  ASSUME NEW m, NEW s \in Nat, NEW e \in Places, e >= s, m[e] = 0, \A a \in s .. e - 1 : m[a] # 0,
         StringMemory \in Nat
  PROVE  EndOf(m, s) = e
<1> DEFINE Is(x) == x \in Places /\ x >= s /\ m[x] = 0 /\ \A a \in s .. x - 1 : m[a] # 0
<1>1. Is(e)
  OBVIOUS
<1>2. ASSUME NEW x, Is(x) PROVE x = e
  <2>1. x \in Nat /\ e \in Nat  BY <1>2 DEF Places
  <2>2. CASE x < e
    <3>1. x \in s .. e - 1  BY <1>2, <2>1, <2>2
    <3> QED BY <1>2, <3>1
  <2>3. CASE x > e
    <3>1. e \in s .. x - 1  BY <1>2, <2>1, <2>3
    <3> QED BY <1>2, <3>1
  <2> QED BY <2>1, <2>2, <2>3
<1> HIDE DEF Is
<1>3. (CHOOSE x : Is(x)) = e
  BY <1>1, <1>2
<1> QED BY <1>3 DEF EndOf, Is

LEMMA EndExists ==
  ASSUME NEW m, NEW s \in Nat, Ends(m, s), StringMemory \in Nat
  PROVE  /\ EndOf(m, s) \in Places /\ EndOf(m, s) \in Nat /\ EndOf(m, s) >= s /\ m[EndOf(m, s)] = 0
         /\ \A a \in s .. EndOf(m, s) - 1 : m[a] # 0
<1> DEFINE zeros == {e \in Places : e >= s /\ m[e] = 0}
<1>1. zeros # {} /\ zeros \subseteq Nat
  BY DEF Ends, Places
<1>2. PICK e \in zeros : \A a \in zeros : e <= a
  BY <1>1, LeastOf
<1>3. e \in Nat /\ e \in Places /\ e >= s /\ m[e] = 0
  BY <1>2 DEF Places
<1>4. ASSUME NEW a \in s .. e - 1 PROVE m[a] # 0
  <2>1. a \in Places /\ a >= s /\ ~(e <= a)  BY <1>3 DEF Places
  <2> QED BY <1>2, <2>1
<1>5. EndOf(m, s) = e
  BY <1>3, <1>4, EndIs
<1> QED BY <1>3, <1>4, <1>5

\* How far a loop over a string gets.
LEMMA WithinString ==
  ASSUME NEW m, NEW s \in Nat, Ends(m, s), StringMemory \in Nat,
         NEW d \in Nat, \A i \in 0 .. d - 1 : m[s + i] # 0
  PROVE  /\ s + d <= EndOf(m, s) /\ s + d \in Places
         /\ m[s + d] = 0 <=> EndOf(m, s) = s + d
<1> DEFINE e == EndOf(m, s)
<1>1. e \in Places /\ e \in Nat /\ e >= s /\ m[e] = 0 /\ \A a \in s .. e - 1 : m[a] # 0
  BY EndExists
<1> HIDE DEF e
<1>2. s + d <= e
  <2> SUFFICES ASSUME ~(s + d <= e) PROVE FALSE  OBVIOUS
  <2>1. e - s \in 0 .. d - 1 /\ s + (e - s) = e  BY <1>1
  <2> QED BY <1>1, <2>1
<1>3. s + d \in Places
  BY <1>1, <1>2 DEF Places
<1>4. ASSUME m[s + d] = 0 PROVE e = s + d
  <2> SUFFICES ASSUME e # s + d PROVE FALSE  OBVIOUS
  <2>1. s + d \in s .. e - 1  BY <1>1, <1>2
  <2> QED BY <1>1, <1>4, <2>1
<1> QED BY <1>1, <1>2, <1>3, <1>4 DEF e

LEMMA StringOfIs ==
  ASSUME NEW m \in [Places -> Byte], NEW s \in Nat, Ends(m, s), StringMemory \in Nat
  PROVE  /\ StringOf(m, s) \in Seq(Byte) /\ Len(StringOf(m, s)) = EndOf(m, s) - s
         /\ EndOf(m, s) - s \in Nat
         /\ \A i \in 1 .. EndOf(m, s) - s : StringOf(m, s)[i] = m[s + i - 1] /\ m[s + i - 1] # 0
<1> DEFINE L == EndOf(m, s) - s
<1>1. L \in Nat /\ \A i \in 1 .. L : s + i - 1 \in Places /\ m[s + i - 1] # 0
  <2>1. /\ EndOf(m, s) \in Places /\ EndOf(m, s) \in Nat /\ EndOf(m, s) >= s
        /\ \A a \in s .. EndOf(m, s) - 1 : m[a] # 0
    BY EndExists
  <2>2. L \in Nat  BY <2>1
  <2>3. ASSUME NEW i \in 1 .. L PROVE s + i - 1 \in Places /\ m[s + i - 1] # 0
    <3>1. s + i - 1 \in s .. EndOf(m, s) - 1 /\ s + i - 1 \in Places  BY <2>1 DEF Places
    <3> QED BY <2>1, <3>1
  <2> QED BY <2>2, <2>3
<1>2. StringOf(m, s) = [i \in 1 .. L |-> m[s + i - 1]]
  BY DEF StringOf
<1> HIDE DEF L
<1>3. \A i \in 1 .. L : m[s + i - 1] \in Byte
  BY <1>1
<1>4. StringOf(m, s) \in Seq(Byte) /\ Len(StringOf(m, s)) = L
  BY <1>1, <1>2, <1>3
<1> QED BY <1>1, <1>2, <1>4 DEF L

LEMMA BytesAre ==
  ASSUME NEW m \in [Places -> Byte], NEW s \in Nat, NEW n \in Nat, s + n <= StringMemory, StringMemory \in Nat
  PROVE  /\ Bytes(m, s, n) \in Seq(Byte) /\ Len(Bytes(m, s, n)) = n
         /\ \A i \in 1 .. n : Bytes(m, s, n)[i] = m[s + i - 1]
<1>1. \A i \in 1 .. n : s + i - 1 \in Places
  BY DEF Places
<1>2. \A i \in 1 .. n : m[s + i - 1] \in Byte
  BY <1>1
<1> QED BY <1>2 DEF Bytes

LEMMA CutIs ==
  ASSUME NEW t \in Seq(Byte), NEW n \in Int
  PROVE  /\ Cut(t, n) \in Seq(Byte)
         /\ Len(Cut(t, n)) = (IF n < 0 THEN 0 ELSE IF n < Len(t) THEN n ELSE Len(t))
         /\ \A i \in 1 .. Len(Cut(t, n)) : Cut(t, n)[i] = t[i]
<1> DEFINE k == Least(n, Len(t))
<1>1. Len(t) \in Nat
  BY LenProperties
<1>2. k \in Int /\ k <= Len(t) /\ k = (IF n < Len(t) THEN n ELSE Len(t))
  BY <1>1 DEF Least
<1> HIDE DEF k
<1>3. \A i \in 1 .. k : t[i] \in Byte
  <2>1. \A i \in 1 .. k : i \in 1 .. Len(t)  BY <1>1, <1>2
  <2> QED BY <2>1, ElementOfSeq
<1>4. /\ SubSeq(t, 1, k) \in Seq(Byte) /\ Len(SubSeq(t, 1, k)) = (IF 1 <= k THEN k - 1 + 1 ELSE 0)
      /\ \A i \in 1 .. k - 1 + 1 : SubSeq(t, 1, k)[i] = t[1 + i - 1]
  BY <1>2, <1>3, SubSeqProperties
<1>5. Cut(t, n) = SubSeq(t, 1, k)
  BY DEF Cut, k
<1>6. (IF 1 <= k THEN k - 1 + 1 ELSE 0) = (IF n < 0 THEN 0 ELSE IF n < Len(t) THEN n ELSE Len(t))
  BY <1>1, <1>2
<1>7. ASSUME NEW i \in 1 .. (IF 1 <= k THEN k - 1 + 1 ELSE 0) PROVE SubSeq(t, 1, k)[i] = t[i]
  <2>1. i \in 1 .. k - 1 + 1 /\ 1 + i - 1 = i  BY <1>2
  <2> QED BY <1>4, <2>1
<1> QED BY <1>4, <1>5, <1>6, <1>7

LEMMA DistanceIs ==
  ASSUME NEW t \in Seq(Byte), NEW c, NEW n \in 0 .. Len(t), \A i \in 1 .. n : t[i] # c, n < Len(t) => t[n + 1] = c
  PROVE  Distance(t, c) = n
<1> DEFINE Is(x) == x \in 0 .. Len(t) /\ (\A i \in 1 .. x : t[i] # c) /\ (x < Len(t) => t[x + 1] = c)
<1>1. Len(t) \in Nat
  BY LenProperties
<1>2. Is(n)
  OBVIOUS
<1>3. ASSUME NEW x, Is(x) PROVE x = n
  <2>1. CASE x < n
    <3>1. x + 1 \in 1 .. n /\ x < Len(t)  BY <1>1, <1>3, <2>1
    <3> QED BY <1>3, <3>1
  <2>2. CASE x > n
    <3>1. n + 1 \in 1 .. x /\ n < Len(t)  BY <1>1, <1>3, <2>2
    <3> QED BY <1>3, <3>1
  <2> QED BY <1>1, <1>3, <2>1, <2>2
<1> HIDE DEF Is
<1>4. (CHOOSE x : Is(x)) = n
  BY <1>2, <1>3
<1> QED BY <1>4 DEF Distance, Is

LEMMA ComparedIs ==
  ASSUME NEW s \in Seq(Byte), NEW t \in Seq(Byte), NEW n \in Nat, n <= Len(s), n <= Len(t),
         \A j \in 1 .. n : s[j] = t[j],
         n < Len(s) /\ n < Len(t) => s[n + 1] # t[n + 1]
  PROVE  Compared(s, t) = IF n < Len(s) /\ n < Len(t) THEN Sign(s[n + 1] - t[n + 1]) ELSE Sign(Len(s) - Len(t))
<1> DEFINE k == Least(Len(s), Len(t))
           same == {i \in 0 .. k : \A j \in 1 .. i : s[j] = t[j]}
           Is(i) == i \in same /\ \A j \in same : j <= i
<1>1. Len(s) \in Nat /\ Len(t) \in Nat
  BY LenProperties
<1>2. k \in Nat /\ k <= Len(s) /\ k <= Len(t) /\ n <= k /\ (n < k => n < Len(s) /\ n < Len(t))
  BY <1>1 DEF Least
<1> HIDE DEF k
<1>3. n \in same
  BY <1>2
<1>4. ASSUME NEW i \in same PROVE i <= n
  <2> SUFFICES ASSUME ~(i <= n) PROVE FALSE  OBVIOUS
  <2>1. n + 1 \in 1 .. i /\ n < k  BY <1>2
  <2> QED BY <1>2, <2>1
<1>5. \A i : Is(i) => i = n
  <2> SUFFICES ASSUME NEW i, Is(i) PROVE i = n  OBVIOUS
  <2>1. i \in Int /\ i <= n /\ n <= i  BY <1>3, <1>4
  <2> QED BY <2>1
<1>6. Is(n)
  BY <1>3, <1>4
<1> DEFINE longest == CHOOSE i \in same : \A j \in same : j <= i
<1>7. longest = n
  <2>1. (CHOOSE i : Is(i)) = n
    <3> HIDE DEF Is
    <3> QED BY <1>5, <1>6
  <2> QED BY <2>1
<1>8. Compared(s, t) = IF 1 + longest <= Len(s) /\ 1 + longest <= Len(t)
                       THEN Sign(s[1 + longest] - t[1 + longest]) ELSE Sign(Len(s) - Len(t))
  BY DEF Compared, k
<1>9. 1 + n = n + 1 /\ (1 + n <= Len(s) <=> n < Len(s)) /\ (1 + n <= Len(t) <=> n < Len(t))
  BY <1>1
<1> HIDE DEF longest
<1> QED BY <1>7, <1>8, <1>9

\* Two strings that differ where the loop ends: a null counts as a byte that
\* is smaller than those of the string.
LEMMA ComparedBytes ==
  ASSUME NEW s \in Seq(Byte), NEW t \in Seq(Byte), NEW n \in Nat, n <= Len(s), n <= Len(t),
         \A j \in 1 .. n : s[j] = t[j],
         NEW x \in Byte, NEW y \in Byte,
         IF n < Len(s) THEN x = s[n + 1] /\ x # 0 ELSE x = 0,
         IF n < Len(t) THEN y = t[n + 1] /\ y # 0 ELSE y = 0,
         x # y \/ x = 0
  PROVE  Sign(x - y) = Compared(s, t)
<1>1. Len(s) \in Nat /\ Len(t) \in Nat /\ x \in Int /\ y \in Int /\ x >= 0 /\ y >= 0
  BY LenProperties DEF Byte
<1>2. Compared(s, t) = IF n < Len(s) /\ n < Len(t) THEN Sign(s[n + 1] - t[n + 1]) ELSE Sign(Len(s) - Len(t))
  BY <1>1, ComparedIs
<1>3. CASE n < Len(s) /\ n < Len(t)
  BY <1>2, <1>3
<1>4. CASE n < Len(s) /\ ~(n < Len(t))
  <2>1. Len(s) - Len(t) > 0 /\ x - y > 0 /\ Len(s) - Len(t) \in Int /\ x - y \in Int  BY <1>1, <1>4
  <2> QED BY <1>2, <1>4, <2>1 DEF Sign
<1>5. CASE ~(n < Len(s)) /\ n < Len(t)
  <2>1. Len(s) - Len(t) < 0 /\ x - y < 0 /\ Len(s) - Len(t) \in Int /\ x - y \in Int  BY <1>1, <1>5
  <2> QED BY <1>2, <1>5, <2>1 DEF Sign
<1>6. CASE ~(n < Len(s)) /\ ~(n < Len(t))
  <2>1. Len(s) - Len(t) = 0 /\ x - y = 0  BY <1>1, <1>6
  <2> QED BY <1>2, <1>6, <2>1 DEF Sign
<1> QED BY <1>3, <1>4, <1>5, <1>6

\* What a loop that has passed d bytes of a string looks at.
Walked(m, s, d) ==
  LET t == StringOf(m, s) IN
  /\ t \in Seq(Byte) /\ Len(t) \in Nat /\ d <= Len(t) /\ EndOf(m, s) = s + Len(t)
  /\ s + d \in Places /\ m[s + d] \in Byte
  /\ IF d < Len(t) THEN m[s + d] = t[d + 1] /\ m[s + d] # 0 ELSE m[s + d] = 0
  /\ \A i \in 1 .. Len(t) : t[i] = m[s + i - 1] /\ t[i] # 0

LEMMA Walk ==
  ASSUME NEW m \in [Places -> Byte], NEW s \in Nat, Ends(m, s), StringMemory \in Nat,
         NEW d \in Nat, \A i \in 0 .. d - 1 : m[s + i] # 0
  PROVE  Walked(m, s, d)
<1> DEFINE t == StringOf(m, s)
<1>1. /\ t \in Seq(Byte) /\ Len(t) = EndOf(m, s) - s /\ Len(t) \in Nat
      /\ \A i \in 1 .. Len(t) : t[i] = m[s + i - 1] /\ t[i] # 0
  BY StringOfIs
<1>2. /\ s + d <= EndOf(m, s) /\ s + d \in Places
      /\ m[s + d] = 0 <=> EndOf(m, s) = s + d
  BY WithinString
<1>3. EndOf(m, s) \in Nat
  BY EndExists
<1> HIDE DEF t
<1>4. EndOf(m, s) = s + Len(t) /\ d <= Len(t)
  BY <1>1, <1>2, <1>3
<1>5. ASSUME d < Len(t) PROVE m[s + d] = t[d + 1] /\ m[s + d] # 0
  <2>1. d + 1 \in 1 .. Len(t) /\ s + (d + 1) - 1 = s + d  BY <1>1, <1>5
  <2> QED BY <1>1, <2>1
<1>6. ASSUME ~(d < Len(t)) PROVE m[s + d] = 0
  BY <1>1, <1>2, <1>4, <1>6, SMTT(20)
<1> QED BY <1>1, <1>2, <1>4, <1>5, <1>6 DEF Walked, t

-----------------------------------------------------------------------------
(* Looking for a byte *)

\* How many bytes a loop has passed.
Passed == locals.p - asked.p

\* The bytes passed are none of those the loop ends at.
ScanLoop ==
  /\ locals.mem = asked.mem /\ Passed \in Nat
  /\ asked.name # "memfind" => \A i \in 0 .. Passed - 1 : asked.mem[asked.p + i] # 0
  /\ asked.name \in {"strchr", "strfind", "memfind"} =>
       \A i \in 0 .. Passed - 1 : asked.mem[asked.p + i] # asked.c
  /\ asked.name \in {"strlen", "strnlen"} => locals.val = Passed
  /\ asked.name \in {"strnlen", "memfind"} => locals.n = asked.n - Passed

Scanning == asked.name \in Scans => (strpc = "loop" => ScanLoop) /\ ScansExact

LEMMA ScanPlace ==
  ASSUME StringsTypes, ScanLoop, asked.name \in Scans
  PROVE  /\ locals.p = asked.p + Passed /\ P = asked.mem[asked.p + Passed]
         /\ asked.p \in Nat /\ asked.n \in Nat /\ asked.c \in Byte /\ Passed \in Nat
         /\ locals.n \in Nat /\ locals.val \in Int
         /\ asked.name = "memfind" => asked.p + asked.n <= StringMemory
         /\ asked.mem \in [Places -> Byte] /\ StringMemory \in Nat
         /\ asked.name # "memfind" =>
              LET t == StringOf(asked.mem, asked.p) IN
              /\ t \in Seq(Byte) /\ Len(t) \in Nat /\ Passed <= Len(t)
              /\ IF Passed < Len(t) THEN P = t[Passed + 1] /\ P # 0 ELSE P = 0
              /\ \A i \in 1 .. Len(t) : t[i] = asked.mem[asked.p + i - 1] /\ t[i] # 0
<1>1. asked \in StringCalls /\ locals \in Locals
  BY DEF StringsTypes
<1>2. /\ asked.p \in Nat /\ asked.n \in Nat /\ asked.c \in Byte /\ asked.mem \in [Places -> Byte]
      /\ StringMemory \in Nat /\ Owed(asked)
  BY <1>1, CallTyped
<1>3. locals.p \in Nat /\ locals.n \in Nat /\ locals.val \in Int
  BY <1>1 DEF Locals
<1>4. locals.p = asked.p + Passed /\ P = asked.mem[asked.p + Passed] /\ Passed \in Nat
  BY <1>2, <1>3 DEF ScanLoop, Passed, P
<1>5. asked.name = "memfind" => asked.p + asked.n <= StringMemory
  BY <1>2 DEF Owed
<1>6. asked.name # "memfind" => Ends(asked.mem, asked.p)
  BY <1>2 DEF Owed, Scans
<1>7. asked.name # "memfind" => \A i \in 0 .. Passed - 1 : asked.mem[asked.p + i] # 0
  BY DEF ScanLoop
<1> HIDE DEF Passed
<1>8. ASSUME asked.name # "memfind"
      PROVE  LET t == StringOf(asked.mem, asked.p) IN
              /\ t \in Seq(Byte) /\ Len(t) \in Nat /\ Passed <= Len(t)
              /\ IF Passed < Len(t) THEN P = t[Passed + 1] /\ P # 0 ELSE P = 0
              /\ \A i \in 1 .. Len(t) : t[i] = asked.mem[asked.p + i - 1] /\ t[i] # 0
  <2>1. Ends(asked.mem, asked.p) /\ \A i \in 0 .. Passed - 1 : asked.mem[asked.p + i] # 0
    BY <1>6, <1>7, <1>8
  <2>2. Walked(asked.mem, asked.p, Passed)  BY <1>2, <1>4, <2>1, Walk
  <2> QED BY <1>4, <2>2 DEF Walked
<1> QED BY <1>2, <1>3, <1>4, <1>5, <1>8

\* A turn of a loop passes a byte that it does not end at.
LEMMA ScanTurn ==
  ASSUME StringsTypes, ScanLoop, asked.name \in Scans, asked' = asked,
         locals'.mem = locals.mem, locals'.p = locals.p + 1,
         asked.name # "memfind" => P # 0,
         asked.name \in {"strchr", "strfind", "memfind"} => P # asked.c,
         asked.name \in {"strlen", "strnlen"} => locals'.val = locals.val + 1,
         asked.name \in {"strnlen", "memfind"} => locals'.n = locals.n - 1
  PROVE  ScanLoop'
<1>1. /\ locals.p = asked.p + Passed /\ P = asked.mem[asked.p + Passed]
      /\ asked.p \in Nat /\ Passed \in Nat /\ asked.n \in Nat
  BY ScanPlace
<1>2. Passed' = Passed + 1 /\ Passed' \in Nat
  BY <1>1 DEF Passed
<1>3. \A i \in 0 .. Passed' - 1 : i \in 0 .. Passed - 1 \/ i = Passed
  BY <1>1, <1>2
<1> QED BY <1>1, <1>2, <1>3 DEF ScanLoop

LEMMA ScanKept ==
  ASSUME StringsTypes, Scanning, strlen \/ strnlen \/ strchr \/ strfind \/ memfind
  PROVE  Scanning'
<1>1. strpc = "loop" /\ asked' = asked /\ asked.name \in Scans /\ ScanLoop /\ locals \in Locals
  BY DEF strlen, strnlen, strchr, strfind, memfind, Of, Again, Give, Scanning, Scans, StringsTypes
<1> DEFINE t == StringOf(asked.mem, asked.p)
           d == Passed
<1>2. /\ locals.p = asked.p + d /\ P = asked.mem[asked.p + d]
      /\ asked.p \in Nat /\ asked.n \in Nat /\ asked.c \in Byte /\ d \in Nat
      /\ locals.n \in Nat /\ locals.val \in Int
      /\ asked.name = "memfind" => asked.p + asked.n <= StringMemory
      /\ asked.mem \in [Places -> Byte] /\ StringMemory \in Nat
  BY <1>1, ScanPlace
<1>3. asked.name # "memfind" =>
        /\ t \in Seq(Byte) /\ Len(t) \in Nat /\ d <= Len(t)
        /\ IF d < Len(t) THEN P = t[d + 1] /\ P # 0 ELSE P = 0
        /\ \A i \in 1 .. Len(t) : t[i] = asked.mem[asked.p + i - 1] /\ t[i] # 0
  BY <1>1, ScanPlace
<1>4. ASSUME asked.name # "memfind",
             \A i \in 0 .. d - 1 : asked.mem[asked.p + i] # asked.c, P = 0 \/ P = asked.c
      PROVE  Distance(t, asked.c) = d
  <2>1. \A i \in 1 .. d : i - 1 \in 0 .. d - 1 /\ i \in 1 .. Len(t) /\ asked.p + (i - 1) = asked.p + i - 1
    BY <1>2, <1>3, <1>4
  <2>2. \A i \in 1 .. d : t[i] # asked.c  BY <1>3, <1>4, <2>1
  <2>3. d < Len(t) => t[d + 1] = asked.c  BY <1>3, <1>4
  <2>4. d \in 0 .. Len(t) /\ t \in Seq(Byte)  BY <1>2, <1>3, <1>4
  <2> HIDE DEF t, d
  <2> QED BY <2>2, <2>3, <2>4, DistanceIs
<1> HIDE DEF t, d
<1> DEFINE found == asked.p + Distance(t, asked.c)
           Exact(v) ==
             CASE asked.name = "strlen" -> v = Len(t)
               [] asked.name = "strnlen" -> v = Least(asked.n, Len(t))
               [] asked.name = "strchr" -> v = IF found < asked.p + Len(t) THEN found ELSE NULL
               [] asked.name = "strfind" -> v = found
               [] asked.name = "memfind" -> v = asked.p + Distance(Bytes(asked.mem, asked.p, asked.n), asked.c)
               [] OTHER -> TRUE
<1>5. (strpc' = "returned" => Exact(locals'.val)) => ScansExact'
  BY <1>1 DEF ScansExact, t
<1> HIDE DEF found
<1>6. CASE strlen
  <2>1. asked.name = "strlen"  BY <1>6 DEF strlen, Of
  <2>2. CASE P # 0
    <3>1. strpc' = "loop" /\ locals' = [locals EXCEPT !.p = @ + 1, !.val = @ + 1]
      BY <1>1, <1>6, <2>2 DEF strlen, Again
    <3>2. locals'.mem = locals.mem /\ locals'.p = locals.p + 1 /\ locals'.val = locals.val + 1
      BY <1>1, <3>1 DEF Locals
    <3>3. ScanLoop'  BY <1>1, <2>1, <2>2, <3>2, ScanTurn
    <3> QED BY <1>5, <3>1, <3>3 DEF Scanning
  <2>3. CASE P = 0
    <3>1. strpc' = "returned" /\ locals'.val = locals.val
      BY <1>1, <1>6, <2>3 DEF strlen, Give, Locals
    <3>2. locals.val = d  BY <1>1, <2>1 DEF ScanLoop, d
    <3>3. d = Len(t)  BY <1>2, <1>3, <2>1, <2>3
    <3> QED BY <1>5, <2>1, <3>1, <3>2, <3>3 DEF Scanning
  <2> QED BY <2>2, <2>3
<1>7. CASE strnlen
  <2>1. asked.name = "strnlen"  BY <1>7 DEF strnlen, Of
  <2>2. locals.n = asked.n - d /\ locals.val = d  BY <1>1, <2>1 DEF ScanLoop, d
  <2>3. CASE locals.n > 0 /\ P # 0
    <3>1. strpc' = "loop" /\ locals' = [locals EXCEPT !.p = @ + 1, !.n = @ - 1, !.val = @ + 1]
      BY <1>1, <1>7, <2>3 DEF strnlen, Again
    <3>2. locals'.mem = locals.mem /\ locals'.p = locals.p + 1 /\ locals'.val = locals.val + 1
          /\ locals'.n = locals.n - 1
      BY <1>1, <3>1 DEF Locals
    <3>3. ScanLoop'  BY <1>1, <2>1, <2>3, <3>2, ScanTurn
    <3> QED BY <1>5, <3>1, <3>3 DEF Scanning
  <2>4. CASE ~(locals.n > 0 /\ P # 0)
    <3>1. strpc' = "returned" /\ locals'.val = locals.val
      BY <1>1, <1>7, <2>4 DEF strnlen, Give, Locals
    <3>2. d = Least(asked.n, Len(t))
      <4>1. d <= asked.n /\ (d = asked.n \/ d = Len(t))  BY <1>2, <1>3, <2>1, <2>2, <2>4
      <4> QED BY <1>2, <1>3, <2>1, <4>1 DEF Least
    <3> QED BY <1>5, <2>1, <2>2, <3>1, <3>2 DEF Scanning
  <2> QED BY <2>3, <2>4
<1>8. CASE strchr
  <2>1. asked.name = "strchr"  BY <1>8 DEF strchr, Of
  <2>2. CASE P # 0 /\ P # asked.c
    <3>1. strpc' = "loop" /\ locals' = [locals EXCEPT !.p = @ + 1]
      BY <1>1, <1>8, <2>2 DEF strchr, Again
    <3>2. locals'.mem = locals.mem /\ locals'.p = locals.p + 1
      BY <1>1, <3>1 DEF Locals
    <3>3. ScanLoop'  BY <1>1, <2>1, <2>2, <3>2, ScanTurn
    <3> QED BY <1>5, <3>1, <3>3 DEF Scanning
  <2>3. CASE ~(P # 0 /\ P # asked.c)
    <3>1. strpc' = "returned" /\ locals'.val = IF P # 0 THEN locals.p ELSE NULL
      BY <1>1, <1>8, <2>3 DEF strchr, Give, Locals
    <3>2. Distance(t, asked.c) = d  BY <1>1, <1>4, <2>1, <2>3 DEF ScanLoop, d
    <3>3. found < asked.p + Len(t) <=> P # 0  BY <1>2, <1>3, <2>1, <3>2 DEF found
    <3>4. locals.p = found  BY <1>2, <3>2 DEF found
    <3> QED BY <1>5, <2>1, <3>1, <3>3, <3>4 DEF Scanning
  <2> QED BY <2>2, <2>3
<1>9. CASE strfind
  <2>1. asked.name = "strfind"  BY <1>9 DEF strfind, Of
  <2>2. CASE P # 0 /\ P # asked.c
    <3>1. strpc' = "loop" /\ locals' = [locals EXCEPT !.p = @ + 1]
      BY <1>1, <1>9, <2>2 DEF strfind, Again
    <3>2. locals'.mem = locals.mem /\ locals'.p = locals.p + 1
      BY <1>1, <3>1 DEF Locals
    <3>3. ScanLoop'  BY <1>1, <2>1, <2>2, <3>2, ScanTurn
    <3> QED BY <1>5, <3>1, <3>3 DEF Scanning
  <2>3. CASE ~(P # 0 /\ P # asked.c)
    <3>1. strpc' = "returned" /\ locals'.val = locals.p
      BY <1>1, <1>9, <2>3 DEF strfind, Give, Locals
    <3>2. Distance(t, asked.c) = d  BY <1>1, <1>4, <2>1, <2>3 DEF ScanLoop, d
    <3>3. locals.p = found  BY <1>2, <3>2 DEF found
    <3> QED BY <1>5, <2>1, <3>1, <3>3 DEF Scanning
  <2> QED BY <2>2, <2>3
<1>10. CASE memfind
  <2>1. asked.name = "memfind"  BY <1>10 DEF memfind, Of
  <2>2. locals.n = asked.n - d /\ \A i \in 0 .. d - 1 : asked.mem[asked.p + i] # asked.c
    BY <1>1, <2>1 DEF ScanLoop, d
  <2>3. CASE locals.n > 0 /\ P # asked.c
    <3>1. strpc' = "loop" /\ locals' = [locals EXCEPT !.p = @ + 1, !.n = @ - 1]
      BY <1>1, <1>10, <2>3 DEF memfind, Again
    <3>2. locals'.mem = locals.mem /\ locals'.p = locals.p + 1 /\ locals'.n = locals.n - 1
      BY <1>1, <3>1 DEF Locals
    <3>3. ScanLoop'  BY <1>1, <2>1, <2>3, <3>2, ScanTurn
    <3> QED BY <1>5, <3>1, <3>3 DEF Scanning
  <2>4. CASE ~(locals.n > 0 /\ P # asked.c)
    <3>1. strpc' = "returned" /\ locals'.val = locals.p
      BY <1>1, <1>10, <2>4 DEF memfind, Give, Locals
    <3> DEFINE r == Bytes(asked.mem, asked.p, asked.n)
    <3>2. r \in Seq(Byte) /\ Len(r) = asked.n /\ \A i \in 1 .. asked.n : r[i] = asked.mem[asked.p + i - 1]
      BY <1>2, <2>1, BytesAre
    <3> HIDE DEF r
    <3>3. Distance(r, asked.c) = d
      <4>1. d \in 0 .. Len(r)  BY <1>2, <2>2, <3>2
      <4>2. \A i \in 1 .. d : i - 1 \in 0 .. d - 1 /\ i \in 1 .. asked.n /\ asked.p + (i - 1) = asked.p + i - 1
        BY <1>2, <2>2
      <4>3. \A i \in 1 .. d : r[i] # asked.c  BY <2>2, <3>2, <4>2
      <4>4. ASSUME d < Len(r) PROVE r[d + 1] = asked.c
        <5>1. d + 1 \in 1 .. asked.n /\ asked.p + (d + 1) - 1 = asked.p + d /\ locals.n > 0
          BY <1>2, <2>2, <3>2, <4>4
        <5> QED BY <1>2, <2>4, <3>2, <5>1
      <4> QED BY <3>2, <4>1, <4>3, <4>4, DistanceIs
    <3> QED BY <1>2, <1>5, <2>1, <3>1, <3>3 DEF Scanning, r
  <2> QED BY <2>3, <2>4
<1> QED BY <1>6, <1>7, <1>8, <1>9, <1>10

-----------------------------------------------------------------------------
(* Comparing *)

\* The bytes passed are the same ones, and no ends.
CompareLoop ==
  /\ locals.mem = asked.mem /\ Passed \in Nat /\ locals.q = asked.q + Passed
  /\ \A i \in 0 .. Passed - 1 : asked.mem[asked.p + i] = asked.mem[asked.q + i]
  /\ asked.name # "memcmp" => \A i \in 0 .. Passed - 1 : asked.mem[asked.p + i] # 0
  /\ asked.name # "strcmp" => locals.n = asked.n - Passed

Comparing == asked.name \in Compares => (strpc = "loop" => CompareLoop) /\ ComparesExact

LEMMA ComparePlace ==
  ASSUME StringsTypes, CompareLoop, asked.name \in Compares
  PROVE  LET m == asked.mem
             s == StringOf(m, asked.p)
             t == StringOf(m, asked.q)
             d == Passed
         IN
         /\ locals.p = asked.p + d /\ P = m[asked.p + d] /\ Q = m[asked.q + d]
         /\ asked.p \in Nat /\ asked.q \in Nat /\ asked.n \in Nat /\ locals.n \in Nat /\ d \in Nat
         /\ m \in [Places -> Byte] /\ StringMemory \in Nat
         /\ asked.name = "memcmp" => asked.p + asked.n <= StringMemory /\ asked.q + asked.n <= StringMemory
         /\ asked.name # "memcmp" =>
              /\ s \in Seq(Byte) /\ Len(s) \in Nat /\ d <= Len(s) /\ P \in Byte
              /\ t \in Seq(Byte) /\ Len(t) \in Nat /\ d <= Len(t) /\ Q \in Byte
              /\ IF d < Len(s) THEN P = s[d + 1] /\ P # 0 ELSE P = 0
              /\ IF d < Len(t) THEN Q = t[d + 1] /\ Q # 0 ELSE Q = 0
              /\ \A i \in 1 .. d : s[i] = t[i]
<1> DEFINE m == asked.mem
           s == StringOf(m, asked.p)
           t == StringOf(m, asked.q)
           d == Passed
<1>1. asked \in StringCalls /\ locals \in Locals
  BY DEF StringsTypes
<1>2. /\ asked.p \in Nat /\ asked.q \in Nat /\ asked.n \in Nat /\ m \in [Places -> Byte]
      /\ StringMemory \in Nat /\ Owed(asked)
  BY <1>1, CallTyped
<1>3. locals.p \in Nat /\ locals.n \in Nat
  BY <1>1 DEF Locals
<1>4. locals.p = asked.p + d /\ P = m[asked.p + d] /\ Q = m[asked.q + d] /\ d \in Nat
  BY <1>2, <1>3 DEF CompareLoop, Passed, P, Q
<1>5. asked.name = "memcmp" => asked.p + asked.n <= StringMemory /\ asked.q + asked.n <= StringMemory
  BY <1>2 DEF Owed
<1>6. asked.name # "memcmp" => Ends(m, asked.p) /\ Ends(m, asked.q)
  BY <1>2 DEF Owed, Compares
<1>7. /\ \A i \in 0 .. d - 1 : m[asked.p + i] = m[asked.q + i]
      /\ asked.name # "memcmp" => \A i \in 0 .. d - 1 : m[asked.p + i] # 0
  BY DEF CompareLoop
<1> HIDE DEF d, m, s, t
<1>8. ASSUME asked.name # "memcmp"
      PROVE  /\ s \in Seq(Byte) /\ Len(s) \in Nat /\ d <= Len(s) /\ P \in Byte
             /\ t \in Seq(Byte) /\ Len(t) \in Nat /\ d <= Len(t) /\ Q \in Byte
             /\ IF d < Len(s) THEN P = s[d + 1] /\ P # 0 ELSE P = 0
             /\ IF d < Len(t) THEN Q = t[d + 1] /\ Q # 0 ELSE Q = 0
             /\ \A i \in 1 .. d : s[i] = t[i]
  <2>1. /\ s \in Seq(Byte) /\ Len(s) \in Nat /\ d <= Len(s) /\ P \in Byte
        /\ IF d < Len(s) THEN P = s[d + 1] /\ P # 0 ELSE P = 0
        /\ \A i \in 1 .. Len(s) : s[i] = m[asked.p + i - 1]
    <3>1. \A i \in 0 .. d - 1 : m[asked.p + i] # 0  BY <1>7, <1>8
    <3>2. Ends(m, asked.p)  BY <1>6, <1>8
    <3>3. Walked(m, asked.p, d)  BY <1>2, <1>4, <3>1, <3>2, Walk
    <3> QED BY <1>4, <3>3 DEF Walked, s
  <2>2. \A i \in 0 .. d - 1 : m[asked.q + i] # 0
    BY <1>7, <1>8
  <2>3. /\ t \in Seq(Byte) /\ Len(t) \in Nat /\ d <= Len(t) /\ Q \in Byte
        /\ IF d < Len(t) THEN Q = t[d + 1] /\ Q # 0 ELSE Q = 0
        /\ \A i \in 1 .. Len(t) : t[i] = m[asked.q + i - 1]
    <3>1. Ends(m, asked.q)  BY <1>6, <1>8
    <3>2. Walked(m, asked.q, d)  BY <1>2, <1>4, <2>2, <3>1, Walk
    <3> QED BY <1>4, <3>2 DEF Walked, t
  <2>4. ASSUME NEW i \in 1 .. d PROVE s[i] = t[i]
    <3>1. d \in Nat /\ Len(s) \in Nat /\ Len(t) \in Nat /\ d <= Len(s) /\ d <= Len(t)
          /\ asked.p \in Nat /\ asked.q \in Nat
      BY <1>2, <1>4, <2>1, <2>3
    <3>2. i - 1 \in 0 .. d - 1 /\ i \in 1 .. Len(s) /\ i \in 1 .. Len(t)
          /\ asked.p + i - 1 = asked.p + (i - 1) /\ asked.q + i - 1 = asked.q + (i - 1)
      BY <3>1
    <3> QED BY <1>7, <2>1, <2>3, <3>2
  <2> QED BY <2>1, <2>3, <2>4
<1> QED BY <1>2, <1>3, <1>4, <1>5, <1>8 DEF d, m, s, t

LEMMA CompareTurn ==
  ASSUME StringsTypes, CompareLoop, asked.name \in Compares, asked' = asked,
         locals'.mem = locals.mem, locals'.p = locals.p + 1, locals'.q = locals.q + 1,
         P = Q, asked.name # "memcmp" => P # 0,
         asked.name # "strcmp" => locals'.n = locals.n - 1
  PROVE  CompareLoop'
<1>1. /\ locals.p = asked.p + Passed /\ P = asked.mem[asked.p + Passed] /\ Q = asked.mem[asked.q + Passed]
      /\ asked.p \in Nat /\ asked.q \in Nat /\ Passed \in Nat /\ asked.n \in Nat
  BY ComparePlace
<1>2. Passed' = Passed + 1 /\ Passed' \in Nat
  BY <1>1 DEF Passed
<1>3. \A i \in 0 .. Passed' - 1 : i \in 0 .. Passed - 1 \/ i = Passed
  BY <1>1, <1>2
<1>4. locals'.q = asked.q + Passed'
  BY <1>1, <1>2 DEF CompareLoop
<1>5. asked.name # "strcmp" => locals'.n = asked.n - Passed'
  BY <1>1, <1>2 DEF CompareLoop
<1>6. \A i \in 0 .. Passed' - 1 : asked.mem[asked.p + i] = asked.mem[asked.q + i]
  BY <1>1, <1>3 DEF CompareLoop
<1>7. asked.name # "memcmp" => \A i \in 0 .. Passed' - 1 : asked.mem[asked.p + i] # 0
  BY <1>1, <1>3 DEF CompareLoop
<1>8. locals'.mem = asked.mem
  BY DEF CompareLoop
<1> QED BY <1>2, <1>4, <1>5, <1>6, <1>7, <1>8 DEF CompareLoop

LEMMA CompareKept ==
  ASSUME StringsTypes, Comparing, strcmp \/ strncmp \/ memcmp
  PROVE  Comparing'
<1>1. strpc = "loop" /\ asked' = asked /\ asked.name \in Compares /\ CompareLoop /\ locals \in Locals
  BY DEF strcmp, strncmp, memcmp, Of, Again, Give, Comparing, Compares, StringsTypes
<1> DEFINE m == asked.mem
           s == StringOf(m, asked.p)
           t == StringOf(m, asked.q)
           d == Passed
           n == asked.n
<1>2. /\ locals.p = asked.p + d /\ P = m[asked.p + d] /\ Q = m[asked.q + d]
      /\ asked.p \in Nat /\ asked.q \in Nat /\ n \in Nat /\ locals.n \in Nat /\ d \in Nat
      /\ m \in [Places -> Byte] /\ StringMemory \in Nat
      /\ asked.name = "memcmp" => asked.p + n <= StringMemory /\ asked.q + n <= StringMemory
  BY <1>1, ComparePlace
<1>3. asked.name # "memcmp" =>
        /\ s \in Seq(Byte) /\ Len(s) \in Nat /\ d <= Len(s) /\ P \in Byte
        /\ t \in Seq(Byte) /\ Len(t) \in Nat /\ d <= Len(t) /\ Q \in Byte
        /\ IF d < Len(s) THEN P = s[d + 1] /\ P # 0 ELSE P = 0
        /\ IF d < Len(t) THEN Q = t[d + 1] /\ Q # 0 ELSE Q = 0
        /\ \A i \in 1 .. d : s[i] = t[i]
  BY <1>1, ComparePlace
<1>4. /\ \A i \in 0 .. d - 1 : m[asked.p + i] = m[asked.q + i]
      /\ asked.name # "strcmp" => locals.n = n - d
  BY <1>1 DEF CompareLoop
<1> DEFINE Exact(v) ==
             CASE asked.name = "strcmp" -> Sign(v) = Compared(s, t)
               [] asked.name = "strncmp" -> Sign(v) = Compared(Cut(s, n), Cut(t, n))
               [] asked.name = "memcmp" -> Sign(v) = Compared(Bytes(m, asked.p, n), Bytes(m, asked.q, n))
               [] OTHER -> TRUE
<1>5. (strpc' = "returned" => Exact(locals'.val)) => ComparesExact'
  BY <1>1 DEF ComparesExact
<1> HIDE DEF m, s, t, d, n
<1>6. CASE strcmp
  <2>1. asked.name = "strcmp"  BY <1>6 DEF strcmp, Of
  <2>2. CASE P # 0 /\ P = Q
    <3>1. strpc' = "loop" /\ locals' = [locals EXCEPT !.p = @ + 1, !.q = @ + 1]
      BY <1>1, <1>6, <2>2 DEF strcmp, Again
    <3>2. locals'.mem = locals.mem /\ locals'.p = locals.p + 1 /\ locals'.q = locals.q + 1
      BY <1>1, <3>1 DEF Locals
    <3>3. CompareLoop'  BY <1>1, <2>1, <2>2, <3>2, CompareTurn
    <3> QED BY <1>5, <3>1, <3>3 DEF Comparing
  <2>3. CASE ~(P # 0 /\ P = Q)
    <3>1. strpc' = "returned" /\ locals'.val = P - Q
      BY <1>1, <1>6, <2>3 DEF strcmp, Give, Locals
    <3>2. Sign(P - Q) = Compared(s, t)
      <4>1. P # Q \/ P = 0  BY <2>3
      <4> QED BY <1>2, <1>3, <2>1, <4>1, ComparedBytes, SMTT(20)
    <3> QED BY <1>5, <2>1, <3>1, <3>2 DEF Comparing
  <2> QED BY <2>2, <2>3
<1>7. CASE strncmp
  <2>1. asked.name = "strncmp"  BY <1>7 DEF strncmp, Of
  <2>2. CASE locals.n > 0 /\ P # 0 /\ P = Q
    <3>1. strpc' = "loop" /\ locals' = [locals EXCEPT !.p = @ + 1, !.q = @ + 1, !.n = @ - 1]
      BY <1>1, <1>7, <2>2 DEF strncmp, Again
    <3>2. locals'.mem = locals.mem /\ locals'.p = locals.p + 1 /\ locals'.q = locals.q + 1
          /\ locals'.n = locals.n - 1
      BY <1>1, <3>1 DEF Locals
    <3>3. CompareLoop'  BY <1>1, <2>1, <2>2, <3>2, CompareTurn
    <3> QED BY <1>5, <3>1, <3>3 DEF Comparing
  <2>3. CASE ~(locals.n > 0 /\ P # 0 /\ P = Q)
    <3>1. strpc' = "returned" /\ locals'.val = IF locals.n = 0 THEN 0 ELSE P - Q
      BY <1>1, <1>7, <2>3 DEF strncmp, Give, Locals
    <3> DEFINE u == Cut(s, n)
               w == Cut(t, n)
    <3>2. /\ u \in Seq(Byte) /\ Len(u) = (IF n < Len(s) THEN n ELSE Len(s)) /\ \A i \in 1 .. Len(u) : u[i] = s[i]
          /\ w \in Seq(Byte) /\ Len(w) = (IF n < Len(t) THEN n ELSE Len(t)) /\ \A i \in 1 .. Len(w) : w[i] = t[i]
      <4>1. n \in Int /\ ~(n < 0)  BY <1>2
      <4> QED BY <1>3, <2>1, <4>1, CutIs
    <3> HIDE DEF u, w
    <3>3. Len(u) \in Nat /\ Len(w) \in Nat /\ d <= Len(u) /\ d <= Len(w)
      BY <1>2, <1>3, <1>4, <2>1, <3>2
    <3>4. \A i \in 1 .. d : u[i] = w[i]
      <4>1. \A i \in 1 .. d : i \in 1 .. Len(u) /\ i \in 1 .. Len(w)  BY <1>2, <3>3
      <4> QED BY <1>3, <2>1, <3>2, <4>1
    <3>5. CASE locals.n = 0
      <4>1. d = n /\ Len(u) = d /\ Len(w) = d  BY <1>2, <1>3, <1>4, <2>1, <3>2, <3>3, <3>5
      <4>2. Compared(u, w) = Sign(Len(u) - Len(w))
        <5>1. u \in Seq(Byte) /\ w \in Seq(Byte) /\ d \in Nat /\ d <= Len(u) /\ d <= Len(w)
              /\ ~(d < Len(u) /\ d < Len(w))
          BY <1>2, <3>2, <3>3, <4>1
        <5> QED BY <3>4, <5>1, ComparedIs
      <4>3. Len(u) - Len(w) = 0  BY <3>3, <4>1
      <4> QED BY <1>5, <2>1, <3>1, <3>5, <4>2, <4>3 DEF Comparing, u, w
    <3>6. CASE locals.n # 0
      <4>1. d < n /\ (P # Q \/ P = 0)  BY <1>2, <1>4, <2>1, <2>3, <3>6
      <4>2. (d < Len(u) <=> d < Len(s)) /\ (d < Len(w) <=> d < Len(t))
        BY <1>2, <1>3, <2>1, <3>2, <4>1
      <4>3. (d < Len(u) => d + 1 \in 1 .. Len(u)) /\ (d < Len(w) => d + 1 \in 1 .. Len(w))
        BY <1>2, <3>3
      <4>4. /\ IF d < Len(u) THEN P = u[d + 1] /\ P # 0 ELSE P = 0
            /\ IF d < Len(w) THEN Q = w[d + 1] /\ Q # 0 ELSE Q = 0
            /\ P \in Byte /\ Q \in Byte
        BY <1>3, <2>1, <3>2, <4>2, <4>3
      <4>5. Sign(P - Q) = Compared(u, w)
        <5>1. u \in Seq(Byte) /\ w \in Seq(Byte) /\ d \in Nat /\ d <= Len(u) /\ d <= Len(w)
          BY <1>2, <3>2, <3>3
        <5>2. P # Q \/ P = 0  BY <4>1
        <5> QED BY <3>4, <4>4, <5>1, <5>2, ComparedBytes
      <4> QED BY <1>5, <2>1, <3>1, <3>6, <4>5 DEF Comparing, u, w
    <3> QED BY <3>5, <3>6
  <2> QED BY <2>2, <2>3
<1>8. CASE memcmp
  <2>1. asked.name = "memcmp"  BY <1>8 DEF memcmp, Of
  <2>2. CASE locals.n > 0 /\ P = Q
    <3>1. strpc' = "loop" /\ locals' = [locals EXCEPT !.p = @ + 1, !.q = @ + 1, !.n = @ - 1]
      BY <1>1, <1>8, <2>2 DEF memcmp, Again
    <3>2. locals'.mem = locals.mem /\ locals'.p = locals.p + 1 /\ locals'.q = locals.q + 1
          /\ locals'.n = locals.n - 1
      BY <1>1, <3>1 DEF Locals
    <3>3. CompareLoop'  BY <1>1, <2>1, <2>2, <3>2, CompareTurn
    <3> QED BY <1>5, <3>1, <3>3 DEF Comparing
  <2>3. CASE ~(locals.n > 0 /\ P = Q)
    <3>1. strpc' = "returned" /\ locals'.val = IF locals.n = 0 THEN 0 ELSE P - Q
      BY <1>1, <1>8, <2>3 DEF memcmp, Give, Locals
    <3> DEFINE u == Bytes(m, asked.p, n)
               w == Bytes(m, asked.q, n)
    <3>2. /\ u \in Seq(Byte) /\ Len(u) = n /\ \A i \in 1 .. n : u[i] = m[asked.p + i - 1]
          /\ w \in Seq(Byte) /\ Len(w) = n /\ \A i \in 1 .. n : w[i] = m[asked.q + i - 1]
      BY <1>2, <2>1, BytesAre
    <3> HIDE DEF u, w
    <3>3. d <= n /\ (locals.n = 0 <=> d = n)
      BY <1>2, <1>4, <2>1
    <3>4. \A i \in 1 .. d : u[i] = w[i]
      <4>1. \A i \in 1 .. d : i \in 1 .. n /\ i - 1 \in 0 .. d - 1
                              /\ asked.p + i - 1 = asked.p + (i - 1) /\ asked.q + i - 1 = asked.q + (i - 1)
        BY <1>2, <3>3
      <4> QED BY <1>4, <3>2, <4>1
    <3>5. CASE d = n
      <4>1. Compared(u, w) = Sign(Len(u) - Len(w))
        <5>1. u \in Seq(Byte) /\ w \in Seq(Byte) /\ d \in Nat /\ d <= Len(u) /\ d <= Len(w)
              /\ ~(d < Len(u) /\ d < Len(w))
          BY <1>2, <3>2, <3>3, <3>5
        <5> QED BY <3>4, <5>1, ComparedIs
      <4>2. Len(u) - Len(w) = 0  BY <1>2, <3>2
      <4> QED BY <1>5, <2>1, <3>1, <3>3, <3>5, <4>1, <4>2 DEF Comparing, u, w
    <3>6. CASE d # n
      <4>1. d < n /\ d + 1 \in 1 .. n /\ asked.p + (d + 1) - 1 = asked.p + d /\ asked.q + (d + 1) - 1 = asked.q + d
        BY <1>2, <3>3, <3>6
      <4>2. P = u[d + 1] /\ Q = w[d + 1]  BY <1>2, <3>2, <4>1
      <4>3. P # Q  BY <1>2, <2>3, <3>3, <3>6
      <4>4. Compared(u, w) = Sign(P - Q)  BY <1>2, <3>2, <3>3, <3>4, <4>1, <4>2, <4>3, ComparedIs
      <4> QED BY <1>5, <2>1, <3>1, <3>3, <3>6, <4>4 DEF Comparing, u, w
    <3> QED BY <3>5, <3>6
  <2> QED BY <2>2, <2>3
<1> QED BY <1>6, <1>7, <1>8

-----------------------------------------------------------------------------
(* Copying *)

\* Where the string goes, and how long it is.
Dest == IF asked.name = "strcat" THEN EndOf(asked.mem, asked.p) ELSE asked.p
Size == EndOf(asked.mem, asked.q) - asked.q

\* The bytes of the string, and then nulls.
Put(i) == asked.mem[asked.q + Least(i, Size)]

\* How many bytes are written, and what memory looks like with d bytes written.
Filled == locals.p - Dest
Filling(d) == [a \in Places |-> IF a \in Dest .. Dest + d - 1 THEN Put(a - Dest) ELSE asked.mem[a]]

\* The room there is.
Given == IF asked.name \in {"strcpy", "strcat"} THEN Size + 1 ELSE asked.n

AppendLoop ==
  /\ locals.mem = asked.mem /\ Passed \in Nat /\ locals.q = asked.q
  /\ \A i \in 0 .. Passed - 1 : asked.mem[asked.p + i] # 0

CopyLoop ==
  /\ Filled \in Nat /\ locals.mem = Filling(Filled) /\ locals.q = asked.q + Least(Filled, Size)
  /\ asked.name # "strncpy" => Filled <= Size
  /\ asked.name \in {"strncpy", "strlcpy"} => locals.n = asked.n - Filled
  /\ asked.name = "strlcpy" /\ asked.n > 0 => Filled < asked.n

Copying ==
  asked.name \in Copies =>
    /\ strpc = "loop" => IF asked.name = "strcat" THEN AppendLoop ELSE CopyLoop
    /\ strpc = "copy" => CopyLoop
    /\ CopiesExact

LEMMA CopyTypes ==
  ASSUME asked \in StringCalls, asked.name \in Copies
  PROVE  LET t == StringOf(asked.mem, asked.q) IN
         /\ asked.p \in Nat /\ asked.q \in Nat /\ asked.n \in Nat /\ asked.mem \in [Places -> Byte]
         /\ StringMemory \in Nat /\ Ends(asked.mem, asked.q)
         /\ Dest \in Nat /\ Size \in Nat /\ Given \in Nat /\ asked.p <= Dest
         /\ Dest + Given <= StringMemory
         /\ Dest + Given <= asked.q \/ asked.q + Size < Dest
         /\ t \in Seq(Byte) /\ Len(t) = Size
         /\ \A i \in 1 .. Size : t[i] = asked.mem[asked.q + i - 1] /\ t[i] # 0
         /\ asked.q + Size \in Places /\ asked.mem[asked.q + Size] = 0
<1>1. /\ asked.p \in Nat /\ asked.q \in Nat /\ asked.n \in Nat /\ asked.mem \in [Places -> Byte]
      /\ StringMemory \in Nat /\ Owed(asked)
  BY CallTyped
<1>2. /\ Ends(asked.mem, asked.q) /\ (asked.name = "strcat" => Ends(asked.mem, asked.p))
      /\ Room(Dest, Given, asked.mem, asked.q)
  BY <1>1 DEF Owed, Copies, Dest, Given, Size
<1>3. /\ EndOf(asked.mem, asked.q) \in Nat /\ EndOf(asked.mem, asked.q) >= asked.q
      /\ EndOf(asked.mem, asked.q) \in Places /\ asked.mem[EndOf(asked.mem, asked.q)] = 0
  BY <1>1, <1>2, EndExists
<1>4. Size \in Nat /\ asked.q + Size = EndOf(asked.mem, asked.q)
  BY <1>1, <1>3 DEF Size
<1>5. asked.name = "strcat" => EndOf(asked.mem, asked.p) \in Nat /\ EndOf(asked.mem, asked.p) >= asked.p
  BY <1>1, <1>2, EndExists
<1>6. Dest \in Nat /\ asked.p <= Dest /\ Given \in Nat
  BY <1>1, <1>4, <1>5 DEF Dest, Given
<1>7. Dest + Given <= StringMemory /\ (Dest + Given <= asked.q \/ asked.q + Size < Dest)
  BY <1>2, <1>4 DEF Room
<1>8. LET t == StringOf(asked.mem, asked.q) IN
        /\ t \in Seq(Byte) /\ Len(t) = Size
        /\ \A i \in 1 .. Size : t[i] = asked.mem[asked.q + i - 1] /\ t[i] # 0
  BY <1>1, <1>2, StringOfIs DEF Size
<1> QED BY <1>1, <1>2, <1>3, <1>4, <1>6, <1>7, <1>8

\* What is read is not yet written over.
LEMMA CopyPlace ==
  ASSUME asked \in StringCalls, asked.name \in Copies, locals \in Locals, CopyLoop, Filled < Given
  PROVE  /\ locals.p = Dest + Filled /\ locals.p \in Places /\ Q = Put(Filled) /\ Q \in Byte
         /\ Q = 0 <=> ~(Filled < Size)
<1>1. /\ asked.q \in Nat /\ asked.mem \in [Places -> Byte] /\ StringMemory \in Nat /\ Filled \in Nat
      /\ Dest \in Nat /\ Size \in Nat /\ Given \in Nat /\ locals.p \in Nat
      /\ Dest + Given <= StringMemory
      /\ Dest + Given <= asked.q \/ asked.q + Size < Dest
      /\ asked.q + Size \in Places /\ asked.mem[asked.q + Size] = 0
  BY CopyTypes DEF CopyLoop, Locals
<1>2. locals.p = Dest + Filled
  BY <1>1 DEF Filled
<1>3. locals.mem = Filling(Filled) /\ locals.q = asked.q + Least(Filled, Size)
  BY DEF CopyLoop
<1> HIDE DEF Filled
<1>4. locals.p \in Places
  BY <1>1, <1>2 DEF Places
<1>5. Least(Filled, Size) \in Nat /\ Least(Filled, Size) <= Filled /\ Least(Filled, Size) <= Size
  BY <1>1 DEF Least
<1>6. locals.q \in Places /\ locals.q \notin Dest .. Dest + Filled - 1
  <2>1. asked.q + Size \in 0 .. StringMemory - 1  BY <1>1 DEF Places
  <2>2. locals.q \in 0 .. StringMemory - 1  BY <1>1, <1>3, <1>5, <2>1
  <2> QED BY <1>1, <1>3, <1>5, <2>2 DEF Places
<1>7. Q = Put(Filled)
  BY <1>3, <1>6 DEF Q, Filling, Put
<1>8. Q \in Byte
  BY <1>1, <1>3, <1>6, <1>7 DEF Put
<1>9. CASE Filled < Size
  <2>1. Filled + 1 \in 1 .. Size /\ asked.q + (Filled + 1) - 1 = asked.q + Filled  BY <1>1, <1>9
  <2>2. asked.mem[asked.q + Filled] # 0  BY <2>1, CopyTypes
  <2>3. Least(Filled, Size) = Filled  BY <1>9 DEF Least
  <2> QED BY <1>2, <1>4, <1>7, <1>8, <1>9, <2>2, <2>3 DEF Put
<1>10. CASE ~(Filled < Size)
  <2>1. Least(Filled, Size) = Size  BY <1>10 DEF Least
  <2> QED BY <1>1, <1>2, <1>4, <1>7, <1>8, <1>10, <2>1 DEF Put
<1> QED BY <1>9, <1>10

LEMMA FillOne ==
  ASSUME asked \in StringCalls, asked.name \in Copies, NEW d \in Nat, d < Given
  PROVE  [Filling(d) EXCEPT ![Dest + d] = Put(d)] = Filling(d + 1)
<1>1. Dest \in Nat /\ Given \in Nat /\ Dest + Given <= StringMemory /\ StringMemory \in Nat
  BY CopyTypes
<1>2. \A a \in Places : a # Dest + d => (a \in Dest .. Dest + d - 1 <=> a \in Dest .. Dest + (d + 1) - 1)
  BY <1>1 DEF Places
<1>3. Dest + d \in Dest .. Dest + (d + 1) - 1 /\ (Dest + d) - Dest = d
  BY <1>1
<1> QED BY <1>2, <1>3 DEF Filling

\* What is written in the end.
Total == IF asked.name # "strlcpy" THEN Given
         ELSE IF asked.n = 0 THEN 0 ELSE Least(Size, asked.n - 1) + 1

LEMMA BytesAssociative == \A u, v, w \in Seq(Byte) : (u \o v) \o w = u \o (v \o w)
BY ConcatAssociative, SMTT(20)

LEMMA WithNull ==
  ASSUME NEW t \in Seq(Byte)
  PROVE  /\ t \o <<0>> \in Seq(Byte) /\ Len(t \o <<0>>) = Len(t) + 1 /\ Len(t) \in Nat
         /\ \A i \in 1 .. Len(t) + 1 : (t \o <<0>>)[i] = IF i <= Len(t) THEN t[i] ELSE 0
<1>1. <<0>> \in Seq(Byte) /\ Len(<<0>>) = 1 /\ <<0>>[1] = 0
  BY DEF Byte
<1>2. Len(t) \in Nat
  BY LenProperties
<1>3. /\ t \o <<0>> \in Seq(Byte) /\ Len(t \o <<0>>) = Len(t) + 1
      /\ \A i \in 1 .. Len(t) + 1 : (t \o <<0>>)[i] = IF i <= Len(t) THEN t[i] ELSE <<0>>[i - Len(t)]
  BY <1>1, ConcatProperties
<1>4. \A i \in 1 .. Len(t) + 1 : ~(i <= Len(t)) => i - Len(t) = 1
  BY <1>2
<1> QED BY <1>1, <1>2, <1>3, <1>4

\* The bytes of the string, counted from 0.
LEMMA PutIs ==
  ASSUME asked \in StringCalls, asked.name \in Copies, NEW i \in Nat
  PROVE  /\ i < Size => Put(i) = StringOf(asked.mem, asked.q)[i + 1]
         /\ ~(i < Size) => Put(i) = 0
<1>1. asked.q \in Nat /\ Size \in Nat /\ asked.mem[asked.q + Size] = 0
      /\ \A j \in 1 .. Size : StringOf(asked.mem, asked.q)[j] = asked.mem[asked.q + j - 1]
  BY CopyTypes
<1>2. CASE i < Size
  <2>1. i + 1 \in 1 .. Size /\ asked.q + (i + 1) - 1 = asked.q + i  BY <1>1, <1>2
  <2>2. Least(i, Size) = i  BY <1>2 DEF Least
  <2> QED BY <1>1, <1>2, <2>1, <2>2 DEF Put
<1>3. CASE ~(i < Size)
  BY <1>1, <1>3 DEF Put, Least
<1> QED BY <1>2, <1>3

LEMMA WrittenIs ==
  ASSUME asked \in StringCalls, asked.name \in Copies
  PROVE  /\ Total \in Nat /\ Len(Written) = (Dest - asked.p) + Total
         /\ \A a \in asked.p .. Dest + Total - 1 :
              Written[a - asked.p + 1] =
                IF a < Dest THEN asked.mem[a]
                ELSE IF asked.name = "strlcpy" /\ a = Dest + Total - 1 THEN 0 ELSE Put(a - Dest)
<1> DEFINE t == StringOf(asked.mem, asked.q)
<1>1. /\ asked.p \in Nat /\ asked.q \in Nat /\ asked.n \in Nat /\ asked.mem \in [Places -> Byte]
      /\ StringMemory \in Nat /\ Dest \in Nat /\ Size \in Nat /\ asked.p <= Dest
      /\ t \in Seq(Byte) /\ Len(t) = Size
  BY CopyTypes
<1>2. \A i \in Nat : (i < Size => Put(i) = t[i + 1]) /\ (~(i < Size) => Put(i) = 0)
  BY PutIs
<1>3. /\ t \o <<0>> \in Seq(Byte) /\ Len(t \o <<0>>) = Size + 1
      /\ \A i \in 1 .. Size + 1 : (t \o <<0>>)[i] = IF i <= Size THEN t[i] ELSE 0
  BY <1>1, WithNull
<1> HIDE DEF t
<1>4. CASE asked.name = "strcpy"
  <2>1. Dest = asked.p /\ Total = Size + 1 /\ Written = t \o <<0>>
    BY <1>4 DEF Dest, Total, Given, Written, t
  <2>2. ASSUME NEW a \in asked.p .. Dest + Total - 1 PROVE Written[a - asked.p + 1] = Put(a - Dest)
    <3>1. a - Dest \in Nat /\ (a - Dest) + 1 \in 1 .. Size + 1 /\ a - asked.p + 1 = (a - Dest) + 1
          /\ ((a - Dest) + 1 <= Size <=> a - Dest < Size)
      BY <1>1, <2>1, SMTT(20)
    <3> QED BY <1>2, <1>3, <2>1, <3>1
  <2>3. \A a \in asked.p .. Dest + Total - 1 : ~(a < Dest)  BY <1>1, <2>1
  <2>4. Total \in Nat /\ Len(Written) = (Dest - asked.p) + Total
    <3>1. Len(Written) = Size + 1  BY <1>3, <2>1
    <3>2. Dest = asked.p /\ Total = Size + 1  BY <2>1
    <3> QED BY <1>1, <3>1, <3>2
  <2> QED BY <1>4, <2>2, <2>3, <2>4
<1>5. CASE asked.name = "strcat"
  <2> DEFINE s == StringOf(asked.mem, asked.p)
  <2>1. s \in Seq(Byte) /\ Len(s) = Dest - asked.p /\ \A i \in 1 .. Dest - asked.p : s[i] = asked.mem[asked.p + i - 1]
    <3>1. Ends(asked.mem, asked.p)
      <4>1. Owed(asked)  BY CallTyped
      <4> QED BY <1>5, <4>1 DEF Owed
    <3> QED BY <1>1, <1>5, <3>1, StringOfIs DEF Dest
  <2>2. Total = Size + 1 /\ Written = s \o t \o <<0>>
    BY <1>5 DEF Total, Given, Written, t
  <2> HIDE DEF s
  <2> DEFINE r == t \o <<0>>
             k == Dest - asked.p
  <2>3. Written = s \o r
    <3>1. <<0>> \in Seq(Byte)  BY DEF Byte
    <3>2. (s \o t) \o <<0>> = s \o (t \o <<0>>)  BY <1>1, <2>1, <3>1, BytesAssociative
    <3> QED BY <2>2, <3>2
  <2>4. r \in Seq(Byte) /\ Len(r) = Size + 1 /\ k \in Nat
    BY <1>1, <1>3
  <2>5. Len(Written) = k + (Size + 1)
        /\ \A i \in 1 .. k + (Size + 1) : Written[i] = IF i <= k THEN s[i] ELSE r[i - k]
    <3>1. Len(s) = k /\ s \in Seq(Byte)  BY <2>1
    <3> HIDE DEF r, k
    <3> QED BY <2>3, <2>4, <3>1, ConcatProperties
  <2>6. ASSUME NEW a \in asked.p .. Dest + Total - 1
        PROVE  Written[a - asked.p + 1] = IF a < Dest THEN asked.mem[a] ELSE Put(a - Dest)
    <3>1. a - asked.p + 1 \in 1 .. k + (Size + 1) /\ (a - asked.p + 1 <= k <=> a < Dest)
      BY <1>1, <2>2, SMTT(20)
    <3>2. CASE a < Dest
      <4>1. a - asked.p + 1 \in 1 .. Dest - asked.p /\ asked.p + (a - asked.p + 1) - 1 = a  BY <1>1, <3>2
      <4> QED BY <2>1, <2>5, <3>1, <3>2, <4>1
    <3>3. CASE ~(a < Dest)
      <4>1. (a - asked.p + 1) - k = (a - Dest) + 1 /\ a - Dest \in Nat /\ (a - Dest) + 1 \in 1 .. Size + 1
            /\ ((a - Dest) + 1 <= Size <=> a - Dest < Size)
        BY <1>1, <2>2, <3>3, SMTT(20)
      <4>2. Written[a - asked.p + 1] = r[(a - Dest) + 1]
        <5> HIDE DEF r, k
        <5> QED BY <2>5, <3>1, <3>3, <4>1
      <4>3. r[(a - Dest) + 1] = Put(a - Dest)
        BY <1>2, <1>3, <4>1
      <4> QED BY <3>3, <4>2, <4>3
    <3> QED BY <3>2, <3>3
  <2>7. Total \in Nat /\ Len(Written) = (Dest - asked.p) + Total
    <3>1. Len(Written) = k + (Size + 1)  BY <2>5
    <3>2. Total = Size + 1  BY <2>2
    <3> QED BY <1>1, <3>1, <3>2
  <2> QED BY <1>5, <2>6, <2>7
<1>6. CASE asked.name = "strncpy"
  <2>1. Dest = asked.p /\ Total = asked.n
    BY <1>6 DEF Dest, Total, Given
  <2>2. Written = [i \in 1 .. asked.n |-> IF i <= Size THEN t[i] ELSE 0]
    BY <1>1, <1>6 DEF Written, t
  <2>3. ASSUME NEW a \in asked.p .. Dest + Total - 1 PROVE Written[a - asked.p + 1] = Put(a - Dest)
    <3>1. a - Dest \in Nat /\ (a - Dest) + 1 \in 1 .. asked.n /\ a - asked.p + 1 = (a - Dest) + 1
          /\ ((a - Dest) + 1 <= Size <=> a - Dest < Size)
      BY <1>1, <2>1, SMTT(20)
    <3> QED BY <1>2, <2>2, <3>1
  <2>4. \A a \in asked.p .. Dest + Total - 1 : ~(a < Dest)  BY <1>1, <2>1
  <2>5. Len(Written) = asked.n  BY <1>1, <2>2
  <2>6. Total \in Nat /\ Len(Written) = (Dest - asked.p) + Total
    BY <1>1, <2>1, <2>5
  <2> QED BY <1>6, <2>3, <2>4, <2>6
<1>7. CASE asked.name = "strlcpy" /\ asked.n = 0
  <2>1. Dest = asked.p /\ Total = 0 /\ Written = <<>>
    BY <1>7 DEF Dest, Total, Written
  <2> QED BY <1>1, <2>1
<1>8. CASE asked.name = "strlcpy" /\ asked.n # 0
  <2> DEFINE u == Cut(t, asked.n - 1)
  <2>1. asked.n > 0 /\ asked.n - 1 \in Nat
    BY <1>1, <1>8
  <2>2. Dest = asked.p /\ Total = Least(Size, asked.n - 1) + 1 /\ Written = u \o <<0>>
    BY <1>8, <2>1 DEF Dest, Total, Written, t
  <2>3. u \in Seq(Byte) /\ Len(u) = Total - 1 /\ (\A i \in 1 .. Len(u) : u[i] = t[i])
        /\ Total - 1 \in Nat /\ Total - 1 <= Size
    <3>1. /\ u \in Seq(Byte) /\ Len(u) = (IF asked.n - 1 < 0 THEN 0 ELSE IF asked.n - 1 < Len(t) THEN asked.n - 1 ELSE Len(t))
          /\ \A i \in 1 .. Len(u) : u[i] = t[i]
      BY <1>1, <2>1, CutIs
    <3> HIDE DEF u
    <3> QED BY <1>1, <2>1, <2>2, <3>1, SMTT(20) DEF Least
  <2> HIDE DEF u
  <2>4. Len(Written) = Total /\ \A i \in 1 .. Total : Written[i] = IF i <= Total - 1 THEN u[i] ELSE 0
    BY <2>2, <2>3, WithNull
  <2>5. Dest = asked.p /\ Total \in Nat /\ Total - 1 \in Nat /\ Total - 1 <= Size /\ asked.p \in Nat
        /\ Size \in Nat
    <3>1. Dest = asked.p  BY <2>2
    <3>2. Total \in Nat  BY <1>1, <1>8 DEF Total, Least, Given
    <3> QED BY <1>1, <2>3, <3>1, <3>2
  <2>6. ASSUME NEW a \in asked.p .. Dest + Total - 1
        PROVE  Written[a - asked.p + 1] = IF a = Dest + Total - 1 THEN 0 ELSE Put(a - Dest)
    <3>1. a - Dest \in Nat /\ (a - Dest) + 1 \in 1 .. Total /\ a - asked.p + 1 = (a - Dest) + 1
      BY <2>5
    <3>2. CASE a = Dest + Total - 1
      <4>1. ~((a - Dest) + 1 <= Total - 1)  BY <2>5, <3>2
      <4> QED BY <2>4, <3>1, <3>2, <4>1
    <3>3. CASE a # Dest + Total - 1
      <4>1. (a - Dest) + 1 <= Total - 1 /\ (a - Dest) + 1 \in 1 .. Total - 1 /\ a - Dest < Size
        BY <2>5, <3>1, <3>3
      <4>2. Len(u) = Total - 1  BY <2>3
      <4> QED BY <1>2, <2>3, <2>4, <3>1, <3>3, <4>1, <4>2
    <3> QED BY <3>2, <3>3
  <2>7. \A a \in asked.p .. Dest + Total - 1 : ~(a < Dest)  BY <2>5
  <2>8. Len(Written) = (Dest - asked.p) + Total
    <3>1. Len(Written) = Total  BY <2>4
    <3> QED BY <2>5, <3>1
  <2> QED BY <1>8, <2>6, <2>7, <2>5, <2>8
<1> QED BY <1>4, <1>5, <1>6, <1>7, <1>8 DEF Copies

Final == [a \in Places |->
            IF a \in Dest .. Dest + Total - 1
            THEN IF asked.name = "strlcpy" /\ a = Dest + Total - 1 THEN 0 ELSE Put(a - Dest)
            ELSE asked.mem[a]]

LEMMA FinalIs ==
  ASSUME asked \in StringCalls, asked.name \in Copies
  PROVE  Final = [a \in Places |-> IF a \in asked.p .. asked.p + Len(Written) - 1
                                  THEN Written[a - asked.p + 1] ELSE asked.mem[a]]
<1>1. asked.p \in Nat /\ Dest \in Nat /\ asked.p <= Dest /\ StringMemory \in Nat
  BY CopyTypes
<1>2. /\ Total \in Nat /\ asked.p + Len(Written) - 1 = Dest + Total - 1
      /\ \A a \in asked.p .. Dest + Total - 1 :
           Written[a - asked.p + 1] =
             IF a < Dest THEN asked.mem[a]
             ELSE IF asked.name = "strlcpy" /\ a = Dest + Total - 1 THEN 0 ELSE Put(a - Dest)
  <2>1. /\ Total \in Nat /\ Len(Written) = (Dest - asked.p) + Total
        /\ \A a \in asked.p .. Dest + Total - 1 :
             Written[a - asked.p + 1] =
               IF a < Dest THEN asked.mem[a]
               ELSE IF asked.name = "strlcpy" /\ a = Dest + Total - 1 THEN 0 ELSE Put(a - Dest)
    BY WrittenIs
  <2>2. asked.p + ((Dest - asked.p) + Total) - 1 = Dest + Total - 1  BY <1>1, <2>1
  <2> QED BY <2>1, <2>2
<1>3. \A a \in Places : (a \in Dest .. Dest + Total - 1 <=> a \in asked.p .. Dest + Total - 1 /\ ~(a < Dest))
  BY <1>1, <1>2 DEF Places
<1> QED BY <1>2, <1>3 DEF Final

LEMMA CopyReturned ==
  ASSUME asked \in StringCalls, asked.name \in Copies, asked' = asked, locals'.mem = Final,
         IF asked.name = "strlcpy" THEN locals'.val = Len(Cut(StringOf(asked.mem, asked.q), asked.n - 1))
                                   ELSE locals'.val = asked.p
  PROVE  CopiesExact'
<1>1. locals'.mem = [a \in Places |-> IF a \in asked.p .. asked.p + Len(Written) - 1
                                     THEN Written[a - asked.p + 1] ELSE asked.mem[a]]
  BY FinalIs
<1>2. Written' = Written
  BY DEF Written
<1> QED BY <1>1, <1>2 DEF CopiesExact

\* Without what is particular to strlcpy, memory ends as the loop leaves it.
LEMMA FilledUp ==
  ASSUME asked.name # "strlcpy"
  PROVE  Filling(Given) = Final
BY DEF Filling, Final, Total

LEMMA StrcpyKept ==
  ASSUME StringsTypes, Copying, strcpy
  PROVE  Copying'
<1>1. /\ asked' = asked /\ asked.name \in {"strcpy", "strcat"} /\ asked \in StringCalls /\ locals \in Locals
      /\ CopyLoop /\ (strpc = "copy" \/ (strpc = "loop" /\ asked.name = "strcpy"))
  BY DEF strcpy, Of, Again, Give, Copying, Copies, StringsTypes
<1>2. asked.name \in Copies /\ Given = Size + 1
  BY <1>1 DEF Copies, Given
<1>3. /\ Size \in Nat /\ Dest \in Nat /\ asked.p \in Nat /\ Filled \in Nat /\ Filled <= Size
      /\ locals.mem = Filling(Filled) /\ locals.q = asked.q + Least(Filled, Size) /\ asked.q \in Nat
  BY <1>1, <1>2, CopyTypes DEF CopyLoop
<1>4. Filled < Given
  BY <1>2, <1>3
<1>5. locals.p = Dest + Filled /\ Q = Put(Filled) /\ (Q = 0 <=> ~(Filled < Size))
  BY <1>1, <1>2, <1>4, CopyPlace
<1>6. [locals.mem EXCEPT ![locals.p] = Q] = Filling(Filled + 1)
  BY <1>1, <1>2, <1>3, <1>4, <1>5, FillOne
<1>7. locals'.mem = Filling(Filled + 1) /\ locals'.p = locals.p + 1 /\ locals'.q = locals.q + 1
  <2>1. locals'.mem = [locals.mem EXCEPT ![locals.p] = Q] /\ locals'.p = locals.p + 1 /\ locals'.q = locals.q + 1
    BY <1>1 DEF Locals, strcpy, Again, Give
  <2> QED BY <1>6, <2>1
<1>8. Dest' = Dest /\ Size' = Size /\ \A d : Filling(d)' = Filling(d)
  BY <1>1 DEF Dest, Size, Filling, Put
<1>9. CASE Q # 0
  <2>1. Filled' = Filled + 1 /\ Filled' \in Nat
    BY <1>3, <1>5, <1>7, <1>8 DEF Filled
  <2>2. Filled + 1 <= Size /\ Least(Filled, Size) = Filled /\ Least(Filled + 1, Size) = Filled + 1
    BY <1>3, <1>5, <1>9 DEF Least
  <2>3. locals'.q = asked.q + Least(Filled + 1, Size)
    BY <1>3, <1>7, <2>2
  <2>4. CopyLoop'
    BY <1>1, <1>7, <1>8, <2>1, <2>2, <2>3 DEF CopyLoop
  <2>5. strpc' = strpc
    BY <1>9 DEF strcpy, Again
  <2> QED BY <1>1, <2>4, <2>5 DEF Copying, CopiesExact
<1>10. CASE Q = 0
  <2>1. strpc' = "returned" /\ locals'.val = asked.p
    BY <1>1, <1>10 DEF strcpy, Give, Locals
  <2>2. Filled + 1 = Given
    BY <1>2, <1>3, <1>5, <1>10
  <2>3. locals'.mem = Final
    BY <1>1, <1>7, <2>2, FilledUp
  <2>4. CopiesExact'
    BY <1>1, <1>2, <2>1, <2>3, CopyReturned
  <2> QED BY <2>1, <2>4 DEF Copying
<1> QED BY <1>9, <1>10

LEMMA StrcatKept ==
  ASSUME StringsTypes, Copying, strcat
  PROVE  Copying'
<1>1. /\ asked' = asked /\ asked.name = "strcat" /\ asked \in StringCalls /\ locals \in Locals
      /\ AppendLoop /\ strpc = "loop"
  BY DEF strcat, Of, Again, Copying, Copies, StringsTypes
<1>2. asked.name \in Copies
  BY <1>1 DEF Copies
<1>3. /\ asked.p \in Nat /\ asked.q \in Nat /\ asked.mem \in [Places -> Byte] /\ StringMemory \in Nat
      /\ Ends(asked.mem, asked.p) /\ Dest \in Nat /\ Size \in Nat
  <2>1. Owed(asked)  BY <1>1, CallTyped
  <2>2. Ends(asked.mem, asked.p)  BY <1>1, <2>1 DEF Owed
  <2> QED BY <1>1, <1>2, <2>2, CopyTypes
<1>4. locals.p \in Nat /\ locals.p = asked.p + Passed /\ Passed \in Nat /\ P = asked.mem[asked.p + Passed]
  BY <1>1, <1>3 DEF AppendLoop, Locals, Passed, P
<1>5. CASE P # 0
  <2>1. strpc' = "loop" /\ locals'.mem = locals.mem /\ locals'.p = locals.p + 1 /\ locals'.q = locals.q
    BY <1>1, <1>5 DEF strcat, Again, Locals
  <2>2. Passed' = Passed + 1 /\ Passed' \in Nat
    BY <1>1, <1>3, <1>4, <2>1 DEF Passed
  <2>3. \A i \in 0 .. Passed' - 1 : i \in 0 .. Passed - 1 \/ i = Passed
    BY <1>4, <2>2
  <2>4. AppendLoop'
    BY <1>1, <1>4, <1>5, <2>1, <2>2, <2>3 DEF AppendLoop
  <2> QED BY <1>1, <2>1, <2>4 DEF Copying, CopiesExact
<1>6. CASE P = 0
  <2>1. strpc' = "copy" /\ locals' = locals
    BY <1>1, <1>6 DEF strcat
  <2>2. Dest = locals.p
    <3>1. \A i \in 0 .. Passed - 1 : asked.mem[asked.p + i] # 0  BY <1>1 DEF AppendLoop
    <3>2. EndOf(asked.mem, asked.p) = asked.p + Passed
      <4>1. asked.mem[asked.p + Passed] = 0 /\ Passed \in Nat  BY <1>4, <1>6
      <4> HIDE DEF Passed
      <4> QED BY ONLY <1>3, <3>1, <4>1, WithinString
    <3> QED BY <1>1, <1>4, <3>2 DEF Dest
  <2>3. Filled = 0 /\ Least(0, Size) = 0
    BY <1>3, <2>2 DEF Filled, Least
  <2>4. Filling(0) = asked.mem
    <3>1. \A a \in Places : a \notin Dest .. Dest + 0 - 1  BY <1>3 DEF Places
    <3>2. Filling(0) = [a \in Places |-> asked.mem[a]]  BY <3>1 DEF Filling
    <3> QED BY <1>3, <3>2
  <2>5. CopyLoop
    BY <1>1, <1>3, <2>3, <2>4 DEF CopyLoop, AppendLoop
  <2>6. CopyLoop'
    BY <1>1, <2>1, <2>5 DEF CopyLoop, Filled, Filling, Put, Dest, Size
  <2> QED BY <2>1, <2>6 DEF Copying, CopiesExact
<1> QED BY <1>5, <1>6

LEMMA StrncpyKept ==
  ASSUME StringsTypes, Copying, strncpy
  PROVE  Copying'
<1>1. /\ asked' = asked /\ asked.name = "strncpy" /\ asked \in StringCalls /\ locals \in Locals
      /\ CopyLoop /\ strpc = "loop"
  BY DEF strncpy, Of, Again, Give, Copying, Copies, StringsTypes
<1>2. asked.name \in Copies /\ Given = asked.n /\ Dest = asked.p
  BY <1>1 DEF Copies, Given, Dest
<1>3. /\ Size \in Nat /\ asked.p \in Nat /\ asked.q \in Nat /\ asked.n \in Nat /\ Filled \in Nat
      /\ locals.mem = Filling(Filled) /\ locals.q = asked.q + Least(Filled, Size)
      /\ locals.n = asked.n - Filled /\ locals.n \in Nat /\ locals.p \in Nat
  BY <1>1, <1>2, CopyTypes DEF CopyLoop, Locals
<1>4. Dest' = Dest /\ Size' = Size /\ \A d : Filling(d)' = Filling(d)
  BY <1>1 DEF Dest, Size, Filling, Put
<1>5. CASE locals.n > 0
  <2>1. Filled < Given
    BY <1>2, <1>3, <1>5
  <2>2. locals.p = Dest + Filled /\ Q = Put(Filled) /\ (Q = 0 <=> ~(Filled < Size))
    BY <1>1, <1>2, <2>1, CopyPlace
  <2>3. [locals.mem EXCEPT ![locals.p] = Q] = Filling(Filled + 1)
    BY <1>1, <1>2, <1>3, <2>1, <2>2, FillOne
  <2>4. /\ locals'.mem = [locals.mem EXCEPT ![locals.p] = Q] /\ locals'.p = locals.p + 1
        /\ locals'.n = locals.n - 1 /\ locals'.q = IF Q # 0 THEN locals.q + 1 ELSE locals.q
        /\ strpc' = "loop"
    BY <1>1, <1>5 DEF strncpy, Again, Locals
  <2>5. Filled' = Filled + 1 /\ Filled' \in Nat
    BY <1>2, <1>3, <1>4, <2>2, <2>4 DEF Filled
  <2>6. Least(Filled + 1, Size) = IF Q # 0 THEN Least(Filled, Size) + 1 ELSE Least(Filled, Size)
    BY <1>3, <2>2 DEF Least
  <2>7. Least(Filled, Size) \in Nat
    BY <1>3 DEF Least
  <2>8. locals'.q = asked.q + Least(Filled + 1, Size) /\ locals'.n = asked.n - (Filled + 1)
    BY <1>3, <2>4, <2>6, <2>7
  <2>9. CopyLoop'
    BY <1>1, <1>4, <2>3, <2>4, <2>5, <2>8 DEF CopyLoop
  <2> QED BY <1>1, <2>4, <2>9 DEF Copying, CopiesExact
<1>6. CASE ~(locals.n > 0)
  <2>1. strpc' = "returned" /\ locals'.val = asked.p /\ locals'.mem = locals.mem
    BY <1>1, <1>6 DEF strncpy, Give, Locals
  <2>2. Filled = Given
    BY <1>2, <1>3, <1>6
  <2>3. locals'.mem = Final
    BY <1>1, <1>3, <2>1, <2>2, FilledUp
  <2>4. CopiesExact'
    BY <1>1, <1>2, <2>1, <2>3, CopyReturned
  <2> QED BY <2>1, <2>4 DEF Copying
<1> QED BY <1>5, <1>6

LEMMA StrlcpyKept ==
  ASSUME StringsTypes, Copying, strlcpy
  PROVE  Copying'
<1>1. /\ asked' = asked /\ asked.name = "strlcpy" /\ asked \in StringCalls /\ locals \in Locals
      /\ CopyLoop /\ strpc = "loop"
  BY DEF strlcpy, Of, Again, Give, Copying, Copies, StringsTypes
<1>2. asked.name \in Copies /\ Given = asked.n /\ Dest = asked.p
  BY <1>1 DEF Copies, Given, Dest
<1>3. /\ Size \in Nat /\ asked.p \in Nat /\ asked.q \in Nat /\ asked.n \in Nat /\ Filled \in Nat
      /\ locals.mem = Filling(Filled) /\ locals.q = asked.q + Least(Filled, Size)
      /\ locals.n = asked.n - Filled /\ locals.n \in Nat /\ locals.p \in Nat
      /\ Filled <= Size /\ (asked.n > 0 => Filled < asked.n)
      /\ Dest + Given <= StringMemory /\ StringMemory \in Nat
  BY <1>1, <1>2, CopyTypes DEF CopyLoop, Locals
<1>4. Dest' = Dest /\ Size' = Size /\ \A d : Filling(d)' = Filling(d)
  BY <1>1 DEF Dest, Size, Filling, Put
<1>5. Dest \in Nat /\ Filled \in Nat /\ Size \in Nat /\ asked.n \in Nat /\ StringMemory \in Nat
  BY <1>2, <1>3
<1>6. locals.n - 1 > 0 => locals.p = Dest + Filled /\ Q = Put(Filled) /\ (Q = 0 <=> ~(Filled < Size))
  <2>1. locals.n - 1 > 0 => Filled < Given  BY <1>2, <1>3
  <2> QED BY <1>1, <1>2, <2>1, CopyPlace
<1>7. CASE locals.n - 1 > 0 /\ Q # 0
  <2>1. Filled < Given /\ Filled + 1 < asked.n /\ Filled + 1 <= Size
    BY <1>2, <1>3, <1>6, <1>7
  <2>2. [locals.mem EXCEPT ![locals.p] = Q] = Filling(Filled + 1)
    BY <1>1, <1>2, <1>3, <1>6, <1>7, <2>1, FillOne
  <2>3. /\ locals'.mem = [locals.mem EXCEPT ![locals.p] = Q] /\ locals'.p = locals.p + 1
        /\ locals'.n = locals.n - 1 /\ locals'.q = locals.q + 1 /\ strpc' = "loop"
    BY <1>1, <1>7 DEF strlcpy, Again, Locals
  <2>4. Filled' = Filled + 1 /\ Filled' \in Nat
    BY <1>2, <1>3, <1>4, <1>6, <1>7, <2>3 DEF Filled
  <2>5. Least(Filled, Size) = Filled /\ Least(Filled + 1, Size) = Filled + 1
    BY <1>3, <2>1 DEF Least
  <2>6. locals'.q = asked.q + Least(Filled + 1, Size) /\ locals'.n = asked.n - (Filled + 1)
    BY <1>3, <2>3, <2>5
  <2>7. CopyLoop'
    BY <1>1, <1>4, <2>1, <2>2, <2>3, <2>4, <2>6 DEF CopyLoop
  <2> QED BY <1>1, <2>3, <2>7 DEF Copying, CopiesExact
<1>8. CASE ~(locals.n - 1 > 0 /\ Q # 0)
  <2>1. /\ strpc' = "returned" /\ locals'.val = locals.p - asked.p
        /\ locals'.mem = IF asked.n > 0 THEN [locals.mem EXCEPT ![locals.p] = 0] ELSE locals.mem
    BY <1>1, <1>8 DEF strlcpy, Give, Locals
  <2>2. locals'.val = Filled
    BY <1>2, <2>1 DEF Filled
  <2>3. CASE asked.n > 0
    <3>1. Filled = Least(Size, asked.n - 1) /\ Total = Filled + 1
      <4>1. Filled <= asked.n - 1 /\ (Filled = asked.n - 1 \/ Filled = Size)
        BY <1>3, <1>6, <1>8, <2>3
      <4>2. Filled = Least(Size, asked.n - 1)  BY <1>3, <4>1 DEF Least
      <4> QED BY <1>1, <2>3, <4>2 DEF Total
    <3>2. [Filling(Filled) EXCEPT ![Dest + Filled] = 0] = Final
      <4>1. \A a \in Places : a # Dest + Filled => (a \in Dest .. Dest + Filled - 1 <=> a \in Dest .. Dest + Total - 1)
        <5>1. Dest \in Nat /\ Total = Filled + 1  BY <1>5, <3>1
        <5> QED BY <1>5, <5>1 DEF Places
      <4>2. Dest + Filled = Dest + Total - 1 /\ Dest + Filled \in Dest .. Dest + Total - 1
        BY <1>2, <1>3, <3>1
      <4> QED BY <1>1, <4>1, <4>2 DEF Filling, Final
    <3>3. locals.p = Dest + Filled
      BY <1>2, <1>3 DEF Filled
    <3>4. locals'.mem = Final
      BY <1>3, <2>1, <2>3, <3>2, <3>3
    <3>5. Len(Cut(StringOf(asked.mem, asked.q), asked.n - 1)) = Filled
      <4> DEFINE t == StringOf(asked.mem, asked.q)
      <4>1. t \in Seq(Byte) /\ Len(t) = Size  BY <1>1, <1>2, CopyTypes
      <4> HIDE DEF t
      <4>2. asked.n - 1 \in Int /\ ~(asked.n - 1 < 0)  BY <1>3, <2>3
      <4>3. Len(Cut(t, asked.n - 1)) = IF asked.n - 1 < Size THEN asked.n - 1 ELSE Size
        BY <4>1, <4>2, CutIs
      <4>4. Filled = IF asked.n - 1 < Size THEN asked.n - 1 ELSE Size
        <5>1. Filled = Least(Size, asked.n - 1)  BY <3>1
        <5> QED BY <1>5, <5>1 DEF Least
      <4> QED BY <4>3, <4>4 DEF t
    <3>6. CopiesExact'
      BY <1>1, <1>2, <2>2, <3>4, <3>5, CopyReturned
    <3> QED BY <2>1, <3>6 DEF Copying
  <2>4. CASE asked.n = 0
    <3>1. Filled = 0 /\ Total = 0
      BY <1>1, <1>3, <2>4 DEF Total
    <3>2. Filling(0) = Final
      <4>1. \A a \in Places : a \notin Dest .. Dest + 0 - 1  BY <1>2, <1>3 DEF Places
      <4> QED BY <3>1, <4>1 DEF Filling, Final
    <3>3. locals'.mem = Final
      BY <1>3, <2>1, <2>4, <3>1, <3>2
    <3>4. Len(Cut(StringOf(asked.mem, asked.q), asked.n - 1)) = 0
      <4> DEFINE t == StringOf(asked.mem, asked.q)
      <4>1. t \in Seq(Byte)  BY <1>1, <1>2, CopyTypes
      <4> HIDE DEF t
      <4>2. asked.n - 1 \in Int /\ asked.n - 1 < 0  BY <1>3, <2>4
      <4>3. Len(Cut(t, asked.n - 1)) = 0  BY <4>1, <4>2, CutIs
      <4> QED BY <4>3 DEF t
    <3>5. CopiesExact'
      BY <1>1, <1>2, <2>2, <3>1, <3>3, <3>4, CopyReturned
    <3> QED BY <2>1, <3>5 DEF Copying
  <2> QED BY <1>3, <2>3, <2>4
<1> QED BY <1>7, <1>8

-----------------------------------------------------------------------------
(* All of them *)

\* What is only read stays as it was.
Reading == asked.name \notin Copies => locals.mem = asked.mem

StringsInv ==
  \/ strpc = "idle"
  \/ StringsTypes /\ Scanning /\ Comparing /\ Copying /\ Reading

LEMMA StringsInitInv == StringsInit \/ StringsIdle => StringsInv
<1>1. ASSUME StringsInit PROVE StringsTypes /\ Scanning /\ Comparing /\ Copying /\ Reading
  <2>1. asked \in StringCalls /\ strpc = "loop"
        /\ locals = [mem |-> asked.mem, p |-> asked.p, q |-> asked.q, n |-> asked.n, val |-> 0]
    BY <1>1 DEF StringsInit
  <2>2. /\ asked.mem \in [Places -> Byte] /\ asked.p \in Nat /\ asked.q \in Nat /\ asked.n \in Nat
        /\ StringMemory \in Nat
    BY <2>1, CallTyped
  <2>3. locals \in Locals /\ Passed = 0
    BY <2>1, <2>2 DEF Locals, Passed
  <2>4. ScanLoop /\ CompareLoop /\ AppendLoop
    BY <2>1, <2>2, <2>3 DEF ScanLoop, CompareLoop, AppendLoop
  <2>5. ASSUME asked.name \in Copies, asked.name # "strcat" PROVE CopyLoop
    <3>1. Dest = asked.p /\ Size \in Nat /\ (asked.name = "strlcpy" => asked.n \in Nat)
      BY <2>1, <2>2, <2>5, CopyTypes DEF Dest
    <3>2. Filled = 0 /\ Least(0, Size) = 0
      BY <2>1, <2>2, <3>1 DEF Filled, Least
    <3>3. Filling(0) = asked.mem
      <4>1. \A a \in Places : a \notin Dest .. Dest + 0 - 1  BY <2>2, <3>1 DEF Places
      <4>2. Filling(0) = [a \in Places |-> asked.mem[a]]  BY <4>1 DEF Filling
      <4> QED BY <2>2, <4>2
    <3> QED BY <2>1, <2>2, <3>1, <3>2, <3>3 DEF CopyLoop
  <2> QED BY <2>1, <2>3, <2>4, <2>5 DEF StringsTypes, Scanning, Comparing, Copying, Reading,
                                        ScansExact, ComparesExact, CopiesExact
<1> QED BY <1>1 DEF StringsInv, StringsIdle

\* Each action is one function's.
LEMMA Names ==
  /\ strlen \/ strnlen \/ strchr \/ strfind \/ memfind => asked.name \in Scans
  /\ strcmp \/ strncmp \/ memcmp => asked.name \in Compares
  /\ StringsTypes /\ (strcpy \/ strcat \/ strncpy \/ strlcpy) => asked.name \in Copies
  /\ StringsNext => asked' = asked /\ strpc # "idle"
  /\ Scans \cap Compares = {} /\ Scans \cap Copies = {} /\ Compares \cap Copies = {}
BY DEF strlen, strnlen, strchr, strfind, memfind, strcmp, strncmp, memcmp, strcpy, strcat, strncpy, strlcpy,
       StringsNext, Of, Again, Give, Scans, Compares, Copies, StringsTypes

\* What the actions do to the locals keeps their types.
LEMMA Answered == ASSUME NEW l \in Locals, NEW v \in Int PROVE [l EXCEPT !.val = v] \in Locals
BY DEF Locals

LEMMA Stepped ==
  ASSUME NEW l \in Locals
  PROVE  /\ [l EXCEPT !.p = @ + 1] \in Locals
         /\ [l EXCEPT !.p = @ + 1, !.val = @ + 1] \in Locals
         /\ [l EXCEPT !.p = @ + 1, !.q = @ + 1] \in Locals
<1> DEFINE x == l.p + 1
           y == l.q + 1
           w == l.val + 1
<1>1. x \in Nat /\ y \in Nat /\ w \in Int
  BY DEF Locals
<1> HIDE DEF x, y, w
<1>2. [l EXCEPT !.p = x] \in Locals
  BY <1>1 DEF Locals
<1>3. [l EXCEPT !.p = x, !.val = w] \in Locals
  BY <1>1 DEF Locals
<1>4. [l EXCEPT !.p = x, !.q = y] \in Locals
  BY <1>1 DEF Locals
<1> QED BY <1>2, <1>3, <1>4 DEF x, y, w

LEMMA Counted ==
  ASSUME NEW l \in Locals, l.n > 0
  PROVE  /\ [l EXCEPT !.p = @ + 1, !.n = @ - 1] \in Locals
         /\ [l EXCEPT !.p = @ + 1, !.n = @ - 1, !.val = @ + 1] \in Locals
         /\ [l EXCEPT !.p = @ + 1, !.q = @ + 1, !.n = @ - 1] \in Locals
<1> DEFINE x == l.p + 1
           y == l.q + 1
           k == l.n - 1
           w == l.val + 1
<1>1. x \in Nat /\ y \in Nat /\ w \in Int /\ k \in Nat
  BY DEF Locals
<1> HIDE DEF x, y, k, w
<1>2. [l EXCEPT !.p = x, !.n = k] \in Locals
  BY <1>1 DEF Locals
<1>3. [l EXCEPT !.p = x, !.n = k, !.val = w] \in Locals
  BY <1>1 DEF Locals
<1>4. [l EXCEPT !.p = x, !.q = y, !.n = k] \in Locals
  BY <1>1 DEF Locals
<1> QED BY <1>2, <1>3, <1>4 DEF x, y, k, w

LEMMA Stored ==
  ASSUME NEW l \in Locals, NEW c \in Byte
  PROVE  /\ [l EXCEPT !.mem[l.p] = c] \in Locals
         /\ [l EXCEPT !.mem[l.p] = c, !.p = @ + 1, !.q = @ + 1] \in Locals
<1> DEFINE m == [l.mem EXCEPT ![l.p] = c]
           x == l.p + 1
           y == l.q + 1
<1>1. x \in Nat /\ y \in Nat
  BY DEF Locals
<1>2. m \in [Places -> Byte]
  BY DEF Locals
<1> HIDE DEF m, x, y
<1>3. [l EXCEPT !.mem = m] \in Locals
  BY <1>2 DEF Locals
<1>4. [l EXCEPT !.mem = m, !.p = x, !.q = y] \in Locals
  BY <1>1, <1>2 DEF Locals
<1> QED BY <1>3, <1>4 DEF m, x, y

LEMMA StoredCounted ==
  ASSUME NEW l \in Locals, NEW c \in Byte, NEW y \in Nat, l.n > 0
  PROVE  [l EXCEPT !.mem[l.p] = c, !.p = @ + 1, !.n = @ - 1, !.q = y] \in Locals
<1> DEFINE m == [l.mem EXCEPT ![l.p] = c]
           x == l.p + 1
           k == l.n - 1
<1>1. x \in Nat /\ k \in Nat
  BY DEF Locals
<1>2. m \in [Places -> Byte]
  BY DEF Locals
<1> HIDE DEF m, x, k
<1>3. [l EXCEPT !.mem = m, !.p = x, !.n = k, !.q = y] \in Locals
  BY <1>1, <1>2 DEF Locals
<1> QED BY <1>3 DEF m, x, k

LEMMA StoredCountedBoth ==
  ASSUME NEW l \in Locals, NEW c \in Byte, l.n > 0
  PROVE  [l EXCEPT !.mem[l.p] = c, !.p = @ + 1, !.q = @ + 1, !.n = @ - 1] \in Locals
<1> DEFINE m == [l.mem EXCEPT ![l.p] = c]
           x == l.p + 1
           y == l.q + 1
           k == l.n - 1
<1>1. x \in Nat /\ y \in Nat /\ k \in Nat
  BY DEF Locals
<1>2. m \in [Places -> Byte]
  BY DEF Locals
<1> HIDE DEF m, x, y, k
<1>3. [l EXCEPT !.mem = m, !.p = x, !.q = y, !.n = k] \in Locals
  BY <1>1, <1>2 DEF Locals
<1> QED BY <1>3 DEF m, x, y, k

LEMMA ScanTyped ==
  ASSUME StringsTypes, strlen \/ strnlen \/ strchr \/ strfind \/ memfind
  PROVE  StringsTypes' /\ locals'.mem = locals.mem
<1>1. asked \in StringCalls /\ locals \in Locals /\ strpc = "loop" /\ asked' = asked
  BY DEF StringsTypes, strlen, strnlen, strchr, strfind, memfind, Of, Again, Give
<1>2. /\ locals.p \in Nat /\ locals.p + 1 \in Nat /\ locals.p \in Int
      /\ locals.n \in Nat /\ (locals.n > 0 => locals.n - 1 \in Nat)
      /\ locals.val \in Int /\ locals.val + 1 \in Int /\ NULL \in Int /\ locals.mem \in [Places -> Byte]
  BY <1>1 DEF Locals, NULL
<1>3. strpc' \in {"loop", "returned"}
  BY <1>1 DEF strlen, strnlen, strchr, strfind, memfind, Again, Give
<1>4. locals'.mem = locals.mem
  BY <1>1 DEF strlen, strnlen, strchr, strfind, memfind, Again, Give, Locals
<1>5. \/ locals' = [locals EXCEPT !.p = @ + 1, !.val = @ + 1]
      \/ locals.n > 0 /\ locals' = [locals EXCEPT !.p = @ + 1, !.n = @ - 1, !.val = @ + 1]
      \/ locals' = [locals EXCEPT !.p = @ + 1]
      \/ locals.n > 0 /\ locals' = [locals EXCEPT !.p = @ + 1, !.n = @ - 1]
      \/ \E v \in {locals.val, locals.p, NULL} : locals' = [locals EXCEPT !.val = v]
  BY <1>1 DEF strlen, strnlen, strchr, strfind, memfind, Again, Give
<1>6. locals' \in Locals
  <2>1. CASE locals' = [locals EXCEPT !.p = @ + 1, !.val = @ + 1]
    BY <1>1, <2>1, Stepped
  <2>2. CASE locals.n > 0 /\ locals' = [locals EXCEPT !.p = @ + 1, !.n = @ - 1, !.val = @ + 1]
    BY <1>1, <2>2, Counted
  <2>3. CASE locals' = [locals EXCEPT !.p = @ + 1]
    BY <1>1, <2>3, Stepped
  <2>4. CASE locals.n > 0 /\ locals' = [locals EXCEPT !.p = @ + 1, !.n = @ - 1]
    BY <1>1, <2>4, Counted
  <2>5. CASE \E v \in {locals.val, locals.p, NULL} : locals' = [locals EXCEPT !.val = v]
    <3>1. PICK v \in {locals.val, locals.p, NULL} : locals' = [locals EXCEPT !.val = v]
      BY <2>5
    <3>2. v \in Int  BY <1>2
    <3> QED BY <1>1, <3>1, <3>2, Answered
  <2> QED BY <1>5, <2>1, <2>2, <2>3, <2>4, <2>5
<1> QED BY <1>1, <1>3, <1>4, <1>6 DEF StringsTypes

LEMMA CompareTyped ==
  ASSUME StringsTypes, Comparing, strcmp \/ strncmp \/ memcmp
  PROVE  StringsTypes' /\ locals'.mem = locals.mem
<1>1. /\ asked \in StringCalls /\ locals \in Locals /\ strpc = "loop" /\ asked' = asked
      /\ asked.name \in Compares /\ CompareLoop
  BY Names DEF StringsTypes, strcmp, strncmp, memcmp, Of, Again, Give, Comparing
<1>2. locals.p \in Nat /\ locals.q \in Nat /\ locals.n \in Nat
  BY <1>1 DEF Locals
<1>3. asked.name # "memcmp" \/ locals.n > 0 => P - Q \in Int
  <2>1. CASE asked.name # "memcmp"
    <3>1. P \in Byte /\ Q \in Byte  BY <1>1, <2>1, ComparePlace
    <3> QED BY <3>1 DEF Byte
  <2>2. CASE asked.name = "memcmp" /\ locals.n > 0
    <3>1. /\ P = asked.mem[asked.p + Passed] /\ Q = asked.mem[asked.q + Passed]
          /\ asked.p \in Nat /\ asked.q \in Nat /\ asked.n \in Nat /\ Passed \in Nat
          /\ asked.mem \in [Places -> Byte] /\ StringMemory \in Nat
          /\ asked.p + asked.n <= StringMemory /\ asked.q + asked.n <= StringMemory
      BY <1>1, <2>2, ComparePlace
    <3>2. locals.n = asked.n - Passed  BY <1>1, <2>2 DEF CompareLoop
    <3> HIDE DEF Passed
    <3>3. Passed < asked.n /\ asked.n \in Nat /\ asked.p \in Nat /\ asked.q \in Nat /\ Passed \in Nat
          /\ asked.p + asked.n <= StringMemory /\ asked.q + asked.n <= StringMemory
      BY <2>2, <3>1, <3>2
    <3>4. asked.p + Passed \in Places /\ asked.q + Passed \in Places
      <4>1. \A a, n, top, k \in Nat : a + n <= top /\ k < n => a + k \in 0 .. top - 1  OBVIOUS
      <4> QED BY <3>1, <3>3, <4>1, Zenon DEF Places
    <3>5. P \in Byte /\ Q \in Byte  BY <3>1, <3>4
    <3> QED BY <3>5 DEF Byte
  <2> QED BY <2>1, <2>2
<1>4. strpc' \in {"loop", "returned"}
  BY <1>1 DEF strcmp, strncmp, memcmp, Again, Give
<1>5. locals'.mem = locals.mem
  BY <1>1 DEF strcmp, strncmp, memcmp, Again, Give, Locals
<1>6. \/ locals' = [locals EXCEPT !.p = @ + 1, !.q = @ + 1]
      \/ locals.n > 0 /\ locals' = [locals EXCEPT !.p = @ + 1, !.q = @ + 1, !.n = @ - 1]
      \/ locals' = [locals EXCEPT !.val = 0]
      \/ (asked.name # "memcmp" \/ locals.n # 0) /\ locals' = [locals EXCEPT !.val = P - Q]
  BY <1>1 DEF strcmp, strncmp, memcmp, Of, Again, Give
<1>7. locals.n # 0 => locals.n > 0
  BY <1>2
<1>8. locals' \in Locals
  <2>1. CASE locals' = [locals EXCEPT !.p = @ + 1, !.q = @ + 1]
    BY <1>1, <2>1, Stepped
  <2>2. CASE locals.n > 0 /\ locals' = [locals EXCEPT !.p = @ + 1, !.q = @ + 1, !.n = @ - 1]
    BY <1>1, <2>2, Counted
  <2>3. CASE locals' = [locals EXCEPT !.val = 0]
    <3>1. 0 \in Int  OBVIOUS
    <3> QED BY <1>1, <2>3, <3>1, Answered
  <2>4. CASE (asked.name # "memcmp" \/ locals.n # 0) /\ locals' = [locals EXCEPT !.val = P - Q]
    <3>1. P - Q \in Int  BY <1>3, <1>7, <2>4
    <3> QED BY <1>1, <2>4, <3>1, Answered
  <2> QED BY <1>6, <2>1, <2>2, <2>3, <2>4
<1> QED BY <1>1, <1>4, <1>5, <1>8 DEF StringsTypes

LEMMA CopyStepTyped ==
  ASSUME StringsTypes, Copying, strcpy \/ strcat \/ strncpy \/ strlcpy
  PROVE  StringsTypes'
<1>1. /\ asked \in StringCalls /\ locals \in Locals /\ asked' = asked /\ asked.name \in Copies
      /\ strpc \in {"loop", "copy"}
  BY Names DEF StringsTypes, strcpy, strcat, strncpy, strlcpy, Of, Again, Give
<1>2. /\ locals.p \in Nat /\ locals.q \in Nat /\ locals.n \in Nat /\ locals.val \in Int
      /\ locals.mem \in [Places -> Byte] /\ asked.p \in Nat
  BY <1>1, CallTyped DEF Locals
<1>3. locals.p - asked.p \in Int /\ asked.p \in Int /\ 0 \in Byte
  BY <1>2 DEF Byte
<1>4. CASE strcat
  <2>1. locals' = [locals EXCEPT !.p = @ + 1] \/ locals' = locals
    BY <1>4 DEF strcat, Again
  <2>2. locals' \in Locals
    BY <1>1, <2>1, Stepped
  <2> QED BY <1>1, <1>4, <2>2 DEF strcat, Of, Again, StringsTypes
<1>5. CASE strcpy
  <2>1. CopyLoop /\ Filled < Given
    <3>1. CopyLoop /\ asked.name \in {"strcpy", "strcat"}
      BY <1>1, <1>5 DEF strcpy, Of, Copying, StringsTypes
    <3>2. Filled \in Nat /\ Filled <= Size /\ Size \in Nat /\ Given = Size + 1
      BY <1>1, <3>1, CopyTypes DEF CopyLoop, Given
    <3> QED BY <3>1, <3>2
  <2>2. Q \in Byte  BY <1>1, <2>1, CopyPlace
  <2> DEFINE copied == [locals EXCEPT !.mem[locals.p] = Q, !.p = @ + 1, !.q = @ + 1]
  <2>3. copied \in Locals
    BY <1>1, <2>2, Stored
  <2>4. locals' = copied \/ locals' = [copied EXCEPT !.val = asked.p]
    BY <1>5 DEF strcpy, Again, Give
  <2>5. locals' \in Locals
    <3> HIDE DEF copied
    <3> QED BY <1>3, <2>3, <2>4, Answered
  <2> QED BY <1>1, <1>5, <2>5 DEF strcpy, Of, Again, Give, StringsTypes
<1>6. CASE strncpy
  <2>1. locals.n > 0 => Q \in Byte
    <3>1. SUFFICES ASSUME locals.n > 0 PROVE Q \in Byte  OBVIOUS
    <3>2. CopyLoop /\ asked.name = "strncpy"
      BY <1>1, <1>6 DEF strncpy, Of, Copying
    <3>3. Filled \in Nat /\ locals.n = asked.n - Filled /\ Given = asked.n /\ asked.n \in Nat
      BY <1>1, <3>2, CopyTypes DEF CopyLoop, Given
    <3>4. Filled < Given  BY <3>1, <3>3
    <3> QED BY <1>1, <3>2, <3>4, CopyPlace
  <2>2. locals' \in Locals
    <3>1. CASE locals.n > 0
      <4> DEFINE y == IF Q # 0 THEN locals.q + 1 ELSE locals.q
      <4>1. y \in Nat  BY <1>2
      <4>2. locals' = [locals EXCEPT !.mem[locals.p] = Q, !.p = @ + 1, !.n = @ - 1, !.q = y]
        BY <1>6, <3>1 DEF strncpy, Again
      <4> HIDE DEF y
      <4> QED BY <1>1, <2>1, <3>1, <4>1, <4>2, StoredCounted
    <3>2. CASE ~ (locals.n > 0)
      <4>1. locals' = [locals EXCEPT !.val = asked.p]  BY <1>6, <3>2 DEF strncpy, Give
      <4> QED BY <1>1, <1>3, <4>1, Answered
    <3> QED BY <3>1, <3>2
  <2> QED BY <1>1, <1>6, <2>2 DEF strncpy, Of, Again, Give, StringsTypes
<1>7. CASE strlcpy
  <2>1. locals.n - 1 > 0 => Q \in Byte /\ locals.n > 0
    <3>1. SUFFICES ASSUME locals.n - 1 > 0 PROVE Q \in Byte /\ locals.n > 0  OBVIOUS
    <3>2. CopyLoop /\ asked.name = "strlcpy"
      BY <1>1, <1>7 DEF strlcpy, Of, Copying
    <3>3. Filled \in Nat /\ locals.n = asked.n - Filled /\ Given = asked.n /\ asked.n \in Nat
      BY <1>1, <3>2, CopyTypes DEF CopyLoop, Given
    <3>4. Filled < Given /\ locals.n > 0  BY <1>2, <3>1, <3>3
    <3> QED BY <1>1, <3>2, <3>4, CopyPlace
  <2> DEFINE ended == [locals EXCEPT !.mem[locals.p] = 0]
             size == locals.p - asked.p
  <2>2. \/ /\ locals.n - 1 > 0
           /\ locals' = [locals EXCEPT !.mem[locals.p] = Q, !.p = @ + 1, !.q = @ + 1, !.n = @ - 1]
        \/ locals' = [ended EXCEPT !.val = size]
        \/ locals' = [locals EXCEPT !.val = size]
    BY <1>7 DEF strlcpy, Again, Give
  <2>3. ended \in Locals
    BY <1>1, <1>3, Stored
  <2>4. size \in Int  BY <1>3
  <2> HIDE DEF ended, size
  <2>5. locals' \in Locals
    <3>1. CASE /\ locals.n - 1 > 0
               /\ locals' = [locals EXCEPT !.mem[locals.p] = Q, !.p = @ + 1, !.q = @ + 1, !.n = @ - 1]
      BY <1>1, <2>1, <3>1, StoredCountedBoth
    <3>2. CASE locals' = [ended EXCEPT !.val = size]
      BY <2>3, <2>4, <3>2, Answered
    <3>3. CASE locals' = [locals EXCEPT !.val = size]
      BY <1>1, <2>4, <3>3, Answered
    <3> QED BY <2>2, <3>1, <3>2, <3>3
  <2> QED BY <1>1, <1>7, <2>5 DEF strlcpy, Of, Again, Give, StringsTypes
<1> QED BY <1>4, <1>5, <1>6, <1>7

LEMMA StringsStepInv == StringsInv /\ StringsNext => StringsInv'
<1> SUFFICES ASSUME StringsInv, StringsNext PROVE StringsInv'
  OBVIOUS
<1>1. asked' = asked /\ StringsTypes /\ Scanning /\ Comparing /\ Copying /\ Reading
  BY Names DEF StringsInv
<1>2. CASE strlen \/ strnlen \/ strchr \/ strfind \/ memfind
  <2>1. asked.name \in Scans /\ asked.name \notin Compares /\ asked.name \notin Copies
    BY <1>2, Names
  <2>2. StringsTypes' /\ locals'.mem = locals.mem  BY <1>1, <1>2, ScanTyped
  <2>3. Scanning'  BY <1>1, <1>2, ScanKept
  <2> QED BY <1>1, <2>1, <2>2, <2>3 DEF StringsInv, Comparing, Copying, Reading
<1>3. CASE strcmp \/ strncmp \/ memcmp
  <2>1. asked.name \in Compares /\ asked.name \notin Scans /\ asked.name \notin Copies
    BY <1>3, Names
  <2>2. StringsTypes' /\ locals'.mem = locals.mem  BY <1>1, <1>3, CompareTyped
  <2>3. Comparing'  BY <1>1, <1>3, CompareKept
  <2> QED BY <1>1, <2>1, <2>2, <2>3 DEF StringsInv, Scanning, Copying, Reading
<1>4. CASE strcpy \/ strcat \/ strncpy \/ strlcpy
  <2>1. asked.name \in Copies /\ asked.name \notin Scans /\ asked.name \notin Compares
    BY <1>1, <1>4, Names
  <2>2. StringsTypes'  BY <1>1, <1>4, CopyStepTyped
  <2>3. Copying'  BY <1>1, <1>4, StrcpyKept, StrcatKept, StrncpyKept, StrlcpyKept
  <2> QED BY <1>1, <2>1, <2>2, <2>3 DEF StringsInv, Scanning, Comparing, Reading
<1> QED BY <1>2, <1>3, <1>4 DEF StringsNext

THEOREM StringsInvariance == StringsSpec => []StringsInv
<1>1. StringsInv /\ UNCHANGED stringvars => StringsInv'
  <2>1. SUFFICES ASSUME StringsInv, UNCHANGED stringvars PROVE StringsInv'  OBVIOUS
  <2>2. asked' = asked /\ locals' = locals /\ strpc' = strpc  BY <2>1 DEF stringvars
  <2>3. Passed' = Passed /\ Dest' = Dest /\ Size' = Size /\ \A d : Filling(d)' = Filling(d)
    BY <2>2 DEF Passed, Dest, Size, Filling, Put
  <2>4. (StringsTypes' <=> StringsTypes) /\ (Reading' <=> Reading)
    BY <2>2 DEF StringsTypes, Reading
  <2>5. (ScanLoop' <=> ScanLoop) /\ (ScansExact' <=> ScansExact)
    BY <2>2, <2>3 DEF ScanLoop, ScansExact
  <2>6. (CompareLoop' <=> CompareLoop) /\ (ComparesExact' <=> ComparesExact)
    BY <2>2, <2>3 DEF CompareLoop, ComparesExact
  <2>7. (AppendLoop' <=> AppendLoop) /\ (CopyLoop' <=> CopyLoop)
    BY <2>2, <2>3 DEF AppendLoop, CopyLoop, Filled
  <2>8. CopiesExact' <=> CopiesExact
    <3>1. Written' = Written  BY <2>2 DEF Written
    <3> QED BY <2>2, <3>1 DEF CopiesExact
  <2> QED BY <2>1, <2>2, <2>4, <2>5, <2>6, <2>7, <2>8 DEF StringsInv, Scanning, Comparing, Copying
<1> QED BY <1>1, StringsInitInv, StringsStepInv, PTL DEF StringsSpec

\* strlen, strnlen, strchr, strfind and memfind stop at the first place that
\* they look for, or where the string or the size ends (string.c:11-29,
\* :98-118, :231-239).
THEOREM ScansCorrect == StringsSpec => []ScansExact
<1>1. StringsInv => ScansExact
  <2>1. StringsTypes /\ asked.name \notin Scans => ScansExact
    BY DEF ScansExact, Scans
  <2> QED BY <2>1 DEF StringsInv, Scanning, ScansExact
<1> QED BY <1>1, StringsInvariance, PTL

\* strcmp, strncmp and memcmp return the sign of the lexicographic order of
\* unsigned bytes (string.c:79-96, :216-229).
THEOREM ComparesCorrect == StringsSpec => []ComparesExact
<1>1. StringsInv => ComparesExact
  <2>1. StringsTypes /\ asked.name \notin Compares => ComparesExact
    BY DEF ComparesExact, Compares
  <2> QED BY <2>1 DEF StringsInv, Comparing, ComparesExact
<1> QED BY <1>1, StringsInvariance, PTL

\* strcpy, strcat, strncpy and strlcpy write what they should where they should
\* and no other byte (string.c:31-77), and the other functions write nothing.
THEOREM CopiesCorrect == StringsSpec => []CopiesExact
<1>1. StringsInv => CopiesExact
  <2>1. ASSUME StringsTypes, Reading, asked.name \notin Copies PROVE CopiesExact
    <3>1. Written = <<>> /\ Len(Written) = 0
      <4>1. Written = <<>>  BY <2>1 DEF Written, Copies
      <4> QED BY <4>1
    <3>2. asked.p \in Nat /\ asked.mem \in [Places -> Byte]  BY <2>1, CallTyped DEF StringsTypes
    <3>3. \A a \in Places : a \notin asked.p .. asked.p + Len(Written) - 1
      <4>1. asked.p .. asked.p + 0 - 1 = {}  BY <3>2
      <4> QED BY <3>1, <4>1
    <3>4. locals.mem = [a \in Places |-> asked.mem[a]]  BY <2>1, <3>2 DEF Reading
    <3>5. asked.name \notin {"strcpy", "strcat", "strncpy", "strlcpy"}  BY <2>1 DEF Copies
    <3> QED BY <3>3, <3>4, <3>5 DEF CopiesExact
  <2> QED BY <2>1 DEF StringsInv, Copying, CopiesExact
<1> QED BY <1>1, StringsInvariance, PTL

-----------------------------------------------------------------------------
(* The library *)

\* A behaviour of the library is a call of one component and nothing in the
\* others.
LEMMA Parts == Spec => MemorySpec /\ PrintfmtSpec /\ MonitorSpec /\ StringsSpec
<1>1. Init => /\ MemoryInit \/ MemoryIdle
              /\ PrintfmtInit \/ PrintfmtIdle
              /\ MonitorInit \/ MonitorIdle
              /\ StringsInit \/ StringsIdle
  BY DEF Init
<1>2. [Next]_vars => /\ [MemoryNext]_memory /\ [PrintfmtNext]_printfmt
                     /\ [MonitorNext]_runcmd /\ [StringsNext]_stringvars
  BY DEF Next, vars
<1> QED BY <1>1, <1>2, PTL DEF Spec, MemorySpec, PrintfmtSpec, MonitorSpec, StringsSpec

\* What the string functions find, compare and copy, and what strtol reads back,
\* is right in every call the library is asked for (string.c:11-118, :216-286).
THEOREM StringsAgreeCorrect == Spec => []StringsAgree
BY Parts, ScansCorrect, ComparesCorrect, CopiesCorrect, ReadBackCorrect, PTL DEF StringsAgree

\* So is all else: moving memory, the words of a command line, and the text and
\* the buffer of a format (string.c:120-214, monitor.c:68-104, printfmt.c:38-300).
THEOREM LibraryCorrect ==
  Spec => [](/\ MoveExact /\ ArgvIsWords
             /\ BufferBounded /\ StringField /\ UnknownLiteral /\ NumberField)
BY Parts, MoveCorrect, ArgvCorrect, BufferCorrect, StringCorrect, LiteralCorrect, NumberCorrect, PTL
=============================================================================
