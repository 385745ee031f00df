-------------------------------- MODULE Memory --------------------------------
(***************************************************************************)
(* memmove and memset of lib/string.c, as compiled with ASM: string        *)
(* instructions that copy or store one element at a time, bytes or words,  *)
(* upwards or (with the direction flag set) downwards.                     *)
(***************************************************************************)
EXTENDS Integers

CONSTANTS MemBytes, MaxSize

ASSUME MemoryAssumption == MemBytes \in Nat /\ MaxSize \in Nat

Address == 0 .. MemBytes - 1
Word == 4

VARIABLES
  op,      \* the call: [name, dst, src, n, c]
  before,  \* memory at the call
  mem,
  rep,     \* the string instruction: [left, di, si, unit, eax], left elements to go;
           \* eax is what stos stores
  df,      \* the direction flag
  mempc    \* "call", "rep", "done" or "idle"

memory == <<op, before, mem, rep, df, mempc>>

NoRep == [left |-> 0, di |-> 0, si |-> 0, unit |-> 1, eax |-> 0]

\* Every byte of memory is different, and different from the ones stored.
MemoryCall(name, dst, src, n, c) ==
  /\ op = [name |-> name, dst |-> dst, src |-> src, n |-> n, c |-> c]
  /\ before = [a \in Address |-> a] /\ mem = before
  /\ rep = NoRep /\ df = FALSE /\ mempc = "call"

MemoryIdle ==
  /\ op = [name |-> "none", dst |-> 0, src |-> 0, n |-> 0, c |-> 0]
  /\ before = <<>> /\ mem = before /\ rep = NoRep /\ df = FALSE /\ mempc = "idle"

MemoryInit ==
  \E n \in 0 .. MaxSize, dst \in Address :
    /\ dst + n <= MemBytes
    /\ \/ \E src \in Address : src + n <= MemBytes /\ MemoryCall("memmove", dst, src, n, 0)
       \/ \E c \in {100, 256 + 100} : MemoryCall("memset", dst, 0, n, c)

\* Mutant of Downwards: only where the destination begins inside the source by a word.
DownwardsWord(dst, src, n) == src + Word <= dst /\ src + n > dst

Downwards(dst, src, n) == src < dst /\ src + n > dst

WordWise(d, s, n) == d % Word = 0 /\ s % Word = 0 /\ n % Word = 0

memmove ==
  /\ mempc = "call" /\ op.name = "memmove"
  /\ LET down == Downwards(op.dst, op.src, op.n)
         shift == IF down THEN op.n ELSE 0
         unit == IF WordWise(op.dst + shift, op.src + shift, op.n) THEN Word ELSE 1
         back == IF down THEN unit ELSE 0
     IN  /\ rep' = [left |-> op.n \div unit, unit |-> unit, eax |-> 0,
                    di |-> op.dst + shift - back, si |-> op.src + shift - back]
         /\ df' = down
  /\ mempc' = "rep"
  /\ UNCHANGED <<op, before, mem>>

\* Mutant of Replicated: only the two low bytes are filled.
ReplicatedHalf(c) == LET low == c % 256 IN low * 256 + low

\* The low byte of an int in each of its four bytes (string.c:129-130).
Replicated(c) ==
  LET low == c % 256 IN low * 16777216 + low * 65536 + low * 256 + low

\* Byte i of a register, of the lowest address first.
ByteOf(eax, i) ==
  (CASE i = 0 -> eax [] i = 1 -> eax \div 256 [] i = 2 -> eax \div 65536
     [] OTHER -> eax \div 16777216) % 256

memset ==
  /\ mempc = "call" /\ op.name = "memset"
  /\ \/ op.n = 0 /\ mempc' = "done" /\ UNCHANGED <<rep, df>>
     \/ /\ op.n > 0
        /\ LET unit == IF WordWise(op.dst, 0, op.n) THEN Word ELSE 1
           IN  rep' = [left |-> op.n \div unit, unit |-> unit, di |-> op.dst, si |-> 0,
                       eax |-> IF unit = Word THEN Replicated(op.c) ELSE op.c]
        /\ df' = FALSE
        /\ mempc' = "rep"
  /\ UNCHANGED <<op, before, mem>>

\* One element of rep movs or rep stos.
Element ==
  /\ mempc = "rep" /\ rep.left > 0
  /\ mem' = [a \in Address |->
               IF a \in rep.di .. rep.di + rep.unit - 1
               THEN IF op.name = "memmove" THEN mem[rep.si + (a - rep.di)]
                    ELSE ByteOf(rep.eax, a - rep.di)
               ELSE mem[a]]
  /\ LET step == IF df THEN -rep.unit ELSE rep.unit
     IN  rep' = [rep EXCEPT !.left = @ - 1, !.di = @ + step, !.si = @ + step]
  /\ UNCHANGED <<op, before, df, mempc>>

Returned ==
  /\ mempc = "rep" /\ rep.left = 0
  /\ df' = FALSE /\ mempc' = "done"
  /\ UNCHANGED <<op, before, mem, rep>>

MemoryNext == memmove \/ memset \/ Element \/ Returned

\* One call, or none: what a behaviour of Library looks like here.
MemorySpec == (MemoryInit \/ MemoryIdle) /\ [][MemoryNext]_memory

-----------------------------------------------------------------------------
(* Properties *)

\* However source and destination overlap and are aligned, memmove leaves the
\* source's old bytes at the destination, memset the low byte of its argument,
\* neither touches anything else, and both leave the direction flag clear for
\* the code the compiler generates (string.c:122, :144, :160).
MoveExact ==
  mempc = "done" =>
    /\ ~df
    /\ \A a \in Address :
         mem[a] = IF a \notin op.dst .. op.dst + op.n - 1 THEN before[a]
                  ELSE IF op.name = "memmove" THEN before[op.src + (a - op.dst)] ELSE op.c % 256
=============================================================================
