-------------------------------- MODULE Monitor --------------------------------
(***************************************************************************)
(* runcmd() of kern/monitor.c: splits the line readline returned into      *)
(* words, in place, and runs the command named by the first one.           *)
(***************************************************************************)
EXTENDS Integers, Sequences, FiniteSets

CONSTANTS
  MAXARGS,
  Lines,      \* the lines a user may type, sequences of characters
  commands    \* the commands' names

VARIABLES
  typed,      \* the line as it was
  line,       \* the buffer: 0 .. Len(typed), with 0 ending a string
  buf,        \* runcmd's pointer into it
  argc, argv, \* argv[i] is an index of the line, Nil if not set
  monpc,      \* "gobble", "scan", "lookup", "returned" or "idle"
  ran         \* what became of the line

\* readline gives a line without a null in it; argv holds at least the last null.
ASSUME MonitorAssumption ==
  /\ MAXARGS \in Nat \ {0}
  /\ \A l \in Lines : l \in Seq(STRING) /\ \A i \in DOMAIN l : l[i] # "NUL"

runcmd == <<typed, line, buf, argc, argv, monpc, ran>>

WHITESPACE == {" ", "\t", "\r", "\n"}
Null == "NUL"
Nil == -1

MonitorInit ==
  /\ typed \in Lines
  /\ line = [i \in 0 .. Len(typed) |-> IF i = Len(typed) THEN Null ELSE typed[i + 1]]
  /\ buf = 0 /\ argc = 0
  /\ argv = [i \in 0 .. MAXARGS - 1 |-> Nil]
  /\ monpc = "gobble" /\ ran = "nothing"

MonitorIdle ==
  /\ typed = <<>> /\ line = <<>> /\ buf = 0 /\ argc = 0 /\ argv = <<>>
  /\ monpc = "idle" /\ ran = "nothing"

\* Mutant of Gobble: the whitespace is left in the line.
GobbleKept ==
  /\ monpc = "gobble" /\ line[buf] \in WHITESPACE
  /\ buf' = buf + 1
  /\ UNCHANGED <<typed, line, argc, argv, monpc, ran>>

Gobble ==
  /\ monpc = "gobble" /\ line[buf] \in WHITESPACE
  /\ line' = [line EXCEPT ![buf] = Null] /\ buf' = buf + 1
  /\ UNCHANGED <<typed, argc, argv, monpc, ran>>

EndOfLine ==
  /\ monpc = "gobble" /\ line[buf] = Null
  /\ monpc' = "lookup" /\ argv' = [argv EXCEPT ![argc] = Nil]
  /\ UNCHANGED <<typed, line, buf, argc, ran>>

AtWord == monpc = "gobble" /\ line[buf] \notin WHITESPACE \cup {Null}

TooMany ==
  /\ AtWord /\ argc = MAXARGS - 1
  /\ monpc' = "returned" /\ ran' = "too many arguments"
  /\ UNCHANGED <<typed, line, buf, argc, argv>>

SaveArg ==
  /\ AtWord /\ argc # MAXARGS - 1
  /\ argv' = [argv EXCEPT ![argc] = buf] /\ argc' = argc + 1
  /\ monpc' = "scan"
  /\ UNCHANGED <<typed, line, buf, ran>>

Scan ==
  /\ monpc = "scan"
  /\ IF line[buf] \in WHITESPACE \cup {Null}
     THEN monpc' = "gobble" /\ UNCHANGED buf
     ELSE buf' = buf + 1 /\ UNCHANGED monpc
  /\ UNCHANGED <<typed, line, argc, argv, ran>>

\* The string at an address of the line.
StringAt(i) ==
  LET len == CHOOSE n \in 0 .. Len(typed) :
               line[i + n] = Null /\ \A k \in 0 .. n - 1 : line[i + k] # Null
  IN  [k \in 1 .. len |-> line[i + k - 1]]

Lookup ==
  /\ monpc = "lookup" /\ monpc' = "returned"
  /\ ran' = CASE argc = 0 -> "nothing"
              [] argc > 0 /\ StringAt(argv[0]) \in commands -> "command"
              [] OTHER -> "unknown command"
  /\ UNCHANGED <<typed, line, buf, argc, argv>>

MonitorNext == Gobble \/ EndOfLine \/ TooMany \/ SaveArg \/ Scan \/ Lookup

\* One call, or none: what a behaviour of Library looks like here.
MonitorSpec == (MonitorInit \/ MonitorIdle) /\ [][MonitorNext]_runcmd

-----------------------------------------------------------------------------
(* Properties *)

\* The words of the line as it was typed.
WordStarts ==
  {i \in DOMAIN typed : typed[i] \notin WHITESPACE /\ (i = 1 \/ typed[i - 1] \in WHITESPACE)}
WordAt(i) ==
  LET last == CHOOSE j \in i .. Len(typed) :
                /\ \A k \in i .. j : typed[k] \notin WHITESPACE
                /\ j = Len(typed) \/ typed[j + 1] \in WHITESPACE
  IN  SubSeq(typed, i, last)

\* The command gets the words that were typed, in order, each ending where it
\* did although they all still lie in the line itself, and a null after the
\* last; a line of one word more than fits is refused before argv overflows
\* (monitor.c:84, :89, :93).
ArgvIsWords ==
  monpc = "returned" =>
    IF Cardinality(WordStarts) > MAXARGS - 1
    THEN ran = "too many arguments"
    ELSE /\ argc = Cardinality(WordStarts)
         /\ argv[argc] = Nil
         /\ \A i \in WordStarts :
              LET n == Cardinality({j \in WordStarts : j < i})
              IN  argv[n] = i - 1 /\ StringAt(argv[n]) = WordAt(i)
         /\ ran = CASE argc = 0 -> "nothing"
                    [] argc > 0 /\ \E i \in WordStarts : WordAt(i) \in commands
                                       /\ \A j \in WordStarts : i <= j -> "command"
                    [] OTHER -> "unknown command"
=============================================================================
