------------------------------ MODULE LineEditor ------------------------------
(***************************************************************************)
(* readline() of lib/readline.c, called over and over by the monitor, and  *)
(* its echo on the screen.  The screen is the page of text that Terminal   *)
(* describes and Display implements; the characters are those getchar      *)
(* returns, 1 .. 255 by the theorem TypeCorrect of ConsoleInputProofs, so  *)
(* that the test for a read error never succeeds and is left out.          *)
(***************************************************************************)
EXTENDS CharCodes

CONSTANTS
  BUFLEN,
  Width, Size,   \* the screen: cells in a row, cells in the window
  BootCells,     \* what it may show at first
  Codes,         \* what commands and prompts print
  Keystrokes     \* what getchar may return

VARIABLES
  term,   \* the page, see Terminal
  buf, i, \* readline's static buf and its index
  pc,     \* "printing": outside readline or in its prompt; "editing": in the
          \* loop; "returned": just back from it
  start   \* history: where on the page the line begins

vars == <<term, buf, i, pc, start>>

Screen == INSTANCE Terminal

\* The longest line leaves at least a row of the window free.  In the kernel:
\* 1023 characters, 25 rows of 80.
ASSUME LineAssumption ==
  /\ BUFLEN \in Nat /\ BUFLEN >= 1
  /\ Width \in Nat /\ Width >= 1
  /\ Size \in Nat /\ BUFLEN - 1 + Width <= Size

ASSUME CodeAssumption ==
  /\ BootCells \subseteq Cell
  /\ Codes \subseteq Int
  /\ Keystrokes \subseteq 1 .. 255

-----------------------------------------------------------------------------
cputchar(c) == term' = Screen!Write(term, c)

\* Output of commands, and the prompt, which cprintf writes the same way.
Output(c) ==
  /\ pc \in {"printing", "returned"}
  /\ cputchar(c)
  /\ pc' = "printing"
  /\ UNCHANGED <<buf, i, start>>

\* The prompt is out: the loop starts with an empty line.
Begin ==
  /\ pc = "printing"
  /\ i' = 0 /\ start' = term.cursor
  /\ pc' = "editing"
  /\ UNCHANGED <<term, buf>>

ErasesAlways(c) == c \in {BS, DEL} /\ i >= 0    \* mutant: >= for >

Erases(c) == c \in {BS, DEL} /\ i > 0
StoresFull(c) == ~Erases(c) /\ c >= SP /\ i < BUFLEN   \* mutant: no room for the NUL

Stores(c) == ~Erases(c) /\ c >= SP /\ i < BUFLEN - 1

\* Mutant of EraseLast: echoes the key itself, which may be DEL.
EraseLastRaw(c) ==
  /\ Erases(c)
  /\ cputchar(c)
  /\ i' = i - 1
  /\ UNCHANGED <<buf, pc, start>>

EraseLast(c) ==
  /\ Erases(c)
  /\ cputchar(BS)
  /\ i' = i - 1
  /\ UNCHANGED <<buf, pc, start>>

Store(c) ==
  /\ Stores(c)
  /\ cputchar(c)
  /\ buf' = [buf EXCEPT ![i] = c]
  /\ i' = i + 1
  /\ UNCHANGED <<pc, start>>

Return(c) ==
  /\ ~Erases(c) /\ ~Stores(c)
  /\ c \in {NL, CR}
  /\ cputchar(NL)
  /\ buf' = [buf EXCEPT ![i] = 0]
  /\ pc' = "returned"
  /\ UNCHANGED <<i, start>>

\* Anything else, and anything but an erasure or a return on a full line.
Ignore(c) ==
  /\ ~Erases(c) /\ ~Stores(c) /\ c \notin {NL, CR}
  /\ UNCHANGED vars

\* getchar returned c.
Key(c) ==
  /\ pc = "editing"
  /\ EraseLast(c) \/ Store(c) \/ Return(c) \/ Ignore(c)

-----------------------------------------------------------------------------
Init ==
  /\ Screen!Init
  /\ buf = [k \in 0 .. BUFLEN - 1 |-> 0]
  /\ i = 0 /\ start = 0
  /\ pc = "printing"

Next ==
  \/ \E c \in Codes : Output(c)
  \/ Begin
  \/ \E c \in Keystrokes : Key(c)

Spec == Init /\ [][Next]_vars

-----------------------------------------------------------------------------
(* Properties *)

\* The line and its NUL fit buf, and the page stays the terminal's.
TypeOK ==
  /\ term = [page |-> term.page, top |-> term.top, cursor |-> term.cursor]
  /\ term.top \in Nat /\ term.cursor \in term.top .. term.top + Size - 1
  /\ term.page \in [0 .. term.top + Size - 1 -> Cell]
  /\ buf \in [0 .. BUFLEN - 1 -> Byte]
  /\ i \in 0 .. BUFLEN - 1
  /\ pc \in {"printing", "editing", "returned"}
  /\ start \in Nat

\* What the user sees is what the monitor gets: from the end of the prompt on,
\* the page shows the characters of buf, and the cursor stands after the last;
\* what readline returns is that string, ended by its only NUL.
EchoIsLine ==
  pc \in {"editing", "returned"} =>
    /\ \A k \in 0 .. i - 1 :
         buf[k] # 0 /\ term.page[start + k] = CellOf(WithAttribute(buf[k]))
    /\ pc = "editing" => term.cursor = start + i
    /\ pc = "returned" => buf[i] = 0

\* Editing never reaches back before the line: no key erases the prompt or
\* what commands printed above it, also where the screen scrolls.
PromptSafe ==
  [][pc = "editing" => \A k \in 0 .. start - 1 : term'.page[k] = term.page[k]]_vars
=============================================================================
