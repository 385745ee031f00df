---------------------------- MODULE ConsoleInput ----------------------------
(***************************************************************************)
(* The input half of kern/console.c: getchar() polls the serial port and   *)
(* the keyboard controller through cons_intr, which stashes characters in  *)
(* the ring cons.buf, and takes the oldest one.  The kernel of this commit *)
(* installs no interrupt handlers, so this polling is all the input there  *)
(* is.  The devices run on their own and deliver bytes at any moment.      *)
(***************************************************************************)
EXTENDS Integers, Sequences

CONSTANTS
  CONSBUFSIZE,
  SerialBytes,  \* bytes the line may carry
  KbcBytes,     \* what the keyboard controller may deliver: Mouse, or what
                \* kbd_proc_data makes of a keyboard byte, which is a character
                \* code or 0 when the byte completes none
  Mouse         \* a byte flagged KBS_TERR: from the mouse, or a timeout

ASSUME RingAssumption == CONSBUFSIZE \in Nat /\ CONSBUFSIZE >= 2

ASSUME ByteAssumption ==
  /\ SerialBytes \subseteq 0 .. 255
  /\ KbcBytes \subseteq 0 .. 255 \cup {Mouse}
  /\ Mouse \notin 0 .. 255

VARIABLES
  port,           \* is there a UART at COM1
  serial_exists,
  rx,             \* the UART's receive register: empty or one byte (FIFO off)
  kbc,            \* bytes the keyboard controller holds; the head is readable
  cons,           \* [buf, rpos, wpos]
  pc,             \* where the kernel is: see Step
  stashed,        \* history: every character put in the ring
  returned,       \* history: every character getchar returned
  arrivals        \* history: how many bytes the devices have delivered

dev == <<port, rx, kbc, arrivals>>
vars == <<port, serial_exists, rx, kbc, cons, pc, stashed, returned, arrivals>>

Slots == 0 .. CONSBUFSIZE - 1
Chars == 1 .. 255

-----------------------------------------------------------------------------
(* The devices *)

\* With the FIFO off a byte that is not collected in time is overwritten.
SerialArrive(b) ==
  /\ port
  /\ rx' = <<b>>
  /\ arrivals' = arrivals + 1
  /\ UNCHANGED <<port, serial_exists, kbc, cons, pc, stashed, returned>>

\* The controller shows one byte at a time and keeps the rest in line.
KbcArrive(b) ==
  /\ kbc' = Append(kbc, b)
  /\ arrivals' = arrivals + 1
  /\ UNCHANGED <<port, serial_exists, rx, cons, pc, stashed, returned>>

\* Reads of a port where no UART answers give 0xFF: COM_LSR_DATA is set in
\* that too.
SerialReady == IF port THEN rx # <<>> ELSE TRUE
SerialData  == IF port THEN Head(rx) ELSE 255

\* The controller has a byte, and it is from the keyboard.
KbdReadyBySerial == serial_exists /\ kbc # <<>> /\ Head(kbc) # Mouse   \* mutant: wrong guard

KbdReady == kbc # <<>> /\ Head(kbc) # Mouse

-----------------------------------------------------------------------------
(* The kernel *)

SuccLate(pos)  == IF pos = CONSBUFSIZE THEN 0 ELSE pos + 1       \* mutant: wraps late
SuccEarly(pos) == IF pos + 2 = CONSBUFSIZE THEN 0 ELSE pos + 1   \* mutant: wraps early

Succ(pos) == IF pos + 1 = CONSBUFSIZE THEN 0 ELSE pos + 1

\* Mutant of Stash: the test for 0 is gone.
StashAny(c) ==
  /\ cons' = [ buf  |-> [cons.buf EXCEPT ![cons.wpos] = c],
               rpos |-> cons.rpos,
               wpos |-> Succ(cons.wpos) ]
  /\ stashed' = Append(stashed, c)

\* The body of cons_intr's loop, for a character that is not -1.
Stash(c) ==
  IF c = 0
  THEN UNCHANGED <<cons, stashed>>
  ELSE /\ cons' = [ buf  |-> [cons.buf EXCEPT ![cons.wpos] = c],
                    rpos |-> cons.rpos,
                    wpos |-> Succ(cons.wpos) ]
       /\ stashed' = Append(stashed, c)

\* serial_intr: cons_intr(serial_proc_data), one turn of the loop at a time.
SerialIntr ==
  /\ pc = "serial"
  /\ IF serial_exists /\ SerialReady
     THEN /\ Stash(SerialData)
          /\ rx' = <<>>
          /\ pc' = pc
     ELSE /\ pc' = "kbd"
          /\ UNCHANGED <<cons, stashed, rx>>
  /\ UNCHANGED <<port, serial_exists, kbc, returned, arrivals>>

\* kbd_intr: cons_intr(kbd_proc_data), one turn at a time.
KbdIntr ==
  /\ pc = "kbd"
  /\ IF KbdReady
     THEN /\ Stash(Head(kbc))
          /\ kbc' = Tail(kbc)
          /\ pc' = pc
     ELSE /\ pc' = "take"
          /\ UNCHANGED <<cons, stashed, kbc>>
  /\ UNCHANGED <<port, serial_exists, rx, returned, arrivals>>

\* cons_getc hands out the oldest character ...
Take ==
  /\ pc = "take"
  /\ cons.rpos # cons.wpos
  /\ returned' = Append(returned, cons.buf[cons.rpos])
  /\ cons' = [cons EXCEPT !.rpos = Succ(@)]
  /\ pc' = "caller"
  /\ UNCHANGED <<dev, serial_exists, stashed>>

\* ... or returns 0, and getchar calls it again.
TakeNone ==
  /\ pc = "take"
  /\ cons.rpos = cons.wpos
  /\ pc' = "serial"
  /\ UNCHANGED <<dev, serial_exists, cons, stashed, returned>>

\* The caller of getchar has used the character and asks for another.
Getchar ==
  /\ pc = "caller"
  /\ pc' = "serial"
  /\ UNCHANGED <<dev, serial_exists, cons, stashed, returned>>

Step == SerialIntr \/ KbdIntr \/ Take \/ TakeNone \/ Getchar

-----------------------------------------------------------------------------
\* serial_init has found out whether the port answers and has drained it; the
\* controller may hold bytes typed before the kernel ran.
Init ==
  /\ port \in BOOLEAN
  /\ serial_exists = port
  /\ rx = <<>>
  /\ kbc \in {<<>>} \cup {<<b>> : b \in KbcBytes}
  /\ cons = [buf |-> [i \in Slots |-> 0], rpos |-> 0, wpos |-> 0]
  /\ pc = "caller"
  /\ stashed = <<>> /\ returned = <<>>
  /\ arrivals = Len(kbc)

Next ==
  \/ Step
  \/ \E b \in SerialBytes : SerialArrive(b)
  \/ \E b \in KbcBytes : KbcArrive(b)

\* The kernel is the only thing the processor runs and getchar's callers all
\* come back for more, so its steps are fair; the devices owe nothing.
Spec == Init /\ [][Next]_vars /\ WF_vars(Step)

-----------------------------------------------------------------------------
(* Properties *)

\* The indices stay in the ring, no 0 enters it, and the UART holds one byte.
TypeOK ==
  /\ port \in BOOLEAN /\ serial_exists \in BOOLEAN
  /\ rx \in Seq(SerialBytes) /\ Len(rx) <= 1
  /\ kbc \in Seq(KbcBytes)
  /\ cons \in [buf : [Slots -> 0 .. 255], rpos : Slots, wpos : Slots]
  /\ pc \in {"serial", "kbd", "take", "caller"}
  /\ stashed \in Seq(Chars) /\ returned \in Seq(Chars)
  /\ arrivals \in Nat

\* The characters between rpos and wpos, oldest first.
Backlog == IF cons.wpos >= cons.rpos THEN cons.wpos - cons.rpos
                                     ELSE cons.wpos + CONSBUFSIZE - cons.rpos

Slot(k) == IF cons.rpos + k < CONSBUFSIZE THEN cons.rpos + k
                                          ELSE cons.rpos + k - CONSBUFSIZE

Waiting == [k \in 1 .. Backlog |-> cons.buf[Slot(k - 1)]]

\* The ring is the queue that forgets everything when it would fill up: wpos
\* catching up with rpos makes a full ring look empty.
Fifo == INSTANCE LossyFifo WITH Size <- CONSBUFSIZE, queue <- Waiting

\* Every step of cons_intr, cons_getc and their callers, for whatever the two
\* devices deliver in between, is a Put or a Get of that queue or leaves it.
RingIsLossyFifo == Fifo!Spec

\* What is lost is lost in whole buffers, and what is left is the newest
\* input: no character is duplicated, skipped or overtaken on its own.
LossInWholeBuffers ==
  LET n == Len(stashed) IN
  /\ (n - Len(returned) - Backlog) % CONSBUFSIZE = 0
  /\ Waiting = SubSeq(stashed, n - Backlog + 1, n)

\* Once the devices fall silent the kernel collects all they hold and hands
\* it to the callers of getchar: no byte stays behind in a device or the ring.
InputDrained == <>[](rx = <<>> /\ kbc = <<>> /\ Backlog = 0)

\* kern/console.c:409 on cons_getc: "return the next input character from the
\* console, or 0 if none waiting".
ZeroMeansNoneWaiting ==
  pc = "take" /\ cons.rpos = cons.wpos => Len(stashed) = Len(returned)

\* kern/console.c:325 in kbd_proc_data: "Ignore data from mouse."  What is
\* typed behind such a byte is still read.
KeyWaits == \E i \in DOMAIN kbc : kbc[i] # Mouse

KeysReadBehindMouse == KeyWaits ~> ~KeyWaits
=============================================================================
