------------------------------- MODULE Display -------------------------------
(***************************************************************************)
(* The CGA/VGA text display of kern/console.c: the memory-mapped screen    *)
(* crt_buf, the cursor crt_pos and the 6845's cursor register, as cga_init *)
(* finds them and cga_putc changes them.                                   *)
(*                                                                         *)
(* State, one record:                                                      *)
(*   buf, pos  crt_buf and crt_pos                                         *)
(*   reg       the cursor location held by the 6845 (registers 14 and 15)  *)
(*   lost,past history, not in the code: how many cells have scrolled off  *)
(*             the top since boot, and what they showed                    *)
(***************************************************************************)
EXTENDS CharCodes

CONSTANTS
  CRT_ROWS, CRT_COLS,
  BootCells,   \* the cells the BIOS may leave on the screen
  Codes        \* the codes passed to cputchar

CRT_SIZE == CRT_ROWS * CRT_COLS

ASSUME CrtAssumption ==
  /\ CRT_ROWS \in Nat /\ CRT_ROWS >= 2
  /\ CRT_COLS \in Nat /\ CRT_COLS >= 1

\* crt_pos is a uint16_t.
ASSUME PosAssumption == CRT_SIZE + CRT_COLS <= UInt16

ASSUME CodesAssumption == BootCells \subseteq Cell /\ Codes \subseteq Int

VARIABLE crt

Pos == 0 .. CRT_SIZE - 1

\* The screens cga_putc leaves after n cells have scrolled off.
Screens(n) == [ buf : [Pos -> Cell], pos : Pos, reg : Pos,
                lost : Nat, past : [0 .. n - 1 -> Cell] ]

-----------------------------------------------------------------------------
(* cga_putc, piece by piece *)

\* s with other cells and another crt_pos.
Draw(s, buf, pos) ==
  [buf |-> buf, pos |-> pos, reg |-> s.reg, lost |-> s.lost, past |-> s.past]

\* The switch's cases; each leaves pos where the scroll check finds it.
BackspaceKeepsCell(s, c) ==   \* mutant: crt_buf is left alone
  IF s.pos > 0 THEN Draw(s, s.buf, s.pos - 1) ELSE s

Backspace(s, c) ==
  IF s.pos > 0
  THEN Draw(s, [s.buf EXCEPT ![s.pos - 1] = BlankLike(c)], s.pos - 1)
  ELSE s

CarriageReturn(s) == Draw(s, s.buf, s.pos - (s.pos % CRT_COLS))

NewLine(s) == CarriageReturn(Draw(s, s.buf, s.pos + CRT_COLS))

Glyph(s, c) == Draw(s, [s.buf EXCEPT ![s.pos] = CellOf(c)], s.pos + 1)

\* Mutant of RowsUp: the last row is not blanked.
RowsUpUnblanked(s) ==
  Draw([s EXCEPT !.lost = @ + CRT_COLS,
                 !.past = [i \in 0 .. s.lost + CRT_COLS - 1 |->
                             IF i < s.lost THEN @[i] ELSE s.buf[i - s.lost]]],
       [i \in Pos |-> s.buf[IF i < CRT_SIZE - CRT_COLS THEN i + CRT_COLS ELSE i]],
       s.pos - CRT_COLS)

\* memmove the rows up, blank the last one, step the cursor back one row.
RowsUp(s) ==
  [ buf  |-> [i \in Pos |-> IF i < CRT_SIZE - CRT_COLS
                            THEN s.buf[i + CRT_COLS] ELSE BlankCell],
    pos  |-> s.pos - CRT_COLS,
    reg  |-> s.reg,
    lost |-> s.lost + CRT_COLS,
    past |-> [i \in 0 .. s.lost + CRT_COLS - 1 |->
                IF i < s.lost THEN s.past[i] ELSE s.buf[i - s.lost]] ]

ScrollLate(s) == IF s.pos > CRT_SIZE THEN RowsUp(s) ELSE s   \* mutant: > for >=

Scroll(s) == IF s.pos >= CRT_SIZE THEN RowsUp(s) ELSE s

\* Two bytes go to the 6845.
MoveCursor(s) ==
  [s EXCEPT !.reg = (256 * ((s.pos \div 256) % 256)) + (s.pos % 256)]

\* The switch on the character, for any code but a tab.
Switch(s, c) ==
  CASE Char(c) = BS -> Backspace(s, c)
    [] Char(c) = NL -> NewLine(s)
    [] Char(c) = CR -> CarriageReturn(s)
    [] OTHER        -> Glyph(s, c)

\* One call of cga_putc with a code that is not a tab.
PutPlain(s, c) == MoveCursor(Scroll(Switch(s, WithAttribute(c))))

\* A tab calls cons_putc(' ') five times, then runs the shared tail itself.
PutTab(s) ==
  LET space(x) == PutPlain(x, SP) IN
  MoveCursor(Scroll(space(space(space(space(space(s)))))))

CgaPutc(s, c) == IF Char(c) = TAB THEN PutTab(s) ELSE PutPlain(s, c)

-----------------------------------------------------------------------------
\* cga_init: adopt the screen and the cursor the BIOS left.
CgaInit ==
  \E buf \in [Pos -> BootCells], pos \in Pos :
    crt = [buf |-> buf, pos |-> pos, reg |-> pos, lost |-> 0, past |-> [i \in {} |-> BlankCell]]

Init == CgaInit

Putc(c) == crt' = CgaPutc(crt, c)

Next == \E c \in Codes : Putc(c)

Spec == Init /\ [][Next]_crt

-----------------------------------------------------------------------------
(* Properties *)

\* The cursor is on the screen whenever cga_putc is entered, so that every
\* store to crt_buf is inside it; history is one cell per scrolled position.
TypeOK == crt \in Screens(crt.lost)

\* The page of text a user has seen since boot, the screen being its end.
PageOf(s) ==
  [ page   |-> [i \in 0 .. s.lost + CRT_SIZE - 1 |->
                  IF i < s.lost THEN s.past[i] ELSE s.buf[i - s.lost]],
    top    |-> s.lost,
    cursor |-> s.lost + s.reg ]

T == INSTANCE Terminal WITH Width <- CRT_COLS, Size <- CRT_SIZE,
                            term <- PageOf(crt)

\* Through wrapping, scrolling, tabs and erasing, the screen and the blinking
\* cursor are a window on a page to which text is only ever appended.
ScreenIsWindow == T!Spec

\* What readline's echo relies on: '\b' takes back the mark just made, also
\* when that mark wrapped the line or scrolled the screen.
EraseUndoesMark ==
  \A c \in Codes : Printing(c) =>
    LET after == PutPlain(PutPlain(crt, c), BS) IN
    /\ after.lost + after.pos = crt.lost + crt.pos
    /\ after.buf[after.pos] = BlankCell
=============================================================================
