------------------------------- MODULE Terminal -------------------------------
(***************************************************************************)
(* What the text-mode display promises to its callers: a page of cells     *)
(* that only ever grows at the bottom, seen through a window of Size cells *)
(* whose first position is top.  Text that leaves the window through the   *)
(* top stays on the page unchanged; a row that enters at the bottom is     *)
(* blank.  The cursor is a position on the page, always in the window.     *)
(***************************************************************************)
EXTENDS CharCodes

CONSTANTS
  Width,      \* cells in a row
  Size,       \* cells in the window
  BootCells,  \* what the window may show before the first character
  Codes       \* the codes that are written

VARIABLE term \* [page |-> cells so far, top |-> ..., cursor |-> ...]

Column(t) == (t.cursor - t.top) % Width

\* The window follows a cursor that moved past its last cell, by one row.
Follow(t) ==
  IF t.cursor < t.top + Size THEN t
  ELSE [ page   |-> [i \in 0 .. t.top + Size + Width - 1 |->
                       IF i < t.top + Size THEN t.page[i] ELSE BlankCell],
         top    |-> t.top + Width,
         cursor |-> t.cursor ]

Mark(t, c) ==
  Follow([ page   |-> [t.page EXCEPT ![t.cursor] = CellOf(c)],
           top    |-> t.top,
           cursor |-> t.cursor + 1 ])

Erase(t, c) ==
  IF t.cursor > t.top
  THEN [ page   |-> [t.page EXCEPT ![t.cursor - 1] = BlankLike(c)],
         top    |-> t.top,
         cursor |-> t.cursor - 1 ]
  ELSE t

Return(t) == [t EXCEPT !.cursor = @ - Column(t)]

Feed(t) == Follow(Return([t EXCEPT !.cursor = @ + Width]))

\* A tab is five blanks.
Tab(t) ==
  LET one(x) == Mark(x, BlankCell) IN one(one(one(one(one(t)))))

Write(t, c) ==
  LET a == WithAttribute(c) IN
  CASE Char(c) = BS  -> Erase(t, a)
    [] Char(c) = NL  -> Feed(t)
    [] Char(c) = CR  -> Return(t)
    [] Char(c) = TAB -> Tab(t)
    [] OTHER         -> Mark(t, a)

-----------------------------------------------------------------------------
Init ==
  \E page \in [0 .. Size - 1 -> BootCells], cursor \in 0 .. Size - 1 :
    term = [page |-> page, top |-> 0, cursor |-> cursor]

Next == \E c \in Codes : term' = Write(term, c)

Spec == Init /\ [][Next]_term
=============================================================================
