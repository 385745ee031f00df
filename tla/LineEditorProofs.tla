-------------------------- MODULE LineEditorProofs --------------------------
(* Theorems about LineEditor, for every screen and every longest line that  *)
(* leaves a row of it free.                                                 *)
EXTENDS LineEditor, TLAPS

USE LineAssumption

\* A page and a cursor in its window.
Page(t) ==
  /\ t = [page |-> t.page, top |-> t.top, cursor |-> t.cursor]
  /\ t.top \in Nat /\ t.cursor \in t.top .. t.top + Size - 1
  /\ t.page \in [0 .. t.top + Size - 1 -> Cell]

\* The same before the window has followed the cursor.
Ahead(t) ==
  /\ t = [page |-> t.page, top |-> t.top, cursor |-> t.cursor]
  /\ t.top \in Nat /\ t.cursor \in t.top .. t.top + Size + Width - 1
  /\ t.page \in [0 .. t.top + Size - 1 -> Cell]

\* The screen is at least one row, and a row fits it.
LEMMA Geometry == Size \in Nat /\ Width \in Nat /\ 1 <= Width /\ Width <= Size
OBVIOUS

\* The instance Screen carries its own copy of the character codes.
LEMMA SameCodes ==
  /\ Screen!BlankCell = BlankCell /\ Screen!Cell = Cell
  /\ \A c : Screen!CellOf(c) = CellOf(c) /\ Screen!BlankLike(c) = BlankLike(c)
  /\ \A c : Screen!Char(c) = Char(c) /\ Screen!WithAttribute(c) = WithAttribute(c)
BY DEF BlankCell, Screen!BlankCell, CellOf, Screen!CellOf, BlankLike,
       Screen!BlankLike, Char, Screen!Char, WithAttribute, Screen!WithAttribute,
       NoAttribute, Screen!NoAttribute, BlackOnWhite, Screen!BlackOnWhite,
       SP, Screen!SP, Cell, Screen!Cell, UInt16, Screen!UInt16

\* 16 bits hold every code below 2^16.
LEMMA Width16 == UInt16 \in Nat /\ UInt16 > 2000
BY DEF UInt16

\* A cell keeps 16 bits of any code.
LEMMA CellRange ==
  ASSUME NEW c, c \in Int
  PROVE  CellOf(c) \in Cell /\ BlankLike(c) \in Cell /\ WithAttribute(c) \in Int
<1>1. ASSUME NEW x, x \in Int PROVE CellOf(x) \in Cell
  <2>1. \A m \in Nat : m > 0 => x % m \in 0 .. m - 1  BY <1>1
  <2> QED BY <2>1, Width16 DEF CellOf, Cell
<1>2. (c - Char(c)) + SP \in Int  BY DEF Char, SP
<1>3. BlankLike(c) \in Cell  BY <1>1, <1>2 DEF BlankLike
<1>4. WithAttribute(c) \in Int  BY DEF WithAttribute, BlackOnWhite
<1> QED BY <1>1, <1>3, <1>4

\* The blank of an empty row is a cell.
LEMMA BlankIsCell == BlankCell \in Cell
BY Width16 DEF BlankCell, BlackOnWhite, SP, Cell

\* The cursor's column is less than the width of the row.
LEMMA ColumnBounds ==
  ASSUME NEW p, p \in Nat
  PROVE  /\ p % Width \in Nat
         /\ p % Width < Width
         /\ p % Width <= p
<1>1. p % Width \in 0 .. Width - 1  OBVIOUS
<1>2. p % Width <= p  OBVIOUS
<1> QED BY <1>1, <1>2

\* The window follows the cursor and nothing on the page changes.
LEMMA FollowStep ==
  ASSUME NEW t, Ahead(t)
  PROVE  /\ Page(Screen!Follow(t))
         /\ Screen!Follow(t).cursor = t.cursor
         /\ \A k \in 0 .. t.top + Size - 1 : Screen!Follow(t).page[k] = t.page[k]
         /\ Screen!Follow(t).top =
              IF t.cursor < t.top + Size THEN t.top ELSE t.top + Width
<1>1. CASE t.cursor < t.top + Size
  BY <1>1, Geometry DEF Screen!Follow, Ahead, Page
<1>2. CASE ~(t.cursor < t.top + Size)
  <2> DEFINE u == Screen!Follow(t)
             cells == [k \in 0 .. t.top + Size + Width - 1 |->
                         IF k < t.top + Size THEN t.page[k] ELSE Screen!BlankCell]
  <2>1. u = [page |-> cells, top |-> t.top + Width, cursor |-> t.cursor]
    BY <1>2 DEF Screen!Follow
  <2>2. cells \in [0 .. t.top + Size + Width - 1 -> Cell]
    BY Geometry, BlankIsCell, SameCodes DEF Ahead
  <2>3. t.top + Width + Size - 1 = t.top + Size + Width - 1
    BY Geometry DEF Ahead
  <2>4. Page(u)
    BY <1>2, <2>1, <2>2, <2>3, Geometry DEF Page, Ahead
  <2>5. \A k \in 0 .. t.top + Size - 1 : u.page[k] = t.page[k]
    BY <2>1, Geometry DEF Ahead
  <2>6. u.cursor = t.cursor /\ u.top = t.top + Width  BY <2>1
  <2> HIDE DEF u
  <2>7. Page(u) /\ u.cursor = t.cursor
        /\ (\A k \in 0 .. t.top + Size - 1 : u.page[k] = t.page[k])
        /\ u.top = IF t.cursor < t.top + Size THEN t.top ELSE t.top + Width
    BY <1>2, <2>4, <2>5, <2>6
  <2> QED BY <2>7 DEF u
<1> QED BY <1>1, <1>2

\* Moving on by up to a row leaves the window by less than a row.
LEMMA InReach ==
  ASSUME NEW top, top \in Nat, NEW p, p \in top .. top + Size - 1,
         NEW n, n \in Int, 0 <= n, n <= Width
  PROVE  p + n \in top .. top + Size + Width - 1
<1>1. p \in Int /\ top <= p /\ p <= top + Size - 1  BY Geometry
<1>2. p + n \in Int /\ top <= p + n /\ p + n <= top + Size + Width - 1
  BY <1>1, Geometry
<1> QED BY <1>2, Geometry

\* A mark changes the cell under the cursor and no other.
LEMMA MarkStep ==
  ASSUME NEW t, Page(t), NEW c, c \in Int
  PROVE  LET u == Screen!Mark(t, c) IN
         /\ Page(u)
         /\ u.cursor = t.cursor + 1
         /\ u.page[t.cursor] = CellOf(c)
         /\ \A k \in 0 .. t.top + Size - 1 : k # t.cursor => u.page[k] = t.page[k]
         /\ u.top = IF t.cursor + 1 < t.top + Size THEN t.top ELSE t.top + Width
<1> DEFINE cells == [t.page EXCEPT ![t.cursor] = Screen!CellOf(c)]
           v == [page |-> cells, top |-> t.top, cursor |-> t.cursor + 1]
<1>0. t.top \in Nat /\ t.cursor \in t.top .. t.top + Size - 1
      /\ t.page \in [0 .. t.top + Size - 1 -> Cell]
      /\ t.cursor \in 0 .. t.top + Size - 1
  BY Geometry DEF Page
<1>1. Screen!CellOf(c) = CellOf(c) /\ CellOf(c) \in Cell
  BY SameCodes, CellRange
<1>2. cells \in [0 .. t.top + Size - 1 -> Cell]  BY <1>0, <1>1
<1>3. Ahead(v)
  <2>1. t.cursor + 1 \in t.top .. t.top + Size + Width - 1
    BY <1>0, Geometry, InReach
  <2> QED BY <1>0, <1>2, <2>1 DEF Ahead
<1>4. cells[t.cursor] = CellOf(c)
      /\ \A k \in 0 .. t.top + Size - 1 : k # t.cursor => cells[k] = t.page[k]
  BY <1>0, <1>1
<1>5. Screen!Mark(t, c) = Screen!Follow(v)  BY DEF Screen!Mark
<1>6. v.page = cells /\ v.top = t.top /\ v.cursor = t.cursor + 1  OBVIOUS
<1> HIDE DEF cells, v
<1> DEFINE u == Screen!Follow(v)
<1>7. /\ Page(u) /\ u.cursor = t.cursor + 1
      /\ \A k \in 0 .. t.top + Size - 1 : u.page[k] = cells[k]
      /\ u.top = IF t.cursor + 1 < t.top + Size THEN t.top ELSE t.top + Width
  BY <1>3, <1>6, FollowStep
<1>8. /\ u.page[t.cursor] = CellOf(c)
      /\ \A k \in 0 .. t.top + Size - 1 : k # t.cursor => u.page[k] = t.page[k]
  BY <1>0, <1>4, <1>7
<1> QED BY <1>5, <1>7, <1>8

\* An erasure blanks the cell before the cursor, and no other.
LEMMA EraseStep ==
  ASSUME NEW t, Page(t), NEW c, c \in Int
  PROVE  LET u == Screen!Erase(t, c) IN
         /\ Page(u)
         /\ u.top = t.top
         /\ t.cursor > t.top => u.cursor = t.cursor - 1
         /\ \A k \in 0 .. t.top + Size - 1 : k # t.cursor - 1 => u.page[k] = t.page[k]
<1>0. t.top \in Nat /\ t.cursor \in t.top .. t.top + Size - 1
      /\ t.page \in [0 .. t.top + Size - 1 -> Cell]
  BY DEF Page
<1>1. CASE t.cursor > t.top
  <2> DEFINE cells == [t.page EXCEPT ![t.cursor - 1] = Screen!BlankLike(c)]
  <2>1. Screen!Erase(t, c) = [page |-> cells, top |-> t.top, cursor |-> t.cursor - 1]
    BY <1>1 DEF Screen!Erase
  <2>2. Screen!BlankLike(c) \in Cell  BY SameCodes, CellRange
  <2>3. cells \in [0 .. t.top + Size - 1 -> Cell]  BY <1>0, <2>2
  <2>4. \A k \in 0 .. t.top + Size - 1 : k # t.cursor - 1 => cells[k] = t.page[k]
    BY <1>0
  <2> HIDE DEF cells
  <2> QED BY <1>0, <1>1, <2>1, <2>3, <2>4, Geometry DEF Page
<1>2. CASE ~(t.cursor > t.top)
  BY <1>2 DEF Screen!Erase
<1> QED BY <1>1, <1>2

\* A carriage return moves the cursor back in the window, and changes no cell.
LEMMA ReturnStep ==
  ASSUME NEW t, Ahead(t)
  PROVE  LET u == Screen!Return(t) IN
         /\ Ahead(u)
         /\ u.top = t.top /\ u.page = t.page
         /\ u.cursor <= t.cursor
<1>0. t.top \in Nat /\ t.cursor \in t.top .. t.top + Size + Width - 1
  BY DEF Ahead
<1>1. t.cursor - t.top \in Nat  BY <1>0, Geometry
<1>2. /\ Screen!Column(t) \in Nat /\ Screen!Column(t) <= t.cursor - t.top
  BY <1>1, ColumnBounds DEF Screen!Column
<1>3. Screen!Return(t) = [page |-> t.page, top |-> t.top,
                          cursor |-> t.cursor - Screen!Column(t)]
  <2>1. t = [page |-> t.page, top |-> t.top, cursor |-> t.cursor]  BY DEF Ahead
  <2>2. ASSUME NEW c
        PROVE  [t EXCEPT !.cursor = @ - c] =
                 [page |-> t.page, top |-> t.top, cursor |-> t.cursor - c]
    BY <2>1
  <2> QED BY <2>2 DEF Screen!Return
<1> DEFINE col == Screen!Column(t)
<1> HIDE DEF Screen!Return, col
<1>4. /\ t.cursor - col \in Int
      /\ t.top <= t.cursor - col /\ t.cursor - col <= t.cursor
  <2>1. col \in Nat /\ col <= t.cursor - t.top  BY <1>2 DEF col
  <2>2. t.top \in Int /\ t.cursor \in Int  BY <1>0, Geometry
  <2> QED BY <2>1, <2>2
<1>5. t.cursor - col \in t.top .. t.top + Size + Width - 1
  BY <1>0, <1>4, Geometry
<1>6. Screen!Return(t) = [page |-> t.page, top |-> t.top, cursor |-> t.cursor - col]
  BY <1>3 DEF col
<1> QED BY <1>0, <1>4, <1>5, <1>6 DEF Ahead

\* A line feed moves the cursor, and changes no cell of the page so far.
LEMMA FeedStep ==
  ASSUME NEW t, Page(t)
  PROVE  LET u == Screen!Feed(t) IN
         /\ Page(u)
         /\ \A k \in 0 .. t.top + Size - 1 : u.page[k] = t.page[k]
<1> DEFINE down == [page |-> t.page, top |-> t.top, cursor |-> t.cursor + Width]
           back == Screen!Return(down)
<1>1. [t EXCEPT !.cursor = @ + Width] = down
  <2>1. t = [page |-> t.page, top |-> t.top, cursor |-> t.cursor]  BY DEF Page
  <2> QED BY <2>1
<1>2. Ahead(down)
  <2>1. /\ t.top \in Nat /\ t.cursor \in t.top .. t.top + Size - 1
        /\ t.page \in [0 .. t.top + Size - 1 -> Cell]
    BY DEF Page
  <2>2. t.cursor + Width \in t.top .. t.top + Size + Width - 1
    BY <2>1, Geometry, InReach
  <2> QED BY <2>1, <2>2 DEF Ahead
<1>3. Screen!Feed(t) = Screen!Follow(back)  BY <1>1 DEF Screen!Feed
<1>4. down.page = t.page /\ down.top = t.top  OBVIOUS
<1> HIDE DEF down
<1>5. Ahead(back) /\ back.top = t.top /\ back.page = t.page
  BY <1>2, <1>4, ReturnStep
<1> HIDE DEF back
<1> QED BY <1>3, <1>5, FollowStep

\* A tab leaves a well-formed page.
LEMMA TabStep ==
  ASSUME NEW t, Page(t)
  PROVE  Page(Screen!Tab(t))
<1> DEFINE m(x) == Screen!Mark(x, Screen!BlankCell)
<1>1. Screen!BlankCell \in Int  BY DEF Screen!BlankCell, Screen!BlackOnWhite, Screen!SP
<1>2. ASSUME NEW x, Page(x) PROVE Page(m(x))  BY <1>1, <1>2, MarkStep
<1>3. Page(m(m(m(m(m(t))))))  BY <1>2
<1> QED BY <1>3 DEF Screen!Tab

\* What cputchar does with the codes readline echoes.
LEMMA EchoedCodes ==
  ASSUME NEW t
  PROVE  /\ Screen!Write(t, BS) = Screen!Erase(t, WithAttribute(BS))
         /\ Screen!Write(t, NL) = Screen!Feed(t)
         /\ \A c \in SP .. 255 : Screen!Write(t, c) = Screen!Mark(t, WithAttribute(c))
<1>1. /\ Screen!BS = 8 /\ Screen!TAB = 9 /\ Screen!NL = 10 /\ Screen!CR = 13
      /\ BS = 8 /\ NL = 10 /\ SP = 32
  BY DEF Screen!BS, Screen!TAB, Screen!NL, Screen!CR, BS, NL, SP
<1>2. Char(BS) = 8 /\ Char(NL) = 10 /\ \A c \in SP .. 255 : Char(c) = c
  BY <1>1 DEF Char
<1>3. Screen!Write(t, BS) = Screen!Erase(t, WithAttribute(BS))
  BY <1>1, <1>2, SameCodes DEF Screen!Write
<1>4. Screen!Write(t, NL) = Screen!Feed(t)
  BY <1>1, <1>2, SameCodes DEF Screen!Write
<1>5. ASSUME NEW c \in SP .. 255
      PROVE  Screen!Write(t, c) = Screen!Mark(t, WithAttribute(c))
  BY <1>1, <1>2, SameCodes DEF Screen!Write
<1> QED BY <1>3, <1>4, <1>5

\* Whatever is printed, cputchar leaves a well-formed page.
LEMMA WriteStep ==
  ASSUME NEW t, Page(t), NEW c, c \in Int
  PROVE  Page(Screen!Write(t, c))
<1> DEFINE a == Screen!WithAttribute(c)
           n == Screen!Char(c)
<1>1. a \in Int  BY CellRange, SameCodes
<1>2. Ahead(t)  BY Geometry DEF Page, Ahead
<1>3. Page(Screen!Return(t))
  <2>1. /\ Ahead(Screen!Return(t)) /\ Screen!Return(t).top = t.top
        /\ Screen!Return(t).cursor <= t.cursor
    BY <1>2, ReturnStep
  <2> QED BY <2>1, Geometry DEF Page, Ahead
<1>4. Page(Screen!Erase(t, a)) /\ Page(Screen!Mark(t, a))
  BY <1>1, EraseStep, MarkStep
<1>5. Page(Screen!Feed(t)) /\ Page(Screen!Tab(t))  BY FeedStep, TabStep
<1>6. \/ Screen!Write(t, c) \in {Screen!Erase(t, a), Screen!Feed(t), Screen!Return(t)}
      \/ Screen!Write(t, c) \in {Screen!Tab(t), Screen!Mark(t, a)}
  BY DEF Screen!Write
<1> QED BY <1>3, <1>4, <1>5, <1>6

-----------------------------------------------------------------------------
(* The inductive invariant adds that the line being edited begins in the    *)
(* window: a line of BUFLEN - 1 characters cannot scroll its own beginning  *)
(* away, which is why '\b' can always take back its last character.         *)
Inv ==
  /\ TypeOK
  /\ EchoIsLine
  /\ pc = "editing" => term.top <= start

\* The invariant holds before the first prompt.
LEMMA InitInv == Init => Inv
<1> SUFFICES ASSUME Init PROVE Inv  OBVIOUS
<1>1. PICK page \in [0 .. Size - 1 -> BootCells], cursor \in 0 .. Size - 1 :
        term = [page |-> page, top |-> 0, cursor |-> cursor]
  BY DEF Init, Screen!Init
<1>2. page \in [0 .. 0 + Size - 1 -> Cell]  BY CodeAssumption, Geometry
<1>3. cursor \in 0 .. 0 + Size - 1  BY Geometry
<1>4. buf \in [0 .. BUFLEN - 1 -> Byte] /\ i \in 0 .. BUFLEN - 1 /\ start \in Nat
  BY DEF Init, Byte
<1>5. TypeOK  BY <1>1, <1>2, <1>3, <1>4 DEF Init, TypeOK
<1> QED BY <1>5 DEF Inv, EchoIsLine, Init

\* TypeOK, split into the page and readline's own variables.
LEMMA PageType == TypeOK <=> /\ Page(term)
                             /\ buf \in [0 .. BUFLEN - 1 -> Byte]
                             /\ i \in 0 .. BUFLEN - 1
                             /\ pc \in {"printing", "editing", "returned"}
                             /\ start \in Nat
BY DEF TypeOK, Page

\* The same for the next state.
LEMMA PrimedPageType == TypeOK' <=> /\ Page(term')
                                    /\ buf' \in [0 .. BUFLEN - 1 -> Byte]
                                    /\ i' \in 0 .. BUFLEN - 1
                                    /\ pc' \in {"printing", "editing", "returned"}
                                    /\ start' \in Nat
BY DEF TypeOK, Page

\* Output between two lines preserves the invariant.
LEMMA PrintStep ==
  ASSUME Inv, NEW c \in Codes, Output(c)
  PROVE  Inv'
<1>1. c \in Int  BY CodeAssumption
<1>2. Page(term')  BY <1>1, WriteStep, PageType DEF Output, cputchar, Inv
<1>3. TypeOK'  BY <1>2, PageType, PrimedPageType DEF Output, Inv
<1> QED BY <1>3 DEF Inv, EchoIsLine, Output

\* The start of readline's loop establishes what it keeps.
LEMMA BeginStep ==
  ASSUME Inv, Begin
  PROVE  Inv'
<1>1. Page(term) /\ term' = term  BY PageType DEF Begin, Inv
<1>2. term.cursor \in Nat /\ term.top <= term.cursor  BY <1>1, Geometry DEF Page
<1>3. TypeOK'  BY <1>1, <1>2, PageType, PrimedPageType DEF Begin, Inv
<1> QED BY <1>2, <1>3 DEF Inv, EchoIsLine, Begin

\* Facts about the line being edited.
LEMMA Editing ==
  ASSUME Inv, pc = "editing"
  PROVE  /\ Page(term) /\ term.top \in Nat /\ start \in Nat
         /\ i \in 0 .. BUFLEN - 1 /\ buf \in [0 .. BUFLEN - 1 -> Byte]
         /\ term.top <= start /\ term.cursor = start + i
         /\ start + i <= term.top + Size - 1
         /\ \A k \in 0 .. i - 1 :
              buf[k] # 0 /\ term.page[start + k] = CellOf(WithAttribute(buf[k]))
<1>1. TypeOK /\ term.top <= start  BY DEF Inv
<1>2. term.cursor = start + i  BY DEF Inv, EchoIsLine
<1>3. Page(term) /\ start \in Nat /\ i \in 0 .. BUFLEN - 1
      /\ buf \in [0 .. BUFLEN - 1 -> Byte]
  BY <1>1, PageType
<1>4. term.top \in Nat /\ start + i <= term.top + Size - 1
  BY <1>2, <1>3 DEF Page
<1> QED BY <1>1, <1>2, <1>3, <1>4 DEF Inv, EchoIsLine

\* The cells before the line, which PromptSafe is about.
Before == \A k \in 0 .. start - 1 : term'.page[k] = term.page[k]

\* The positions of a line of n characters from s on, but for the last one.
LEMMA AllButLast ==
  ASSUME NEW s, s \in Nat, NEW n, n \in Int, n > 0,
         NEW end, end \in Nat, s + n <= end
  PROVE  /\ \A k \in 0 .. s + n - 2 : k \in 0 .. end /\ k # s + n - 1
         /\ \A k \in 0 .. s - 1 : k \in 0 .. s + n - 2
         /\ \A k \in 0 .. n - 2 : k \in 0 .. n - 1 /\ s + k \in 0 .. s + n - 2
OBVIOUS

\* An erasure takes back the last character and its echo, and nothing more.
LEMMA EraseLastStep ==
  ASSUME Inv, pc = "editing", NEW c \in Keystrokes, EraseLast(c)
  PROVE  Inv' /\ Before
<1> DEFINE u == Screen!Erase(term, WithAttribute(BS))
<1>1. /\ term' = u /\ i' = i - 1 /\ i > 0
      /\ buf' = buf /\ pc' = "editing" /\ start' = start
  BY EchoedCodes DEF EraseLast, Erases, cputchar
<1>2. WithAttribute(BS) \in Int  BY CellRange DEF BS
<1>3. /\ Page(u) /\ u.top = term.top
      /\ term.cursor > term.top => u.cursor = term.cursor - 1
      /\ \A k \in 0 .. term.top + Size - 1 :
           k # term.cursor - 1 => u.page[k] = term.page[k]
  BY <1>2, Editing, EraseStep
<1> HIDE DEF u
<1>4. term'.cursor = start + i' /\ i' \in 0 .. BUFLEN - 1
  BY <1>1, <1>3, Editing
<1>5. TypeOK'  BY <1>1, <1>3, <1>4, Editing, PrimedPageType
<1>6. /\ \A k \in 0 .. start + i - 2 :
           k \in 0 .. term.top + Size - 1 /\ k # start + i - 1
      /\ \A k \in 0 .. start - 1 : k \in 0 .. start + i - 2
      /\ \A k \in 0 .. i - 2 : k \in 0 .. i - 1 /\ start + k \in 0 .. start + i - 2
  <2>1. /\ start \in Nat /\ i \in Int /\ i > 0 /\ start + i <= term.top + Size - 1
        /\ term.top + Size - 1 \in Nat
    BY <1>1, Editing, Geometry
  <2> QED BY <2>1, AllButLast
<1>7. ASSUME NEW k, k \in 0 .. start + i - 2
      PROVE  term'.page[k] = term.page[k]
  <2>1. k \in 0 .. term.top + Size - 1 /\ k # start + i - 1  BY <1>6, <1>7
  <2>2. term.cursor - 1 = start + i - 1  BY Editing
  <2> QED BY <1>1, <1>3, <2>1, <2>2
<1>8. Before  BY <1>6, <1>7 DEF Before
<1>9. \A k \in 0 .. i - 2 :
        buf[k] # 0 /\ term'.page[start + k] = CellOf(WithAttribute(buf[k]))
  BY <1>6, <1>7, Editing
<1>10. \A k \in 0 .. i' - 1 :
         buf'[k] # 0 /\ term'.page[start' + k] = CellOf(WithAttribute(buf'[k]))
  <2>1. i' - 1 = i - 2  BY <1>1, Editing
  <2> QED BY <1>1, <1>9, <2>1
<1> QED BY <1>1, <1>3, <1>4, <1>5, <1>8, <1>10, Editing DEF Inv, EchoIsLine

\* The positions of a line of n characters from s on, with room for one more.
LEMMA OneMore ==
  ASSUME NEW s, s \in Nat, NEW n, n \in Nat, NEW top, top \in Nat,
         n < BUFLEN - 1, top <= s, s + n <= top + Size - 1
  PROVE  /\ n + 1 \in 0 .. BUFLEN - 1
         /\ ~(s + n + 1 < top + Size) => top + Width <= s
         /\ \A k \in 0 .. s + n - 1 : k \in 0 .. top + Size - 1 /\ k # s + n
         /\ \A k \in 0 .. s - 1 : k \in 0 .. s + n - 1
         /\ \A k \in 0 .. n : k # n => k \in 0 .. n - 1 /\ s + k \in 0 .. s + n - 1
<1>1. n + 1 \in 0 .. BUFLEN - 1  OBVIOUS
<1>2. ~(s + n + 1 < top + Size) => top + Width <= s  OBVIOUS
<1>3. \A k \in 0 .. s + n - 1 : k \in 0 .. top + Size - 1 /\ k # s + n  OBVIOUS
<1>4. \A k \in 0 .. s - 1 : k \in 0 .. s + n - 1  OBVIOUS
<1>5. \A k \in 0 .. n : k # n => k \in 0 .. n - 1 /\ s + k \in 0 .. s + n - 1  OBVIOUS
<1> QED BY <1>1, <1>2, <1>3, <1>4, <1>5

\* Storing and echoing a character keeps the echo equal to the line.
LEMMA StoreStep ==
  ASSUME Inv, pc = "editing", NEW c \in Keystrokes, Store(c)
  PROVE  Inv' /\ Before
<1> DEFINE u == Screen!Mark(term, WithAttribute(c))
<1>0. c \in SP .. 255 /\ c \in Byte /\ c # 0 /\ c \in Int
  BY CodeAssumption DEF Store, Stores, SP, Byte
<1>1. /\ term' = u /\ i' = i + 1 /\ i < BUFLEN - 1
      /\ buf' = [buf EXCEPT ![i] = c] /\ pc' = "editing" /\ start' = start
  BY <1>0, EchoedCodes DEF Store, Stores, cputchar
<1>2. WithAttribute(c) \in Int  BY <1>0, CellRange
<1>3. /\ Page(u) /\ u.cursor = term.cursor + 1
      /\ u.page[term.cursor] = CellOf(WithAttribute(c))
      /\ \A k \in 0 .. term.top + Size - 1 :
           k # term.cursor => u.page[k] = term.page[k]
      /\ u.top = IF term.cursor + 1 < term.top + Size THEN term.top
                                                      ELSE term.top + Width
  BY <1>2, Editing, MarkStep
<1> HIDE DEF u
<1>a. /\ start \in Nat /\ i \in Nat /\ term.top \in Nat
      /\ term.top <= start /\ start + i <= term.top + Size - 1
      /\ term.cursor = start + i
  BY Editing
<1>b. /\ i + 1 \in 0 .. BUFLEN - 1
      /\ ~(start + i + 1 < term.top + Size) => term.top + Width <= start
      /\ \A k \in 0 .. start + i - 1 : k \in 0 .. term.top + Size - 1 /\ k # start + i
      /\ \A k \in 0 .. start - 1 : k \in 0 .. start + i - 1
      /\ \A k \in 0 .. i : k # i => k \in 0 .. i - 1 /\ start + k \in 0 .. start + i - 1
  BY <1>1, <1>a, OneMore
<1>4. term'.cursor = start + i' /\ i' \in 0 .. BUFLEN - 1
  <2>1. start + i + 1 = start + (i + 1)  BY <1>a
  <2> QED BY <1>1, <1>3, <1>a, <1>b, <2>1
<1>5. term'.top <= start
  BY <1>1, <1>3, <1>a, <1>b
<1>6. buf' \in [0 .. BUFLEN - 1 -> Byte]  BY <1>0, <1>1, Editing
<1>7. TypeOK'  BY <1>1, <1>3, <1>4, <1>6, Editing, PrimedPageType
<1>8. \A k \in 0 .. start + i - 1 : term'.page[k] = term.page[k]
  BY <1>1, <1>3, <1>a, <1>b
<1>9. Before  BY <1>8, <1>b DEF Before
<1>10. ASSUME NEW k, k \in 0 .. i
       PROVE  buf'[k] # 0 /\ term'.page[start + k] = CellOf(WithAttribute(buf'[k]))
  <2>1. CASE k = i
    <3>1. buf'[k] = c  BY <1>1, <2>1, Editing
    <3>2. term'.page[start + k] = CellOf(WithAttribute(c))
      BY <1>1, <1>3, <1>a, <2>1
    <3> QED BY <1>0, <3>1, <3>2
  <2>2. CASE k # i
    <3>1. k \in 0 .. i - 1 /\ start + k \in 0 .. start + i - 1
      BY <1>10, <1>b, <2>2
    <3>2. buf'[k] = buf[k]  BY <1>1, <2>2, <3>1, Editing
    <3> QED BY <1>8, <3>1, <3>2, Editing
  <2> QED BY <2>1, <2>2
<1>11. i' - 1 = i  BY <1>1, <1>a
<1> QED BY <1>1, <1>4, <1>5, <1>7, <1>9, <1>10, <1>11 DEF Inv, EchoIsLine

\* Return ends the line with its NUL and leaves its echo in place.
LEMMA ReturnKeyStep ==
  ASSUME Inv, pc = "editing", NEW c \in Keystrokes, Return(c)
  PROVE  Inv' /\ Before
<1> DEFINE u == Screen!Feed(term)
<1>1. /\ term' = u /\ i' = i /\ start' = start /\ pc' = "returned"
      /\ buf' = [buf EXCEPT ![i] = 0]
  BY EchoedCodes DEF Return, cputchar
<1>2. Page(u) /\ \A k \in 0 .. term.top + Size - 1 : u.page[k] = term.page[k]
  BY Editing, FeedStep
<1> HIDE DEF u
<1>3. buf' \in [0 .. BUFLEN - 1 -> Byte]
  <2>1. 0 \in Byte  BY DEF Byte
  <2> QED BY <1>1, <2>1, Editing
<1>4. TypeOK'  BY <1>1, <1>2, <1>3, Editing, PrimedPageType
<1>5. \A k \in 0 .. start + i - 1 : term'.page[k] = term.page[k]
  BY <1>1, <1>2, Editing, Geometry
<1>6. Before  BY <1>5, Editing DEF Before
<1>7. buf'[i] = 0  BY <1>1, Editing
<1>8. \A k \in 0 .. i' - 1 :
        buf'[k] # 0 /\ term'.page[start' + k] = CellOf(WithAttribute(buf'[k]))
  <2> SUFFICES ASSUME NEW k \in 0 .. i - 1
               PROVE  buf'[k] # 0 /\ term'.page[start + k] = CellOf(WithAttribute(buf'[k]))
    BY <1>1
  <2>1. start + k \in 0 .. start + i - 1  BY Editing
  <2>2. buf'[k] = buf[k]  BY <1>1, Editing
  <2> QED BY <1>5, <2>1, <2>2, Editing
<1> QED BY <1>1, <1>4, <1>6, <1>7, <1>8 DEF Inv, EchoIsLine

\* A key that readline ignores changes nothing.
LEMMA StutterStep ==
  ASSUME Inv, UNCHANGED vars
  PROVE  Inv' /\ Before
<1>1. term' = term /\ buf' = buf /\ i' = i /\ pc' = pc /\ start' = start
  BY DEF vars
<1>2. TypeOK'  BY <1>1, PageType, PrimedPageType DEF Inv
<1> QED BY <1>1, <1>2 DEF Inv, EchoIsLine, Before

\* Every key preserves the invariant and the page before the line.
LEMMA KeyStep ==
  ASSUME Inv, NEW c \in Keystrokes, Key(c)
  PROVE  Inv' /\ Before
<1>1. pc = "editing"  BY DEF Key
<1>2. CASE EraseLast(c)  BY <1>1, <1>2, EraseLastStep
<1>3. CASE Store(c)      BY <1>1, <1>3, StoreStep
<1>4. CASE Return(c)     BY <1>1, <1>4, ReturnKeyStep
<1>5. CASE Ignore(c)     BY <1>5, StutterStep DEF Ignore
<1> QED BY <1>2, <1>3, <1>4, <1>5 DEF Key

\* Every step of readline and its callers preserves the invariant.
LEMMA NextInv == Inv /\ [Next]_vars => Inv'
<1> SUFFICES ASSUME Inv, [Next]_vars PROVE Inv'  OBVIOUS
<1> QED BY PrintStep, BeginStep, KeyStep, StutterStep DEF Next

\* The line editor's inductive invariant holds in every execution.
THEOREM Invariance == Spec => []Inv
BY InitInv, NextInv, PTL DEF Spec

\* readline never writes outside buf, and no echo leaves the page ill-formed.
THEOREM TypeCorrect == Spec => []TypeOK
<1>1. Inv => TypeOK  BY DEF Inv
<1> QED BY <1>1, Invariance, PTL

\* On every screen that has room for the longest line and one more row, the
\* text after the prompt is the line readline returns.
THEOREM EchoCorrect == Spec => []EchoIsLine
<1>1. Inv => EchoIsLine  BY DEF Inv
<1> QED BY <1>1, Invariance, PTL

\* And nothing typed changes what was on the page before the line.
THEOREM PromptIsSafe == Spec => PromptSafe
<1>1. Inv /\ [Next]_vars =>
        [pc = "editing" => \A k \in 0 .. start - 1 : term'.page[k] = term.page[k]]_vars
  <2> SUFFICES ASSUME Inv, [Next]_vars, pc = "editing"
               PROVE  Before \/ UNCHANGED vars
    BY DEF Before
  <2>1. CASE \E c \in Codes : Output(c)  BY <2>1 DEF Output
  <2>2. CASE Begin  BY <2>2 DEF Begin
  <2>3. CASE \E c \in Keystrokes : Key(c)  BY <2>3, KeyStep
  <2> QED BY <2>1, <2>2, <2>3 DEF Next
<1> QED BY <1>1, Invariance, PTL DEF Spec, PromptSafe
=============================================================================
