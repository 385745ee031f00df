---------------------------- MODULE DisplayProofs ----------------------------
(* Theorems about Display, for every number of rows and columns. *)
EXTENDS Display, TLAPS

\* A number of 16 bits has a high part of 8.
LEMMA HighByte ==
  ASSUME NEW h, h \in Int, NEW low, low \in Int, NEW p, p \in Int,
         0 <= low, low <= 255, 0 <= p, p <= 65535, p = 256 * h + low
  PROVE  0 <= h /\ h <= 255
<1>1. 0 <= h  OBVIOUS
<1>2. h <= 255  OBVIOUS
<1> QED BY <1>1, <1>2

\* Two bytes carry a number of 16 bits.
LEMMA TwoBytes ==
  ASSUME NEW p, p \in Int, 0 <= p, p <= 65535
  PROVE  (256 * ((p \div 256) % 256)) + (p % 256) = p
<1> DEFINE high == p \div 256
           low  == p % 256
<1>1. p \in Int /\ high \in Int  OBVIOUS
<1>2. p = 256 * high + low /\ low \in Int /\ 0 <= low /\ low <= 255  BY <1>1
<1> HIDE DEF high, low
<1>3. 0 <= high /\ high <= 255  BY <1>1, <1>2, HighByte
<1>4. high % 256 = high  BY <1>1, <1>3
<1>5. (256 * (high % 256)) + low = p  BY <1>2, <1>4
<1> QED BY <1>5 DEF high, low

USE CrtAssumption

\* What the switch of cga_putc may hand to the scroll check: the cursor is at
\* most one row below the screen.
Unscrolled(n) == [ buf : [Pos -> Cell], pos : 0 .. CRT_SIZE + CRT_COLS - 1,
                   reg : Pos, lost : Nat, past : [0 .. n - 1 -> Cell] ]

\* A screen is at least two rows of at least one cell.
LEMMA Geometry ==
  /\ CRT_SIZE \in Nat /\ CRT_COLS \in Nat
  /\ 1 <= CRT_COLS /\ CRT_COLS <= CRT_SIZE /\ CRT_COLS + CRT_COLS <= CRT_SIZE
<1>1. CRT_SIZE = CRT_ROWS * CRT_COLS  BY DEF CRT_SIZE
<1>2. CRT_SIZE \in Nat  BY <1>1
<1>3. CRT_ROWS * CRT_COLS >= 2 * CRT_COLS  OBVIOUS
<1> QED BY <1>1, <1>2, <1>3

\* crt_pos % CRT_COLS is a column of the row.
LEMMA ColumnBounds ==
  ASSUME NEW p \in Nat
  PROVE  /\ p % CRT_COLS \in Nat
         /\ p % CRT_COLS < CRT_COLS
         /\ p % CRT_COLS <= p
<1>1. p % CRT_COLS \in 0 .. CRT_COLS - 1  OBVIOUS
<1>2. p % CRT_COLS <= p  OBVIOUS
<1> QED BY <1>1, <1>2

\* 16 bits hold every code below 2^16.
LEMMA Width16 == UInt16 \in Nat /\ UInt16 > 2000
BY DEF UInt16

\* A store to crt_buf keeps 16 bits of any code.
LEMMA CellRange ==
  ASSUME NEW c \in Int
  PROVE  CellOf(c) \in Cell /\ BlankLike(c) \in Cell /\ WithAttribute(c) \in Int
<1>1. ASSUME NEW x, x \in Int PROVE CellOf(x) \in Cell
  <2>1. \A m \in Nat : m > 0 => x % m \in 0 .. m - 1  BY <1>1
  <2> QED BY <2>1, Width16 DEF CellOf, Cell
<1>2. (c - Char(c)) + SP \in Int  BY DEF Char, SP
<1>3. BlankLike(c) \in Cell  BY <1>1, <1>2 DEF BlankLike
<1>4. WithAttribute(c) \in Int  BY DEF WithAttribute, BlackOnWhite
<1> QED BY <1>1, <1>3, <1>4

\* The blank that cga_putc scrolls in is a cell.
LEMMA BlankIsCell == BlankCell \in Cell
BY Width16 DEF BlankCell, BlackOnWhite, SP, Cell

\* Writing crt_pos to the 6845 in two bytes loses none of it on the screen.
LEMMA MoveCursorType ==
  ASSUME NEW n \in Nat, NEW s \in Unscrolled(n), s.pos \in Pos
  PROVE  /\ MoveCursor(s) \in Screens(n)
         /\ MoveCursor(s) = [buf |-> s.buf, pos |-> s.pos, reg |-> s.pos,
                             lost |-> s.lost, past |-> s.past]
<1>1. s = [buf |-> s.buf, pos |-> s.pos, reg |-> s.reg, lost |-> s.lost, past |-> s.past]
  BY DEF Unscrolled
<1>2. (256 * ((s.pos \div 256) % 256)) + (s.pos % 256) = s.pos
  <2>1. s.pos \in Int /\ 0 <= s.pos /\ s.pos <= 65535
    BY Geometry, PosAssumption DEF Pos, UInt16
  <2> QED BY <2>1, TwoBytes
<1>3. MoveCursor(s) = [buf |-> s.buf, pos |-> s.pos, reg |-> s.pos,
                       lost |-> s.lost, past |-> s.past]
  BY <1>1, <1>2 DEF MoveCursor
<1> QED BY <1>3 DEF Screens, Unscrolled

\* After the scroll check crt_pos is on the screen again.
LEMMA ScrollType ==
  ASSUME NEW s, s \in Unscrolled(s.lost)
  PROVE  Scroll(s) \in Unscrolled(Scroll(s).lost) /\ Scroll(s).pos \in Pos
<1>1. CASE s.pos >= CRT_SIZE
  <2>0. /\ s.buf \in [Pos -> Cell] /\ s.reg \in Pos /\ s.lost \in Nat
        /\ s.past \in [0 .. s.lost - 1 -> Cell]
        /\ s.pos \in Int /\ s.pos <= CRT_SIZE + CRT_COLS - 1
    BY Geometry DEF Unscrolled
  <2>2. s.pos - CRT_COLS \in Pos
    BY <1>1, <2>0, Geometry DEF Pos
  <2>3. \A j \in Pos : j < CRT_SIZE - CRT_COLS => j + CRT_COLS \in Pos
    BY Geometry DEF Pos
  <2>4. [j \in Pos |-> IF j < CRT_SIZE - CRT_COLS THEN s.buf[j + CRT_COLS] ELSE BlankCell]
          \in [Pos -> Cell]
    BY <2>0, <2>3, BlankIsCell
  <2>5. s.lost + CRT_COLS \in Nat
    BY <2>0, Geometry
  <2>6. ASSUME NEW j, j \in 0 .. s.lost + CRT_COLS - 1
        PROVE  (IF j < s.lost THEN s.past[j] ELSE s.buf[j - s.lost]) \in Cell
    <3>0. j \in Int /\ 0 <= j /\ j < s.lost + CRT_COLS
      BY <2>0, <2>6, Geometry
    <3>1. j < s.lost => j \in 0 .. s.lost - 1  BY <2>0, <3>0
    <3>2. ~(j < s.lost) => j - s.lost \in Pos  BY <2>0, <2>5, <3>0, Geometry DEF Pos
    <3> QED BY <2>0, <3>1, <3>2
  <2>1. RowsUp(s) \in Unscrolled(s.lost + CRT_COLS) /\ RowsUp(s).pos \in Pos
    <3>1. s.pos - CRT_COLS \in 0 .. CRT_SIZE + CRT_COLS - 1
      BY <2>2, Geometry DEF Pos
    <3> QED BY <2>0, <2>2, <2>4, <2>5, <2>6, <3>1 DEF RowsUp, Unscrolled
  <2> QED BY <1>1, <2>1 DEF Scroll, RowsUp
<1>2. CASE ~(s.pos >= CRT_SIZE)
  BY <1>2, Geometry DEF Scroll, Unscrolled, Pos
<1> QED BY <1>1, <1>2

\* The cells of a page: those that scrolled off, then the screen.
Joined(past, buf, lost) ==
  [i \in 0 .. lost + CRT_SIZE - 1 |-> IF i < lost THEN past[i] ELSE buf[i - lost]]

\* The function f with v stored at i.
Stored(f, i, v) == [f EXCEPT ![i] = v]

\* A store to the screen is a store to the page, and leaves the history.
LEMMA JoinedStore ==
  ASSUME NEW past, NEW buf, NEW lost, NEW p, NEW v,
         lost \in Nat, buf \in [Pos -> Cell], p \in Pos, v \in Cell
  PROVE  /\ Stored(buf, p, v) \in [Pos -> Cell]
         /\ Joined(past, Stored(buf, p, v), lost) =
              Stored(Joined(past, buf, lost), lost + p, v)
<1> DEFINE new == [buf EXCEPT ![p] = v]
           lhs == Joined(past, new, lost)
           rhs == [Joined(past, buf, lost) EXCEPT ![lost + p] = v]
<1>1. new \in [Pos -> Cell]  OBVIOUS
<1>2. lost + p \in 0 .. lost + CRT_SIZE - 1  BY Geometry DEF Pos
<1>3. ASSUME NEW i \in 0 .. lost + CRT_SIZE - 1
      PROVE  lhs[i] = rhs[i]
  <2>1. CASE i < lost
    BY <2>1, Geometry DEF Joined, Pos
  <2>2. CASE ~(i < lost)
    <3>1. i - lost \in Pos  BY <2>2, Geometry DEF Pos
    <3>2. (i - lost = p) <=> (i = lost + p)  BY Geometry DEF Pos
    <3>3. lhs[i] = new[i - lost]  BY <2>2 DEF Joined
    <3>4. new[i - lost] = IF i - lost = p THEN v ELSE buf[i - lost]
      BY <3>1
    <3>5. rhs[i] = IF i = lost + p THEN v ELSE buf[i - lost]
      BY <2>2 DEF Joined
    <3> QED BY <3>2, <3>3, <3>4, <3>5
  <2> QED BY <2>1, <2>2
<1>4. lhs = [i \in 0 .. lost + CRT_SIZE - 1 |-> lhs[i]]  BY DEF Joined
<1>5. rhs = [i \in 0 .. lost + CRT_SIZE - 1 |-> rhs[i]]  BY DEF Joined
<1>6. lhs = rhs  BY <1>3, <1>4, <1>5
<1> QED BY <1>1, <1>6 DEF Stored

\* Scrolling moves the top row to the history: the page grows by one blank row.
LEMMA JoinedScroll ==
  ASSUME NEW s, s \in Unscrolled(s.lost)
  PROVE  Joined(RowsUp(s).past, RowsUp(s).buf, RowsUp(s).lost) =
           [i \in 0 .. s.lost + CRT_SIZE + CRT_COLS - 1 |->
              IF i < s.lost + CRT_SIZE THEN Joined(s.past, s.buf, s.lost)[i]
                                       ELSE BlankCell]
<1> DEFINE n == s.lost
           lhs == Joined(RowsUp(s).past, RowsUp(s).buf, RowsUp(s).lost)
           new == [i \in Pos |-> IF i < CRT_SIZE - CRT_COLS
                                 THEN s.buf[i + CRT_COLS] ELSE BlankCell]
<1>0. n \in Nat  BY DEF Unscrolled
<1>1. ASSUME NEW i \in 0 .. n + CRT_SIZE + CRT_COLS - 1
      PROVE  lhs[i] = IF i < n + CRT_SIZE THEN Joined(s.past, s.buf, n)[i] ELSE BlankCell
  <2>0. lhs[i] = IF i < n + CRT_COLS THEN RowsUp(s).past[i]
                                     ELSE new[i - (n + CRT_COLS)]
    BY <1>0, Geometry DEF Joined, RowsUp
  <2>1. CASE i < n + CRT_COLS
    <3>1. RowsUp(s).past[i] = IF i < n THEN s.past[i] ELSE s.buf[i - n]
      BY <1>0, <2>1, Geometry DEF RowsUp
    <3>2. i \in 0 .. n + CRT_SIZE - 1  BY <1>0, <2>1, Geometry
    <3>3. Joined(s.past, s.buf, n)[i] = IF i < n THEN s.past[i] ELSE s.buf[i - n]
      BY <3>2 DEF Joined
    <3>4. i < n + CRT_SIZE  BY <3>2, <1>0, Geometry
    <3> QED BY <2>0, <2>1, <3>1, <3>3, <3>4
  <2>2. CASE ~(i < n + CRT_COLS) /\ i < n + CRT_SIZE
    <3> DEFINE j == i - (n + CRT_COLS)
    <3>1. j \in Pos /\ j < CRT_SIZE - CRT_COLS /\ j + CRT_COLS = i - n
      BY <1>0, <2>2, Geometry DEF Pos
    <3>2. new[j] = s.buf[i - n]  BY <3>1
    <3>3. i \in 0 .. n + CRT_SIZE - 1 /\ ~(i < n)  BY <1>0, <2>2, Geometry
    <3>4. Joined(s.past, s.buf, n)[i] = s.buf[i - n]  BY <3>3 DEF Joined
    <3> QED BY <2>0, <2>2, <3>2, <3>4
  <2>3. CASE ~(i < n + CRT_SIZE)
    <3> DEFINE j == i - (n + CRT_COLS)
    <3>1. j \in Pos /\ ~(j < CRT_SIZE - CRT_COLS) /\ ~(i < n + CRT_COLS)
      BY <1>0, <2>3, Geometry DEF Pos
    <3>2. new[j] = BlankCell  BY <3>1
    <3> QED BY <2>0, <2>3, <3>1, <3>2
  <2> QED BY <2>1, <2>2, <2>3
<1>2. (n + CRT_COLS) + CRT_SIZE - 1 = n + CRT_SIZE + CRT_COLS - 1  BY <1>0, Geometry
<1>3. lhs = [i \in 0 .. n + CRT_SIZE + CRT_COLS - 1 |-> lhs[i]]
  BY <1>2 DEF Joined, RowsUp
<1> QED BY <1>1, <1>3

\* The page as it stands inside cga_putc, before the 6845 hears of the cursor.
View(s) == [ page |-> Joined(s.past, s.buf, s.lost), top |-> s.lost,
             cursor |-> s.lost + s.pos ]

\* The instance T carries its own copy of the character codes.
LEMMA SameCodes ==
  /\ T!BlankCell = BlankCell /\ T!Cell = Cell
  /\ \A c : T!CellOf(c) = CellOf(c) /\ T!BlankLike(c) = BlankLike(c)
  /\ \A c : T!Char(c) = Char(c) /\ T!WithAttribute(c) = WithAttribute(c)
BY DEF BlankCell, T!BlankCell, CellOf, T!CellOf, BlankLike, T!BlankLike,
       Char, T!Char, WithAttribute, T!WithAttribute, NoAttribute, T!NoAttribute,
       BlackOnWhite, T!BlackOnWhite, SP, T!SP, Cell, T!Cell,
       UInt16, T!UInt16

\* The scroll check of cga_putc is the page's window following its cursor.
LEMMA ScrollView ==
  ASSUME NEW s, s \in Unscrolled(s.lost)
  PROVE  View(Scroll(s)) = T!Follow(View(s))
<1>0. s.lost \in Nat /\ s.pos \in Nat  BY Geometry DEF Unscrolled
<1>1. CASE s.pos >= CRT_SIZE
  <2>1. ~(View(s).cursor < View(s).top + CRT_SIZE)
    BY <1>0, <1>1, Geometry DEF View
  <2>2. View(RowsUp(s)).page =
          [i \in 0 .. s.lost + CRT_SIZE + CRT_COLS - 1 |->
             IF i < s.lost + CRT_SIZE THEN View(s).page[i] ELSE BlankCell]
    BY JoinedScroll DEF View
  <2>3. /\ View(RowsUp(s)).top = s.lost + CRT_COLS
        /\ View(RowsUp(s)).cursor = s.lost + s.pos
    BY <1>0, Geometry DEF View, RowsUp
  <2>4. View(RowsUp(s)) = T!Follow(View(s))
    BY <2>1, <2>2, <2>3, SameCodes DEF T!Follow, View, RowsUp
  <2> QED BY <1>1, <2>4 DEF Scroll
<1>2. CASE ~(s.pos >= CRT_SIZE)
  <2>1. View(s).cursor < View(s).top + CRT_SIZE
    BY <1>0, <1>2, Geometry DEF View
  <2> QED BY <1>2, <2>1 DEF Scroll, T!Follow
<1> QED BY <1>1, <1>2

\* Between two calls the 6845 shows where the next character goes.
Settled(s) == s \in Screens(s.lost) /\ s.reg = s.pos

\* So the page that a user sees is the page that the next cputchar works on.
LEMMA SettledView ==
  ASSUME NEW s, Settled(s)
  PROVE  PageOf(s) = View(s)
BY DEF Settled, PageOf, View, Joined

\* The page t as a mark, not yet followed by the window, leaves it.
Marked(t, c) == [ page   |-> [t.page EXCEPT ![t.cursor] = CellOf(c)],
                  top    |-> t.top,
                  cursor |-> t.cursor + 1 ]

\* The default case of cga_putc puts a mark on the page.
LEMMA GlyphStep ==
  ASSUME NEW s, Settled(s), NEW a \in Int
  PROVE  /\ Glyph(s, a) \in Unscrolled(Glyph(s, a).lost)
         /\ View(Glyph(s, a)) = Marked(View(s), a)
<1> DEFINE new == Stored(s.buf, s.pos, CellOf(a))
<1>0. CellOf(a) \in Cell  BY CellRange
<1>a. /\ s.buf \in [Pos -> Cell] /\ s.pos \in Pos /\ s.reg \in Pos
      /\ s.lost \in Nat /\ s.past \in [0 .. s.lost - 1 -> Cell]
  BY DEF Settled, Screens
<1>b. new \in [Pos -> Cell]  BY <1>0, <1>a, JoinedStore
<1>c. s.pos + 1 \in 0 .. CRT_SIZE + CRT_COLS - 1  BY <1>a, Geometry DEF Pos
<1>d. Glyph(s, a) = Draw(s, new, s.pos + 1)  BY DEF Glyph, Stored
<1>1. Glyph(s, a) \in Unscrolled(s.lost)
  BY <1>a, <1>b, <1>c, <1>d DEF Draw, Unscrolled
<1>2. View(Glyph(s, a)).page = [View(s).page EXCEPT ![View(s).cursor] = CellOf(a)]
  <2>1. Joined(s.past, new, s.lost) =
          Stored(Joined(s.past, s.buf, s.lost), s.lost + s.pos, CellOf(a))
    BY <1>0, <1>a, JoinedStore
  <2>2. View(Glyph(s, a)).page = Joined(s.past, new, s.lost)
    BY <1>d DEF Draw, View
  <2> QED BY <2>1, <2>2 DEF View, Stored
<1>3. /\ View(Glyph(s, a)).top = s.lost
      /\ View(Glyph(s, a)).cursor = View(s).cursor + 1
  BY DEF Glyph, Draw, View, Settled, Screens, Pos
<1> QED BY <1>1, <1>2, <1>3 DEF View, Marked, Glyph, Draw

\* The '\b' case of cga_putc erases the page's last mark in the window.
LEMMA BackspaceStep ==
  ASSUME NEW s, Settled(s), NEW a \in Int
  PROVE  /\ Backspace(s, a) \in Unscrolled(Backspace(s, a).lost)
         /\ View(Backspace(s, a)) = T!Erase(View(s), a)
<1>1. CASE s.pos > 0
  <2>1. Backspace(s, a) = Draw(s, [s.buf EXCEPT ![s.pos - 1] = BlankLike(a)], s.pos - 1)
    BY <1>1 DEF Backspace
  <2>a. /\ s.buf \in [Pos -> Cell] /\ s.pos \in Pos /\ s.reg \in Pos
        /\ s.lost \in Nat /\ s.past \in [0 .. s.lost - 1 -> Cell]
    BY DEF Settled, Screens
  <2>b. BlankLike(a) \in Cell  BY CellRange
  <2>c. s.pos - 1 \in Pos /\ s.pos - 1 \in 0 .. CRT_SIZE + CRT_COLS - 1
    BY <1>1, <2>a, Geometry DEF Pos
  <2> DEFINE new == Stored(s.buf, s.pos - 1, BlankLike(a))
  <2>f. Backspace(s, a) = Draw(s, new, s.pos - 1)  BY <2>1 DEF Stored
  <2>d. new \in [Pos -> Cell]
    BY <2>a, <2>b, <2>c, JoinedStore
  <2>2. Backspace(s, a) \in Unscrolled(s.lost)
    BY <2>f, <2>a, <2>c, <2>d DEF Draw, Unscrolled
  <2>e. View(s).cursor - 1 = s.lost + (s.pos - 1)
    BY <2>a, Geometry DEF View, Pos
  <2>3. View(Backspace(s, a)).page =
          [View(s).page EXCEPT ![View(s).cursor - 1] = BlankLike(a)]
    <3>1. Joined(s.past, new, s.lost) =
            Stored(Joined(s.past, s.buf, s.lost), s.lost + (s.pos - 1), BlankLike(a))
      BY <2>a, <2>b, <2>c, JoinedStore
    <3>2. View(Backspace(s, a)).page = Joined(s.past, new, s.lost)
      BY <2>f DEF Draw, View
    <3> QED BY <3>1, <3>2, <2>e DEF View, Stored
  <2>4. /\ View(Backspace(s, a)).top = s.lost
        /\ View(Backspace(s, a)).cursor = View(s).cursor - 1
        /\ View(s).cursor > View(s).top
    BY <1>1, <2>1 DEF Draw, View, Settled, Screens, Pos
  <2>5. View(Backspace(s, a)) = T!Erase(View(s), a)
    BY <2>1, <2>3, <2>4, SameCodes DEF View, T!Erase
  <2> QED BY <2>1, <2>2, <2>5 DEF Draw
<1>2. CASE ~(s.pos > 0)
  <2>1. Backspace(s, a) = s  BY <1>2 DEF Backspace
  <2>2. ~(View(s).cursor > View(s).top)
    BY <1>2 DEF View, Settled, Screens, Pos
  <2>3. s \in Unscrolled(s.lost)
    BY Geometry DEF Settled, Screens, Unscrolled, Pos
  <2> QED BY <2>1, <2>2, <2>3 DEF T!Erase
<1> QED BY <1>1, <1>2

\* The '\r' case of cga_putc returns to the first column of the row.
LEMMA ReturnStep ==
  ASSUME NEW s, s \in Unscrolled(s.lost)
  PROVE  /\ CarriageReturn(s) \in Unscrolled(CarriageReturn(s).lost)
         /\ View(CarriageReturn(s)) = T!Return(View(s))
<1>1. CarriageReturn(s) = [ buf |-> s.buf, pos |-> s.pos - (s.pos % CRT_COLS),
                            reg |-> s.reg, lost |-> s.lost, past |-> s.past ]
  BY DEF CarriageReturn, Draw
<1>2. /\ s.pos \in Nat /\ s.pos <= CRT_SIZE + CRT_COLS - 1
      /\ s.lost \in Nat
  BY Geometry DEF Unscrolled
<1>3. s.pos - (s.pos % CRT_COLS) \in 0 .. CRT_SIZE + CRT_COLS - 1
  BY <1>2, ColumnBounds, Geometry
<1>4. T!Column(View(s)) = s.pos % CRT_COLS
  <2>1. View(s).cursor - View(s).top = s.pos  BY <1>2 DEF View
  <2> QED BY <2>1 DEF T!Column
<1>5. View(CarriageReturn(s)).cursor = View(s).cursor - T!Column(View(s))
  <2>1. s.pos % CRT_COLS \in Nat  BY <1>2, ColumnBounds
  <2> QED BY <1>1, <1>2, <1>4, <2>1 DEF View
<1>6. CarriageReturn(s) \in Unscrolled(s.lost)
  BY <1>1, <1>3 DEF Unscrolled
<1>7. View(CarriageReturn(s)).page = View(s).page /\ View(CarriageReturn(s)).top = s.lost
  BY <1>1 DEF View
<1>8. View(CarriageReturn(s)) = T!Return(View(s))
  BY <1>5, <1>7 DEF View, T!Return
<1> QED BY <1>1, <1>6, <1>8

\* The '\n' case of cga_putc feeds a line.
LEMMA NewLineStep ==
  ASSUME NEW s, Settled(s)
  PROVE  /\ NewLine(s) \in Unscrolled(NewLine(s).lost)
         /\ View(NewLine(s)) =
              T!Return([View(s) EXCEPT !.cursor = @ + CRT_COLS])
<1> DEFINE down == Draw(s, s.buf, s.pos + CRT_COLS)
<1>1. down \in Unscrolled(down.lost)
  BY Geometry DEF Draw, Settled, Screens, Unscrolled, Pos
<1>2. s.pos \in Nat /\ s.lost \in Nat  BY Geometry DEF Settled, Screens, Pos
<1>3. View(down) = [View(s) EXCEPT !.cursor = @ + CRT_COLS]
  <2>1. View(down).cursor = View(s).cursor + CRT_COLS
    BY <1>2, Geometry DEF Draw, View
  <2>2. View(down).page = View(s).page /\ View(down).top = View(s).top
    BY DEF Draw, View
  <2> QED BY <2>1, <2>2 DEF View
<1>4. NewLine(s) = CarriageReturn(down)  BY DEF NewLine
<1> QED BY <1>1, <1>3, <1>4, ReturnStep

\* Adding the attribute to a code keeps its character.
LEMMA CharKept ==
  ASSUME NEW c, c \in Int
  PROVE  Char(WithAttribute(c)) = Char(c)
BY DEF Char, WithAttribute, BlackOnWhite

\* The shared tail of cga_putc: scroll, then tell the 6845.
LEMMA TailStep ==
  ASSUME NEW s, s \in Unscrolled(s.lost)
  PROVE  /\ Settled(MoveCursor(Scroll(s)))
         /\ PageOf(MoveCursor(Scroll(s))) = T!Follow(View(s))
<1> DEFINE u == Scroll(s)
           m == MoveCursor(u)
<1>1. u \in Unscrolled(u.lost) /\ u.pos \in Pos  BY ScrollType
<1>2. u.lost \in Nat  BY <1>1 DEF Unscrolled
<1>3. m \in Screens(u.lost) /\ m = [buf |-> u.buf, pos |-> u.pos, reg |-> u.pos,
                                    lost |-> u.lost, past |-> u.past]
  BY <1>1, <1>2, MoveCursorType
<1>4. Settled(m)  BY <1>3 DEF Settled
<1>5. View(m) = View(u)
  <2>1. m.past = u.past /\ m.buf = u.buf /\ m.lost = u.lost /\ m.pos = u.pos
    BY <1>3
  <2> QED BY <2>1 DEF View
<1>6. View(u) = T!Follow(View(s))  BY ScrollView
<1> QED BY <1>4, <1>5, <1>6, SettledView

\* The window already shows the cursor, or an erased or returned one.
LEMMA NothingToFollow ==
  ASSUME NEW s, s \in Unscrolled(s.lost), s.pos \in Pos
  PROVE  T!Follow(View(s)) = View(s)
<1>1. s.lost \in Nat  BY DEF Unscrolled
<1>2. View(s).cursor < View(s).top + CRT_SIZE
  BY <1>1, Geometry DEF View, Pos
<1> QED BY <1>2 DEF T!Follow

\* One call with a code that is not a tab is the page's operation.
LEMMA PutPlainStep ==
  ASSUME NEW s, Settled(s), NEW c, c \in Int, Char(c) # TAB
  PROVE  /\ Settled(PutPlain(s, c))
         /\ PageOf(PutPlain(s, c)) = T!Write(PageOf(s), c)
<1> DEFINE a == WithAttribute(c)
           u == Switch(s, a)
           t == PageOf(s)
<1>0. a \in Int /\ Char(a) = Char(c) /\ t = View(s)
  BY CellRange, CharKept, SettledView
<1>a. /\ s \in Unscrolled(s.lost) /\ s.pos \in Pos /\ s.lost \in Nat
  BY Geometry DEF Settled, Screens, Unscrolled, Pos
<1>b. BS = 8 /\ NL = 10 /\ CR = 13 /\ TAB = 9
      /\ T!BS = 8 /\ T!NL = 10 /\ T!CR = 13 /\ T!TAB = 9
  BY DEF BS, NL, CR, TAB, T!BS, T!NL, T!CR, T!TAB
<1>c. PutPlain(s, c) = MoveCursor(Scroll(u))  BY DEF PutPlain
<1>1. CASE Char(c) = BS
  <2>1. u = Backspace(s, a)  BY <1>0, <1>1, <1>b DEF Switch
  <2>2. u \in Unscrolled(u.lost) /\ View(u) = T!Erase(t, a)
    BY <1>0, <2>1, BackspaceStep
  <2>3. u.pos \in Pos
    <3>1. u = s \/ (s.pos > 0 /\ u.pos = s.pos - 1)  BY <2>1 DEF Backspace, Draw
    <3> QED BY <1>a, <3>1, Geometry DEF Pos
  <2>4. T!Follow(View(u)) = View(u)  BY <2>2, <2>3, NothingToFollow
  <2>5. T!Write(t, c) = T!Erase(t, a)  BY <1>1, <1>b, SameCodes DEF T!Write
  <2> QED BY <1>c, <2>2, <2>4, <2>5, TailStep
<1>2. CASE Char(c) = NL
  <2>1. u = NewLine(s)  BY <1>0, <1>2, <1>b DEF Switch
  <2>2. /\ u \in Unscrolled(u.lost)
        /\ View(u) = T!Return([t EXCEPT !.cursor = @ + CRT_COLS])
    BY <1>0, <2>1, NewLineStep
  <2>3. T!Write(t, c) = T!Follow(View(u))
    BY <1>2, <1>b, <2>2, SameCodes DEF T!Write, T!Feed
  <2> QED BY <1>c, <2>2, <2>3, TailStep
<1>3. CASE Char(c) = CR
  <2>1. u = CarriageReturn(s)  BY <1>0, <1>3, <1>b DEF Switch
  <2>2. u \in Unscrolled(u.lost) /\ View(u) = T!Return(t)
    BY <1>0, <1>a, <2>1, ReturnStep
  <2>3. u.pos \in Pos
    <3>1. s.pos \in Nat  BY <1>a, Geometry DEF Pos
    <3>2. /\ s.pos % CRT_COLS \in Nat /\ s.pos % CRT_COLS <= s.pos
      BY <3>1, ColumnBounds
    <3>3. u.pos = s.pos - (s.pos % CRT_COLS)  BY <2>1 DEF CarriageReturn, Draw
    <3> QED BY <1>a, <3>1, <3>2, <3>3, Geometry DEF Pos
  <2>4. T!Follow(View(u)) = View(u)  BY <2>2, <2>3, NothingToFollow
  <2>5. T!Write(t, c) = T!Return(t)  BY <1>3, <1>b, SameCodes DEF T!Write
  <2> QED BY <1>c, <2>2, <2>4, <2>5, TailStep
<1>4. CASE Char(c) \notin {BS, TAB, NL, CR}
  <2>1. u = Glyph(s, a)  BY <1>0, <1>4 DEF Switch
  <2>2. u \in Unscrolled(u.lost) /\ View(u) = Marked(t, a)
    BY <1>0, <2>1, GlyphStep
  <2>3. T!Mark(t, a) = T!Follow(Marked(t, a))  BY SameCodes DEF T!Mark, Marked
  <2>4. T!Write(t, c) = T!Mark(t, a)  BY <1>4, <1>b, SameCodes DEF T!Write
  <2> QED BY <1>c, <2>2, <2>3, <2>4, TailStep
<1> QED BY <1>1, <1>2, <1>3, <1>4

\* One of a tab's five spaces.
LEMMA SpaceStep ==
  ASSUME NEW s, Settled(s)
  PROVE  /\ Settled(PutPlain(s, SP))
         /\ PageOf(PutPlain(s, SP)) = T!Mark(PageOf(s), T!BlankCell)
<1>1. SP \in Int /\ Char(SP) = 32  BY DEF SP, Char
<1>2. Char(SP) \notin {T!BS, T!TAB, T!NL, T!CR} /\ Char(SP) # TAB
  BY <1>1 DEF T!BS, T!TAB, T!NL, T!CR, TAB
<1>3. WithAttribute(SP) = T!BlankCell
  BY DEF WithAttribute, NoAttribute, SP, BlackOnWhite, T!BlankCell, T!BlackOnWhite, T!SP
<1>4. T!Write(PageOf(s), SP) = T!Mark(PageOf(s), T!BlankCell)
  BY <1>2, <1>3, SameCodes DEF T!Write
<1> QED BY <1>1, <1>2, <1>4, PutPlainStep

\* A tab of cga_putc is five spaces, also where one of them scrolls.
LEMMA PutTabStep ==
  ASSUME NEW s, Settled(s)
  PROVE  Settled(PutTab(s)) /\ PageOf(PutTab(s)) = T!Tab(PageOf(s))
<1> DEFINE s1 == PutPlain(s, SP)
           s2 == PutPlain(s1, SP)
           s3 == PutPlain(s2, SP)
           s4 == PutPlain(s3, SP)
           s5 == PutPlain(s4, SP)
           m(x) == T!Mark(x, T!BlankCell)
<1>1. Settled(s1) /\ PageOf(s1) = m(PageOf(s))  BY SpaceStep
<1>2. Settled(s2) /\ PageOf(s2) = m(PageOf(s1))  BY <1>1, SpaceStep
<1>3. Settled(s3) /\ PageOf(s3) = m(PageOf(s2))  BY <1>2, SpaceStep
<1>4. Settled(s4) /\ PageOf(s4) = m(PageOf(s3))  BY <1>3, SpaceStep
<1>5. Settled(s5) /\ PageOf(s5) = m(PageOf(s4))  BY <1>4, SpaceStep
<1>6. s5 \in Unscrolled(s5.lost) /\ s5.pos \in Pos
  BY <1>5, Geometry DEF Settled, Screens, Unscrolled, Pos
<1>7. PutTab(s) = MoveCursor(Scroll(s5))  BY DEF PutTab
<1>8. Settled(PutTab(s)) /\ PageOf(PutTab(s)) = PageOf(s5)
  BY <1>5, <1>6, <1>7, TailStep, NothingToFollow, SettledView
<1>9. T!Tab(PageOf(s)) = m(m(m(m(m(PageOf(s))))))  BY DEF T!Tab
<1> QED BY <1>1, <1>2, <1>3, <1>4, <1>5, <1>8, <1>9

\* One call of cga_putc is one Write on the page.
LEMMA CgaPutcStep ==
  ASSUME NEW s, Settled(s), NEW c, c \in Int
  PROVE  Settled(CgaPutc(s, c)) /\ PageOf(CgaPutc(s, c)) = T!Write(PageOf(s), c)
<1>1. CASE Char(c) = TAB
  <2>1. CgaPutc(s, c) = PutTab(s)  BY <1>1 DEF CgaPutc
  <2>2. T!Write(PageOf(s), c) = T!Tab(PageOf(s))
    BY <1>1, SameCodes DEF T!Write, TAB, T!TAB, T!BS, T!NL, T!CR
  <2> QED BY <2>1, <2>2, PutTabStep
<1>2. CASE Char(c) # TAB
  BY <1>2, PutPlainStep DEF CgaPutc
<1> QED BY <1>1, <1>2

\* A mark leaves the cursor one cell further on the page, and never in the
\* window's first cell, so that there is a cell before it to erase.
LEMMA MarkMoves ==
  ASSUME NEW s, Settled(s), NEW c, c \in Int, Printing(c)
  PROVE  /\ Settled(PutPlain(s, c))
         /\ PutPlain(s, c).lost + PutPlain(s, c).pos = s.lost + s.pos + 1
         /\ PutPlain(s, c).pos > 0
<1> DEFINE a == WithAttribute(c)
           u == Glyph(s, a)
           v == Scroll(u)
<1>0. a \in Int /\ Char(a) = Char(c)  BY CellRange, CharKept
<1>1. s.pos \in Pos /\ s.lost \in Nat  BY DEF Settled, Screens
<1>2. u \in Unscrolled(u.lost) /\ u.pos = s.pos + 1 /\ u.lost = s.lost
  BY <1>0, GlyphStep DEF Glyph, Draw
<1>3. PutPlain(s, c) = MoveCursor(v)
  BY <1>0 DEF PutPlain, Switch, Printing, BS, NL, CR, TAB
<1>4. /\ v \in Unscrolled(v.lost) /\ v.pos \in Pos /\ v.lost \in Nat
  BY <1>2, ScrollType DEF Unscrolled
<1>5. MoveCursor(v).pos = v.pos /\ MoveCursor(v).lost = v.lost
  BY <1>4, MoveCursorType
<1>6. v.lost + v.pos = s.lost + s.pos + 1 /\ v.pos > 0
  BY <1>1, <1>2, Geometry DEF Scroll, RowsUp, Pos
<1>7. Settled(PutPlain(s, c))  BY <1>2, <1>3, TailStep
<1> QED BY <1>3, <1>5, <1>6, <1>7

\* A backspace with a cell before the cursor steps back onto a plain blank.
LEMMA BackspaceBlanks ==
  ASSUME NEW s, Settled(s), s.pos > 0
  PROVE  /\ PutPlain(s, BS).lost = s.lost
         /\ PutPlain(s, BS).pos = s.pos - 1
         /\ PutPlain(s, BS).buf[s.pos - 1] = BlankCell
<1> DEFINE a == WithAttribute(BS)
           v == Backspace(s, a)
<1>0. a \in Int /\ Char(a) = BS /\ BlankLike(a) = BlankCell
  BY DEF WithAttribute, NoAttribute, BS, BlackOnWhite, Char, BlankLike, CellOf,
         UInt16, BlankCell, SP
<1>1. /\ s.pos \in Pos /\ s.pos - 1 \in Pos /\ s.lost \in Nat
      /\ s.buf \in [Pos -> Cell]
  BY Geometry DEF Settled, Screens, Pos
<1>2. v = Draw(s, [s.buf EXCEPT ![s.pos - 1] = BlankCell], s.pos - 1)
  BY <1>0 DEF Backspace
<1>3. v.pos = s.pos - 1 /\ v.lost = s.lost /\ v.buf[s.pos - 1] = BlankCell
  BY <1>1, <1>2 DEF Draw
<1>4. v \in Unscrolled(v.lost)  BY <1>0, BackspaceStep
<1>5. Scroll(v) = v  BY <1>1, <1>3, Geometry DEF Scroll, Pos
<1>6. PutPlain(s, BS) = MoveCursor(v)
  <2>1. BS = 8 /\ NL = 10 /\ CR = 13  BY DEF BS, NL, CR
  <2>2. Switch(s, a) = v  BY <1>0, <2>1 DEF Switch
  <2> QED BY <1>5, <2>2 DEF PutPlain
<1>7. v.lost \in Nat /\ v.pos \in Pos  BY <1>1, <1>3
<1>8. MoveCursor(v) = [buf |-> v.buf, pos |-> v.pos, reg |-> v.pos,
                       lost |-> v.lost, past |-> v.past]
  BY <1>4, <1>7, MoveCursorType
<1> QED BY <1>3, <1>6, <1>8

-----------------------------------------------------------------------------
(* The inductive invariant: between calls of cga_putc the screen is well    *)
(* formed and the 6845's cursor is crt_pos.                                 *)
Inv == Settled(crt)

\* cga_init starts with a page that is just the screen.
LEMMA InitInv == Init => Inv
<1> SUFFICES ASSUME NEW buf \in [Pos -> BootCells], NEW pos \in Pos,
                    crt = [ buf |-> buf, pos |-> pos, reg |-> pos, lost |-> 0,
                            past |-> [i \in {} |-> BlankCell] ]
             PROVE  Inv
  BY DEF Init, CgaInit
<1>1. buf \in [Pos -> Cell]  BY CodesAssumption
<1>2. 0 .. 0 - 1 = {}  OBVIOUS
<1>3. [i \in {} |-> BlankCell] \in [0 .. 0 - 1 -> Cell]  BY <1>2
<1> QED BY <1>1, <1>3 DEF Inv, Settled, Screens

\* Every cputchar preserves the invariant.
LEMMA NextInv == Inv /\ [Next]_crt => Inv'
<1> SUFFICES ASSUME Inv, [Next]_crt PROVE Inv'  OBVIOUS
<1>1. ASSUME NEW c \in Codes, Putc(c) PROVE Inv'
  <2>1. c \in Int  BY CodesAssumption
  <2> QED BY <1>1, <2>1, CgaPutcStep DEF Inv, Putc
<1>2. CASE UNCHANGED crt  BY <1>2 DEF Inv
<1> QED BY <1>1, <1>2 DEF Next

\* The display's inductive invariant holds in every execution.
THEOREM Invariance == Spec => []Inv
BY InitInv, NextInv, PTL DEF Spec

\* However large the screen, every store of cga_putc is inside crt_buf and
\* crt_pos never leaves it between calls.
THEOREM TypeCorrect == Spec => []TypeOK
<1>1. Inv => TypeOK  BY DEF Inv, Settled, TypeOK
<1> QED BY <1>1, Invariance, PTL

\* However large the screen, a backspace takes back any mark just made, also
\* one that wrapped its line or scrolled the screen.
THEOREM EraseCorrect == Spec => []EraseUndoesMark
<1>1. Inv => EraseUndoesMark
  <2> SUFFICES ASSUME Inv, NEW c \in Codes, Printing(c)
               PROVE  LET after == PutPlain(PutPlain(crt, c), BS) IN
                      /\ after.lost + after.pos = crt.lost + crt.pos
                      /\ after.buf[after.pos] = BlankCell
    BY DEF EraseUndoesMark
  <2> DEFINE s == PutPlain(crt, c)
  <2>1. c \in Int /\ Settled(crt)  BY CodesAssumption DEF Inv
  <2>2. Settled(s) /\ s.lost + s.pos = crt.lost + crt.pos + 1 /\ s.pos > 0
    BY <2>1, MarkMoves
  <2>3. /\ PutPlain(s, BS).lost = s.lost /\ PutPlain(s, BS).pos = s.pos - 1
        /\ PutPlain(s, BS).buf[s.pos - 1] = BlankCell
    BY <2>2, BackspaceBlanks
  <2>4. s.lost \in Int /\ s.pos \in Int /\ crt.lost \in Int /\ crt.pos \in Int
    BY <2>1, <2>2, Geometry DEF Settled, Screens, Pos
  <2> QED BY <2>2, <2>3, <2>4
<1> QED BY <1>1, Invariance, PTL

\* However large the screen and whatever is printed, the display implements
\* the page of text that only grows at its end.
THEOREM Refinement == Spec => ScreenIsWindow
<1>1. Init => T!Init
  <2> SUFFICES ASSUME Init PROVE T!Init  OBVIOUS
  <2>1. PICK buf \in [Pos -> BootCells], pos \in Pos :
          crt = [ buf |-> buf, pos |-> pos, reg |-> pos, lost |-> 0,
                  past |-> [i \in {} |-> BlankCell] ]
    BY DEF Init, CgaInit
  <2>2. PageOf(crt).page = buf
    <3>1. PageOf(crt).page = [i \in 0 .. 0 + CRT_SIZE - 1 |->
                                IF i < 0 THEN crt.past[i] ELSE buf[i - 0]]
      BY <2>1 DEF PageOf
    <3>2. 0 + CRT_SIZE - 1 = CRT_SIZE - 1  BY Geometry
    <3> QED BY <3>1, <3>2, Geometry DEF Pos
  <2>3. PageOf(crt).top = 0 /\ PageOf(crt).cursor = pos
    BY <2>1, Geometry DEF PageOf, Pos
  <2>4. PageOf(crt) = [page |-> buf, top |-> 0, cursor |-> pos]
    BY <2>2, <2>3 DEF PageOf
  <2> QED BY <2>4 DEF T!Init, Pos
<1>2. Inv /\ [Next]_crt => [T!Next]_(PageOf(crt))
  <2> SUFFICES ASSUME Inv, [Next]_crt PROVE [T!Next]_(PageOf(crt))  OBVIOUS
  <2>1. ASSUME NEW c \in Codes, Putc(c) PROVE T!Next
    <3>1. c \in Int  BY CodesAssumption
    <3>2. PageOf(crt)' = T!Write(PageOf(crt), c)
      BY <2>1, <3>1, CgaPutcStep DEF Inv, Putc, PageOf
    <3> QED BY <3>2 DEF T!Next
  <2>2. CASE UNCHANGED crt  BY <2>2 DEF PageOf
  <2> QED BY <2>1, <2>2 DEF Next
<1> QED BY <1>1, <1>2, Invariance, PTL DEF Spec, T!Spec, ScreenIsWindow
=============================================================================
