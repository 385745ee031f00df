------------------------------ MODULE BootProofs ------------------------------
(***************************************************************************)
(* From the boot sector to the monitor for every disk image as the linker  *)
(* lays it out, every size of sector, header, page and memory, and every   *)
(* patience of the console.                                                *)
(***************************************************************************)
EXTENDS Boot, SequenceTheorems, TLAPS

-----------------------------------------------------------------------------
(* Quotients and multiples *)

\* Division with a remainder.
LEMMA DivMod ==
  ASSUME NEW b \in Nat \ {0}, NEW a \in Nat
  PROVE  a \div b \in Nat /\ a % b \in 0 .. b - 1 /\ a = b * (a \div b) + (a % b)
OBVIOUS

\* Products are monotonic.
LEMMA Products ==
  ASSUME NEW b \in Nat, NEW x \in Int, NEW y \in Int, x <= y
  PROVE  b * x <= b * y
<1>1. b * (y - x) >= 0  OBVIOUS
<1>2. b * (y - x) = b * y - b * x  OBVIOUS
<1> QED BY <1>1, <1>2

\* One more sector.
LEMMA SectorsBefore ==
  ASSUME NEW b \in Nat, NEW n \in Nat \ {0}
  PROVE  (n - 1) * b \in Nat /\ ((n + 1) - 1) * b = (n - 1) * b + b
<1> DEFINE m == n - 1
<1>1. m \in Nat /\ (n + 1) - 1 = m + 1  OBVIOUS
<1> HIDE DEF m
<1>2. m * b \in Nat /\ (m + 1) * b = m * b + b  BY <1>1
<1> QED BY <1>1, <1>2 DEF m

\* The quotient and the remainder are determined.
LEMMA DivUnique ==
  ASSUME NEW b \in Nat \ {0}, NEW q \in Nat, NEW r \in 0 .. b - 1
  PROVE  (b * q + r) \div b = q /\ (b * q + r) % b = r
<1> DEFINE a == b * q + r
           p == a \div b
<1>1. a \in Nat  OBVIOUS
<1> HIDE DEF a
<1>2. p \in Nat /\ a % b \in 0 .. b - 1 /\ a = b * p + (a % b)  BY <1>1, DivMod
<1> HIDE DEF p
<1>3. CASE p >= q + 1
  <2>1. b * (q + 1) <= b * p  BY <1>2, <1>3, Products
  <2>2. b * (q + 1) = b * q + b  OBVIOUS
  <2> QED BY <1>2, <2>1, <2>2 DEF a
<1>4. CASE p + 1 <= q
  <2>1. b * (p + 1) <= b * q  BY <1>2, <1>4, Products
  <2>2. b * (p + 1) = b * p + b  BY <1>2
  <2> QED BY <1>2, <2>1, <2>2 DEF a
<1>5. CASE p = q  BY <1>2, <1>5 DEF a, p
<1> QED BY <1>2, <1>3, <1>4, <1>5

\* Two multiples of b are at least b apart.
LEMMA Multiples ==
  ASSUME NEW b \in Nat \ {0}, NEW x \in Nat, NEW y \in Nat, x % b = 0, y % b = 0, x < y
  PROVE  x + b <= y
<1> DEFINE p == x \div b
           q == y \div b
<1>1. p \in Nat /\ q \in Nat /\ x = b * p /\ y = b * q  BY DivMod
<1> HIDE DEF p, q
<1>2. p + 1 <= q
  <2>1. CASE q <= p  BY <1>1, <2>1, Products
  <2> QED BY <1>1, <2>1
<1>3. b * (p + 1) <= b * q  BY <1>1, <1>2, Products
<1>4. b * (p + 1) = b * p + b  BY <1>1
<1> QED BY <1>1, <1>3, <1>4

\* From one multiple to the next.
LEMMA NextMultiple ==
  ASSUME NEW b \in Nat \ {0}, NEW x \in Nat, x % b = 0
  PROVE  /\ \A i \in 0 .. b - 1 : (x + i) % b = i
         /\ (x + b) % b = 0
<1> DEFINE p == x \div b
<1>1. p \in Nat /\ x = b * p  BY DivMod
<1> HIDE DEF p
<1>2. x + b = b * (p + 1) + 0  BY <1>1
<1> QED BY <1>1, <1>2, DivUnique

\* The sector an address is in.
LEMMA SectorStarts ==
  ASSUME NEW a \in Nat
  PROVE  /\ SectorStart(a) \in Nat /\ SectorStart(a) % SECTSIZE = 0
         /\ SectorStart(a) <= a /\ a < SectorStart(a) + SECTSIZE
         /\ \A m \in Nat : m % SECTSIZE = 0 /\ m <= a => m <= SectorStart(a)
<1> DEFINE q == a \div SECTSIZE
<1>1. q \in Nat /\ a % SECTSIZE \in 0 .. SECTSIZE - 1 /\ a = SECTSIZE * q + (a % SECTSIZE)
  BY BootAssumption, DivMod
<1> HIDE DEF q
<1>2. SectorStart(a) = SECTSIZE * q + 0 /\ SectorStart(a) \in Nat
  BY <1>1, BootAssumption DEF SectorStart
<1>3. SectorStart(a) % SECTSIZE = 0
  <2>1. (SECTSIZE * q + 0) % SECTSIZE = 0
    <3>1. 0 \in 0 .. SECTSIZE - 1 /\ SECTSIZE \in Nat \ {0}  BY BootAssumption
    <3> QED BY <1>1, <3>1, DivUnique
  <2> QED BY <1>2, <2>1
<1>4. SectorStart(a) <= a /\ a < SectorStart(a) + SECTSIZE  BY <1>1, BootAssumption DEF SectorStart
<1>5. ASSUME NEW m \in Nat, m % SECTSIZE = 0, m <= a PROVE m <= SectorStart(a)
  <2>1. CASE SectorStart(a) < m
    <3>1. SectorStart(a) + SECTSIZE <= m  BY <1>2, <1>3, <1>5, <2>1, BootAssumption, Multiples
    <3> QED BY <1>2, <1>4, <1>5, <3>1, BootAssumption
  <2> QED BY <1>2, <2>1
<1> QED BY <1>2, <1>3, <1>4, <1>5

-----------------------------------------------------------------------------
(* The translation *)

\* The sizes of the tables.
LEMMA TableSizes ==
  /\ PGSIZE \in Nat \ {0} /\ NPTENTRIES \in Nat \ {0} /\ NPDENTRIES \in Nat \ {0}
  /\ PTSIZE \in Nat \ {0} /\ KERNBASE \in Nat
  /\ KERNBASE \div PTSIZE \in 1 .. NPDENTRIES - 1 /\ KERNBASE = PTSIZE * (KERNBASE \div PTSIZE)
<1>1. /\ PGSIZE \in Nat \ {0} /\ NPTENTRIES \in Nat \ {0} /\ NPDENTRIES \in Nat \ {0}
      /\ KERNBASE \in PTSIZE .. (NPDENTRIES - 1) * PTSIZE /\ KERNBASE % PTSIZE = 0
  BY PagingAssumption
<1>2. PTSIZE \in Nat /\ PTSIZE > 0
  <2>1. PGSIZE * 1 <= PGSIZE * NPTENTRIES  BY <1>1, Products
  <2> QED BY <1>1, <2>1 DEF PTSIZE
<1> DEFINE k == KERNBASE \div PTSIZE
<1>3. KERNBASE \in Nat  BY <1>1, <1>2
<1>4. k \in Nat /\ KERNBASE = PTSIZE * k  BY <1>1, <1>2, <1>3, DivMod
<1> HIDE DEF k
<1>5. k >= 1
  <2>1. CASE k = 0  BY <1>1, <1>2, <1>4, <2>1
  <2> QED BY <1>4, <2>1
<1>6. k <= NPDENTRIES - 1
  <2>1. CASE NPDENTRIES - 1 < k
    <3>1. PTSIZE * (NPDENTRIES - 1 + 1) <= PTSIZE * k  BY <1>1, <1>2, <1>4, <2>1, Products
    <3>2. PTSIZE * (NPDENTRIES - 1 + 1) = (NPDENTRIES - 1) * PTSIZE + PTSIZE  BY <1>1, <1>2
    <3> QED BY <1>1, <1>2, <1>3, <1>4, <3>1, <3>2
  <2> QED BY <1>1, <1>4, <2>1
<1> QED BY <1>1, <1>2, <1>3, <1>4, <1>5, <1>6 DEF k

\* The tables map the first addresses to themselves, at two places.
LEMMA TranslateAt ==
  ASSUME NEW k \in 0 .. NPDENTRIES - 1, NEW x \in 0 .. PTSIZE - 1
  PROVE  LET va == PTSIZE * k + x
         IN  PDX(va) = k /\ PTX(va) \in 0 .. NPTENTRIES - 1 /\ Translate(va) = x
<1> USE TableSizes
<1> DEFINE p == x \div PGSIZE
           r == x % PGSIZE
           va == PTSIZE * k + x
<1>1. p \in Nat /\ r \in 0 .. PGSIZE - 1 /\ x = PGSIZE * p + r
  <2>1. x \in Nat  OBVIOUS
  <2> QED BY <2>1, DivMod
<1> HIDE DEF p, r
<1>2. p <= NPTENTRIES - 1
  <2>1. CASE NPTENTRIES <= p
    <3>1. PGSIZE * NPTENTRIES <= PGSIZE * p  BY <1>1, <2>1, Products
    <3> QED BY <1>1, <3>1 DEF PTSIZE
  <2> QED BY <1>1, <2>1
<1>3. va \div PTSIZE = k  BY DivUnique
<1>4. PDX(va) = k
  <2>1. (NPDENTRIES * 0 + k) % NPDENTRIES = k  BY DivUnique
  <2> QED BY <1>3, <2>1 DEF PDX
<1> DEFINE m == NPTENTRIES * k + p
<1>5. m \in Nat /\ va = PGSIZE * m + r
  <2>1. m \in Nat  BY <1>1
  <2>2. PTSIZE * k = PGSIZE * (NPTENTRIES * k)  BY DEF PTSIZE
  <2>3. PGSIZE * m = PGSIZE * (NPTENTRIES * k) + PGSIZE * p  BY <1>1
  <2>4. va = PGSIZE * m + r
    <3> HIDE DEF m
    <3>1. PTSIZE * k \in Int /\ PGSIZE * (NPTENTRIES * k) \in Int /\ PGSIZE * p \in Int  BY <1>1
    <3> QED BY <1>1, <2>1, <2>2, <2>3, <3>1
  <2> QED BY <2>1, <2>4
<1>6. m % NPTENTRIES = p  BY <1>1, <1>2, DivUnique
<1> HIDE DEF m, va
<1>7. va \div PGSIZE = m /\ va % PGSIZE = r  BY <1>1, <1>5, DivUnique
<1>8. PTX(va) = p /\ PGOFF(va) = r  BY <1>6, <1>7 DEF PTX, PGOFF
<1>9. Translate(va) = x
  <2>1. p \in 0 .. NPTENTRIES - 1  BY <1>1, <1>2
  <2>2. entry_pgtable[p].addr = p * PGSIZE  BY <2>1 DEF entry_pgtable
  <2> QED BY <1>1, <1>8, <2>2 DEF Translate
<1>10. PTX(va) \in 0 .. NPTENTRIES - 1  BY <1>1, <1>2, <1>8
<1> QED BY <1>4, <1>9, <1>10 DEF va

\* The low addresses are mapped, the kernel's also writable (entrypgdir.c:20).
LEMMA TranslateLow ==
  ASSUME NEW x \in 0 .. PTSIZE - 1
  PROVE  Mapped(x) /\ Translate(x) = x
<1>1. 0 \in 0 .. NPDENTRIES - 1 /\ PTSIZE * 0 + x = x  BY TableSizes
<1>2. PDX(x) = 0 /\ PTX(x) \in 0 .. NPTENTRIES - 1 /\ Translate(x) = x
  BY <1>1, TranslateAt
<1> QED BY <1>1, <1>2 DEF Mapped, entry_pgdir, entry_pgtable

\* And the addresses the kernel is linked at.
LEMMA TranslateHigh ==
  ASSUME NEW x \in 0 .. PTSIZE - 1
  PROVE  /\ Mapped(KERNBASE + x) /\ Writable(KERNBASE + x)
         /\ Translate(KERNBASE + x) = x
<1> DEFINE k == KERNBASE \div PTSIZE
<1>1. k \in 0 .. NPDENTRIES - 1 /\ KERNBASE = PTSIZE * k /\ k # 0  BY TableSizes
<1> HIDE DEF k
<1>2. PDX(KERNBASE + x) = k /\ PTX(KERNBASE + x) \in 0 .. NPTENTRIES - 1 /\ Translate(KERNBASE + x) = x
  BY <1>1, TranslateAt
<1>3. PDX(KERNBASE) = k
  <2>1. 0 \in 0 .. PTSIZE - 1 /\ PTSIZE * k + 0 = KERNBASE  BY <1>1, TableSizes
  <2> QED BY <1>1, <2>1, TranslateAt
<1> QED BY <1>1, <1>2, <1>3 DEF Mapped, Writable, entry_pgdir, entry_pgtable

-----------------------------------------------------------------------------
(* The console: what a device was given is an ascending part of what was     *)
(* printed, and every gap was paid for with a timeout.                       *)

Given(s, n) == /\ s \in Seq(Nat) /\ Ascending(s)
               /\ \A i \in 1 .. Len(s) : s[i] <= n

ConsoleTypes ==
  /\ putc \in [at : {"idle", "serial", "lpt", "cga"}, char : Nat, i : 0 .. MaxPolls]
  /\ putc.at # "idle" => putc.char > 0
  /\ screen \in 0 .. putc.char
  /\ uart \in [there : BOOLEAN, held : Nat, out : Seq(Nat)]
  /\ printer \in [there : BOOLEAN, busy : BOOLEAN, out : Seq(Nat)]
  /\ gaveup \in [serial : Nat, lpt : Nat]

UartAccount ==
  /\ Given(UartTook, Written("serial"))
  /\ uart.there => Written("serial") - Len(UartTook) <= gaveup.serial

PrinterAccount ==
  /\ Given(printer.out, Written("lpt"))
  /\ printer.there => Written("lpt") - Len(printer.out) <= gaveup.lpt

ConsoleInv == ConsoleTypes /\ UartAccount /\ PrinterAccount

\* One more character, later than all before.
LEMMA GivenAppend ==
  ASSUME NEW s, NEW n \in Nat, Given(s, n)
  PROVE  Given(Append(s, n + 1), n + 1) /\ Len(Append(s, n + 1)) = Len(s) + 1
<1> DEFINE t == Append(s, n + 1)
<1>1. s \in Seq(Nat) /\ Len(s) \in Nat /\ DOMAIN s = 1 .. Len(s)
      /\ \A i \in 1 .. Len(s) : s[i] \in Nat /\ s[i] <= n
  BY LenProperties, ElementOfSeq DEF Given
<1>2. t \in Seq(Nat) /\ Len(t) = Len(s) + 1 /\ t[Len(s) + 1] = n + 1
      /\ \A i \in 1 .. Len(s) : t[i] = s[i]
  BY <1>1, AppendProperties
<1> HIDE DEF t
<1>3. DOMAIN t = 1 .. Len(s) + 1  BY <1>2, LenProperties
<1>4. Ascending(t)
  <2> SUFFICES ASSUME NEW i \in 1 .. Len(s) + 1, NEW j \in 1 .. Len(s) + 1, i < j
               PROVE  t[i] < t[j]
    BY <1>3 DEF Ascending
  <2>1. i \in 1 .. Len(s)  BY <1>1
  <2>2. i \in 1 .. Len(s) /\ t[i] = s[i]  BY <1>2, <2>1, Zenon
  <2>3. CASE j = Len(s) + 1  BY <1>1, <1>2, <2>2, <2>3
  <2>4. CASE j # Len(s) + 1
    <3>1. j \in 1 .. Len(s)  BY <1>1, <2>4
    <3>2. t[j] = s[j]  BY <1>2, <3>1
    <3> QED BY <1>1, <2>2, <3>1, <3>2 DEF Given, Ascending
  <2> QED BY <2>3, <2>4
<1>5. \A i \in 1 .. Len(t) : t[i] <= n + 1
  <2> SUFFICES ASSUME NEW i \in 1 .. Len(s) + 1 PROVE t[i] <= n + 1  BY <1>2
  <2>1. CASE i = Len(s) + 1  BY <1>2, <2>1
  <2>2. CASE i # Len(s) + 1
    <3>1. i \in 1 .. Len(s)  BY <1>1, <2>2
    <3> QED BY <1>1, <1>2, <3>1
  <2> QED BY <2>1, <2>2
<1> QED BY <1>2, <1>4, <1>5 DEF Given, t

\* All but the last of them.
LEMMA GivenPrefix ==
  ASSUME NEW s \in Seq(Nat), NEW x \in Nat, NEW n \in Nat, Given(Append(s, x), n)
  PROVE  Given(s, n)
<1> DEFINE t == Append(s, x)
<1>1. Len(s) \in Nat /\ DOMAIN s = 1 .. Len(s) /\ t \in Seq(Nat) /\ Len(t) = Len(s) + 1
      /\ \A i \in 1 .. Len(s) : t[i] = s[i]
  BY LenProperties, AppendProperties
<1>2. DOMAIN t = 1 .. Len(s) + 1  BY <1>1, LenProperties
<1>3. Given(t, n)  OBVIOUS
<1> HIDE DEF t
<1>4. Ascending(s)
  <2> SUFFICES ASSUME NEW i \in 1 .. Len(s), NEW j \in 1 .. Len(s), i < j PROVE s[i] < s[j]
    BY <1>1 DEF Ascending
  <2>1. i \in DOMAIN t /\ j \in DOMAIN t  BY <1>1, <1>2
  <2>2. t[i] < t[j]  BY <1>3, <2>1 DEF Given, Ascending
  <2> QED BY <1>1, <2>2
<1>5. \A i \in 1 .. Len(s) : s[i] <= n
  <2> SUFFICES ASSUME NEW i \in 1 .. Len(s) PROVE s[i] <= n  OBVIOUS
  <2>1. i \in 1 .. Len(t)  BY <1>1
  <2> QED BY <1>1, <1>3, <2>1 DEF Given
<1> QED BY <1>4, <1>5 DEF Given

\* What has been sent, and what has been taken, of which one may still be held.
LEMMA TookValue ==
  ASSUME uart.out \in Seq(Nat), uart.held \in Nat
  PROVE  UartTook = IF uart.held = None THEN uart.out ELSE Append(uart.out, uart.held)
<1>1. CASE uart.held = None  BY <1>1, ConcatEmptySeq DEF UartTook
<1>2. CASE uart.held # None
  <2>1. UartTook = uart.out \o <<uart.held>>  BY <1>2 DEF UartTook
  <2>2. Append(uart.out, uart.held) = uart.out \o <<uart.held>>  BY AppendIsConcat
  <2> QED BY <1>2, <2>1, <2>2
<1> QED BY <1>1, <1>2

\* A larger bound.
LEMMA GivenMore ==
  ASSUME NEW s, NEW n \in Nat, NEW m \in Nat, n <= m, Given(s, n)
  PROVE  Given(s, m)
<1>1. \A i \in 1 .. Len(s) : s[i] \in Nat /\ s[i] <= n  BY ElementOfSeq DEF Given
<1> QED BY <1>1 DEF Given

\* Nothing is printed at first.
LEMMA ConsoleInitInv == ConsoleInit => ConsoleInv
<1> SUFFICES ASSUME ConsoleInit PROVE ConsoleInv  OBVIOUS
<1>1. /\ putc = [at |-> "idle", char |-> 0, i |-> 0] /\ screen = 0
      /\ uart \in [there : BOOLEAN, held : {None}, out : {<<>>}]
      /\ printer \in [there : BOOLEAN, busy : BOOLEAN, out : {<<>>}]
      /\ gaveup = [serial |-> 0, lpt |-> 0]
  BY DEF ConsoleInit
<1>2. <<>> \in Seq(Nat) /\ Len(<<>>) = 0 /\ DOMAIN <<>> = {}  BY EmptySeq
<1>3. uart.out = <<>> /\ printer.out = <<>> /\ uart.held = None  BY <1>1
<1>4. UartTook = <<>>  BY <1>2, <1>3, TookValue DEF None
<1>5. Given(<<>>, 0)  BY <1>2 DEF Given, Ascending
<1>6. Written("serial") = 0 /\ Written("lpt") = 0  BY <1>1 DEF Written
<1>7. Given(UartTook, Written("serial")) /\ Given(printer.out, Written("lpt"))
  BY <1>3, <1>4, <1>5, <1>6
<1>8. Written("serial") - Len(UartTook) <= gaveup.serial
      /\ Written("lpt") - Len(printer.out) <= gaveup.lpt
  BY <1>1, <1>2, <1>3, <1>4, <1>6
<1>9. uart \in [there : BOOLEAN, held : Nat, out : Seq(Nat)]
      /\ printer \in [there : BOOLEAN, busy : BOOLEAN, out : Seq(Nat)]
  <2> DEFINE S == Seq(Nat)
  <2>1. <<>> \in S /\ None \in Nat  BY <1>2 DEF None
  <2> HIDE DEF S
  <2>2. uart \in [there : BOOLEAN, held : Nat, out : S]  BY <1>1, <2>1
  <2>3. printer \in [there : BOOLEAN, busy : BOOLEAN, out : S]  BY <1>1, <2>1
  <2> QED BY <2>2, <2>3 DEF S
<1>10. putc \in [at : {"idle", "serial", "lpt", "cga"}, char : Nat, i : 0 .. MaxPolls]
  BY <1>1, PollsAssumption
<1> QED BY <1>1, <1>7, <1>8, <1>9, <1>10 DEF ConsoleInv, ConsoleTypes, UartAccount, PrinterAccount

\* One more character, which is either given or paid for.
LEMMA Balance ==
  ASSUME NEW n \in Nat, NEW l \in Nat, NEW g \in Nat, n - l <= g
  PROVE  (n + 1) - (l + 1) <= g /\ (n + 1) - l <= g + 1
OBVIOUS

\* The serial port's turn.
LEMMA SerialStep ==
  ASSUME ConsoleInv, serial_putc
  PROVE  ConsoleInv'
<1> DEFINE n == putc.char - 1
<1>1. /\ putc.at = "serial"
      /\ uart' = IF uart.there THEN [uart EXCEPT !.held = putc.char] ELSE uart
      /\ gaveup' = IF UartReady THEN gaveup ELSE [gaveup EXCEPT !.serial = @ + 1]
      /\ putc' = [putc EXCEPT !.at = "lpt", !.i = 0]
      /\ UNCHANGED <<printer, screen>>
  BY DEF serial_putc
<1>2. ConsoleTypes /\ MaxPolls \in Nat  BY PollsAssumption DEF ConsoleInv
<1>3. putc.char \in Nat /\ putc.char > 0  BY <1>1, <1>2 DEF ConsoleTypes
<1>4. putc' = [at |-> "lpt", char |-> putc.char, i |-> 0]  BY <1>1, <1>2 DEF ConsoleTypes
<1>5. n \in Nat /\ putc.char = n + 1  BY <1>3
<1>6. Written("serial") = n /\ Written("serial")' = n + 1
      /\ Written("lpt") = n /\ Written("lpt")' = n
  BY <1>1, <1>4, <1>5 DEF Written
<1> HIDE DEF n
<1>7. ConsoleTypes'
  <2>1. uart' \in [there : BOOLEAN, held : Nat, out : Seq(Nat)]  BY <1>1, <1>2, <1>3 DEF ConsoleTypes
  <2>2. gaveup' \in [serial : Nat, lpt : Nat]
    <3>1. gaveup \in [serial : Nat, lpt : Nat]  BY <1>2 DEF ConsoleTypes
    <3>2. [gaveup EXCEPT !.serial = @ + 1] \in [serial : Nat, lpt : Nat]  BY <3>1
    <3> QED BY <1>1, <3>1, <3>2, Zenon
  <2> QED BY <1>1, <1>2, <1>3, <1>4, <2>1, <2>2 DEF ConsoleTypes
<1>8. PrinterAccount'
  <2>1. gaveup'.lpt = gaveup.lpt  BY <1>1, <1>2 DEF ConsoleTypes
  <2> QED BY <1>1, <1>6, <2>1 DEF ConsoleInv, PrinterAccount
<1>9. UartAccount'
  <2>1. Given(UartTook, n) /\ (uart.there => n - Len(UartTook) <= gaveup.serial)
    BY <1>6 DEF ConsoleInv, UartAccount
  <2>2. CASE ~uart.there
    <3>1. uart' = uart  BY <1>1, <2>2
    <3>2. UartTook' = UartTook  BY <3>1 DEF UartTook
    <3>3. Given(UartTook', n + 1)  BY <1>5, <2>1, <3>2, GivenMore
    <3> QED BY <1>6, <2>2, <3>1, <3>3 DEF UartAccount
  <2>3. CASE uart.there
    <3>1. uart.out \in Seq(Nat) /\ uart.held \in Nat /\ Len(uart.out) \in Nat /\ gaveup.serial \in Nat
      BY <1>2, LenProperties DEF ConsoleTypes
    <3>2. uart'.held = n + 1 /\ uart'.out = uart.out /\ uart'.there
      BY <1>1, <1>2, <1>5, <2>3 DEF ConsoleTypes
    <3>3. UartTook' = Append(uart.out, n + 1)
      <4>1. n + 1 # None  BY <1>5 DEF None
      <4>2. UartTook' = uart.out \o <<n + 1>>  BY <3>2, <4>1 DEF UartTook
      <4> QED BY <1>5, <3>1, <4>2, AppendIsConcat
    <3>4. UartTook = IF uart.held = None THEN uart.out ELSE Append(uart.out, uart.held)
      BY <3>1, TookValue
    <3>5. Given(uart.out, n)  BY <1>5, <2>1, <3>1, <3>4, GivenPrefix
    <3>6. Given(UartTook', n + 1) /\ Len(UartTook') = Len(uart.out) + 1
      BY <1>5, <3>3, <3>5, GivenAppend
    <3>7. (n + 1) - Len(UartTook') <= gaveup'.serial
      <4>1. CASE uart.held = None
        <5>1. gaveup' = gaveup /\ UartTook = uart.out  BY <1>1, <3>4, <4>1 DEF UartReady
        <5>2. n - Len(uart.out) <= gaveup.serial  BY <2>1, <2>3, <5>1
        <5>3. (n + 1) - (Len(uart.out) + 1) <= gaveup.serial  BY <1>5, <3>1, <5>2, Balance, Zenon
        <5> QED BY <3>6, <5>1, <5>3, Zenon
      <4>2. CASE uart.held # None
        <5>1. Len(UartTook) = Len(uart.out) + 1  BY <3>1, <3>4, <4>2, AppendProperties
        <5>2. gaveup'.serial = gaveup.serial + 1
          BY <1>1, <1>2, <2>3, <4>2 DEF UartReady, ConsoleTypes
        <5>3. n - (Len(uart.out) + 1) <= gaveup.serial  BY <2>1, <2>3, <5>1
        <5> DEFINE l == Len(uart.out) + 1
        <5>4. l \in Nat  BY <3>1
        <5> HIDE DEF l
        <5>5. (n + 1) - l <= gaveup.serial + 1  BY <1>5, <3>1, <5>3, <5>4, Balance, Zenon DEF l
        <5> QED BY <3>6, <5>2, <5>5, Zenon DEF l
      <4> QED BY <4>1, <4>2
    <3>8. Written("serial")' = n + 1  BY <1>6
    <3>9. Given(UartTook', Written("serial")')  BY <3>6, <3>8
    <3>10. Written("serial")' - Len(UartTook') <= gaveup'.serial  BY <3>7, <3>8
    <3> QED BY <3>9, <3>10 DEF UartAccount
  <2> QED BY <2>2, <2>3
<1> QED BY <1>7, <1>8, <1>9 DEF ConsoleInv

\* The printer's turn.
LEMMA PrinterStep ==
  ASSUME ConsoleInv, lpt_putc
  PROVE  ConsoleInv'
<1> DEFINE n == putc.char - 1
<1>1. /\ putc.at = "lpt"
      /\ printer' = IF printer.there /\ PrinterReady
                    THEN [printer EXCEPT !.busy = TRUE, !.out = Append(@, putc.char)] ELSE printer
      /\ gaveup' = IF PrinterReady THEN gaveup ELSE [gaveup EXCEPT !.lpt = @ + 1]
      /\ putc' = [putc EXCEPT !.at = "cga"]
      /\ UNCHANGED <<uart, screen>>
  BY DEF lpt_putc
<1>2. ConsoleTypes /\ MaxPolls \in Nat  BY PollsAssumption DEF ConsoleInv
<1>3. putc.char \in Nat /\ putc.char > 0  BY <1>1, <1>2 DEF ConsoleTypes
<1>4. putc' = [at |-> "cga", char |-> putc.char, i |-> putc.i]  BY <1>1, <1>2 DEF ConsoleTypes
<1>5. n \in Nat /\ putc.char = n + 1  BY <1>3
<1>6. Written("serial") = n + 1 /\ Written("serial")' = n + 1
      /\ Written("lpt") = n /\ Written("lpt")' = n + 1
  BY <1>1, <1>4, <1>5 DEF Written
<1> HIDE DEF n
<1>7. printer.out \in Seq(Nat) /\ Len(printer.out) \in Nat /\ gaveup.lpt \in Nat
  BY <1>2, LenProperties DEF ConsoleTypes
<1>8. ConsoleTypes'
  <2>1. Append(printer.out, putc.char) \in Seq(Nat)  BY <1>3, <1>7, AppendProperties
  <2>2. printer' \in [there : BOOLEAN, busy : BOOLEAN, out : Seq(Nat)]
    BY <1>1, <1>2, <2>1 DEF ConsoleTypes
  <2>3. gaveup' \in [serial : Nat, lpt : Nat]
    <3>1. gaveup \in [serial : Nat, lpt : Nat]  BY <1>2 DEF ConsoleTypes
    <3>2. gaveup' = gaveup \/ gaveup' = [gaveup EXCEPT !.lpt = @ + 1]  BY <1>1
    <3> QED BY <3>1, <3>2
  <2> QED BY <1>1, <1>2, <1>3, <1>4, <2>2, <2>3 DEF ConsoleTypes
<1>9. UartAccount'
  <2>1. gaveup'.serial = gaveup.serial /\ UartTook' = UartTook
    BY <1>1, <1>2 DEF ConsoleTypes, UartTook
  <2> QED BY <1>1, <1>6, <2>1 DEF ConsoleInv, UartAccount
<1>10. PrinterAccount'
  <2>1. Given(printer.out, n) /\ (printer.there => n - Len(printer.out) <= gaveup.lpt)
    BY <1>6 DEF ConsoleInv, PrinterAccount
  <2>2. CASE printer.there /\ PrinterReady
    <3>1. printer'.out = Append(printer.out, n + 1) /\ gaveup' = gaveup
      BY <1>1, <1>2, <1>5, <2>2 DEF ConsoleTypes
    <3>2. Given(printer'.out, n + 1) /\ Len(printer'.out) = Len(printer.out) + 1
      BY <1>5, <2>1, <3>1, GivenAppend
    <3>3. (n + 1) - Len(printer'.out) <= gaveup'.lpt
      <4>1. n - Len(printer.out) <= gaveup.lpt  BY <2>1, <2>2
      <4>2. gaveup'.lpt = gaveup.lpt  BY <3>1
      <4>3. (n + 1) - (Len(printer.out) + 1) <= gaveup.lpt  BY <1>5, <1>7, <4>1, Balance, Zenon
      <4> QED BY <3>2, <4>2, <4>3, Zenon
    <3>4. Written("lpt")' = n + 1  BY <1>6
    <3>5. Given(printer'.out, Written("lpt")')  BY <3>2, <3>4
    <3>6. Written("lpt")' - Len(printer'.out) <= gaveup'.lpt  BY <3>3, <3>4
    <3> QED BY <3>5, <3>6 DEF PrinterAccount
  <2>3. CASE ~(printer.there /\ PrinterReady)
    <3>1. printer' = printer  BY <1>1, <2>3
    <3>2. Given(printer.out, n + 1)  BY <1>5, <2>1, GivenMore
    <3>3. printer.there => gaveup'.lpt = gaveup.lpt + 1
      BY <1>1, <1>2, <2>3 DEF ConsoleTypes
    <3>4. ASSUME printer.there PROVE (n + 1) - Len(printer.out) <= gaveup'.lpt
      <4>1. n - Len(printer.out) <= gaveup.lpt  BY <2>1, <3>4
      <4>2. gaveup'.lpt = gaveup.lpt + 1  BY <3>3, <3>4
      <4>3. (n + 1) - Len(printer.out) <= gaveup.lpt + 1  BY <1>5, <1>7, <4>1, Balance, Zenon
      <4> QED BY <4>2, <4>3, Zenon
    <3>5. Written("lpt")' = n + 1  BY <1>6
    <3>6. Given(printer'.out, Written("lpt")')  BY <3>1, <3>2, <3>5
    <3>7. printer'.there => Written("lpt")' - Len(printer'.out) <= gaveup'.lpt
      BY <3>1, <3>4, <3>5
    <3> QED BY <3>6, <3>7 DEF PrinterAccount
  <2> QED BY <2>2, <2>3
<1> QED BY <1>8, <1>9, <1>10 DEF ConsoleInv

\* The other steps give nothing to anyone; what the serial port sends moves on.
LEMMA ConsoleStep ==
  ASSUME ConsoleInv, cons_putc \/ Putc \/ Devices
  PROVE  ConsoleInv'
<1>1. ConsoleTypes /\ MaxPolls \in Nat  BY PollsAssumption DEF ConsoleInv
<1>2. ASSUME UNCHANGED <<uart, printer, gaveup>>, \A d : Written(d)' = Written(d)
      PROVE  UartAccount' /\ PrinterAccount'
  BY <1>2 DEF ConsoleInv, UartAccount, PrinterAccount, UartTook
<1>3. CASE cons_putc
  <2>1. /\ putc.at = "idle" /\ putc' = [at |-> "serial", char |-> putc.char + 1, i |-> 0]
        /\ UNCHANGED <<uart, printer, screen, gaveup>>
    BY <1>3 DEF cons_putc
  <2>2. \A d : Written(d)' = Written(d)  BY <1>1, <2>1 DEF Written, ConsoleTypes
  <2>3. ConsoleTypes'  BY <1>1, <2>1 DEF ConsoleTypes
  <2> QED BY <1>2, <2>1, <2>2, <2>3 DEF ConsoleInv
<1>4. CASE Poll
  <2>1. /\ putc' = [putc EXCEPT !.i = @ + 1] /\ putc.i < MaxPolls
        /\ UNCHANGED <<uart, printer, screen, gaveup>>
    BY <1>4 DEF Poll
  <2>2. putc' = [at |-> putc.at, char |-> putc.char, i |-> putc.i + 1]
    BY <1>1, <2>1 DEF ConsoleTypes
  <2>3. \A d : Written(d)' = Written(d)  BY <2>2 DEF Written
  <2>4. ConsoleTypes'
    <3>1. putc.at \in {"idle", "serial", "lpt", "cga"} /\ putc.char \in Nat /\ putc.i \in 0 .. MaxPolls
          /\ (putc.at # "idle" => putc.char > 0) /\ screen \in 0 .. putc.char
      BY <1>1 DEF ConsoleTypes
    <3>2. putc.i + 1 \in 0 .. MaxPolls  BY <1>1, <2>1, <3>1
    <3>3. putc' \in [at : {"idle", "serial", "lpt", "cga"}, char : Nat, i : 0 .. MaxPolls]
      BY <2>2, <3>1, <3>2
    <3>4. putc'.at = putc.at /\ putc'.char = putc.char  BY <2>2
    <3>5. (putc'.at # "idle" => putc'.char > 0) /\ screen' \in 0 .. putc'.char
      BY <2>1, <3>1, <3>4
    <3> QED BY <1>1, <2>1, <3>3, <3>5 DEF ConsoleTypes
  <2> QED BY <1>2, <2>1, <2>3, <2>4 DEF ConsoleInv
<1>5. CASE cga_putc
  <2>1. /\ putc.at = "cga" /\ screen' = putc.char /\ putc' = [putc EXCEPT !.at = "idle"]
        /\ UNCHANGED <<uart, printer, gaveup>>
    BY <1>5 DEF cga_putc
  <2>2. putc' = [at |-> "idle", char |-> putc.char, i |-> putc.i]
    BY <1>1, <2>1 DEF ConsoleTypes
  <2>3. \A d : Written(d)' = Written(d)  BY <2>1, <2>2 DEF Written
  <2>4. ConsoleTypes'
    <3>1. putc.char \in Nat /\ putc.i \in 0 .. MaxPolls  BY <1>1 DEF ConsoleTypes
    <3>2. putc' \in [at : {"idle", "serial", "lpt", "cga"}, char : Nat, i : 0 .. MaxPolls]
      BY <2>2, <3>1
    <3>3. (putc'.at # "idle" => putc'.char > 0) /\ screen' \in 0 .. putc'.char
      BY <2>1, <2>2, <3>1
    <3> QED BY <1>1, <2>1, <3>2, <3>3 DEF ConsoleTypes
  <2> QED BY <1>2, <2>1, <2>3, <2>4 DEF ConsoleInv
<1>6. CASE UartSends
  <2>1. /\ uart.held # None
        /\ uart' = [uart EXCEPT !.held = None, !.out = Append(@, uart.held)]
        /\ UNCHANGED <<putc, printer, screen, gaveup>>
    BY <1>6 DEF UartSends
  <2>2. uart.out \in Seq(Nat) /\ uart.held \in Nat  BY <1>1 DEF ConsoleTypes
  <2>3. Append(uart.out, uart.held) \in Seq(Nat)  BY <2>2, AppendProperties
  <2>4. uart' = [there |-> uart.there, held |-> None, out |-> Append(uart.out, uart.held)]
    BY <1>1, <2>1 DEF ConsoleTypes
  <2>5. UartTook = Append(uart.out, uart.held)  BY <2>1, <2>2, TookValue
  <2>6. UartTook' = UartTook
    <3>1. uart'.held = None /\ uart'.out = Append(uart.out, uart.held)  BY <2>4
    <3>2. UartTook' = Append(uart.out, uart.held) \o <<>>  BY <3>1 DEF UartTook
    <3> QED BY <2>3, <2>5, <3>2, ConcatEmptySeq
  <2>7. \A d : Written(d)' = Written(d)  BY <2>1 DEF Written
  <2>8. ConsoleTypes'
    <3> DEFINE S == Seq(Nat)
    <3>1. Append(uart.out, uart.held) \in S /\ uart.there \in BOOLEAN /\ None \in Nat
      BY <1>1, <2>3 DEF ConsoleTypes, None
    <3> HIDE DEF S
    <3>2. uart' \in [there : BOOLEAN, held : Nat, out : S]  BY <2>4, <3>1
    <3> QED BY <1>1, <2>1, <3>2, Zenon DEF ConsoleTypes, S
  <2>9. uart'.there = uart.there  BY <2>4
  <2> QED BY <2>1, <2>6, <2>7, <2>8, <2>9 DEF ConsoleInv, UartAccount, PrinterAccount
<1>7. CASE PrinterRests
  <2>1. printer' = [printer EXCEPT !.busy = FALSE] /\ UNCHANGED <<putc, uart, screen, gaveup>>
    BY <1>7 DEF PrinterRests
  <2>2. printer' = [there |-> printer.there, busy |-> FALSE, out |-> printer.out]
    BY <1>1, <2>1 DEF ConsoleTypes
  <2>3. \A d : Written(d)' = Written(d)  BY <2>1 DEF Written
  <2>4. ConsoleTypes'
    <3>1. printer.there \in BOOLEAN /\ printer.out \in Seq(Nat)  BY <1>1 DEF ConsoleTypes
    <3>2. printer' \in [there : BOOLEAN, busy : BOOLEAN, out : Seq(Nat)]  BY <2>2, <3>1
    <3> QED BY <1>1, <2>1, <3>2 DEF ConsoleTypes
  <2> QED BY <2>1, <2>2, <2>3, <2>4 DEF ConsoleInv, UartAccount, PrinterAccount, UartTook
<1> QED BY <1>3, <1>4, <1>5, <1>6, <1>7, SerialStep, PrinterStep DEF Putc, Devices

\* What has been lost was paid for.
LEMMA ConsoleSafe == ConsoleInv => LossNeedsTimeout /\ ConsoleTypeOK
<1> SUFFICES ASSUME ConsoleInv PROVE LossNeedsTimeout /\ ConsoleTypeOK  OBVIOUS
<1>1. LossNeedsTimeout
  BY DEF ConsoleInv, UartAccount, PrinterAccount, Given, LossNeedsTimeout
<1>2. ConsoleTypeOK
  BY DEF ConsoleInv, ConsoleTypes, ConsoleTypeOK
<1> QED BY <1>1, <1>2

-----------------------------------------------------------------------------
(* The parts of the file that are read: the header, then the segments *)

Header == [offset |-> 0, pa |-> ELFHDR, filesz |-> 0, memsz |-> SECTSIZE * HDRSECTORS]
Part(i) == IF i = 0 THEN Header ELSE Seg(i)
End(i) == Part(i).pa + Part(i).memsz
FileByte(p) == IF p < image.size THEN p ELSE Junk
Content(i, a) == FileByte(Part(i).offset + (a - Part(i).pa))
ReadUpTo(i, b) == \A a \in SectorStart(Part(i).pa) .. b - 1 : mem[a] = Content(i, a)

\* How the sizes and the fixed addresses are ordered.
LEMMA Sizes ==
  /\ SECTSIZE \in Nat \ {0} /\ ELFHDR \in Nat /\ A20 \in Nat /\ MemSize \in Nat
  /\ SECTSIZE <= ELFHDR /\ ELFHDR <= A20 /\ A20 <= MemSize
<1>1. SECTSIZE * HDRSECTORS \in Nat  BY BootAssumption
<1> QED BY <1>1, BootAssumption

\* What is known of the header and of every segment of a linked kernel.
LEMMA PartFacts ==
  ASSUME image \in Images, NEW i \in 0 .. Len(image.segs), i > 0 => image.magic
  PROVE  /\ Part(i) \in Segment /\ End(i) \in Nat /\ End(i) <= MemSize
         /\ Part(i).offset % SECTSIZE = Part(i).pa % SECTSIZE
         /\ ELFHDR <= SectorStart(Part(i).pa)
<1> USE Sizes
<1>1. CASE i = 0
  <2>1. SECTSIZE * HDRSECTORS \in Nat /\ ELFHDR \in Nat  BY BootAssumption
  <2>2. Part(i) = Header /\ Header \in Segment /\ Header.offset = 0 /\ Header.pa = ELFHDR
        /\ Header.memsz = SECTSIZE * HDRSECTORS
    BY <1>1, <2>1 DEF Part, Header, Segment
  <2>3. End(i) \in Nat /\ End(i) <= MemSize  BY <2>1, <2>2, BootAssumption DEF End
  <2>4. ELFHDR <= SectorStart(ELFHDR)  BY BootAssumption, SectorStarts
  <2>5. 0 % SECTSIZE = 0
    <3>1. 0 \in 0 .. SECTSIZE - 1 /\ SECTSIZE * 0 + 0 = 0  OBVIOUS
    <3> QED BY <3>1, DivUnique
  <2>6. ELFHDR % SECTSIZE = 0  BY BootAssumption
  <2> QED BY <2>2, <2>3, <2>4, <2>5, <2>6, Zenon
<1>2. CASE i # 0
  <2>1. image.magic /\ image.segs \in Seq(Segment) /\ Linked(image) /\ Part(i) = image.segs[i]
        /\ i \in DOMAIN image.segs
    BY <1>2, ImagesAssumption, LenProperties DEF Part, Seg
  <2>2. image.segs[i] \in Segment  BY <2>1, LenProperties, ElementOfSeq
  <2> DEFINE s == image.segs[i]
  <2>3. s.offset % SECTSIZE = s.pa % SECTSIZE /\ A20 <= s.pa /\ s.pa + s.memsz <= MemSize
    BY <2>1 DEF Linked
  <2>4. s.pa \in Nat /\ s.memsz \in Nat  BY <2>2 DEF Segment
  <2>5. A20 <= SectorStart(s.pa) /\ SectorStart(s.pa) \in Nat
    BY <2>3, <2>4, BootAssumption, SectorStarts
  <2>6. ELFHDR <= SectorStart(s.pa)
    <3> DEFINE start == SectorStart(s.pa)
    <3> HIDE DEF start
    <3>1. A20 <= start /\ start \in Nat  BY <2>5 DEF start
    <3>2. ELFHDR <= start  BY <3>1
    <3> QED BY <3>2 DEF start
  <2> HIDE DEF s
  <2>7. s.pa + s.memsz \in Nat  BY <2>4, SMT
  <2>8. Part(i) = s /\ End(i) = s.pa + s.memsz  BY <2>1 DEF End, s
  <2>9. s \in Segment  BY <2>2 DEF s
  <2> QED BY <2>3, <2>6, <2>7, <2>8, <2>9, Zenon
<1> QED BY <1>1, <1>2

\* Each part ends before the sector the next one begins in.
LEMMA PartsApart ==
  ASSUME image \in Images, image.magic,
         NEW i \in 0 .. Len(image.segs), NEW j \in 0 .. Len(image.segs), i < j
  PROVE  End(i) <= SectorStart(Part(j).pa)
<1> USE BootAssumption
<1>1. image.segs \in Seq(Segment) /\ Linked(image) /\ Part(j) = image.segs[j]
      /\ j \in DOMAIN image.segs
  BY ImagesAssumption, LenProperties DEF Part, Seg
<1>2. CASE i = 0
  <2>1. image.segs[j] \in Segment  BY <1>1, LenProperties, ElementOfSeq
  <2>2. Part(j).pa \in Nat /\ A20 <= Part(j).pa  BY <1>1, <2>1 DEF Segment, Linked
  <2>3. A20 <= SectorStart(Part(j).pa) /\ SectorStart(Part(j).pa) \in Nat
    BY <2>2, SectorStarts
  <2>4. SECTSIZE * HDRSECTORS \in Nat /\ End(i) = ELFHDR + SECTSIZE * HDRSECTORS
    BY <1>2 DEF End, Part, Header
  <2>5. End(i) <= A20  BY <2>4
  <2> QED BY <2>3, <2>4, <2>5
<1>3. CASE i # 0
  <2>1. Part(i) = image.segs[i] /\ i \in DOMAIN image.segs  BY <1>1, <1>3, LenProperties DEF Part, Seg
  <2> QED BY <1>1, <2>1 DEF Linked, End
<1> QED BY <1>2, <1>3

\* With the address line let through, and below it in any case.
LEMMA PhysicalIs ==
  ASSUME NEW a \in Nat, a20
  PROVE  Physical(a) = a
BY DEF Physical

\* A byte of a sector of the file.
LEMMA DiskByteIs ==
  ASSUME NEW sect \in Nat \ {0}, NEW i \in Nat
  PROVE  DiskByte(sect, i) = FileByte((sect - 1) * SECTSIZE + i)
BY DEF DiskByte, FileByte

-----------------------------------------------------------------------------
(* The invariant *)

Values == Nat \cup {Zero, Junk, BootCode}
InitCode == {"i386_init", "cons_init", "print", "monitor"}
Initialized == {"cons_init", "print", "monitor"}

Types ==
  /\ image \in Images
  /\ mem \in [0 .. MemSize - 1 -> Values]
  /\ a20 \in BOOLEAN /\ paging \in BOOLEAN
  /\ kbc \in [full : BOOLEAN, byte : {"other", "0xd1", "0xdf"}, expecting : BOOLEAN]
  /\ disk \in [ready : BOOLEAN, sect : Nat]
  /\ pc \in {"a20_command", "a20_data", "real_mode", "bad"} \cup Loading \cup InKernel
  /\ rd \in [pa : 0 .. MemSize, end_pa : 0 .. MemSize, offset : Nat]
  /\ ph \in 0 .. Len(image.segs) /\ todo \in 0 .. Greeting + 1

\* Address line 20 is on its way when boot.S goes on, and let through when the
\* disk first answers.
Gate ==
  /\ pc = "a20_data" => IF kbc.full THEN kbc.byte = "0xd1" ELSE kbc.expecting
  /\ pc \notin {"a20_command", "a20_data"} =>
       a20 \/ (kbc.full /\ kbc.byte = "0xdf" /\ kbc.expecting)
  /\ pc = "insl" /\ disk.ready => a20
  /\ pc \in Loading /\ (ph > 0 \/ rd.pa > ELFHDR) => a20
  /\ pc \in InKernel => a20

\* Where readseg is in the part it reads, in memory and in the file.
Reading ==
  /\ pc \in {"a20_command", "a20_data", "real_mode"} => ph = 0
  /\ pc \in Loading =>
       /\ ph > 0 => image.magic
       /\ rd.pa % SECTSIZE = 0 /\ SectorStart(Part(ph).pa) <= rd.pa /\ rd.end_pa = End(ph)
       /\ rd.offset >= 1
       /\ (rd.offset - 1) * SECTSIZE + Part(ph).pa = rd.pa + Part(ph).offset
       /\ pc = "insl" => disk.sect = rd.offset /\ rd.pa < rd.end_pa

InPlace ==
  \A i \in Segments : \A k \in 0 .. Seg(i).filesz - 1 : mem[Seg(i).pa + k] = Seg(i).offset + k

BssZero ==
  \A a \in Data.pa + Data.filesz .. (Data.pa + Data.memsz) - 1 : mem[a] = Zero

\* The parts read so far are in memory, and the loader still is.
Loaded ==
  /\ pc \notin InKernel \cup {"bad"} => \A a \in 0 .. SECTSIZE - 1 : mem[a] = BootCode
  /\ pc \in Loading => ReadUpTo(ph, rd.pa) /\ \A i \in 0 .. ph - 1 : ReadUpTo(i, End(i))
  /\ pc \in InKernel => image.magic /\ InPlace
  /\ pc \in Initialized => BssZero

\* The instructions of the kernel, one after the other.
Running ==
  /\ (pc \in InKernel => pc = "entry") => ~paging
  /\ pc = "entry" => eip = RELOC(image.entry)
  /\ pc = "low" => paging /\ eip = RELOC(image.entry) + 1
  /\ pc = "relocated" => paging /\ eip = image.entry + 2
  /\ pc \in InitCode => paging /\ eip = image.i386_init

BootInv == Types /\ Gate /\ Reading /\ Loaded /\ Running

-----------------------------------------------------------------------------
(* The beginning *)

\* The invariant holds when the BIOS jumps to the boot sector.
LEMMA InitBootInv == Init => BootInv
<1> SUFFICES ASSUME Init PROVE BootInv  OBVIOUS
<1> USE BootAssumption
<1>1. /\ image \in Images /\ a20 \in BOOLEAN /\ pc = "a20_command" /\ paging = FALSE
      /\ mem = [a \in 0 .. MemSize - 1 |-> IF a < SECTSIZE THEN BootCode ELSE Junk]
      /\ kbc \in [full : BOOLEAN, byte : {"other"}, expecting : {FALSE}]
      /\ disk \in [ready : BOOLEAN, sect : {0}]
      /\ rd = [pa |-> 0, end_pa |-> 0, offset |-> 0] /\ ph = 0 /\ todo = 0
  BY DEF Init
<1>2. mem \in [0 .. MemSize - 1 -> Values]  BY <1>1 DEF Values
<1>3. SECTSIZE <= MemSize
  <2>1. SECTSIZE * HDRSECTORS \in Nat  OBVIOUS
  <2> QED BY <2>1
<1>4. \A a \in 0 .. SECTSIZE - 1 : mem[a] = BootCode  BY <1>1, <1>3
<1>5. Len(image.segs) \in Nat  BY <1>1, ImagesAssumption, LenProperties
<1>6. Types
  <2>1. kbc \in [full : BOOLEAN, byte : {"other", "0xd1", "0xdf"}, expecting : BOOLEAN]  BY <1>1
  <2>2. disk \in [ready : BOOLEAN, sect : Nat]  BY <1>1
  <2>3. rd \in [pa : 0 .. MemSize, end_pa : 0 .. MemSize, offset : Nat]  BY <1>1
  <2>4. ph \in 0 .. Len(image.segs) /\ todo \in 0 .. Greeting + 1  BY <1>1, <1>5
  <2> QED BY <1>1, <1>2, <2>1, <2>2, <2>3, <2>4 DEF Types
<1>7. Gate /\ Reading /\ Running
  BY <1>1 DEF Gate, Reading, Running, Loading, InKernel, InitCode
<1>8. Loaded  BY <1>1, <1>4 DEF Loaded, Loading, InKernel, Initialized
<1> QED BY <1>6, <1>7, <1>8 DEF BootInv

-----------------------------------------------------------------------------
(* The devices and the boot sector *)

\* What a step leaves alone that keeps the memory, the reading and the kernel.
LEMMA RestKept ==
  ASSUME Loaded, Reading, Running,
         UNCHANGED <<image, mem, rd, ph, eip, paging, disk>>,
         UNCHANGED pc \/ (pc' = "bad" /\ pc \in Loading)
  PROVE  Loaded' /\ Reading' /\ Running'
<1>1. CASE pc' = "bad" /\ pc \in Loading
  <2>1. Loaded' /\ Reading'  BY <1>1 DEF Loaded, Reading, Loading, InKernel, Initialized
  <2>2. ~paging  BY <1>1 DEF Running, Loading, InKernel
  <2> QED BY <1>1, <2>1, <2>2 DEF Running, InKernel, InitCode
<1>2. CASE UNCHANGED pc
  <2>1. Loaded'
    BY <1>2 DEF Loaded, ReadUpTo, Content, FileByte, Part, End, Seg, InPlace, BssZero, Data, Segments
  <2>2. Reading'
    BY <1>2 DEF Reading, End, Part, Seg, Loading
  <2>3. Running'  BY <1>2 DEF Running
  <2> QED BY <2>1, <2>2, <2>3
<1> QED BY <1>1, <1>2

\* readseg begins at the first sector of part i, in memory and in the file.
Starts(i) ==
  /\ rd' \in [pa : 0 .. MemSize, end_pa : 0 .. MemSize, offset : Nat]
  /\ rd'.pa = SectorStart(Part(i).pa) /\ rd'.pa % SECTSIZE = 0 /\ rd'.end_pa = End(i)
  /\ rd'.offset >= 1
  /\ (rd'.offset - 1) * SECTSIZE + Part(i).pa = rd'.pa + Part(i).offset

\* Rounding down to a sector goes as far back in memory as in the file.
LEMMA SegmentStarts ==
  ASSUME Types, NEW i \in 0 .. Len(image.segs), i > 0 => image.magic,
         readseg(Part(i).pa, Part(i).memsz, Part(i).offset)
  PROVE  Starts(i)
<1> USE BootAssumption
<1> DEFINE pa == Part(i).pa
           off == Part(i).offset
           q == off \div SECTSIZE
<1>1. /\ Part(i) \in Segment /\ End(i) \in Nat /\ End(i) <= MemSize
      /\ off % SECTSIZE = pa % SECTSIZE
  BY PartFacts DEF Types
<1>2. pa \in Nat /\ off \in Nat /\ Part(i).memsz \in Nat  BY <1>1 DEF Segment
<1>3. End(i) = pa + Part(i).memsz /\ pa <= MemSize  BY <1>1, <1>2 DEF End
<1>4. rd' = [pa |-> SectorStart(pa), end_pa |-> End(i), offset |-> q + 1]
  BY <1>3 DEF readseg
<1>5. q \in Nat /\ off % SECTSIZE \in Nat /\ off = SECTSIZE * q + (off % SECTSIZE)
  <2>1. SECTSIZE \in Nat \ {0} /\ off \in Nat  BY <1>2
  <2> HIDE DEF off
  <2>2. q \in Nat /\ off % SECTSIZE \in 0 .. SECTSIZE - 1 /\ off = SECTSIZE * q + (off % SECTSIZE)
    BY <2>1, DivMod
  <2> HIDE DEF q
  <2> QED BY <2>1, <2>2
<1>6. SectorStart(pa) \in Nat /\ SectorStart(pa) % SECTSIZE = 0 /\ SectorStart(pa) <= pa
  BY <1>2, SectorStarts
<1>7. SectorStart(pa) = pa - (off % SECTSIZE)  BY <1>1 DEF SectorStart
<1> HIDE DEF pa, off, q
<1>8. (rd'.offset - 1) * SECTSIZE = SECTSIZE * q
  <2>1. rd'.offset = q + 1 /\ q \in Nat  BY <1>4, <1>5
  <2>2. (q + 1) - 1 = q  BY <2>1
  <2>3. q * SECTSIZE = SECTSIZE * q  BY <2>1, Sizes
  <2> QED BY <2>1, <2>2, <2>3, Zenon
<1>9. (rd'.offset - 1) * SECTSIZE + pa = rd'.pa + off
  <2> DEFINE m == SECTSIZE * q
  <2>1. m \in Nat /\ off = m + (off % SECTSIZE)  BY <1>5
  <2> HIDE DEF m
  <2>2. m + pa = (pa - (off % SECTSIZE)) + off  BY <1>2, <1>5, <2>1
  <2> QED BY <1>4, <1>7, <1>8, <2>2 DEF m
<1>10. rd' \in [pa : 0 .. MemSize, end_pa : 0 .. MemSize, offset : Nat]
  <2>1. SectorStart(pa) \in 0 .. MemSize  BY <1>2, <1>3, <1>6, Sizes
  <2>2. End(i) \in 0 .. MemSize /\ q + 1 \in Nat  BY <1>1, <1>5
  <2> QED BY <1>4, <2>1, <2>2
<1>11. rd'.pa = SectorStart(pa) /\ rd'.end_pa = End(i) /\ rd'.offset >= 1  BY <1>4, <1>5
<1> QED BY <1>6, <1>9, <1>10, <1>11 DEF Starts, pa, off

\* The keyboard controller and the disk.
LEMMA DeviceStep ==
  ASSUME BootInv, KbcTakes \/ DiskReady
  PROVE  BootInv'
<1>1. Types /\ Gate /\ Loaded /\ Reading /\ Running  BY DEF BootInv
<1>2. CASE KbcTakes
  <2>1. /\ kbc.full
        /\ kbc' = [kbc EXCEPT !.full = FALSE, !.expecting = (kbc.byte = "0xd1")]
        /\ a20' = (a20 \/ (kbc.expecting /\ kbc.byte = "0xdf"))
        /\ UNCHANGED <<image, mem, disk, pc, eip, paging, rd, ph, todo>>
    BY <1>2 DEF KbcTakes
  <2>2. kbc' \in [full : BOOLEAN, byte : {"other", "0xd1", "0xdf"}, expecting : BOOLEAN]
        /\ a20' \in BOOLEAN
    BY <1>1, <2>1 DEF Types
  <2>3. Types'  BY <1>1, <2>1, <2>2 DEF Types
  <2>4. Gate'
    <3>1. kbc' = [full |-> FALSE, byte |-> kbc.byte, expecting |-> (kbc.byte = "0xd1")]
      BY <1>1, <2>1 DEF Types
    <3> QED BY <1>1, <2>1, <3>1 DEF Gate
  <2> QED BY <1>1, <2>1, <2>3, <2>4, RestKept DEF BootInv
<1>3. CASE DiskReady
  <2>1. /\ ~disk.ready /\ ~kbc.full /\ disk' = [disk EXCEPT !.ready = TRUE]
        /\ UNCHANGED <<image, mem, a20, kbc, pc, eip, paging, rd, ph, todo>>
    BY <1>3 DEF DiskReady
  <2>2. disk' = [ready |-> TRUE, sect |-> disk.sect] /\ disk' \in [ready : BOOLEAN, sect : Nat]
    BY <1>1, <2>1 DEF Types
  <2>3. Types'  BY <1>1, <2>1, <2>2 DEF Types
  <2>4. Gate'  BY <1>1, <2>1 DEF Gate
  <2>5. Reading'
    BY <1>1, <2>1, <2>2 DEF Reading, End, Part, Seg, Loading
  <2>6. Loaded'
    BY <1>1, <2>1 DEF Loaded, ReadUpTo, Content, FileByte, Part, End, Seg, InPlace, BssZero, Data, Segments
  <2>7. Running'  BY <1>1, <2>1 DEF Running
  <2> QED BY <2>3, <2>4, <2>5, <2>6, <2>7 DEF BootInv
<1> QED BY <1>2, <1>3

\* Enabling address line 20, up to the jump into bootmain.
LEMMA BootSectorStep ==
  ASSUME BootInv, BootSector
  PROVE  BootInv'
<1> USE BootAssumption
<1>1. Types /\ Gate /\ Loaded /\ Reading /\ Running  BY DEF BootInv
<1>2. ASSUME NEW from \in {"a20_command", "a20_data"}, NEW byte \in {"0xd1", "0xdf"},
             NEW to \in {"a20_data", "real_mode"}, SendToKbc(from, byte, to), ~kbc.full,
             (from = "a20_command" /\ byte = "0xd1" /\ to = "a20_data")
             \/ (from = "a20_data" /\ byte = "0xdf" /\ to = "real_mode")
      PROVE  BootInv'
  <2>1. /\ pc = from /\ pc' = to /\ kbc' = [kbc EXCEPT !.full = TRUE, !.byte = byte]
        /\ UNCHANGED <<image, mem, a20, disk, eip, paging, rd, ph, todo>>
    BY <1>2 DEF SendToKbc
  <2>2. kbc' = [full |-> TRUE, byte |-> byte, expecting |-> kbc.expecting]
        /\ kbc' \in [full : BOOLEAN, byte : {"other", "0xd1", "0xdf"}, expecting : BOOLEAN]
    BY <1>1, <2>1 DEF Types
  <2>3. Types'  BY <1>1, <2>1, <2>2 DEF Types
  <2>4. Gate'  BY <1>1, <1>2, <2>1, <2>2 DEF Gate, Loading, InKernel
  <2>5. Reading'  BY <1>1, <1>2, <2>1 DEF Reading, Loading
  <2>6. Loaded'  BY <1>1, <1>2, <2>1 DEF Loaded, Loading, InKernel, Initialized
  <2>7. Running'  BY <1>1, <1>2, <2>1 DEF Running, InKernel, InitCode
  <2> QED BY <2>3, <2>4, <2>5, <2>6, <2>7 DEF BootInv
<1>3. CASE seta20_1  BY <1>2, <1>3 DEF seta20_1
<1>4. CASE seta20_2  BY <1>2, <1>4 DEF seta20_2
<1>5. CASE protcseg
  <2>1. /\ pc = "real_mode" /\ pc' = "readseg"
        /\ readseg(ELFHDR, SECTSIZE * HDRSECTORS, 0)
        /\ UNCHANGED <<image, mem, a20, kbc, disk, eip, paging, ph, todo>>
    BY <1>5 DEF protcseg
  <2>2. Part(0).pa = ELFHDR /\ Part(0).memsz = SECTSIZE * HDRSECTORS /\ Part(0).offset = 0
        /\ 0 \in 0 .. Len(image.segs) /\ ph = 0
    <3>1. ph = 0  BY <1>1, <2>1 DEF Reading
    <3> QED BY <1>1, <3>1 DEF Types, Part, Header
  <2>3. Starts(0)  BY <1>1, <2>1, <2>2, SegmentStarts
  <2>4. Part(0)' = Part(0) /\ End(0)' = End(0)  BY DEF Part, End, Header
  <2>5. Types'  BY <1>1, <2>1, <2>3 DEF Types, Loading, Starts
  <2>6. Gate'
    <3>1. SectorStart(ELFHDR) <= ELFHDR  BY SectorStarts
    <3>2. rd'.pa = SectorStart(ELFHDR)  BY <2>2, <2>3 DEF Starts
    <3>3. SectorStart(ELFHDR) \in Nat  BY SectorStarts
    <3> QED BY <1>1, <2>1, <2>2, <3>1, <3>2, <3>3 DEF Gate, Loading, InKernel
  <2>7. Reading'
    <3>1. (ph > 0)' = FALSE  BY <2>1, <2>2
    <3> QED BY <2>1, <2>2, <2>3, <2>4, <3>1 DEF Reading, Starts
  <2>8. Loaded'
    <3>1. ReadUpTo(ph, rd.pa)'  BY <2>1, <2>2, <2>3, <2>4 DEF ReadUpTo, Starts
    <3> QED BY <1>1, <2>1, <2>2, <3>1 DEF Loaded, Loading, InKernel, Initialized
  <2>9. Running'  BY <1>1, <2>1 DEF Running, InKernel, InitCode
  <2> QED BY <2>5, <2>6, <2>7, <2>8, <2>9 DEF BootInv
<1> QED BY <1>3, <1>4, <1>5 DEF BootSector

-----------------------------------------------------------------------------
(* The boot loader *)

\* The step that asks for a sector.
LEMMA ReadsectStep ==
  ASSUME BootInv, readsect
  PROVE  BootInv'
<1>1. Types /\ Gate /\ Loaded /\ Reading /\ Running  BY DEF BootInv
<1>2. /\ pc = "readseg" /\ pc' = "insl" /\ rd.pa < rd.end_pa
      /\ disk' = [ready |-> FALSE, sect |-> rd.offset]
      /\ UNCHANGED <<image, mem, a20, kbc, eip, paging, rd, ph, todo>>
  BY DEF readsect
<1>3. Types'
  <2>1. disk' \in [ready : BOOLEAN, sect : Nat]  BY <1>1, <1>2 DEF Types
  <2> QED BY <1>1, <1>2, <2>1 DEF Types, Loading
<1>4. Gate'  BY <1>1, <1>2 DEF Gate, Loading, InKernel
<1>5. Reading'
  <2>1. disk'.sect = rd.offset  BY <1>2
  <2> QED BY <1>1, <1>2, <2>1 DEF Reading, End, Part, Seg, Loading
<1>6. Loaded'
  BY <1>1, <1>2 DEF Loaded, ReadUpTo, Content, FileByte, Part, End, Seg, Loading, InKernel, Initialized
<1>7. Running'  BY <1>1, <1>2 DEF Running, InKernel, InitCode
<1> QED BY <1>3, <1>4, <1>5, <1>6, <1>7 DEF BootInv

\* The byte of sector n that goes to address a: as far into the file as a is
\* from the address x that goes with offset y.
LEMMA SectorByte ==
  ASSUME NEW n \in Nat \ {0}, NEW r \in Nat, NEW x \in Nat, NEW y \in Nat,
         r % SECTSIZE = 0, (n - 1) * SECTSIZE + x = r + y,
         NEW a \in r .. r + SECTSIZE - 1
  PROVE  /\ DiskByte(n, a % SECTSIZE) = FileByte(y + (a - x))
         /\ FileByte(y + (a - x)) \in Values
<1> DEFINE i == a - r
           m == (n - 1) * SECTSIZE
<1>1. SECTSIZE \in Nat \ {0}  BY BootAssumption
<1>2. i \in 0 .. SECTSIZE - 1 /\ a = r + i /\ i \in Nat  BY <1>1
<1>3. m \in Nat  BY <1>1, SectorsBefore
<1>4. a % SECTSIZE = i
  <2>1. \A k \in 0 .. SECTSIZE - 1 : (r + k) % SECTSIZE = k  BY <1>1, NextMultiple
  <2> HIDE DEF i
  <2> QED BY <1>2, <2>1
<1>5. DiskByte(n, i) = FileByte(m + i)  BY <1>2, DiskByteIs
<1>6. m + x = r + y  OBVIOUS
<1> HIDE DEF m, i
<1>7. m + i = y + (a - x)  BY <1>2, <1>3, <1>6
<1>8. m + i \in Nat  BY <1>2, <1>3
<1>9. FileByte(m + i) \in Values  BY <1>8 DEF FileByte, Values
<1> QED BY <1>4, <1>5, <1>7, <1>9

\* The step that takes one: the bytes of the part that is read go to the
\* sector's own addresses, and nothing else changes.
LEMMA SectorTaken ==
  ASSUME BootInv, insl
  PROVE  /\ a20 /\ rd.pa + SECTSIZE <= MemSize
         /\ \A a \in 0 .. MemSize - 1 :
              mem'[a] = IF a \in rd.pa .. rd.pa + SECTSIZE - 1 THEN Content(ph, a) ELSE mem[a]
         /\ mem' \in [0 .. MemSize - 1 -> Values]
<1> USE BootAssumption
<1>1. Types /\ Gate /\ Reading  BY DEF BootInv
<1>2. /\ pc = "insl" /\ disk.ready
      /\ mem' = [a \in DOMAIN mem |->
                   IF a \in Sector(rd.pa) THEN DiskByte(disk.sect, a % SECTSIZE) ELSE mem[a]]
  BY DEF insl
<1>3. a20  BY <1>1, <1>2 DEF Gate
<1>4. /\ rd.pa \in Nat /\ rd.end_pa \in Nat /\ rd.end_pa <= MemSize /\ rd.offset \in Nat \ {0}
      /\ rd.pa % SECTSIZE = 0 /\ rd.pa < rd.end_pa /\ disk.sect = rd.offset
      /\ SectorStart(Part(ph).pa) <= rd.pa
      /\ (rd.offset - 1) * SECTSIZE + Part(ph).pa = rd.pa + Part(ph).offset
      /\ ph > 0 => image.magic
  BY <1>1, <1>2 DEF Types, Reading, Loading
<1>5. rd.pa + SECTSIZE <= MemSize  BY <1>4, Multiples
<1>6. Sector(rd.pa) = rd.pa .. rd.pa + SECTSIZE - 1
  <2>1. \A i \in 0 .. SECTSIZE - 1 : Physical(rd.pa + i) = rd.pa + i
    BY <1>3, <1>4, PhysicalIs
  <2>2. Sector(rd.pa) = {rd.pa + i : i \in 0 .. SECTSIZE - 1}  BY <2>1 DEF Sector
  <2>3. ASSUME NEW a \in rd.pa .. rd.pa + SECTSIZE - 1
        PROVE  \E i \in 0 .. SECTSIZE - 1 : a = rd.pa + i
    <3>1. a - rd.pa \in 0 .. SECTSIZE - 1 /\ a = rd.pa + (a - rd.pa)  BY <1>4
    <3> QED BY <3>1
  <2>4. \A i \in 0 .. SECTSIZE - 1 : rd.pa + i \in rd.pa .. rd.pa + SECTSIZE - 1  BY <1>4
  <2> QED BY <2>2, <2>3, <2>4
<1>7. ph \in 0 .. Len(image.segs) /\ image \in Images  BY <1>1 DEF Types
<1>8. Part(ph).pa \in Nat /\ Part(ph).offset \in Nat  BY <1>4, <1>7, PartFacts DEF Segment
<1>9. ASSUME NEW a \in rd.pa .. rd.pa + SECTSIZE - 1
      PROVE  DiskByte(disk.sect, a % SECTSIZE) = Content(ph, a) /\ Content(ph, a) \in Values
  <2> DEFINE x == Part(ph).pa
             y == Part(ph).offset
  <2>1. x \in Nat /\ y \in Nat /\ (rd.offset - 1) * SECTSIZE + x = rd.pa + y  BY <1>4, <1>8
  <2> HIDE DEF x, y
  <2>2. /\ DiskByte(rd.offset, a % SECTSIZE) = FileByte(y + (a - x))
        /\ FileByte(y + (a - x)) \in Values
    BY <1>4, <2>1, SectorByte
  <2> QED BY <1>4, <2>2 DEF Content, x, y
<1>10. DOMAIN mem = 0 .. MemSize - 1 /\ \A a \in 0 .. MemSize - 1 : mem[a] \in Values
  BY <1>1 DEF Types
<1>11. mem' = [a \in 0 .. MemSize - 1 |->
                 IF a \in rd.pa .. rd.pa + SECTSIZE - 1
                 THEN DiskByte(disk.sect, a % SECTSIZE) ELSE mem[a]]
  BY <1>2, <1>6, <1>10
<1>12. \A a \in 0 .. MemSize - 1 :
         mem'[a] = IF a \in rd.pa .. rd.pa + SECTSIZE - 1 THEN Content(ph, a) ELSE mem[a]
  BY <1>9, <1>11
<1>13. mem' \in [0 .. MemSize - 1 -> Values]
  <2>1. mem' = [a \in 0 .. MemSize - 1 |-> mem'[a]]  BY <1>11
  <2>2. \A a \in 0 .. MemSize - 1 : mem'[a] \in Values  BY <1>9, <1>10, <1>12
  <2> QED BY <2>1, <2>2
<1> QED BY <1>3, <1>5, <1>12, <1>13

\* One more sector of the part is in memory; the loader and the parts before it
\* lie below.
LEMMA InslStep ==
  ASSUME BootInv, insl
  PROVE  BootInv'
<1> USE Sizes
<1>1. Types /\ Gate /\ Loaded /\ Reading /\ Running  BY DEF BootInv
<1>2. /\ pc = "insl" /\ pc' = "readseg"
      /\ rd' = [rd EXCEPT !.pa = @ + SECTSIZE, !.offset = @ + 1]
      /\ UNCHANGED <<image, a20, kbc, disk, eip, paging, ph, todo>>
  BY DEF insl
<1>3. /\ a20 /\ rd.pa + SECTSIZE <= MemSize
      /\ \A a \in 0 .. MemSize - 1 :
           mem'[a] = IF a \in rd.pa .. rd.pa + SECTSIZE - 1 THEN Content(ph, a) ELSE mem[a]
      /\ mem' \in [0 .. MemSize - 1 -> Values]
  BY SectorTaken
<1>4. /\ rd.pa \in Nat /\ rd.offset \in Nat \ {0} /\ rd.pa % SECTSIZE = 0
      /\ rd.end_pa \in 0 .. MemSize /\ rd.end_pa = End(ph)
      /\ SectorStart(Part(ph).pa) <= rd.pa
      /\ (rd.offset - 1) * SECTSIZE + Part(ph).pa = rd.pa + Part(ph).offset
      /\ ph > 0 => image.magic
      /\ ph \in 0 .. Len(image.segs) /\ image \in Images
  BY <1>1, <1>2 DEF Types, Reading, Loading
<1>5. rd' = [pa |-> rd.pa + SECTSIZE, end_pa |-> rd.end_pa, offset |-> rd.offset + 1]
  BY <1>1, <1>2 DEF Types
<1>6. /\ Part(ph).pa \in Nat /\ Part(ph).offset \in Nat /\ ELFHDR <= SectorStart(Part(ph).pa)
      /\ SectorStart(Part(ph).pa) \in Nat
  BY <1>4, PartFacts, SectorStarts DEF Segment
<1> DEFINE lo == SectorStart(Part(ph).pa)
<1>7. /\ lo \in Nat /\ ELFHDR <= lo /\ lo <= rd.pa
       /\ rd.pa \in Nat /\ rd.offset \in Nat \ {0} /\ rd.pa + SECTSIZE <= MemSize
  BY <1>3, <1>4, <1>6
<1> HIDE DEF lo
<1>8. Types'
  <2>1. rd' \in [pa : 0 .. MemSize, end_pa : 0 .. MemSize, offset : Nat]
    <3>1. rd.pa + SECTSIZE \in 0 .. MemSize /\ rd.offset + 1 \in Nat  BY <1>7
    <3> QED BY <1>4, <1>5, <3>1
  <2> QED BY <1>1, <1>2, <1>3, <2>1 DEF Types, Loading
<1>9. Gate'  BY <1>1, <1>2, <1>3 DEF Gate, Loading, InKernel
<1>10. \A i : Part(i)' = Part(i) /\ End(i)' = End(i) /\ \A a : Content(i, a)' = Content(i, a)
  BY <1>2 DEF Part, Seg, End, Content, FileByte
<1>11. Reading'
  <2>1. rd'.pa % SECTSIZE = 0  BY <1>4, <1>5, NextMultiple
  <2> DEFINE m == (rd.offset - 1) * SECTSIZE
  <2>2. m \in Nat /\ (rd'.offset - 1) * SECTSIZE = m + SECTSIZE
    <3>1. rd'.offset = rd.offset + 1  BY <1>5
    <3>2. m \in Nat /\ ((rd.offset + 1) - 1) * SECTSIZE = m + SECTSIZE
      BY <1>7, SectorsBefore
    <3> QED BY <3>1, <3>2, Zenon
  <2>3. m + Part(ph).pa = rd.pa + Part(ph).offset /\ rd.pa \in Nat  BY <1>4
  <2> HIDE DEF m
  <2>4. (rd'.offset - 1) * SECTSIZE + Part(ph).pa = rd'.pa + Part(ph).offset
    <3>1. (m + SECTSIZE) + Part(ph).pa = (rd.pa + SECTSIZE) + Part(ph).offset
      BY <1>6, <2>2, <2>3
    <3> QED BY <1>5, <2>2, <3>1
  <2>5. SectorStart(Part(ph).pa) <= rd'.pa /\ rd'.offset >= 1 /\ rd'.end_pa = End(ph)
    <3>1. lo <= rd.pa + SECTSIZE /\ rd.offset + 1 >= 1  BY <1>7
    <3> QED BY <1>4, <1>5, <3>1 DEF lo
  <2> QED BY <1>2, <1>4, <1>10, <2>1, <2>4, <2>5 DEF Reading, Loading
<1>12. \A a \in 0 .. SECTSIZE - 1 : mem'[a] = BootCode
  <2> SUFFICES ASSUME NEW a \in 0 .. SECTSIZE - 1 PROVE mem'[a] = BootCode  OBVIOUS
  <2>1. a \in 0 .. MemSize - 1 /\ a < rd.pa  BY <1>7
  <2>2. mem'[a] = mem[a]  BY <1>3, <1>4, <2>1
  <2> QED BY <1>1, <1>2, <2>2 DEF Loaded, InKernel
<1>13. ReadUpTo(ph, rd.pa)'
  <2> SUFFICES ASSUME NEW a \in lo .. (rd.pa + SECTSIZE) - 1
               PROVE  mem'[a] = Content(ph, a)
    <3>1. ph' = ph /\ rd'.pa = rd.pa + SECTSIZE  BY <1>2, <1>5
    <3> QED BY <1>10, <3>1 DEF ReadUpTo, lo
  <2>1. a \in 0 .. MemSize - 1  BY <1>7
  <2>2. CASE a >= rd.pa
    <3>1. a \in rd.pa .. rd.pa + SECTSIZE - 1  BY <1>7, <2>2
    <3> QED BY <1>3, <2>1, <3>1
  <2>3. CASE a < rd.pa
    <3>1. a \in lo .. rd.pa - 1 /\ a \notin rd.pa .. rd.pa + SECTSIZE - 1
      BY <1>7, <2>3
    <3>2. mem'[a] = mem[a]  BY <1>3, <2>1, <3>1
    <3>3. ReadUpTo(ph, rd.pa)  BY <1>1, <1>2 DEF Loaded, Loading
    <3> QED BY <3>1, <3>2, <3>3 DEF ReadUpTo, lo
  <2> QED BY <1>7, <2>2, <2>3
<1>14. ASSUME NEW i \in 0 .. ph - 1 PROVE ReadUpTo(i, End(i))'
  <2>1. i \in 0 .. Len(image.segs) /\ i < ph /\ image.magic  BY <1>4
  <2>2. End(i) <= SectorStart(Part(ph).pa) /\ Part(i).pa \in Nat /\ End(i) \in Nat
    BY <1>4, <2>1, PartsApart, PartFacts DEF Segment
  <2>3. SectorStart(Part(i).pa) \in Nat  BY <2>2, SectorStarts
  <2> SUFFICES ASSUME NEW a \in SectorStart(Part(i).pa) .. End(i) - 1
               PROVE  mem'[a] = Content(i, a)
    BY <1>10 DEF ReadUpTo
  <2>4. a \in 0 .. MemSize - 1 /\ a < rd.pa
    <3> DEFINE start == SectorStart(Part(i).pa)
    <3>1. start \in Nat /\ End(i) <= lo /\ End(i) \in Nat /\ a \in start .. End(i) - 1
      BY <2>2, <2>3 DEF lo
    <3> HIDE DEF start
    <3> QED BY <1>7, <3>1
  <2>5. mem'[a] = mem[a]  BY <1>3, <1>4, <2>4
  <2>6. ReadUpTo(i, End(i))  BY <1>1, <1>2 DEF Loaded, Loading
  <2> QED BY <2>5, <2>6 DEF ReadUpTo
<1>15. Loaded'
  BY <1>2, <1>12, <1>13, <1>14 DEF Loaded, Loading, InKernel, Initialized
<1>16. Running'  BY <1>1, <1>2 DEF Running, InKernel, InitCode
<1> QED BY <1>8, <1>9, <1>11, <1>15, <1>16 DEF BootInv

\* The part that is read is complete.
LEMMA PartRead ==
  ASSUME BootInv, SegmentRead
  PROVE  \A i \in 0 .. ph : ReadUpTo(i, End(i))
<1>1. Types /\ Loaded /\ Reading  BY DEF BootInv
<1>2. pc \in Loading /\ rd.pa >= rd.end_pa  BY DEF SegmentRead, Loading
<1>3. rd.pa \in Nat /\ rd.end_pa \in Nat /\ rd.end_pa = End(ph) /\ (ph > 0 => image.magic)
      /\ ph \in Nat /\ ph \in 0 .. Len(image.segs) /\ image \in Images
  BY <1>1, <1>2 DEF Types, Reading
<1>4. ReadUpTo(ph, rd.pa) /\ \A i \in 0 .. ph - 1 : ReadUpTo(i, End(i))
  BY <1>1, <1>2 DEF Loaded
<1>5. SectorStart(Part(ph).pa) \in Nat  BY <1>3, PartFacts, SectorStarts DEF Segment
<1>6. ReadUpTo(ph, End(ph))  BY <1>2, <1>3, <1>4, <1>5 DEF ReadUpTo
<1> QED BY <1>3, <1>4, <1>6

\* Past the header, so with the address line let through.
LEMMA LineThrough ==
  ASSUME BootInv, SegmentRead
  PROVE  a20
<1> USE BootAssumption
<1>1. Types /\ Gate /\ Reading  BY DEF BootInv
<1>2. pc \in Loading /\ rd.pa >= rd.end_pa  BY DEF SegmentRead, Loading
<1>3. CASE ph > 0  BY <1>1, <1>2, <1>3 DEF Gate
<1>4. CASE ph = 0
  <2>1. rd.end_pa = ELFHDR + SECTSIZE * HDRSECTORS
    BY <1>1, <1>2, <1>4 DEF Reading, End, Part, Header
  <2>2. SECTSIZE * HDRSECTORS > 0
    <3>1. SECTSIZE * 1 <= SECTSIZE * HDRSECTORS  BY Products
    <3> QED BY <3>1
  <2>3. rd.pa > ELFHDR
    <3> DEFINE m == SECTSIZE * HDRSECTORS
    <3>1. m \in Nat /\ m > 0 /\ rd.end_pa = ELFHDR + m  BY <2>1, <2>2
    <3>2. rd.pa \in Nat  BY <1>1 DEF Types
    <3> HIDE DEF m
    <3> QED BY <1>2, <3>1, <3>2
  <2> QED BY <1>1, <1>2, <2>3 DEF Gate
<1> QED BY <1>1, <1>3, <1>4 DEF Types

\* The next part begins where nothing of it has been read.
LEMMA NextSegmentStep ==
  ASSUME BootInv, NextSegment
  PROVE  BootInv'
<1>1. Types /\ Gate /\ Loaded /\ Reading /\ Running  BY DEF BootInv
<1>2. /\ SegmentRead /\ pc = "readseg" /\ ph < Len(image.segs) /\ image.magic
      /\ ph' = ph + 1
      /\ readseg(Seg(ph + 1).pa, Seg(ph + 1).memsz, Seg(ph + 1).offset)
      /\ UNCHANGED <<image, mem, a20, kbc, disk, pc, eip, paging, todo>>
  BY DEF NextSegment, SegmentRead
<1>3. ph \in Nat /\ Len(image.segs) \in Nat /\ ph' \in 0 .. Len(image.segs) /\ ph' = ph + 1
  BY <1>1, <1>2, ImagesAssumption, LenProperties DEF Types
<1>4. Part(ph') = Seg(ph + 1)  BY <1>3 DEF Part
<1>5. Starts(ph')  BY <1>1, <1>2, <1>3, <1>4, SegmentStarts
<1>6. \A i : Part(i)' = Part(i) /\ End(i)' = End(i) /\ \A a : Content(i, a)' = Content(i, a)
  BY <1>2 DEF Part, Seg, End, Content, FileByte
<1>7. a20  BY <1>2, LineThrough
<1>8. Types'  BY <1>1, <1>2, <1>3, <1>5 DEF Types, Starts
<1>9. Gate'  BY <1>1, <1>2, <1>7 DEF Gate
<1>10. Reading'  BY <1>2, <1>5, <1>6 DEF Reading, Starts
<1>11. Loaded'
  <2>1. ReadUpTo(ph, rd.pa)'
    <3>1. rd'.pa = SectorStart(Part(ph').pa) /\ rd'.pa \in Nat  BY <1>5 DEF Starts
    <3>2. SectorStart(Part(ph').pa) .. rd'.pa - 1 = {}  BY <3>1
    <3> QED BY <1>6, <3>2 DEF ReadUpTo
  <2>2. ASSUME NEW i \in 0 .. ph' - 1 PROVE ReadUpTo(i, End(i))'
    <3>1. ReadUpTo(i, End(i))  BY <1>2, <1>3, PartRead
    <3> QED BY <1>2, <1>6, <3>1 DEF ReadUpTo
  <2> QED BY <1>1, <1>2, <2>1, <2>2 DEF Loaded, Loading, InKernel, Initialized
<1>12. Running'  BY <1>1, <1>2 DEF Running
<1> QED BY <1>8, <1>9, <1>10, <1>11, <1>12 DEF BootInv

\* A disk without a kernel.
LEMMA BadStep ==
  ASSUME BootInv, Bad
  PROVE  BootInv'
<1>1. Types /\ Gate /\ Loaded /\ Reading /\ Running  BY DEF BootInv
<1>2. /\ pc = "readseg" /\ pc' = "bad"
      /\ UNCHANGED <<image, mem, a20, kbc, disk, eip, paging, rd, ph, todo>>
  BY DEF Bad, SegmentRead, machine
<1>3. Types'  BY <1>1, <1>2 DEF Types
<1>4. Gate'  BY <1>1, <1>2 DEF Gate, Loading, InKernel
<1>5. pc \in Loading  BY <1>2 DEF Loading
<1> QED BY <1>1, <1>2, <1>3, <1>4, <1>5, RestKept DEF BootInv

\* What the segments hold is in place once they have all been read.
LEMMA EnterKernelStep ==
  ASSUME BootInv, EnterKernel
  PROVE  BootInv'
<1>1. Types /\ Gate /\ Loaded /\ Reading /\ Running  BY DEF BootInv
<1>2. /\ SegmentRead /\ pc = "readseg" /\ ph = Len(image.segs) /\ image.magic
      /\ pc' = "entry" /\ eip' = RELOC(image.entry)
      /\ UNCHANGED <<image, mem, a20, kbc, disk, paging, rd, ph, todo>>
  BY DEF EnterKernel, SegmentRead
<1>3. a20  BY <1>2, LineThrough
<1>4. Types'  BY <1>1, <1>2 DEF Types, Loading, InKernel
<1>5. Gate'  BY <1>1, <1>2, <1>3 DEF Gate, Loading, InKernel
<1>6. Reading'  BY <1>1, <1>2 DEF Reading, Loading
<1>7. InPlace
  <2> SUFFICES ASSUME NEW i \in Segments, NEW k \in 0 .. Seg(i).filesz - 1
               PROVE  mem[Seg(i).pa + k] = Seg(i).offset + k
    BY DEF InPlace
  <2>1. image \in Images /\ image.segs \in Seq(Segment) /\ Linked(image) /\ image.size \in Nat
    BY <1>1, <1>2, ImagesAssumption DEF Types
  <2>2. i \in 0 .. Len(image.segs) /\ i # 0 /\ i \in DOMAIN image.segs /\ i \in 0 .. ph
    BY <1>2, <2>1, LenProperties DEF Segments
  <2>3. Part(i) = Seg(i) /\ Seg(i) = image.segs[i]  BY <2>2 DEF Part, Seg
  <2>4. Seg(i) \in Segment  BY <1>2, <2>1, <2>2, <2>3, PartFacts
  <2> DEFINE pa == Seg(i).pa
             off == Seg(i).offset
  <2>5. pa \in Nat /\ off \in Nat /\ Seg(i).filesz \in Nat /\ Seg(i).memsz \in Nat
        /\ Seg(i).filesz <= Seg(i).memsz /\ off + Seg(i).filesz <= image.size
    BY <2>1, <2>2, <2>3, <2>4 DEF Segment, Linked
  <2>6. SectorStart(pa) \in Nat /\ SectorStart(pa) <= pa  BY <2>5, SectorStarts
  <2>7. End(i) = pa + Seg(i).memsz  BY <2>3 DEF End
  <2>8. ReadUpTo(i, End(i))  BY <1>2, <2>2, PartRead
  <2> HIDE DEF pa, off
  <2>9. pa + k \in SectorStart(pa) .. End(i) - 1  BY <2>5, <2>6, <2>7
  <2>10. mem[pa + k] = FileByte(off + ((pa + k) - pa))
    BY <2>3, <2>8, <2>9 DEF ReadUpTo, Content, pa, off
  <2>11. off + ((pa + k) - pa) = off + k /\ off + k < image.size  BY <2>1, <2>5
  <2> QED BY <2>10, <2>11 DEF FileByte, pa, off
<1>8. InPlace'  BY <1>2, <1>7 DEF InPlace, Seg, Segments
<1>9. Loaded'  BY <1>2, <1>8 DEF Loaded, Loading, InKernel, Initialized
<1>10. Running'  BY <1>1, <1>2 DEF Running, InKernel, InitCode
<1> QED BY <1>4, <1>5, <1>6, <1>9, <1>10 DEF BootInv

-----------------------------------------------------------------------------
(* The kernel *)

\* What a step of the kernel keeps that writes neither the image's memory nor
\* the devices.
LEMMA KernelKept ==
  ASSUME BootInv, UNCHANGED <<image, mem, a20, kbc, disk, rd, ph>>,
         pc \in InKernel, pc' \in InKernel, pc' \in Initialized => pc \in Initialized,
         paging' \in BOOLEAN, todo' \in 0 .. Greeting + 1
  PROVE  Types' /\ Gate' /\ Reading' /\ Loaded'
<1>1. Types /\ Gate /\ Loaded  BY DEF BootInv
<1>2. Types'  BY <1>1 DEF Types
<1>3. Gate'  BY <1>1 DEF Gate, Loading, InKernel
<1>4. Reading'  BY DEF Reading, Loading, InKernel
<1>5. Loaded'
  BY <1>1 DEF Loaded, Loading, InKernel, Initialized, InPlace, BssZero, Seg, Segments, Data
<1> QED BY <1>2, <1>3, <1>4, <1>5

\* The instructions of entry.S.
LEMMA EntryStep ==
  ASSUME BootInv, EnablePaging \/ Relocate \/ CallInit
  PROVE  BootInv'
<1>1. Types /\ Running  BY DEF BootInv
<1>2. paging \in BOOLEAN /\ todo \in 0 .. Greeting + 1  BY <1>1 DEF Types
<1>3. CASE EnablePaging
  <2>1. /\ pc = "entry" /\ pc' = "low" /\ paging' = TRUE /\ eip' = eip + 1
        /\ UNCHANGED <<image, mem, a20, kbc, disk, rd, ph, todo>>
    BY <1>3 DEF EnablePaging
  <2>2. Types' /\ Gate' /\ Reading' /\ Loaded'
    BY <1>2, <2>1, KernelKept DEF InKernel, Initialized
  <2>3. Running'  BY <1>1, <2>1 DEF Running, InKernel, InitCode, RELOC
  <2> QED BY <2>2, <2>3 DEF BootInv
<1>4. CASE Relocate
  <2>1. /\ pc = "low" /\ pc' = "relocated" /\ eip' = image.entry + 2
        /\ UNCHANGED <<image, mem, a20, kbc, disk, paging, rd, ph, todo>>
    BY <1>4 DEF Relocate
  <2>2. Types' /\ Gate' /\ Reading' /\ Loaded'
    BY <1>2, <2>1, KernelKept DEF InKernel, Initialized
  <2>3. Running'  BY <1>1, <2>1 DEF Running, InKernel, InitCode
  <2> QED BY <2>2, <2>3 DEF BootInv
<1>5. CASE CallInit
  <2>1. /\ pc = "relocated" /\ pc' = "i386_init" /\ eip' = image.i386_init
        /\ UNCHANGED <<image, mem, a20, kbc, disk, paging, rd, ph, todo>>
    BY <1>5 DEF CallInit
  <2>2. Types' /\ Gate' /\ Reading' /\ Loaded'
    BY <1>2, <2>1, KernelKept DEF InKernel, Initialized
  <2>3. Running'  BY <1>1, <2>1 DEF Running, InKernel, InitCode
  <2> QED BY <2>2, <2>3 DEF BootInv
<1> QED BY <1>3, <1>4, <1>5

\* The last segment, with the BSS at its end, is mapped at the linked addresses.
LEMMA BssMapped ==
  ASSUME image \in Images, image.magic
  PROVE  /\ Data \in Segment /\ Data.filesz <= Data.memsz
         /\ \A va \in bss_start .. end - 1 :
              /\ Writable(va) /\ Translate(va) = va - KERNBASE
              /\ va - KERNBASE \in Data.pa + Data.filesz .. (Data.pa + Data.memsz) - 1
<1>1. image.segs \in Seq(Segment) /\ Linked(image) /\ image.segs # <<>>
  BY ImagesAssumption DEF Linked
<1>2. Len(image.segs) \in Nat /\ Len(image.segs) > 0  BY <1>1, LenProperties, EmptySeq
<1>3. Len(image.segs) \in DOMAIN image.segs /\ Data = image.segs[Len(image.segs)]
      /\ Data \in Segment
  BY <1>1, <1>2, LenProperties, ElementOfSeq DEF Data, Seg
<1>4. Data.filesz <= Data.memsz /\ Data.pa + Data.memsz <= PTSIZE
  BY <1>1, <1>3 DEF Linked
<1>5. Data.pa \in Nat /\ Data.filesz \in Nat /\ Data.memsz \in Nat  BY <1>3 DEF Segment
<1>6. KERNBASE \in Nat /\ PTSIZE \in Nat  BY TableSizes
<1>7. ASSUME NEW va \in bss_start .. end - 1
      PROVE  /\ Writable(va) /\ Translate(va) = va - KERNBASE
             /\ va - KERNBASE \in Data.pa + Data.filesz .. (Data.pa + Data.memsz) - 1
  <2> DEFINE x == va - KERNBASE
  <2>1. bss_start = KERNBASE + Data.pa + Data.filesz /\ end = KERNBASE + Data.pa + Data.memsz
    BY DEF bss_start, end
  <2>2. x \in 0 .. PTSIZE - 1 /\ va = KERNBASE + x
        /\ x \in Data.pa + Data.filesz .. (Data.pa + Data.memsz) - 1
    BY <1>4, <1>5, <1>6, <2>1
  <2> HIDE DEF x
  <2> QED BY <2>2, TranslateHigh DEF x
<1> QED BY <1>3, <1>4, <1>7

\* memset clears what readseg filled beyond the file, and no more.
LEMMA ClearBssStep ==
  ASSUME BootInv, ClearBss
  PROVE  BootInv'
<1>1. Types /\ Gate /\ Loaded /\ Running  BY DEF BootInv
<1>2. /\ pc = "i386_init" /\ pc' = "cons_init"
      /\ mem' = [a \in DOMAIN mem |->
                   IF \E va \in bss_start .. end - 1 : a = Physical(Translate(va)) THEN Zero ELSE mem[a]]
      /\ UNCHANGED <<image, a20, kbc, disk, eip, paging, rd, ph, todo>>
  BY DEF ClearBss
<1>3. image \in Images /\ image.magic /\ a20 /\ InPlace
      /\ DOMAIN mem = 0 .. MemSize - 1 /\ \A a \in 0 .. MemSize - 1 : mem[a] \in Values
  BY <1>1, <1>2 DEF Types, Loaded, Gate, InKernel
<1> DEFINE lo == Data.pa + Data.filesz
           hi == Data.pa + Data.memsz
<1>4. /\ Data \in Segment /\ Data.filesz <= Data.memsz
      /\ \A va \in bss_start .. end - 1 :
           /\ Writable(va) /\ Translate(va) = va - KERNBASE
           /\ va - KERNBASE \in lo .. hi - 1
  BY <1>3, BssMapped
<1>5. Data.pa \in Nat /\ Data.filesz \in Nat /\ Data.memsz \in Nat /\ KERNBASE \in Nat
      /\ lo \in Nat /\ hi \in Nat /\ lo <= hi
      /\ bss_start = KERNBASE + lo /\ end = KERNBASE + hi
  BY <1>4, TableSizes DEF Segment, bss_start, end
<1> HIDE DEF lo, hi
<1>6. ASSUME NEW a \in 0 .. MemSize - 1
      PROVE  (\E va \in bss_start .. end - 1 : a = Physical(Translate(va))) <=> a \in lo .. hi - 1
  <2>1. ASSUME NEW va \in bss_start .. end - 1 PROVE Physical(Translate(va)) = va - KERNBASE
    <3>1. va - KERNBASE \in Nat  BY <1>4, <1>5
    <3> QED BY <1>3, <1>4, <3>1, PhysicalIs
  <2>2. CASE a \in lo .. hi - 1
    <3>1. KERNBASE + a \in bss_start .. end - 1 /\ (KERNBASE + a) - KERNBASE = a  BY <1>5, <2>2
    <3> QED BY <2>1, <2>2, <3>1
  <2>3. ASSUME NEW va \in bss_start .. end - 1, a = Physical(Translate(va)) PROVE a \in lo .. hi - 1
    BY <1>4, <2>1, <2>3
  <2> QED BY <2>2, <2>3
<1>7. mem' = [a \in 0 .. MemSize - 1 |-> mem'[a]]
      /\ \A a \in 0 .. MemSize - 1 : mem'[a] = IF a \in lo .. hi - 1 THEN Zero ELSE mem[a]
  BY <1>2, <1>3, <1>6
<1>8. mem' \in [0 .. MemSize - 1 -> Values]
  <2>1. \A a \in 0 .. MemSize - 1 : mem'[a] \in Values  BY <1>3, <1>7 DEF Values
  <2> QED BY <1>7, <2>1
<1>9. Types'  BY <1>1, <1>2, <1>8 DEF Types, InKernel, Loading
<1>10. Gate'  BY <1>1, <1>2 DEF Gate, Loading, InKernel
<1>11. Reading'  BY <1>2 DEF Reading, Loading
<1>12. image.segs \in Seq(Segment) /\ Linked(image) /\ Len(image.segs) \in Nat
  BY <1>3, ImagesAssumption, LenProperties
<1>13. InPlace'
  <2> SUFFICES ASSUME NEW i \in Segments, NEW k \in 0 .. Seg(i).filesz - 1
               PROVE  mem'[Seg(i).pa + k] = Seg(i).offset + k
    BY <1>2 DEF InPlace, Segments, Seg
  <2>1. i \in 0 .. Len(image.segs) /\ i # 0 /\ i \in DOMAIN image.segs
    BY <1>12, LenProperties DEF Segments
  <2>2. Part(i) = Seg(i) /\ Seg(i) = image.segs[i]  BY <2>1 DEF Part, Seg
  <2>3. Seg(i) \in Segment /\ End(i) <= MemSize /\ End(i) = Seg(i).pa + Seg(i).memsz
    BY <1>3, <2>1, <2>2, PartFacts DEF End
  <2>4. Seg(i).pa \in Nat /\ Seg(i).filesz \in Nat /\ Seg(i).memsz \in Nat
        /\ Seg(i).filesz <= Seg(i).memsz
    BY <1>12, <2>1, <2>2, <2>3 DEF Segment, Linked
  <2>5. MemSize \in Nat  BY BootAssumption
  <2>6. Seg(i).pa + k \in 0 .. MemSize - 1  BY <2>3, <2>4, <2>5
  <2>7. Seg(i).pa + k \notin lo .. hi - 1
    <3>1. CASE i = Len(image.segs)
      <4>1. Seg(i) = Data  BY <3>1 DEF Data
      <4> QED BY <1>5, <2>4, <4>1 DEF lo
    <3>2. CASE i < Len(image.segs)
      <4>1. Part(Len(image.segs)) = Data /\ Len(image.segs) \in 0 .. Len(image.segs)
        BY <1>12, <2>1, <3>2 DEF Part, Data
      <4>2. End(i) <= SectorStart(Data.pa)  BY <1>3, <2>1, <3>2, <4>1, PartsApart
      <4>3. SectorStart(Data.pa) <= Data.pa /\ SectorStart(Data.pa) \in Nat  BY <1>5, SectorStarts
      <4>4. Data.pa <= lo  BY <1>5 DEF lo
      <4> QED BY <1>5, <2>3, <2>4, <4>2, <4>3, <4>4
    <3> QED BY <1>12, <2>1, <3>1, <3>2
  <2>8. mem[Seg(i).pa + k] = Seg(i).offset + k  BY <1>3 DEF InPlace
  <2> QED BY <1>7, <2>6, <2>7, <2>8
<1>14. BssZero'
  <2>1. hi <= MemSize
    <3>1. Len(image.segs) \in 0 .. Len(image.segs) /\ Len(image.segs) # 0
      BY <1>12, EmptySeq, LenProperties DEF Linked
    <3>2. Part(Len(image.segs)) = Data  BY <3>1 DEF Part, Data
    <3>3. End(Len(image.segs)) <= MemSize  BY <1>3, <3>1, PartFacts
    <3> QED BY <3>2, <3>3 DEF End, hi
  <2>2. \A a \in lo .. hi - 1 : mem'[a] = Zero
    <3>1. MemSize \in Nat  BY BootAssumption
    <3> QED BY <1>5, <1>7, <2>1, <3>1
  <2> QED BY <1>2, <2>2 DEF BssZero, Data, Seg, lo, hi
<1>15. Loaded'  BY <1>2, <1>3, <1>13, <1>14 DEF Loaded, Loading, InKernel, Initialized
<1>16. Running'  BY <1>1, <1>2 DEF Running, InKernel, InitCode
<1> QED BY <1>9, <1>10, <1>11, <1>15, <1>16 DEF BootInv

\* The rest of i386_init.
LEMMA InitStep ==
  ASSUME BootInv, ConsInit \/ cprintf \/ Monitor
  PROVE  BootInv'
<1>1. Types /\ Running  BY DEF BootInv
<1>2. /\ pc \in Initialized /\ pc' \in Initialized /\ todo' \in 0 .. Greeting + 1
      /\ UNCHANGED <<image, mem, a20, kbc, disk, eip, paging, rd, ph>>
  <2>1. todo \in 0 .. Greeting + 1 /\ Greeting \in Nat  BY <1>1, BootAssumption DEF Types
  <2>2. CASE ConsInit  BY <2>1, <2>2 DEF ConsInit, Initialized, machine
  <2>3. CASE cprintf  BY <2>1, <2>3 DEF cprintf, Initialized, machine
  <2>4. CASE Monitor  BY <2>1, <2>4 DEF Monitor, Initialized, machine
  <2> QED BY <2>2, <2>3, <2>4
<1>3. Types' /\ Gate' /\ Reading' /\ Loaded'
  <2>1. paging \in BOOLEAN  BY <1>1 DEF Types
  <2>2. pc \in InKernel /\ pc' \in InKernel  BY <1>2 DEF Initialized, InKernel
  <2> QED BY <1>2, <2>1, <2>2, KernelKept
<1>4. Running'  BY <1>1, <1>2 DEF Running, InKernel, InitCode, Initialized
<1> QED BY <1>3, <1>4 DEF BootInv

-----------------------------------------------------------------------------
(* The system *)

Inv == BootInv /\ ConsoleInv

\* A step that leaves the machine alone keeps the machine's part.
LEMMA BootKept ==
  ASSUME BootInv, UNCHANGED <<image, machine, pc, todo>>
  PROVE  BootInv'
<1>1. Types'  BY DEF BootInv, Types, machine
<1>2. Gate' /\ Running'  BY DEF BootInv, Gate, Running, machine
<1>3. Reading' /\ Loaded'  BY RestKept DEF BootInv, machine
<1> QED BY <1>1, <1>2, <1>3 DEF BootInv

\* And the same of the console.
LEMMA ConsoleKept ==
  ASSUME ConsoleInv, UNCHANGED console
  PROVE  ConsoleInv'
<1>1. UNCHANGED <<putc, uart, printer, screen, gaveup>>  BY DEF console
<1>2. ConsoleTypes'  BY <1>1 DEF ConsoleInv, ConsoleTypes
<1>3. UartTook' = UartTook /\ \A d : Written(d)' = Written(d)  BY <1>1 DEF UartTook, Written
<1> QED BY <1>1, <1>2, <1>3 DEF ConsoleInv, UartAccount, PrinterAccount

\* Every step keeps the invariant.
LEMMA Inductive == Inv /\ [Next]_vars => Inv'
<1> SUFFICES ASSUME Inv, [Next]_vars PROVE Inv'  OBVIOUS
<1>1. BootInv /\ ConsoleInv  BY DEF Inv
<1>2. CASE BootSector
  <2>1. UNCHANGED console
    BY <1>2 DEF BootSector, seta20_1, seta20_2, protcseg, SendToKbc
  <2> QED BY <1>1, <1>2, <2>1, BootSectorStep, ConsoleKept DEF Inv
<1>3. CASE BootMain
  <2>1. UNCHANGED console
    BY <1>3 DEF BootMain, readsect, insl, NextSegment, Bad, EnterKernel
  <2>2. BootInv'
    BY <1>1, <1>3, ReadsectStep, InslStep, NextSegmentStep, BadStep, EnterKernelStep DEF BootMain
  <2> QED BY <1>1, <2>1, <2>2, ConsoleKept DEF Inv
<1>4. CASE Kernel
  <2>1. BootInv'
    BY <1>1, <1>4, EntryStep, ClearBssStep, InitStep DEF Kernel
  <2>2. ConsoleInv'
    <3>1. CASE cprintf
      <4>1. cons_putc \/ Putc  BY <3>1 DEF cprintf
      <4> QED BY <1>1, <4>1, ConsoleStep
    <3>2. CASE ~cprintf
      <4>1. UNCHANGED console
        BY <1>4, <3>2 DEF Kernel, EnablePaging, Relocate, CallInit, ClearBss, ConsInit, Monitor
      <4> QED BY <1>1, <4>1, ConsoleKept
    <3> QED BY <3>1, <3>2
  <2> QED BY <2>1, <2>2 DEF Inv
<1>5. CASE KbcTakes \/ DiskReady
  <2>1. UNCHANGED console  BY <1>5 DEF KbcTakes, DiskReady
  <2> QED BY <1>1, <1>5, <2>1, DeviceStep, ConsoleKept DEF Inv
<1>6. CASE ConsoleDevices
  <2>1. Devices /\ UNCHANGED <<image, machine, pc, todo>>  BY <1>6 DEF ConsoleDevices
  <2> QED BY <1>1, <2>1, BootKept, ConsoleStep DEF Inv
<1>7. CASE UNCHANGED vars
  <2>1. UNCHANGED <<image, machine, pc, todo>> /\ UNCHANGED console  BY <1>7 DEF vars
  <2> QED BY <1>1, <2>1, BootKept, ConsoleKept DEF Inv
<1> QED BY <1>2, <1>3, <1>4, <1>5, <1>6, <1>7 DEF Next, Cpu

\* The invariant, of the specification.
THEOREM Invariance == Spec => []Inv
<1>1. Init => Inv  BY InitBootInv, ConsoleInitInv DEF Inv, Init
<1>2. Inv /\ [Next]_vars => Inv'  BY Inductive
<1> QED BY <1>1, <1>2, PTL DEF Spec

\* The registers, the devices and the memory have the values they can have.
THEOREM TypeCorrect == Spec => []TypeOK
<1>1. Inv => TypeOK
  <2> SUFFICES ASSUME Inv PROVE TypeOK  OBVIOUS
  <2>1. ConsoleTypeOK  BY ConsoleSafe DEF Inv
  <2>2. Types  BY DEF Inv, BootInv
  <2>3. rd.pa \in 0 .. MemSize /\ rd.end_pa \in 0 .. MemSize  BY <2>2 DEF Types
  <2> QED BY <2>1, <2>2, <2>3 DEF Types, TypeOK, Values
<1> QED BY <1>1, Invariance, PTL

\* Loading the kernel overwrites neither the loader nor the header it reads
\* the segments from, whatever the kernel that was linked and however late the
\* devices answer, as long as the keyboard controller takes 0xdf before the
\* disk's first sector comes (DiskReady): boot.S does not wait for that.
THEOREM LoaderSafe == Spec => []LoaderUndisturbed
<1>1. Inv => LoaderUndisturbed
  <2> SUFFICES ASSUME Inv, pc \in Loading PROVE LoaderUndisturbed  BY DEF LoaderUndisturbed
  <2>1. Types /\ Loaded  BY DEF Inv, BootInv
  <2>2. \A a \in 0 .. SECTSIZE - 1 : mem[a] = BootCode
    BY <2>1 DEF Loaded, Loading, InKernel
  <2>3. ASSUME ph > 0, NEW i \in 0 .. SECTSIZE * HDRSECTORS - 1
        PROVE  mem[ELFHDR + i] = DiskByte(1, i)
    <3> DEFINE n == SECTSIZE * HDRSECTORS
    <3>1. SECTSIZE \in Nat \ {0} /\ ELFHDR \in Nat /\ ELFHDR % SECTSIZE = 0 /\ n \in Nat
      BY BootAssumption
    <3>2. ph \in Nat /\ 0 \in 0 .. ph - 1
      <4>1. Len(image.segs) \in Nat  BY <2>1, ImagesAssumption, LenProperties DEF Types
      <4> QED BY <2>1, <2>3, <4>1 DEF Types
    <3>3. ReadUpTo(0, End(0))  BY <2>1, <3>2 DEF Loaded
    <3>4. Part(0).pa = ELFHDR /\ Part(0).offset = 0 /\ End(0) = ELFHDR + n
      BY DEF Part, Header, End
    <3> HIDE DEF n
    <3>5. SectorStart(ELFHDR) = ELFHDR  BY <3>1 DEF SectorStart
    <3>6. i \in 0 .. n - 1 /\ i \in Nat  BY <3>1 DEF n
    <3>7. ELFHDR + i \in ELFHDR .. (ELFHDR + n) - 1  BY <3>1, <3>6
    <3>8. mem[ELFHDR + i] = FileByte(0 + ((ELFHDR + i) - ELFHDR))
      BY <3>3, <3>4, <3>5, <3>7 DEF ReadUpTo, Content
    <3>9. 0 + ((ELFHDR + i) - ELFHDR) = i  BY <3>1, <3>6
    <3>10. DiskByte(1, i) = FileByte((1 - 1) * SECTSIZE + i)  BY <3>6, DiskByteIs
    <3>11. (1 - 1) * SECTSIZE + i = i  BY <3>1, <3>6
    <3> QED BY <3>8, <3>9, <3>10, <3>11
  <2> QED BY <2>2, <2>3 DEF LoaderUndisturbed
<1> QED BY <1>1, Invariance, PTL

\* When the kernel starts all of its file is in its place, and stays there when
\* the BSS is cleared.
THEOREM KernelInPlace == Spec => []KernelLoaded
<1>1. Inv => KernelLoaded
  <2> SUFFICES ASSUME Inv PROVE KernelLoaded  OBVIOUS
  <2>1. Types /\ Loaded  BY DEF Inv, BootInv
  <2>2. pc \in InKernel => InPlace  BY <2>1 DEF Loaded
  <2>3. ASSUME pc \in Initialized,
               NEW a \in Data.pa + Data.filesz .. Data.pa + Data.memsz - 1
        PROVE  mem[a] = Zero
    <3>1. image \in Images /\ image.magic
      BY <2>1, <2>3 DEF Types, Loaded, Initialized, InKernel
    <3>2. Data.pa \in Nat /\ Data.filesz \in Nat /\ Data.memsz \in Nat
      BY <3>1, BssMapped DEF Segment
    <3>3. a \in Data.pa + Data.filesz .. (Data.pa + Data.memsz) - 1  BY <3>2
    <3> QED BY <2>1, <2>3, <3>3 DEF Loaded, BssZero
  <2> QED BY <2>2, <2>3 DEF KernelLoaded, InPlace, Initialized
<1> QED BY <1>1, Invariance, PTL

\* Every instruction fetched is the one linked for that place, before paging,
\* under the low map and at the linked addresses.
THEOREM FetchesRight == Spec => []FetchesKernel
<1>1. Inv => FetchesKernel
  <2> SUFFICES ASSUME Inv PROVE FetchesKernel  OBVIOUS
  <2>1. Types /\ Gate /\ Loaded /\ Running  BY DEF Inv, BootInv
  <2>2. ASSUME pc \in InKernel
        PROVE  /\ image \in Images /\ image.magic /\ a20 /\ InPlace /\ Linked(image)
               /\ image.segs \in Seq(Segment) /\ 1 \in DOMAIN image.segs /\ 1 \in Segments
               /\ Seg(1) = image.segs[1] /\ Seg(1) \in Segment
    <3>1. image \in Images /\ image.magic /\ a20 /\ InPlace
      BY <2>1, <2>2 DEF Types, Gate, Loaded
    <3>2. Linked(image) /\ image.segs \in Seq(Segment) /\ image.segs # <<>>
      BY <3>1, ImagesAssumption DEF Linked
    <3>3. Len(image.segs) \in Nat /\ Len(image.segs) > 0  BY <3>2, LenProperties, EmptySeq
    <3>4. 1 \in DOMAIN image.segs /\ 1 \in Segments  BY <3>2, <3>3, LenProperties DEF Segments
    <3> QED BY <3>1, <3>2, <3>4, ElementOfSeq, LenProperties DEF Seg
  <2>3. ASSUME pc \in InKernel
        PROVE  LET linked == IF pc \in {"entry", "low"} THEN eip + KERNBASE ELSE eip
                   pa == IF paging THEN Translate(eip) ELSE eip
               IN  Fetched /\ mem[Physical(pa)] = Seg(1).offset + (RELOC(linked) - Seg(1).pa)
    <3> DEFINE s == Seg(1)
               linked == IF pc \in {"entry", "low"} THEN eip + KERNBASE ELSE eip
               pa == IF paging THEN Translate(eip) ELSE eip
               x == RELOC(linked)
    <3>1. s.pa \in Nat /\ s.filesz \in Nat /\ s.offset \in Nat /\ s.memsz \in Nat
          /\ s.filesz <= s.memsz /\ s.pa + s.memsz <= PTSIZE
      BY <2>2, <2>3 DEF Linked, Segment
    <3>2. KERNBASE \in Nat /\ PTSIZE \in Nat  BY TableSizes
    <3>3. {image.entry, image.entry + 1, image.entry + 2, image.i386_init} \subseteq
            KERNBASE + s.pa .. (KERNBASE + s.pa + s.filesz) - 1
      <4>1. KERNBASE + s.pa + s.filesz - 1 = (KERNBASE + s.pa + s.filesz) - 1  BY <3>1, <3>2
      <4> QED BY <2>2, <2>3, <4>1 DEF Linked
    <3>4. image.entry \in Int /\ image.i386_init \in Int  BY <3>1, <3>2, <3>3
    <3>5. /\ pc = "entry" => ~paging /\ eip = image.entry - KERNBASE
          /\ pc = "low" => paging /\ eip = (image.entry - KERNBASE) + 1
          /\ pc = "relocated" => paging /\ eip = image.entry + 2
          /\ pc \in InitCode => paging /\ eip = image.i386_init
      BY <2>1 DEF Running, RELOC
    <3>6. pc \in {"entry", "low", "relocated"} \cup InitCode  BY <2>3 DEF InKernel, InitCode
    <3> HIDE DEF s
    <3>7. eip \in Int /\ x \in s.pa .. (s.pa + s.filesz) - 1
          /\ (pc \in {"entry", "low"} => eip = x) /\ (pc \notin {"entry", "low"} => eip = KERNBASE + x)
      <4>1. CASE pc = "entry"  BY <3>1, <3>2, <3>3, <3>4, <3>5, <4>1 DEF RELOC
      <4>2. CASE pc = "low"  BY <3>1, <3>2, <3>3, <3>4, <3>5, <4>2 DEF RELOC
      <4>3. CASE pc = "relocated"  BY <3>1, <3>2, <3>3, <3>4, <3>5, <4>3 DEF RELOC
      <4>4. CASE pc \in InitCode
        BY <3>1, <3>2, <3>3, <3>4, <3>5, <4>4 DEF RELOC, InitCode
      <4> QED BY <3>6, <4>1, <4>2, <4>3, <4>4
    <3> HIDE DEF x
    <3>8. x \in 0 .. PTSIZE - 1 /\ x \in Nat  BY <3>1, <3>2, <3>7
    <3>9. Fetched /\ pa = x
      <4>1. CASE pc \in {"entry", "low"}
        <5>1. eip = x  BY <3>7, <4>1
        <5> QED BY <3>8, <5>1, TranslateLow DEF Fetched
      <4>2. CASE pc \notin {"entry", "low"}
        <5>1. eip = KERNBASE + x /\ paging  BY <3>5, <3>6, <3>7, <4>2
        <5> QED BY <3>8, <5>1, TranslateHigh DEF Fetched
      <4> QED BY <4>1, <4>2
    <3>10. Physical(x) = x  BY <2>2, <2>3, <3>8, PhysicalIs
    <3> DEFINE k == x - s.pa
    <3>11. k \in 0 .. s.filesz - 1 /\ s.pa + k = x  BY <3>1, <3>7
    <3> HIDE DEF k
    <3>12. mem[s.pa + k] = s.offset + k  BY <2>2, <2>3, <3>11 DEF InPlace, s
    <3> QED BY <3>9, <3>10, <3>11, <3>12 DEF s, x, k
  <2>4. pc = "relocated" => Writable(image.stack - 1)
    <3> SUFFICES ASSUME pc = "relocated" PROVE Writable(image.stack - 1)  OBVIOUS
    <3>1. image.stack - 1 \in KERNBASE .. KERNBASE + PTSIZE - 1  BY <2>2 DEF Linked, InKernel
    <3> DEFINE x == (image.stack - 1) - KERNBASE
    <3>2. x \in 0 .. PTSIZE - 1 /\ image.stack - 1 = KERNBASE + x  BY <3>1, TableSizes
    <3> HIDE DEF x
    <3> QED BY <3>2, TranslateHigh
  <2>5. pc = "i386_init" => \A va \in bss_start .. end - 1 : Writable(va)
    BY <2>2, BssMapped DEF InKernel
  <2> QED BY <2>3, <2>4, <2>5 DEF FetchesKernel
<1> QED BY <1>1, Invariance, PTL

\* A device gets the characters in order, and misses none without a timeout.
THEOREM LossesPaidFor == Spec => []LossNeedsTimeout
<1>1. Inv => LossNeedsTimeout  BY ConsoleSafe DEF Inv
<1> QED BY <1>1, Invariance, PTL
==============================================================================
