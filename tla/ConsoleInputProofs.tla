------------------------- MODULE ConsoleInputProofs -------------------------
(* Theorems about ConsoleInput, for every size of the ring and every input. *)
EXTENDS ConsoleInput, SequenceTheorems, TLAPS

USE RingAssumption

\* The inductive invariant: besides the types, no character still to be handed
\* out is NUL, which getchar would take for "none waiting".
Inv ==
  /\ TypeOK
  /\ \A k \in 0 .. Backlog - 1 : cons.buf[Slot(k)] \in Chars

\* The rest of a sequence holds each element one place earlier.
LEMMA TailPoints ==
  ASSUME NEW S, NEW s, s \in Seq(S), s # <<>>
  PROVE  Tail(s) = [k \in 1 .. Len(s) - 1 |-> s[k + 1]]
<1> DEFINE new == Tail(s)
<1>1. /\ new \in Seq(S) /\ Len(new) = Len(s) - 1
      /\ \A k \in 1 .. Len(s) - 1 : new[k] = s[k + 1]
  BY HeadTailProperties
<1> HIDE DEF new
<1>2. new \in [1 .. Len(s) - 1 -> S]  BY <1>1, LenProperties
<1>3. new = [k \in 1 .. Len(s) - 1 |-> new[k]]  BY <1>2, Zenon
<1>4. new = [k \in 1 .. Len(s) - 1 |-> s[k + 1]]  BY <1>1, <1>3
<1> QED BY <1>4 DEF new

\* How many slots wpos is ahead of rpos.
Distance(r, w) == IF w >= r THEN w - r ELSE w + CONSBUFSIZE - r

\* Taking a character brings rpos one slot closer to wpos.
LEMMA Closer ==
  ASSUME NEW r, r \in Int, 0 <= r, r < CONSBUFSIZE,
         NEW w, w \in Int, 0 <= w, w < CONSBUFSIZE, r # w
  PROVE  /\ Distance(IF r + 1 = CONSBUFSIZE THEN 0 ELSE r + 1, w) = Distance(r, w) - 1
         /\ Distance(r, w) # 0
BY DEF Distance

\* The ring never holds as many characters as it has slots: wpos = rpos means empty.
LEMMA BacklogBounds ==
  ASSUME TypeOK
  PROVE  Backlog \in 0 .. CONSBUFSIZE - 1
<1>1. /\ cons.rpos \in Int /\ 0 <= cons.rpos /\ cons.rpos < CONSBUFSIZE
      /\ cons.wpos \in Int /\ 0 <= cons.wpos /\ cons.wpos < CONSBUFSIZE
  BY DEF TypeOK, Slots
<1> QED BY <1>1 DEF Backlog

\* The k-th waiting character lies in the ring.
LEMMA SlotBounds ==
  ASSUME TypeOK
  PROVE  \A k \in 0 .. CONSBUFSIZE - 1 : Slot(k) \in Slots
<1>1. cons.rpos \in Int /\ 0 <= cons.rpos /\ cons.rpos < CONSBUFSIZE
  BY DEF TypeOK, Slots
<1> QED BY <1>1 DEF Slot, Slots

\* cons_intr and cons_getc wrap their index to a slot of the ring.
LEMMA SuccBounds ==
  ASSUME NEW p, p \in Slots
  PROVE  Succ(p) \in Slots
BY DEF Succ, Slots

\* The ring as a record once c is stashed.
LEMMA StashRing ==
  ASSUME TypeOK, NEW c, c \in Chars, Stash(c)
  PROVE  /\ cons'.buf = [cons.buf EXCEPT ![cons.wpos] = c]
         /\ cons'.rpos = cons.rpos
         /\ cons'.wpos = Succ(cons.wpos)
         /\ cons' \in [buf : [Slots -> 0 .. 255], rpos : Slots, wpos : Slots]
         /\ stashed' = Append(stashed, c)
<1>1. c # 0  BY DEF Chars
<1>2. /\ cons' = [ buf  |-> [cons.buf EXCEPT ![cons.wpos] = c],
                   rpos |-> cons.rpos, wpos |-> Succ(cons.wpos) ]
      /\ stashed' = Append(stashed, c)
  BY <1>1 DEF Stash
<1>3. cons.buf \in [Slots -> 0 .. 255] /\ cons.rpos \in Slots /\ cons.wpos \in Slots
  BY DEF TypeOK
<1>4. [cons.buf EXCEPT ![cons.wpos] = c] \in [Slots -> 0 .. 255]
  BY <1>3 DEF Chars
<1> QED BY <1>2, <1>3, <1>4, SuccBounds

\* Stashing a character makes the backlog one longer, or empties it.
LEMMA StashBacklog ==
  ASSUME TypeOK, NEW c, c \in Chars, Stash(c)
  PROVE  /\ Backlog' = IF Backlog + 1 < CONSBUFSIZE THEN Backlog + 1 ELSE 0
         /\ \A k \in 0 .. CONSBUFSIZE - 1 : Slot(k)' = Slot(k)
         /\ Slot(Backlog) = cons.wpos
         /\ \A k \in 0 .. Backlog - 1 : Slot(k) # cons.wpos
<1>1. cons.rpos \in Slots /\ cons.wpos \in Slots  BY DEF TypeOK
<1>2. cons'.rpos = cons.rpos /\ cons'.wpos = Succ(cons.wpos)  BY StashRing
<1>3. Backlog' = IF Backlog + 1 < CONSBUFSIZE THEN Backlog + 1 ELSE 0
  BY <1>1, <1>2 DEF Backlog, Succ, Slots
<1>4. \A k \in 0 .. CONSBUFSIZE - 1 : Slot(k)' = Slot(k)
  BY <1>1, <1>2 DEF Slot, Slots
<1>5. Slot(Backlog) = cons.wpos
  BY <1>1 DEF Slot, Backlog, Slots
<1>6. \A k \in 0 .. Backlog - 1 : Slot(k) # cons.wpos
  BY <1>1 DEF Slot, Backlog, Slots
<1> QED BY <1>3, <1>4, <1>5, <1>6

\* Storing a character is a Put of the queue; storing 0 leaves it.
LEMMA StashStep ==
  ASSUME Inv, NEW c, c \in Chars, Stash(c)
  PROVE  /\ \A k \in 0 .. Backlog' - 1 : cons'.buf[Slot(k)'] \in Chars
         /\ Fifo!Put(c)
<1>0. TypeOK  BY DEF Inv
<1>1. /\ cons.buf \in [Slots -> 0 .. 255] /\ cons.wpos \in Slots
      /\ Backlog \in 0 .. CONSBUFSIZE - 1
      /\ \A k \in 0 .. CONSBUFSIZE - 1 : Slot(k) \in Slots
  BY <1>0, BacklogBounds, SlotBounds DEF TypeOK
<1>2. cons'.buf = [cons.buf EXCEPT ![cons.wpos] = c]  BY <1>0, StashRing
<1>3. /\ Backlog' = IF Backlog + 1 < CONSBUFSIZE THEN Backlog + 1 ELSE 0
      /\ \A k \in 0 .. CONSBUFSIZE - 1 : Slot(k)' = Slot(k)
      /\ Slot(Backlog) = cons.wpos
      /\ \A k \in 0 .. Backlog - 1 : Slot(k) # cons.wpos
  BY <1>0, StashBacklog
<1>4. \A k \in 0 .. Backlog : Backlog + 1 < CONSBUFSIZE =>
         cons'.buf[Slot(k)'] = IF k = Backlog THEN c ELSE cons.buf[Slot(k)]
  BY <1>1, <1>2, <1>3
<1>5. \A k \in 0 .. Backlog' - 1 : cons'.buf[Slot(k)'] \in Chars
  BY <1>1, <1>3, <1>4 DEF Inv
<1>6. Waiting \in Seq(0 .. 255) /\ Len(Waiting) = Backlog
  <2>1. \A k \in 1 .. Backlog : cons.buf[Slot(k - 1)] \in 0 .. 255  BY <1>1
  <2> QED BY <1>1, <2>1 DEF Waiting
<1>7. CASE Backlog + 1 < CONSBUFSIZE
  <2>1. Waiting' = [k \in 1 .. Backlog + 1 |-> cons'.buf[Slot(k - 1)']]
    BY <1>3, <1>7 DEF Waiting
  <2>2. \A k \in 1 .. Backlog + 1 :
          cons'.buf[Slot(k - 1)'] = IF k = Backlog + 1 THEN c ELSE Waiting[k]
    BY <1>1, <1>4, <1>7 DEF Waiting
  <2>3. Append(Waiting, c) = [k \in 1 .. Backlog + 1 |->
                                IF k = Backlog + 1 THEN c ELSE Waiting[k]]
    <3> DEFINE B == 0 .. 255
               w == Waiting
               new == Append(w, c)
    <3>1. w \in Seq(B) /\ Len(w) = Backlog /\ c \in B
      BY <1>6 DEF Chars
    <3> HIDE DEF w, B
    <3>2. /\ new \in Seq(B)
          /\ Len(new) = Backlog + 1
          /\ \A k \in 1 .. Backlog : new[k] = w[k]
          /\ new[Backlog + 1] = c
      BY <3>1, AppendProperties
    <3> HIDE DEF new
    <3>3. new \in [1 .. Backlog + 1 -> B]
      <4>1. new \in [1 .. Len(new) -> B]  BY <3>2, LenProperties
      <4> QED BY <3>2, <4>1
    <3>4. new = [k \in 1 .. Backlog + 1 |-> new[k]]  BY <3>3, Zenon
    <3>5. \A k \in 1 .. Backlog + 1 : new[k] = IF k = Backlog + 1 THEN c ELSE w[k]
      BY <1>1, <3>2
    <3>6. new = [k \in 1 .. Backlog + 1 |-> IF k = Backlog + 1 THEN c ELSE w[k]]
      BY <3>4, <3>5
    <3> QED BY <3>6 DEF new, w
  <2>4. Waiting' = Append(Waiting, c)  BY <2>1, <2>2, <2>3
  <2> QED BY <1>5, <1>6, <1>7, <2>4 DEF Fifo!Put
<1>8. CASE ~(Backlog + 1 < CONSBUFSIZE)
  <2>1. Backlog' = 0  BY <1>3, <1>8
  <2>2. Waiting' = <<>>  BY <2>1 DEF Waiting
  <2> QED BY <1>5, <1>6, <1>8, <2>2 DEF Fifo!Put
<1> QED BY <1>5, <1>7, <1>8

\* Taking the oldest character.
LEMMA TakeStep ==
  ASSUME Inv, Take
  PROVE  /\ TypeOK'
         /\ \A k \in 0 .. Backlog' - 1 : cons'.buf[Slot(k)'] \in Chars
         /\ Fifo!Get
<1>0. TypeOK  BY DEF Inv
<1>1. /\ cons.buf \in [Slots -> 0 .. 255] /\ cons.rpos \in Slots /\ cons.wpos \in Slots
      /\ Backlog \in 0 .. CONSBUFSIZE - 1
  BY <1>0, BacklogBounds DEF TypeOK
<1>2. cons' = [buf |-> cons.buf, rpos |-> Succ(cons.rpos), wpos |-> cons.wpos]
  BY <1>0 DEF Take, TypeOK
<1>3. cons.rpos # cons.wpos  BY DEF Take
<1>4. /\ Backlog # 0 /\ Backlog' = Backlog - 1
      /\ \A k \in 0 .. Backlog - 2 : Slot(k)' = Slot(k + 1)
      /\ Slot(0) = cons.rpos
  <2>1. Backlog # 0 /\ Backlog' = Backlog - 1
    <3>1. cons'.rpos = Succ(cons.rpos) /\ cons'.wpos = cons.wpos  BY <1>2
    <3>2. /\ cons.rpos \in Int /\ 0 <= cons.rpos /\ cons.rpos < CONSBUFSIZE
          /\ cons.wpos \in Int /\ 0 <= cons.wpos /\ cons.wpos < CONSBUFSIZE
      BY <1>1 DEF Slots
    <3>3. Distance(Succ(cons.rpos), cons.wpos) = Distance(cons.rpos, cons.wpos) - 1
          /\ Distance(cons.rpos, cons.wpos) # 0
      BY <1>3, <3>2, Closer DEF Succ
    <3> QED BY <3>1, <3>3 DEF Backlog, Distance
  <2>2. ASSUME NEW k \in 0 .. Backlog - 2
        PROVE  Slot(k)' = Slot(k + 1)
    <3>1. k \in 0 .. CONSBUFSIZE - 1  BY <1>1
    <3>2. cons'.rpos = Succ(cons.rpos) /\ cons.rpos \in 0 .. CONSBUFSIZE - 1
      BY <1>1, <1>2 DEF Slots
    <3>3. CASE cons.rpos + 1 = CONSBUFSIZE
      <4>1. cons'.rpos = 0  BY <3>2, <3>3 DEF Succ
      <4>2. Slot(k)' = k  BY <3>1, <4>1 DEF Slot
      <4>3. Slot(k + 1) = k  BY <3>1, <3>2, <3>3 DEF Slot
      <4> QED BY <4>2, <4>3
    <3>4. CASE cons.rpos + 1 # CONSBUFSIZE
      <4>1. cons'.rpos = cons.rpos + 1  BY <3>2, <3>4 DEF Succ
      <4> QED BY <3>1, <3>2, <4>1 DEF Slot
    <3> QED BY <3>3, <3>4
  <2>3. Slot(0) = cons.rpos  BY <1>1 DEF Slot, Slots
  <2> QED BY <2>1, <2>2, <2>3
<1>5. \A k \in 0 .. Backlog' - 1 : cons'.buf[Slot(k)'] \in Chars
  BY <1>1, <1>2, <1>4 DEF Inv
<1>6. cons.buf[cons.rpos] \in Chars
  BY <1>1, <1>4 DEF Inv
<1>7. TypeOK'
  <2>1. cons' \in [buf : [Slots -> 0 .. 255], rpos : Slots, wpos : Slots]
    BY <1>1, <1>2, SuccBounds
  <2>2. returned' \in Seq(Chars)
    BY <1>0, <1>6, AppendProperties DEF Take, TypeOK
  <2> QED BY <1>0, <2>1, <2>2 DEF TypeOK, Take, dev
<1>8. Fifo!Get
  <2>1. Waiting \in Seq(0 .. 255) /\ Len(Waiting) = Backlog
    <3>1. \A k \in 1 .. Backlog : cons.buf[Slot(k - 1)] \in 0 .. 255
      BY <1>0, <1>1, SlotBounds
    <3> QED BY <1>1, <3>1 DEF Waiting
  <2>2. Waiting # <<>>  BY <1>1, <1>4, <2>1
  <2>3. Tail(Waiting) = [k \in 1 .. Backlog - 1 |-> Waiting[k + 1]]
    BY <2>1, <2>2, TailPoints
  <2>4. Waiting' = [k \in 1 .. Backlog - 1 |-> cons'.buf[Slot(k - 1)']]
    BY <1>4 DEF Waiting
  <2>5. \A k \in 1 .. Backlog - 1 : cons'.buf[Slot(k - 1)'] = Waiting[k + 1]
    <3> SUFFICES ASSUME NEW k \in 1 .. Backlog - 1
                 PROVE  cons'.buf[Slot(k - 1)'] = Waiting[k + 1]
      OBVIOUS
    <3>1. k - 1 \in 0 .. Backlog - 2 /\ (k - 1) + 1 = k  BY <1>1
    <3>2. Slot(k - 1)' = Slot(k)  BY <1>4, <3>1
    <3>3. k + 1 \in 1 .. Backlog /\ (k + 1) - 1 = k  BY <1>1
    <3>4. Waiting[k + 1] = cons.buf[Slot(k)]  BY <3>3 DEF Waiting
    <3> QED BY <1>2, <3>2, <3>4
  <2> QED BY <2>2, <2>3, <2>4, <2>5 DEF Fifo!Get
<1> QED BY <1>5, <1>7, <1>8

\* One turn of the loop in cons_intr, whichever device the character is from.
LEMMA IntrStep ==
  ASSUME Inv, NEW c, c \in 0 .. 255, Stash(c)
  PROVE  /\ cons' \in [buf : [Slots -> 0 .. 255], rpos : Slots, wpos : Slots]
         /\ stashed' \in Seq(Chars)
         /\ \A k \in 0 .. Backlog' - 1 : cons'.buf[Slot(k)'] \in Chars
         /\ (\E x \in Chars : Fifo!Put(x)) \/ UNCHANGED Waiting
<1>0. TypeOK  BY DEF Inv
<1>1. CASE c = 0
  <2>1. UNCHANGED <<cons, stashed>>  BY <1>1 DEF Stash
  <2>2. Backlog' = Backlog /\ UNCHANGED Waiting
    BY <2>1 DEF Backlog, Waiting, Slot
  <2>3. \A k : Slot(k)' = Slot(k)  BY <2>1 DEF Slot
  <2> QED BY <1>0, <2>1, <2>2, <2>3 DEF Inv, TypeOK
<1>2. CASE c # 0
  <2>1. c \in Chars  BY <1>2 DEF Chars
  <2>2. stashed' \in Seq(Chars)
    <3>1. stashed \in Seq(Chars)  BY <1>0 DEF TypeOK
    <3>2. stashed' = Append(stashed, c)  BY <1>0, <2>1, StashRing
    <3> QED BY <2>1, <3>1, <3>2, AppendProperties
  <2> QED BY <1>0, <2>1, <2>2, StashRing, StashStep
<1> QED BY <1>1, <1>2

\* Nothing of the ring changes.
LEMMA RingUnchanged ==
  ASSUME Inv, cons' = cons
  PROVE  /\ \A k \in 0 .. Backlog' - 1 : cons'.buf[Slot(k)'] \in Chars
         /\ UNCHANGED Waiting
<1>1. Backlog' = Backlog /\ UNCHANGED Waiting  BY DEF Backlog, Waiting, Slot
<1>2. \A k : Slot(k)' = Slot(k)  BY DEF Slot
<1> QED BY <1>1, <1>2 DEF Inv

-----------------------------------------------------------------------------
\* cons starts as an empty ring.
LEMMA InitInv == Init => Inv
<1> SUFFICES ASSUME Init PROVE Inv  OBVIOUS
<1>1. rx \in Seq(SerialBytes) /\ Len(rx) <= 1  BY DEF Init
<1>2. kbc \in Seq(KbcBytes) /\ Len(kbc) \in Nat
  <2>1. CASE kbc = <<>>  BY <2>1
  <2>2. ASSUME NEW b \in KbcBytes, kbc = <<b>>
        PROVE  kbc \in Seq(KbcBytes) /\ Len(kbc) \in Nat
    BY <2>2
  <2> QED BY <2>1, <2>2 DEF Init
<1>3. cons \in [buf : [Slots -> 0 .. 255], rpos : Slots, wpos : Slots]
  BY DEF Init, Slots
<1>4. Backlog = 0  BY DEF Init, Backlog
<1>5. stashed \in Seq(Chars) /\ returned \in Seq(Chars)  BY DEF Init
<1> QED BY <1>1, <1>2, <1>3, <1>4, <1>5 DEF Init, Inv, TypeOK

\* Every step preserves the invariant and is a step of the queue or leaves it.
LEMMA NextInv ==
  ASSUME Inv, [Next]_vars
  PROVE  /\ Inv'
         /\ Fifo!Next \/ UNCHANGED Waiting
<1>0. TypeOK  BY DEF Inv
<1>1. CASE SerialIntr
  <2>1. CASE serial_exists /\ SerialReady
    <3>1. Stash(SerialData) /\ rx' = <<>> /\ pc' = pc
      BY <1>1, <2>1 DEF SerialIntr
    <3>2. SerialData \in 0 .. 255
      <4>1. CASE port
        <5>1. rx # <<>> /\ rx \in Seq(SerialBytes)
          BY <1>0, <2>1, <4>1 DEF SerialReady, TypeOK
        <5>2. Head(rx) \in SerialBytes  BY <5>1, HeadTailProperties
        <5> QED BY <4>1, <5>2, ByteAssumption DEF SerialData
      <4>2. CASE ~port  BY <4>2 DEF SerialData
      <4> QED BY <4>1, <4>2
    <3>3. /\ cons' \in [buf : [Slots -> 0 .. 255], rpos : Slots, wpos : Slots]
          /\ stashed' \in Seq(Chars)
          /\ \A k \in 0 .. Backlog' - 1 : cons'.buf[Slot(k)'] \in Chars
          /\ (\E x \in Chars : Fifo!Put(x)) \/ UNCHANGED Waiting
      BY <3>1, <3>2, IntrStep
    <3>4. TypeOK'  BY <1>0, <1>1, <3>1, <3>3 DEF TypeOK, SerialIntr
    <3> QED BY <3>3, <3>4 DEF Inv, Fifo!Next
  <2>2. CASE ~(serial_exists /\ SerialReady)
    <3>1. UNCHANGED <<port, serial_exists, rx, kbc, cons, stashed, returned, arrivals>>
          /\ pc' = "kbd"
      BY <1>1, <2>2 DEF SerialIntr
    <3>2. TypeOK'  BY <1>0, <3>1 DEF TypeOK
    <3> QED BY <3>1, <3>2, RingUnchanged DEF Inv
  <2> QED BY <2>1, <2>2
<1>2. CASE KbdIntr
  <2>1. CASE KbdReady
    <3>1. Stash(Head(kbc)) /\ kbc' = Tail(kbc) /\ pc' = pc
      BY <1>2, <2>1 DEF KbdIntr
    <3>2. /\ Head(kbc) \in 0 .. 255
          /\ kbc' \in Seq(KbcBytes)
      <4>1. kbc # <<>> /\ kbc \in Seq(KbcBytes)  BY <1>0, <2>1 DEF KbdReady, TypeOK
      <4>2. Head(kbc) \in KbcBytes /\ Tail(kbc) \in Seq(KbcBytes)
        BY <4>1, HeadTailProperties
      <4> QED BY <2>1, <3>1, <4>2, ByteAssumption DEF KbdReady
    <3>3. /\ cons' \in [buf : [Slots -> 0 .. 255], rpos : Slots, wpos : Slots]
          /\ stashed' \in Seq(Chars)
          /\ \A k \in 0 .. Backlog' - 1 : cons'.buf[Slot(k)'] \in Chars
          /\ (\E x \in Chars : Fifo!Put(x)) \/ UNCHANGED Waiting
      BY <3>1, <3>2, IntrStep
    <3>4. TypeOK'  BY <1>0, <1>2, <3>1, <3>2, <3>3 DEF TypeOK, KbdIntr
    <3> QED BY <3>3, <3>4 DEF Inv, Fifo!Next
  <2>2. CASE ~KbdReady
    <3>1. UNCHANGED <<port, serial_exists, rx, kbc, cons, stashed, returned, arrivals>>
          /\ pc' = "take"
      BY <1>2, <2>2 DEF KbdIntr
    <3>2. TypeOK'  BY <1>0, <3>1 DEF TypeOK
    <3> QED BY <3>1, <3>2, RingUnchanged DEF Inv
  <2> QED BY <2>1, <2>2
<1>3. CASE Take
  BY <1>3, TakeStep DEF Inv, Fifo!Next
<1>4. CASE TakeNone \/ Getchar
  <2>1. UNCHANGED <<port, serial_exists, rx, kbc, cons, stashed, returned, arrivals>>
        /\ pc' = "serial"
    BY <1>4 DEF TakeNone, Getchar, dev
  <2>2. TypeOK'  BY <1>0, <2>1 DEF TypeOK
  <2> QED BY <2>1, <2>2, RingUnchanged DEF Inv
<1>5. ASSUME NEW b \in SerialBytes, SerialArrive(b)
      PROVE  Inv' /\ UNCHANGED Waiting
  <2>1. rx' = <<b>> /\ cons' = cons /\ arrivals' = arrivals + 1
        /\ UNCHANGED <<port, serial_exists, kbc, pc, stashed, returned>>
    BY <1>5 DEF SerialArrive
  <2>2. TypeOK'  BY <1>0, <2>1 DEF TypeOK
  <2> QED BY <2>1, <2>2, RingUnchanged DEF Inv
<1>6. ASSUME NEW b \in KbcBytes, KbcArrive(b)
      PROVE  Inv' /\ UNCHANGED Waiting
  <2>1. kbc' = Append(kbc, b) /\ cons' = cons /\ arrivals' = arrivals + 1
        /\ UNCHANGED <<port, serial_exists, rx, pc, stashed, returned>>
    BY <1>6 DEF KbcArrive
  <2>2. kbc' \in Seq(KbcBytes)
    BY <1>0, <2>1, AppendProperties DEF TypeOK
  <2>3. TypeOK'  BY <1>0, <2>1, <2>2 DEF TypeOK
  <2> QED BY <2>1, <2>3, RingUnchanged DEF Inv
<1>7. CASE UNCHANGED vars
  <2>1. UNCHANGED <<port, serial_exists, rx, kbc, cons, pc, stashed, returned, arrivals>>
    BY <1>7 DEF vars
  <2>2. TypeOK'  BY <1>0, <2>1 DEF TypeOK
  <2> QED BY <2>1, <2>2, RingUnchanged DEF Inv
<1> QED BY <1>1, <1>2, <1>3, <1>4, <1>5, <1>6, <1>7 DEF Next, Step

\* The ring's inductive invariant holds in every execution of the console input.
THEOREM Invariance == Spec => []Inv
BY InitInv, NextInv, PTL DEF Spec

\* Whatever arrives and whenever, rpos and wpos stay inside cons.buf and
\* getchar returns a character, never the 0 that means "none waiting".
THEOREM TypeCorrect == Spec => []TypeOK
<1>1. Inv => TypeOK  BY DEF Inv
<1> QED BY <1>1, Invariance, PTL

-----------------------------------------------------------------------------
(* What is lost *)

\* A whole number of rings leaves no rest.
LEMMA WholeRings ==
  ASSUME NEW k \in Nat
  PROVE  (k * CONSBUFSIZE) % CONSBUFSIZE = 0
<1> DEFINE r == (k * CONSBUFSIZE) % CONSBUFSIZE
           q == (k * CONSBUFSIZE) \div CONSBUFSIZE
<1>1. k * CONSBUFSIZE \in Int /\ CONSBUFSIZE \in Int /\ CONSBUFSIZE > 0  OBVIOUS
<1>2. q \in Int /\ r \in Int /\ 0 <= r /\ r < CONSBUFSIZE /\ k * CONSBUFSIZE = CONSBUFSIZE * q + r
  BY <1>1
<1> HIDE DEF q, r
<1>3. r = CONSBUFSIZE * (k - q)  BY <1>1, <1>2
<1>4. k - q = 0
  <2>1. k - q >= 1 => CONSBUFSIZE * (k - q) >= CONSBUFSIZE  BY <1>1, <1>2
  <2>2. k - q <= -1 => CONSBUFSIZE * (k - q) <= -CONSBUFSIZE  BY <1>1, <1>2
  <2> QED BY <1>1, <1>2, <1>3, <2>1, <2>2
<1>5. r = 0  BY <1>1, <1>3, <1>4
<1> QED BY <1>5 DEF r

\* The end of a sequence that grows by one is its end with the new element.
LEMMA AppendEnd ==
  ASSUME NEW S, NEW s \in Seq(S), NEW c \in S, NEW b \in 0 .. Len(s)
  PROVE  Append(SubSeq(s, Len(s) - b + 1, Len(s)), c)
           = SubSeq(Append(s, c), Len(s) - b + 1, Len(s) + 1)
<1> DEFINE n == Len(s)
           new == Append(s, c)
           end == SubSeq(s, n - b + 1, n)
           lhs == Append(end, c)
           rhs == SubSeq(new, n - b + 1, n + 1)
<1>0. n \in Nat  BY LenProperties
<1>1. /\ new \in Seq(S) /\ Len(new) = n + 1
      /\ \A i \in 1 .. n : new[i] = s[i]
      /\ new[n + 1] = c
  BY AppendProperties
<1>2. /\ end \in Seq(S) /\ Len(end) = b
      /\ \A i \in 1 .. b : end[i] = s[n - b + i]
  <2>1. \A i \in n - b + 1 .. n : s[i] \in S  BY <1>0, ElementOfSeq
  <2>2. n - b + 1 \in Int /\ n \in Int /\ b \in Int  BY <1>0
  <2>3. /\ end \in Seq(S) /\ Len(end) = IF n - b + 1 <= n THEN n - (n - b + 1) + 1 ELSE 0
        /\ \A i \in 1 .. n - (n - b + 1) + 1 : end[i] = s[(n - b + 1) + i - 1]
    BY <2>1, <2>2, SubSeqProperties
  <2>4. n - (n - b + 1) + 1 = b /\ \A i \in 1 .. b : (n - b + 1) + i - 1 = n - b + i
    BY <1>0
  <2> QED BY <1>0, <2>3, <2>4
<1>3. /\ rhs \in Seq(S) /\ Len(rhs) = b + 1
      /\ \A i \in 1 .. b + 1 : rhs[i] = new[n - b + i]
  <2>1. \A i \in n - b + 1 .. n + 1 : new[i] \in S  BY <1>0, <1>1, ElementOfSeq
  <2>2. n - b + 1 \in Int /\ n + 1 \in Int /\ b \in Int  BY <1>0
  <2>3. /\ rhs \in Seq(S)
        /\ Len(rhs) = IF n - b + 1 <= n + 1 THEN (n + 1) - (n - b + 1) + 1 ELSE 0
        /\ \A i \in 1 .. (n + 1) - (n - b + 1) + 1 : rhs[i] = new[(n - b + 1) + i - 1]
    BY <2>1, <2>2, SubSeqProperties
  <2>4. /\ (n + 1) - (n - b + 1) + 1 = b + 1 /\ n - b + 1 <= n + 1
        /\ \A i \in 1 .. b + 1 : (n - b + 1) + i - 1 = n - b + i
    BY <1>0
  <2>5. Len(rhs) = b + 1  BY <2>3, <2>4
  <2>6. \A i \in 1 .. b + 1 : rhs[i] = new[(n - b + 1) + i - 1]  BY <2>3, <2>4
  <2> HIDE DEF rhs, new, end
  <2>7. \A i \in 1 .. b + 1 : rhs[i] = new[n - b + i]  BY <2>4, <2>6
  <2> QED BY <2>3, <2>5, <2>7
<1>4. /\ lhs \in Seq(S) /\ Len(lhs) = b + 1
      /\ \A i \in 1 .. b : lhs[i] = end[i]
      /\ lhs[b + 1] = c
  BY <1>2, AppendProperties
<1> HIDE DEF lhs, rhs, end, new
<1>5. \A i \in 1 .. b + 1 : lhs[i] = rhs[i]
  <2> SUFFICES ASSUME NEW i \in 1 .. b + 1 PROVE lhs[i] = rhs[i]  OBVIOUS
  <2>1. CASE i <= b
    <3>1. lhs[i] = s[n - b + i]  BY <1>2, <1>4, <2>1
    <3>2. n - b + i \in 1 .. n  BY <1>0, <2>1
    <3> QED BY <1>1, <1>3, <3>1, <3>2
  <2>2. CASE i = b + 1
    <3>1. n - b + i = n + 1  BY <1>0, <2>2
    <3> QED BY <1>1, <1>3, <1>4, <2>2, <3>1
  <2> QED BY <2>1, <2>2
<1>6. lhs = rhs  BY <1>3, <1>4, <1>5, SeqEqual
<1> QED BY <1>6 DEF lhs, rhs, end, new

\* Waiting is a sequence of Backlog bytes.
LEMMA WaitingType ==
  ASSUME TypeOK
  PROVE  Waiting \in Seq(0 .. 255) /\ Len(Waiting) = Backlog
<1>1. Backlog \in 0 .. CONSBUFSIZE - 1  BY BacklogBounds
<1>2. ASSUME NEW k \in 1 .. Backlog PROVE cons.buf[Slot(k - 1)] \in 0 .. 255
  <2>1. k - 1 \in 0 .. CONSBUFSIZE - 1  BY <1>1
  <2>2. Slot(k - 1) \in Slots  BY <2>1, SlotBounds
  <2>3. cons.buf \in [Slots -> 0 .. 255]  BY DEF TypeOK
  <2> QED BY <2>2, <2>3
<1> QED BY <1>1, <1>2 DEF Waiting

\* The inductive invariant of the histories: whole rings are missing between
\* what was returned and what waits, which is the newest input.
Accounted(s, r, w) ==
  /\ \E k \in Nat : Len(s) = Len(r) + Len(w) + k * CONSBUFSIZE
  /\ w = SubSeq(s, Len(s) - Len(w) + 1, Len(s))

History == Accounted(stashed, returned, Waiting)

\* A Put that finds room keeps the account: one more stashed, one more waiting.
LEMMA PutAccounted ==
  ASSUME NEW s \in Seq(Chars), NEW r \in Seq(Chars), NEW w \in Seq(0 .. 255), NEW c \in Chars,
         Accounted(s, r, w)
  PROVE  Accounted(Append(s, c), r, Append(w, c))
<1> DEFINE n == Len(s)
           b == Len(w)
           new == Append(s, c)
           more == Append(w, c)
<1>1. PICK k \in Nat : n = Len(r) + b + k * CONSBUFSIZE  BY DEF Accounted
<1>2. n \in Nat /\ b \in Nat /\ Len(r) \in Nat /\ k * CONSBUFSIZE \in Nat
  BY LenProperties
<1>3. Len(new) = n + 1 /\ Len(more) = b + 1
  <2>1. c \in 0 .. 255  BY DEF Chars
  <2> QED BY <2>1, AppendProperties
<1>4. Len(new) = Len(r) + Len(more) + k * CONSBUFSIZE  BY <1>1, <1>2, <1>3
<1>5. b \in 0 .. n  BY <1>1, <1>2
<1>6. more = SubSeq(new, n - b + 1, n + 1)  BY <1>5, AppendEnd DEF Accounted
<1>7. Len(new) - Len(more) + 1 = n - b + 1  BY <1>2, <1>3
<1> QED BY <1>3, <1>4, <1>6, <1>7 DEF Accounted

\* A Put that fills the ring loses a whole ring, the new character with it.
LEMMA OverrunAccounted ==
  ASSUME NEW s \in Seq(Chars), NEW r \in Seq(Chars), NEW w \in Seq(0 .. 255), NEW c \in Chars,
         Accounted(s, r, w), Len(w) + 1 = CONSBUFSIZE
  PROVE  Accounted(Append(s, c), r, <<>>)
<1>1. PICK k \in Nat : Len(s) = Len(r) + Len(w) + k * CONSBUFSIZE  BY DEF Accounted
<1>2. Len(s) \in Nat /\ Len(w) \in Nat /\ Len(r) \in Nat  BY LenProperties
<1>3. Len(Append(s, c)) = Len(s) + 1  BY AppendProperties
<1>4. (k + 1) * CONSBUFSIZE = k * CONSBUFSIZE + CONSBUFSIZE  OBVIOUS
<1>5. Len(Append(s, c)) = Len(r) + 0 + (k + 1) * CONSBUFSIZE
  <2>1. k * CONSBUFSIZE \in Nat  OBVIOUS
  <2> QED BY <1>1, <1>2, <1>3, <1>4, <2>1
<1>6. k + 1 \in Nat /\ Len(<<>>) = 0  OBVIOUS
<1>7. SubSeq(Append(s, c), Len(s) + 1 - 0 + 1, Len(s) + 1) = <<>>
  <2>1. Len(s) + 1 - 0 + 1 \in Int /\ Len(s) + 1 \in Int /\ Len(s) + 1 < Len(s) + 1 - 0 + 1
    BY <1>2
  <2> QED BY <2>1, SubSeqEmpty
<1>8. \E j \in Nat : Len(Append(s, c)) = Len(r) + Len(<<>>) + j * CONSBUFSIZE
  BY <1>5, <1>6
<1>9. SubSeq(Append(s, c), Len(Append(s, c)) - Len(<<>>) + 1, Len(Append(s, c))) = <<>>
  BY <1>3, <1>6, <1>7
<1> QED BY <1>8, <1>9 DEF Accounted

\* A Get moves one character from those waiting to those returned.
LEMMA GetAccounted ==
  ASSUME NEW s \in Seq(Chars), NEW r \in Seq(Chars), NEW w \in Seq(0 .. 255), NEW c \in Chars,
         Accounted(s, r, w), w # <<>>
  PROVE  Accounted(s, Append(r, c), Tail(w))
<1> DEFINE n == Len(s)
           b == Len(w)
<1>1. PICK k \in Nat : n = Len(r) + b + k * CONSBUFSIZE  BY DEF Accounted
<1>2. n \in Nat /\ b \in Nat \ {0} /\ Len(r) \in Nat /\ k * CONSBUFSIZE \in Nat
  BY LenProperties, EmptySeq
<1>3. Len(Append(r, c)) = Len(r) + 1 /\ Len(Tail(w)) = b - 1
  BY AppendProperties, HeadTailProperties
<1>4. n = Len(Append(r, c)) + Len(Tail(w)) + k * CONSBUFSIZE  BY <1>1, <1>2, <1>3
<1>5. n - b + 1 \in 1 .. n /\ n \in n - b + 1 .. n
  <2> DEFINE lost == k * CONSBUFSIZE
  <2>1. n = Len(r) + b + lost /\ lost \in Nat  BY <1>1, <1>2
  <2> HIDE DEF lost
  <2> QED BY <1>2, <2>1
<1>6. w = SubSeq(s, n - b + 1, n)  BY DEF Accounted
<1>7. Tail(w) = SubSeq(s, (n - b + 1) + 1, n)  BY <1>5, <1>6, HeadTailOfSubSeq
<1>8. (n - b + 1) + 1 = n - (b - 1) + 1  BY <1>2
<1> QED BY <1>3, <1>4, <1>7, <1>8 DEF Accounted

\* The body of cons_intr's loop keeps the account.
LEMMA StashHistory ==
  ASSUME Inv, History, NEW c, c \in 0 .. 255, Stash(c), returned' = returned
  PROVE  History'
<1>0. TypeOK  BY DEF Inv
<1>1. CASE c = 0
  <2>1. UNCHANGED <<cons, stashed>>  BY <1>1 DEF Stash
  <2>2. UNCHANGED Waiting  BY <2>1, RingUnchanged
  <2> QED BY <2>1, <2>2 DEF History
<1>2. CASE c # 0
  <2>1. c \in Chars  BY <1>2 DEF Chars
  <2>2. Fifo!Put(c) /\ stashed' = Append(stashed, c)
    BY <1>0, <2>1, StashStep, StashRing
  <2>3. /\ Waiting \in Seq(0 .. 255) /\ Len(Waiting) \in 0 .. CONSBUFSIZE - 1
        /\ stashed \in Seq(Chars) /\ returned \in Seq(Chars)
    BY <1>0, WaitingType, BacklogBounds DEF TypeOK
  <2>4. CASE Len(Waiting) + 1 < CONSBUFSIZE
    <3>1. Waiting' = Append(Waiting, c)  BY <2>2, <2>4 DEF Fifo!Put
    <3>2. Accounted(Append(stashed, c), returned, Append(Waiting, c))
      BY <2>1, <2>3, PutAccounted DEF History
    <3> QED BY <2>2, <3>1, <3>2 DEF History
  <2>5. CASE ~(Len(Waiting) + 1 < CONSBUFSIZE)
    <3>1. Waiting' = <<>>  BY <2>2, <2>5 DEF Fifo!Put
    <3>2. Len(Waiting) + 1 = CONSBUFSIZE  BY <2>3, <2>5
    <3>3. Accounted(Append(stashed, c), returned, <<>>)
      BY <2>1, <2>3, <3>2, OverrunAccounted DEF History
    <3> QED BY <2>2, <3>1, <3>3 DEF History
  <2> QED BY <2>4, <2>5
<1> QED BY <1>1, <1>2

\* cons_getc keeps the account.
LEMMA TakeHistory ==
  ASSUME Inv, History, Take
  PROVE  History'
<1>0. TypeOK  BY DEF Inv
<1>1. Waiting # <<>> /\ Waiting' = Tail(Waiting)  BY TakeStep DEF Fifo!Get
<1>2. stashed' = stashed /\ returned' = Append(returned, cons.buf[cons.rpos])
  BY DEF Take
<1>3. cons.buf[cons.rpos] \in Chars
  <2>1. cons.rpos \in Slots /\ cons.wpos \in Slots /\ cons.rpos # cons.wpos
    BY <1>0 DEF Take, TypeOK
  <2>2. Backlog \in Int /\ 0 <= Backlog - 1 /\ Slot(0) = cons.rpos
    BY <2>1 DEF Backlog, Slot, Slots
  <2> QED BY <2>2 DEF Inv
<1>4. Waiting \in Seq(0 .. 255) /\ stashed \in Seq(Chars) /\ returned \in Seq(Chars)
  BY <1>0, WaitingType DEF TypeOK
<1>5. Accounted(stashed, Append(returned, cons.buf[cons.rpos]), Tail(Waiting))
  BY <1>1, <1>3, <1>4, GetAccounted DEF History
<1> QED BY <1>1, <1>2, <1>5 DEF History

\* Nothing has arrived, nothing is missing.
LEMMA InitHistory == Init => History
<1> SUFFICES ASSUME Init PROVE History  OBVIOUS
<1>1. stashed = <<>> /\ returned = <<>>  BY DEF Init
<1>2. Waiting = <<>>  BY DEF Init, Backlog, Waiting
<1>3. SubSeq(<<>>, 0 - 0 + 1, 0) = <<>>  BY SubSeqEmpty
<1>4. 0 = 0 + 0 + 0 * CONSBUFSIZE /\ Len(<<>>) = 0  OBVIOUS
<1> QED BY <1>1, <1>2, <1>3, <1>4 DEF History, Accounted

\* Every step keeps the account.
LEMMA NextHistory == Inv /\ History /\ [Next]_vars => History'
<1> SUFFICES ASSUME Inv, History, [Next]_vars PROVE History'  OBVIOUS
<1>0. TypeOK  BY DEF Inv
<1>1. ASSUME UNCHANGED <<cons, stashed, returned>> PROVE History'
  BY <1>1, RingUnchanged DEF History
<1>2. CASE SerialIntr
  <2>1. CASE serial_exists /\ SerialReady
    <3>1. Stash(SerialData) /\ returned' = returned  BY <1>2, <2>1 DEF SerialIntr
    <3>2. CASE port
      <4>1. rx # <<>> /\ rx \in Seq(SerialBytes)
        BY <1>0, <2>1, <3>2 DEF SerialReady, TypeOK
      <4>2. Head(rx) \in SerialBytes  BY <4>1, HeadTailProperties
      <4>3. SerialData \in 0 .. 255  BY <3>2, <4>2, ByteAssumption DEF SerialData
      <4> QED BY <3>1, <4>3, StashHistory
    <3>3. CASE ~port
      <4>1. SerialData \in 0 .. 255  BY <3>3 DEF SerialData
      <4> QED BY <3>1, <4>1, StashHistory
    <3> QED BY <3>2, <3>3
  <2>2. CASE ~(serial_exists /\ SerialReady)
    BY <1>1, <1>2, <2>2 DEF SerialIntr
  <2> QED BY <2>1, <2>2
<1>3. CASE KbdIntr
  <2>1. CASE KbdReady
    <3>1. Stash(Head(kbc)) /\ returned' = returned  BY <1>3, <2>1 DEF KbdIntr
    <3>2. kbc # <<>> /\ kbc \in Seq(KbcBytes)  BY <1>0, <2>1 DEF KbdReady, TypeOK
    <3>3. Head(kbc) \in KbcBytes  BY <3>2, HeadTailProperties
    <3>4. Head(kbc) \in 0 .. 255  BY <2>1, <3>3, ByteAssumption DEF KbdReady
    <3> QED BY <3>1, <3>4, StashHistory
  <2>2. CASE ~KbdReady
    BY <1>1, <1>3, <2>2 DEF KbdIntr
  <2> QED BY <2>1, <2>2
<1>4. CASE Take  BY <1>4, TakeHistory
<1>5. CASE TakeNone \/ Getchar  BY <1>1, <1>5 DEF TakeNone, Getchar
<1>6. ASSUME NEW b, SerialArrive(b) \/ KbcArrive(b) PROVE History'
  BY <1>1, <1>6 DEF SerialArrive, KbcArrive
<1>7. CASE UNCHANGED vars  BY <1>1, <1>7 DEF vars
<1> QED BY <1>2, <1>3, <1>4, <1>5, <1>6, <1>7 DEF Next, Step

\* For every size of the ring and every timing of the devices, input is lost in
\* whole rings only, and what getchar is still to return is the newest input,
\* in order.
THEOREM LossIsWhole == Spec => []LossInWholeBuffers
<1>1. TypeOK /\ History => LossInWholeBuffers
  <2> SUFFICES ASSUME TypeOK, History PROVE LossInWholeBuffers  OBVIOUS
  <2> DEFINE n == Len(stashed)
  <2>1. n \in Nat /\ Len(returned) \in Nat /\ Backlog \in Nat /\ Len(Waiting) = Backlog
    BY LenProperties, WaitingType, BacklogBounds DEF TypeOK
  <2>2. PICK k \in Nat : n = Len(returned) + Backlog + k * CONSBUFSIZE
    BY <2>1 DEF History, Accounted
  <2>3. n - Len(returned) - Backlog = k * CONSBUFSIZE
    <3>1. k * CONSBUFSIZE \in Nat  OBVIOUS
    <3> QED BY <2>1, <2>2, <3>1
  <2>4. Waiting = SubSeq(stashed, n - Backlog + 1, n)  BY <2>1 DEF History, Accounted
  <2> QED BY <2>3, <2>4, WholeRings DEF LossInWholeBuffers
<1>2. Spec => []History
  <2>1. Spec => []Inv  BY Invariance
  <2> QED BY <2>1, InitHistory, NextHistory, PTL DEF Spec
<1> QED BY <1>1, <1>2, TypeCorrect, PTL

-----------------------------------------------------------------------------
\* For every size of the ring, it is the first-in first-out queue that forgets
\* everything when it would fill up.
THEOREM Refinement == Spec => RingIsLossyFifo
<1>1. Init => Fifo!Init
  <2> SUFFICES ASSUME Init PROVE Fifo!Init  OBVIOUS
  <2>1. Backlog = 0  BY DEF Init, Backlog
  <2> QED BY <2>1 DEF Fifo!Init, Waiting
<1>2. Inv /\ [Next]_vars => [Fifo!Next]_Waiting  BY NextInv
<1> QED BY <1>1, <1>2, Invariance, PTL DEF Spec, Fifo!Spec, RingIsLossyFifo
=============================================================================
