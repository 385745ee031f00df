--------------------------- MODULE DebugInfoProofs ---------------------------
(***************************************************************************)
(* What stab_binsearch brackets, proved for a table of any length over any *)
(* address space, and from it what debuginfo_eip reports.                  *)
(*                                                                         *)
(* For the search TypeOK and SearchCorrect are not inductive: IInv adds    *)
(* how far it has narrowed the table down.                                 *)
(***************************************************************************)
EXTENDS DebugInfo, WellFoundedInduction, TLAPS

\* The call is one the callers make, and does not change.
Call == arg.left <= arg.right /\ Sorted(stabs, arg)

\* In the loop the locals and the results stay inside the table.
InRange ==
  pc = "search" =>
    /\ arg.left <= l /\ l <= r + 1 /\ r <= arg.right
    /\ region_left \in Region
    /\ region_right \in arg.left - 1 .. arg.right

\* any_matches is set by a stab of the type, and decides the outcome.
AnyMatches ==
  /\ any_matches => \E k \in Region : Matches(k)
  /\ pc = "done" /\ ~any_matches => region_left > region_right

\* addr is incremented once at most, by a stab at the very address.
Advanced ==
  \/ addr = arg.addr
  \/ addr = arg.addr + 1 /\ \E k \in Region : Matches(k) /\ Value(k) = arg.addr

\* What lies left of l is not above the address, what lies right of r is, and
\* the results are where the two meet.
Narrowed ==
  pc = "search" =>
    /\ \A k \in Region : k < l /\ Matches(k) => Value(k) <= arg.addr
    /\ \A k \in Region : k > r /\ Matches(k) => Value(k) > arg.addr
    /\ region_left = arg.left \/ (Matches(region_left) /\ Value(region_left) <= arg.addr)
    /\ region_right = r
    /\ r = arg.right \/ Matches(r + 1)
    /\ ~any_matches => r = arg.right /\ \A k \in Region : k < l => ~Matches(k)
    /\ Advanced

IInv ==
  /\ TypeOK /\ Call /\ InRange /\ AnyMatches
  /\ RoomAbove => Narrowed
  /\ SearchCorrect

-----------------------------------------------------------------------------
\* The middle of an interval lies in it.
LEMMA Middle ==
  ASSUME NEW a \in Int, NEW b \in Int, a <= b
  PROVE  /\ (a + b) \div 2 \in Int
         /\ a <= (a + b) \div 2 /\ (a + b) \div 2 <= b
  OBVIOUS

\* What the invariant says of the parts of the state while the loop runs.
LEMMA Ranges ==
  ASSUME TypeOK, Call, InRange
  PROVE  /\ NumStabs \in Nat /\ AddrSpace \in Nat
         /\ arg.left \in Index /\ arg.right \in Index /\ arg.left <= arg.right
         /\ Region \subseteq Index
         /\ arg.addr \in Addresses /\ addr \in Addresses
         /\ \A k \in Index : Value(k) \in Addresses
         /\ l \in Int /\ r \in Int /\ region_left \in Int /\ region_right \in Int
  <1>1. arg.left \in Index /\ arg.right \in Index /\ arg.addr \in Addresses
    BY DEF TypeOK
  <1>2. \A k \in Index : Value(k) \in Addresses
    BY DEF TypeOK, Value
  <1> QED BY <1>1, <1>2, TableAssumption DEF TypeOK, Call, Index, Region

\* The table is sorted as far as the search looks.
LEMMA InOrder ==
  ASSUME TypeOK, Call,
         NEW j, j \in Region, NEW k, k \in Region, j <= k, Matches(j), Matches(k)
  PROVE  Value(j) <= Value(k)
  <1>1. CASE j = k
    <2>1. j \in Index
      BY TableAssumption DEF TypeOK, Index, Region
    <2>2. Value(j) \in Int
      BY <2>1, TableAssumption DEF TypeOK, Value, Addresses
    <2> QED BY <1>1, <2>2
  <1>2. CASE j # k
    <2>1. j < k
      BY <1>2 DEF Region, TypeOK, Index
    <2> QED BY <2>1 DEF Call, Sorted, Region, Matches, Value
  <1> QED BY <1>1, <1>2

-----------------------------------------------------------------------------
\* The invariant holds when the search starts.
LEMMA Start == SearchInit => IInv
  <1> SUFFICES ASSUME SearchInit PROVE IInv
    OBVIOUS
  <1>1. arg.left \in Index /\ arg.right \in Index /\ arg.addr \in Addresses
    BY DEF SearchInit
  <1>2. TypeOK
    <2>1. arg.left \in -1 .. NumStabs - 1 /\ arg.right \in -1 .. NumStabs - 1
      BY <1>1, TableAssumption DEF Index
    <2>2. arg.left \in -1 .. NumStabs
      BY <1>1, TableAssumption DEF Index
    <2> QED BY <1>1, <2>1, <2>2 DEF SearchInit, TypeOK
  <1>3. Call /\ InRange
    BY <1>1, TableAssumption DEF SearchInit, Call, InRange, Region, Index
  <1>4. AnyMatches /\ SearchCorrect
    BY DEF SearchInit, AnyMatches, SearchCorrect
  <1>5. Narrowed
    BY <1>1, TableAssumption DEF SearchInit, Narrowed, Advanced, Region, Index
  <1> QED BY <1>2, <1>3, <1>4, <1>5 DEF IInv

\* A half without a stab of the type is passed over.
LEMMA NoProbeStep == IInv /\ NoProbe => IInv'
  <1> SUFFICES ASSUME IInv, NoProbe PROVE IInv'
    OBVIOUS
  <1> USE DEF IInv
  <1>1. /\ pc = "search" /\ pc' = "search" /\ l <= r /\ l' = true_m + 1
        /\ UNCHANGED <<stabs, arg, region_left, region_right, r, any_matches, addr>>
        /\ \A k \in l .. true_m : ~Matches(k)
    BY DEF NoProbe, Searching, fixed
  <1>2. true_m \in Int /\ l <= true_m /\ true_m <= r
    BY <1>1, Ranges, Middle DEF true_m
  <1>3. TypeOK' /\ Call' /\ InRange'
    <2>0. arg.left <= l /\ r <= arg.right
      BY <1>1 DEF InRange
    <2>1. l' <= r + 1 /\ l' >= arg.left /\ r <= arg.right
      BY <1>1, <1>2, <2>0, Ranges DEF Index
    <2>2. l' \in -1 .. NumStabs
      BY <1>1, <1>2, <2>1, Ranges DEF Index
    <2>3. TypeOK'
      BY <1>1, <2>2 DEF TypeOK, Matches, Value
    <2>4. Call'
      BY <1>1 DEF Call, Sorted
    <2>5. InRange'
      BY <1>1, <2>1 DEF InRange, Region
    <2> QED BY <2>3, <2>4, <2>5
  <1>4. AnyMatches' /\ SearchCorrect'
    BY <1>1 DEF AnyMatches, SearchCorrect, Region, Matches
  <1>5. ASSUME RoomAbove' PROVE Narrowed'
    <2>1. RoomAbove
      BY <1>1, <1>5 DEF RoomAbove, Region, Matches, Value
    <2>2. Narrowed
      BY <2>1
    <2>3. ASSUME NEW k \in Region, k < l', Matches(k)
          PROVE  k < l
      BY <1>1, <1>2, <2>3, Ranges DEF Region
    <2> QED BY <1>1, <2>2, <2>3 DEF Narrowed, Advanced, Region, Matches, Value
  <1> QED BY <1>3, <1>4, <1>5

\* The stab that is probed lies in [l, true_m], and no other stab of the type
\* lies between it and true_m.
LEMMA Probed ==
  ASSUME TypeOK, Call, InRange, Searching, NEW m, m \in Index, Probe(m)
  PROVE  /\ l <= m /\ m <= true_m /\ true_m <= r /\ true_m \in Int
         /\ m \in Region /\ Matches(m) /\ Value(m) \in Addresses
         /\ \A k \in Region : m < k /\ k <= true_m => ~Matches(k)
  <1>1. true_m \in Int /\ l <= true_m /\ true_m <= r
    BY Ranges, Middle DEF true_m, Searching
  <1>2. arg.left <= l /\ r <= arg.right
    BY DEF InRange, Searching
  <1>3. l <= m /\ m <= true_m
    BY <1>1, Ranges DEF Probe
  <1>4. m \in Region
    BY <1>1, <1>2, <1>3, Ranges DEF Region, Index
  <1>5. ASSUME NEW k \in Region, m < k, k <= true_m
        PROVE  ~Matches(k)
    BY <1>1, <1>5, Ranges DEF Probe, Region, Index
  <1> QED BY <1>1, <1>3, <1>4, <1>5, Ranges DEF Probe

\* What a turn of the loop that compares leaves alone.
LEMMA CompareKeeps ==
  ASSUME IInv, Searching, NEW m, m \in Region, Matches(m),
         any_matches' = TRUE, UNCHANGED <<fixed, pc>>
  PROVE  /\ Call' /\ AnyMatches' /\ SearchCorrect'
         /\ RoomAbove' => RoomAbove
         /\ Region' = Region
         /\ \A k : (Matches(k)' <=> Matches(k)) /\ Value(k)' = Value(k)
  <1>1. /\ pc = "search" /\ pc' = "search"
        /\ stabs' = stabs /\ arg' = arg /\ any_matches' = TRUE
    BY DEF Searching, fixed
  <1>2. Call' /\ SearchCorrect'
    BY <1>1 DEF IInv, Call, Sorted, SearchCorrect
  <1>3. RoomAbove' => RoomAbove
    BY <1>1 DEF RoomAbove, Region, Matches, Value
  <1>4. AnyMatches'
    BY <1>1 DEF AnyMatches, Region, Matches
  <1> QED BY <1>1, <1>2, <1>3, <1>4 DEF Region, Matches, Value

\* A stab below the address: the search goes on right of the middle.
LEMMA BelowStep ==
  ASSUME IInv, Searching, NEW m, m \in Index, Probe(m), Below(m),
         any_matches' = TRUE, UNCHANGED <<fixed, pc>>
  PROVE  IInv'
  <1> USE DEF IInv
  <1>1. /\ pc = "search" /\ pc' = "search" /\ arg' = arg /\ stabs' = stabs
        /\ Value(m) < addr /\ region_left' = m /\ l' = true_m + 1
        /\ region_right' = region_right /\ r' = r /\ addr' = addr
    BY DEF Searching, fixed, Below
  <1>2. /\ l <= m /\ m <= true_m /\ true_m <= r /\ true_m \in Int
        /\ m \in Region /\ Matches(m) /\ Value(m) \in Addresses
        /\ \A k \in Region : m < k /\ k <= true_m => ~Matches(k)
    BY Probed
  <1>3. /\ Call' /\ AnyMatches' /\ SearchCorrect'
        /\ RoomAbove' => RoomAbove
        /\ Region' = Region
        /\ \A k : (Matches(k)' <=> Matches(k)) /\ Value(k)' = Value(k)
    BY <1>2, CompareKeeps
  <1>4. arg.left <= l /\ r <= arg.right /\ region_right \in arg.left - 1 .. arg.right
    BY <1>1 DEF InRange
  <1>5. arg.left <= l' /\ l' <= r + 1 /\ l' \in -1 .. NumStabs
    BY <1>1, <1>2, <1>4, Ranges DEF Index
  <1>6. TypeOK'
    <2>1. region_left' \in -1 .. NumStabs - 1
      BY <1>1, <1>2, Ranges DEF Index
    <2> QED BY <1>1, <1>5, <2>1 DEF TypeOK
  <1>7. InRange'
    BY <1>1, <1>2, <1>3, <1>4, <1>5 DEF InRange
  <1>8. ASSUME RoomAbove' PROVE Narrowed'
    <2>1. Narrowed /\ RoomAbove
      BY <1>3, <1>8
    <2>2. Value(m) <= arg.addr
      BY <1>1, <1>2, <2>1, Ranges DEF Narrowed, Advanced, Addresses
    <2>3. ASSUME NEW k \in Region, k < l', Matches(k)
          PROVE  Value(k) <= arg.addr
      <3>1. k \in Int /\ m \in Int
        BY <1>2, Ranges DEF Region, Index
      <3>2. k <= m
        BY <1>1, <1>2, <2>3, <3>1
      <3>3. Value(k) <= Value(m)
        BY <1>2, <2>3, <3>2, InOrder
      <3>4. Value(k) \in Addresses /\ arg.addr \in Addresses
        BY Ranges
      <3> QED BY <1>2, <2>2, <3>3, <3>4, Ranges DEF Addresses
    <2>4. r' = arg'.right \/ Matches(r + 1)'
      BY <1>1, <2>1 DEF Narrowed, Matches
    <2>5. (~any_matches)' <=> FALSE
      OBVIOUS
    <2>6. \A k \in Region' : k > r' /\ Matches(k)' => Value(k)' > arg'.addr
      BY <1>1, <1>3, <2>1 DEF Narrowed
    <2>7. \A k \in Region' : k < l' /\ Matches(k)' => Value(k)' <= arg'.addr
      BY <1>1, <1>3, <2>3
    <2>8. Matches(region_left)' /\ Value(region_left)' <= arg'.addr
      <3>1. Matches(region_left)' <=> Matches(m)
        BY <1>1 DEF Matches
      <3>2. Value(region_left)' = Value(m)
        BY <1>1 DEF Value
      <3> QED BY <1>1, <1>2, <2>2, <3>1, <3>2
    <2>9. region_right' = r' /\ Advanced'
      BY <1>1, <1>3, <2>1 DEF Narrowed, Advanced
    <2> QED BY <2>4, <2>5, <2>6, <2>7, <2>8, <2>9 DEF Narrowed
  <1> QED BY <1>3, <1>6, <1>7, <1>8

\* A stab above the address: the search goes on left of it.
LEMMA AboveStep ==
  ASSUME IInv, Searching, NEW m, m \in Index, Probe(m), Above(m),
         any_matches' = TRUE, UNCHANGED <<fixed, pc>>
  PROVE  IInv'
  <1> USE DEF IInv
  <1>1. /\ pc = "search" /\ pc' = "search" /\ arg' = arg /\ stabs' = stabs
        /\ Value(m) > addr /\ region_right' = m - 1 /\ r' = m - 1
        /\ region_left' = region_left /\ l' = l /\ addr' = addr
    BY DEF Searching, fixed, Above
  <1>2. /\ l <= m /\ m <= true_m /\ true_m <= r /\ true_m \in Int
        /\ m \in Region /\ Matches(m) /\ Value(m) \in Addresses
    BY Probed
  <1>3. /\ Call' /\ AnyMatches' /\ SearchCorrect'
        /\ RoomAbove' => RoomAbove
        /\ Region' = Region
        /\ \A k : (Matches(k)' <=> Matches(k)) /\ Value(k)' = Value(k)
    BY <1>2, CompareKeeps
  <1>4. arg.left <= l /\ r <= arg.right /\ region_left \in Region
    BY <1>1 DEF InRange
  <1>5. /\ m \in Int
        /\ l <= r' + 1 /\ r' <= arg.right /\ arg.left - 1 <= r'
        /\ r' \in -1 .. NumStabs - 1
    BY <1>1, <1>2, <1>4, Ranges DEF Index
  <1>6. TypeOK'
    BY <1>1, <1>5 DEF TypeOK
  <1>7. InRange'
    <2>1. r' \in arg.left - 1 .. arg.right
      BY <1>1, <1>5, Ranges DEF Index
    <2> QED BY <1>1, <1>3, <1>4, <1>5, <2>1 DEF InRange
  <1>8. ASSUME RoomAbove' PROVE Narrowed'
    <2>1. Narrowed /\ RoomAbove
      BY <1>3, <1>8
    <2>2. Value(m) > arg.addr
      BY <1>1, <1>2, <2>1, Ranges DEF Narrowed, Advanced, Addresses
    <2>3. ASSUME NEW k \in Region, k > r', Matches(k)
          PROVE  Value(k) > arg.addr
      <3>1. k \in Int
        BY Ranges DEF Region, Index
      <3>2. m <= k
        BY <1>1, <1>5, <2>3, <3>1
      <3>3. Value(m) <= Value(k)
        BY <1>2, <2>3, <3>2, InOrder
      <3>4. Value(k) \in Addresses /\ arg.addr \in Addresses
        BY Ranges
      <3> QED BY <1>2, <2>2, <3>3, <3>4, Ranges DEF Addresses
    <2>4. Matches(r + 1)'
      BY <1>1, <1>2, <1>5 DEF Matches
    <2>5. (~any_matches)' <=> FALSE
      OBVIOUS
    <2>6. \A k \in Region' : k > r' /\ Matches(k)' => Value(k)' > arg'.addr
      BY <1>1, <1>3, <2>3
    <2>7. \A k \in Region' : k < l' /\ Matches(k)' => Value(k)' <= arg'.addr
      BY <1>1, <1>3, <2>1 DEF Narrowed
    <2>8. region_left' = arg'.left
            \/ (Matches(region_left)' /\ Value(region_left)' <= arg'.addr)
      BY <1>1, <2>1 DEF Narrowed, Matches, Value
    <2>9. region_right' = r' /\ Advanced'
      BY <1>1, <1>3, <2>1 DEF Narrowed, Advanced
    <2> QED BY <2>4, <2>5, <2>6, <2>7, <2>8, <2>9 DEF Narrowed
  <1> QED BY <1>3, <1>6, <1>7, <1>8

\* A stab at the address: with no stab of the type at the next one, this can
\* happen only before addr has been incremented.
LEMMA ExactStep ==
  ASSUME IInv, Searching, NEW m, m \in Index, Probe(m), Exact(m),
         any_matches' = TRUE, UNCHANGED <<fixed, pc>>
  PROVE  IInv'
  <1> USE DEF IInv
  <1>1. /\ pc = "search" /\ pc' = "search" /\ arg' = arg /\ stabs' = stabs
        /\ Value(m) = addr /\ region_left' = m /\ l' = m
        /\ addr' = (addr + 1) % AddrSpace
        /\ region_right' = region_right /\ r' = r
    BY DEF Searching, fixed, Exact
  <1>2. /\ l <= m /\ m <= true_m /\ true_m <= r /\ true_m \in Int
        /\ m \in Region /\ Matches(m) /\ Value(m) \in Addresses
    BY Probed
  <1>3. /\ Call' /\ AnyMatches' /\ SearchCorrect'
        /\ RoomAbove' => RoomAbove
        /\ Region' = Region
        /\ \A k : (Matches(k)' <=> Matches(k)) /\ Value(k)' = Value(k)
    BY <1>2, CompareKeeps
  <1>4. arg.left <= l /\ r <= arg.right /\ region_right \in arg.left - 1 .. arg.right
    BY <1>1 DEF InRange
  <1>5. m \in Int /\ m <= r + 1 /\ arg.left <= m /\ m \in -1 .. NumStabs
    BY <1>1, <1>2, <1>4, Ranges DEF Index
  <1>6. TypeOK'
    <2>1. region_left' \in -1 .. NumStabs - 1
      BY <1>1, <1>2, Ranges DEF Index
    <2>2. addr' \in Addresses
      BY <1>1, Ranges, TableAssumption DEF Addresses
    <2> QED BY <1>1, <1>5, <2>1, <2>2 DEF TypeOK
  <1>7. InRange'
    BY <1>1, <1>2, <1>3, <1>4, <1>5 DEF InRange
  <1>8. ASSUME RoomAbove' PROVE Narrowed'
    <2>1. Narrowed /\ RoomAbove
      BY <1>3, <1>8
    <2>2. addr = arg.addr
      BY <1>1, <1>2, <2>1 DEF Narrowed, Advanced, RoomAbove
    <2>3. addr' = arg.addr + 1
      <3>1. arg.addr + 1 < AddrSpace
        BY <1>1, <1>2, <2>1, <2>2 DEF RoomAbove
      <3> QED BY <1>1, <2>2, <3>1, Ranges DEF Addresses
    <2>4. ASSUME NEW k \in Region, k < l', Matches(k)
          PROVE  Value(k) <= arg.addr
      <3>1. k \in Int
        BY Ranges DEF Region, Index
      <3>2. k <= m
        BY <1>1, <1>5, <2>4, <3>1
      <3>3. Value(k) <= Value(m)
        BY <1>2, <2>4, <3>2, InOrder
      <3> QED BY <1>1, <2>2, <3>3
    <2>5. r' = arg'.right \/ Matches(r + 1)'
      BY <1>1, <2>1 DEF Narrowed, Matches
    <2>6. (~any_matches)' <=> FALSE
      OBVIOUS
    <2>7. \A k \in Region' : k > r' /\ Matches(k)' => Value(k)' > arg'.addr
      BY <1>1, <1>3, <2>1 DEF Narrowed
    <2>8. \A k \in Region' : k < l' /\ Matches(k)' => Value(k)' <= arg'.addr
      BY <1>1, <1>3, <2>4
    <2>9. Matches(region_left)' /\ Value(region_left)' <= arg'.addr
      <3>1. Matches(region_left)' <=> Matches(m)
        BY <1>1 DEF Matches
      <3>2. Value(region_left)' = Value(m)
        BY <1>1 DEF Value
      <3> QED BY <1>1, <1>2, <2>2, <3>1, <3>2, Ranges DEF Addresses
    <2>10. region_right' = r' /\ Advanced'
      BY <1>1, <1>2, <1>3, <2>1, <2>2, <2>3 DEF Narrowed, Advanced
    <2> QED BY <2>5, <2>6, <2>7, <2>8, <2>9, <2>10 DEF Narrowed
  <1> QED BY <1>3, <1>6, <1>7, <1>8

\* One turn of the loop that compares.
LEMMA CompareStep == IInv /\ Compare => IInv'
  <1> SUFFICES ASSUME IInv, Compare PROVE IInv'
    OBVIOUS
  <1>1. Searching /\ any_matches' = TRUE /\ UNCHANGED <<fixed, pc>>
    BY DEF Compare
  <1>2. PICK m \in Index : Probe(m) /\ (Below(m) \/ Above(m) \/ Exact(m))
    BY DEF Compare
  <1>3. CASE Below(m)
    BY <1>1, <1>2, <1>3, BelowStep
  <1>4. CASE Above(m)
    BY <1>1, <1>2, <1>4, AboveStep
  <1>5. CASE Exact(m)
    BY <1>1, <1>2, <1>5, ExactStep
  <1> QED BY <1>2, <1>3, <1>4, <1>5

\* With every stab of the type above the address region_left has not moved.
LEMMA LeftEnd ==
  ASSUME IInv, pc = "search", region_left \in Region,
         \A k \in Region : Matches(k) => Value(k) > arg.addr
  PROVE  Narrowed /\ region_left = arg.left
  <1> USE DEF IInv
  <1>1. \A k \in Region : Value(k) \in Int /\ arg.addr \in Int
    BY Ranges DEF Addresses
  <1>2. RoomAbove
    BY <1>1 DEF RoomAbove
  <1> QED BY <1>1, <1>2 DEF Narrowed

\* The loop ended without having seen a stab of the type.
LEMMA NothingFoundStep == IInv /\ NothingFound => IInv'
  <1> SUFFICES ASSUME IInv, NothingFound PROVE IInv'
    OBVIOUS
  <1> USE DEF IInv
  <1>1. /\ pc = "search" /\ pc' = "done" /\ l > r /\ any_matches = FALSE
        /\ region_right' = region_left - 1 /\ region_left' = region_left
        /\ UNCHANGED <<stabs, arg, l, r, any_matches, addr>>
    BY DEF NothingFound, fixed, TypeOK
  <1>2. region_left \in Region
    BY <1>1 DEF InRange
  <1>3. TypeOK'
    <2>1. region_left - 1 \in -1 .. NumStabs - 1
      BY <1>2, Ranges DEF Index
    <2> QED BY <1>1, <2>1 DEF TypeOK
  <1>4. Call' /\ InRange' /\ (RoomAbove' => Narrowed')
    BY <1>1 DEF Call, Sorted, InRange, Narrowed
  <1>5. region_left' > region_right'
    BY <1>1, <1>2, Ranges
  <1>6. AnyMatches'
    BY <1>1, <1>5 DEF AnyMatches
  <1>7. SearchCorrect'
    <2>0. ((\A k \in Region : Matches(k) => Value(k) > arg.addr) /\ ~Matches(arg.left) =>
             region_left = arg.left)'
      <3>1. SUFFICES ASSUME \A k \in Region : Matches(k) => Value(k) > arg.addr
                     PROVE  region_left = arg.left
        BY <1>1 DEF Region, Matches, Value
      <3> QED BY <1>1, <1>2, <3>1, LeftEnd
    <2>1. SUFFICES ASSUME (\E k \in Region : Covers(k))', RoomAbove' PROVE FALSE
      BY <1>5, <2>0 DEF SearchCorrect
    <2>2. RoomAbove
      BY <1>1, <2>1 DEF RoomAbove, Region, Matches, Value
    <2>3. PICK k \in Region : Covers(k)
      BY <1>1, <2>1 DEF Covers, Region, Matches, Value
    <2>4. r = arg.right /\ \A j \in Region : j < l => ~Matches(j)
      BY <1>1, <2>2 DEF Narrowed
    <2>5. k < l
      BY <1>1, <2>4, Ranges DEF Region, Index
    <2> QED BY <2>3, <2>4, <2>5 DEF Covers
  <1> QED BY <1>3, <1>4, <1>6, <1>7

\* The loop ended and region_left moves to the last stab of the type before the
\* place where the two halves met.
LEMMA TrimStep == IInv /\ Trim => IInv'
  <1> SUFFICES ASSUME IInv, Trim PROVE IInv'
    OBVIOUS
  <1> USE DEF IInv
  <1>1. /\ pc = "search" /\ pc' = "done" /\ l > r /\ any_matches
        /\ UNCHANGED <<stabs, arg, region_right, r, any_matches, addr>>
    BY DEF Trim, fixed
  <1>2. PICK k \in -1 .. region_right :
          /\ Stops(k)
          /\ \A j \in k + 1 .. region_right : ~Stops(j)
          /\ l' = k /\ region_left' = k
    BY DEF Trim
  <1>3. /\ region_left \in Region /\ region_right \in arg.left - 1 .. arg.right
        /\ l <= r + 1
    BY <1>1 DEF InRange
  <1>4. TypeOK'
    <2>1. k \in -1 .. NumStabs - 1 /\ k \in -1 .. NumStabs
      BY <1>3, Ranges DEF Index
    <2> QED BY <1>1, <1>2, <2>1 DEF TypeOK
  <1>5. Call' /\ InRange' /\ (RoomAbove' => Narrowed') /\ AnyMatches'
    BY <1>1 DEF Call, Sorted, InRange, Narrowed, AnyMatches, Region, Matches
  <1>6. (\A j \in Region : ~Matches(j))' => FALSE
    BY <1>1 DEF AnyMatches, Region, Matches
  <1>7. ASSUME (\E c \in Region : Covers(c))', RoomAbove' PROVE Bracketed'
    <2>1. PICK c \in Region : Covers(c)
      BY <1>1, <1>7 DEF Covers, Region, Matches, Value
    <2>2. RoomAbove
      BY <1>1, <1>7 DEF RoomAbove, Region, Matches, Value
    <2>3. Narrowed
      BY <2>2
    <2>4. c \in Int /\ Matches(c) /\ Value(c) <= arg.addr
      BY <2>1, Ranges DEF Covers, Region, Index
    <2>5. region_right = r
      BY <1>1, <2>3 DEF Narrowed
    <2>6. c <= r
      <3>1. SUFFICES ASSUME c > r PROVE FALSE
        BY <2>4, Ranges
      <3>2. Value(c) > arg.addr
        BY <1>1, <2>1, <2>3, <2>4, <3>1 DEF Narrowed
      <3>3. Value(c) \in Addresses /\ arg.addr \in Addresses
        BY Ranges
      <3> QED BY <2>4, <3>2, <3>3, Ranges DEF Addresses
    <2>7. region_left <= r
      <3>1. CASE region_left = arg.left
        BY <2>6, <3>1, Ranges DEF Region, Index
      <3>2. CASE Matches(region_left) /\ Value(region_left) <= arg.addr
        <4>1. SUFFICES ASSUME region_left > r PROVE FALSE
          BY Ranges
        <4>2. Value(region_left) > arg.addr
          BY <1>1, <1>3, <2>3, <3>2, <4>1 DEF Narrowed
        <4>3. Value(region_left) \in Addresses /\ arg.addr \in Addresses
          BY <1>3, Ranges
        <4> QED BY <3>2, <4>2, <4>3, Ranges DEF Addresses
      <3> QED BY <1>1, <2>3, <3>1, <3>2 DEF Narrowed
    <2>8. k \in Int /\ region_left <= k /\ k <= r
      <3>1. region_left \in -1 .. region_right /\ Stops(region_left)
        BY <1>3, <2>5, <2>7, Ranges DEF Stops, Region, Index
      <3> QED BY <1>2, <2>5, <3>1, Ranges
    <2>9. c <= k
      <3>1. Stops(c)
        BY <2>4 DEF Stops
      <3> QED BY <1>2, <2>4, <2>5, <2>6, <2>8, <3>1, Ranges
    <2>10. k \in Region
      BY <1>3, <2>5, <2>8, Ranges DEF Region, Index
    <2>11. Matches(k) /\ Value(k) <= arg.addr
      <3>1. CASE k > region_left
        <4>1. Matches(k)
          BY <1>2, <3>1 DEF Stops
        <4>2. k < l
          BY <1>1, <2>8, Ranges
        <4> QED BY <1>1, <2>3, <2>10, <4>1, <4>2 DEF Narrowed
      <3>2. CASE k = region_left
        <4>1. CASE region_left = arg.left
          BY <2>1, <2>4, <2>9, <3>2, <4>1, Ranges DEF Region, Index
        <4>2. CASE Matches(region_left) /\ Value(region_left) <= arg.addr
          BY <3>2, <4>2
        <4> QED BY <1>1, <2>3, <4>1, <4>2 DEF Narrowed
      <3> QED BY <2>8, <3>1, <3>2, Ranges
    <2>12. ASSUME NEW j, j \in Region, j > k, Matches(j) PROVE Value(j) > arg.addr
      <3>1. j \in Int
        BY <2>12, Ranges DEF Region, Index
      <3>2. j > r
        <4>1. SUFFICES ASSUME j <= r PROVE FALSE
          BY <3>1, Ranges
        <4>2. j \in k + 1 .. region_right
          BY <2>5, <2>8, <2>12, <3>1, <4>1, Ranges
        <4>3. ~Stops(j)
          BY <1>2, <4>2
        <4> QED BY <2>12, <4>3 DEF Stops
      <3> QED BY <1>1, <2>3, <2>12, <3>2 DEF Narrowed
    <2>13. Covers(region_left)'
      <3>1. Covers(k)
        BY <2>10, <2>11, <2>12 DEF Covers
      <3>2. region_left' = k
        BY <1>2
      <3> QED BY <1>1, <3>1, <3>2 DEF Covers, Region, Matches, Value
    <2>14. (region_right \in Region /\ region_left <= region_right)'
      BY <1>1, <1>2, <1>3, <2>5, <2>7, <2>8, Ranges DEF Region, Index
    <2>15. (\A j \in region_left + 1 .. region_right : ~Matches(j))'
      BY <1>1, <1>2 DEF Stops, Matches
    <2>16. (region_right = arg.right \/ Matches(region_right + 1))'
      BY <1>1, <2>3, <2>5 DEF Narrowed, Matches
    <2> QED BY <2>13, <2>14, <2>15, <2>16 DEF Bracketed
  <1>8. ASSUME \A j \in Region : Matches(j) => Value(j) > arg.addr, ~Matches(arg.left)
        PROVE  k = arg.left
    <2>1. Narrowed /\ region_left = arg.left
      BY <1>1, <1>3, <1>8, LeftEnd
    <2>2. region_right = r /\ arg.left <= r
      <3>1. region_right = r /\ (r = arg.right \/ Matches(r + 1))
        BY <1>1, <2>1 DEF Narrowed
      <3>2. ASSUME r = arg.left - 1 PROVE FALSE
        <4>1. r + 1 = arg.left /\ r # arg.right
          BY <3>2, Ranges DEF Call, Index
        <4> QED BY <1>8, <3>1, <4>1
      <3> QED BY <1>3, <3>1, <3>2, Ranges DEF Index
    <2>3. arg.left <= k /\ k <= r /\ k \in Int
      <3>1. arg.left \in -1 .. region_right /\ Stops(arg.left)
        BY <2>1, <2>2, Ranges DEF Stops, Index
      <3> QED BY <1>2, <2>2, <3>1, Ranges DEF Index
    <2>4. SUFFICES ASSUME arg.left < k PROVE FALSE
      BY <2>3, Ranges DEF Index
    <2>5. Matches(k)
      BY <1>2, <2>1, <2>4 DEF Stops
    <2>6. k \in Region /\ k < l
      BY <1>1, <1>3, <2>2, <2>3, Ranges DEF Region, Index
    <2>7. Value(k) <= arg.addr /\ Value(k) > arg.addr
      BY <1>1, <1>8, <2>1, <2>5, <2>6 DEF Narrowed
    <2> QED BY <2>6, <2>7, Ranges DEF Addresses
  <1>9. ((\A j \in Region : Matches(j) => Value(j) > arg.addr) /\ ~Matches(arg.left) =>
           region_left = arg.left)'
    BY <1>1, <1>2, <1>8 DEF Region, Matches, Value
  <1>10. SearchCorrect'
    BY <1>6, <1>7, <1>9 DEF SearchCorrect
  <1> QED BY <1>4, <1>5, <1>10

-----------------------------------------------------------------------------
\* A step of the search, or none, keeps the invariant.
LEMMA SearchStepInv == IInv /\ [SearchNext]_searchvars => IInv'
  <1> SUFFICES ASSUME IInv, [SearchNext]_searchvars PROVE IInv'
    OBVIOUS
  <1>1. CASE NoProbe
    BY <1>1, NoProbeStep
  <1>2. CASE Compare
    BY <1>2, CompareStep
  <1>3. CASE NothingFound
    BY <1>3, NothingFoundStep
  <1>4. CASE Trim
    BY <1>4, TrimStep
  <1>5. CASE UNCHANGED searchvars
    BY <1>5 DEF searchvars, fixed, IInv, TypeOK, Call, Sorted, InRange, AnyMatches,
                Narrowed, Advanced, SearchCorrect, RoomAbove, Bracketed, Covers,
                Region, Matches, Value
  <1> QED BY <1>1, <1>2, <1>3, <1>4, <1>5 DEF SearchNext

\* The invariant holds throughout every search.
THEOREM SearchInvariance == SearchSpec => []IInv
  BY Start, SearchStepInv, PTL DEF SearchSpec

\* Every local and every result of stab_binsearch stays within the table, or
\* one place beside it, for every table, address and part of the table.
THEOREM TypeCorrect == SearchSpec => []TypeOK
  <1>1. IInv => TypeOK
    BY DEF IInv
  <1> QED BY SearchInvariance, <1>1, PTL

\* When stab_binsearch returns, it has bracketed the address wherever some stab
\* of the type contains it, none lies at the very next address and there is
\* such an address; and it says so when there is no stab of the type.
THEOREM Correct == SearchSpec => []SearchCorrect
  <1>1. IInv => SearchCorrect
    BY DEF IInv
  <1> QED BY SearchInvariance, <1>1, PTL

-----------------------------------------------------------------------------
(* debuginfo_eip *)

\* The stabs lfile .. rfile are those of the file that contains the address.
TheFile(first, last) ==
  /\ LastBelow("SO") = {first}
  /\ first \in Index /\ last \in Index /\ first # 0 /\ first <= last
  /\ \A j \in first + 1 .. last : Type(j) # "SO"
  /\ last = NumStabs - 1 \/ Type(last + 1) = "SO"

Asked(left, right, type) ==
  arg = [left |-> left, right |-> right, type |-> type, addr |-> eip]

Unanswered ==
  info = [file |-> Unknown, fn_name |-> Unknown, fn_addr |-> eip, fn_narg |-> 0]

\* While a search runs it satisfies its invariant; the second one runs within
\* the file the first one found; what is returned is what the table says.
DebugInv ==
  /\ stabs \in Tables /\ eip \in Addresses
  /\ phase \in {"call", "file", "function", "return", "panic"}
  /\ phase \in {"call", "file", "function"} => Unanswered
  /\ phase = "file" => strings_ok /\ IInv /\ Asked(0, NumStabs - 1, "SO")
  /\ phase = "function" =>
       strings_ok /\ IInv /\ Asked(lfile, rfile, "FUN") /\ TheFile(lfile, rfile)
  /\ FunctionReported /\ FileReported /\ AssemblyReported /\ RefusedOnlyOutside

\* A set of natural numbers has a least one, one with an upper bound a greatest.
LEMMA LeastOf ==
  ASSUME NEW T, T \subseteq Nat, T # {}
  PROVE  \E m \in T : \A n \in T : m <= n
  <1>1. PICK m \in T : \A n \in T : ~(<<n, m>> \in OpToRel(<, Nat))
    BY NatLessThanWellFounded, WFMin
  <1>2. ASSUME NEW n \in T PROVE m <= n
    <2>1. ~(n < m)
      BY <1>1 DEF OpToRel
    <2> QED BY <2>1
  <1> QED BY <1>2

LEMMA GreatestOf ==
  \A b \in Int : \A T \in SUBSET (0 .. b) : T # {} => \E m \in T : \A n \in T : n <= m
  <1> SUFFICES ASSUME NEW b \in Int, NEW T \in SUBSET (0 .. b), T # {}
               PROVE  \E m \in T : \A n \in T : n <= m
    OBVIOUS
  <1> DEFINE below == {b - n : n \in T}
  <1>1. PICK d \in below : \A n \in below : d <= n
    <2>1. \A n \in T : n \in Int /\ n <= b
      OBVIOUS
    <2>2. \A n \in T : b - n \in Nat
      BY <2>1
    <2>3. below \subseteq Nat /\ below # {}
      BY <2>2
    <2> QED BY <2>3, LeastOf
  <1>2. PICK m \in T : d = b - m
    OBVIOUS
  <1>3. ASSUME NEW n \in T PROVE n <= m
    <2>1. d <= b - n
      BY <1>1
    <2> QED BY <1>2, <2>1
  <1> QED BY <1>3

\* What the assumption on the tables gives for the one in the kernel.
LEMMA Table ==
  ASSUME stabs \in Tables
  PROVE  /\ NumStabs \in Nat \ {0} /\ AddrSpace \in Nat /\ ULIM \in Nat /\ ULIM >= 1
         /\ WellFormed(stabs) /\ StabTypes \subseteq Types
         /\ \A k \in Index : k \in Int /\ Type(k) \in Types /\ Value(k) \in Addresses
         /\ Addresses \subseteq Int
  <1>1. NumStabs \in Nat \ {0} /\ AddrSpace \in Nat /\ ULIM \in Nat /\ ULIM >= 1
    BY TableAssumption, TablesAssumption
  <1>2. WellFormed(stabs) /\ StabTypes \subseteq Types
    BY TablesAssumption
  <1> QED BY <1>1, <1>2 DEF WellFormed, Index, Type, Value, Addresses

LEMMA RegionInTable ==
  ASSUME TypeOK, NumStabs \in Nat
  PROVE  Region \subseteq Index /\ arg.addr \in Addresses
  <1>1. arg.left \in Index /\ arg.right \in Index /\ arg.addr \in Addresses
    BY DEF TypeOK
  <1> QED BY <1>1 DEF Region, Index

\* Files and functions are far enough apart for the search.
LEMMA Room ==
  ASSUME stabs \in Tables, TypeOK, arg.type \in {"SO", "FUN"}
  PROVE  RoomAbove
  <1> USE Table
  <1>1. SUFFICES ASSUME NEW k \in Region, Matches(k), Value(k) = arg.addr
                 PROVE  /\ arg.addr + 1 < AddrSpace
                        /\ \A j \in Region : Matches(j) => Value(j) # arg.addr + 1
    BY DEF RoomAbove
  <1>2. Region \subseteq Index
    BY RegionInTable
  <1>3. Value(k) \in ULIM .. AddrSpace - 2
    BY <1>1, <1>2 DEF WellFormed, Matches, Value
  <1>4. ASSUME NEW j \in Region, Matches(j), Value(j) = Value(k) + 1 PROVE FALSE
    <2>1. j \in Index /\ k \in Index /\ j # k /\ Value(j) \in Int /\ Value(k) \in Int
      BY <1>2, <1>4
    <2>2. Ascending(stabs, arg.type)
      BY DEF WellFormed
    <2>3. CASE j < k
      BY <1>1, <1>4, <2>1, <2>2, <2>3 DEF Ascending, Matches, Value
    <2>4. CASE k < j
      BY <1>1, <1>4, <2>1, <2>2, <2>4 DEF Ascending, Matches, Value
    <2> QED BY <2>1, <2>3, <2>4
  <1> QED BY <1>1, <1>3, <1>4

\* The outcome of a search for a file or a function.
LEMMA Found ==
  ASSUME stabs \in Tables, IInv, pc = "done", arg.type \in {"SO", "FUN"}
  PROVE  /\ \A k \in Region : Covers(k) => k = region_left /\ Bracketed
         /\ (\A k \in Region : ~Covers(k)) /\ ~Matches(arg.left) => region_left = arg.left
         /\ (\A k \in Region : ~Matches(k)) => region_left > region_right
  <1> USE Table
  <1>1. TypeOK /\ SearchCorrect /\ RoomAbove
    BY Room DEF IInv
  <1>2. Region \subseteq Index /\ arg.addr \in Addresses
    BY <1>1, RegionInTable
  <1>3. ASSUME NEW k \in Region, Covers(k) PROVE k = region_left /\ Bracketed
    <2>1. Bracketed
      BY <1>1, <1>3 DEF SearchCorrect
    <2>2. Covers(region_left)
      BY <2>1 DEF Bracketed
    <2> QED BY <1>2, <1>3, <2>1, <2>2 DEF Covers
  <1>4. ASSUME \A k \in Region : ~Covers(k), ~Matches(arg.left)
        PROVE  region_left = arg.left
    <2>1. ASSUME NEW k \in Region, Matches(k), Value(k) <= arg.addr PROVE FALSE
      <3> DEFINE low == {j \in Region : Matches(j) /\ Value(j) <= arg.addr}
      <3>1. PICK j \in low : \A i \in low : i <= j
        <4>1. low \subseteq 0 .. NumStabs - 1 /\ low # {}
          BY <1>2, <2>1 DEF Index
        <4>2. \A S \in SUBSET (0 .. NumStabs - 1) : S # {} => \E j \in S : \A i \in S : i <= j
          <5>1. NumStabs - 1 \in Int
            OBVIOUS
          <5> QED BY ONLY <5>1, GreatestOf, Zenon
        <4> QED BY <4>1, <4>2
      <3>2. Covers(j)
        BY <1>2, <3>1 DEF Covers
      <3> QED BY <1>4, <3>2
    <2>2. \A k \in Region : Matches(k) => Value(k) > arg.addr
      BY <1>2, <2>1
    <2> QED BY <1>1, <1>4, <2>2 DEF SearchCorrect
  <1> QED BY <1>1, <1>3, <1>4 DEF SearchCorrect

\* A search that is started satisfies its invariant.
LEMMA StartedSearch ==
  ASSUME stabs \in Tables, eip \in Addresses, UNCHANGED stabs,
         NEW left \in Index, NEW right \in Index, left <= right,
         NEW type \in {"SO", "FUN"}, StartSearch(left, right, type)
  PROVE  IInv'
  <1> USE Table
  <1>1. SearchInit'
    <2>1. type \in Types
      BY DEF StabTypes
    <2>2. arg' = [left |-> left, right |-> right, type |-> type, addr |-> eip]
      BY DEF StartSearch
    <2>3. Sorted(stabs, arg')
      <3>1. Ascending(stabs, type)
        BY DEF WellFormed
      <3> QED BY <2>2, <3>1 DEF Ascending, Sorted, Value, Index
    <2>4. stabs \in [Index -> [n_type : Types, n_value : Addresses]]
      BY DEF WellFormed
    <2>5. Sorted(stabs', arg')
      BY <2>3
    <2> QED BY <2>1, <2>2, <2>4, <2>5 DEF SearchInit, StartSearch
  <1>2. SearchInit' => IInv'
    BY Start, PTL
  <1> QED BY <1>1, <1>2

\* What the first search says: that no file contains the address, or which one.
LEMMA FileFound ==
  ASSUME DebugInv, phase = "file", pc = "done"
  PROVE  /\ region_left = 0 => LastBelow("SO") = {}
         /\ region_left # 0 => TheFile(region_left, region_right)
  <1>1. /\ stabs \in Tables /\ IInv /\ Asked(0, NumStabs - 1, "SO")
    BY DEF DebugInv
  <1> USE <1>1, Table
  <1>2. /\ Region = Index /\ arg.left = 0 /\ arg.right = NumStabs - 1
        /\ \A k \in Index : (Covers(k) <=> k \in LastBelow("SO"))
                            /\ (Matches(k) <=> Type(k) = "SO")
    <2>1. /\ arg.left = 0 /\ arg.right = NumStabs - 1 /\ arg.addr = eip
          /\ \A k : Matches(k) <=> Type(k) = "SO"
      BY DEF Asked, Matches, Type
    <2>2. Region = Index
      BY <2>1 DEF Region, Index
    <2>3. ASSUME NEW k \in Index PROVE Covers(k) <=> k \in LastBelow("SO")
      BY <2>1, <2>2 DEF Covers, LastBelow, Index
    <2> QED BY <2>1, <2>2, <2>3
  <1>3. Type(0) # "SO" /\ 0 \in Index
    BY DEF WellFormed, Type, Index
  <1>4. /\ \A k \in Index : Covers(k) => k = region_left /\ Bracketed
        /\ (\A k \in Index : ~Covers(k)) => region_left = 0
    <2>1. arg.type \in {"SO", "FUN"}
      BY DEF Asked
    <2> QED BY <1>2, <1>3, <2>1, Found
  <1>5. LastBelow("SO") \subseteq Index
    BY DEF LastBelow
  <1>6. CASE LastBelow("SO") = {}
    BY <1>2, <1>4, <1>6
  <1>7. ASSUME NEW k, k \in LastBelow("SO")
        PROVE  region_left # 0 /\ TheFile(region_left, region_right)
    <2>1. Covers(k) /\ k \in Index /\ Type(k) = "SO"
      BY <1>2, <1>5, <1>7 DEF LastBelow
    <2>2. k = region_left /\ Bracketed
      BY <1>4, <2>1
    <2>3. LastBelow("SO") = {region_left}
      BY <1>2, <1>4, <1>5, <1>7, <2>2
    <2>4. /\ region_right \in Index /\ region_left <= region_right
          /\ \A j \in region_left + 1 .. region_right : Type(j) # "SO"
          /\ region_right = NumStabs - 1 \/ Type(region_right + 1) = "SO"
      BY <1>1, <1>2, <2>2 DEF Bracketed, Asked, Matches, Type
    <2> QED BY <1>3, <2>1, <2>2, <2>3, <2>4 DEF TheFile
  <1> QED BY <1>6, <1>7

\* Inside the file the second search looks at the stabs the table as a whole
\* calls the file's functions.
LEMMA InFile ==
  ASSUME stabs \in Tables, TheFile(lfile, rfile), NEW f \in Index, Type(f) = "FUN"
  PROVE  FileOf(f) = {lfile} <=> f \in lfile .. rfile
  <1> USE Table
  <1>1. /\ lfile \in Index /\ rfile \in Index /\ lfile <= rfile
        /\ Type(lfile) = "SO"
        /\ \A j \in lfile + 1 .. rfile : Type(j) # "SO"
        /\ rfile = NumStabs - 1 \/ Type(rfile + 1) = "SO"
    BY DEF TheFile, LastBelow
  <1>2. ASSUME FileOf(f) = {lfile} PROVE f \in lfile .. rfile
    <2>1. lfile <= f /\ \A j \in lfile + 1 .. f : Type(j) # "SO"
      BY <1>1, <1>2 DEF FileOf, Index
    <2>2. ASSUME f > rfile PROVE FALSE
      <3>1. rfile + 1 \in lfile + 1 .. f /\ rfile # NumStabs - 1
        BY <1>1, <2>2 DEF Index
      <3> QED BY <1>1, <2>1, <3>1
    <2> QED BY <1>1, <2>1, <2>2 DEF Index
  <1>3. ASSUME f \in lfile .. rfile PROVE FileOf(f) = {lfile}
    <2>1. lfile \in FileOf(f)
      BY <1>1, <1>3 DEF FileOf, Index
    <2>2. ASSUME NEW s \in FileOf(f) PROVE s = lfile
      <3>1. s \in 0 .. f /\ Type(s) = "SO" /\ \A j \in s + 1 .. f : Type(j) # "SO"
        BY <2>2 DEF FileOf
      <3>2. ~(s < lfile)
        BY <1>1, <1>3, <3>1 DEF Index
      <3>3. ~(s > lfile)
        BY <1>1, <1>3, <3>1 DEF Index
      <3> QED BY <1>1, <3>1, <3>2, <3>3 DEF Index
    <2> QED BY <2>1, <2>2
  <1> QED BY <1>2, <1>3

\* What the second search says: which function contains the address, and that
\* there is none in a file without functions.
LEMMA FunctionSearched ==
  ASSUME DebugInv, phase = "function", pc = "done"
  PROVE  /\ \A f \in TheFunction : f = region_left /\ Bracketed
         /\ (\A f \in Index : Type(f) = "FUN" => FileOf(f) # {lfile}) => region_left > region_right
  <1>1. stabs \in Tables /\ IInv /\ Asked(lfile, rfile, "FUN") /\ TheFile(lfile, rfile)
    BY DEF DebugInv
  <1> USE <1>1, Table
  <1>2. /\ Region = lfile .. rfile /\ arg.type = "FUN" /\ arg.addr = eip
        /\ lfile \in Index /\ rfile \in Index
        /\ \A k : Matches(k) <=> Type(k) = "FUN"
    BY DEF Asked, Region, Matches, Type, TheFile
  <1>3. Region \subseteq Index
    BY <1>2 DEF Index
  <1>4. ASSUME NEW f \in TheFunction PROVE f = region_left /\ Bracketed
    <2>1. /\ f \in Index /\ Type(f) = "FUN" /\ Value(f) <= eip /\ FileOf(f) = {lfile}
          /\ \A j \in f + 1 .. NumStabs - 1 : Type(j) = "FUN" => Value(j) > eip
      BY <1>4 DEF TheFunction, LastBelow, TheFile
    <2>2. f \in Region
      BY <1>2, <2>1, InFile
    <2>3. \A j \in Region : j > f /\ Matches(j) => Value(j) > arg.addr
      BY <1>2, <1>3, <2>1 DEF Index
    <2>4. Covers(f)
      BY <1>2, <2>1, <2>2, <2>3 DEF Covers
    <2> QED BY <1>2, <2>2, <2>4, Found
  <1>5. ASSUME \A f \in Index : Type(f) = "FUN" => FileOf(f) # {lfile}
        PROVE  region_left > region_right
    <2>1. \A k \in Region : ~Matches(k)
      BY <1>2, <1>3, <1>5, InFile
    <2> QED BY <1>2, <2>1, Found
  <1> QED BY <1>4, <1>5

\* The parameter loop stops where the parameters of the function end.
LEMMA ParametersCounted ==
  ASSUME DebugInv, phase = "function", pc = "done", Bracketed, Type(region_left) = "FUN"
  PROVE  Parameters(region_left, region_right) = ParametersOf(region_left)
  <1>1. stabs \in Tables /\ IInv /\ Asked(lfile, rfile, "FUN") /\ TheFile(lfile, rfile)
    BY DEF DebugInv
  <1> USE <1>1, Table
  <1> DEFINE f == region_left  e == region_right
  <1>2. /\ f \in Index /\ e \in Index /\ f <= e /\ e \in lfile .. rfile /\ f \in lfile .. rfile
        /\ \A j \in f + 1 .. e : Type(j) # "FUN"
        /\ e = rfile \/ Type(e + 1) = "FUN"
        /\ lfile \in Index /\ rfile \in Index
        /\ \A j \in lfile + 1 .. rfile : Type(j) # "SO"
        /\ rfile = NumStabs - 1 \/ Type(rfile + 1) = "SO"
    <2>1. /\ Region = lfile .. rfile /\ arg.right = rfile
          /\ \A k : Matches(k) <=> Type(k) = "FUN"
      BY DEF Asked, Region, Matches, Type
    <2>2. lfile \in Index /\ rfile \in Index
      BY DEF TheFile
    <2>3. Region \subseteq Index
      BY <2>1, <2>2 DEF Index
    <2> QED BY <2>1, <2>2, <2>3 DEF Bracketed, Covers, TheFile
  <1>3. e # NumStabs - 1 => e + 1 \in Index /\ Type(e + 1) \in {"FUN", "SO"}
    BY <1>2 DEF Index
  <1>4. Type(e) # "PSYM"
    BY <1>2, <1>3 DEF WellFormed, Type, Index
  <1>5. ASSUME NEW j \in Parameters(f, e) PROVE j \in ParametersOf(f)
    BY <1>2, <1>5, SMTT(20) DEF Parameters, ParametersOf, Index
  <1>6. ASSUME NEW j \in ParametersOf(f) PROVE j \in Parameters(f, e)
    <2>1. /\ j \in Index /\ j > f /\ Type(j) = "PSYM"
          /\ \A i \in f + 1 .. j : Type(i) \notin {"FUN", "SO"}
      BY <1>6 DEF ParametersOf
    <2>2. j <= e
      <3>1. SUFFICES ASSUME j > e PROVE FALSE
        BY <1>2, <2>1 DEF Index
      <3>2. e + 1 \in f + 1 .. j /\ e # NumStabs - 1
        BY <1>2, <2>1, <3>1 DEF Index
      <3> QED BY <1>3, <2>1, <3>2
    <2>3. j \in f + 1 .. e - 1
      BY <1>2, <1>4, <2>1, <2>2 DEF Index
    <2>4. ASSUME NEW x \in f + 1 .. j, Type(x) # "PSYM" PROVE FALSE
      <3> DEFINE others == {i \in f + 1 .. j : Type(i) # "PSYM"}
      <3>1. PICK m \in others : \A i \in others : i <= m
        <4>1. others \in SUBSET (0 .. j) /\ others # {}
          BY <1>2, <2>1, <2>4 DEF Index
        <4>2. \A S \in SUBSET (0 .. j) : S # {} => \E k \in S : \A i \in S : i <= k
          <5>1. j \in Int
            BY <2>1
          <5> QED BY ONLY <5>1, GreatestOf, Zenon
        <4> QED BY <4>1, <4>2
      <3>2. m \in f + 1 .. j - 1 /\ m \in Int
        BY <1>2, <2>1, <3>1 DEF Index
      <3>3. m + 1 \in f + 1 .. j /\ m + 1 \in Index /\ m + 1 \notin others
        BY <1>2, <2>1, <3>1, <3>2 DEF Index
      <3>4. Type(m + 1) = "PSYM"
        BY <3>3
      <3>5. Type((m + 1) - 1) \in {"FUN", "PSYM"}
        BY <3>3, <3>4 DEF WellFormed, Type
      <3> QED BY <2>1, <3>1, <3>2, <3>5
    <2> QED BY <2>3, <2>4 DEF Parameters
  <1> QED BY <1>5, <1>6

\* The walk back from a function finds the file's name the compiler read last.
LEMMA FileWalked ==
  ASSUME stabs \in Tables, TheFile(lfile, rfile), NEW f \in Index,
         lfile \in FileOf(f)
  PROVE  FileNamedFrom(f) =
           Named(CHOOSE j \in 0 .. f :
                   /\ Type(j) \in {"SO", "SOL"}
                   /\ \A i \in j + 1 .. f : Type(i) \notin {"SO", "SOL"})
  <1> USE Table
  <1> DEFINE names == {j \in lfile .. f : NamesFile(j)}
             Read(j) == /\ Type(j) \in {"SO", "SOL"}
                        /\ \A i \in j + 1 .. f : Type(i) \notin {"SO", "SOL"}
  <1>1. /\ lfile \in Index /\ lfile <= f /\ Type(lfile) = "SO"
        /\ \A j \in lfile + 1 .. f : Type(j) # "SO"
    BY DEF TheFile, FileOf, Index
  <1>2. \A j \in Index : NamesFile(j) <=> Type(j) \in {"SO", "SOL"}
    <2>1. \A j \in Index : Type(j) = "SO" => Value(j) # 0
      BY DEF WellFormed, Type, Value
    <2> QED BY <2>1 DEF NamesFile
  <1>3. lfile \in names /\ names \in SUBSET (0 .. f)
    BY <1>1, <1>2 DEF Index
  <1>4. PICK m \in names : \A i \in names : i <= m
    <2>1. \A S \in SUBSET (0 .. f) : S # {} => \E k \in S : \A i \in S : i <= k
      <3>1. f \in Int
        OBVIOUS
      <3> QED BY ONLY <3>1, GreatestOf, Zenon
    <2> HIDE DEF names
    <2> QED BY <1>3, <2>1
  <1>5. m \in 0 .. f /\ lfile <= m /\ Read(m)
    BY <1>1, <1>2, <1>3, <1>4 DEF Index
  <1>6. ASSUME NEW j \in 0 .. f, Read(j) PROVE j = m
    <2>1. ~(j < m)
      BY <1>5, <1>6
    <2>2. ~(m < j)
      BY <1>5, <1>6
    <2> QED BY <1>5, <2>1, <2>2
  <1>7. (CHOOSE j \in 0 .. f : Read(j)) = m
    BY <1>5, <1>6
  <1>8. ASSUME NEW j \in names, \A i \in names : i <= j PROVE j = m
    BY <1>3, <1>4, <1>8
  <1>9. (CHOOSE j \in names : \A i \in names : i <= j) = m
    <2> HIDE DEF names
    <2> QED BY <1>4, <1>8
  <1> QED BY <1>3, <1>7, <1>9 DEF FileNamedFrom, Named

\* The second search runs where the first one ended.
LEMMA SearchFunctionsStep == DebugInv /\ SearchFunctions => DebugInv'
  <1> SUFFICES ASSUME DebugInv, SearchFunctions PROVE DebugInv'
    OBVIOUS
  <1>1. /\ phase = "file" /\ pc = "done" /\ region_left # 0 /\ phase' = "function"
        /\ lfile' = region_left /\ rfile' = region_right
        /\ StartSearch(region_left, region_right, "FUN")
        /\ UNCHANGED <<stabs, eip, strings_ok, named, info, result>>
    BY DEF SearchFunctions, given
  <1>2. stabs \in Tables /\ eip \in Addresses /\ strings_ok /\ Unanswered
    BY <1>1 DEF DebugInv
  <1>3. TheFile(region_left, region_right)
    BY <1>1, FileFound
  <1>4. IInv'
    BY <1>1, <1>2, <1>3, StartedSearch DEF TheFile
  <1>5. Asked(lfile, rfile, "FUN")'
    BY <1>1 DEF StartSearch, Asked
  <1>6. TheFile(lfile, rfile)'
    BY <1>1, <1>3 DEF TheFile, LastBelow, Type, Value
  <1>7. Unanswered'
    BY <1>1, <1>2 DEF Unanswered
  <1> QED BY <1>1, <1>2, <1>4, <1>5, <1>6, <1>7 DEF DebugInv, Answered, FunctionReported,
             FileReported, AssemblyReported, RefusedOnlyOutside

\* A file is refused only if none contains the address.
LEMMA NoFileStep == DebugInv /\ NoFile => DebugInv'
  <1> SUFFICES ASSUME DebugInv, NoFile PROVE DebugInv'
    OBVIOUS
  <1>1. /\ phase = "file" /\ pc = "done" /\ region_left = 0
        /\ phase' = "return" /\ result' = -1
        /\ UNCHANGED <<stabs, eip, strings_ok, named>>
    BY DEF NoFile, Return, given
  <1>2. LastBelow("SO") = {}
    BY <1>1, FileFound
  <1>3. LastBelow("SO")' = LastBelow("SO")
    BY <1>1 DEF LastBelow, Type, Value
  <1>4. ~Answered'
    BY <1>1 DEF Answered
  <1>5. (FunctionReported /\ FileReported /\ AssemblyReported)'
    BY <1>4 DEF FunctionReported, FileReported, AssemblyReported
  <1>6. RefusedOnlyOutside'
    BY <1>1, <1>2, <1>3 DEF RefusedOnlyOutside
  <1> QED BY <1>1, <1>5, <1>6 DEF DebugInv

\* What the properties are about does not change when an answer is given.
LEMMA SameTable ==
  ASSUME UNCHANGED <<stabs, eip, named>>
  PROVE  /\ LastBelow("SO")' = LastBelow("SO")
         /\ TheFunction' = TheFunction
         /\ \A k : FileOf(k)' = FileOf(k) /\ ParametersOf(k)' = ParametersOf(k)
                   /\ Type(k)' = Type(k) /\ Value(k)' = Value(k) /\ Named(k)' = Named(k)
  BY DEF LastBelow, TheFunction, FileOf, ParametersOf, Type, Value, Named

\* The answer for an address in a function.
LEMMA FunctionFoundStep == DebugInv /\ FunctionFound => DebugInv'
  <1> SUFFICES ASSUME DebugInv, FunctionFound PROVE DebugInv'
    OBVIOUS
  <1>1. /\ phase = "function" /\ pc = "done" /\ region_left <= region_right
        /\ info' = [file    |-> FileNamedFrom(region_left),
                    fn_name |-> IF region_left \in named THEN region_left ELSE Unknown,
                    fn_addr |-> Value(region_left),
                    fn_narg |-> Cardinality(Parameters(region_left, region_right))]
        /\ phase' = "return" /\ result' = 0
        /\ UNCHANGED <<stabs, eip, strings_ok, named>>
    BY DEF FunctionFound, Return, given
  <1>2. /\ stabs \in Tables /\ strings_ok /\ IInv /\ TheFile(lfile, rfile)
    BY <1>1 DEF DebugInv
  <1>3. /\ \A f \in TheFunction : f = region_left /\ Bracketed
        /\ (\A f \in Index : Type(f) = "FUN" => FileOf(f) # {lfile}) => region_left > region_right
    BY <1>1, FunctionSearched
  <1>4. FunctionReported'
    <2>1. ASSUME NEW f \in TheFunction
          PROVE  /\ info'.fn_name = Named(f) /\ info'.fn_addr = Value(f)
                 /\ info'.fn_narg = Cardinality(ParametersOf(f))
      <3>1. f = region_left /\ Bracketed /\ Type(region_left) = "FUN"
        BY <1>3, <2>1 DEF TheFunction, LastBelow
      <3>2. Parameters(region_left, region_right) = ParametersOf(region_left)
        BY <1>1, <3>1, ParametersCounted
      <3> QED BY <1>1, <3>1, <3>2 DEF Named
    <2> QED BY <1>1, <2>1, SameTable DEF FunctionReported
  <1>5. FileReported'
    <2>1. ASSUME NEW f \in TheFunction
          PROVE  info'.file = Named(CHOOSE j \in 0 .. f :
                                /\ Type(j) \in {"SO", "SOL"}
                                /\ \A i \in j + 1 .. f : Type(i) \notin {"SO", "SOL"})
      <3>1. f = region_left /\ f \in Index /\ lfile \in FileOf(f)
        BY <1>2, <1>3, <2>1 DEF TheFunction, LastBelow, TheFile
      <3> QED BY <1>1, <1>2, <3>1, FileWalked
    <2> QED BY <1>1, <2>1, SameTable DEF FileReported, Type, Named
  <1>6. AssemblyReported'
    <2>1. ~(\A f \in Index : Type(f) = "FUN" => FileOf(f) # {lfile})
      <3>1. region_left \in Int /\ region_right \in Int
        BY <1>2, TableAssumption DEF IInv, TypeOK
      <3> QED BY <1>1, <1>3, <3>1
    <2>2. LastBelow("SO") = {lfile}
      BY <1>2 DEF TheFile
    <2> QED BY <1>1, <2>1, <2>2, SameTable DEF AssemblyReported
  <1>7. RefusedOnlyOutside'
    BY <1>1, <1>2, SameTable DEF RefusedOnlyOutside, TheFile
  <1> QED BY <1>1, <1>2, <1>4, <1>5, <1>6, <1>7 DEF DebugInv

\* The answer for an address in a file without functions.
LEMMA NoFunctionStep == DebugInv /\ NoFunction => DebugInv'
  <1> SUFFICES ASSUME DebugInv, NoFunction PROVE DebugInv'
    OBVIOUS
  <1>1. /\ phase = "function" /\ pc = "done" /\ region_left > region_right
        /\ info' = [info EXCEPT !.file = FileNamedFrom(lfile), !.fn_addr = eip]
        /\ phase' = "return" /\ result' = 0
        /\ UNCHANGED <<stabs, eip, strings_ok, named>>
    BY DEF NoFunction, Return, given
  <1>2. /\ stabs \in Tables /\ strings_ok /\ IInv /\ TheFile(lfile, rfile) /\ Unanswered
    BY <1>1 DEF DebugInv
  <1>3. TheFunction = {}
    <2>1. ASSUME NEW f \in TheFunction PROVE FALSE
      <3>1. Bracketed
        BY <1>1, <2>1, FunctionSearched
      <3>2. region_left \in Int /\ region_right \in Int
        BY <1>2, TableAssumption DEF IInv, TypeOK
      <3> QED BY <1>1, <3>1, <3>2 DEF Bracketed
    <2> QED BY <2>1
  <1>4. (FunctionReported /\ FileReported)'
    BY <1>1, <1>3, SameTable DEF FunctionReported, FileReported
  <1>5. FileNamedFrom(lfile) = Named(lfile)
    <2>1. lfile \in Index /\ Type(lfile) = "SO" /\ lfile \in Int
      BY <1>2, Table DEF TheFile, LastBelow
    <2>2. NamesFile(lfile)
      <3>1. Value(lfile) # 0
        BY <1>2, <2>1, Table DEF WellFormed, Type, Value
      <3> QED BY <2>1, <3>1 DEF NamesFile
    <2> DEFINE names == {j \in lfile .. lfile : NamesFile(j)}
    <2>3. names = {lfile}
      BY <2>1, <2>2
    <2>4. (CHOOSE j \in names : \A i \in names : i <= j) = lfile
      <3> HIDE DEF names
      <3> QED BY <2>1, <2>3
    <2>5. names # {}
      BY <2>3
    <2> QED BY <2>4, <2>5 DEF FileNamedFrom, Named
  <1>6. AssemblyReported'
    <2>1. LastBelow("SO") = {lfile}
      BY <1>2 DEF TheFile
    <2>2. info' = [file |-> Named(lfile), fn_name |-> Unknown, fn_addr |-> eip, fn_narg |-> 0]
      BY <1>1, <1>2, <1>5 DEF Unanswered
    <2> QED BY <1>1, <2>1, <2>2, SameTable DEF AssemblyReported
  <1>7. RefusedOnlyOutside'
    BY <1>1, <1>2, SameTable DEF RefusedOnlyOutside, TheFile
  <1> QED BY <1>1, <1>2, <1>4, <1>6, <1>7 DEF DebugInv

\* Nothing is answered yet, or nothing was found out.
LEMMA OtherSteps ==
  DebugInv /\ (UserAddress \/ NoStrings \/ SearchFiles \/ SearchStep) => DebugInv'
  <1> SUFFICES ASSUME DebugInv, UserAddress \/ NoStrings \/ SearchFiles \/ SearchStep
               PROVE  DebugInv'
    OBVIOUS
  <1>1. stabs \in Tables /\ eip \in Addresses
    BY DEF DebugInv
  <1>2. ASSUME ~Answered', phase' # "return"
        PROVE  (FunctionReported /\ FileReported /\ AssemblyReported /\ RefusedOnlyOutside)'
    BY <1>2 DEF FunctionReported, FileReported, AssemblyReported, RefusedOnlyOutside
  <1>3. CASE UserAddress
    BY <1>1, <1>2, <1>3 DEF UserAddress, given, DebugInv, Answered
  <1>4. CASE NoStrings
    <2>1. /\ phase' = "return" /\ result' = -1 /\ ~strings_ok
          /\ UNCHANGED <<stabs, eip, strings_ok, named>>
      BY <1>4 DEF NoStrings, Return, given
    <2>2. (FunctionReported /\ FileReported /\ AssemblyReported /\ RefusedOnlyOutside)'
      BY <2>1 DEF Answered, FunctionReported, FileReported, AssemblyReported, RefusedOnlyOutside
    <2> QED BY <1>1, <2>1, <2>2 DEF DebugInv
  <1>5. CASE SearchFiles
    <2>1. /\ phase = "call" /\ phase' = "file" /\ strings_ok /\ StartSearch(0, NumStabs - 1, "SO")
          /\ UNCHANGED <<stabs, eip, strings_ok, named, info>>
      BY <1>5 DEF SearchFiles, given
    <2>2. 0 \in Index /\ NumStabs - 1 \in Index /\ 0 <= NumStabs - 1
      BY <1>1, Table DEF Index
    <2>3. IInv'
      BY <1>1, <2>1, <2>2, StartedSearch
    <2>4. Asked(0, NumStabs - 1, "SO")'
      BY <2>1 DEF StartSearch, Asked
    <2>5. Unanswered'
      BY <2>1 DEF DebugInv, Unanswered
    <2> QED BY <1>1, <1>2, <2>1, <2>3, <2>4, <2>5 DEF DebugInv, Answered
  <1>6. CASE SearchStep
    <2>1. /\ phase \in {"file", "function"} /\ SearchNext
          /\ UNCHANGED <<stabs, eip, strings_ok, named, phase, lfile, rfile, info, result>>
      BY <1>6 DEF SearchStep, given
    <2>2. IInv /\ strings_ok /\ Unanswered
      BY <2>1 DEF DebugInv
    <2>3. IInv'
      BY <2>1, <2>2, SearchStepInv
    <2>4. arg' = arg
      BY <2>1 DEF SearchNext, NoProbe, Compare, NothingFound, Trim, fixed
    <2>5. /\ Unanswered'
          /\ phase = "file" => Asked(0, NumStabs - 1, "SO")'
          /\ phase = "function" => Asked(lfile, rfile, "FUN")'
      BY <2>1, <2>2, <2>4 DEF DebugInv, Unanswered, Asked
    <2>6. phase = "function" => TheFile(lfile, rfile)'
      BY <2>1 DEF DebugInv, TheFile, LastBelow, Type, Value
    <2> QED BY <1>1, <1>2, <2>1, <2>2, <2>3, <2>5, <2>6 DEF DebugInv, Answered
  <1> QED BY <1>3, <1>4, <1>5, <1>6

\* The invariant of debuginfo_eip, for every table, address and string table.
THEOREM Invariance == Spec => []DebugInv
  <1>1. Init => DebugInv
    BY DEF Init, DebugInv, Unanswered, Answered, FunctionReported, FileReported,
           AssemblyReported, RefusedOnlyOutside
  <1>2. DebugInv /\ [Next]_vars => DebugInv'
    <2> SUFFICES ASSUME DebugInv, [Next]_vars PROVE DebugInv'
      OBVIOUS
    <2>1. CASE UserAddress \/ NoStrings \/ SearchFiles \/ SearchStep
      BY <2>1, OtherSteps
    <2>2. CASE NoFile
      BY <2>2, NoFileStep
    <2>3. CASE SearchFunctions
      BY <2>3, SearchFunctionsStep
    <2>4. CASE FunctionFound
      BY <2>4, FunctionFoundStep
    <2>5. CASE NoFunction
      BY <2>5, NoFunctionStep
    <2>6. CASE UNCHANGED vars
      <3>1. UNCHANGED <<stabs, eip, strings_ok, named, phase, lfile, rfile, info, result>>
        BY <2>6 DEF vars, given
      <3>2. UNCHANGED searchvars
        BY <2>6 DEF vars, given, search, searchvars
      <3>3. IInv => IInv'
        BY <3>2, SearchStepInv
      <3>4. /\ Unanswered' <=> Unanswered
            /\ \A a, b, t : Asked(a, b, t)' <=> Asked(a, b, t)
            /\ \A a, b : TheFile(a, b)' <=> TheFile(a, b)
        BY <3>1, <3>2 DEF searchvars, Unanswered, Asked, TheFile, LastBelow, Type, Value
      <3>5. (FunctionReported /\ FileReported /\ AssemblyReported /\ RefusedOnlyOutside)'
        <4>1. FunctionReported /\ FileReported /\ AssemblyReported /\ RefusedOnlyOutside
          BY DEF DebugInv
        <4>2. Answered' <=> Answered
          BY <3>1 DEF Answered
        <4>3. FunctionReported'
          BY <3>1, <4>1, <4>2, SameTable DEF FunctionReported
        <4>4. FileReported'
          <5> DEFINE last(f) == CHOOSE j \in 0 .. f :
                       /\ Type(j) \in {"SO", "SOL"}
                       /\ \A i \in j + 1 .. f : Type(i) \notin {"SO", "SOL"}
          <5>1. \A f : last(f)' = last(f)
            BY <3>1 DEF Type
          <5>2. \A f : Named(last(f))' = Named(last(f))
            <6> HIDE DEF last
            <6> QED BY <3>1, <5>1 DEF Named
          <5>3. Answered => \A f \in TheFunction : info.file = Named(last(f))
            BY <4>1 DEF FileReported
          <5>4. Answered' => \A f \in TheFunction' : info'.file = Named(last(f))'
            <6> HIDE DEF last
            <6> QED BY <3>1, <4>2, <5>2, <5>3, SameTable
          <5> QED BY <5>4 DEF FileReported
        <4>5. AssemblyReported'
          BY <3>1, <4>1, <4>2, SameTable DEF AssemblyReported
        <4>6. RefusedOnlyOutside'
          BY <3>1, <4>1, SameTable DEF RefusedOnlyOutside
        <4> QED BY <4>3, <4>4, <4>5, <4>6
      <3> QED BY <3>1, <3>3, <3>4, <3>5 DEF DebugInv
    <2> QED BY <2>1, <2>2, <2>3, <2>4, <2>5, <2>6 DEF Next
  <1> QED BY <1>1, <1>2, PTL DEF Spec

\* An address inside a function is reported with the function's name, start and
\* number of parameters, in every table the compiler and the linker make.
THEOREM FunctionIsReported == Spec => []FunctionReported
  <1>1. DebugInv => FunctionReported
    BY DEF DebugInv
  <1> QED BY Invariance, <1>1, PTL

\* The file reported is the one the compiler was reading at the function.
THEOREM FileIsReported == Spec => []FileReported
  <1>1. DebugInv => FileReported
    BY DEF DebugInv
  <1> QED BY Invariance, <1>1, PTL

\* In a file without functions the address and the file's own name are
\* reported, nothing of a neighbouring file.
THEOREM AssemblyIsReported == Spec => []AssemblyReported
  <1>1. DebugInv => AssemblyReported
    BY DEF DebugInv
  <1> QED BY Invariance, <1>1, PTL

\* debuginfo_eip refuses an address only if no file contains it or there are no
\* strings.
THEOREM OnlyOutsideRefused == Spec => []RefusedOnlyOutside
  <1>1. DebugInv => RefusedOnlyOutside
    BY DEF DebugInv
  <1> QED BY Invariance, <1>1, PTL
=============================================================================
