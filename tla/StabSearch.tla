------------------------------ MODULE StabSearch ------------------------------
(***************************************************************************)
(* stab_binsearch() of kern/kdebug.c: a binary search for the stab of one  *)
(* type that contains an address, in a table where only the stabs of that  *)
(* type are sorted and the others lie between them.                        *)
(***************************************************************************)
EXTENDS Integers

CONSTANTS
  NumStabs,
  Types,      \* values of n_type
  AddrSpace   \* 2^32: an address is one of 0 .. AddrSpace - 1

ASSUME TableAssumption == NumStabs \in Nat /\ AddrSpace \in Nat /\ AddrSpace >= 1

VARIABLES
  stabs,                     \* the table
  arg,                       \* the call's arguments: [left, right, type, addr]
  region_left, region_right, \* what the pointers point to
  l, r, any_matches, addr,   \* the locals
  pc                         \* "search" in the loop, "trim" after it, "done"

fixed == <<stabs, arg>>
searchvars == <<stabs, arg, region_left, region_right, l, r, any_matches, addr, pc>>

Index == 0 .. NumStabs - 1
Addresses == 0 .. AddrSpace - 1

Matches(k) == stabs[k].n_type = arg.type
Value(k) == stabs[k].n_value

\* The stab the inner loop stops at: the last one of the right type up to the
\* middle, if there is one in [l, true_m].
true_m == (l + r) \div 2

Probe(m) ==
  /\ m \in l .. true_m
  /\ Matches(m)
  /\ \A k \in m + 1 .. true_m : ~Matches(k)

-----------------------------------------------------------------------------
(* One turn of the loop *)

Searching == pc = "search" /\ l <= r

NoProbe ==
  /\ Searching
  /\ \A k \in l .. true_m : ~Matches(k)
  /\ l' = true_m + 1
  /\ UNCHANGED <<fixed, region_left, region_right, r, any_matches, addr, pc>>

Below(m) ==
  /\ Value(m) < addr
  /\ region_left' = m /\ l' = true_m + 1
  /\ UNCHANGED <<region_right, r, addr>>

\* Mutant of Above: region_right keeps the stab that lies above.
AboveKept(m) ==
  /\ Value(m) > addr
  /\ region_right' = m /\ r' = m - 1
  /\ UNCHANGED <<region_left, l, addr>>

Above(m) ==
  /\ Value(m) > addr
  /\ region_right' = m - 1 /\ r' = m - 1
  /\ UNCHANGED <<region_left, l, addr>>

\* Mutant of Exact: addr is not incremented.
ExactStill(m) ==
  /\ Value(m) = addr
  /\ region_left' = m /\ l' = m
  /\ UNCHANGED <<region_right, r, addr>>

\* An exact match goes on to find region_right, as if addr were one larger.
Exact(m) ==
  /\ Value(m) = addr
  /\ region_left' = m /\ l' = m
  /\ addr' = (addr + 1) % AddrSpace
  /\ UNCHANGED <<region_right, r>>

Compare ==
  /\ Searching
  /\ \E m \in Index : Probe(m) /\ (Below(m) \/ Above(m) \/ Exact(m))
  /\ any_matches' = TRUE
  /\ UNCHANGED <<fixed, pc>>

(* After the loop *)

\* Mutant of NothingFound: empties the region from its left end.
NothingFoundLeft ==
  /\ pc = "search" /\ l > r
  /\ ~any_matches
  /\ region_left' = region_right + 1
  /\ pc' = "done"
  /\ UNCHANGED <<fixed, region_right, l, r, any_matches, addr>>

NothingFound ==
  /\ pc = "search" /\ l > r
  /\ ~any_matches
  /\ region_right' = region_left - 1
  /\ pc' = "done"
  /\ UNCHANGED <<fixed, region_left, l, r, any_matches, addr>>

\* Walk back from region_right to the rightmost stab of the type.
Stops(k) == k > region_left => Matches(k)

Trim ==
  /\ pc = "search" /\ l > r
  /\ any_matches
  /\ \E k \in -1 .. region_right :
       /\ Stops(k)
       /\ \A j \in k + 1 .. region_right : ~Stops(j)
       /\ l' = k /\ region_left' = k
  /\ pc' = "done"
  /\ UNCHANGED <<fixed, region_right, r, any_matches, addr>>

-----------------------------------------------------------------------------
\* A call over part of the table, the stabs of its type in increasing order of
\* address, as kern/kdebug.c:16 has it (equal addresses occur: the compiler
\* gives a file's directory and its name the same one).
Sorted(s, a) ==
  \A j, k \in a.left .. a.right :
    j < k /\ s[j].n_type = a.type /\ s[k].n_type = a.type => s[j].n_value <= s[k].n_value

SearchInit ==
  /\ stabs \in [Index -> [n_type : Types, n_value : Addresses]]
  /\ arg \in [left : Index, right : Index, type : Types, addr : Addresses]
  /\ arg.left <= arg.right
  /\ Sorted(stabs, arg)
  /\ region_left = arg.left /\ region_right = arg.right
  /\ l = arg.left /\ r = arg.right
  /\ any_matches = FALSE
  /\ addr = arg.addr
  /\ pc = "search"

SearchNext == NoProbe \/ Compare \/ NothingFound \/ Trim

SearchSpec == SearchInit /\ [][SearchNext]_searchvars /\ WF_searchvars(SearchNext)

-----------------------------------------------------------------------------
(* Properties *)

\* The results and the locals are indices of the table or next to its ends.
TypeOK ==
  /\ stabs \in [Index -> [n_type : Types, n_value : Addresses]]
  /\ arg \in [left : Index, right : Index, type : Types, addr : Addresses]
  /\ region_left \in -1 .. NumStabs - 1 /\ region_right \in -1 .. NumStabs - 1
  /\ l \in -1 .. NumStabs /\ r \in -1 .. NumStabs - 1
  /\ any_matches \in BOOLEAN
  /\ addr \in Addresses
  /\ pc \in {"search", "done"}

Region == arg.left .. arg.right

\* The stab that contains the address: the last of its type that does not lie
\* above it.
Covers(k) ==
  /\ k \in Region /\ Matches(k) /\ Value(k) <= arg.addr
  /\ \A j \in Region : j > k /\ Matches(j) => Value(j) > arg.addr

\* The bracket the comment above stab_binsearch promises.
Bracketed ==
  /\ Covers(region_left)
  /\ region_right \in Region /\ region_left <= region_right
  /\ \A j \in region_left + 1 .. region_right : ~Matches(j)
  /\ region_right = arg.right \/ Matches(region_right + 1)

\* The increment after an exact match does no harm if no stab of the type lies
\* at the very next address, and if there is a next address.
RoomAbove ==
  (\E k \in Region : Matches(k) /\ Value(k) = arg.addr) =>
    /\ arg.addr + 1 < AddrSpace
    /\ \A k \in Region : Matches(k) => Value(k) # arg.addr + 1

\* Where some stab contains the address the search brackets it, however the
\* stabs of other types are scattered.  Where the stabs of the type all lie
\* above, region_left still is the left end it was given, which is how
\* debuginfo_eip knows (kdebug.c:143); where there is none, it says so.
SearchCorrect ==
  pc = "done" =>
    /\ (\E k \in Region : Covers(k)) /\ RoomAbove => Bracketed
    /\ (\A k \in Region : Matches(k) => Value(k) > arg.addr) /\ ~Matches(arg.left) =>
         region_left = arg.left
    /\ (\A k \in Region : ~Matches(k)) => region_left > region_right

\* The loop ends for every table and address, although an exact match does not
\* shrink [l, r].
Terminates == <>(pc = "done")

\* kern/kdebug.c:20: "this function finds the single stab entry of type 'type'
\* that contains that address", and :31 "*region_left points to the matching
\* stab that contains 'addr'".  (The last address there is has no successor
\* and is left out.)
FindsContainingStab ==
  pc = "done" /\ arg.addr + 1 < AddrSpace =>
    \A k \in Region : Covers(k) => region_left = k
=============================================================================
