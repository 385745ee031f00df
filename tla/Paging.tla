-------------------------------- MODULE Paging --------------------------------
(***************************************************************************)
(* The page directory and page table the kernel starts with                *)
(* (kern/entrypgdir.c), and the translation the processor makes of them    *)
(* with the address arithmetic of inc/mmu.h.                               *)
(***************************************************************************)
EXTENDS Integers

CONSTANTS PGSIZE, NPTENTRIES, NPDENTRIES, KERNBASE

PTSIZE == PGSIZE * NPTENTRIES

ASSUME PagingAssumption ==
  /\ PGSIZE \in Nat \ {0} /\ NPTENTRIES \in Nat \ {0} /\ NPDENTRIES \in Nat \ {0}
  /\ KERNBASE \in PTSIZE .. (NPDENTRIES - 1) * PTSIZE /\ KERNBASE % PTSIZE = 0

PDX(la) == (la \div PTSIZE) % NPDENTRIES
PTX(la) == (la \div PGSIZE) % NPTENTRIES
PGOFF(la) == la % PGSIZE

entry_pgtable == [i \in 0 .. NPTENTRIES - 1 |-> [addr |-> i * PGSIZE, flags |-> {"P", "W"}]]

\* Mutant of entry_pgdir: without the map of the low addresses.
entry_pgdir_high ==
  [d \in 0 .. NPDENTRIES - 1 |-> IF d = PDX(KERNBASE) THEN {"P", "W"} ELSE {}]

\* The flags of each directory entry; the present ones all point to entry_pgtable.
entry_pgdir ==
  [d \in 0 .. NPDENTRIES - 1 |-> CASE d = 0 -> {"P"}
                                   [] d = PDX(KERNBASE) -> {"P", "W"}
                                   [] OTHER -> {}]

Mapped(va) == "P" \in entry_pgdir[PDX(va)] /\ "P" \in entry_pgtable[PTX(va)].flags

\* The kernel itself may write only where both entries say so (CR0_WP).
Writable(va) == Mapped(va) /\ "W" \in entry_pgdir[PDX(va)] /\ "W" \in entry_pgtable[PTX(va)].flags

Translate(va) == entry_pgtable[PTX(va)].addr + PGOFF(va)
=============================================================================
