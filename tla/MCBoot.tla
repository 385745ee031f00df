-------------------------------- MODULE MCBoot --------------------------------
(* Model of Boot for TLC.                                                    *)
EXTENDS Boot

\* Kernels as kern/kernel.ld lays them out: the text at 1 MB, the data on the
\* next page boundary, each at the same place in its page in memory and in the
\* file, whose first page is the header.  bounds: up to two pages of text, two
\* bytes of data and six of BSS.
KernelOf(text, data, bss) ==
  LET pages == ((text + PGSIZE - 1) \div PGSIZE) * PGSIZE
      low == [offset |-> PGSIZE, pa |-> A20, filesz |-> text, memsz |-> text]
      high == [offset |-> PGSIZE + pages, pa |-> A20 + pages, filesz |-> data, memsz |-> data + bss]
  IN  [magic |-> TRUE, size |-> PGSIZE + pages + data + 1, segs |-> <<low, high>>,
       entry |-> KERNBASE + A20, i386_init |-> KERNBASE + A20 + text - 1,
       stack |-> KERNBASE + high.pa + data]

Kernels == {KernelOf(text, data, bss) : text \in {3, 4, 5, 8}, data \in 1 .. 2, bss \in {0, 1, 3, 6}}
MCImages == {k \in Kernels : k.segs[2].pa + k.segs[2].memsz <= MemSize}
            \cup {[KernelOf(3, 1, 0) EXCEPT !.magic = FALSE]}
=============================================================================
