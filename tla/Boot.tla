--------------------------------- MODULE Boot ---------------------------------
(***************************************************************************)
(* From the boot sector to the monitor: boot/boot.S enables the memory     *)
(* above 1 MB and protected mode, boot/main.c loads the kernel's segments  *)
(* from a disk that is ready in its own time, kern/entry.S turns paging on *)
(* and jumps to the kernel's linked addresses, and i386_init clears the    *)
(* BSS, starts the console and enters the monitor.                         *)
(* A byte of memory is the position in the kernel file it was read from.   *)
(***************************************************************************)
EXTENDS Paging, ConsoleOutput

CONSTANTS
  SECTSIZE,
  HDRSECTORS,  \* 8: the sectors read for the ELF header
  A20,         \* 2^20, the address line held low at first
  ELFHDR,      \* 0x10000
  MemSize,     \* physical memory is 0 .. MemSize - 1; the boot sector is at 0
  Images,      \* the disk images: [magic, size, segs, entry, stack]
  Greeting     \* the number of characters printed before the monitor's prompt

\* As boot/main.c and the machine have them: the sectors of the header lie
\* between the loader and the line that is held low.
ASSUME BootAssumption ==
  /\ SECTSIZE \in Nat \ {0} /\ HDRSECTORS \in Nat \ {0} /\ Greeting \in Nat
  /\ ELFHDR \in Nat /\ A20 \in Nat \ {0} /\ MemSize \in Nat
  /\ ELFHDR % SECTSIZE = 0 /\ A20 % SECTSIZE = 0 /\ MemSize % SECTSIZE = 0
  /\ SECTSIZE <= ELFHDR /\ ELFHDR + SECTSIZE * HDRSECTORS <= A20 /\ A20 <= MemSize

SectorStart(a) == a - (a % SECTSIZE)
Segment == [offset : Nat, pa : Nat, filesz : Nat, memsz : Nat]

\* A kernel as kern/kernel.ld links it: from 1 MB on, within the memory there
\* is and the pages the entry tables map; in increasing order, no two segments
\* in one sector, each as far into a sector in the file as in memory; and the
\* code in the first.
Linked(im) ==
  /\ im.segs # <<>>
  /\ \A i \in DOMAIN im.segs :
       LET s == im.segs[i]
       IN  /\ s.filesz <= s.memsz /\ s.offset % SECTSIZE = s.pa % SECTSIZE
           /\ A20 <= s.pa /\ s.pa + s.memsz <= MemSize /\ s.pa + s.memsz <= PTSIZE
           /\ s.offset + s.filesz <= im.size
           /\ \A j \in DOMAIN im.segs : i < j => s.pa + s.memsz <= SectorStart(im.segs[j].pa)
  /\ LET text == KERNBASE + im.segs[1].pa .. KERNBASE + im.segs[1].pa + im.segs[1].filesz - 1
     IN  {im.entry, im.entry + 1, im.entry + 2, im.i386_init} \subseteq text
  /\ im.stack - 1 \in KERNBASE .. KERNBASE + PTSIZE - 1

ASSUME ImagesAssumption ==
  \A im \in Images :
    im.segs \in Seq(Segment) /\ im.size \in Nat /\ (im.magic => Linked(im))

Zero == -1
Junk == -2      \* whatever the memory or the disk holds there
BootCode == -3

RELOC(x) == x - KERNBASE

VARIABLES
  image, mem,
  a20,       \* address line 20 is let through
  kbc,       \* the keyboard controller: [full, byte, expecting]
  disk,      \* [ready, sect]
  pc,        \* where the processor is
  eip,       \* the address it fetches from, once in the kernel
  paging,
  rd,        \* readseg's variables: [pa, end_pa, offset]
  ph,        \* the segment being read, 0 for the header
  todo       \* the characters still to be printed

machine == <<mem, a20, kbc, disk, eip, paging, rd, ph>>
vars == <<image, machine, pc, todo, console>>

Segments == 1 .. Len(image.segs)
Seg(i) == image.segs[i]

Init ==
  /\ image \in Images
  /\ mem = [a \in 0 .. MemSize - 1 |-> IF a < SECTSIZE THEN BootCode ELSE Junk]
  /\ a20 \in BOOLEAN
  /\ kbc \in [full : BOOLEAN, byte : {"other"}, expecting : {FALSE}]
  /\ disk \in [ready : BOOLEAN, sect : {0}]
  /\ pc = "a20_command" /\ eip = 0 /\ paging = FALSE
  /\ rd = [pa |-> 0, end_pa |-> 0, offset |-> 0] /\ ph = 0
  /\ todo = 0
  /\ ConsoleInit

-----------------------------------------------------------------------------
(* The devices *)

\* 0xd1 says that the next byte is for the output port, and 0xdf there lets
\* address line 20 through.
KbcTakes ==
  /\ kbc.full
  /\ kbc' = [kbc EXCEPT !.full = FALSE, !.expecting = (kbc.byte = "0xd1")]
  /\ a20' = (a20 \/ (kbc.expecting /\ kbc.byte = "0xdf"))
  /\ UNCHANGED <<image, mem, disk, pc, eip, paging, rd, ph, todo, console>>

\* Assumed of the timing: the disk, which has a sector to find, is slower than
\* the keyboard controller, which boot.S does not wait for after the last byte.
DiskReady ==
  /\ ~disk.ready /\ ~kbc.full
  /\ disk' = [disk EXCEPT !.ready = TRUE]
  /\ UNCHANGED <<image, mem, a20, kbc, pc, eip, paging, rd, ph, todo, console>>

ConsoleDevices == Devices /\ UNCHANGED <<image, machine, pc, todo>>

Physical(a) == IF a20 \/ (a \div A20) % 2 = 0 THEN a ELSE a - A20

DiskByte(offset, i) ==
  LET p == (offset - 1) * SECTSIZE + i
  IN  CASE offset = 0 -> BootCode
        [] offset > 0 /\ p < image.size -> p
        [] OTHER -> Junk

-----------------------------------------------------------------------------
(* boot.S *)

SendToKbc(from, byte, to) ==
  /\ pc = from /\ pc' = to
  /\ kbc' = [kbc EXCEPT !.full = TRUE, !.byte = byte]
  /\ UNCHANGED <<image, mem, a20, disk, eip, paging, rd, ph, todo, console>>

seta20_1 == ~kbc.full /\ SendToKbc("a20_command", "0xd1", "a20_data")

\* Mutant of seta20_2: the data byte is sent without waiting.
seta20_2_unwaited == SendToKbc("a20_data", "0xdf", "real_mode")

seta20_2 == ~kbc.full /\ SendToKbc("a20_data", "0xdf", "real_mode")

\* Rounds down to whole sectors; the kernel file begins at the second sector.
readseg(pa, count, offset) ==
  rd' = [pa |-> SectorStart(pa), end_pa |-> pa + count, offset |-> offset \div SECTSIZE + 1]

\* To protected mode with flat segments, and into bootmain.
protcseg ==
  /\ pc = "real_mode" /\ pc' = "readseg"
  /\ readseg(ELFHDR, SECTSIZE * HDRSECTORS, 0)
  /\ UNCHANGED <<image, mem, a20, kbc, disk, eip, paging, ph, todo, console>>

(* boot/main.c *)

\* Mutant of readsect: one sector too many.
readsect_more ==
  /\ pc = "readseg" /\ rd.pa <= rd.end_pa
  /\ disk.ready
  /\ disk' = [ready |-> FALSE, sect |-> rd.offset]
  /\ pc' = "insl"
  /\ UNCHANGED <<image, mem, a20, kbc, eip, paging, rd, ph, todo, console>>

readsect ==
  /\ pc = "readseg" /\ rd.pa < rd.end_pa
  /\ disk.ready
  /\ disk' = [ready |-> FALSE, sect |-> rd.offset]
  /\ pc' = "insl"
  /\ UNCHANGED <<image, mem, a20, kbc, eip, paging, rd, ph, todo, console>>

Sector(a) == {Physical(a + i) : i \in 0 .. SECTSIZE - 1}

\* Mutant of insl: the data is taken without waiting for the disk.
insl_unwaited ==
  /\ pc = "insl"
  /\ mem' = [a \in DOMAIN mem |->
               IF a \in Sector(rd.pa)
               THEN IF disk.ready THEN DiskByte(disk.sect, a % SECTSIZE) ELSE Junk
               ELSE mem[a]]
  /\ rd' = [rd EXCEPT !.pa = @ + SECTSIZE, !.offset = @ + 1]
  /\ pc' = "readseg"
  /\ UNCHANGED <<image, a20, kbc, disk, eip, paging, ph, todo, console>>

insl ==
  /\ pc = "insl" /\ disk.ready
  /\ mem' = [a \in DOMAIN mem |->
               IF a \in Sector(rd.pa) THEN DiskByte(disk.sect, a % SECTSIZE) ELSE mem[a]]
  /\ rd' = [rd EXCEPT !.pa = @ + SECTSIZE, !.offset = @ + 1]
  /\ pc' = "readseg"
  /\ UNCHANGED <<image, a20, kbc, disk, eip, paging, ph, todo, console>>

SegmentRead == pc = "readseg" /\ rd.pa >= rd.end_pa

NextSegment ==
  /\ SegmentRead /\ ph < Len(image.segs) /\ image.magic
  /\ ph' = ph + 1
  /\ readseg(Seg(ph + 1).pa, Seg(ph + 1).memsz, Seg(ph + 1).offset)
  /\ UNCHANGED <<image, mem, a20, kbc, disk, pc, eip, paging, todo, console>>

Bad ==
  /\ SegmentRead /\ ph = 0 /\ ~image.magic
  /\ pc' = "bad"
  /\ UNCHANGED <<image, machine, todo, console>>

EnterKernel ==
  /\ SegmentRead /\ ph = Len(image.segs) /\ image.magic
  /\ pc' = "entry" /\ eip' = RELOC(image.entry)
  /\ UNCHANGED <<image, mem, a20, kbc, disk, paging, rd, ph, todo, console>>

-----------------------------------------------------------------------------
(* entry.S: its instructions are one after the other from the entry point.  *)
(* A fetch or a store that the page tables do not allow has no step: with no *)
(* handler in place it resets the machine.                                  *)

Fetched == paging => Mapped(eip)

EnablePaging ==
  /\ pc = "entry" /\ pc' = "low"
  /\ paging' = TRUE /\ eip' = eip + 1
  /\ UNCHANGED <<image, mem, a20, kbc, disk, rd, ph, todo, console>>

Relocate ==
  /\ pc = "low" /\ Fetched
  /\ pc' = "relocated" /\ eip' = image.entry + 2
  /\ UNCHANGED <<image, mem, a20, kbc, disk, paging, rd, ph, todo, console>>

CallInit ==
  /\ pc = "relocated" /\ Fetched /\ Writable(image.stack - 1)
  /\ pc' = "i386_init" /\ eip' = image.i386_init
  /\ UNCHANGED <<image, mem, a20, kbc, disk, paging, rd, ph, todo, console>>

(* init.c *)

Data == Seg(Len(image.segs))
bss_start == KERNBASE + Data.pa + Data.filesz
end == KERNBASE + Data.pa + Data.memsz

ClearBss ==
  /\ pc = "i386_init" /\ Fetched
  /\ \A va \in bss_start .. end - 1 : Writable(va)
  /\ mem' = [a \in DOMAIN mem |->
               IF \E va \in bss_start .. end - 1 : a = Physical(Translate(va)) THEN Zero ELSE mem[a]]
  /\ pc' = "cons_init"
  /\ UNCHANGED <<image, a20, kbc, disk, eip, paging, rd, ph, todo, console>>

\* cons_init says so where there is no serial port.
ConsInit ==
  /\ pc = "cons_init" /\ pc' = "print"
  /\ todo' = Greeting + (IF uart.there THEN 0 ELSE 1)
  /\ UNCHANGED <<image, machine, console>>

cprintf ==
  /\ pc = "print"
  /\ \/ todo > 0 /\ cons_putc /\ todo' = todo - 1
     \/ Putc /\ UNCHANGED todo
  /\ UNCHANGED <<image, machine, pc>>

Monitor ==
  /\ pc = "print" /\ todo = 0 /\ putc.at = "idle"
  /\ pc' = "monitor"
  /\ UNCHANGED <<image, machine, todo, console>>

BootSector == seta20_1 \/ seta20_2 \/ protcseg
BootMain == readsect \/ insl \/ NextSegment \/ Bad \/ EnterKernel
Kernel == EnablePaging \/ Relocate \/ CallInit \/ ClearBss \/ ConsInit \/ cprintf \/ Monitor
Cpu == BootSector \/ BootMain \/ Kernel

Next == Cpu \/ KbcTakes \/ DiskReady \/ ConsoleDevices

\* The processor runs, the keyboard controller takes what it is sent and the
\* disk answers; neither the serial line nor the printer need ever be ready.
Fairness == WF_vars(Cpu) /\ WF_vars(KbcTakes) /\ WF_vars(DiskReady)

Spec == Init /\ [][Next]_vars /\ Fairness

-----------------------------------------------------------------------------
(* Properties *)

Loading == {"readseg", "insl"}
InKernel == {"entry", "low", "relocated", "i386_init", "cons_init", "print", "monitor"}

\* The values of the registers, the devices and the memory the boot writes.
TypeOK ==
  /\ mem \in [0 .. MemSize - 1 -> Nat \cup {Zero, Junk, BootCode}]
  /\ a20 \in BOOLEAN /\ paging \in BOOLEAN
  /\ kbc \in [full : BOOLEAN, byte : {"other", "0xd1", "0xdf"}, expecting : BOOLEAN]
  /\ disk \in [ready : BOOLEAN, sect : Nat]
  /\ pc \in {"a20_command", "a20_data", "real_mode", "bad"} \cup Loading \cup InKernel
  /\ rd.pa \in 0 .. MemSize /\ rd.end_pa \in 0 .. MemSize
  /\ ph \in 0 .. Len(image.segs) /\ todo \in 0 .. Greeting + 1
  /\ ConsoleTypeOK

\* While the boot loader runs, neither it nor the header it reads the segments
\* from is overwritten, which is what happens when the kernel is loaded before
\* addresses above 1 MB are let through (boot.S:28, main.c:33, :54).
LoaderUndisturbed ==
  pc \in Loading =>
    /\ \A a \in 0 .. SECTSIZE - 1 : mem[a] = BootCode
    /\ ph > 0 => \A i \in 0 .. SECTSIZE * HDRSECTORS - 1 : mem[ELFHDR + i] = DiskByte(1, i)

\* From the kernel's first instruction on, every byte of its file is at the
\* address it is to be loaded at, and clearing the BSS leaves it there; from
\* then on the C code finds its zero-initialized variables zero, although
\* readseg has filled them with what follows in the file (main.c:53-56,
\* init.c:27-30).
KernelLoaded ==
  /\ pc \in InKernel =>
       \A i \in Segments : \A k \in 0 .. Seg(i).filesz - 1 :
         mem[Seg(i).pa + k] = Seg(i).offset + k
  /\ pc \in {"cons_init", "print", "monitor"} =>
       \A a \in Data.pa + Data.filesz .. Data.pa + Data.memsz - 1 : mem[a] = Zero

\* Every instruction fetched is the one linked for where the processor is: from
\* the low addresses until the jump, also after paging is on, and from the
\* linked ones after it (entry.S:47-70).  The first stores, onto the stack and
\* into the BSS, go to writable pages, although the low map has none.
FetchesKernel ==
  /\ pc \in InKernel =>
       LET linked == IF pc \in {"entry", "low"} THEN eip + KERNBASE ELSE eip
           pa == IF paging THEN Translate(eip) ELSE eip
       IN  Fetched /\ mem[Physical(pa)] = Seg(1).offset + (RELOC(linked) - Seg(1).pa)
  /\ pc = "relocated" => Writable(image.stack - 1)
  /\ pc = "i386_init" => \A va \in bss_start .. end - 1 : Writable(va)

\* A disk with a kernel on it is booted, whether or not there is a serial port
\* or a printer and whether or not they ever answer; any other ends in the
\* loop at bad (main.c:62).
BootCompletes == <>[](pc = IF image.magic THEN "monitor" ELSE "bad")
=============================================================================
