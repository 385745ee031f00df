# A TLA+ development of the JOS kernel (lab 1)

The repository is the JOS teaching kernel at its first lab: a boot loader, a
kernel entry that turns paging on, a console (keyboard, serial port, printer
port, text screen), formatted printing, a line reader, a command monitor and a
lookup of debugging information. There is one processor and no interrupt
handler; concurrency is between the kernel and the devices it polls, and
between the parts of a long sequential history (a scrolled screen, a wrapped
ring, static flags) that no test runs through.

## Inventory

| Component | Source | State | Operations | What makes it correct |
|---|---|---|---|---|
| Text display | `kern/console.c` 126-209 | `crt_buf`, `crt_pos`, cursor register of the 6845 | `cga_init`, `cga_putc` | never writes outside the screen; text moves only by whole rows; the visible cursor is the next position; an erasure undoes a mark |
| Console input | `kern/console.c` 48-63, 78-103, 380-429, 461-469 | `cons` (ring, `rpos`, `wpos`), `serial_exists` | `serial_intr`, `kbd_intr`, `cons_intr`, `cons_getc`, `getchar` | first in, first out; what is lost and when; nothing readable stays behind |
| Keyboard decoder | `kern/console.c` 212-376 | static `shift` | `kbd_proc_data` | each scan code becomes the character typed; no modifier or prefix is stuck |
| Line editor | `lib/readline.c` | static `buf`, `i` | `readline` | the line fits; the screen shows exactly the line; the prompt is never erased |
| Debug information | `kern/kdebug.c` | stab table (constant) | `stab_binsearch`, `debuginfo_eip` | the bracket promised above the function; termination |
| Console output | `kern/console.c` 65-76, 111-121, 431-459, `kern/printf.c` | none of its own | `serial_putc`, `lpt_putc`, `cons_putc`, `cprintf` | each character goes to all three devices once; a dead device does not hang the kernel |
| Formatted output | `lib/printfmt.c` | conversion state | `vprintfmt`, `vsnprintf` | the text of each conversion; the buffer bound |
| Monitor | `kern/monitor.c` | `buf`, `argv` | `runcmd`, `monitor` | the arguments are the words of the line; the limit |
| Strings | `lib/string.c` | memory | `memmove`, `memset`, ... | overlap, alignment, bounds |
| Boot loader | `boot/main.c` | memory, disk | `readseg`, `readsect`, `waitdisk` | every segment complete in memory before the jump |
| Mode switch, entry | `boot/boot.S`, `kern/entry.S`, `kern/entrypgdir.c` | mode, page tables | | every instruction fetched is mapped |
| Start and panic | `kern/init.c` | `panicstr` | `i386_init`, `_panic` | one report; the machine ends in a monitor |
| Grading harness | `gradelib.py`, `grade-lab1` | QEMU process, its output, GDB socket; tests' `complete` flags | `run_qemu`, `__react`, monitors, `run_test` | no output lost, no process left, each test after the one it depends on |

How they interact: `monitor` calls `readline`, which calls `getchar` and echoes
through `cputchar`; `getchar` spins on `cons_getc`, which polls the serial port
and the keyboard controller through `cons_intr` and takes from the ring;
`kbd_proc_data` decodes scan codes on the way. `cputchar` (from `readline` and
from `cprintf`) goes to serial port, printer and screen. `runcmd` works inside
the buffer `readline` returned. `monitor.c` is where a backtrace is to call
`debuginfo_eip`, which calls `stab_binsearch` for file and function. `boot.S`
hands over to `bootmain`, which loads the kernel and enters `entry.S`, which
calls `i386_init`. The grading script runs all this under QEMU: it reads the
serial output from a pipe and stops at a breakpoint told over a socket.

Hard behaviours: devices that deliver at any moment between two reads; a ring
whose full and empty states coincide; decoder state carried over calls and over
a reset; a screen that scrolls in the middle of one call; a search that goes on
after its match; devices that must be waited for, and others that must not be
waited for too long, while the machine boots; two channels from QEMU of which
either may be read first. `PROJECT.json` lists each, with its line and the properties
aimed at it.

## Modules

| Module | Models | State and actions against the code |
|---|---|---|
| `CharCodes` | codes and cells | the attribute arithmetic of `cga_putc` on an `int`, sign-extended bytes included; a cell is 16 bits |
| `Terminal` | (abstract) the promise of the display | a page that grows at the bottom, its window and cursor |
| `Display` | `cga_init`, `cga_putc` | `crt.buf`, `crt.pos`, `crt.reg`; `Putc(c)` is one call: `Switch`, `Scroll`, `MoveCursor` in the code's order, a tab with its five nested calls. `lost` and `past` are history |
| `LossyFifo` | (abstract) the promise of the ring | a queue that empties when it would reach `Size` |
| `ConsoleInput` | input polling | `cons`, `serial_exists`, and `pc` inside `cons_getc`. `SerialIntr` and `KbdIntr` are one turn of the loop of `cons_intr`; `Take`/`TakeNone` its end; `SerialArrive`, `KbcArrive` the devices. `stashed`, `returned`, `arrivals` are history |
| `Keyboard` | `kbd_proc_data` | `shift` as a set of flags; `Decode` is one call, with the reset after Ctrl-Alt-Del. `Press`, `Repeat`, `Release` are the keyboard (external); each byte carries what was meant by it, taken from the keys down (`held`) and the locks struck (`locked`), not from what the decoder does, and whether the code may be held to it (`sure`). `kept` are keys down since before a reset; `astray` the flags the bytes sent leave otherwise than meant (history) |
| `LineEditor` | `readline` | `buf`, `i`; `EraseLast`, `Store`, `Return`, `Ignore` are the branches for one `getchar`, with their echo on a `Terminal` page; `Output` is all other output; `start` is history |
| `StabSearch` | `stab_binsearch` | the six locals and results; `NoProbe`, `Compare` (with `Below`, `Above`, `Exact`) are one turn of the loop, `NothingFound` and `Trim` what follows it. The two inner loops only read and are taken in one step |
| `DebugInfo` | `debuginfo_eip` | `lfile`, `rfile`, `*info`; it extends `StabSearch`, whose variables are the search under way; `SearchFiles` and `SearchFunctions` start one, `SearchStep` is a turn of it; `FunctionFound`, `NoFunction`, `NoFile`, `NoStrings`, `UserAddress` are the ways out. The backward walk to the file's name and the parameter loop only read and are set expressions |
| `Paging` | `entrypgdir.c`, `mmu.h` | `entry_pgdir`, `entry_pgtable`, `PDX`, `PTX`, `PGOFF` as functions, and the processor's `Translate` and `Writable` |
| `ConsoleOutput` | `cons_putc` | `putc.at` is where it is, `Poll` one turn of a wait; the UART holds one character until it is sent, the printer is busy until it rests. Characters are their own ordinal numbers, so loss and order show. `gaveup` is history |
| `Boot` | `boot.S`, `bootmain`, `entry.S`, `i386_init` | `mem` maps a physical address to the position in the kernel file its byte came from; `readsect` and `insl` are the command to the disk and the transfer; `eip` is followed from the kernel's first instruction. Output is `ConsoleOutput` |
| `Memory` | `memmove`, `memset` | `rep` is the string instruction with its registers (for `memset` also `eax`, the byte four times over or the argument as it came) and `df` the direction flag; `Element` moves one byte or word |
| `Numerals` | digits, `strtol` | the digits `printnum` prints and the values `strtol` gives them; `strtol` as a function of the characters of a string |
| `Strings` | the rest of `string.c` | `asked` is the call, `locals` its pointers, size and result, and memory; one action per function, a turn of its loop (or the way out of it); `strpc` tells `strcat`'s own loop from the `strcpy` it calls |
| `Printfmt` | `vsnprintf`, `vprintfmt`, `printnum` | `fmt`, the escape's locals in `esc`, the buffer in `b`; one action per case of the switch, `Field` for those that print text, `PrintNumber` for those that call `printnum`. `Digit` is a turn of the loop over a width's digits; `Recurse` a call of `printnum` by itself, with the callers' digits in `number`; `Unwind` all the returns, which only print. `out` and `field` are history |
| `Monitor` | `runcmd` | `line` is `buf`'s memory, `buf` the pointer, `argv`; one action per step of the tokenizer, then `Lookup` |
| `Library` | - | composes `Memory`, `Strings`, `Printfmt` and `Monitor`: a behaviour is one call of one of them |
| `GradeRunner` | `Runner.run_qemu` | `phase` tells which loop of `__react` runs; `StubFound` is `QEMU.__init__` giving up because the debugger's port is taken; `Select`, `HandleOutput`, `HandleEof`, `HandleBreakpoint`, `HandleGdbEof` are its turns, `Leave` every way out of it. QEMU, pipe and socket are external |
| `GradeTests` | `test`, `run_tests`, `grade-lab1` | `stack` of `run_test` calls, the `complete` flags, and the verdicts; `launched` counts how often `run_qemu` set out to start QEMU; extends `GradeRunner` by what the tests do with the output |

Each `MC...` module adds the bounds for TLC and each `...Proofs` module the
theorems. Operators marked "mutant" are plausible mistakes in the definition
that follows them; nothing uses them, and putting one in place of its
definition makes the property it is listed with fail, which shows the property
depends on that code.

The granularity of `ConsoleInput`: reading a device's status and then its data
is one step, because between the two a device can only add bytes behind the
one that is already there, or (serial) replace it by a newer one, which is the
behaviour of an arrival just before the step. `Display` and `LineEditor` take a
whole call as a step: nothing else touches their state, as there are no
interrupts. `kbd_proc_data` runs inside `KbdIntr`; there the byte's decoded
value is the input, since `Keyboard` is about how it comes about.

In `Boot` a wait is a guard (nothing else runs), except in `ConsoleOutput`, where
the number of polls matters. An instruction fetch or a store the page tables do
not allow has no action: the machine would reset, and `FetchesKernel` and
`BootCompletes` would fail. One assumption about time is made, in `DiskReady`:
the disk delivers no sector while the keyboard controller still holds a byte.
`boot.S` does not wait after its last byte (0xdf), so on a machine where the
controller is slower than the first eight sectors and more the loader would be
overwritten; the wait before that byte is the code's and is needed, as the
mutant of `LoaderUndisturbed` shows.

In `Memory` every byte has its own value at first, so that a wrong copy cannot
look right. In `Printfmt`, `UINT` and `ULONGLONG` stand for 2^32 and 2^64.

In `GradeRunner` a line is two items, its text and its newline, so that a read
may end between them; the pipe and `os.read` are bounded. `Deadline` may pass at
any turn of the loop; `timedout` remembers it, since output may then be missing.

`LineEditor` uses `Terminal` where the code uses the display. That is justified
by `DisplayProofs!Refinement`, and its keystrokes 1..255 by
`ConsoleInputProofs!TypeCorrect`.

## Runs

| Run | Result | Question and bounds |
|---|---|---|
| `Display` | passes | the four control codes and a sign-extended byte (plain marks are the blanks of a tab), on 2 rows of 3, every initial cursor; at most 6 cells scrolled off. Wrap, scroll, a tab longer than a row (it scrolls inside) and an erasure after each of them happen |
| `ConsoleInput` | passes | a ring of 3, 5 arrivals among {0, 65, 255} and {0, 97} (no mouse), UART there or not: both indices wrap, the ring overruns, a byte equal to the "no device" value is stored |
| `ConsoleInputFull` | violation | the same kernel, against the comment on `cons_getc` |
| `ConsoleInputMouse` | violation | with a byte flagged `KBS_TERR`, against the comment in `kbd_proc_data` |
| `Keyboard` | passes | 14 keys in three groups, from one of which are all keys down and all locks in force, 3 keys down at once, 4 bytes ahead of the decoder: enough for a modifier, its twin and a third key, prefixed keys with compensating shifts, a lock that repeats under another key, Ctrl-Alt-Del with keys held over the reset |
| `LineEditor` | passes | a buffer of 6, 4 rows of 2, output of glyph, tab and newline from every cursor, at most 4 cells scrolled off: the line wraps twice and scrolls while it is typed and erased |
| `StabSearch` | passes | all tables of 4 stabs, all ranges in them, 6 addresses: equal addresses, neighbours, no match, wrap of the last address. It is a terminating procedure, so deadlock is not checked |
| `StabSearchNeighbours` | violation | against the comment above `stab_binsearch`; tables of 3 |
| `DebugInfo` | passes | tables of 9 stabs: a header and two files, each of up to two functions with parameters and parts of an included file, or assembly; every address, a string table that is missing or does not hold one of the names. It terminates, so deadlock is not checked; the same holds of the next three runs |
| `Boot` | passes | 32 kernels of one or two pages of text, data and BSS of different sizes, whose segments end inside sectors, and a disk without a kernel; A20 on or off, ports there or not, devices silent for ever. Pages of 4, sectors of 2, line 20 at 16: only the order of these sizes matters |
| `Library` | passes | `memmove` and `memset` of up to 9 bytes at every pair of places in 13 (words of 4, so each kind of alignment and overlap); every escape of up to 3 characters of 11, and longer ones with flag, width and precision; buffers of 0 to 12; lines of 6 characters with `argv` of 3; 81 memories of two strings of up to 2 bytes, one of them above 127, from places in both and with sizes of 0 to 3, each function wherever its caller may call it: strings that are equal, the beginning of each other or the same, sizes that run out before, with and after the string. `UINT` is 256: a negative number printed as an unsigned one is beyond a long, the others are not |
| `GradeTests` | passes | 3 tests in any selection, 1 line of make's and 3 of the kernel's, a pipe of 5 items read 2 at a time: what is in the pipe when the breakpoint is told takes more than one read |

Bounds, all named: `MaxLost`, `MaxTop` (scrolled cells), `MaxArrivals`,
`MaxWire`, `MaxHeld`, `Groups`; in `MCStabSearch`, stabs of other types hold
address 0, as it is never read. None of them hides a case distinction of the
code: positions matter modulo row and screen, ring indices modulo the size.

What the properties say, beyond types:

* `ScreenIsWindow` - `Display` implements `Terminal`. Nothing a user has seen is
  changed but by an erasure, rows leave at the top unchanged and enter blank.
* `EraseUndoesMark` - a backspace after any mark restores the position on the
  page and a blank cell, also when the mark wrapped or scrolled.
* `RingIsLossyFifo` - `ConsoleInput` implements `LossyFifo`.
* `LossInWholeBuffers` - stashed = returned + waiting + a multiple of
  `CONSBUFSIZE`, and what waits is the newest input in order.
* `InputDrained` - once the devices are silent, devices and ring become empty and
  stay so.
* `DecodedAsTyped` - each byte decodes to what the keys down and the locks struck
  give it, but for four departures (`sure`): what is typed after a lock has repeated
  an odd number of times, or while one twin of a modifier is up and the other down,
  Ctrl-Home, and the keypad's period where it is a Del because Num Lock is off. They are listed
  under "Where the code and its comments differ". What a key gives at each level
  (`Legend`) is that of a US keyboard, with line feed on Enter and return on
  Ctrl-Enter as the maps have them. `NoStuckModifier` - no modifier is set for which
  no key is down that was struck since the last reset.
* `EchoIsLine`, `PromptSafe` - the screen and the buffer agree for as long as the
  line is edited, and no key reaches what stands before it.
* `FunctionReported`, `FileReported`, `AssemblyReported`, `RefusedOnlyOutside` - the
  answer of `debuginfo_eip` is what the table says when it is read as a whole,
  without any search.
* `LoaderUndisturbed`, `KernelLoaded`, `FetchesKernel` - the loader is not loaded
  over; the memory is the file's segments with a zero BSS; each instruction
  fetched, with or without paging, is the one linked for that address.
* `LossNeedsTimeout` - the serial line and the printer get the output in order and
  lose a character only after a full round of polls.
* `MoveExact`, `StringsAgree` (of `ScansExact`, `ComparesExact`, `CopiesExact` and
  `ReadBack`), `BufferBounded`, `NumberField`, `StringField`,
  `UnknownLiteral`, `ArgvIsWords` - each function against a reference definition.
  `StringField` says which characters a string is padded with and on which side, as
  the code has it; `NumberField` leaves out the `-` flag.
* `OutputComplete`, `VerdictsTrue` - the script judges by all the kernel printed,
  although the breakpoint's reply overtakes the output; `NothingLeft` - no process
  and no connection is left; `RunOnceFirst` - QEMU runs once, before any test that
  looks at its output.
* `SearchCorrect`, `Terminates` - the bracket of the comment, under the
  precondition the code needs (`RoomAbove`), and the end of the loop.

### Fairness

`ConsoleInput` assumes weak fairness of the kernel's steps: the processor runs
nothing else, no step of the poll waits for anything, and the callers of
`getchar` (the loop of `readline`) always ask again. The devices owe nothing;
`InputDrained` therefore speaks of what happens after the arrivals end, which
the bound `MaxArrivals` makes true of every behaviour. `StabSearch` assumes that
the procedure is executed, as `Library` does (`Returns`). `Boot` assumes that the
processor runs, that the keyboard controller takes what it is sent and that the
disk answers; nothing of the serial port and the printer, which is why
`BootCompletes` depends on the bounds of their waits. `GradeRunner` assumes that
the script runs, that time passes (`Deadline`) and that a process that was sent
SIGTERM ends; a kernel may print nothing, hang, or never reach the breakpoint.
The other modules state only safety.

### Where the code and its comments differ

1. A full ring is taken for an empty one (`console.c:404` against `:409`).
2. A mouse byte is not ignored but blocks the keys behind it (`console.c:326`
   against `:325`).
3. `addr++` after an exact match lets the search return the stab at the next
   address (`kdebug.c:80` against `:20` and `:31`).

The runs `ConsoleInputFull`, `ConsoleInputMouse` and `StabSearchNeighbours` show these
three. The next three have no run of their own; the properties named state what the
code does, or leave the case out:

4. Ctrl, Alt and Del do not reboot while one of two Ctrls (or Alts) has gone up, since
   a flag stands for both and either's break code clears it (`console.c:338` against
   `:358`). `DecodedAsTyped` leaves it out.
5. A string is padded to a width (`printfmt.c:178-187` against `:12-13`, which has
   padding and widths for numbers only). `StringField` states the code's padding.
6. The `-` flag does not pad a number on the right: `printnum` takes it for a padding
   character and prints minus signs on the left (`printfmt.c:44-45` against `:107`).
   `NumberField` leaves it out.

Seen while modelling, in code whose intent no document states:

* `debuginfo_eip`: for an address behind a file's start but below its first
  function the second search leaves `lfun` at the file's own stab, which is then
  reported as the function. `FunctionReported` speaks of addresses in a function.
* `kbd_proc_data`: a lock key toggles again at each typematic repeat
  (`console.c:347`); either twin's release ends a modifier both hold (`:338`, 4
  above); `ctlmap` has Home at 97 where the key is looked up at C7, so Ctrl-Home
  gives nothing (`:296`); `NUMLOCK` is kept but chooses no map, so that the keypad's
  keys are always digits and its period never Del (`:349`).
* `vprintfmt`: a sign stands outside the width and before the padding; the
  `0` of `%.0s` is a flag, not a precision; `%o` is an exercise and prints `XXX`.
* `runcmd`: the message says max 16, the sixteenth argument is refused.
* `readseg`: "we load in increasing order" (`main.c:86`) does not protect a segment
  from the next one's first sector; the linker script's page alignment does.
* `run_qemu`: where GDB never connects, `sys.exit` comes before `kill`. A new
  connection is tried only when there is more output.

## Proofs

TLAPS proves, for every value of the constants under the named assumptions:

| Theorem | Statement | Assumptions |
|---|---|---|
| `DisplayProofs!TypeCorrect` | `Spec => []TypeOK` | at least 2 rows, 1 column; positions up to a row past the screen fit 16 bits |
| `DisplayProofs!Refinement` | `Spec => T!Spec` | the same |
| `ConsoleInputProofs!TypeCorrect` | `Spec => []TypeOK` | at least 2 slots; device values are bytes |
| `ConsoleInputProofs!Refinement` | `Spec => Fifo!Spec` | the same |
| `LineEditorProofs!TypeCorrect`, `EchoCorrect`, `PromptIsSafe` | `[]TypeOK`, `[]EchoIsLine`, `PromptSafe` | a full line leaves a row of the window free; keys are 1..255 |
| `DebugInfoProofs!TypeCorrect`, `Correct` | `SearchSpec => []TypeOK`, `[]SearchCorrect` | the table is sorted where the call looks (part of `SearchInit`) |
| `DebugInfoProofs!FunctionIsReported`, `FileIsReported`, `AssemblyIsReported`, `OnlyOutsideRefused` | `[]FunctionReported`, `[]FileReported`, `[]AssemblyReported`, `[]RefusedOnlyOutside` | `TablesAssumption`: tables begin with a header, their files ascend and so do their functions, two at different addresses being at least two bytes apart, and parameters stand behind their function |
| `DisplayProofs!EraseCorrect` | `[]EraseUndoesMark` | as for `Display` above |
| `ConsoleInputProofs!LossIsWhole` | `[]LossInWholeBuffers` | as for `ConsoleInput` above |
| `KeyboardProofs!TypeCorrect`, `DecodingCorrect`, `ModifiersReleased` | `[]TypeOK`, `[]DecodedAsTyped`, `[]NoStuckModifier` | `Keys` are among the fourteen modelled keys; any bound on the wire |
| `LibraryProofs!MoveCorrect` | `MemorySpec => []MoveExact` | memory and sizes are natural numbers |
| `LibraryProofs!ArgvCorrect` | `MonitorSpec => []ArgvIsWords` | `MonitorAssumption`: a line holds no null; `argv` has at least one place |
| `LibraryProofs!FormatInvariance`, `BufferCorrect`, `StringCorrect`, `LiteralCorrect`, `NumberCorrect` | `PrintfmtSpec => []FormatInv`, `[]BufferBounded`, `[]StringField`, `[]UnknownLiteral`, `[]NumberField` | `PrintfmtAssumption`: the null that ends a format is none of its characters; the buffer lies in the memory around it |
| `LibraryProofs!ReadBackCorrect` | `PrintfmtSpec => []ReadBack` | the same |
| `LibraryProofs!StringsInvariance`, `ScansCorrect`, `ComparesCorrect`, `CopiesCorrect` | `StringsSpec => []StringsInv`, `[]ScansExact`, `[]ComparesExact`, `[]CopiesExact` | `StringsAssumption`: memory holds bytes; strings end; there is room for what is written, and it is not what is read (`Owed`) |
| `LibraryProofs!StringsAgreeCorrect`, `LibraryCorrect` | `Library!Spec => []StringsAgree`, and the six properties above it | all of these |
| `GradeProofs!TypeCorrect`, `NothingIsLeft`, `OutputIsComplete`, `RunsOnceFirst`, `VerdictsAreTrue` | `[]TypeOK`, `[]NothingLeft`, `[]OutputComplete`, `[]RunOnceFirst`, `[]VerdictsTrue` | the numbers of lines and the sizes of pipe and read are natural; the list of tests is made of the tests |
| `BootProofs!TypeCorrect`, `LoaderSafe`, `KernelInPlace`, `FetchesRight`, `LossesPaidFor` | `[]TypeOK`, `[]LoaderUndisturbed`, `[]KernelLoaded`, `[]FetchesKernel`, `[]LossNeedsTimeout` | `BootAssumption`: the header's sectors lie between the loader and line 20, which memory reaches; `PagingAssumption`: the kernel's base is a multiple of what one page table maps; `ImagesAssumption`: an image with the magic number is `Linked` as `kernel.ld` does it; and, part of the model of the devices, the controller takes 0xdf before the disk's first sector comes (`DiskReady`). The last needs only that `MaxPolls` is natural |

The arguments:

* `Display`. The invariant adds `reg = pos`: between calls the 6845 shows
  `crt_pos`, since every path ends in `MoveCursor`. A lemma per piece
  (`Backspace`, `NewLine`, `Glyph`, `Scroll`, ...) says what it does to the page of
  history and screen; a plain call is their composition, a tab five of these
  and an idle tail. The refinement is then equality of pages.
  `EraseCorrect` takes two lemmas: a mark moves the cursor one cell on, counted
  with the cells scrolled off, and never to the window's first cell; a backspace
  from any other cell steps back onto a blank.
* `ConsoleInput`. `TypeOK` alone does not keep 0 out of what `Take` returns: the
  invariant adds that each waiting slot holds 1..255. The refinement shows that
  storing appends to `Waiting` or, when `wpos` meets `rpos`, empties it, and that
  taking drops its head; lemmas on `Backlog`, `Slot` and `Succ` carry the modular
  arithmetic.
  `LossIsWhole` needs the account of the histories: stashed is returned, waiting
  and some number of whole rings, and what waits is the end of what was stashed. A
  lemma each says that storing with room, overrunning and taking keep it.
* `Keyboard`. The bytes on the wire are a path: each is decoded as meant in the
  flags the ones before it lead to, and all together lead from the decoder's
  flags to those in force for the typist (`InForce`) with the ones in `astray` the
  other way. A byte that is `sure` was sent while nothing was astray. A flag the
  decoder has on for a modifier is therefore one that a key down holds: it is only
  ever astray by being off.
  Sending appends to the path, decoding takes its first byte off. What one byte
  does is a distinction of keys, so `Keys` is a set of modelled keys, not any set.
* `Memory`. While the string instruction runs, `Pending` is the part of the
  destination not yet written, at its low or its high end by the direction; all
  other bytes of it are as wanted, all else is as `before`; what `eax` holds has the low
  byte of the argument at each place `stos` stores (`StoredByte`). That a source byte still to
  be read is not among those written is where the choice of direction is needed.
  `MemorySpec`, `MonitorSpec`, `PrintfmtSpec` and `StringsSpec` are the parts of
  `Library` that concern each of its modules; the last two theorems put them
  together.
* `Strings`. A loop that looks for something has passed no byte it would have stopped
  at, and one that compares has passed equal bytes, none of them the end; so where it
  stops, and why, is what the reference definitions name (`Walk`, `DistanceIs`,
  `ComparedIs`). A copy has filled a beginning of the destination with the string, and
  nulls behind it (`Filling`); as the destination is not what is read, the source is
  still as it was (`CopyPlace`). The size left is the size less what was passed, and
  for `strlcpy` a byte of it is still left, for the null.
* `Monitor`. `Saved` is the set of words that begin before `buf` (or, while one is
  scanned, at it): `argc` is its size, and the word with n words before it is at
  `argv[n]`. The line is as typed but for nulls where whitespace was passed, which
  is why a word, once saved, still ends where it did. The gobbling loop always stops
  at the beginning of a word or at the end of the line.
* `Printfmt`. The buffer is a function of the output so far (`Buffer`), full or not.
  A percent sign lies behind every escape, without which the code's step back
  over an unknown one would leave the format. Inside `printnum`, the number left,
  followed by the callers' digits, has the value of the argument (`ValueFrom` reads
  digits from a number on); one more digit keeps that, as n is (n / base) * base +
  n % base, and the width has shrunk by one with each. A number left is positive,
  so no zero leads. That the value of digits is well-defined for every number of
  them is itself proved, by the least counterexample. `strtol` then reads the number
  back for three reasons: no digit is a blank, a sign or the x of a prefix, so what it
  skips is what was put before them; zeros before digits add nothing to their value;
  and the value it computes is the one `printnum` took apart.
* `LineEditor`. The echo is right only while the line's first cell is still in
  the window, so the invariant adds that the window's top is at most `start`
  while a line is edited; that is where the assumption on `BUFLEN` and the screen
  is needed. Lemmas say what `Write` does to a page at and below a position.
* `StabSearch`. The invariant says: the call is over a sorted range; the locals
  are in range; if the incremented address is harmless (`RoomAbove`), no stab of
  the type between `r` and the end lies at or below `arg.addr`, none up to `l`
  lies above it, and `region_left` is the best match so far; `any_matches` is set
  only where there is a stab of the type, and decides the outcome. The theorem
  is its reading at `pc = "done"`.
* `DebugInfo`. Each search keeps `StabSearch`'s invariant, since the other steps do
  not touch its variables. Its result for the files is `TheFile`: the one that
  begins last at or below the address, and what follows it up to the next. That is
  the range of the second search, inside which the file's functions are those of
  the table as a whole. What the walk back and the parameter loop find is the
  greatest, or the first, index of a set, which exists by the least-number
  principle. That functions lie two bytes apart gives `RoomAbove`, and so the place
  where the code departs from its comment (3 above) is out of reach of these tables.
* `GradeRunner` and `GradeTests`. What QEMU printed is what was read followed by
  what is in the pipe; the pipe is empty once the end was read, and the process is
  gone once it was waited for; a stop reply is the last a machine sends, which is
  why all the output is in the pipe by then. `saved` is all of `output` but a
  beginning no longer than the preamble, so nothing of the kernel's is missing
  from it. Of the tests: which calls are on the stack, that QEMU was started only
  by the test it belongs to, and what each verdict rests on.
* `Boot`. `TypeOK` and the four properties follow from five conjuncts. `Gate`: the
  request for line 20 is on its way from `boot.S` to the controller, and through
  before the first sector is taken (with the assumption on time in `DiskReady`).
  `Reading`: where `readseg` is in the file goes with where it is in memory, for
  the file's and the memory's offset into a sector are the same. `Loaded`: every
  part read so far, and the present one up to `pa`, is in memory, with what
  follows it in the file where its sectors go on; the parts below stay because
  each begins in a later sector than the one before ends. `Running`: which
  instruction the processor is at, and whether with paging. And `ConsoleInv`: the
  characters a device took ascend, and printed minus taken is at most the number
  of timeouts. Lemmas say that the page tables map the first `PTSIZE` addresses at
  0 and at `KERNBASE` and write only there (`TranslateLow`, `TranslateHigh`), and carry the
  arithmetic of sectors.

Model-checked only: the liveness properties `InputDrained`, `Terminates`,
`BootCompletes`, `Returns` and `GradingEnds`, as liveness under fairness and ENABLED
are beyond the prover. Where a proof needs induction
over data (the value of digits, the last stab below an address) it uses the least
element of a set of natural numbers; the induction theorems of the library
take the induction hypothesis as an operator, which the prover cannot supply.

## Not modelled, and why

* Which video adapter is found (only addresses differ); keys that behave like a
  modelled one, Print Screen and Pause; the serial port's programming beyond its
  effect; the read-error branch of `readline`, which no caller can reach.
* `_panic` and `_warn`: the one panic of this code is in `debuginfo_eip`, which
  nothing calls at this commit; `DebugInfo` ends in it.
* What `mon_help` and `mon_kerninfo` print (layout); `mon_backtrace`, the line number
  of `debuginfo_eip` and `%o` are exercises the code leaves empty.
* The variants of `memmove` and `memset` without string instructions (`ASM` is
  defined in `string.c`); the length of a function's name up to its colon; overflow
  of a width or of `strtol`'s long, and its `endptr`; `Secthdr` and the flags of ELF
  segments, which the loader ignores.
* The segment descriptors: all of them are flat.
* A cursor off the screen at the start: `CgaInit` takes the position read from the
  6845 to be on the screen, as the firmware leaves it. `cga_init` does not check it.
* Of `gradelib.py`: building, colours, the score, the command line, and monitors
  and tests for kernels with processes and a disk.
* `user/sendpage.c` and `fs/test.c` (written for kernels with processes and a file
  server) and the build scripts have no behaviour in this kernel.
* A composition of `LineEditor`, `Display` and `ConsoleInput` in one state space: the
  parts meet through proved refinements and type theorems instead (see above).

## Plan

1. Done: every component of the inventory but the parts named above.
2. Done: proofs of every safety property and refinement the runs check.
