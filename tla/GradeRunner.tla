------------------------------ MODULE GradeRunner ------------------------------
(***************************************************************************)
(* Runner.run_qemu() of gradelib.py: starts make and QEMU, connects to     *)
(* QEMU's GDB stub, reacts to its output and to the breakpoint, and shuts  *)
(* it down.  The output is a sequence of items, the text of a line and its *)
(* newline, that go through a pipe; QEMU, the pipe, the socket and the     *)
(* timers run on their own.                                                *)
(***************************************************************************)
EXTENDS Integers, Sequences, SequencesExt

CONSTANTS
  Preamble,   \* the number of lines printed before QEMU's stub listens
  Lines,      \* the number of lines the kernel prints at most
  PipeSize,   \* items the pipe holds
  ReadSize    \* 4096: items os.read returns at most

ASSUME RunnerAssumption ==
  Preamble \in Nat /\ Lines \in Nat /\ PipeSize \in Nat /\ ReadSize \in Nat

VARIABLES
  qemu,       \* "none", "make", "listening", "running", "stopped", "exited"
  killed,     \* it has been sent SIGTERM
  printed,    \* all the items written to the pipe
  pipe,       \* those not yet read
  socket,     \* "none", "open", "eof", "closed"
  packets,    \* stop replies not yet received
  phase,      \* where run_qemu is
  proc,       \* the Popen object is there
  rset,       \* what select returned and is still to be handled
  output,     \* QEMU.output
  saved,      \* the file of the save monitor
  stopline,   \* the line stop_on_line waits for, 0 without such a monitor
  timedout    \* some deadline has passed

qemu_vars == <<qemu, killed, printed>>
links == <<pipe, socket, packets>>
runner == <<phase, proc, rset, output, saved>>
run_qemu == <<qemu_vars, links, runner, stopline, timedout>>

Text(l) == [line |-> l, newline |-> FALSE]
Newline(l) == [line |-> l, newline |-> TRUE]
Item(i) == IF i % 2 = 1 THEN Text((i + 1) \div 2) ELSE Newline(i \div 2)

\* The lines are counted from the first of the preamble.
KernelLine(l) == Preamble + l

RunnerInit ==
  /\ qemu = "none" /\ killed = FALSE /\ printed = <<>>
  /\ pipe = <<>> /\ socket = "none" /\ packets = <<>>
  /\ phase = "idle" /\ proc = FALSE /\ rset = {} /\ output = <<>> /\ saved = <<>>
  /\ stopline \in {0} \cup {KernelLine(l) : l \in 1 .. Lines}
  /\ timedout = FALSE

-----------------------------------------------------------------------------
(* make and QEMU *)

Emit ==
  /\ Len(pipe) < PipeSize
  /\ printed' = Append(printed, Item(Len(printed) + 1))
  /\ pipe' = Append(pipe, Item(Len(printed) + 1))
  /\ UNCHANGED <<qemu, killed, socket, packets, runner, stopline, timedout>>

MakePrints == qemu = "make" /\ Len(printed) < 2 * Preamble /\ Emit

\* The stub listens; the machine waits for the debugger to let it go on.
QemuListens ==
  /\ qemu = "make" /\ Len(printed) = 2 * Preamble
  /\ qemu' = "listening"
  /\ UNCHANGED <<killed, printed, links, runner, stopline, timedout>>

QemuPrints == qemu = "running" /\ Len(printed) < 2 * (Preamble + Lines) /\ Emit

\* The breakpoint is hit, after any line.
QemuBreaks ==
  /\ qemu = "running"
  /\ qemu' = "stopped" /\ packets' = Append(packets, "T05")
  /\ UNCHANGED <<killed, printed, pipe, socket, runner, stopline, timedout>>

\* The build fails, the machine resets, or the signal takes effect.
Exits ==
  /\ qemu' = "exited"
  /\ socket' = IF socket = "open" THEN "eof" ELSE socket
  /\ UNCHANGED <<killed, printed, pipe, packets, runner, stopline, timedout>>

QemuExits == qemu \in {"make", "running"} /\ ~killed /\ Exits
QemuDies == killed /\ qemu # "exited" /\ Exits

Machine == MakePrints \/ QemuListens \/ QemuPrints \/ QemuBreaks \/ QemuExits \/ QemuDies

-----------------------------------------------------------------------------
(* run_qemu *)

\* Something else already listens at the port of the GDB stub: the script exits
\* (gradelib.py:248-258).
StubFound ==
  /\ phase \in {"idle", "returned"}
  /\ phase' = "failed"
  /\ UNCHANGED <<qemu_vars, links, proc, rset, output, saved, stopline, timedout>>

\* Nothing answers there: a new QEMU object, with nothing read yet.  Nothing
\* else prevents a second one.
StartQemu ==
  /\ phase \in {"idle", "returned"}
  /\ phase' = "start" /\ qemu' = "make" /\ proc' = TRUE /\ killed' = FALSE
  /\ printed' = <<>> /\ pipe' = <<>> /\ output' = <<>>
  /\ socket' = "none" /\ packets' = <<>> /\ rset' = {}
  /\ UNCHANGED <<saved, stopline, timedout>>

Reacting == phase \in {"start", "monitor", "drain"}

Reactors == (IF proc THEN {"qemu"} ELSE {})
            \cup (IF phase # "start" /\ socket \in {"open", "eof"} THEN {"gdb"} ELSE {})
Readable(r) == CASE r = "qemu" -> pipe # <<>> \/ qemu = "exited"
                 [] r = "gdb" -> packets # <<>> \/ socket = "eof"

Select ==
  /\ Reacting /\ rset = {}
  /\ rset' = {r \in Reactors : Readable(r)}
  /\ rset' # {}
  /\ UNCHANGED <<qemu_vars, links, phase, proc, output, saved, stopline, timedout>>

\* Mutant of Leave: the shutdown does not go on reading the output.
LeaveAtOnce ==
  /\ rset' = {}
  /\ phase' = CASE phase = "start" -> "failed" [] phase \in {"monitor", "drain"} -> "wait"
  /\ killed' = (killed \/ (phase = "monitor" /\ proc))

\* Mutant of Leave: the shutdown does not kill the process.
LeaveAlive ==
  /\ rset' = {}
  /\ phase' = CASE phase = "start" -> "failed"
                [] phase = "monitor" -> "drain"
                [] phase = "drain" -> "wait"
  /\ UNCHANGED killed

\* Leaving the loop of __react: from the start without GDB to sys.exit, from
\* the monitors to the shutdown's kill, from the shutdown to the wait.
Leave ==
  /\ rset' = {}
  /\ phase' = CASE phase = "start" -> "failed"
                [] phase = "monitor" -> "drain"
                [] phase = "drain" -> "wait"
  /\ killed' = (killed \/ (phase = "monitor" /\ proc))

Stay == rset' = rset \ {"qemu"} /\ UNCHANGED <<phase, killed>>

Least(x, y) == IF x < y THEN x ELSE y
Chunk == SubSeq(pipe, 1, Least(ReadSize, Len(pipe)))
HasNewline(s) == \E i \in DOMAIN s : s[i].newline

\* Mutant of Callbacks: the stopping monitor is called before the saving one.
CallbacksStopFirst ==
  IF phase = "start"
  THEN /\ UNCHANGED <<saved, killed>>
       /\ IF HasNewline(Chunk) THEN rset' = {} /\ phase' = "connecting"
                               ELSE rset' = rset \ {"qemu"} /\ UNCHANGED phase
  ELSE IF stopline > 0 /\ Contains(Chunk, Newline(stopline))
       THEN Leave /\ UNCHANGED saved
       ELSE Stay /\ saved' = saved \o Chunk

\* What on_output does with a chunk: __monitor_start at first, then the
\* monitors, of which a stop_on_line ends the loop when it has seen its line.
Callbacks ==
  IF phase = "start"
  THEN /\ UNCHANGED <<saved, killed>>
       /\ IF HasNewline(Chunk) THEN rset' = {} /\ phase' = "connecting"
                               ELSE rset' = rset \ {"qemu"} /\ UNCHANGED phase
  ELSE /\ saved' = saved \o Chunk
       /\ IF stopline > 0 /\ Contains(Chunk, Newline(stopline)) THEN Leave ELSE Stay

HandleOutput ==
  /\ Reacting /\ "qemu" \in rset /\ pipe # <<>>
  /\ output' = output \o Chunk
  /\ pipe' = SubSeq(pipe, Len(Chunk) + 1, Len(pipe))
  /\ Callbacks
  /\ UNCHANGED <<qemu, printed, socket, packets, proc, stopline, timedout>>

\* The end of the output: during the start it ends the loop before the process
\* is waited for.
HandleEof ==
  /\ Reacting /\ "qemu" \in rset /\ pipe = <<>>
  /\ IF phase = "start" THEN Leave /\ UNCHANGED proc ELSE Stay /\ proc' = FALSE
  /\ UNCHANGED <<qemu, printed, links, output, saved, stopline, timedout>>

\* GDBClient gets as long as it needs, or gives up after two seconds and is
\* tried again when there is more output.  Then the monitors are set up, the
\* saving one with an empty file, and the machine is let go on.
Connect ==
  /\ phase = "connecting"
  /\ \/ /\ qemu = "listening"
        /\ phase' = "monitor" /\ socket' = "open" /\ qemu' = "running" /\ saved' = <<>>
     \/ phase' = "start" /\ UNCHANGED <<socket, qemu, saved>>
  /\ UNCHANGED <<killed, printed, pipe, packets, proc, rset, output, stopline, timedout>>

HandleBreakpoint ==
  /\ Reacting /\ rset = {"gdb"} /\ packets # <<>>
  /\ packets' = Tail(packets)
  /\ Leave
  /\ UNCHANGED <<qemu, printed, pipe, socket, proc, output, saved, stopline, timedout>>

HandleGdbEof ==
  /\ Reacting /\ rset = {"gdb"} /\ packets = <<>>
  /\ socket' = "closed" /\ rset' = {}
  /\ UNCHANGED <<qemu_vars, pipe, packets, phase, proc, output, saved, stopline, timedout>>

NoReactors ==
  /\ Reacting /\ rset = {} /\ Reactors = {}
  /\ Leave
  /\ UNCHANGED <<qemu, printed, links, proc, output, saved, stopline, timedout>>

Deadline ==
  /\ Reacting /\ rset = {} /\ Reactors # {}
  /\ Leave /\ timedout' = TRUE
  /\ UNCHANGED <<qemu, printed, links, proc, output, saved, stopline>>

\* Mutant of Finish: the process is not waited for.
FinishUnwaited ==
  /\ phase = "wait"
  /\ phase' = "returned" /\ proc' = FALSE
  /\ socket' = "closed" /\ packets' = <<>>
  /\ UNCHANGED <<qemu_vars, pipe, rset, output, saved, stopline, timedout>>

\* gdb.close() and qemu.wait().
Finish ==
  /\ phase = "wait" /\ (proc => qemu = "exited")
  /\ phase' = "returned" /\ proc' = FALSE
  /\ socket' = "closed" /\ packets' = <<>>
  /\ UNCHANGED <<qemu_vars, pipe, rset, output, saved, stopline, timedout>>

React ==
  Select \/ HandleOutput \/ HandleEof \/ Connect \/ HandleBreakpoint \/ HandleGdbEof
  \/ NoReactors \/ Finish

RunnerNext == Machine \/ React \/ Deadline

\* The script runs, its deadlines pass, and a process that was sent SIGTERM
\* ends; a kernel need not print, stop or exit.
RunnerFairness == WF_run_qemu(React) /\ WF_run_qemu(Deadline) /\ WF_run_qemu(QemuDies)

-----------------------------------------------------------------------------
(* Properties *)

\* The states the process, its links and run_qemu can be in; at most one stop
\* reply is ever on its way.
RunnerTypeOK ==
  /\ qemu \in {"none", "make", "listening", "running", "stopped", "exited"}
  /\ killed \in BOOLEAN /\ proc \in BOOLEAN /\ timedout \in BOOLEAN
  /\ Len(pipe) <= PipeSize
  /\ socket \in {"none", "open", "eof", "closed"}
  /\ packets \in {<<>>, <<"T05">>}
  /\ phase \in {"idle", "start", "connecting", "monitor", "drain", "wait", "returned", "failed"}
  /\ rset \subseteq {"qemu", "gdb"}

\* If nothing timed out and no monitor stops on a line, run_qemu returns with
\* all that QEMU ever printed, also what was in the pipe when the breakpoint's
\* reply overtook it (gradelib.py:345, :426).  And whichever monitor or
\* deadline ended the run, the file of the save monitor has all that was read
\* since the connection was made (gradelib.py:290-294, :495).
OutputComplete ==
  /\ phase = "returned" /\ ~timedout /\ stopline = 0 => output = printed
  /\ IsSuffix(saved, output)
  /\ \A i \in DOMAIN output : output[i].line > Preamble => Contains(saved, output[i])

\* A run that returns leaves no process and no connection behind
\* (gradelib.py:421-428).
NothingLeft == phase = "returned" => qemu = "exited" /\ ~proc /\ socket = "closed"
=============================================================================
