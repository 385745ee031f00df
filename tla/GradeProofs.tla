------------------------------ MODULE GradeProofs ------------------------------
(***************************************************************************)
(* What the grading harness promises, for any tests, any dependent ones    *)
(* among them selected, any amount of output and any size of the pipe and  *)
(* of a read.                                                              *)
(***************************************************************************)
EXTENDS GradeTests, SequenceTheorems, TLAPS

Items == [line : Nat, newline : BOOLEAN]

\* Nothing is lost between QEMU and the output, and of the output the save
\* monitor has all but an early part that is no longer than the preamble.
Account ==
  /\ printed \in Seq(Items) /\ pipe \in Seq(Items)
  /\ output \in Seq(Items) /\ saved \in Seq(Items)
  /\ printed = output \o pipe
  /\ \A i \in 1 .. Len(printed) : printed[i] = Item(i)

Saved ==
  /\ Len(saved) <= Len(output) /\ Len(output) - Len(saved) <= 2 * Preamble
  /\ \A j \in 1 .. Len(saved) : saved[j] = output[Len(output) - Len(saved) + j]

\* Before the connection the kernel has not run, and nothing is saved.
Early == {"idle", "start", "connecting", "failed"}

Started ==
  phase \in Early =>
    /\ saved = <<>> /\ Len(printed) <= 2 * Preamble
    /\ qemu \in {"none", "make", "listening", "exited"}

\* The Popen object goes when the process has ended and all is read; a stop
\* reply is the last that a machine sends.
Process ==
  /\ phase \in {"start", "connecting"} => proc
  /\ phase \in {"monitor", "drain", "wait"} /\ ~proc => qemu = "exited" /\ pipe = <<>>
  /\ "qemu" \in rset => pipe # <<>> \/ qemu = "exited"
  /\ packets # <<>> => qemu \in {"stopped", "exited"}
  /\ NothingLeft

\* A run that nothing cuts short shuts down a machine that has stopped, and
\* then reads to the end.
Undisturbed == ~timedout /\ stopline = 0

Drained ==
  /\ phase = "drain" /\ Undisturbed /\ proc => packets = <<>> /\ qemu \in {"stopped", "exited"}
  /\ phase \in {"wait", "returned"} /\ Undisturbed => pipe = <<>> /\ qemu = "exited"

RunnerInv ==
  /\ RunnerTypeOK /\ stopline \in Nat
  /\ Account /\ Saved /\ Started /\ Process /\ Drained

-----------------------------------------------------------------------------
(* The items and the chunks *)

\* Every position has its item, and those of the preamble come first.
LEMMA ItemType ==
  ASSUME NEW i \in Nat \ {0}
  PROVE  Item(i) \in Items /\ (Item(i).line > Preamble <=> i > 2 * Preamble)
<1> Preamble \in Nat  BY RunnerAssumption
<1>1. CASE i % 2 = 1
  <2>1. (i + 1) \div 2 \in Nat /\ ((i + 1) \div 2 > Preamble <=> i > 2 * Preamble)
    BY <1>1
  <2>2. Item(i) = [line |-> (i + 1) \div 2, newline |-> FALSE]
    BY <1>1 DEF Item, Text
  <2> QED BY <2>1, <2>2 DEF Items
<1>2. CASE i % 2 # 1
  <2>1. i \div 2 \in Nat /\ (i \div 2 > Preamble <=> i > 2 * Preamble)
    BY <1>2
  <2>2. Item(i) = [line |-> i \div 2, newline |-> TRUE]
    BY <1>2 DEF Item, Newline
  <2> QED BY <2>1, <2>2 DEF Items
<1> QED BY <1>1, <1>2

\* A read takes the pipe's beginning and leaves the rest.
LEMMA ChunkOfPipe ==
  ASSUME pipe \in Seq(Items)
  PROVE  LET rest == SubSeq(pipe, Len(Chunk) + 1, Len(pipe))
         IN  /\ Chunk \in Seq(Items) /\ rest \in Seq(Items)
             /\ Len(Chunk) <= Len(pipe) /\ pipe = Chunk \o rest
             /\ Len(rest) <= Len(pipe)
<1> DEFINE n == Least(ReadSize, Len(pipe))
           rest == SubSeq(pipe, Len(Chunk) + 1, Len(pipe))
<1>1. Len(pipe) \in Nat /\ \A i \in 1 .. Len(pipe) : pipe[i] \in Items
  BY ElementOfSeq, LenProperties
<1>2. n \in 0 .. Len(pipe)  BY <1>1, RunnerAssumption DEF Least
<1> HIDE DEF n
<1>3. Chunk \in Seq(Items) /\ Len(Chunk) = n
  <2>1. Chunk = SubSeq(pipe, 1, n)  BY DEF Chunk, n
  <2>2. \A i \in 1 .. n : pipe[i] \in Items  BY <1>1, <1>2
  <2>3. SubSeq(pipe, 1, n) \in Seq(Items)
        /\ Len(SubSeq(pipe, 1, n)) = IF 1 <= n THEN n - 1 + 1 ELSE 0
    BY <1>2, <2>2, SubSeqProperties
  <2> QED BY <1>2, <2>1, <2>3
<1>4. rest \in Seq(Items) /\ Len(rest) <= Len(pipe)
  <2>1. \A i \in n + 1 .. Len(pipe) : pipe[i] \in Items  BY <1>1, <1>2
  <2>2. SubSeq(pipe, n + 1, Len(pipe)) \in Seq(Items)
        /\ Len(SubSeq(pipe, n + 1, Len(pipe)))
             = IF n + 1 <= Len(pipe) THEN Len(pipe) - (n + 1) + 1 ELSE 0
    BY <1>1, <1>2, <2>1, SubSeqProperties
  <2> QED BY <1>1, <1>2, <1>3, <2>2
<1>5. pipe = Chunk \o rest
  <2>1. SubSeq(pipe, 1, n) \o SubSeq(pipe, n + 1, Len(pipe)) = SubSeq(pipe, 1, Len(pipe))
    <3>1. /\ 1 \in 1 .. Len(pipe) + 1 /\ n \in 1 - 1 .. Len(pipe)
          /\ Len(pipe) \in n .. Len(pipe)
      BY <1>1, <1>2
    <3> QED BY <3>1, ConcatAdjacentSubSeq
  <2>2. SubSeq(pipe, 1, Len(pipe)) = pipe  BY SubSeqFull
  <2>3. Chunk = SubSeq(pipe, 1, n)  BY DEF Chunk, n
  <2> QED BY <1>3, <2>1, <2>2, <2>3
<1>6. Len(Chunk) <= Len(pipe)  BY <1>1, <1>2, <1>3
<1> QED BY <1>3, <1>4, <1>5, <1>6, Zenon

-----------------------------------------------------------------------------
(* Each step of the machine and of run_qemu *)

\* At the start nothing has been printed.
LEMMA RunnerInitInv == RunnerInit => RunnerInv
<1> SUFFICES ASSUME RunnerInit PROVE RunnerInv  OBVIOUS
<1> USE DEF RunnerInit
<1>1. RunnerTypeOK
  <2>1. Len(<<>>) <= PipeSize  BY RunnerAssumption
  <2> QED BY <2>1, Zenon DEF RunnerTypeOK
<1>2. stopline \in Nat  BY RunnerAssumption DEF KernelLine
<1>3. Account
  <2>1. <<>> \in Seq(Items) /\ Len(<<>>) = 0  BY EmptySeq
  <2>2. <<>> = <<>> \o <<>>  BY <2>1, ConcatEmptySeq
  <2> QED BY <2>1, <2>2 DEF Account
<1>4. Saved /\ Started  BY RunnerAssumption DEF Saved, Started
<1>5. Process /\ Drained  BY DEF Process, Drained, NothingLeft
<1> QED BY <1>1, <1>2, <1>3, <1>4, <1>5 DEF RunnerInv

\* What is printed goes to the end of the pipe.
LEMMA EmitAccount ==
  ASSUME Account, Saved, Emit
  PROVE  Account' /\ Saved' /\ Len(printed') = Len(printed) + 1 /\ pipe' # <<>>
<1> DEFINE item == Item(Len(printed) + 1)
<1>1. printed' = Append(printed, item) /\ pipe' = Append(pipe, item)
      /\ UNCHANGED <<output, saved>>
  BY DEF Emit, runner
<1>2. printed \in Seq(Items) /\ pipe \in Seq(Items) /\ output \in Seq(Items)
      /\ Len(printed) \in Nat
  BY LenProperties DEF Account
<1>3. item \in Items  BY <1>2, ItemType
<1> HIDE DEF item
<1>4. /\ printed' \in Seq(Items) /\ pipe' \in Seq(Items) /\ pipe' # <<>>
      /\ Len(printed') = Len(printed) + 1
      /\ \A i \in 1 .. Len(printed) : printed'[i] = printed[i]
      /\ printed'[Len(printed) + 1] = item
  BY <1>1, <1>2, <1>3, AppendProperties
<1>5. printed' = output' \o pipe'
  <2>1. <<item>> \in Seq(Items)  BY <1>3
  <2>2. printed' = printed \o <<item>> /\ pipe' = pipe \o <<item>>
    BY <1>1, <1>2, <1>3, AppendIsConcat
  <2>3. (output \o pipe) \o <<item>> = output \o (pipe \o <<item>>)
    BY <1>2, <2>1, ConcatAssociative
  <2> QED BY <1>1, <2>2, <2>3 DEF Account
<1>6. \A i \in 1 .. Len(printed') : printed'[i] = Item(i)
  <2>1. Item(Len(printed) + 1) = item  BY DEF item
  <2> SUFFICES ASSUME NEW i \in 1 .. Len(printed') PROVE printed'[i] = Item(i)
    OBVIOUS
  <2>2. CASE i = Len(printed) + 1  BY <1>4, <2>1, <2>2
  <2>3. CASE i # Len(printed) + 1
    <3>1. i \in 1 .. Len(printed)  BY <1>2, <1>4, <2>3
    <3> QED BY <1>4, <3>1 DEF Account
  <2> QED BY <2>2, <2>3
<1>7. Account'  BY <1>1, <1>4, <1>5, <1>6 DEF Account
<1>8. Saved'  BY <1>1 DEF Saved
<1> QED BY <1>4, <1>7, <1>8

\* The machine's own steps.
LEMMA MachineInv == RunnerInv /\ Machine => RunnerInv'
<1> SUFFICES ASSUME RunnerInv, Machine PROVE RunnerInv'  OBVIOUS
<1> USE DEF RunnerInv
<1>1. CASE MakePrints \/ QemuPrints
  <2>1. /\ Emit /\ qemu \in {"make", "running"}
        /\ qemu = "make" => Len(printed) < 2 * Preamble
    BY <1>1 DEF MakePrints, QemuPrints
  <2>2. /\ UNCHANGED <<qemu, killed, socket, packets, phase, proc, rset, saved, stopline, timedout>>
        /\ Len(pipe) < PipeSize
    BY <2>1 DEF Emit, runner
  <2>3. Account' /\ Saved' /\ Len(printed') = Len(printed) + 1 /\ pipe' # <<>>
    BY <2>1, EmitAccount
  <2>4. RunnerTypeOK'
    <3>1. Len(pipe') = Len(pipe) + 1 /\ Len(pipe) \in Nat
      <4>1. Item(Len(printed) + 1) \in Items
        BY ItemType, LenProperties DEF Account
      <4> QED BY <2>1, <4>1, AppendProperties, LenProperties DEF Emit, Account
    <3> QED BY <2>2, <3>1, RunnerAssumption DEF RunnerTypeOK
  <2>5. Started'
    <3>1. Len(printed) \in Nat /\ Preamble \in Nat
      BY LenProperties, RunnerAssumption DEF Account
    <3> QED BY <2>1, <2>2, <2>3, <3>1 DEF Started, Early
  <2>6. Process' /\ Drained'
    BY <2>1, <2>2, <2>3 DEF Process, Drained, Undisturbed, NothingLeft
  <2> QED BY <2>2, <2>3, <2>4, <2>5, <2>6
<1>2. CASE QemuListens
  BY <1>2 DEF QemuListens, links, runner, RunnerTypeOK, Account, Saved, Started, Process, Drained,
              Undisturbed, NothingLeft
<1>3. CASE QemuBreaks
  <2>1. packets = <<>>  BY <1>3 DEF QemuBreaks, Process
  <2>2. packets' = <<"T05">>  BY <1>3, <2>1 DEF QemuBreaks
  <2>3. qemu = "running" /\ qemu' = "stopped"
        /\ UNCHANGED <<killed, printed, pipe, socket, runner, stopline, timedout>>
    BY <1>3 DEF QemuBreaks
  <2> QED BY <2>1, <2>2, <2>3
          DEF runner, RunnerTypeOK, Account, Saved, Started, Process, Drained, Undisturbed, NothingLeft,
              Early
<1>4. CASE Exits
  BY <1>4 DEF Exits, runner, RunnerTypeOK, Account, Saved, Started, Process, Drained, Undisturbed,
              NothingLeft
<1> QED BY <1>1, <1>2, <1>3, <1>4 DEF Machine, QemuExits, QemuDies

\* What select returns can be handled without waiting.
LEMMA SelectInv == RunnerInv /\ Select => RunnerInv'
<1> SUFFICES ASSUME RunnerInv, Select PROVE RunnerInv'  OBVIOUS
<1>1. UNCHANGED <<qemu, killed, printed, pipe, socket, packets, phase, proc, output, saved, stopline, timedout>>
      /\ rset' = {r \in Reactors : Readable(r)}
  BY DEF Select, qemu_vars, links
<1>2. rset' \subseteq {"qemu", "gdb"}  BY <1>1 DEF Reactors
<1>3. "qemu" \in rset' => pipe # <<>> \/ qemu = "exited"  BY <1>1 DEF Readable
<1> QED BY <1>1, <1>2, <1>3
        DEF RunnerInv, RunnerTypeOK, Account, Saved, Started, Process, Drained, Undisturbed, NothingLeft

\* A chunk moves from the pipe to the output, and behind the connection also
\* to the file.
LEMMA OutputAccount ==
  ASSUME RunnerInv, HandleOutput
  PROVE  Account' /\ Saved' /\ printed' = printed /\ Len(pipe') <= Len(pipe)
<1> DEFINE c == Chunk
<1>1. /\ output' = output \o c /\ pipe' = SubSeq(pipe, Len(c) + 1, Len(pipe))
      /\ printed' = printed
  BY DEF HandleOutput
<1>2. /\ c \in Seq(Items) /\ pipe' \in Seq(Items)
      /\ pipe = c \o pipe' /\ Len(pipe') <= Len(pipe)
  BY <1>1, ChunkOfPipe DEF RunnerInv, Account
<1>3. /\ output \in Seq(Items) /\ saved \in Seq(Items) /\ Len(output) \in Nat
      /\ Len(saved) \in Nat /\ Len(c) \in Nat /\ Len(pipe') \in Nat /\ Preamble \in Nat
  BY <1>2, LenProperties, RunnerAssumption DEF RunnerInv, Account
<1>4. saved' = saved \/ saved' = saved \o c
  BY DEF HandleOutput, Callbacks
<1>5. phase \notin Early => saved' = saved \o c
  BY DEF HandleOutput, Callbacks, Early
<1> HIDE DEF c
<1>6. /\ output' \in Seq(Items) /\ Len(output') = Len(output) + Len(c)
      /\ \A i \in 1 .. Len(output) + Len(c) :
           output'[i] = IF i <= Len(output) THEN output[i] ELSE c[i - Len(output)]
  BY <1>1, <1>2, <1>3, ConcatProperties
<1>7. output' \o pipe' = printed
  <2>1. (output \o c) \o pipe' = output \o (c \o pipe')
    <3>1. output \in Seq(Items) /\ c \in Seq(Items) /\ pipe' \in Seq(Items)
      BY <1>2, <1>3
    <3> DEFINE rest == pipe'
    <3> HIDE DEF rest
    <3>2. rest \in Seq(Items)  BY <3>1 DEF rest
    <3>3. (output \o c) \o rest = output \o (c \o rest)
      BY <3>1, <3>2, ConcatAssociative
    <3> QED BY <3>3 DEF rest
  <2>2. printed = output \o pipe  BY DEF RunnerInv, Account
  <2> QED BY <1>1, <1>2, <2>1, <2>2
<1>8. /\ saved \o c \in Seq(Items) /\ Len(saved \o c) = Len(saved) + Len(c)
      /\ \A i \in 1 .. Len(saved) + Len(c) :
           (saved \o c)[i] = IF i <= Len(saved) THEN saved[i] ELSE c[i - Len(saved)]
  BY <1>2, <1>3, ConcatProperties
<1>9. Account'  BY <1>1, <1>2, <1>3, <1>4, <1>6, <1>7, <1>8 DEF RunnerInv, Account
<1>10. Saved'
  <2>1. CASE saved' = saved \o c
    <3>1. Len(saved') <= Len(output') /\ Len(output') - Len(saved') <= 2 * Preamble
      BY <1>3, <1>6, <1>8, <2>1 DEF RunnerInv, Saved
    <3>2. ASSUME NEW j \in 1 .. Len(saved')
          PROVE  saved'[j] = output'[Len(output') - Len(saved') + j]
      <4>1. Len(output') - Len(saved') = Len(output) - Len(saved)
        BY <1>3, <1>6, <1>8, <2>1
      <4> DEFINE k == Len(output) - Len(saved) + j
      <4>2. k \in 1 .. Len(output) + Len(c) /\ (k <= Len(output) <=> j <= Len(saved))
            /\ k - Len(output) = j - Len(saved) /\ j \in 1 .. Len(saved) + Len(c)
        BY <1>3, <1>8, <2>1 DEF RunnerInv, Saved
      <4> HIDE DEF k
      <4>3. output'[k] = IF k <= Len(output) THEN output[k] ELSE c[k - Len(output)]
        BY <1>6, <4>2
      <4>4. saved'[j] = IF j <= Len(saved) THEN saved[j] ELSE c[j - Len(saved)]
        BY <1>8, <2>1, <4>2
      <4>5. j <= Len(saved) => saved[j] = output[k]
        BY <4>2, <1>3 DEF RunnerInv, Saved, k
      <4>6. output'[k] = saved'[j]  BY <4>2, <4>3, <4>4, <4>5
      <4> QED BY <4>1, <4>6 DEF k
    <3> QED BY <3>1, <3>2 DEF Saved
  <2>2. CASE saved' # saved \o c
    <3>1. saved' = <<>> /\ Len(printed) <= 2 * Preamble
      BY <1>4, <1>5, <2>2 DEF RunnerInv, Started
    <3>2. Len(output') + Len(pipe') = Len(printed)
      BY <1>2, <1>6, <1>7, ConcatProperties
    <3> QED BY <1>3, <1>6, <3>1, <3>2 DEF Saved
  <2> QED BY <2>1, <2>2
<1> QED BY <1>1, <1>2, <1>9, <1>10

\* A chunk that is handled may end a phase of the run.
LEMMA OutputInv == RunnerInv /\ HandleOutput => RunnerInv'
<1> SUFFICES ASSUME RunnerInv, HandleOutput PROVE RunnerInv'  OBVIOUS
<1>1. Account' /\ Saved' /\ printed' = printed /\ Len(pipe') <= Len(pipe)
  BY OutputAccount
<1>2. /\ UNCHANGED <<qemu, printed, socket, packets, proc, stopline, timedout>>
      /\ phase \in {"start", "monitor", "drain"} /\ pipe # <<>>
  BY DEF HandleOutput, Reacting
<1>3. Len(pipe') \in Nat /\ Len(pipe) \in Nat
  BY <1>1, LenProperties DEF Account, RunnerInv
<1>4. CASE phase = "start"
  <2>1. saved' = saved /\ killed' = killed
        /\ \/ rset' = {} /\ phase' = "connecting"
           \/ rset' = rset \ {"qemu"} /\ phase' = phase
    BY <1>4 DEF HandleOutput, Callbacks
  <2>2. RunnerTypeOK'
    <3>1. /\ phase' \in {"start", "connecting"} /\ rset' \subseteq {"qemu", "gdb"}
          /\ killed' \in BOOLEAN
      BY <1>4, <2>1 DEF RunnerInv, RunnerTypeOK
    <3>2. Len(pipe') <= PipeSize
      BY <1>1, <1>3, RunnerAssumption DEF RunnerInv, RunnerTypeOK
    <3> QED BY <1>2, <3>1, <3>2 DEF RunnerInv, RunnerTypeOK
  <2>3. Started' /\ Drained'
    BY <1>1, <1>2, <1>4, <2>1 DEF RunnerInv, Started, Early, Drained
  <2>4. Process'
    BY <1>1, <1>2, <1>4, <2>1 DEF RunnerInv, Process, NothingLeft
  <2> QED BY <1>1, <1>2, <2>2, <2>3, <2>4 DEF RunnerInv
<1>5. CASE phase \in {"monitor", "drain"}
  <2>1. \/ stopline > 0 /\ Leave
        \/ rset' = rset \ {"qemu"} /\ UNCHANGED <<phase, killed>>
    BY <1>5 DEF HandleOutput, Callbacks, Stay
  <2>2. rset' \subseteq {"qemu", "gdb"} /\ "qemu" \notin rset' /\ killed' \in BOOLEAN
        /\ phase' \in {"monitor", "drain", "wait"}
    BY <1>5, <2>1 DEF Leave, RunnerInv, RunnerTypeOK
  <2>3. stopline = 0 => phase' = phase  BY <2>1
  <2>4. proc /\ (proc' <=> proc)  BY <1>2, <1>5 DEF RunnerInv, RunnerTypeOK, Process
  <2>5. RunnerTypeOK'  BY <1>1, <1>2, <1>3, <2>2, RunnerAssumption DEF RunnerInv, RunnerTypeOK
  <2>6. Drained'
    BY <1>2, <1>5, <2>2, <2>3, <2>4 DEF RunnerInv, Drained, Undisturbed
  <2>7. Started' /\ Process'
    BY <1>2, <1>5, <2>2, <2>4 DEF RunnerInv, Started, Early, Process, NothingLeft
  <2> QED BY <1>1, <1>2, <2>5, <2>6, <2>7 DEF RunnerInv
<1> QED BY <1>2, <1>4, <1>5

\* The other steps leave the text alone, except that the connection empties
\* the file.
LEMMA ReactInv == RunnerInv /\ (HandleEof \/ Connect \/ HandleBreakpoint \/ HandleGdbEof
                                \/ NoReactors \/ Deadline \/ Finish) => RunnerInv'
<1> USE DEF RunnerInv
<1>1. ASSUME RunnerInv, HandleEof PROVE RunnerInv'
  <2>1. /\ UNCHANGED <<qemu, printed, pipe, socket, packets, output, saved, stopline, timedout>>
        /\ pipe = <<>> /\ qemu = "exited"
        /\ \/ phase = "start" /\ phase' = "failed" /\ rset' = {} /\ killed' = killed /\ proc' = proc
           \/ phase \in {"monitor", "drain"} /\ UNCHANGED <<phase, killed>> /\ proc' = FALSE
              /\ rset' = rset \ {"qemu"}
    BY <1>1 DEF HandleEof, links, Leave, Stay, Reacting, Process, RunnerTypeOK
  <2> QED BY <1>1, <2>1
          DEF RunnerTypeOK, Account, Saved, Started, Early, Process, Drained, Undisturbed, NothingLeft
<1>2. ASSUME RunnerInv, Connect PROVE RunnerInv'
  <2>1. /\ UNCHANGED <<killed, printed, pipe, packets, proc, rset, output, stopline, timedout>>
        /\ phase = "connecting" /\ saved = <<>> /\ proc
        /\ \/ phase' = "monitor" /\ socket' = "open" /\ qemu = "listening" /\ qemu' = "running"
              /\ saved' = <<>>
           \/ phase' = "start" /\ UNCHANGED <<socket, qemu, saved>>
    BY <1>2 DEF Connect, Started, Process, Early
  <2>2. Account' /\ Saved'  BY <1>2, <2>1 DEF Account, Saved
  <2> QED BY <1>2, <2>1, <2>2
          DEF RunnerTypeOK, Started, Early, Process, Drained, NothingLeft
<1>3. ASSUME RunnerInv, HandleBreakpoint PROVE RunnerInv'
  <2>1. /\ UNCHANGED <<qemu, printed, pipe, socket, proc, output, saved, stopline, timedout>>
        /\ packets # <<>> /\ packets' = Tail(packets) /\ rset' = {}
        /\ qemu \in {"stopped", "exited"} /\ Reacting /\ Leave
    BY <1>3 DEF HandleBreakpoint, Leave, Process
  <2>2. packets' = <<>>
    <3>1. packets = <<"T05">>  BY <1>3, <2>1 DEF RunnerTypeOK
    <3>2. Tail(<<"T05">>) = <<>>  OBVIOUS
    <3> QED BY <2>1, <3>1, <3>2
  <2>3. phase # "start" => phase' \in {"drain", "wait"}
        /\ (phase = "monitor" => phase' = "drain") /\ (phase = "drain" => phase' = "wait")
        /\ killed' \in BOOLEAN
    BY <1>3, <2>1 DEF Reacting, Leave, RunnerTypeOK
  <2>4. phase = "start" => phase' = "failed" /\ killed' = killed  BY <1>3, <2>1 DEF Leave, RunnerTypeOK
  <2> QED BY <1>3, <2>1, <2>2, <2>3, <2>4
          DEF Reacting, RunnerTypeOK, Account, Saved, Started, Early, Process, Drained, Undisturbed,
              NothingLeft
<1>4. ASSUME RunnerInv, HandleGdbEof PROVE RunnerInv'
  BY <1>4 DEF HandleGdbEof, qemu_vars, RunnerTypeOK, Account, Saved, Started, Process, Drained,
              Undisturbed, NothingLeft
<1>5. ASSUME RunnerInv, NoReactors \/ Deadline PROVE RunnerInv'
  <2>1. /\ UNCHANGED <<qemu, printed, pipe, socket, packets, proc, output, saved, stopline>>
        /\ Reacting /\ Leave /\ rset' = {}
        /\ timedout' \/ (timedout' = timedout /\ ~proc)
        /\ timedout' \in BOOLEAN
    BY <1>5 DEF NoReactors, Deadline, Leave, links, Reactors, RunnerTypeOK
  <2>2. /\ phase = "start" => phase' = "failed"
        /\ phase = "monitor" => phase' = "drain"
        /\ phase = "drain" => phase' = "wait"
        /\ killed' \in BOOLEAN
    BY <1>5, <2>1 DEF Leave, RunnerTypeOK
  <2> QED BY <1>5, <2>1, <2>2
          DEF Reacting, RunnerTypeOK, Account, Saved, Started, Early, Process, Drained, Undisturbed,
              NothingLeft
<1>6. ASSUME RunnerInv, Finish PROVE RunnerInv'
  BY <1>6 DEF Finish, qemu_vars, RunnerTypeOK, Account, Saved, Started, Early, Process, Drained,
              Undisturbed, NothingLeft
<1> QED BY <1>1, <1>2, <1>3, <1>4, <1>5, <1>6

\* Altogether.
LEMMA RunnerNextInv == RunnerInv /\ RunnerNext => RunnerInv'
BY MachineInv, SelectInv, OutputInv, ReactInv DEF RunnerNext, React

\* A script that finds another stub exits with everything as it was.
LEMMA StubInv ==
  ASSUME RunnerInv, StubFound, phase = "idle"
  PROVE  RunnerInv'
<1>1. /\ phase = "idle" /\ phase' = "failed"
      /\ UNCHANGED <<qemu, killed, printed, pipe, socket, packets, proc, rset, output, saved, stopline,
                     timedout>>
  BY DEF StubFound, qemu_vars, links
<1>2. RunnerTypeOK'  BY <1>1 DEF RunnerInv, RunnerTypeOK
<1>3. Account' /\ Saved'  BY <1>1 DEF RunnerInv, Account, Saved
<1>4. Started'  BY <1>1 DEF RunnerInv, Started, Early
<1>5. Process' /\ Drained'  BY <1>1 DEF RunnerInv, Process, Drained, NothingLeft
<1> QED BY <1>1, <1>2, <1>3, <1>4, <1>5 DEF RunnerInv

\* A first start gives a new process and nothing read.
LEMMA StartInv ==
  ASSUME RunnerInv, StartQemu, phase = "idle"
  PROVE  RunnerInv'
<1>1. Account'
  <2>1. <<>> \in Seq(Items) /\ Len(<<>>) = 0  BY EmptySeq
  <2>2. <<>> = <<>> \o <<>>  BY <2>1, ConcatEmptySeq
  <2> QED BY <2>1, <2>2 DEF Account, StartQemu, RunnerInv, Started, Early
<1>2. saved = <<>> /\ Len(<<>>) = 0  BY DEF RunnerInv, Started, Early
<1>3. RunnerTypeOK'
  <2>1. Len(pipe') <= PipeSize  BY <1>2, RunnerAssumption DEF StartQemu
  <2> QED BY <2>1 DEF StartQemu, RunnerInv, RunnerTypeOK
<1>4. Saved' /\ Started'
  BY <1>2, RunnerAssumption DEF StartQemu, Saved, Started
<1>5. Process' /\ Drained'
  BY DEF StartQemu, RunnerInv, Process, Drained, NothingLeft
<1> QED BY <1>1, <1>3, <1>4, <1>5 DEF StartQemu, RunnerInv

\* run_qemu neither begins on its own nor goes on when it has returned.
LEMMA RunnerIdle ==
  ASSUME RunnerInv, RunnerNext
  PROVE  /\ phase = "idle" <=> phase' = "idle"
         /\ phase = "returned" => phase' = "returned" /\ UNCHANGED <<printed, output, timedout>>
         /\ UNCHANGED stopline
<1>1. CASE Machine
  <2>1. UNCHANGED <<phase, output, timedout, stopline>>
    BY <1>1 DEF Machine, MakePrints, QemuListens, QemuPrints, QemuBreaks, QemuExits, QemuDies, Emit,
                Exits, runner
  <2>2. phase = "returned" => printed' = printed
    BY <1>1 DEF Machine, MakePrints, QemuListens, QemuPrints, QemuBreaks, QemuExits, QemuDies, Exits,
                RunnerInv, Process, NothingLeft
  <2> QED BY <2>1, <2>2
<1>2. CASE HandleOutput
  <2>1. phase \in {"start", "monitor", "drain"} /\ UNCHANGED <<timedout, stopline>>
    BY <1>2 DEF HandleOutput, Reacting
  <2>2. phase' \in {"start", "connecting", "monitor", "drain", "wait", "failed"}
    BY <1>2, <2>1 DEF HandleOutput, Callbacks, Leave, Stay
  <2> QED BY <2>1, <2>2
<1>3. CASE HandleEof \/ HandleBreakpoint \/ NoReactors \/ Deadline
  <2>1. phase \in {"start", "monitor", "drain"} /\ UNCHANGED stopline
    BY <1>3 DEF HandleEof, HandleBreakpoint, NoReactors, Deadline, Reacting, links
  <2>2. phase' \in {"start", "monitor", "drain", "wait", "failed"}
    BY <1>3, <2>1 DEF HandleEof, HandleBreakpoint, NoReactors, Deadline, Leave, Stay
  <2> QED BY <2>1, <2>2
<1>4. CASE Select \/ Connect \/ HandleGdbEof \/ Finish
  BY <1>4 DEF Select, Connect, HandleGdbEof, Finish, Reacting, qemu_vars, links
<1> QED BY <1>1, <1>2, <1>3, <1>4 DEF RunnerNext, React

-----------------------------------------------------------------------------
(* The tests *)

\* The tests called: a selected one, and perhaps the root on its behalf.
Calls ==
  /\ \/ stack = <<>> /\ CURRENT_TEST = NoTest
     \/ \E t \in TestSet : stack = <<t>> /\ CURRENT_TEST \in {NoTest, t}
     \/ \E t \in TestSet \ {Root} : stack = <<t, Root>> /\ CURRENT_TEST \in {NoTest, Root}
  /\ \A i \in DOMAIN stack : stack[i] \in complete

RootCalled == stack # <<>> /\ Top = Root /\ CURRENT_TEST = NoTest

\* The root's flag is set when it is called, and it has ended when it is
\* neither called nor running.
Launches ==
  /\ launched \in {0, 1} /\ (launched = 0 <=> phase = "idle")
  /\ Root \notin complete \/ RootCalled => launched = 0
  /\ Root \in complete /\ launched = 0 => RootCalled
  /\ launched = 1 /\ Root \notin ended => CURRENT_TEST = Root
  /\ Root \in ended => phase = "returned"
  /\ CURRENT_TEST = Root => launched = 1 /\ Root \notin ended
  /\ CURRENT_TEST \notin {NoTest, Root} => Root \in ended
  /\ ended \ {Root} # {} => Root \in ended

Verdicts ==
  \A t \in ended \ {Root} : t \in passed <=> Contains(output, Text(KernelLine(Wanted[t])))

Marks ==
  /\ next \in 1 .. Len(Tests) + 1
  /\ complete \subseteq TestSet /\ ended \subseteq complete /\ passed \subseteq ended
  /\ finisher \in {NoTest, Root}

TestsInv == RunnerInv /\ Calls /\ Launches /\ Verdicts /\ Marks

\* Calls and returns on a stack of at most two.
LEMMA StackSteps ==
  ASSUME NEW S, NEW a \in S, NEW b \in S
  PROVE  /\ Append(<<a>>, b) = <<a, b>>
         /\ Last(<<a>>) = a /\ Front(<<a>>) = <<>>
         /\ Last(<<a, b>>) = b /\ Front(<<a, b>>) = <<a>>
<1>1. /\ <<a>> \in Seq(S) /\ Len(<<a>>) = 1 /\ <<a>>[1] = a
      /\ <<a, b>> \in Seq(S) /\ Len(<<a, b>>) = 2 /\ <<a, b>>[1] = a /\ <<a, b>>[2] = b
  OBVIOUS
<1>2. Append(<<a>>, b) = <<a, b>>
  <2>1. /\ Append(<<a>>, b) \in Seq(S) /\ Len(Append(<<a>>, b)) = 2
        /\ Append(<<a>>, b)[1] = a /\ Append(<<a>>, b)[2] = b
    BY <1>1, AppendProperties
  <2>2. \A i \in 1 .. 2 : Append(<<a>>, b)[i] = <<a, b>>[i]  BY <1>1, <2>1
  <2> QED BY <1>1, <2>1, <2>2, SeqEqual
<1>3. Front(<<a>>) = <<>>
  BY <1>1, SubSeqEmpty DEF Front
<1>4. Front(<<a, b>>) = <<a>>
  <2>1. /\ SubSeq(<<a, b>>, 1, 1) \in Seq(S) /\ Len(SubSeq(<<a, b>>, 1, 1)) = 1
        /\ SubSeq(<<a, b>>, 1, 1)[1] = a
    <3>1. \A i \in 1 .. 1 : <<a, b>>[i] \in S  BY <1>1
    <3> QED BY <1>1, <3>1, SubSeqProperties
  <2>2. SubSeq(<<a, b>>, 1, 1) = <<a>>
    <3>1. \A i \in 1 .. 1 : SubSeq(<<a, b>>, 1, 1)[i] = <<a>>[i]  BY <1>1, <2>1
    <3> QED BY <1>1, <2>1, <3>1, SeqEqual
  <2> QED BY <1>1, <2>2 DEF Front
<1> QED BY <1>1, <1>2, <1>3, <1>4 DEF Last

\* The script's own steps leave the run alone.
LEMMA RunnerUnchanged ==
  ASSUME RunnerInv, UNCHANGED run_qemu
  PROVE  RunnerInv' /\ UNCHANGED <<phase, output, printed, timedout, stopline>>
BY DEF run_qemu, runner, qemu_vars, links, RunnerInv, RunnerTypeOK, Account, Saved, Started, Process,
       Drained, Undisturbed, NothingLeft

\* Nothing is called at first.
LEMMA InitTests == Init => TestsInv
<1> SUFFICES ASSUME Init PROVE TestsInv  OBVIOUS
<1>1. RunnerInv  BY RunnerInitInv DEF Init
<1>2. phase = "idle"  BY DEF Init, RunnerInit
<1>3. Calls  BY DEF Init, Calls
<1>4. Root # NoTest  BY TestsAssumption
<1>5. Launches /\ Verdicts  BY <1>2, <1>4 DEF Init, Launches, RootCalled, Verdicts
<1>6. Marks  BY TestsAssumption, LenProperties DEF Init, Marks
<1> QED BY <1>1, <1>3, <1>5, <1>6 DEF TestsInv

\* The next test is called if it has not run.
LEMMA NextTestInv == TestsInv /\ NextTest => TestsInv'
<1> SUFFICES ASSUME TestsInv, NextTest PROVE TestsInv'  OBVIOUS
<1>1. /\ UNCHANGED <<run_qemu, selected, CURRENT_TEST, finisher, launched, passed, ended>>
      /\ stack = <<>> /\ next' = next + 1 /\ next <= Len(Tests)
  BY DEF NextTest
<1>2. Len(Tests) \in Nat /\ Root # NoTest /\ next \in 1 .. Len(Tests)
  BY <1>1, TestsAssumption, LenProperties DEF TestsInv, Marks
<1>3. Tests[next] \in TestSet  BY <1>2, TestsAssumption, ElementOfSeq
<1>4. CURRENT_TEST = NoTest  BY <1>1 DEF TestsInv, Calls
<1>5. RunnerInv' /\ Verdicts'
  BY <1>1, RunnerUnchanged DEF TestsInv, Verdicts
<1>6. CASE Tests[next] \in selected \ complete
  <2> DEFINE t == Tests[next]
  <2>1. stack' = <<t>> /\ complete' = complete \cup {t} /\ t \notin complete
    BY <1>6 DEF NextTest
  <2> HIDE DEF t
  <2>2. Calls'  BY <1>1, <1>3, <1>4, <2>1 DEF Calls, t
  <2>3. stack' # <<>> /\ Last(stack') = t  BY <2>1 DEF Last
  <2>4. RootCalled' <=> t = Root  BY <1>1, <1>4, <2>3 DEF RootCalled, Top
  <2>5. ~RootCalled  BY <1>1 DEF RootCalled
  <2>6. Launches'
    BY <1>1, <1>2, <1>4, <2>1, <2>4, <2>5 DEF TestsInv, Launches, run_qemu, runner
  <2>7. Marks'  BY <1>1, <1>2, <1>3, <2>1 DEF TestsInv, Marks, t
  <2> QED BY <1>5, <2>2, <2>6, <2>7 DEF TestsInv
<1>7. CASE UNCHANGED <<stack, complete>>
  <2>1. Calls' /\ Launches'
    BY <1>1, <1>7 DEF TestsInv, Calls, Launches, RootCalled, Top, run_qemu, runner
  <2>2. Marks'  BY <1>1, <1>2, <1>7 DEF TestsInv, Marks
  <2> QED BY <1>5, <2>1, <2>2 DEF TestsInv
<1> QED BY <1>6, <1>7 DEF NextTest

\* A test whose parent has not run calls it, and only then.
LEMMA CallParentInv == TestsInv /\ CallParent => TestsInv'
<1> SUFFICES ASSUME TestsInv, CallParent PROVE TestsInv'  OBVIOUS
<1>1. /\ UNCHANGED <<run_qemu, selected, next, CURRENT_TEST, finisher, launched, passed, ended>>
      /\ stack # <<>> /\ CURRENT_TEST = NoTest /\ Top # Root /\ Root \notin complete
      /\ stack' = Append(stack, Root) /\ complete' = complete \cup {Root}
  BY DEF CallParent, Waiting
<1>2. PICK t \in TestSet : stack = <<t>>
  <2>1. ASSUME NEW t \in TestSet \ {Root}, stack = <<t, Root>> PROVE FALSE
    BY <1>1, <2>1 DEF Top, Last
  <2> QED BY <1>1, <2>1 DEF TestsInv, Calls
<1>3. t # Root /\ stack' = <<t, Root>>
  <2>1. Last(<<t>>) = t  BY DEF Last
  <2>2. Append(<<t>>, Root) = <<t, Root>>  BY TestsAssumption, StackSteps
  <2> QED BY <1>1, <1>2, <2>1, <2>2 DEF Top
<1>4. Calls'
  <2>1. \A i \in DOMAIN stack' : stack'[i] \in complete'
    <3>1. t \in complete  BY <1>2 DEF TestsInv, Calls
    <3> QED BY <1>1, <1>3, <3>1
  <2> QED BY <1>1, <1>3, <2>1 DEF Calls
<1>5. RootCalled' /\ ~RootCalled  BY <1>1, <1>3 DEF RootCalled, Top, Last
<1>6. Launches'
  BY <1>1, <1>5 DEF TestsInv, Launches, run_qemu, runner
<1>7. RunnerInv' /\ Verdicts'
  BY <1>1, RunnerUnchanged DEF TestsInv, Verdicts
<1>8. Marks'  BY <1>1, TestsAssumption DEF TestsInv, Marks
<1> QED BY <1>4, <1>6, <1>7, <1>8 DEF TestsInv

\* What is on the stack, by its top.
LEMMA TopOfStack ==
  ASSUME Calls, stack # <<>>
  PROVE  /\ Top \in TestSet /\ Top \in complete /\ CURRENT_TEST \in {NoTest, Top}
         /\ \/ Front(stack) = <<>>
            \/ \E t \in TestSet \ {Root} : Front(stack) = <<t>> /\ t \in complete /\ Top = Root
<1>1. CASE \E t \in TestSet : stack = <<t>> /\ CURRENT_TEST \in {NoTest, t}
  <2>1. PICK t \in TestSet : stack = <<t>> /\ CURRENT_TEST \in {NoTest, t}  BY <1>1
  <2>2. Top = t /\ Front(stack) = <<>>  BY <2>1, StackSteps DEF Top
  <2>3. t \in complete
    <3>1. 1 \in DOMAIN stack /\ stack[1] = t  BY <2>1
    <3> QED BY <3>1 DEF Calls
  <2> QED BY <2>1, <2>2, <2>3
<1>2. CASE \E t \in TestSet \ {Root} : stack = <<t, Root>> /\ CURRENT_TEST \in {NoTest, Root}
  <2>1. PICK t \in TestSet \ {Root} : stack = <<t, Root>> /\ CURRENT_TEST \in {NoTest, Root}
    BY <1>2
  <2>2. Top = Root /\ Front(stack) = <<t>>  BY <2>1, StackSteps, TestsAssumption DEF Top
  <2>3. t \in complete /\ Root \in complete
    <3>1. 1 \in DOMAIN stack /\ stack[1] = t /\ 2 \in DOMAIN stack /\ stack[2] = Root  BY <2>1
    <3> QED BY <3>1 DEF Calls
  <2> QED BY <2>1, <2>2, <2>3, TestsAssumption
<1> QED BY <1>1, <1>2 DEF Calls

\* A test begins when the root has ended, or is the root, which begins once.
LEMMA BeginInv == TestsInv /\ Begin => TestsInv'
<1> SUFFICES ASSUME TestsInv, Begin PROVE TestsInv'  OBVIOUS
<1>1. /\ UNCHANGED <<selected, next, stack, complete, finisher, passed, ended>>
      /\ stack # <<>> /\ CURRENT_TEST = NoTest /\ CURRENT_TEST' = Top
      /\ (Top # Root => Root \in complete)
  BY DEF Begin, Waiting
<1>2. Top \in TestSet /\ Top \in complete /\ Root # NoTest /\ Top # NoTest
  BY <1>1, TopOfStack, TestsAssumption DEF TestsInv
<1>3. Calls'
  <2>1. \A t : stack = <<t>> => Top = t
    <3>1. \A t : Last(<<t>>) = t  BY DEF Last
    <3> QED BY <3>1 DEF Top
  <2>2. \A t : stack = <<t, Root>> => Top = Root
    <3>1. \A t : Last(<<t, Root>>) = Root  BY DEF Last
    <3> QED BY <3>1 DEF Top
  <2> QED BY <1>1, <2>1, <2>2 DEF TestsInv, Calls
<1>4. Marks'  BY <1>1 DEF TestsInv, Marks
<1>5. CASE Top = Root
  <2>1. RootCalled /\ launched = 0 /\ phase = "idle" /\ Root \notin ended
    BY <1>1, <1>5 DEF RootCalled, TestsInv, Launches
  <2>2. (StartQemu \/ StubFound) /\ launched' = 1 /\ phase' \in {"start", "failed"}
    BY <1>5, <2>1 DEF Begin, StartQemu, StubFound
  <2>3. RunnerInv'  BY <2>1, <2>2, StartInv, StubInv DEF TestsInv
  <2>4. ended = {}  BY <2>1 DEF TestsInv, Launches
  <2>5. Verdicts'  BY <1>1, <2>4 DEF Verdicts
  <2>6. ~RootCalled'  BY <1>1, <1>2 DEF RootCalled
  <2>7. Launches'
    BY <1>1, <1>2, <1>5, <2>1, <2>2, <2>4, <2>6 DEF Launches
  <2> QED BY <1>3, <1>4, <2>3, <2>5, <2>7 DEF TestsInv
<1>6. CASE Top # Root
  <2>1. UNCHANGED <<run_qemu, launched>>  BY <1>6 DEF Begin
  <2>2. RunnerInv' /\ Verdicts' /\ phase' = phase
    BY <1>1, <2>1, RunnerUnchanged DEF TestsInv, Verdicts
  <2>3. ~RootCalled /\ ~RootCalled'  BY <1>1, <1>2, <1>6 DEF RootCalled
  <2>4. Root \in complete /\ Root \in ended
    BY <1>1, <1>2, <1>6, <2>3 DEF TestsInv, Launches
  <2>5. Launches'
    BY <1>1, <1>2, <1>6, <2>1, <2>2, <2>3, <2>4 DEF TestsInv, Launches
  <2> QED BY <1>3, <1>4, <2>2, <2>5 DEF TestsInv
<1> QED BY <1>5, <1>6

\* A test that ends is judged by the output of a run that has returned.
LEMMA EndInv == TestsInv /\ End => TestsInv'
<1> SUFFICES ASSUME TestsInv, End PROVE TestsInv'  OBVIOUS
<1> DEFINE t == CURRENT_TEST
           line == Text(KernelLine(Wanted[t]))
<1>1. /\ UNCHANGED <<run_qemu, selected, next, complete, finisher, launched>>
      /\ t # NoTest /\ (t = Root => phase = "returned")
      /\ passed' = IF t = Root \/ Contains(output, line) THEN passed \cup {t} ELSE passed
      /\ ended' = ended \cup {t} /\ stack' = Front(stack) /\ CURRENT_TEST' = NoTest
  BY DEF End
<1>2. RunnerInv' /\ phase' = phase /\ output' = output
  BY <1>1, RunnerUnchanged DEF TestsInv
<1>3. stack # <<>> /\ t = Top /\ t \in complete
  <2>1. stack # <<>>  BY <1>1 DEF TestsInv, Calls
  <2> QED BY <1>1, <2>1, TopOfStack DEF TestsInv
<1>4. Calls' /\ (stack' # <<>> => Top' # Root)
  <2>1. CASE stack' = <<>>
    <3>1. DOMAIN <<>> = {}  OBVIOUS
    <3> QED BY <1>1, <2>1, <3>1 DEF Calls
  <2>2. CASE \E u \in TestSet \ {Root} : stack' = <<u>> /\ u \in complete
    <3>1. PICK u \in TestSet \ {Root} : stack' = <<u>> /\ u \in complete  BY <2>2
    <3>2. Last(<<u>>) = u /\ DOMAIN <<u>> = {1} /\ <<u>>[1] = u  BY DEF Last
    <3> QED BY <1>1, <3>1, <3>2 DEF Calls, Top
  <2> QED BY <1>1, <1>3, <2>1, <2>2, TopOfStack DEF TestsInv
<1>5. ~RootCalled' /\ ~RootCalled  BY <1>1, <1>4 DEF RootCalled
<1>6. Verdicts'
  <2> SUFFICES ASSUME NEW u \in ended' \ {Root}
               PROVE  u \in passed' <=> Contains(output, Text(KernelLine(Wanted[u])))
    BY <1>2 DEF Verdicts
  <2>1. CASE u \in ended
    <3>1. u \in passed <=> Contains(output, Text(KernelLine(Wanted[u])))
      BY <2>1 DEF TestsInv, Verdicts
    <3> QED BY <1>1, <3>1
  <2>2. CASE u \notin ended
    <3>1. u = t /\ u # Root /\ u \notin passed  BY <1>1, <2>2 DEF TestsInv, Marks
    <3> QED BY <1>1, <3>1
  <2> QED BY <2>1, <2>2
<1>7. Marks'  BY <1>1, <1>3 DEF TestsInv, Marks
<1>8. Launches'
  <2>1. Root # NoTest  BY TestsAssumption
  <2>2. CASE t = Root
    BY <1>1, <1>2, <1>3, <1>5, <2>1, <2>2 DEF TestsInv, Launches
  <2>3. CASE t # Root
    <3>1. Root \in ended  BY <1>1, <2>3 DEF TestsInv, Launches
    <3> QED BY <1>1, <1>2, <1>5, <2>1, <2>3, <3>1 DEF TestsInv, Launches
  <2> QED BY <2>2, <2>3
<1> QED BY <1>2, <1>4, <1>6, <1>7, <1>8 DEF TestsInv

\* While the run goes on its test is the current one; when it has returned the
\* verdicts stand.
LEMMA RunningInv == TestsInv /\ Running => TestsInv'
<1> SUFFICES ASSUME TestsInv, Running PROVE TestsInv'  OBVIOUS
<1>1. /\ RunnerNext
      /\ finisher' = IF phase = "connecting" /\ phase' = "monitor" THEN CURRENT_TEST ELSE finisher
      /\ UNCHANGED <<selected, next, stack, complete, CURRENT_TEST, launched, passed, ended>>
  BY DEF Running
<1>2. RunnerInv'  BY <1>1, RunnerNextInv DEF TestsInv
<1>3. /\ phase = "idle" <=> phase' = "idle"
      /\ phase = "returned" => phase' = "returned" /\ output' = output
  BY <1>1, RunnerIdle DEF TestsInv
<1>4. Calls' /\ (RootCalled' <=> RootCalled)  BY <1>1 DEF TestsInv, Calls, RootCalled, Top
<1>5. Launches'  BY <1>1, <1>3, <1>4 DEF TestsInv, Launches
<1>6. Verdicts'
  <2>1. ended \ {Root} # {} => phase = "returned"  BY DEF TestsInv, Launches
  <2> QED BY <1>1, <1>3, <2>1 DEF TestsInv, Verdicts
<1>7. Marks'
  <2>1. phase = "connecting" => CURRENT_TEST = Root  BY DEF TestsInv, Launches
  <2> QED BY <1>1, <2>1 DEF TestsInv, Marks
<1> QED BY <1>2, <1>4, <1>5, <1>6, <1>7 DEF TestsInv

\* The invariant is one.
THEOREM Invariance == Spec => []TestsInv
<1>1. TestsInv /\ [Next]_vars => TestsInv'
  <2> SUFFICES ASSUME TestsInv, [Next]_vars PROVE TestsInv'  OBVIOUS
  <2>1. CASE UNCHANGED vars
    <3>1. UNCHANGED run_qemu /\ UNCHANGED bookkeeping  BY <2>1 DEF vars
    <3>2. RunnerInv' /\ UNCHANGED <<phase, output>>
      BY <3>1, RunnerUnchanged DEF TestsInv
    <3> QED BY <3>1, <3>2
            DEF bookkeeping, TestsInv, Calls, Launches, RootCalled, Top, Verdicts, Marks
  <2> QED BY <2>1, NextTestInv, CallParentInv, BeginInv, EndInv, RunningInv DEF Next, Script
<1> QED BY <1>1, InitTests, PTL DEF Spec

-----------------------------------------------------------------------------
(* What the invariant says of the run and the tests *)

\* The run, its links and the marks of the tests stay within their types.
THEOREM TypeCorrect == Spec => []TypeOK
<1>1. TestsInv => TypeOK
  <2> SUFFICES ASSUME TestsInv PROVE TypeOK  OBVIOUS
  <2>1. CURRENT_TEST \in TestSet \cup {NoTest}
    BY TestsAssumption DEF TestsInv, Calls
  <2>2. launched \in Nat  BY DEF TestsInv, Launches
  <2> QED BY <2>1, <2>2 DEF TestsInv, RunnerInv, Marks, TypeOK
<1> QED BY <1>1, Invariance, PTL

\* run_qemu leaves no process and no connection behind (gradelib.py:421).
THEOREM NothingIsLeft == Spec => []NothingLeft
<1>1. TestsInv => NothingLeft  BY DEF TestsInv, RunnerInv, Process
<1> QED BY <1>1, Invariance, PTL

\* The elements of the saved file are the last of the output.
LEMMA SavedSuffix ==
  ASSUME Account, Saved
  PROVE  IsSuffix(saved, output)
<1> DEFINE n == Len(saved)
           m == Len(output)
           r == Reverse(saved)
           q == Reverse(output)
<1>1. /\ n \in Nat /\ m \in Nat /\ n <= m
      /\ \A i \in 1 .. m : output[i] \in Items
      /\ \A i \in 1 .. n : saved[i] \in Items
  BY LenProperties, ElementOfSeq DEF Account, Saved
<1>2. r \in Seq(Items) /\ Len(r) = n /\ \A i \in 1 .. n : r[i] = saved[(n - i) + 1]
  BY <1>1 DEF Reverse
<1>3. q \in Seq(Items) /\ Len(q) = m /\ \A i \in 1 .. m : q[i] = output[(m - i) + 1]
  BY <1>1 DEF Reverse
<1> HIDE DEF r, q
<1>4. SubSeq(r, 1, n) = r  BY <1>2, SubSeqFull
<1>5. /\ SubSeq(q, 1, n) \in Seq(Items) /\ Len(SubSeq(q, 1, n)) = n
      /\ \A i \in 1 .. n : SubSeq(q, 1, n)[i] = q[i]
  <2>1. \A i \in 1 .. n : q[i] \in Items  BY <1>1, <1>3, ElementOfSeq
  <2> QED BY <1>1, <2>1, SubSeqProperties
<1>6. \A i \in 1 .. n : r[i] = q[i]
  <2> SUFFICES ASSUME NEW i \in 1 .. n PROVE r[i] = q[i]  OBVIOUS
  <2>1. saved[(n - i) + 1] = output[(m - n) + ((n - i) + 1)]  BY <1>1 DEF Saved
  <2>2. (m - n) + ((n - i) + 1) = (m - i) + 1 /\ i \in 1 .. m  BY <1>1
  <2> QED BY <1>2, <1>3, <2>1, <2>2
<1>7. r = SubSeq(q, 1, n)  BY <1>2, <1>5, <1>6, SeqEqual
<1> QED BY <1>1, <1>2, <1>3, <1>4, <1>7 DEF IsSuffix, IsPrefix, r, q

\* An undisturbed run returns with everything QEMU printed, and the file has
\* every line of the kernel that was read (gradelib.py:345, :495).
THEOREM OutputIsComplete == Spec => []OutputComplete
<1>1. TestsInv => OutputComplete
  <2> SUFFICES ASSUME TestsInv PROVE OutputComplete  OBVIOUS
  <2> USE DEF TestsInv, RunnerInv
  <2>1. ASSUME phase = "returned", ~timedout, stopline = 0 PROVE output = printed
    <3>1. pipe = <<>>  BY <2>1 DEF Drained, Undisturbed
    <3> QED BY <3>1, ConcatEmptySeq DEF Account
  <2>2. IsSuffix(saved, output)  BY SavedSuffix
  <2>3. ASSUME NEW i \in DOMAIN output, output[i].line > Preamble
        PROVE  Contains(saved, output[i])
    <3>1. /\ Len(output) \in Nat /\ Len(saved) \in Nat /\ Preamble \in Nat
          /\ i \in 1 .. Len(output)
      BY LenProperties, RunnerAssumption DEF Account
    <3>2. printed[i] = output[i] /\ i \in 1 .. Len(printed)
      BY <3>1, ConcatProperties, LenProperties DEF Account
    <3>3. output[i] = Item(i)  BY <3>2 DEF Account
    <3>4. i > 2 * Preamble  BY <2>3, <3>1, <3>3, ItemType
    <3> DEFINE j == i - (Len(output) - Len(saved))
    <3>5. j \in 1 .. Len(saved)  BY <3>1, <3>4 DEF Saved
    <3>6. saved[j] = output[i]  BY <3>1, <3>5 DEF Saved
    <3> QED BY <3>5, <3>6 DEF Contains
  <2> QED BY <2>1, <2>2, <2>3 DEF OutputComplete
<1> QED BY <1>1, Invariance, PTL

\* QEMU is started at most once, and tests that depend on it are judged when
\* it has returned (gradelib.py:37).
THEOREM RunsOnceFirst == Spec => []RunOnceFirst
<1>1. TestsInv => RunOnceFirst  BY DEF TestsInv, Launches, RunOnceFirst
<1> QED BY <1>1, Invariance, PTL

\* A test passes only for a line the kernel printed, and for each such line
\* if nothing cut the run short.
THEOREM VerdictsAreTrue == Spec => []VerdictsTrue
<1>1. TestsInv => VerdictsTrue
  <2> SUFFICES ASSUME TestsInv, NEW t \in Judged
               PROVE  LET line == Text(KernelLine(Wanted[t]))
                      IN  /\ t \in passed => Contains(printed, line)
                          /\ (~timedout /\ stopline = 0 /\ Contains(printed, line)) => t \in passed
    BY DEF VerdictsTrue
  <2> DEFINE line == Text(KernelLine(Wanted[t]))
  <2>1. phase = "returned" /\ (t \in passed <=> Contains(output, line))
    BY DEF TestsInv, Launches, Verdicts, Judged
  <2>2. Contains(output, line) => Contains(printed, line)
    <3> SUFFICES ASSUME NEW i \in 1 .. Len(output), output[i] = line
                 PROVE  Contains(printed, line)
      BY DEF Contains
    <3>1. i \in 1 .. Len(printed) /\ printed[i] = output[i]
      BY ConcatProperties, LenProperties DEF TestsInv, RunnerInv, Account
    <3> QED BY <3>1 DEF Contains
  <2>3. ~timedout /\ stopline = 0 => output = printed
    <3>1. ~timedout /\ stopline = 0 => pipe = <<>>
      BY <2>1 DEF TestsInv, RunnerInv, Drained, Undisturbed
    <3> QED BY <3>1, ConcatEmptySeq DEF TestsInv, RunnerInv, Account
  <2> QED BY <2>1, <2>2, <2>3
<1> QED BY <1>1, Invariance, PTL
=============================================================================
