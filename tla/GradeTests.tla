------------------------------- MODULE GradeTests -------------------------------
(***************************************************************************)
(* The tests of grade-lab1: one that runs QEMU (GradeRunner), and those    *)
(* that depend on it and look for a line in its output.  run_tests runs    *)
(* them in order, or those the command line selects; a test runs the test  *)
(* it depends on first.                                                    *)
(***************************************************************************)
EXTENDS GradeRunner

CONSTANTS
  Root,     \* the test that runs QEMU
  Tests,    \* the sequence of the tests
  Wanted    \* [test |-> the kernel line it looks for]

NoTest == "no test"
TestSet == {Tests[i] : i \in DOMAIN Tests}

ASSUME TestsAssumption ==
  Tests \in Seq(TestSet) /\ Root \in TestSet /\ NoTest \notin TestSet

VARIABLES
  selected,   \* the tests that match the command line
  next,       \* the index of run_tests' loop
  stack,      \* the calls of run_test, the innermost last
  complete,   \* the tests whose complete flag is set
  CURRENT_TEST,
  finisher,   \* the test that saves the output when it finishes
  launched,   \* how often run_qemu set out to start QEMU
  passed, ended

bookkeeping == <<selected, next, stack, complete, CURRENT_TEST, finisher, launched, passed, ended>>
vars == <<run_qemu, bookkeeping>>

Init ==
  /\ RunnerInit
  /\ selected \in SUBSET TestSet
  /\ next = 1 /\ stack = <<>> /\ complete = {}
  /\ CURRENT_TEST = NoTest /\ finisher = NoTest /\ launched = 0
  /\ passed = {} /\ ended = {}

Top == Last(stack)

\* run_tests comes to the next test.
NextTest ==
  /\ stack = <<>> /\ next <= Len(Tests)
  /\ next' = next + 1
  /\ IF Tests[next] \in selected \ complete
     THEN stack' = <<Tests[next]>> /\ complete' = complete \cup {Tests[next]}
     ELSE UNCHANGED <<stack, complete>>
  /\ UNCHANGED <<run_qemu, selected, CURRENT_TEST, finisher, launched, passed, ended>>

Waiting == stack # <<>> /\ CURRENT_TEST = NoTest

\* Mutant of CallParent: the parent's flag is not set when it is called.
CallParentUnmarked ==
  /\ Waiting /\ Top # Root /\ Root \notin complete
  /\ stack' = Append(stack, Root)
  /\ UNCHANGED <<run_qemu, selected, next, complete, CURRENT_TEST, finisher, launched, passed, ended>>

\* A test whose parent has not run calls it.
CallParent ==
  /\ Waiting /\ Top # Root /\ Root \notin complete
  /\ stack' = Append(stack, Root) /\ complete' = complete \cup {Root}
  /\ UNCHANGED <<run_qemu, selected, next, CURRENT_TEST, finisher, launched, passed, ended>>

\* Mutant of Begin: the body does not wait for the parent.
BeginEarly ==
  /\ Waiting
  /\ CURRENT_TEST' = Top
  /\ IF Top = Root THEN (StartQemu \/ StubFound) /\ launched' = launched + 1
     ELSE UNCHANGED <<run_qemu, launched>>
  /\ UNCHANGED <<selected, next, stack, complete, finisher, passed, ended>>

\* The test's own function is called: for the root that is run_qemu.
Begin ==
  /\ Waiting /\ (Top # Root => Root \in complete)
  /\ CURRENT_TEST' = Top
  /\ IF Top = Root THEN (StartQemu \/ StubFound) /\ launched' = launched + 1
     ELSE UNCHANGED <<run_qemu, launched>>
  /\ UNCHANGED <<selected, next, stack, complete, finisher, passed, ended>>

\* Its result: the root's is that run_qemu returned, the others' that a line of
\* the output matches.
End ==
  /\ CURRENT_TEST # NoTest
  /\ (CURRENT_TEST = Root => phase = "returned")
  /\ passed' = IF CURRENT_TEST = Root \/ Contains(output, Text(KernelLine(Wanted[CURRENT_TEST])))
               THEN passed \cup {CURRENT_TEST} ELSE passed
  /\ ended' = ended \cup {CURRENT_TEST}
  /\ stack' = Front(stack) /\ CURRENT_TEST' = NoTest
  /\ UNCHANGED <<run_qemu, selected, next, complete, finisher, launched>>

\* The monitors are set up when the connection is made; the one that saves the
\* output registers itself with the test that is running.
Running ==
  /\ RunnerNext
  /\ finisher' = IF phase = "connecting" /\ phase' = "monitor" THEN CURRENT_TEST ELSE finisher
  /\ UNCHANGED <<selected, next, stack, complete, CURRENT_TEST, launched, passed, ended>>

Script == NextTest \/ CallParent \/ Begin \/ End

Next == Script \/ Running

Spec == Init /\ [][Next]_vars /\ WF_vars(Script) /\ RunnerFairness

-----------------------------------------------------------------------------
(* Properties *)

\* The states of the run, and of the bookkeeping of run_tests: a test has ended
\* only if it was marked complete, and only the run's own test saves its output.
TypeOK ==
  /\ RunnerTypeOK
  /\ next \in 1 .. Len(Tests) + 1
  /\ complete \subseteq TestSet /\ ended \subseteq complete /\ passed \subseteq ended
  /\ CURRENT_TEST \in TestSet \cup {NoTest} /\ finisher \in {NoTest, Root}
  /\ launched \in Nat

\* QEMU is started at most once, however the tests are selected, and no test
\* that depends on its output is judged before the run has returned
\* (gradelib.py:37-41).
RunOnceFirst ==
  /\ launched <= 1
  /\ (ended \ {Root} # {}) => Root \in ended /\ phase = "returned"

Judged == {t \in ended : t # Root}

\* A test passes only if the kernel printed its line, and if nothing timed out
\* it passes whenever the kernel did.
VerdictsTrue ==
  \A t \in Judged :
    LET line == Text(KernelLine(Wanted[t]))
    IN  /\ t \in passed => Contains(printed, line)
        /\ (~timedout /\ stopline = 0 /\ Contains(printed, line)) => t \in passed

\* Grading ends, with all selected tests judged or because QEMU was not
\* started, whatever the kernel does (gradelib.py:447-454).
GradingEnds == <>[](phase = "failed" \/ (next > Len(Tests) /\ selected \subseteq ended))
=============================================================================
