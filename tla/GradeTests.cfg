CONSTANTS
  Preamble = 1
  Lines = 3
  PipeSize = 5
  ReadSize = 2
  Root = "jos"
  Tests <- MCTests
  Wanted <- MCWanted
SPECIFICATION Spec
INVARIANTS TypeOK OutputComplete NothingLeft RunOnceFirst VerdictsTrue
PROPERTY GradingEnds
CHECK_DEADLOCK FALSE
