SPECIFICATION MCSpec
CONSTANTS
  NumStabs = 4
  Types = {"F", "O"}
  AddrSpace = 6
INVARIANTS TypeOK SearchCorrect
PROPERTY Terminates
CHECK_DEADLOCK FALSE
