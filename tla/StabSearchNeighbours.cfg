SPECIFICATION MCSpec
CONSTANTS
  NumStabs = 3
  Types = {"F", "O"}
  AddrSpace = 6
INVARIANT FindsContainingStab
CHECK_DEADLOCK FALSE
