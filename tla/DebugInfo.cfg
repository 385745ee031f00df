CONSTANTS
  Types = {"UNDF", "SO", "SOL", "FUN", "PSYM", "LINE"}
  NumStabs = 9
  AddrSpace = 11
  ULIM = 3
  Tables <- MCTables
SPECIFICATION MCSpec
INVARIANTS FunctionReported FileReported AssemblyReported RefusedOnlyOutside
CHECK_DEADLOCK FALSE
