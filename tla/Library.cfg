CONSTANTS
  MemBytes = 13
  MaxSize = 9
  MAXERROR = 7
  UINT = 256
  ULONGLONG = 65536
  BufBytes = 14
  Formats <- MCFormats
  Arguments <- MCArguments
  MAXARGS = 3
  Lines <- MCLines
  commands <- MCCommands
  StringMemory = 8
  StringCalls <- MCStringCalls
SPECIFICATION Spec
INVARIANTS MoveExact BufferBounded NumberField StringField UnknownLiteral ArgvIsWords StringsAgree
PROPERTY Returns
CHECK_DEADLOCK FALSE
