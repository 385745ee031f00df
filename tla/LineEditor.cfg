SPECIFICATION MCSpec
CONSTANTS
  BUFLEN = 6
  Width = 2
  Size = 8
  BootCells = {1824}
  Codes = {9, 10, 75}
  Keystrokes = {1, 8, 13, 65, 127}
  MaxTop = 4
INVARIANTS TypeOK EchoIsLine
PROPERTY PromptSafe
