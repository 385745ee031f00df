SPECIFICATION MCSpec
CONSTANTS
  CRT_ROWS = 2
  CRT_COLS = 3
  BootCells = {1857}
  Codes <- MCCodes
  MaxLost = 6
INVARIANTS TypeOK EraseUndoesMark
PROPERTIES ScreenIsWindow
