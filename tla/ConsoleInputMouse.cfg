SPECIFICATION MCSpec
CONSTANTS
  CONSBUFSIZE = 4
  SerialBytes = {65}
  KbcBytes = {97, Mouse}
  Mouse = Mouse
  MaxArrivals = 2
PROPERTY KeysReadBehindMouse
