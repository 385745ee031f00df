SPECIFICATION MCSpec
CONSTANTS
  CONSBUFSIZE = 4
  SerialBytes = {65}
  KbcBytes = {97}
  Mouse = Mouse
  MaxArrivals = 5
INVARIANT ZeroMeansNoneWaiting
