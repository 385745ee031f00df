SPECIFICATION MCSpec
CONSTANTS
  CONSBUFSIZE = 3
  SerialBytes = {0, 65, 255}
  KbcBytes = {0, 97}
  Mouse = Mouse
  MaxArrivals = 5
INVARIANTS TypeOK LossInWholeBuffers
PROPERTIES RingIsLossyFifo InputDrained
