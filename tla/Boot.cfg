CONSTANTS
  PGSIZE = 4
  NPTENTRIES = 8
  NPDENTRIES = 4
  KERNBASE = 96
  MaxPolls = 2
  SECTSIZE = 2
  HDRSECTORS = 2
  A20 = 16
  ELFHDR = 8
  MemSize = 32
  Greeting = 2
  Images <- MCImages
SPECIFICATION Spec
INVARIANTS TypeOK LoaderUndisturbed KernelLoaded FetchesKernel LossNeedsTimeout
PROPERTY BootCompletes
CHECK_DEADLOCK FALSE
