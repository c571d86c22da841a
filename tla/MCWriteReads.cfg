CONSTANTS
  k1 = k1
  k2 = k2
  Keys <- TwoKeys
  Batches <- PairBatch
  Clients = {t1, t2}
  Readers = {r1}
  SyncModes = {FALSE}
  MaxCalls = 3
  WriteBufferSize = 0
  L0Slowdown = 2
  SmallBatch = 2
  MaxGroup = 3
  Callers = {}
  NoCaller = NoCaller
  Destructor = Destructor
  L0Trigger = 1
  L0Stop = 1
  MaxUpper = 0
  MaxChunks = 0
  MaxFaults = 0
  Paranoid = TRUE
SPECIFICATION WqSpec
SYMMETRY WqSymmetry
CHECK_DEADLOCK FALSE
PROPERTIES
  ImplementsStore
