CONSTANTS
  k1 = k1
  k2 = k2
  Keys <- OneKey
  Batches <- OneBatch
  Clients = {t1, t2}
  Readers = {}
  SyncModes = {FALSE}
  MaxCalls = 3
  WriteBufferSize = 0
  L0Slowdown = 1
  SmallBatch = 2
  MaxGroup = 3
  Callers = {}
  NoCaller = NoCaller
  Destructor = Destructor
  L0Trigger = 1
  L0Stop = 1
  MaxUpper = 0
  MaxChunks = 0
  MaxFaults = 1
  Paranoid = TRUE
SPECIFICATION WqFairSpec
CHECK_DEADLOCK FALSE
PROPERTIES
  WritesReturn
