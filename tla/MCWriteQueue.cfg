CONSTANTS
  k1 = k1
  k2 = k2
  Keys <- TwoKeys
  Batches <- SmallBatches
  Clients = {t1, t2, t3}
  Readers = {}
  SyncModes = {TRUE, FALSE}
  MaxCalls = 3
  WriteBufferSize = 1
  L0Slowdown = 1
  SmallBatch = 1
  MaxGroup = 2
  Callers = {}
  NoCaller = NoCaller
  Destructor = Destructor
  L0Trigger = 1
  L0Stop = 1
  MaxUpper = 0
  MaxChunks = 0
  MaxFaults = 1
  Paranoid = FALSE
SPECIFICATION WqSpec
SYMMETRY WqSymmetry
CHECK_DEADLOCK FALSE
INVARIANTS
  OneLogger
  SyncWritesAreDurable
  LogCoversMemTable
  LogSequencesIncrease
