CONSTANTS
  Callers = {c1, c2}
  NoCaller = NoCaller
  Destructor = Destructor
  L0Trigger = 1
  L0Stop = 1
  MaxUpper = 1
  MaxChunks = 1
  MaxFaults = 1
  Paranoid = TRUE
SPECIFICATION BgFairSpec
CHECK_DEADLOCK FALSE
INVARIANTS
  BgTypeOK
  WorkIsScheduled
  WaiterHasWaker
  DeletedIsQuiet
PROPERTIES
  SlotGivenBackOnProgress
  Level0Limit
  FlushHappens
  DeleteTerminates
  ManualFinishes
  Level0Drains
