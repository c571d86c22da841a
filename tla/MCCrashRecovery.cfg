CONSTANTS
  MaxWrites = 2
  MaxCrashes = 2
  MaxFile = 9
  MaxFaults = 1
  Faults = {"table", "open", "log sync", "manifest"}
  MachineCrashes = TRUE
  Compactions = TRUE
  Readers = TRUE
SPECIFICATION CrSpec
CHECK_DEADLOCK FALSE
INVARIANTS
  SyncedWritesSurvive
  OpenIsComplete
  SequencesIncrease
  AckedWritesAreOnDisk
  TablesInUseAreWhole
  DatabaseOpens
