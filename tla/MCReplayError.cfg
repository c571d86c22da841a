CONSTANTS
  MaxWrites = 3
  MaxCrashes = 2
  MaxFile = 9
  MaxFaults = 1
  Faults = {"replay"}
  MachineCrashes = FALSE
  Compactions = FALSE
  Readers = FALSE
SPECIFICATION CrSpec
CHECK_DEADLOCK FALSE
INVARIANTS
  OpenIsComplete
