CONSTANTS
  MaxKey = 1
  MaxSeq = 3
  NumLevels = 3
  MaxMemCompactLevel = 2
  MaxSnapshots = 0
  MaxOutputs = 2
  Manual = TRUE
SPECIFICATION LsmSpec
CHECK_DEADLOCK FALSE
INVARIANTS
  GetsAreCorrect
