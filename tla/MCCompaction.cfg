CONSTANTS
  MaxKey = 2
  MaxSeq = 4
  NumLevels = 3
  MaxMemCompactLevel = 2
  MaxSnapshots = 1
  MaxOutputs = 1
  Manual = TRUE
SPECIFICATION LsmSpec
CHECK_DEADLOCK FALSE
INVARIANTS
  GetsAreCorrect
  IteratorsAreCorrect
  LevelsAreDisjoint
  LevelsAreOrdered
