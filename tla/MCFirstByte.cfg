CONSTANTS
  Threads = {t1, t2}
  NoThread = NoThread
  Dead = Dead
  Full = Full
  Null = Null
  DStates <- OrStates
  Matching <- OrMatching
  NumBytes = 2
  Delta <- OrDelta
  StartOf <- OrStart
  Texts <- OrTexts
  LastByte <- OrLastByte
  Capacity = 4
  BytesPerState = 1
  BailWhenSlow = FALSE
  MaxSearches = 3
\* every search is over
CHECK_DEADLOCK FALSE
SPECIFICATION DfaSpec
INVARIANTS
  ResultsAreRight
