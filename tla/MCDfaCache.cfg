CONSTANTS
  Threads = {t1, t2}
  NoThread = NoThread
  Dead = Dead
  Full = Full
  Null = Null
  DStates <- PlusStates
  Matching <- PlusMatching
  NumBytes = 2
  Delta <- PlusDelta
  StartOf <- PlusStart
  Texts <- PlusTexts
  LastByte <- PlusLastByte
  Capacity = 3
  BytesPerState = 1
  BailWhenSlow = TRUE
  MaxSearches = 3
\* every search is over
CHECK_DEADLOCK FALSE
SPECIFICATION DfaFairSpec
INVARIANTS
  DfTypeOK
  NoDanglingState
  ResultsAreRight
  RestoresSucceed
PROPERTIES
  SearchesReturn
