CONSTANTS
  Threads = {t1, t2}
  NoThread = NoThread
  c1 = c1
  c2 = c2
  Classes = {c1, c2}
  Spans = {s1, s2, s3}
  NoSpan = NoSpan
  ObjectsPerSpan = 2
  Batch <- McBatch
  InitialCache <- McInitial
  MaxCache <- McMax
  MaxCalls = 6
\* every call is over
CHECK_DEADLOCK FALSE
SPECIFICATION CfFairSpec
INVARIANTS
  SlotsFit
  ObjectsAreConserved
  CountersAreExact
  SlotsAreNotMade
  OneLockAtATime
PROPERTIES
  CallsReturn
