SPECIFICATION FairSpec
CONSTANTS
  Mover = {m1, m2}
  Worker = {w1, w2}
  MaxGen = 3
  MaxClient = 1
  MaxStopPasses = 3
  SlowPasses = 1
  LateStops = TRUE
  NoWorker = NoWorker
INVARIANTS
  TypeOK
  SingleWorker
  StopNotLost
PROPERTIES
  StopSentBeforeRelease
  StopServed
CHECK_DEADLOCK FALSE
