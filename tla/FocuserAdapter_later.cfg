SPECIFICATION FairSpec
CONSTANTS
  Mover = {m1}
  Worker = {w1}
  MaxGen = 1
  MaxClient = 1
  MaxStopPasses = 3
  SlowPasses = 1
  LateStops = FALSE
  NoWorker = NoWorker
PROPERTIES
  LaterMoveRuns
CHECK_DEADLOCK FALSE
