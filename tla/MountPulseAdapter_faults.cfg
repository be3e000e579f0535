SPECIFICATION FairSpec
CONSTANTS
  Mover = {m1, m2}
  Worker = {w1, w2}
  NoWorker = NoWorker
  MaxGen = 1
  MaxClient = 1
  Faults <- AllFaults
INVARIANTS TypeOK SingleWorker OneMoveInFlight
PROPERTIES StopServed LockReleased
