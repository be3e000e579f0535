SPECIFICATION StopFairSpec
CONSTANTS
  Mover = {m1, m2}
  Worker = {w1}
  NoWorker = NoWorker
  MaxGen = 2
  MaxClient = 2
  Faults <- Rearm
INVARIANTS StopOwed MovingIsInFlight
PROPERTIES StopEndsMotion
