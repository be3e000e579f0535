SPECIFICATION Spec
CONSTANTS
  Mover = {m1}
  Worker = {w1}
  NoWorker = NoWorker
  MaxGen = 2
  MaxClient = 1
  Faults <- NoFaults
PROPERTIES LaterMoveUntouched
