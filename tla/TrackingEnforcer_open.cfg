SPECIFICATION Spec
CONSTANTS
  Gui = Gui
  Worker = {w1}
  Nobody = Nobody
  Motion = Motion
  Budget = 5
  Raises <- NothingRaises
  SlowSettle = FALSE
INVARIANTS OpenGateMeansOff
CHECK_DEADLOCK FALSE
