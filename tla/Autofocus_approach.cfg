SPECIFICATION FSpec
CONSTANTS
  Coarse = 2
  Fine = 1
  Envelope = 4
  Limit = 6
  Start = 3
  MaxSteps = 3
  MaxNoImprove = 2
  MaxAttempts = 2
  Brightest = 2
  Modes = {"star"}
  MaxJogs = 0
  MaxRuns = 1
INVARIANT ApproachedFromOneSide
CHECK_DEADLOCK FALSE
