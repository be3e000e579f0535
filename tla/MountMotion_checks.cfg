SPECIFICATION FairSpec
CONSTANTS
  AxisOwner = {align, reacquisition}
  ParkOwner = {park}
  MaxClaims = 3
  MaxSteps = 2
INVARIANTS TypeOK OneMotion LatchIsOwnStop StopNotLost
PROPERTIES StoppedMovesNoMore StoppedMotionEnds ImplementsPromise
