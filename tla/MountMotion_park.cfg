SPECIFICATION Spec
CONSTANTS
  AxisOwner = {}
  ParkOwner = {park}
  MaxClaims = 1
  MaxSteps = 0
PROPERTIES StoppedParkSendsNothing
