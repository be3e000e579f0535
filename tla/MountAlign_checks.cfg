SPECIFICATION Spec
CONSTANTS
  Cameras = {"left", "right"}
  Narrow = "right"
  Floor = 2
  MinSize = 2
  MaxSize = 8
  FirstSize = 4
  Nudges <- MCNudges
  ScreenMoves <- MCScreenMoves
  AbortCap = 4
  GuideMax = 4
  MaxAttempts = 2
  Fractions <- MCFractions
  Views = {{}, {"left", "right"}}
  StartMode = "astronomical"
  MaxEvents = 2
  QuickClicks = FALSE
INVARIANTS TypeOK EvidenceOfOwnPulse HomeWhenSaid ExposureHeld
PROPERTIES NothingAfterStop RunEnds
CHECK_DEADLOCK FALSE
