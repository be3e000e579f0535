SPECIFICATION Spec
CONSTANTS
  Devices = {"a"}
  MaxCams = 3
  MaxStreams = 2
  Exposures = {1, 2}
  Floor = 2
  Margin = 1
  Cap = 4
  Slice = 1
  SettleTime = 1
  Timeout = 3
  FrameSamples = 2
  RingLength = 2
  MaxBegin = 0
  MaxTime = 6
  CoarseStep = 2
  FineStep = 1
  Envelope = 4
  Limit = 5
  FirstPosition = 3
  MaxSteps = 3
  MaxNoImprove = 2
  MaxAttempts = 2
  Brightest = 2
  Modes = {"star", "terrestrial", "artificial"}
  MaxJogs = 1
  MaxRuns = 1
  StarSamples = 3
  Tries = 3
  Misses = 1
  Reacquisitions = 2
  Legs = 2
  ProbePulses = 2
  Iterations = 3
  Diverging = 2
  FineTolerance = 0
  RoughTolerance = 1
  Far = 2
  MaxActions = 2
  StarPlaces = 2
  Tolerance = 0
  Search = 1
  LostFrames = 1
  Deadband = 0
  Fallback = 2
  Pulses = 2
  Chunks = 2
  MaxMoves = 2
  MaxStops = 2
  Workers = {"w1", "w2"}
  LateReads = FALSE
  MaxOpens = 2
  MaxOperations = 3
  Slots = {1, 2}
  SharedNames = {1, 2}
  LocalNames = {1, 3}
  BuiltIn = {1, 2, 3}
  Prompt = TRUE
  Reconnects = FALSE
  MaxChanges = 3
  MaxQueued = 3
  MaxMotions = 1
  Ceiling = 32
  DefaultGain = 4
  MaxGain = 12
  GainStep = 1
  MaxGainStep = 3
  Low = 50
  High = 70
  Scenes = {1, 5, 40}
  Delayed = FALSE
  Matrices <- MCMatrices
  Shapes <- MCShapes
  Fractions = {5, 15, 30}
  LeastMove = 3
  MoveCap = 8
  GuideMin = 2
  Slack = 21
  Apps = {"c", "g"}
  MaxBundles = 1
  MaxAge = 1
  ClockSteps = FALSE
  MaxClock = 3
  MaxCaptures = 2
  SavedCameras = {"a", "b"}
  Gains = {4, 5}
  TornWrites = FALSE
  MaxSessions = 2
  Tokens <- MCTokens
  MaxTokens = 4
  Screws = {"T1", "T2"}
  Truths <- MCTruths
  Errors <- MCErrors
  Collimated = 2
  Faint = 1
  Saturation = 1
  MaxTurns = 2
  MaxFrames = 2
INVARIANTS TypesOK DevicesReleased FreshInTime OneMover LeftAsReported SettledAsSaid StreamCut OffersAgree
PROPERTY EverythingEnds
CHECK_DEADLOCK FALSE
