SPECIFICATION PartsSpec
CONSTANTS
  Thrown <- MCThrown
  NoHash = "none"
  MaxPerSecond = 1
  FirstRetry = 1
  LongestRetry = 2
  CacheSize = 1
  MaxVisited = 1
  MaxThrows = 3
  Traces = {"r1", "r2"}
  Keys = {"k"}
  NoValue = NoValue
  OwnValue = OwnValue
  MaxSets = 2
  MaxStores = 2
  MaxSpans = 1
  MaxJobs = 1
  MaxFrames = 2
  Modules = {"http", "fs"}
  Fact <- MCFact
  Telemetry = {"traces", "metrics"}
  MaxInits = 2
  MaxWaits = 2
  Pieces = {"pass", "word"}
  Keywords <- MCKeywords
  MaxPieces = 3
  SpanIds = {"s"}
  NoSpan = "none"
  BufferSize = 2
  QueueSize = 1
  MaxLogged = 4
  EventStacks <- MCEventStacks
  NoFile = "none"
  Capacity = 3
  MaxEvents = 2
  MaxTroubled = 1
INVARIANTS TypesOK  LinesOfEveryFrame  ExitAfterFlush NothingDeniedRecorded 
CHECK_DEADLOCK FALSE
