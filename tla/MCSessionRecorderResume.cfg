SPECIFICATION Spec
CONSTANTS
  MaxRec = 0
  MaxChunks = 1
  MaxSessions = 1
  MaxInits = 1
  MaxLogs = 3
PROPERTIES ResumeRestartsReplay
CHECK_DEADLOCK FALSE
