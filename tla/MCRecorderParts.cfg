SPECIFICATION PartsSpec
CONSTANTS
  MaxRec = 0
  MaxChunks = 2
  MaxSessions = 2
  MaxInits = 2
  MaxLogs = 3
  Nodes = {n1, n2}
  BucketSize = 5
  RefillRate = 2
  MaxChanges = 6
INVARIANTS TypeOK OffsetsDense  NoStrandedLogs NeverFiledBackwards RequestSaysTheBatch
PROPERTIES  ImplementsDelivery QueueDrains ImplementsLeakyBucket BlockedNodesRecover
CHECK_DEADLOCK FALSE
