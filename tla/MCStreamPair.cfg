SPECIFICATION Spec
CONSTANTS
  MaxConnections = 2
  MaxSends = 2
  MaxReplies = 0
  MaxStarts = 2
  MaxStops = 2
  PoolSize = 2
  MaxServerStarts = 1
INVARIANTS TypeOK InOrder CallbacksInOrder
CHECK_DEADLOCK FALSE
