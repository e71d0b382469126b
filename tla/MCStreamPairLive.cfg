SPECIFICATION FairSpec
CONSTANTS
  MaxConnections = 2
  MaxSends = 0
  MaxReplies = 1
  MaxStarts = 1
  MaxStops = 1
  PoolSize = 1
  MaxServerStarts = 2
PROPERTIES Retries StopsReturn
CHECK_DEADLOCK FALSE
