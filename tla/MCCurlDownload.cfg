\* Both timeouts and one retry.
CONSTANTS
  RemoteSize = 2
  RetryCount = 1
  TotalTimeout = TRUE
  IntHalf = 64
SPECIFICATION FairSpec
INVARIANTS TypeOK ExactlyTheRange
PROPERTIES CallReturns
