\* A timeout in the middle of a transfer, and a retry.
CONSTANTS
  RemoteSize = 2
  RetryCount = 1
  TotalTimeout = TRUE
  IntHalf = 64
SPECIFICATION Spec
INVARIANTS FileIsDownloaded
