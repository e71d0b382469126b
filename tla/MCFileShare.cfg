\* Two calls in a row, in which one thing fails and another client makes one change.
CONSTANTS
  Paths <- MCPaths
  Lengths = {1, 4}
  Block = 3
  ErrorCodes = {1, 2}
  MaxCalls = 2
  MaxFaults = 1
  MaxOthers = 1
SPECIFICATION Spec
INVARIANTS TypeOK PutLands GetIsPrefix DirsAsTold FailsForAReason
CHECK_DEADLOCK FALSE
