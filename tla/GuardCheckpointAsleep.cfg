CONSTANTS
  r1 = r1
  r2 = r2
  Requests <- OneRequest
  FallbackFresh = TRUE
  MaxFailures = 0
  MaxRestarts = 0
SPECIFICATION Spec
CHECK_DEADLOCK FALSE
INVARIANT CheckpointAsleep
