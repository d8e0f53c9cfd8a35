CONSTANTS
  r1 = r1
  r2 = r2
  Requests <- TwoRequests
  FallbackFresh = TRUE
  MaxFailures = 2
  MaxRestarts = 1
SPECIFICATION FairSpec
CHECK_DEADLOCK FALSE
INVARIANTS
  TypeOK
  NoStrayResume
  OneResume
PROPERTIES
  RequestsAnswered
  
