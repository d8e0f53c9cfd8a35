CONSTANTS
  Stucks <- SomeStuck
  MaxLoops = 3
  MaxCycles = 1
  MayFail = TRUE
SPECIFICATION FairSpec
CHECK_DEADLOCK FALSE
INVARIANTS
  TypeOK
  DoneMeansRecovered
PROPERTIES
  AnswerStands
  RestoreAnswered
  SocketsFollow
