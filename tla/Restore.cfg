CONSTANTS
  c1 = c1
  Calls <- OneCall
  Settings <- Modes
SPECIFICATION MCSpec
CHECK_DEADLOCK FALSE
INVARIANTS
  TypeOK
  Repaired
  NotDeclaredDead
  RunningMeansUsable
  SchedulerHasModel
  GraphsFit
PROPERTIES
  DeathReported
  
