CONSTANTS
  Handlers = {h1}
  Main = Main
  NoThread = NoThread
  Lost = Lost
  Trees = {T1, T2, T3}
  NoTree = NoTree
  SleepBeforeDump = TRUE
  FallbackFresh = TRUE
  ResumeOnStart = FALSE
  Stray = FALSE
  Faults = {"cmd"}
  MaxCrashes = 0
SPECIFICATION Spec
CHECK_DEADLOCK FALSE
INVARIANTS
  FailedSuspendHarmless
