CONSTANTS
  Handlers = {h1}
  Main = Main
  NoThread = NoThread
  Lost = Lost
  Trees = {T1, T2}
  NoTree = NoTree
  SleepBeforeDump = TRUE
  FallbackFresh = TRUE
  ResumeOnStart = TRUE
  Stray = FALSE
  Faults = {"cmd", "timeout", "engine"}
  MaxCrashes = 1
SPECIFICATION FairSpec
CHECK_DEADLOCK FALSE
PROPERTIES
  OperationsEnd
  ComesToServe

