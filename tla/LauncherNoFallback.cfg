CONSTANTS
  Handlers = {h1, h2}
  Main = Main
  NoThread = NoThread
  Lost = Lost
  Trees = {T1, T2, T3}
  NoTree = NoTree
  SleepBeforeDump = TRUE
  FallbackFresh = FALSE
  ResumeOnStart = FALSE
  Stray = FALSE
  Faults = {"cmd", "api", "disk", "die", "timeout", "engine", "signal"}
  MaxCrashes = 0
SPECIFICATION Spec
CHECK_DEADLOCK FALSE
VIEW View
INVARIANTS
  LockOwned
  CheckpointedHasImage
  ImageNotHidden
  ResumedEngineRecovered
