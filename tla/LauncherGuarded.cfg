CONSTANTS
  Handlers = {h1}
  Main = Main
  NoThread = NoThread
  Lost = Lost
  Trees = {T1, T2, T3}
  NoTree = NoTree
  SleepBeforeDump = TRUE
  FallbackFresh = TRUE
  ResumeOnStart = TRUE
  Stray = FALSE
  Faults = {"cmd", "disk", "die", "timeout", "engine", "signal"}
  MaxCrashes = 1
SPECIFICATION Spec
CHECK_DEADLOCK FALSE
VIEW View
INVARIANTS
  TypeOK
  RequestScoped
  PendingScoped
  ImageOrProcess
  ImageQuiesced
  OneTree
PROPERTIES
  FreshSeesNoRequest
  ImageKept
  ImplementsLifecycle
