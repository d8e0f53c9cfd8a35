CONSTANTS
  Stucks <- NoneStuck
  MaxLoops = 3
  MaxCycles = 1
  MayFail = FALSE
SPECIFICATION Spec
CHECK_DEADLOCK FALSE
INVARIANT RestoredOnce
