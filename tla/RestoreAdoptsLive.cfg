CONSTANTS
  c1 = c1
  Calls <- OneCall
  Settings <- Defaults
SPECIFICATION Spec
CHECK_DEADLOCK FALSE
INVARIANT AdoptsLive
