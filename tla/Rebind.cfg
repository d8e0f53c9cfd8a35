CONSTANTS
  h1 = h1
  h2 = h2
  h3 = h3
  Holders <- ThreeHolders
  OldBlocks = 2
  Walks <- TwoWalks
  MaxAttempts = 2
  MaxFresh = 8
SPECIFICATION Spec
CHECK_DEADLOCK FALSE
INVARIANTS
  TypeOK
  Rebound
  SharingKept
  UnmappedOnce
