SPECIFICATION ConsumerSpec
CONSTANTS
  MaxBlocks = 3
  MaxEventsPerBlock = 2
  MaxFaults = 4
  StoreMayFail = TRUE
INVARIANTS
  CInv
  NoDuplicates
  OnlyFailedInsertsAreLost
  IdleMissesNothing
PROPERTIES
  ImplementsProjection
CHECK_DEADLOCK FALSE
