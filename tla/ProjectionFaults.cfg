SPECIFICATION ConsumerSpec
CONSTANTS
  MaxBlocks = 3
  MaxEventsPerBlock = 2
  MaxFaults = 4
  StoreMayFail = FALSE
INVARIANTS
  RowsArePrefix
PROPERTIES
  CheckpointNeverGoesBack
  EventuallyProjected
CHECK_DEADLOCK FALSE
