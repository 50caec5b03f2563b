SPECIFICATION ConsumerSpec
CONSTANTS
  MaxBlocks = 3
  MaxEventsPerBlock = 2
  MaxFaults = 4
  StoreMayFail = FALSE
INVARIANTS
  CheckpointNamesACompleteBlock
CHECK_DEADLOCK FALSE
