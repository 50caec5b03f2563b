SPECIFICATION ConsumerSpec
CONSTANTS
  MaxBlocks = 3
  MaxEventsPerBlock = 2
  MaxFaults = 4
  StoreMayFail = TRUE
INVARIANTS
  NeverLoseEvents
CHECK_DEADLOCK FALSE
