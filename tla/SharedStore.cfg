SPECIFICATION Spec
CONSTANTS
  MaxBlocks = 2
  MaxEventsPerBlock = 2
  MaxFaults = 2
  StoreMayFail = TRUE
  MaxStarts = 3
INVARIANTS
  RestartLosesNothing
  IdleMissesNothing
PROPERTIES
  ImplementsProjection
  OneConsumerRemains
  EventuallyProjected
CHECK_DEADLOCK FALSE
