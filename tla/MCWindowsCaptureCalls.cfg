SPECIFICATION LiveSpec
CONSTANTS
  PoolBuffers = 2
  Sizes = {1, 2}
  MaxArrivals = 3
  MaxResizes = 1
  MaxFaults = 1
  AllowFallback = TRUE
  MaxCalls = 2
CHECK_DEADLOCK FALSE
INVARIANTS
  CallsPaired
  PoolServed
  LossReported
PROPERTIES
  SourceCollected
