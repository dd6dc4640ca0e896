SPECIFICATION Spec
CONSTANTS
  MaxDuration = 3
  Window = 1
  NotBefore = 1
  ExpiresAt = 5
  EventCapacity = 2
  QueueCapacity = 2
  RatePerSecond = 2
  MaxTime = 6
  MaxConns = 2
  MaxEvents = 3
  MaxFocus = 1
  MaxFrames = 1
  None = None
  Setups <- MCController
CHECK_DEADLOCK FALSE
PROPERTIES
  LossReconnects
