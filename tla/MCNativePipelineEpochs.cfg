SPECIFICATION LiveSpec
CONSTANTS
  MaxPending = 2
  MaxSubmits = 4
  MaxResets = 2
  MaxErrors = 1
  None = None
CHECK_DEADLOCK FALSE
INVARIANTS
  EpochsSeparate
PROPERTIES
  WorkerResponds
