SPECIFICATION LiveSpec
CONSTANTS
  MaxCredits = 2
  MaxPending = 2
  Depth = 2
  Scenarios <- MCScenarios
  None = None
  MaxWidth = 4
  MaxHeight = 4
  MaxBytes = 40
  BufferSlack = 1
  Fillings <- MCFillings
  MaxSize = 80
  MaxSide = 6
  Colours <- MCColours
CHECK_DEADLOCK FALSE
INVARIANTS
  FramesAccounted
  KeyframeKept
  PicturesKept
PROPERTIES
  WorkerCollected
