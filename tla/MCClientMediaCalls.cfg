SPECIFICATION LiveSpec
CONSTANTS
  MaxWidth = 4
  MaxHeight = 4
  MaxBytes = 40
  BufferSlack = 1
  Fillings <- MCFillings
  MaxPending = 2
  MaxOutputs = 2
  MaxTimestamp = 1
  Contents <- MCContents
  MaxJobs = 3
  Scenarios <- MCScenarios
  None = None
CHECK_DEADLOCK FALSE
INVARIANTS
  SurfacesPreserved
  DecoderAgrees
  ResizeSafe
PROPERTIES
  MediaCollected
