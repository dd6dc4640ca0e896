SPECIFICATION LiveSpec
CONSTANTS
  Unmapped = Unmapped
  Texts <- MCTexts
  Monitors <- MCMonitors
  Columns <- MCColumns
  Monitor <- MCMonitor
  Keys <- MCKeys
  Builds = {"native", "portable"}
  CommandCapacity = 1
  NormalCapacity = 2
  ControlCapacity = 2
  QueueCapacity = 2
  RatePerSecond = 2
  Scenarios <- MCScenarios
CHECK_DEADLOCK FALSE
INVARIANTS
  
  FocusExplained
  
PROPERTIES
  CloseCompletes
