SPECIFICATION Spec
CONSTANTS
  RoleDefs <- MCRoleDefs
  Subjects <- MCSubjects
  DeviceLabels <- MCDeviceLabels
  Proposals <- MCProposals
  AddressBits <- MCAddressBits
  DefaultDuration = 3
  MaxSessions = 2
  MaxUpdates = 4
  None = None
  laptop = laptop
  kiosk = kiosk
CHECK_DEADLOCK FALSE
INVARIANTS
  DecisionsSound
  
  NeverEscalates
