SPECIFICATION Spec
CONSTANTS
  MaxCalls = 2
  MaxFaults = 1
  MaxStops = 1
  TokenUses = 2
  TicksPerSecond = 2
  CapabilityTtl = 1
  ReplayTtl = 1
  ReplayCapacity = 1
  Protocols = {1, 2}
  MaxCapabilities = 2
  MaxPresentations = 3
  MaxClock = 4
  MaxClockSteps = 1
  None = None
  Absent = Absent
  Torn = Torn
  Rejected = Rejected
CHECK_DEADLOCK FALSE
INVARIANTS
  IdentityKept
  AcceptedTwiceOnlyAtTheEdges
  RefusalsExplained
