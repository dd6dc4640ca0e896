SPECIFICATION Spec
CHECK_DEADLOCK FALSE
CONSTANTS
  MaxFrameId = 4
  MaxNonce = 2
  KeyInterval = 2
  PacketCounts = {1, 2, 3}
  MaxPackets = 2
  MaxInFlight = 2
  Window = 1
  MaxCapture = 5
  MaxRuns = 2
  MaxDamage = 1
  MaxFaultyFrames = 3
  MaxFaultyId = 3
  NoFrame = NoFrame
CONSTRAINT FaultsInShortSessions
INVARIANTS
  LossNeverCloses
  BoundedKeepsNewest
  NonceOnce
PROPERTIES
  ImplementsFrameStream
