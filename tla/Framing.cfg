SPECIFICATION FairSpec
CONSTANTS
  Byte = {0, 1, 2}
  ReadSize = 2
  MaxPackets = 3
  MaxSessions = 2
CHECK_DEADLOCK FALSE
INVARIANT InOrder
PROPERTIES
  Buffers
  DispatchedUnlessOverrun
