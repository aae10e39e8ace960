SPECIFICATION Spec
CONSTANTS
  Search = {s1, s2}
  MaxQueue = 2
  MaxResults = 2
  MaxQueries = 3
  MaxPackets = 2
SYMMETRY Interchangeable
CHECK_DEADLOCK FALSE
INVARIANTS
  ListedIsLive
  OwnAction
  WaitersAreServed
  NotifiedOnce
PROPERTY Promised
