SPECIFICATION Spec
CONSTANTS
    Device <- Addresses
    MaxStarts = 3
    MaxLost = 2
    MaxInbox = 2
CHECK_DEADLOCK FALSE
INVARIANTS QuietMeansDistinct KeepsTheLowestName
PROPERTIES Settles
