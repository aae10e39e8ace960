SPECIFICATION FairSpec
CONSTANTS
    Pcb = {v4, v6}
    NoPcb = NoPcb
    Packet = {p1, p2}
    MaxQueue = 1
    MaxEvents = 2
INVARIANTS ProbingHasItsPacket ProbedBeforeAnnouncing PushedIsPending
PROPERTY Settles
CHECK_DEADLOCK FALSE
