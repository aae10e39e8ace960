SPECIFICATION Spec
CONSTANTS
    Search = {s1}
    Packet = {p1, p2}
    MaxQueue = 2
    MaxInits = 2
    MaxReceived = 2
    None = None
CHECK_DEADLOCK FALSE
  
PROPERTY FreeReturns
