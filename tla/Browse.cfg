SPECIFICATION BrowseSpec
CONSTANTS
    tv = tv
    cast = cast
    one = one
    two = two
    box = box
    other = other
    ip = ip
    before = before
    after = after
    None = None
    Browse = {b1, b2}
    Result = {r1, r2, r3}
    Service = {tv, cast}
    Packet <- Packets
    MaxQueue = 2
    MaxEnds = 1
    MaxRecords = 4
CHECK_DEADLOCK FALSE
INVARIANTS CacheIsWhole ListenerIsUpToDate
