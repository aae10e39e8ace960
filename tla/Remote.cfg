SPECIFICATION FairSpec
CONSTANTS
    FD = {fd1, fd2}
    NoFD = NoFD
    MaxUnread = 2
    MaxStarts = 2
INVARIANTS
    TypeOK
    NothingLeaks
    SessionIsBacked
    SessionMatchesMode
PROPERTIES
    PairedOnlyByPairingSession
    Supervises
    BufferMoves
    GivesUp
