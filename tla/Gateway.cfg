CONSTANTS
    InitialDelay = 1
    MaxDelay = 2
    MaxSessions = 2
    MaxSeq = 3
    MaxInbox = 1
    MaxEnds = 2
SPECIFICATION FairSpec
INVARIANTS
    ConnectionInv
    NoMessageSkipped
    StoredPairIsSafe
PROPERTIES
    ReplayHasACause
    Reconnects
    ZombieIsDropped
