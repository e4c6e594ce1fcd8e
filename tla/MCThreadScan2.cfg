SPECIFICATION FairSpec
CONSTANTS
    Sample = 4
    MaxThreads = 5
INVARIANTS
    TypeOK
    NeverLost
    NoThreadLeft
    ReturnsAscending
PROPERTIES
    ScanReturns
    ImplementsScan
