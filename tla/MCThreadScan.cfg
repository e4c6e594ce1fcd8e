SPECIFICATION FairSpec
CONSTANTS
    Sample = 4
    MaxThreads = 5
INVARIANTS
    TypeOK
    DisjointWrites
    NoThreadLeft
    ReturnsExactly
PROPERTIES
    ScanReturns
    ImplementsScan
