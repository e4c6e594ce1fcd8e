SPECIFICATION FairSpec
CONSTANTS
    Sample = 2
    WarpSize = 4
    Radius = 1
    Counts = {0, 1}
    MaxDistance = 2
    Launches <- MCLaunches
INVARIANTS
    TypeOK
    NoRace
PROPERTIES
    ScanReturns
    ImplementsScan
