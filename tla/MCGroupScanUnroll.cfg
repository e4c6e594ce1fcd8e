SPECIFICATION FairSpec
CONSTANTS
    Sample = 1
    WarpSize = 4
    Radius = 1
    Counts = {0, 1}
    MaxDistance = 2
    Launches <- UnrollLaunches
INVARIANTS
    ReturnsNear
