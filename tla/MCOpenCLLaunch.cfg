SPECIFICATION Spec
CONSTANTS
    Lengths = {1, 16, 33, 157, 528}
    Samples = {1, 19, 20, 101}
    ComputeUnits = {1, 3}
    DeviceCounts = {1, 2, 3}
    MaxGroup = 256
CHECK_DEADLOCK FALSE
INVARIANTS
    TypeOK
    SizesFitKernel
    FullScan
    ReportsAreExact
    RefusedOnlyIf
