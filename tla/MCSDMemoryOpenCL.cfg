SPECIFICATION FairSpec
CONSTANTS
    Bits = 2
    CounterMax = 3
    Sample = 2
    Remaining = 1
    Scanners = {"opencl"}
    Strings = {{0}, {0, 1}}
    Unclean = {}
    Radii = {0, 1}
    MaxIter = 2
    MaxCalls = 3
    Calls <- OpenCLCalls
INVARIANTS
    SelectsNear
CHECK_DEADLOCK FALSE
