SPECIFICATION FairSpec
CONSTANTS
    Bits = 2
    CounterMax = 3
    Sample = 2
    Remaining = 1
    Scanners = {"none", "linear"}
    Strings = {{0}, {0, 1}}
    Unclean = {{0, 2}}
    Radii = {0, 1}
    MaxIter = 2
    MaxCalls = 3
    Calls <- MCCalls
INVARIANTS
    TypeOK
    RecallsSoleDatum
PROPERTIES
    ImplementsMemory
    CallReturns
CHECK_DEADLOCK FALSE
