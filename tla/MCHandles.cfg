SPECIFICATION Spec
CONSTANTS
    AddressSpaces = {s1, s2}
    Counters = {c1, c2}
    Heap = {m1, m2}
    Maps = {p1}
    MaxFd = 2
SYMMETRY Symmetry
CHECK_DEADLOCK FALSE
INVARIANTS
    TypeOK
    NothingIsLost
    SDMsHoldTheirMemory
PROPERTIES
    GivenBackByOwner
    NoDoubleFree
