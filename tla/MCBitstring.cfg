SPECIFICATION BitstringSpec
CONSTANTS
    Bits = 3
    WordBits = 2
    IntBits = 1
INVARIANTS
    BuffersOK
    DistanceIsHamming
PROPERTIES
    BitsAreExact
