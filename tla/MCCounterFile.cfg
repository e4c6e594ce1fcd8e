SPECIFICATION Spec
CONSTANTS
    Files = {f1, f2}
    Handles = {h1, h2}
    Samples = {1, 2}
    Values = {0, 1}
SYMMETRY Symmetry
INVARIANTS
    TypeOK
    LoadGivesSave
    MappedIsWhole
