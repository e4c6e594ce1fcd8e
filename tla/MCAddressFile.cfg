SPECIFICATION Spec
CONSTANTS
    Spaces = {s1, s2}
    Samples = {1, 3}
    Values = {a, b}
    RowBytes = 16
SYMMETRY Symmetry
INVARIANTS
    TypeOK
    LoadGivesSave
    GoodSaveLoads
    StoresEndNearTable
