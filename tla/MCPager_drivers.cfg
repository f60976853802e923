CONSTANTS
    MaxPages = 4
    v1 = v1
    v2 = v2
    d0 = d0
    Values <- MCValues
    Databases <- MCDatabases
SPECIFICATION Spec
SYMMETRY MCSymmetry
INVARIANTS
    TypeOK
    ReadBack
    FreeList
    NoOrphan
    RootLive
