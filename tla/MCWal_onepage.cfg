CONSTANTS
    w1 = w1
    w2 = w2
    r1 = r1
    v1 = v1
    v2 = v2
    None = None
    Junk = Junk
    Writers <- TwoWriters
    Readers = {}
    Values <- MCValues
    Page = {0, 1, 5}
    WalSizes = {"small", "large", "exact"}
    MaxDirty = 1
    FileAtStart = TRUE
SPECIFICATION CrashSpec
SYMMETRY MCSymmetry
INVARIANTS
    TypeOK
    DamageConfined
