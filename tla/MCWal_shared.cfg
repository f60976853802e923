CONSTANTS
    w1 = w1
    w2 = w2
    r1 = r1
    v1 = v1
    v2 = v2
    None = None
    Junk = Junk
    Writers <- TwoWriters
    Readers <- OneReader
    Values <- MCValues
    Page = {0, 1}
    WalSizes = {"small", "large", "exact"}
    MaxDirty = 2
    FileAtStart = TRUE
SPECIFICATION Spec
SYMMETRY MCSymmetry
INVARIANTS
    WritersFindCommitted
    ReadersFindCommitted
    NoStaleWal
PROPERTY
    Atomic
