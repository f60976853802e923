CONSTANTS
    w1 = w1
    w2 = w2
    r1 = r1
    v1 = v1
    v2 = v2
    None = None
    Junk = Junk
    Writers <- TwoWriters
    Readers <- OneReader
    Values <- OneValue
    Page = {0}
    WalSizes = {"small"}
    MaxDirty = 1
    FileAtStart = FALSE
SPECIFICATION LiveSpec
PROPERTY
    Progress
