CONSTANTS
    c1 = c1
    c2 = c2
    k1 = k1
    k2 = k2
    v1 = v1
    v2 = v2
    None = None
    Clients <- OneClient
    Keys <- TwoKeys
    Databases <- TwoDatabases
    FirstDatabase = 0
    Values <- TwoValues
    Ops <- Moves
    FirstDraw <- SameDraws
    MaxDraws = 2
    MaxUpdates = 1
    MaxQueue = 1
    MaxWatched = 1
    Watchers <- OneClient
SPECIFICATION Spec
INVARIANTS TypeOK WatchSafe
PROPERTY ChangesVersion
SYMMETRY KeySymmetry
CHECK_DEADLOCK TRUE
