CONSTANTS
    c1 = c1
    c2 = c2
    k1 = k1
    k2 = k2
    v1 = v1
    v2 = v2
    None = None
    Clients <- TwoClients
    Keys <- OneKey
    Databases <- OneDatabase
    FirstDatabase = 0
    Values <- TwoValues
    Ops <- Updates
    FirstDraw <- NearDraws
    MaxDraws = 2
    MaxUpdates = 1
    MaxQueue = 1
    MaxWatched = 1
    Watchers <- OneClient
SPECIFICATION LiveSpec
INVARIANTS WatchSafe NoSpuriousAbort LockDiscipline CleanContext
PROPERTY CallsReturn
CHECK_DEADLOCK TRUE
