CONSTANTS
    v1 = v1
    v2 = v2
    d0 = d0
    None = None
    MaxPages = 16
    MaxNodeSize = 2
    MaxScore = 17
    MaxOps = 2
    Scores <- MCScores
    Databases <- OneTree
    Values <- MCValues
    Loads <- NarrowLoads
SPECIFICATION MCSpec
SYMMETRY MCSymmetry
INVARIANTS BothBalanced Finds PagesAccounted
PROPERTY Implements
