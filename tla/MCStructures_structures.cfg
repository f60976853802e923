CONSTANTS
    MaxPages = 32
    Databases = {}
    Values = {}
    MaxListNode = 3
    PageSize = 2
    MaxLevel = 3
    MaxOps = 2
    Marks <- MCMarks
    Writes <- MCWrites
    Offsets <- MCOffsets
    Strings <- MCStrings
    SkipScores <- MCScores
    Members <- MCMembers
    Loads <- MCLoads
SPECIFICATION Spec
INVARIANTS LinksAgree ListHolds StringHolds Ranks PagesHeld
CHECK_DEADLOCK FALSE
