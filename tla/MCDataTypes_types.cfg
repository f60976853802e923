SPECIFICATION Spec
VIEW MCView
CONSTANTS
    MaxLong = 127
    MaxBytes = 3
    Keys <- MCKeys
    Texts <- MCTexts
    Members_ <- MCMembers
    Several <- MCSeveral
    Pairings <- MCPairings
    Merges <- MCMerges
    Loads <- MCLoads
    MaxOps = 2
    MaxNow = 2
INVARIANTS StringsOwned ScoresAgree ReadsAgree
PROPERTIES VersionsMove Implements
CHECK_DEADLOCK FALSE
