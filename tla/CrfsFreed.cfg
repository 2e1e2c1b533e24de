SPECIFICATION MCSpec
CONSTANTS
    Names = {"a", "b", "c", "d"}
    Paths <- FlatPaths
    Letters <- MCLetters
    Count <- MCCount
    Cut <- MCCut
    Data <- MCData
    NSlots = 3
    NBlocks = 7
    MaxCalls = 3
    MaxKills = 0
INVARIANTS
    FreedOnlyUnlinked
