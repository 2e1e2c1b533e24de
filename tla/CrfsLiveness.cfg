SPECIFICATION FairSpec
CONSTANTS
    Names = {"a", "b", "c"}
    Paths <- DeepPaths
    Letters <- MCLetters
    Count <- MCCount
    Cut <- MCCut
    Data <- MCData
    NSlots = 3
    NBlocks = 6
    MaxCalls = 2
    MaxKills = 1
PROPERTIES
    Returns
    FilesIntact
CHECK_DEADLOCK FALSE
