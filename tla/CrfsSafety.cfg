SPECIFICATION MCSpec
CONSTANTS
    Names = {"a", "b", "c"}
    Paths <- DeepPaths
    Letters <- MCLetters
    Count <- MCCount
    Cut <- MCCut
    Data <- MCData
    NSlots = 2
    NBlocks = 7
    MaxCalls = 3
    MaxKills = 1
INVARIANTS
    TypeOK
    MetadataSafe
    NoSharing
    LinksCounted
    BlocksMarked
    SegfaultExplained
