SPECIFICATION MCSpec
CONSTANTS
    Size = 5
    MenRows = 1
    NoKillLimit = 4
PROPERTIES
    RejectedUnchanged
