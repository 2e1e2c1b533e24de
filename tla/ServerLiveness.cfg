SPECIFICATION FairSpec
CONSTANTS
    Nicknames = {"ana", "luz"}
    MaxMoves = 2
    MaxGames = 1
    MaxImages = 1
    MaxMsgs = 0
    MaxDeaths = 1
PROPERTIES
    Answered
    DisconnectEndsBoth
    KillEndsServer
CHECK_DEADLOCK FALSE
