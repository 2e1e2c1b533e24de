SPECIFICATION FairSpec
CONSTANTS
    Nicknames = {"ana", "luz"}
    MaxMoves = 1
    MaxGames = 1
    MaxImages = 0
    MaxMsgs = 0
    MaxDeaths = 0
PROPERTY BothDisconnected
CHECK_DEADLOCK FALSE
