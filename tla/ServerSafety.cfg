SPECIFICATION MCSpec
CONSTANTS
    Nicknames = {ana, luz}
    MaxMoves = 2
    MaxGames = 2
    MaxImages = 1
    MaxMsgs = 1
    MaxDeaths = 1
SYMMETRY Symmetry
INVARIANTS
    TypeOK
    AnswersAhead
PROPERTIES
    ImplementsMatch
