SPECIFICATION MCSpec
CONSTANTS
    Size = 5
    MenRows = 1
    NoKillLimit = 4
INVARIANTS
    TypeOK
    CountedAreThere
    LastRowCrowned
PROPERTIES
    RejectedKeepsPieces
    OpponentOnlyLoses
