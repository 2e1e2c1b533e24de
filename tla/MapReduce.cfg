SPECIFICATION MCSpec
CONSTANTS
    Length <- MCLength
    Texts <- MCTexts
    Retry <- MCRetry
    Versions = {"fork", "threads"}
    MAXWORDS = 2
    MAXCHILDS = 2
    Keys = 4
    MaxRuns = 2
    Segfault = Segfault
INVARIANTS
    TypeOK
    ChildrenBounded
    ReduceSeesAll
    SegmentsReleased
    OverrunBounded
PROPERTIES
    ImplementsWordCount
    Ends
