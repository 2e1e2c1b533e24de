SPECIFICATION MCSpec
CONSTANTS
    N = 3
    Jobs <- AllJobs
    Quanta = {0, 1, 2, 3, 5}
INVARIANTS
    TypeOK
    QueueOrdered
    CpuExclusive
    BurstInBounds
    StatisticsAddUp
    WorkConserving
    DispatchesAccounted
    ResponseWithinWaiting
    MatchesSamples
PROPERTIES
    Terminates
    ImplementsPriorityCpu
