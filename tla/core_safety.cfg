SPECIFICATION Spec
CONSTANTS
    Requests = {r1, r2, r3}
    Replays = {p1}
    Null = Null
    Ticks = 2
    MaxRecords = 1
    StorageFails = TRUE
    WorkersDie = TRUE
SYMMETRY Actors
INVARIANTS
    TypeOK
    NonceCorrelatesOnce
    InboundIsCorrelated
    ClaimMatchesLink
    FinalizeIsNeverRefused
    ReportMatchesStore
    RetentionBound
PROPERTIES
    PrunesByAge
    RemovedStaysRemoved
    ImplementsCorrelation
    ImplementsPhases
