SPECIFICATION FairSpec
CONSTANTS
    Requests = {r1, r2}
    Replays = {p1}
    Null = Null
    Ticks = 2
    MaxRecords = 1
    StorageFails = FALSE
    WorkersDie = FALSE
INVARIANTS
    PendingIsInFlight
PROPERTIES
    RetentionReached
    ReplayAnswers
