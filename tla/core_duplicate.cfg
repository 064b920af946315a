SPECIFICATION Spec
CONSTANTS
    Requests = {r1, r2, r3}
    Replays = {p1}
    Null = Null
    Ticks = 2
    MaxRecords = 1
    StorageFails = FALSE
    WorkersDie = FALSE
SYMMETRY Actors
INVARIANT
    DuplicateIsDiagnosed
