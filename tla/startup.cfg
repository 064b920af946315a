SPECIFICATION FairSpec
CONSTANTS
    w1 = w1
    w2 = w2
    w3 = w3
    p1 = p1
    p2 = p2
    Workers <- MCWorkers
    Processes <- MCProcesses
    ProcessOf <- MCProcessOf
    Statements = 4
    Foreign = Foreign
    Found <- MCFound
    Nobody = Nobody
    MaxKills = 1
    MaxDeletes = 1
INVARIANTS
    SchemaIsWhole
    VerdictIsRight
PROPERTIES
    StartSettles
CHECK_DEADLOCK FALSE
