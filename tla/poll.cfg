SPECIFICATION FairSpec
CONSTANTS
    Latest = 1
    MaxRecords = 2
    MaxId = 3
    Null = Null
INVARIANTS
    TypeOK
    NeverStalls
    ListMatchesCursor
    RemovedIsOutOfSight
PROPERTIES
    Converges
