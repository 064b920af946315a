SPECIFICATION FairSpec
CONSTANTS
    Addresses = {a1, a2}
    Risky = {a2}
    Limit = 2
    MaxResponse = 4
    Timeout = 1
    Null = Null
INVARIANTS
    SentIsAnnounced
    ValidationMeansUnsent
    SentToVetted
    ResponseIsPrefix
PROPERTIES
    ImplementsPhases
    Settles
CHECK_DEADLOCK FALSE
