SPECIFICATION Spec
CONSTANTS
    Addresses = {a1, a2}
    Risky = {a2}
    Limit = 2
    MaxResponse = 4
    Timeout = 2
    Null = Null
INVARIANT
    EndsInTime
CHECK_DEADLOCK FALSE
