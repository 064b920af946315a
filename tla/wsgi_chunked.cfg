SPECIFICATION Spec
CONSTANTS
    Limit = 1
    MaxBody = 3
    Newlines = {1}
    Declared = {0}
    Sizes <- MCSizes
    Hints <- MCHints
    Unknown = Unknown
    Statuses = {200, 500}
    MaxResponse = 1
    MaxCloses = 2
INVARIANT
    ReplayableIsComplete
CHECK_DEADLOCK FALSE
