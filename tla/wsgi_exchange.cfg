SPECIFICATION FairSpec
CONSTANTS
    Limit = 1
    MaxBody = 3
    Newlines = {1}
    Declared <- MCDeclared
    Sizes <- MCSizes
    Hints <- MCHints
    Unknown = Unknown
    Statuses = {200, 500}
    MaxResponse = 1
    MaxCloses = 2
INVARIANTS
    CapturedIsPrefix
    ReadlinesNeverAhead
    EndsOnce
    CompleteRecordIsTrue
    RecordCoversResponse
    WholeRecordIsWhole
PROPERTIES
    ServedIsStored
CHECK_DEADLOCK FALSE
