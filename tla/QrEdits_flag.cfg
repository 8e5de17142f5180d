CONSTANTS
    Dest = {d1, d2}
    Edit = {e1, e2}
    Keep = Keep
    MaxWrites = 3
SPECIFICATION EditSpec
CHECK_DEADLOCK FALSE
PROPERTY FlaggedReturnsOnlyOnRequest
