CONSTANTS
    Capacity = 3
    MaxRead = 5
    SourceSize = 12
    ShortReads = TRUE
    ReadFaults = TRUE
    SizeMax = 99
SPECIFICATION Spec
INVARIANT ReadErrorsReported
CHECK_DEADLOCK FALSE
