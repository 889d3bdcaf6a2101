CONSTANTS
    BlockSize = 4
    BufferSize = 6
    WriteSizes = {2, 5, 8}
    ReadSizes = {3}
    MaxGiven = 10
    MaxSessions = 2
SPECIFICATION Spec
INVARIANTS
    TypeOK
    WellFormed
    InOrder
    NothingLost
    ReadsPrefix
PROPERTY CloseReports
CHECK_DEADLOCK FALSE
