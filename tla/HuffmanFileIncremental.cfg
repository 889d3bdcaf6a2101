CONSTANTS
    BlockSize = 4
    BufferSize = 6
    WriteSizes = {1, 2, 3}
    ReadSizes = {}
    MaxGiven = 6
    MaxSessions = 1
SPECIFICATION Spec
INVARIANT Incremental
CHECK_DEADLOCK FALSE
