CONSTANTS
    BlockSize = 4
    BufferSize = 6
    WriteSizes = {1, 3}
    ReadSizes = {}
    MaxGiven = 3
    MaxSessions = 1
SPECIFICATION Spec
PROPERTY EmptyAtEnd
CHECK_DEADLOCK FALSE
