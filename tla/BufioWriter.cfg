CONSTANTS
    Capacity = 3
    MaxWrite = 5
    MaxBytes = 12
SPECIFICATION Spec
INVARIANTS TypeOK NothingLost
PROPERTIES FlushCompletes WriterIsPipe
CHECK_DEADLOCK FALSE
