CONSTANTS
    Capacities = {2, 3}
    MaxWrite = 2
    MaxRead = 3
    MaxBytes = 9
SPECIFICATION Spec
INVARIANTS TypeOK WithinCapacity HoldsWritten
PROPERTY MemIsPipe
CHECK_DEADLOCK FALSE
