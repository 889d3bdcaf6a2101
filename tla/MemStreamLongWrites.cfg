CONSTANTS
    Capacities = {2}
    MaxWrite = 4
    MaxRead = 1
    MaxBytes = 8
SPECIFICATION Spec
INVARIANT WithinCapacity
CHECK_DEADLOCK FALSE
