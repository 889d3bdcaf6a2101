CONSTANTS
    Capacity = 3
    MaxRead = 5
    SourceSize = 14
    ShortReads = TRUE
    ReadFaults = FALSE
    SizeMax = 99
SPECIFICATION Spec
INVARIANTS TypeOK ReadAheadComesNext CounterTellsEnd
PROPERTIES FailsOnlyAtEnd ReaderIsPipe
CHECK_DEADLOCK FALSE
