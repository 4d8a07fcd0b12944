SPECIFICATION StreamSpec
CONSTANTS
    INITIAL_READ_SIZE = 2
    RecordSize = 3
    Requests <- MCRequests
    MaxBytes = 3
    MaxReads = 2
INVARIANTS OneWireRead
PROPERTIES ImplementsPipe DataIsRead EndIsReported
CHECK_DEADLOCK FALSE
