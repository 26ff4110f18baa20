SPECIFICATION FairSpec
CONSTANTS
    EpSize = 2
    BufLen = 4
    MaxLen = 5
    MaxRequests = 4
INVARIANTS
    RepliesBelong
    WritesInPlace
    StallsJustified
PROPERTIES
    ImplementsControlPipe
    TransfersEnd
CHECK_DEADLOCK FALSE
