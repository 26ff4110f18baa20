SPECIFICATION FairSpec
CONSTANTS
    BufSize = 7
    RxSize = 8
    BatchLen = 3
    PktLen = 4
    Extras = {0, 1}
    MaxCmds = 3
PROPERTIES
    StaysInStep
    CommandsExecuted
    PauseResyncs
    NothingStays
CHECK_DEADLOCK FALSE
