SPECIFICATION TxFairSpec
CONSTANTS
    MaxData = 3
    MaxSends = 3
INVARIANTS
    TypeOK
    CleanFrame
PROPERTIES
    FrameGoesOut
    ComesToRest
CHECK_DEADLOCK FALSE
