SPECIFICATION FairSpec
CONSTANTS
    TxSize = 4
    PktSize = 2
    Burst = 3
    MaxBytes = 7
    MaxReplugs = 1
INVARIANTS
    TypeOK
    PipelineInOrder
    PipelineComplete
PROPERTIES
    ImplementsOrderedChannel
    KeepsMoving
CHECK_DEADLOCK FALSE
