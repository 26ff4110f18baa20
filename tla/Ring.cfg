SPECIFICATION Spec
CONSTANTS
    Size = 4
    BufLen = 1
    ProducerIsr = TRUE
    MaxPuts = 14
CONSTRAINT PutsBound
INVARIANTS
    TypeOK
    FifoUntilOverrun
    LossIsWholeRings
    TornOnlyByOverrun
PROPERTY ImplementsOrderedChannel
