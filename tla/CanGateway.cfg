SPECIFICATION Spec
CONSTANTS
    RingSize = 2
    FifoDepth = 1
    Boxes = {m0, m1, m2}
    MaxFrames = 3
    MaxSends = 2
    m0 = m0
    m1 = m1
    m2 = m2
INVARIANTS
    TypeOK
    GateFramesSafe
    MainFramesSafe
SYMMETRY Symmetry
PROPERTIES
    ImplementsOrderedChannel
CHECK_DEADLOCK FALSE
