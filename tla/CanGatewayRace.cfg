SPECIFICATION Spec
CONSTANTS
    RingSize = 2
    FifoDepth = 1
    Boxes = {m0, m1, m2}
    MaxFrames = 4
    MaxSends = 1
    m0 = m0
    m1 = m1
    m2 = m2
INVARIANTS
    FilledMailboxIsFree
