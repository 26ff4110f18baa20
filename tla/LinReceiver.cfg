SPECIFICATION FairSpec
CONSTANTS
    BufSize = 3
    RingSize = 2
    MaxLen = 4
    MaxFrames = 2
INVARIANTS
    BufferIsOneFrame
    PacketsAreFrames
    NoFrameLost
PROPERTY SilenceDelivers
