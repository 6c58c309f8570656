SPECIFICATION Spec
CONSTANTS
    SampleSizes = {1, 3}
    MaxSamples  = 6
    Delta       = 2
    HalfSecond  = 4
    MaxUint32   = 18
    MoovFixed   = 4
    Slack       = 3
    BlockLen    = 2
    Optimize    = {TRUE, FALSE}
INVARIANTS
    TypeOK
    ChunksTile
    BoxesTile
PROPERTY
    ImplementsStore
