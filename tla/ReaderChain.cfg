SPECIFICATION Spec
CONSTANTS
    Ratios <- MCRatios
    Taps = 4
    Chunk = 4
    NCh = 2
    Frames <- MCFrames
    MaxInput = 4
    Requests = {1, 2, 4}
INVARIANTS
    TypeOK
    WindowAroundInstant
    NoExtraBuffering
    ChannelsInStep
    HalfWavesWhole
PROPERTIES
    IsPcmSource
