SPECIFICATION Spec
CONSTANTS
    FrameLen  = 4
    LpcMin    = 2
    MaxInput  = 14
    Delay     = 7
    DelayCore = 6
    SubFrames = 1
    Padded    = TRUE
    WordMod   = 65536
INVARIANT
    OneFrameEachEnd
