SPECIFICATION Spec
CONSTANTS
    FrameLen  = 4
    LpcMin    = 2
    MaxInput  = 40
    Delay     = 7
    DelayCore = 6
    SubFrames = 3
    Padded    = FALSE
    WordMod   = 65536
INVARIANTS
    WrittenInOrder
    TailLossBounded
    SomethingWritten
PROPERTY
    Termination
