SPECIFICATION Spec
CONSTANTS
    Configurations <- MCConfigurations
    AttackWindows = {0, 3, 7}
    Energies = {0, 1}
    FrameLength = 1024
INVARIANTS
    TypeOK
    AttackIsCodedShort
    SlopesFitTransform
    DecoderSeesBlock
PROPERTIES
    SlopesMeet
