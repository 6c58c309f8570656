SPECIFICATION Spec
CONSTANT Configurations <- MCConfigurations
INVARIANTS
    TypeOK
    ReservoirInRange
    AverageHolds
    HeaderNeverUnderestimated
    WrittenBitsAgree
    SuperframeExact
    FrameLengthFields
    ConfigRepeated
PROPERTY
    QuantizationEnds
