SPECIFICATION Spec
CONSTANTS
    Configurations <- MCConfigurations
    SinglePositions = {0, 1, 2, 3, 4, 5, 6, 7, 8, 9, 10, 11, 12, 13, 14, 15}
    PairPositions = {0, 4, 8, 12, 14}
INVARIANTS
    TypeOK
    NothingConcealed
    DecoderReadsGrid
    OnsetIsBorder
