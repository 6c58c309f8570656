SPECIFICATION Spec
CONSTANTS
    Configurations <- MC960
    SinglePositions = {0, 1, 2, 3, 4, 5, 6, 7, 8, 9, 10, 11, 12, 13, 14, 15}
    PairPositions = {0, 4, 12, 14}
INVARIANT DecoderReadsGrid960
