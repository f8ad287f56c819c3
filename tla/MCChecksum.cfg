CONSTANTS
    Scalars <- MCScalars
    Slices <- MCSlices
    MaxWords = 4
SPECIFICATION ChecksumSpec
INVARIANTS
    SumIsOnesComplement
