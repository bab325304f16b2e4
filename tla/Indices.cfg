\* Indices of four bits: they come round every eight blocks, and the ring grows to eight.
SPECIFICATION Spec
CONSTANTS
    Half = 8
    BLOCK_SIZE = 2
    InitialCapacity = 2
    Consumer = {c1, c2}
    MaxStale = 2
SYMMETRY ConsumerSymmetry
INVARIANTS NumbersRight ClaimsBacked FoundEntry
