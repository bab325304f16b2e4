\* One consumer, as in the program; the ring grows after it has come round.
SPECIFICATION FairSpec
CONSTANTS
    BLOCK_SIZE = 2
    IndexSize = 2
    Consumer = {c1}
    Block = {b1, b2, b3}
    none = none
    garbage = garbage
    MaxTail = 7
    MaxReserved = 7
INVARIANT
    FoundEntry
PROPERTY
    Taken
