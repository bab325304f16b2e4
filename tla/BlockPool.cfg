\* Three threads race for the last block of the array; every capacity up to two blocks.
SPECIFICATION Spec
CONSTANTS
    Thread = {t1, t2, t3}
    BLOCK_SIZE = 2
    MaxCapacity = 4
    MaxCreated = 2
SYMMETRY ThreadSymmetry
INVARIANTS BlocksOwned DynamicFreed
