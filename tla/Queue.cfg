\* Two consumers, so that reservations fail and blocks are emptied out of order;
\* blocks of two and a ring of two entries, so that it grows; the destructor at every
\* moment when no call is under way.
SPECIFICATION TeardownSpec
CONSTANTS
    BLOCK_SIZE = 2
    IndexSize = 2
    Consumer = {c1, c2}
    Block = {b1, b2, b3}
    none = none
    garbage = garbage
    MaxTail = 5
    MaxReserved = 6
SYMMETRY QueueSymmetry
\* The bounds can leave a consumer before a reservation that they do not allow.
CHECK_DEADLOCK FALSE
INVARIANTS CountersRight BlocksRight DestroyedOnce
PROPERTY ImplementsChannel
