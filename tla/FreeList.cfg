\* Three threads and two nodes: one thread in try_get, one that takes and gives
\* back, one that adds.
SPECIFICATION FairSpec
CONSTANTS
    Thread = {t1, t2, t3}
    Node = {n1, n2}
    none = none
INVARIANTS
    ListRight
    NothingLost
PROPERTIES
    ImplementsPool
    Settles
