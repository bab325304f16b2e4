\* Three threads of which two collide and one is displaced, and a first table of two
\* slots of which none may be taken: the first thread makes a table of four, the
\* second one of eight, and the third may insert into either or find neither made yet.
SPECIFICATION FairSpec
CONSTANTS
    t1 = t1
    t2 = t2
    t3 = t3
    Thread = {t1, t2, t3}
    none = none
    hashedId <- Clustered
    InitialCapacity = 2
INVARIANTS
    TablesRight
    EntryOnce
    ProducersListed
PROPERTIES
    SameProducer
    Settles
