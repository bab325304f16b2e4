---------------------------- MODULE ProducerHash ----------------------------
(***************************************************************************)
(* How moodycamel::ConcurrentQueue finds the producer of the calling       *)
(* thread, or makes one (concurrentqueue.h): a hash with linear probing,   *)
(* keyed by thread, that one thread replaces by a bigger one while others  *)
(* insert, and the list of producers that consumers follow.  Old tables    *)
(* stay; a thread copies its entry to the newest one when it comes by.     *)
(*                                                                         *)
(* Each action is one access to shared memory.  No producer is ever given  *)
(* up: thread-exit notification is switched off in this build.             *)
(***************************************************************************)
EXTENDS Integers, FiniteSets, Sequences

CONSTANTS
    Thread,             \* the threads, that is, their ids
    none,               \* invalid_thread_id
    hashedId,           \* the hash of each id
    InitialCapacity     \* INITIAL_IMPLICIT_PRODUCER_HASH_SIZE

ASSUME ThreadAssumption == IsFiniteSet(Thread) /\ none \notin Thread
ASSUME HashAssumption == hashedId \in [Thread -> Nat]
ASSUME CapacityAssumption == InitialCapacity \in Nat \ {0}

VARIABLES
    tables,                     \* every ImplicitProducerHash made so far, in that order
    implicitProducerHash,       \* the one in use, by its place in tables
    implicitProducerHashCount,
    implicitProducerHashResizeInProgress,
    producerListTail,           \* a producer is the number of its making; 0 is nullptr
    producerCount,
    next,                       \* the producer each producer points at
    thread,                     \* where each thread is, and its local variables
    newCount,                   \* the newCount with which it inserts or inserted, or 0
    producer                    \* what its last call that did not fail returned, or 0

hashVars == <<implicitProducerHash, implicitProducerHashCount>>
listVars == <<producerListTail, producerCount, next>>
vars == <<tables, hashVars, implicitProducerHashResizeInProgress, listVars,
          thread, newCount, producer>>

EmptyTable(capacity, prev) ==
    [capacity |-> capacity, prev |-> prev,
     keys |-> [i \in 0 .. capacity - 1 |-> none], values |-> [i \in 0 .. capacity - 1 |-> 0]]

\* value is the local value, or producer; index is taken modulo the capacity when used.
Idle == [pc |-> "idle", mainHash |-> 1, hash |-> 1, index |-> 0, value |-> 0]

Init ==
    /\ tables = <<EmptyTable(InitialCapacity, 0)>>
    /\ implicitProducerHash = 1
    /\ implicitProducerHashCount = 0
    /\ implicitProducerHashResizeInProgress = FALSE
    /\ producerListTail = 0
    /\ producerCount = 0
    /\ next = <<>>
    /\ thread = [t \in Thread |-> Idle]
    /\ newCount = [t \in Thread |-> 0]
    /\ producer = [t \in Thread |-> 0]

At(t, pc) == [thread[t] EXCEPT !.pc = pc]
Step(t, from, local) == thread[t].pc = from /\ thread' = [thread EXCEPT ![t] = local]
Return(t, from, value) == Step(t, from, Idle) /\ producer' = [producer EXCEPT ![t] = value]

-----------------------------------------------------------------------------
(* Looking for the thread in the table in use and in those before it.      *)

LoadHash(t) ==
    /\ Step(t, "idle", [At(t, "find") EXCEPT !.mainHash = implicitProducerHash,
                            !.hash = implicitProducerHash, !.index = hashedId[t]])
    /\ UNCHANGED <<tables, hashVars, implicitProducerHashResizeInProgress, listVars,
                   newCount, producer>>

\* The slot of table h that t's index stands for.
Slot(t, h) == thread[t].index % tables[h].capacity
Key(t, h) == tables[h].keys[Slot(t, h)]

NextSlot(t) ==
    /\ Key(t, thread[t].hash) \notin {t, none}
    /\ Step(t, "find", [thread[t] EXCEPT !.index = @ + 1])
    /\ UNCHANGED producer

Found(t) ==
    LET h == thread[t].hash IN
    /\ Key(t, h) = t
    /\ IF h = thread[t].mainHash
       THEN Return(t, "find", tables[h].values[Slot(t, h)])
       ELSE /\ Step(t, "find", [At(t, "store") EXCEPT !.index = hashedId[t],
                                    !.value = tables[h].values[Slot(t, h)]])
            /\ UNCHANGED producer

\* Mutant: only the table in use is searched.
NoPrev(h) == 0

\* The table to search after table h, or 0.
Prev(h) == tables[h].prev

NotHere(t) ==
    LET prev == Prev(thread[t].hash) IN
    /\ Key(t, thread[t].hash) = none
    /\ Step(t, "find", IF prev = 0 THEN At(t, "count")
                       ELSE [thread[t] EXCEPT !.hash = prev, !.index = hashedId[t]])
    /\ UNCHANGED producer

Probe(t) ==
    /\ NextSlot(t) \/ Found(t) \/ NotHere(t)
    /\ UNCHANGED <<tables, hashVars, implicitProducerHashResizeInProgress, listVars, newCount>>

-----------------------------------------------------------------------------
(* Making room.                                                            *)

Count(t) ==
    /\ Step(t, "count", At(t, "try"))
    /\ implicitProducerHashCount' = implicitProducerHashCount + 1
    /\ newCount' = [newCount EXCEPT ![t] = implicitProducerHashCount + 1]
    /\ UNCHANGED <<tables, implicitProducerHash, implicitProducerHashResizeInProgress,
                   listVars, producer>>

\* The table is half full: it is time for a bigger one.
HalfFull(t, h) == newCount[t] >= tables[h].capacity \div 2

\* One thread at a time makes a table; the others do not wait for it.
TryToGrow(t) ==
    LET grows == HalfFull(t, thread[t].mainHash) /\ ~implicitProducerHashResizeInProgress IN
    /\ Step(t, "try", At(t, IF grows THEN "reload" ELSE "room"))
    /\ implicitProducerHashResizeInProgress' = (implicitProducerHashResizeInProgress \/ grows)
    /\ UNCHANGED <<tables, hashVars, listVars, newCount, producer>>

\* The table the thread with the lock replaces.
ToReplace(t) == implicitProducerHash

Reload(t) ==
    /\ Step(t, "reload", [At(t, IF HalfFull(t, ToReplace(t)) THEN "grow" ELSE "unlock")
                              EXCEPT !.mainHash = ToReplace(t)])
    /\ UNCHANGED <<tables, hashVars, implicitProducerHashResizeInProgress, listVars,
                   newCount, producer>>

PowerOfTwo(m) == \E i \in 0 .. m : m = 2 ^ i

\* m doublings' worth of the doubled capacity c, and no more, leave half of it free.
EnoughFor(count, c, m) == PowerOfTwo(m) /\ count < c * m /\ (m = 1 \/ count >= c * (m \div 2))

Grow(t) ==
    LET c == tables[thread[t].mainHash].capacity IN
    /\ \E m \in 1 .. 2 * newCount[t] + 2 :
          /\ EnoughFor(newCount[t], c, m)
          /\ tables' = Append(tables, EmptyTable(2 * c * m, thread[t].mainHash))
    /\ implicitProducerHash' = Len(tables) + 1
    /\ Step(t, "grow", [At(t, "unlock") EXCEPT !.mainHash = Len(tables) + 1])
    /\ UNCHANGED <<implicitProducerHashCount, implicitProducerHashResizeInProgress, listVars,
                   newCount, producer>>

\* Mutant: the lock is kept when malloc fails.
Forgets == "idle"

Unlocks == "unlockFailed"

\* malloc fails: the thread takes its count back, and then unlocks and returns nullptr.
GrowFails(t) ==
    /\ Step(t, "grow", At(t, Unlocks))
    /\ implicitProducerHashCount' = implicitProducerHashCount - 1
    /\ newCount' = [newCount EXCEPT ![t] = 0]
    /\ UNCHANGED <<tables, implicitProducerHash, implicitProducerHashResizeInProgress,
                   listVars, producer>>

Unlock(t) ==
    /\ \/ Step(t, "unlock", At(t, "room"))
       \/ Step(t, "unlockFailed", Idle)
    /\ implicitProducerHashResizeInProgress' = FALSE
    /\ UNCHANGED <<tables, hashVars, listVars, newCount, producer>>

-----------------------------------------------------------------------------
(* Inserting.                                                              *)

\* Mutant: a table is filled to the last slot.
AnyRoom(t, h) == newCount[t] <= tables[h].capacity

\* The table is less than three quarters full.
HasRoom(t, h) == newCount[t] < tables[h].capacity \div 2 + tables[h].capacity \div 4

\* Somebody else is making a bigger table.
Wait(t) ==
    /\ ~HasRoom(t, thread[t].mainHash)
    /\ Step(t, "room", [At(t, "try") EXCEPT !.mainHash = implicitProducerHash])
    /\ UNCHANGED <<tables, hashVars, implicitProducerHashResizeInProgress, listVars,
                   newCount, producer>>

\* No producer is inactive, so recycle_or_create_producer creates one.
CreateProducer(t) ==
    /\ HasRoom(t, thread[t].mainHash)
    /\ Step(t, "room", [At(t, "link") EXCEPT !.value = producerCount + 1])
    /\ producerCount' = producerCount + 1
    /\ next' = Append(next, producerListTail)
    /\ UNCHANGED <<tables, hashVars, implicitProducerHashResizeInProgress, producerListTail,
                   newCount, producer>>

CountTakenBack == implicitProducerHashCount - 1

CreateFails(t) ==
    /\ HasRoom(t, thread[t].mainHash)
    /\ Step(t, "room", Idle)
    /\ implicitProducerHashCount' = CountTakenBack
    /\ newCount' = [newCount EXCEPT ![t] = 0]
    /\ UNCHANGED <<tables, implicitProducerHash, implicitProducerHashResizeInProgress,
                   listVars, producer>>

\* Mutant: the producer is put before a tail that may have changed.
TailAsSeen(t) == TRUE

\* The compare-exchange of add_producer succeeds.
TailUnchanged(t) == producerListTail = next[thread[t].value]

Link(t) ==
    /\ Step(t, "link", [At(t, "store") EXCEPT !.index = hashedId[t]])
    /\ TailUnchanged(t)
    /\ producerListTail' = thread[t].value
    /\ UNCHANGED <<tables, hashVars, implicitProducerHashResizeInProgress, producerCount, next,
                   newCount, producer>>

LinkFails(t) ==
    /\ Step(t, "link", thread[t])
    /\ ~TailUnchanged(t)
    /\ next' = [next EXCEPT ![thread[t].value] = producerListTail]
    /\ UNCHANGED <<tables, hashVars, implicitProducerHashResizeInProgress, producerListTail,
                   producerCount, newCount, producer>>

\* Mutant: an entry is stored without asking whether its slot is empty.
AnySlot(key) == TRUE

\* The compare-exchange on a key succeeds.
Empty(key) == key = none

\* Both loops that put an entry into mainHash.  Only t looks at its value.
Store(t) ==
    LET h == thread[t].mainHash IN
    IF Empty(Key(t, h))
    THEN /\ tables' = [tables EXCEPT ![h].keys[Slot(t, h)] = t,
                                     ![h].values[Slot(t, h)] = thread[t].value]
         /\ Return(t, "store", thread[t].value)
         /\ UNCHANGED <<hashVars, implicitProducerHashResizeInProgress, listVars, newCount>>
    ELSE /\ Step(t, "store", [thread[t] EXCEPT !.index = @ + 1])
         /\ UNCHANGED <<tables, hashVars, implicitProducerHashResizeInProgress, listVars,
                        newCount, producer>>

get_or_add_implicit_producer(t) ==
    \/ Probe(t) \/ Count(t) \/ TryToGrow(t) \/ Reload(t) \/ Grow(t) \/ GrowFails(t) \/ Unlock(t)
    \/ Wait(t) \/ CreateProducer(t) \/ CreateFails(t) \/ Link(t) \/ LinkFails(t) \/ Store(t)

Next == \E t \in Thread : LoadHash(t) \/ get_or_add_implicit_producer(t)

Spec == Init /\ [][Next]_vars

\* A thread that is in the middle of a call goes on.
Fairness == \A t \in Thread : WF_vars(get_or_add_implicit_producer(t))

FairSpec == Spec /\ Fairness

-----------------------------------------------------------------------------
(* Properties.                                                             *)

Locals ==
    [pc : {"idle", "find", "count", "try", "reload", "grow", "unlock", "unlockFailed", "room",
           "link", "store"},
     mainHash : 1 .. Len(tables), hash : 1 .. Len(tables), index : Nat, value : 0 .. producerCount]

TypeOK ==
    /\ \A h \in DOMAIN tables :
          LET Slots == 0 .. tables[h].capacity - 1 IN
          tables[h] \in [capacity : Nat \ {0}, prev : 0 .. h - 1,
                         keys : [Slots -> Thread \cup {none}], values : [Slots -> 0 .. producerCount]]
    /\ implicitProducerHash \in DOMAIN tables
    /\ implicitProducerHashCount \in Nat
    /\ implicitProducerHashResizeInProgress \in BOOLEAN
    /\ producerCount \in Nat
    /\ producerListTail \in 0 .. producerCount
    /\ next \in [1 .. producerCount -> 0 .. producerCount]
    /\ thread \in [Thread -> Locals]
    /\ newCount \in [Thread -> Nat]
    /\ producer \in [Thread -> 0 .. producerCount]

\* "Not an infinite loop because at least one slot is free in the hash table": so it
\* is in every table, the old ones that threads still insert into included.
FreeSlot == \A h \in DOMAIN tables : none \in {tables[h].keys[i] : i \in DOMAIN tables[h].keys}

\* "If it's not found, it must not be in there yet": a thread that inserts itself is
\* in no table, whatever tables were added since it looked; and it never gets a second
\* entry in a table.
EntryOnce ==
    \A t \in Thread, h \in DOMAIN tables :
        LET slots == {i \in DOMAIN tables[h].keys : tables[h].keys[i] = t} IN
        /\ thread[t].pc \in {"count", "try", "reload", "grow", "unlock", "unlockFailed", "room", "link"}
              => slots = {}
        /\ \A i, j \in slots : i = j

\* Only the thread with the lock replaces the table in use, and by one that leads to
\* it: no entry gets out of reach.
TablesChained ==
    /\ implicitProducerHash = Len(tables)
    /\ \A h \in DOMAIN tables : tables[h].prev = h - 1

\* The counter that rations the slots counts the threads that have or will have an entry.
CountExact == implicitProducerHashCount = Cardinality({t \in Thread : newCount[t] > 0})

\* The tables are what the probing relies on: chained, counted and never full.
TablesRight == TypeOK /\ TablesChained /\ CountExact /\ FreeSlot

\* A thread gets the same producer from every call.
SameProducer == [][\A t \in Thread : producer[t] # 0 => producer'[t] = producer[t]]_producer

\* S holds producerListTail and what its producers point at.
Closed(S) ==
    /\ producerListTail \in S \cup {0}
    /\ \A p \in S : next[p] \in S \cup {0}

\* The producers that consumers reach from producerListTail.
Reached ==
    {p \in 1 .. producerCount : \A S \in SUBSET (1 .. producerCount) : Closed(S) => p \in S}

\* Every producer a thread has is on the list, and no two threads share one, so that
\* what is enqueued can be dequeued and each producer has one writer.
ProducersListed ==
    /\ \A t \in Thread : producer[t] # 0 => producer[t] \in Reached
    /\ \A s, t \in Thread : s # t /\ producer[s] # 0 => producer[s] # producer[t]

\* No thread waits for ever for another to make room: once no call starts, all end.
Settles ==
    <>[][~\E t \in Thread : LoadHash(t)]_vars => <>[](\A t \in Thread : thread[t].pc = "idle")
=============================================================================
