----------------------------- MODULE BlockPool -----------------------------
(***************************************************************************)
(* Where the blocks of moodycamel::ConcurrentQueue come from and where     *)
(* they end (concurrentqueue.h): requisition_block takes one from an array *)
(* made with the queue, then from the free list, then from the allocator,  *)
(* and ~ConcurrentQueue frees them.  Each action is one access to memory   *)
(* that threads share; the free list is a set (module FreeList shows why). *)
(***************************************************************************)
EXTENDS Integers, FiniteSets

CONSTANTS
    Thread,         \* the threads that enqueue, and give blocks back
    BLOCK_SIZE,     \* elements per block
    MaxCapacity,    \* bound: the capacities a queue is made for
    MaxCreated      \* bound: how many blocks the allocator has

ASSUME PoolAssumption ==
    /\ IsFiniteSet(Thread) /\ Thread # {}
    /\ BLOCK_SIZE \in Nat \ {0} /\ MaxCapacity \in Nat /\ MaxCreated \in Nat

VARIABLES
    capacity,               \* the capacity the queue was made for
    initialBlockPoolSize,
    initialBlockPoolIndex,
    freeList,               \* the blocks on the free list
    created,                \* how many blocks were dynamically allocated
    pc,                     \* where each thread is in requisition_block
    held,                   \* the blocks in each thread's sub-queue
    destroyed               \* the blocks ~ConcurrentQueue freed one by one, once it ran

vars == <<capacity, initialBlockPoolSize, initialBlockPoolIndex, freeList, created, pc, held,
          destroyed>>

\* Blocks by number: those of the array first, and then those allocated.
dynamicallyAllocated(b) == b >= initialBlockPoolSize

alive == -1     \* destroyed, while the queue is not destroyed

\* The blocks the constructor asks for.
BlocksFor(n) == n \div BLOCK_SIZE + (IF n % BLOCK_SIZE = 0 THEN 0 ELSE 1)

\* populate_initial_block_list; the array may not be had.
Init ==
    /\ capacity \in 0 .. MaxCapacity
    /\ initialBlockPoolSize \in {0, BlocksFor(capacity)}
    /\ initialBlockPoolIndex = 0
    /\ freeList = {}
    /\ created = 0
    /\ pc = [t \in Thread |-> "idle"]
    /\ held = [t \in Thread |-> {}]
    /\ destroyed = {alive}

-----------------------------------------------------------------------------
(* requisition_block and add_block_to_free_list, by thread t.              *)

Goto(t, from, to) == pc[t] = from /\ pc' = [pc EXCEPT ![t] = to]

Gets(t, b) == held' = [held EXCEPT ![t] = @ \cup {b}]

PoolHasMore == initialBlockPoolIndex < initialBlockPoolSize

LoadIndex(t) ==
    /\ destroyed = {alive}
    /\ Goto(t, "idle", IF PoolHasMore THEN "add" ELSE "list")
    /\ UNCHANGED <<capacity, initialBlockPoolSize, initialBlockPoolIndex, freeList, created,
                   held, destroyed>>

\* Mutant: the old value of the index is not compared again.
OldIndexAnyway == TRUE

\* The value fetch_add returns is an index into the array.
OldIndexInPool == initialBlockPoolIndex < initialBlockPoolSize

AddIndex(t) ==
    /\ initialBlockPoolIndex' = initialBlockPoolIndex + 1
    /\ \/ Goto(t, "add", "idle") /\ OldIndexInPool /\ Gets(t, initialBlockPoolIndex)
       \/ Goto(t, "add", "list") /\ ~OldIndexInPool /\ UNCHANGED held
    /\ UNCHANGED <<capacity, initialBlockPoolSize, freeList, created, destroyed>>

\* A block that was just given back may not be in the list yet, and the call may
\* find it empty although the set is not.
TryFreeList(t) ==
    /\ \/ Goto(t, "list", "create") /\ UNCHANGED <<freeList, held>>
       \/ \E b \in freeList :
            Goto(t, "list", "idle") /\ Gets(t, b) /\ freeList' = freeList \ {b}
    /\ UNCHANGED <<capacity, initialBlockPoolSize, initialBlockPoolIndex, created, destroyed>>

\* create<Block>, which may return nullptr.
Create(t) ==
    /\ Goto(t, "create", "idle")
    /\ \/ UNCHANGED <<created, held>>
       \/ /\ created < MaxCreated
          /\ created' = created + 1
          /\ Gets(t, initialBlockPoolSize + created)
    /\ UNCHANGED <<capacity, initialBlockPoolSize, initialBlockPoolIndex, freeList, destroyed>>

\* Whoever dequeued the last element of a block gives it back, also while the
\* thread that filled it takes another.
Release(t) ==
    /\ \E b \in held[t] :
        /\ held' = [held EXCEPT ![t] = @ \ {b}]
        /\ freeList' = freeList \cup {b}
    /\ UNCHANGED <<capacity, initialBlockPoolSize, initialBlockPoolIndex, created, pc, destroyed>>

-----------------------------------------------------------------------------
\* Mutant: no look at dynamicallyAllocated.
FreeListWhole == freeList

\* The blocks ~ConcurrentQueue frees as it goes along the free list.
FreedOneByOne == {b \in freeList : dynamicallyAllocated(b)}

\* ~ConcurrentQueue, once no call is under way and the producers have given their
\* blocks back (module Teardown).  The array is freed as one after that.
Destroy ==
    /\ destroyed = {alive}
    /\ \A t \in Thread : pc[t] = "idle" /\ held[t] = {}
    /\ destroyed' = FreedOneByOne
    /\ UNCHANGED <<capacity, initialBlockPoolSize, initialBlockPoolIndex, freeList, created, pc,
                   held>>

Over == destroyed # {alive} /\ UNCHANGED vars

Next ==
    \/ \E t \in Thread :
        LoadIndex(t) \/ AddIndex(t) \/ TryFreeList(t) \/ Create(t) \/ Release(t)
    \/ Destroy \/ Over

Spec == Init /\ [][Next]_vars

-----------------------------------------------------------------------------
(* Properties.                                                             *)

\* Types, and what the constructor promises: room for capacity elements without
\* allocation, unless even the array could not be had.
TypeOK ==
    /\ capacity \in 0 .. MaxCapacity
    /\ initialBlockPoolSize \in Nat /\ initialBlockPoolIndex \in Nat
    /\ initialBlockPoolSize # 0 => initialBlockPoolSize * BLOCK_SIZE >= capacity
    /\ freeList \in SUBSET Nat
    /\ created \in 0 .. MaxCreated
    /\ pc \in [Thread -> {"idle", "add", "list", "create"}]
    /\ held \in [Thread -> SUBSET Nat]
    /\ destroyed = {alive} \/ destroyed \in SUBSET Nat

\* Each block has one owner: a thread, or the free list.
OneOwner ==
    \A t \in Thread :
        /\ held[t] \cap freeList = {}
        /\ \A u \in Thread \ {t} : held[t] \cap held[u] = {}

\* A block a thread has is one of the array or one that was allocated.
BlocksExist ==
    \A t \in Thread : \A b \in held[t] :
        IF dynamicallyAllocated(b) THEN b < initialBlockPoolSize + created
                                   ELSE b < initialBlockPoolIndex

\* The index goes past the array by the threads that raced for its last block and
\* no further: if it went on it would wrap, and blocks would be given out again.
IndexStops == initialBlockPoolIndex < initialBlockPoolSize + Cardinality(Thread)

\* No block is given to two threads or given out that does not exist.
BlocksOwned == TypeOK /\ OneOwner /\ BlocksExist /\ IndexStops

\* The allocator is asked only after all of the array was given out.
ArrayFirst == created > 0 => initialBlockPoolIndex >= initialBlockPoolSize

\* With the queue, every block that was allocated is freed once by itself, and none
\* of the array is.
DynamicFreed ==
    destroyed # {alive} =>
        destroyed = initialBlockPoolSize .. initialBlockPoolSize + created - 1
=============================================================================
