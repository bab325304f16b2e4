------------------------------ MODULE Indices ------------------------------
(***************************************************************************)
(* The arithmetic of one sub-queue of moodycamel::ConcurrentQueue when its *)
(* indices come round: index_t is an unsigned number of limited width, and *)
(* the counters, the size, the test for room and the position in the block *)
(* index are all computed modulo 2^w.                                      *)
(*                                                                         *)
(* The steps are coarser than those of module ImplicitQueue, which has the *)
(* interleavings and indices without end; what is kept apart here is what  *)
(* makes a number old when it is used: the head that the producer loaded,  *)
(* and the failed reservations that a consumer loaded.                     *)
(***************************************************************************)
EXTENDS Integers, FiniteSets

CONSTANTS
    Half,               \* 2^(w-1), half of the values of index_t
    BLOCK_SIZE,         \* elements per block, a power of two
    InitialCapacity,    \* IMPLICIT_INITIAL_INDEX_SIZE, a power of two
    Consumer,           \* the threads that dequeue
    MaxStale            \* bound: how many reservations fail during one dequeue

ASSUME WidthsAssumption ==
    /\ \A n \in {Half, BLOCK_SIZE, InitialCapacity} : n \in Nat \ {0, 1}
    /\ IsFiniteSet(Consumer) /\ MaxStale \in Nat /\ MaxStale + Cardinality(Consumer) < Half

\* Only of a power of two can every part that divides it be doubled.
ASSUME PowersOfTwoAssumption ==
    LET n == (2 * Half) \div BLOCK_SIZE
    IN  /\ Half % BLOCK_SIZE = 0 /\ (Half \div BLOCK_SIZE) % InitialCapacity = 0
        /\ \A d \in 1 .. n - 1 : n % d = 0 => n % (2 * d) = 0

Width == 2 * Half
Index == 0 .. Width - 1
INVALID_BLOCK_BASE == 1

Plus(a, b) == (a + b) % Width
Minus(a, b) == (a - b) % Width
Base(i) == i - (i % BLOCK_SIZE)

circular_less_than(a, b) == Minus(a, b) > Half

VARIABLES
    tailIndex, headIndex, dequeueOptimisticCount, dequeueOvercommit,
    ring,       \* the current BlockIndexHeader: its entries, oldest first from tail + 1
    ringTail,   \* its tail
    producer,   \* the producing thread: pc, and the head it loaded
    consumer,   \* the consuming threads: pc, and the overcommit they loaded
    size        \* how many messages there are (not in the code)

vars == <<tailIndex, headIndex, dequeueOptimisticCount, dequeueOvercommit, ring, ringTail,
          producer, consumer, size>>

EmptyEntry == [key |-> INVALID_BLOCK_BASE, held |-> FALSE]

Init ==
    /\ tailIndex = 0 /\ headIndex = 0
    /\ dequeueOptimisticCount = 0 /\ dequeueOvercommit = 0
    /\ ring = [p \in 0 .. InitialCapacity - 1 |-> EmptyEntry]
    /\ ringTail = InitialCapacity - 1
    /\ producer = [pc |-> "idle", head |-> 0]
    /\ consumer = [c \in Consumer |-> [pc |-> "idle", overcommit |-> 0]]
    /\ size = 0

-----------------------------------------------------------------------------
(* ImplicitProducer::enqueue                                               *)

Capacity == Cardinality(DOMAIN ring)
NextSlot == (ringTail + 1) % Capacity
SlotFree == ring[NextSlot].key = INVALID_BLOCK_BASE \/ ~ring[NextSlot].held

\* Mutant: there is room if the next element has room, not the whole block.
RoomForOne(head) == circular_less_than(head, Plus(tailIndex, 1))

\* A block more, and the head is still behind the tail.
Room(head) == circular_less_than(head, Plus(tailIndex, BLOCK_SIZE))

ElementIn ==
    /\ tailIndex' = Plus(tailIndex, 1)
    /\ size' = size + 1

EnqueueInBlock ==
    /\ producer.pc = "idle" /\ tailIndex % BLOCK_SIZE # 0
    /\ ElementIn
    /\ UNCHANGED <<headIndex, dequeueOptimisticCount, dequeueOvercommit, ring, ringTail,
                   producer, consumer>>

LoadHead ==
    /\ producer.pc = "idle" /\ tailIndex % BLOCK_SIZE = 0
    /\ producer' = [pc |-> "insert", head |-> headIndex]
    /\ UNCHANGED <<tailIndex, headIndex, dequeueOptimisticCount, dequeueOvercommit, ring,
                   ringTail, consumer, size>>

\* The queue cannot have more, or there is no memory for the block: the entry
\* made for it has no block, and the ring's tail is where it was.
EnqueueFails ==
    /\ producer.pc = "insert"
    /\ producer' = [producer EXCEPT !.pc = "idle"]
    /\ \/ UNCHANGED ring
       \/ /\ Room(producer.head) /\ SlotFree
          /\ ring' = [ring EXCEPT ![NextSlot] = [key |-> tailIndex, held |-> FALSE]]
    /\ UNCHANGED <<tailIndex, headIndex, dequeueOptimisticCount, dequeueOvercommit, ringTail,
                   consumer, size>>

EnqueueInNewBlock ==
    /\ producer.pc = "insert" /\ Room(producer.head) /\ SlotFree
    /\ producer' = [producer EXCEPT !.pc = "idle"]
    /\ ring' = [ring EXCEPT ![NextSlot] = [key |-> tailIndex, held |-> TRUE]]
    /\ ringTail' = NextSlot
    /\ ElementIn
    /\ UNCHANGED <<headIndex, dequeueOptimisticCount, dequeueOvercommit, consumer>>

\* The old entries are copied oldest first, and as many new ones follow.
new_block_index ==
    /\ producer.pc = "insert" /\ Room(producer.head) /\ ~SlotFree
    /\ ring' = [p \in 0 .. 2 * Capacity - 1 |->
                   IF p < Capacity THEN ring[(ringTail + 1 + p) % Capacity] ELSE EmptyEntry]
    /\ ringTail' = Capacity - 1
    /\ UNCHANGED <<tailIndex, headIndex, dequeueOptimisticCount, dequeueOvercommit, producer,
                   consumer, size>>

enqueue ==
    EnqueueInBlock \/ LoadHead \/ EnqueueFails \/ EnqueueInNewBlock \/ new_block_index

-----------------------------------------------------------------------------
(* ImplicitProducer::dequeue, by consumer c, and its lookup                *)

\* Mutant: the offset of an older block loses what it owes to the wrap.
SignlessOffset(i) ==
    LET tailBase == ring[ringTail].key
    IN  (IF Base(i) >= tailBase THEN Base(i) - tailBase ELSE tailBase - Base(i)) \div BLOCK_SIZE

\* A comment of the lookup says that a division is used "because the index may wrap
\* around, causing a negative offset, whose negativity we want to preserve".  It is not
\* preserved: BLOCK_SIZE is a size_t, to which the signed difference is converted
\* before it is divided.  Position comes out right all the same.
Offset(i) == Minus(Base(i), ring[ringTail].key) \div BLOCK_SIZE

\* get_block_index_index_for_index
Position(i) == (ringTail + Offset(i)) % Capacity

LooksThere(overcommit) ==
    circular_less_than(Minus(dequeueOptimisticCount, overcommit), tailIndex)

Check(c) ==
    /\ consumer[c].pc = "idle" /\ LooksThere(dequeueOvercommit)
    /\ consumer' = [consumer EXCEPT ![c] = [pc |-> "reserve", overcommit |-> dequeueOvercommit]]
    /\ UNCHANGED <<tailIndex, headIndex, dequeueOptimisticCount, dequeueOvercommit, ring,
                   ringTail, producer, size>>

\* Mutant: the second test is left out.
ReservedAnyway(c) == TRUE

\* The second test, with the tail as it is and the overcommit as it was.
Reserved(c) == LooksThere(consumer[c].overcommit)

Reserve(c) ==
    /\ consumer[c].pc = "reserve"
    /\ dequeueOptimisticCount' = Plus(dequeueOptimisticCount, 1)
    /\ consumer' = [consumer EXCEPT ![c].pc = IF Reserved(c) THEN "claim" ELSE "undo"]
    /\ UNCHANGED <<tailIndex, headIndex, dequeueOvercommit, ring, ringTail, producer, size>>

Stale(c) == Minus(dequeueOvercommit, consumer[c].overcommit)

Undo(c) ==
    /\ consumer[c].pc = "undo"
    /\ \A d \in Consumer : consumer[d].pc = "reserve" => Stale(d) < MaxStale
    /\ dequeueOvercommit' = Plus(dequeueOvercommit, 1)
    /\ consumer' = [consumer EXCEPT ![c] = [pc |-> "idle", overcommit |-> 0]]
    /\ UNCHANGED <<tailIndex, headIndex, dequeueOptimisticCount, ring, ringTail, producer, size>>

\* The last element of a block is dequeued, and its entry is free.
Claim(c) ==
    /\ consumer[c].pc = "claim"
    /\ headIndex' = Plus(headIndex, 1)
    /\ size' = size - 1
    /\ ring' = [ring EXCEPT ![Position(headIndex)].held =
                                @ /\ headIndex % BLOCK_SIZE # BLOCK_SIZE - 1]
    /\ consumer' = [consumer EXCEPT ![c] = [pc |-> "idle", overcommit |-> 0]]
    /\ UNCHANGED <<tailIndex, dequeueOptimisticCount, dequeueOvercommit, ringTail, producer>>

dequeue(c) == Check(c) \/ Reserve(c) \/ Undo(c) \/ Claim(c)

-----------------------------------------------------------------------------
Next == enqueue \/ \E c \in Consumer : dequeue(c)

Spec == Init /\ [][Next]_vars

size_approx ==
    IF circular_less_than(headIndex, tailIndex) THEN Minus(tailIndex, headIndex) ELSE 0

-----------------------------------------------------------------------------
(* Properties.                                                             *)

\* Types, and no more than half of the indices in use at any time.
TypeOK ==
    /\ {tailIndex, headIndex, dequeueOptimisticCount, dequeueOvercommit} \subseteq Index
    /\ ringTail \in DOMAIN ring
    /\ Capacity * BLOCK_SIZE <= Width
    /\ \A p \in DOMAIN ring : ring[p].key \in Index /\ ring[p].held \in BOOLEAN
    /\ size \in 0 .. Half - 1

\* The size the queue tells, on which every call of try_dequeue depends, is that
\* of the queue, wherever the indices have come round and however full it is.
SizeRight == size_approx = size

\* There is room until half of the indices are in use, whatever they are: an
\* enqueue that saw the newest head and failed would fail for ever.
RoomUntilHalf == size + BLOCK_SIZE < Half => Room(headIndex)

\* What the indices say of the queue is true on both sides of the wrap.
NumbersRight == TypeOK /\ SizeRight /\ RoomUntilHalf

\* No more messages are claimed than there are, although the numbers compared
\* are differences modulo 2^w and one of them is old.
ClaimsBacked == Cardinality({c \in Consumer : consumer[c].pc = "claim"}) <= size

\* The assertion of the lookup: every message that is there is found in the entry
\* of its own block, also when its index and that of the newest block lie on two
\* sides of the wrap.
FoundEntry ==
    \A k \in 0 .. size - 1 :
        LET i == Plus(headIndex, k)
        IN  ring[Position(i)] = [key |-> Base(i), held |-> TRUE]
=============================================================================
