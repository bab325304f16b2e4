--------------------------- MODULE ImplicitQueue ---------------------------
(***************************************************************************)
(* One sub-queue of moodycamel::ConcurrentQueue (concurrentqueue.h), the   *)
(* ImplicitProducer of the MQTT client's thread, which alone enqueues, and *)
(* the threads that dequeue.  Each action is one access to memory that     *)
(* threads share; the accesses are taken to be sequentially consistent.    *)
(*                                                                         *)
(* Elements live in blocks of BLOCK_SIZE.  The block index tells consumers *)
(* which block an element is in: a ring of entries (key, value) that the   *)
(* producer replaces by one of twice the size when it is full.  Blocks     *)
(* come from a pool (the free list and the allocator, module FreeList).    *)
(* Messages are known by their number, which is also their index.          *)
(***************************************************************************)
EXTENDS Integers, Sequences, FiniteSets

CONSTANTS
    BLOCK_SIZE,     \* elements per block
    IndexSize,      \* IMPLICIT_INITIAL_INDEX_SIZE
    Consumer,       \* the threads that dequeue
    Block,          \* the blocks there can be
    none,           \* nullptr, as a Block*
    garbage,        \* the value of an entry that was never stored to
    MaxTail,        \* bound: how many messages are enqueued
    MaxReserved     \* bound: how many reservations are made

ASSUME SizesAssumption ==
    /\ BLOCK_SIZE \in Nat \ {0, 1}
    /\ IndexSize \in Nat \ {0}
    /\ IsFiniteSet(Consumer)
    /\ none \notin Block \cup {garbage} /\ garbage \notin Block
    /\ MaxTail \in Nat /\ MaxReserved \in Nat

Nil == -1
INVALID_BLOCK_BASE == 1

\* The first index of the block that index i belongs to.
Base(i) == i - (i % BLOCK_SIZE)

VARIABLES
    tailIndex, headIndex, dequeueOptimisticCount, dequeueOvercommit,
    blockIndex,     \* the current BlockIndexHeader, a position in headers
    headers,        \* every header made: its tail and its ring of entries
    entries,        \* every BlockIndexEntry made: key and value
    elements,       \* elements[b][j]: the message in slot j of block b, or Nil
    dequeued,       \* dequeued[b]: elementsCompletelyDequeued
    free,           \* the blocks in the pool
    producer,       \* the producing thread: pc, slot, tailBlock
    consumer,       \* the consuming threads: pc and local variables
    got             \* got[c]: the message c dequeued last

counters == <<tailIndex, headIndex, dequeueOptimisticCount, dequeueOvercommit>>
index == <<blockIndex, headers, entries>>
blocks == <<elements, dequeued, free>>
vars == <<counters, index, blocks, producer, consumer, got>>

\* new_block_index, with no header before: IndexSize empty entries.
FirstHeader == [tail |-> IndexSize - 1, ring |-> [i \in 0 .. IndexSize - 1 |-> i]]
EmptyEntry == [key |-> INVALID_BLOCK_BASE, value |-> garbage]
Idle == [pc |-> "idle", tail |-> 0, overcommit |-> 0, index |-> 0, header |-> 1,
         headerTail |-> 0, entry |-> 0, block |-> none]

Init ==
    /\ tailIndex = 0 /\ headIndex = 0
    /\ dequeueOptimisticCount = 0 /\ dequeueOvercommit = 0
    /\ blockIndex = 1
    /\ headers = <<FirstHeader>>
    /\ entries = [i \in 0 .. IndexSize - 1 |-> EmptyEntry]
    /\ elements = [b \in Block |-> [j \in 0 .. BLOCK_SIZE - 1 |-> Nil]]
    /\ dequeued = [b \in Block |-> 0]
    /\ free = Block
    /\ producer = [pc |-> "idle", slot |-> 0, tailBlock |-> none]
    /\ consumer = [c \in Consumer |-> Idle]
    /\ got = [c \in Consumer |-> Nil]

-----------------------------------------------------------------------------
(* ImplicitProducer::enqueue                                               *)

Capacity(h) == Cardinality(DOMAIN headers[h].ring)
NewTail == (headers[blockIndex].tail + 1) % Capacity(blockIndex)
NextSlot == headers[blockIndex].ring[NewTail]

ProducerAt(from, to) == producer.pc = from /\ producer' = [producer EXCEPT !.pc = to]

StartEnqueue ==
    /\ tailIndex < MaxTail
    /\ ProducerAt("idle", IF tailIndex % BLOCK_SIZE = 0 THEN "key" ELSE "construct")
    /\ UNCHANGED <<counters, index, blocks, consumer, got>>

\* insert_block_index_entry may use an entry that has no block.
SlotFree(e) == entries[e].key = INVALID_BLOCK_BASE \/ entries[e].value = none

StoreKey ==
    /\ SlotFree(NextSlot)
    /\ producer.pc = "key"
    /\ producer' = [producer EXCEPT !.pc = "tail", !.slot = NextSlot]
    /\ entries' = [entries EXCEPT ![NextSlot].key = tailIndex]
    /\ UNCHANGED <<counters, blockIndex, headers, blocks, consumer, got>>

\* Mutant: the old entries are copied in the order of the array, not from the
\* oldest one on.
GrownRingUnrotated ==
    LET old == headers[blockIndex]
        n == Capacity(blockIndex)
    IN  [i \in 0 .. 2 * n - 1 |->
            IF i < n THEN old.ring[i] ELSE Cardinality(DOMAIN entries) + i - n]

\* The ring of new_block_index: the old entries, oldest first, and as many new.
GrownRing ==
    LET old == headers[blockIndex]
        n == Capacity(blockIndex)
    IN  [i \in 0 .. 2 * n - 1 |->
            IF i < n
            THEN old.ring[(old.tail + 1 + i) % n]
            ELSE Cardinality(DOMAIN entries) + i - n]

\* The ring is full: a larger header is made and published.
new_block_index ==
    /\ ~SlotFree(NextSlot)
    /\ ProducerAt("key", "key")
    /\ headers' = Append(headers, [tail |-> Capacity(blockIndex) - 1, ring |-> GrownRing])
    /\ entries' = [e \in 0 .. Cardinality(DOMAIN entries) + Capacity(blockIndex) - 1 |->
                      IF e \in DOMAIN entries THEN entries[e] ELSE EmptyEntry]
    /\ blockIndex' = blockIndex + 1
    /\ UNCHANGED <<counters, blocks, consumer, got>>

StoreTail ==
    /\ ProducerAt("tail", "requisition")
    /\ headers' = [headers EXCEPT ![blockIndex].tail = NewTail]
    /\ UNCHANGED <<counters, blockIndex, entries, blocks, consumer, got>>

reset_empty(b) == [dequeued EXCEPT ![b] = 0]

\* requisition_block and reset_empty
Requisition ==
    /\ producer.pc = "requisition"
    /\ \E b \in free :
        /\ free' = free \ {b}
        /\ dequeued' = reset_empty(b)
        /\ producer' = [producer EXCEPT !.pc = "value", !.tailBlock = b]
    /\ UNCHANGED <<counters, index, elements, consumer, got>>

\* There is no memory for a larger header, and enqueue returns false.
IndexFails ==
    /\ ~SlotFree(NextSlot)
    /\ ProducerAt("key", "idle")
    /\ UNCHANGED <<counters, index, blocks, consumer, got>>

\* There is no block and no memory for one: rewind_block_index_tail, and then
\* the entry is given a value, so that it can be used again.
RequisitionFails ==
    /\ ProducerAt("requisition", "reset")
    /\ headers' = [headers EXCEPT ![blockIndex].tail = (@ - 1) % Capacity(blockIndex)]
    /\ UNCHANGED <<counters, blockIndex, entries, blocks, consumer, got>>

ResetEntry ==
    /\ ProducerAt("reset", "idle")
    /\ entries' = [entries EXCEPT ![producer.slot].value = none]
    /\ UNCHANGED <<counters, blockIndex, headers, blocks, consumer, got>>

StoreValue ==
    /\ ProducerAt("value", "construct")
    /\ entries' = [entries EXCEPT ![producer.slot].value = producer.tailBlock]
    /\ UNCHANGED <<counters, blockIndex, headers, blocks, consumer, got>>

Construct ==
    /\ ProducerAt("construct", "publish")
    /\ elements' = [elements EXCEPT ![producer.tailBlock][tailIndex % BLOCK_SIZE] = tailIndex]
    /\ UNCHANGED <<counters, index, dequeued, free, consumer, got>>

Publish ==
    /\ ProducerAt("publish", "idle")
    /\ tailIndex' = tailIndex + 1
    /\ UNCHANGED <<headIndex, dequeueOptimisticCount, dequeueOvercommit, index, blocks,
                   consumer, got>>

enqueue ==
    \/ StartEnqueue \/ StoreKey \/ new_block_index \/ IndexFails \/ StoreTail
    \/ Requisition \/ RequisitionFails \/ ResetEntry
    \/ StoreValue \/ Construct \/ Publish

-----------------------------------------------------------------------------
(* try_dequeue and ImplicitProducer::dequeue, by consumer c.               *)

\* Consumer c at another place, with its locals, which a call that returns drops.
At(c, pc) == IF pc = "idle" THEN Idle ELSE [consumer[c] EXCEPT !.pc = pc]

\* Consumer c goes from one place to another, or goes on with changed locals.
StepWith(c, from, local) == consumer[c].pc = from /\ consumer' = [consumer EXCEPT ![c] = local]
Step(c, from, to) == StepWith(c, from, At(c, to))

\* size_approx loads tailIndex, then headIndex.
SizeTail(c) ==
    /\ StepWith(c, "idle", [At(c, "size") EXCEPT !.tail = tailIndex])
    /\ UNCHANGED <<counters, index, blocks, producer, got>>

SizeHead(c) ==
    /\ Step(c, "size", IF headIndex < consumer[c].tail THEN "tail" ELSE "idle")
    /\ UNCHANGED <<counters, index, blocks, producer, got>>

LoadTail(c) ==
    /\ StepWith(c, "tail", [At(c, "overcommit") EXCEPT !.tail = tailIndex])
    /\ UNCHANGED <<counters, index, blocks, producer, got>>

LoadOvercommit(c) ==
    /\ StepWith(c, "overcommit", [At(c, "count") EXCEPT !.overcommit = dequeueOvercommit])
    /\ UNCHANGED <<counters, index, blocks, producer, got>>

\* Mutant: the last message counts as not there.
LooksThereEarly(c) == dequeueOptimisticCount - consumer[c].overcommit < consumer[c].tail - 1

\* There seems to be a message that is not yet reserved.
LooksThere(c) == dequeueOptimisticCount - consumer[c].overcommit < consumer[c].tail

LoadCount(c) ==
    /\ Step(c, "count", IF LooksThere(c) THEN "reserve" ELSE "idle")
    /\ UNCHANGED <<counters, index, blocks, producer, got>>

\* myDequeueCount is kept in the local variable index.
Reserve(c) ==
    /\ dequeueOptimisticCount < MaxReserved
    /\ StepWith(c, "reserve", [At(c, "recheck") EXCEPT !.index = dequeueOptimisticCount])
    /\ dequeueOptimisticCount' = dequeueOptimisticCount + 1
    /\ UNCHANGED <<tailIndex, headIndex, dequeueOvercommit, index, blocks, producer, got>>

\* Mutant: the reservation is not checked against tailIndex again.
ReservedUnchecked(c) == TRUE

\* The reservation of c is for a message that is there.
Reserved(c) == consumer[c].index - consumer[c].overcommit < tailIndex

Recheck(c) ==
    /\ Step(c, "recheck", IF Reserved(c) THEN "claim" ELSE "undo")
    /\ UNCHANGED <<counters, index, blocks, producer, got>>

\* Mutant: a failed reservation is not given back.
Undone == dequeueOvercommit

\* dequeueOvercommit after a failed reservation.
AfterUndo == dequeueOvercommit + 1

Undo(c) ==
    /\ Step(c, "undo", "idle")
    /\ dequeueOvercommit' = AfterUndo
    /\ UNCHANGED <<tailIndex, headIndex, dequeueOptimisticCount, index, blocks, producer, got>>

Claim(c) ==
    /\ StepWith(c, "claim", [At(c, "header") EXCEPT !.index = headIndex])
    /\ headIndex' = headIndex + 1
    /\ UNCHANGED <<tailIndex, dequeueOptimisticCount, dequeueOvercommit, index, blocks,
                   producer, got>>

\* get_block_index_index_for_index loads blockIndex, its tail, and that key.
LoadHeader(c) ==
    /\ StepWith(c, "header", [At(c, "headerTail") EXCEPT !.header = blockIndex])
    /\ UNCHANGED <<counters, index, blocks, producer, got>>

LoadHeaderTail(c) ==
    /\ StepWith(c, "headerTail",
                [At(c, "tailKey") EXCEPT !.headerTail = headers[consumer[c].header].tail])
    /\ UNCHANGED <<counters, index, blocks, producer, got>>

\* The position in header h of the entry for index i, seen from the key at tail t.
Position(h, t, i) ==
    LET tailBase == entries[headers[h].ring[t]].key
    IN  (t + (Base(i) - tailBase) \div BLOCK_SIZE) % Capacity(h)

LoadTailKey(c) ==
    LET l == consumer[c]
        h == l.header
    IN  /\ StepWith(c, "tailKey",
                    [At(c, "value") EXCEPT
                        !.entry = headers[h].ring[Position(h, l.headerTail, l.index)]])
        /\ UNCHANGED <<counters, index, blocks, producer, got>>

LoadValue(c) ==
    /\ StepWith(c, "value", [At(c, "move") EXCEPT !.block = entries[consumer[c].entry].value])
    /\ UNCHANGED <<counters, index, blocks, producer, got>>

\* The element is moved out of its block and destroyed.
Move(c) ==
    LET l == consumer[c]
        slot == l.index % BLOCK_SIZE
    IN  /\ Step(c, "move", "empty")
        /\ got' = [got EXCEPT ![c] = elements[l.block][slot]]
        /\ elements' = [elements EXCEPT ![l.block][slot] = Nil]
        /\ UNCHANGED <<counters, index, dequeued, free, producer>>

\* Mutant: set_empty reports a block empty one element too early.
LastElementEarly(b) == dequeued[b] = BLOCK_SIZE - 2

\* The element that set_empty counts is the last one of the block.
LastElement(b) == dequeued[b] = BLOCK_SIZE - 1

SetEmpty(c) ==
    LET b == consumer[c].block
    IN  /\ Step(c, "empty", IF LastElement(b) THEN "clear" ELSE "idle")
        /\ dequeued' = [dequeued EXCEPT ![b] = @ + 1]
        /\ UNCHANGED <<counters, index, elements, free, producer, got>>

ClearValue(c) ==
    /\ Step(c, "clear", "release")
    /\ entries' = [entries EXCEPT ![consumer[c].entry].value = none]
    /\ UNCHANGED <<counters, blockIndex, headers, blocks, producer, got>>

Release(c) ==
    /\ Step(c, "release", "idle")
    /\ free' = free \cup {consumer[c].block}
    /\ UNCHANGED <<counters, index, elements, dequeued, producer, got>>

dequeue(c) ==
    \/ SizeTail(c) \/ SizeHead(c) \/ LoadTail(c) \/ LoadOvercommit(c) \/ LoadCount(c)
    \/ Reserve(c) \/ Recheck(c) \/ Undo(c) \/ Claim(c)
    \/ LoadHeader(c) \/ LoadHeaderTail(c) \/ LoadTailKey(c) \/ LoadValue(c)
    \/ Move(c) \/ SetEmpty(c) \/ ClearValue(c) \/ Release(c)

-----------------------------------------------------------------------------
Next == enqueue \/ \E c \in Consumer : dequeue(c)

Spec == Init /\ [][Next]_vars

\* A thread that dequeues is never stopped for ever, and tries again and again.
Fairness == \A c \in Consumer : WF_vars(dequeue(c))

FairSpec == Spec /\ Fairness

-----------------------------------------------------------------------------
(* Properties.                                                             *)

TypeOK ==
    /\ {tailIndex, headIndex, dequeueOptimisticCount, dequeueOvercommit} \subseteq Nat
    /\ blockIndex \in DOMAIN headers
    /\ \A h \in DOMAIN headers :
        /\ headers[h].tail \in DOMAIN headers[h].ring
        /\ \A i \in DOMAIN headers[h].ring : headers[h].ring[i] \in DOMAIN entries
    /\ \A e \in DOMAIN entries : entries[e].value \in Block \cup {none, garbage}
    /\ free \subseteq Block
    /\ \A b \in Block : dequeued[b] \in 0 .. BLOCK_SIZE
    /\ got \in [Consumer -> Nat \cup {Nil}]

\* No consumer claims a message that is not there: the counters of optimistic
\* and failed reservations never let headIndex pass tailIndex.
HeadBehindTail == headIndex <= tailIndex

\* Every reservation is used, given back, or still held: one that failed and was
\* forgotten would hide the newest message from every later call.
Reservations ==
    dequeueOptimisticCount - dequeueOvercommit =
        headIndex + Cardinality({c \in Consumer :
                                    consumer[c].pc \in {"recheck", "undo", "claim"}})

\* The counters that consumers correct after the fact are right together.
CountersRight == HeadBehindTail /\ Reservations

\* The assertions of get_block_index_index_for_index: whatever the producer did
\* to the ring meanwhile, the entry a consumer found is the one of its index and
\* keeps its block until the consumer has dequeued from it.
FoundEntry ==
    \A c \in Consumer :
        consumer[c].pc \in {"value", "move", "empty"} =>
            LET e == entries[consumer[c].entry]
            IN  /\ e.key = Base(consumer[c].index)
                /\ e.value \in Block
                /\ consumer[c].pc # "value" => e.value = consumer[c].block

\* A block is given back only when nobody uses it: none in the pool is in the
\* block index, is being filled or dequeued from, or holds a message.
FreeIsUnused ==
    \A b \in free :
        /\ \A e \in DOMAIN entries : entries[e].value # b
        /\ \A c \in Consumer : consumer[c].pc \in {"move", "empty", "clear", "release"} =>
                                   consumer[c].block # b
        /\ producer.pc \in {"value", "construct", "publish"} => producer.tailBlock # b
        /\ \A j \in 0 .. BLOCK_SIZE - 1 : elements[b][j] = Nil

\* Blocks are found, kept and given back as the assertions of the code presume.
BlocksRight == TypeOK /\ FoundEntry /\ FreeIsUnused

\* A message that is there is taken, if a consumer keeps trying.  It holds of one
\* consumer, as in this program: two can make each other's reservations fail
\* for ever.
Taken == \A i \in 0 .. MaxTail - 1 : (tailIndex > i) ~> (headIndex > i)

-----------------------------------------------------------------------------
(* The sub-queue implements Channel: a message is taken when headIndex     *)
(* passes it, and got when it is moved out of its block.                   *)

Promised == INSTANCE Channel WITH
    Message <- 0 .. MaxTail - 1,
    items <- [i \in 1 .. tailIndex - headIndex |-> headIndex + i - 1],
    taken <- [c \in Consumer |->
                IF consumer[c].pc \in {"header", "headerTail", "tailKey", "value", "move"}
                THEN consumer[c].index ELSE Nil]

\* Every message is got once, by one consumer, with its own value, oldest first.
ImplementsChannel == Promised!Init /\ [][Promised!Next]_(Promised!vars)
=============================================================================
