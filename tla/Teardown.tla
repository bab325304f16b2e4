------------------------------ MODULE Teardown ------------------------------
(***************************************************************************)
(* The end of a sub-queue of moodycamel::ConcurrentQueue: ~ImplicitProducer *)
(* after any behaviour of module ImplicitQueue.  It runs when no call is   *)
(* under way, which the owner of the queue has to see to (module Program,  *)
(* QueueOutlivesCallbacks), and after it there are no more calls.          *)
(***************************************************************************)
EXTENDS ImplicitQueue, Functions

\* The destructor begins.  Its local variables index and block join what is known
\* of the producer, with a record of what it does: the messages it destroys, and
\* the blocks it gives to the free list, each in order.
StartDestroy ==
    /\ producer.pc = "idle" /\ \A c \in Consumer : consumer[c].pc = "idle"
    /\ producer' = [pc |-> "destroy", slot |-> producer.slot, tailBlock |-> producer.tailBlock,
                    index |-> headIndex, block |-> none, destroyed |-> <<>>, returned |-> <<>>]
    /\ consumer' = [c \in Consumer |-> [consumer[c] EXCEPT !.pc = "over"]]
    /\ UNCHANGED <<counters, index, blocks, got>>

\* The element at index is the first one looked at in its block.
Lookup == producer.index % BLOCK_SIZE = 0 \/ producer.block = none

\* get_block_index_entry_for_index, with nobody else about
BlockOfIndex ==
    LET h == blockIndex
    IN  entries[headers[h].ring[Position(h, headers[h].tail, producer.index)]].value

DestroyElement ==
    /\ producer.pc = "destroy" /\ producer.index # tailIndex
    /\ LET b == IF Lookup THEN BlockOfIndex ELSE producer.block
           slot == producer.index % BLOCK_SIZE
       IN  /\ producer' =
                [producer EXCEPT !.index = @ + 1, !.block = b,
                                 !.destroyed = Append(@, elements[b][slot]),
                                 !.returned = IF Lookup /\ producer.block # none
                                              THEN Append(@, producer.block) ELSE @]
           /\ elements' = [elements EXCEPT ![b][slot] = Nil]
    /\ UNCHANGED <<counters, index, dequeued, free, consumer, got>>

\* Mutant: the tail block is taken to be given back when it is full.
TailBlockPartial == tailIndex % BLOCK_SIZE # 0

\* The tail block is not on the free list: forceFreeLastBlock, or it is not full.
TailBlockLeft == headIndex # tailIndex \/ tailIndex % BLOCK_SIZE # 0

FreeTailBlock ==
    /\ producer.pc = "destroy" /\ producer.index = tailIndex
    /\ producer' = [producer EXCEPT !.pc = "destroyed",
                                    !.returned = IF producer.tailBlock # none /\ TailBlockLeft
                                                 THEN Append(@, producer.tailBlock) ELSE @]
    /\ UNCHANGED <<counters, index, blocks, consumer, got>>

\* Nothing happens after the destructor.
Over == producer.pc = "destroyed" /\ UNCHANGED vars

TeardownNext == Next \/ StartDestroy \/ DestroyElement \/ FreeTailBlock \/ Over

TeardownSpec == Init /\ [][TeardownNext]_vars

-----------------------------------------------------------------------------
(* Properties.                                                             *)

\* The destructor destroys what was not dequeued, each message once and in order,
\* and leaves no element in any block.
RemainderDestroyed ==
    producer.pc = "destroyed" =>
        /\ producer.destroyed = [k \in 1 .. tailIndex - headIndex |-> headIndex + k - 1]
        /\ \A b \in Block : \A j \in 0 .. BLOCK_SIZE - 1 : elements[b][j] = Nil

\* Every block the sub-queue still had goes to the free list, once: a block left
\* out is never freed, and one given back twice is freed twice by ~ConcurrentQueue.
BlocksReturnedOnce ==
    producer.pc = "destroyed" =>
        IsInjective(producer.returned) /\ Range(producer.returned) = Block \ free

\* The last header's ring holds every entry of every header once: the destructor
\* runs the destructors of the entries through it, and then frees the headers.
EntriesDestroyedOnce ==
    producer.pc = "destroyed" =>
        LET ring == headers[blockIndex].ring
        IN  IsInjective(ring) /\ Range(ring) = DOMAIN entries

\* The destructor leaves nothing behind and gives nothing back twice.
DestroyedOnce == RemainderDestroyed /\ BlocksReturnedOnce /\ EntriesDestroyedOnce
=============================================================================
