-------------------------------- MODULE Pool --------------------------------
(***************************************************************************)
(* What the free list of the queue promises: a set of blocks each of which *)
(* is held by one caller at a time.  A call that finds no block changes    *)
(* nothing.                                                                *)
(***************************************************************************)
EXTENDS Integers

CONSTANT Block

VARIABLE holders    \* the number of callers that hold a block

Init == holders = [b \in Block |-> 1]

Take == \E b \in Block : holders[b] = 0 /\ holders' = [holders EXCEPT ![b] = 1]

Give == \E b \in Block : holders[b] = 1 /\ holders' = [holders EXCEPT ![b] = 0]

Next == Take \/ Give

Spec == Init /\ [][Next]_holders
=============================================================================
