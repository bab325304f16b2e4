------------------------------ MODULE Channel ------------------------------
(***************************************************************************)
(* What the control queue q promises for the messages of one thread: each  *)
(* is handed to exactly one consumer, oldest first.  A consumer takes the  *)
(* oldest message and then has its value; try_dequeue may also return      *)
(* without one, which changes nothing here.                                *)
(***************************************************************************)
EXTENDS Integers, Sequences

CONSTANTS Consumer, Message

Nil == -1

VARIABLES
    items,      \* the messages nobody has taken, oldest first, by their number
    taken,      \* taken[c]: the message consumer c has taken and not yet got
    got         \* got[c]: the last message consumer c got

vars == <<items, taken, got>>

Init ==
    /\ items = <<>>
    /\ taken = [c \in Consumer |-> Nil]
    /\ got = [c \in Consumer |-> Nil]

Enqueue ==
    /\ \E message \in Message : items' = Append(items, message)
    /\ UNCHANGED <<taken, got>>

Take(c) ==
    /\ items # <<>> /\ taken[c] = Nil
    /\ taken' = [taken EXCEPT ![c] = Head(items)]
    /\ items' = Tail(items)
    /\ UNCHANGED got

Get(c) ==
    /\ taken[c] # Nil
    /\ got' = [got EXCEPT ![c] = taken[c]]
    /\ taken' = [taken EXCEPT ![c] = Nil]
    /\ UNCHANGED items

Next == Enqueue \/ \E c \in Consumer : Take(c) \/ Get(c)

Spec == Init /\ [][Next]_vars
=============================================================================
