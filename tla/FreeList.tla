------------------------------ MODULE FreeList ------------------------------
(***************************************************************************)
(* The lock-free free list of moodycamel::ConcurrentQueue                  *)
(* (concurrentqueue.h), from which a producer takes blocks and to which    *)
(* consumers give them back.  Each action is one access to shared memory.  *)
(*                                                                         *)
(* freeListRefs counts the threads that look at a node, and the list       *)
(* itself; its topmost bit, here a variable of its own, says that the node *)
(* is to be put on the list when the count falls to zero.                  *)
(***************************************************************************)
EXTENDS Integers, FiniteSets

CONSTANTS
    Thread,
    Node,
    none        \* nullptr

ASSUME NoneAssumption == none \notin Node
ASSUME ThreadAssumption == IsFiniteSet(Thread)

VARIABLES
    freeListHead,
    freeListRefs,       \* freeListRefs[n] & REFS_MASK
    shouldBeOnFreeList, \* freeListRefs[n] & SHOULD_BE_ON_FREELIST, as a Boolean
    freeListNext,
    holders,            \* how many callers hold a node they have taken
    thread              \* where each thread is, and its local variables

refs == <<freeListRefs, shouldBeOnFreeList>>
vars == <<freeListHead, refs, freeListNext, holders, thread>>

\* head and next are those of try_get; node is its prevHead, or the argument
\* of an add.  next is also the local head of add_knowing_refcount_is_zero.
Idle == [pc |-> "idle", head |-> none, node |-> none, next |-> none,
         count |-> 0, should |-> FALSE]

Init ==
    /\ freeListHead = none
    /\ freeListRefs = [n \in Node |-> 0]
    /\ shouldBeOnFreeList = [n \in Node |-> FALSE]
    /\ freeListNext = [n \in Node |-> none]
    /\ holders = [n \in Node |-> 1]
    /\ thread = [t \in Thread |-> Idle]

-----------------------------------------------------------------------------
\* Thread t goes on at pc with its local variables, or from "load" without.
At(t, pc) == [IF pc = "load" THEN Idle ELSE thread[t] EXCEPT !.pc = pc]
Step(t, from, local) == thread[t].pc = from /\ thread' = [thread EXCEPT ![t] = local]

\* The loop of try_get, with a head just loaded.
Loop(head) ==
    IF head = none THEN Idle
    ELSE [Idle EXCEPT !.pc = "refs", !.head = head, !.node = head]

LoadHead(t) ==
    /\ thread[t].pc \in {"idle", "load"}
    /\ thread' = [thread EXCEPT ![t] = Loop(freeListHead)]
    /\ UNCHANGED <<freeListHead, refs, freeListNext, holders>>

\* Mutant: t tries the same node again.
AgainSame == "refs"

\* t could not count itself as referring to its head.
Again == "load"

LoadRefs(t) ==
    LET n == thread[t].node IN
    /\ Step(t, "refs", [At(t, IF freeListRefs[n] = 0 THEN Again ELSE "acquire") EXCEPT
                            !.count = freeListRefs[n], !.should = shouldBeOnFreeList[n]])
    /\ UNCHANGED <<freeListHead, refs, freeListNext, holders>>

\* Mutant: the count is incremented whatever it has become.
SameRefsAlways(t) == TRUE

\* The count is still what t has seen.
SameRefs(t) ==
    LET n == thread[t].node
    IN  freeListRefs[n] = thread[t].count /\ shouldBeOnFreeList[n] = thread[t].should

Acquire(t) ==
    /\ Step(t, "acquire", At(t, IF SameRefs(t) THEN "next" ELSE Again))
    /\ freeListRefs' = [freeListRefs EXCEPT ![thread[t].node] =
                            IF SameRefs(t) THEN thread[t].count + 1 ELSE @]
    /\ UNCHANGED <<freeListHead, shouldBeOnFreeList, freeListNext, holders>>

LoadNext(t) ==
    /\ Step(t, "next", [At(t, "pop") EXCEPT !.next = freeListNext[thread[t].node]])
    /\ UNCHANGED <<freeListHead, refs, freeListNext, holders>>

Pop(t) ==
    /\ freeListHead = thread[t].head
    /\ Step(t, "pop", At(t, "release2"))
    /\ freeListHead' = thread[t].next
    /\ UNCHANGED <<refs, freeListNext, holders>>

\* The head has changed, and t goes on with the new one.
PopFails(t) ==
    /\ freeListHead # thread[t].head
    /\ Step(t, "pop", [At(t, "release") EXCEPT !.head = freeListHead])
    /\ UNCHANGED <<freeListHead, refs, freeListNext, holders>>

\* t returns the node: neither t nor the list refers to it.
Release2(t) ==
    /\ Step(t, "release2", Idle)
    /\ freeListRefs' = [freeListRefs EXCEPT ![thread[t].node] = @ - 2]
    /\ holders' = [holders EXCEPT ![thread[t].node] = @ + 1]
    /\ UNCHANGED <<freeListHead, shouldBeOnFreeList, freeListNext>>

\* Mutant: whoever lets go of a node last does not see to its being added.
NotLast(n) == FALSE

\* t's reference to n is the last one, and n is to be put on the list.
LastReference(n) == shouldBeOnFreeList[n] /\ freeListRefs[n] = 1

Release(t) ==
    LET n == thread[t].node IN
    /\ Step(t, "release", IF LastReference(n) THEN At(t, "add") ELSE Loop(thread[t].head))
    /\ freeListRefs' = [freeListRefs EXCEPT ![n] = @ - 1]
    /\ UNCHANGED <<freeListHead, shouldBeOnFreeList, freeListNext, holders>>

try_get(t) ==
    \/ LoadHead(t) \/ LoadRefs(t) \/ Acquire(t) \/ LoadNext(t)
    \/ Pop(t) \/ PopFails(t) \/ Release2(t) \/ Release(t)

-----------------------------------------------------------------------------
\* The nodes in use.
used == {n \in Node : holders[n] > 0}

\* Mutant: a node is added although others still refer to it.
AddsReferenced(n) == TRUE

\* Nobody else refers to n, so add puts it on the list.
Unreferenced(n) == freeListRefs[n] = 0

add(t) ==
    \E n \in used :
        /\ Step(t, "idle", IF Unreferenced(n) THEN [At(t, "add") EXCEPT !.node = n] ELSE Idle)
        /\ shouldBeOnFreeList' = [shouldBeOnFreeList EXCEPT ![n] = TRUE]
        /\ holders' = [holders EXCEPT ![n] = @ - 1]
        /\ UNCHANGED <<freeListHead, freeListRefs, freeListNext>>

(* add_knowing_refcount_is_zero *)

AddLoadHead(t) ==
    /\ Step(t, "add", [At(t, "setNext") EXCEPT !.next = freeListHead])
    /\ UNCHANGED <<freeListHead, refs, freeListNext, holders>>

SetNext(t) ==
    /\ Step(t, "setNext", At(t, "setRefs"))
    /\ freeListNext' = [freeListNext EXCEPT ![thread[t].node] = thread[t].next]
    /\ UNCHANGED <<freeListHead, refs, holders>>

SetRefs(t) ==
    /\ Step(t, "setRefs", At(t, "push"))
    /\ freeListRefs' = [freeListRefs EXCEPT ![thread[t].node] = 1]
    /\ shouldBeOnFreeList' = [shouldBeOnFreeList EXCEPT ![thread[t].node] = FALSE]
    /\ UNCHANGED <<freeListHead, freeListNext, holders>>

Push(t) ==
    /\ freeListHead = thread[t].next
    /\ Step(t, "push", Loop(thread[t].head))
    /\ freeListHead' = thread[t].node
    /\ UNCHANGED <<refs, freeListNext, holders>>

PushFails(t) ==
    /\ freeListHead # thread[t].next
    /\ Step(t, "push", [At(t, "retry") EXCEPT !.next = freeListHead])
    /\ UNCHANGED <<freeListHead, refs, freeListNext, holders>>

\* The list's reference is given up; if there is another one, its thread adds.
Retry(t) ==
    LET n == thread[t].node IN
    /\ Step(t, "retry", IF freeListRefs[n] = 1 THEN At(t, "setNext")
                        ELSE Loop(thread[t].head))
    /\ freeListRefs' = [freeListRefs EXCEPT ![n] = @ - 1]
    /\ shouldBeOnFreeList' = [shouldBeOnFreeList EXCEPT ![n] = TRUE]
    /\ UNCHANGED <<freeListHead, freeListNext, holders>>

add_knowing_refcount_is_zero(t) ==
    AddLoadHead(t) \/ SetNext(t) \/ SetRefs(t) \/ Push(t) \/ PushFails(t) \/ Retry(t)

-----------------------------------------------------------------------------
Next == \E t \in Thread : try_get(t) \/ add(t) \/ add_knowing_refcount_is_zero(t)

Spec == Init /\ [][Next]_vars

\* A thread that is in the middle of a call goes on.
Fairness == \A t \in Thread :
    WF_vars(thread[t].pc # "idle" /\ (try_get(t) \/ add_knowing_refcount_is_zero(t)))

FairSpec == Spec /\ Fairness

-----------------------------------------------------------------------------
(* Properties.                                                             *)

Places == {"idle", "load", "refs", "acquire", "next", "pop", "release", "release2",
           "add", "setNext", "setRefs", "push", "retry"}

TypeOK ==
    /\ freeListHead \in Node \cup {none}
    /\ freeListRefs \in [Node -> Nat]
    /\ shouldBeOnFreeList \in [Node -> BOOLEAN]
    /\ freeListNext \in [Node -> Node \cup {none}]
    /\ holders \in [Node -> Nat]
    /\ thread \in [Thread -> [pc : Places, head : Node \cup {none}, node : Node \cup {none},
                              next : Node \cup {none}, count : Nat, should : BOOLEAN]]
    /\ \A t \in Thread : thread[t].pc \notin {"idle", "load"} => thread[t].node \in Node

\* The compare-exchange of try_get never succeeds with a next that is out of date,
\* although the node may have been taken, used and put back since it was read.
NoABA ==
    \A t \in Thread :
        thread[t].pc = "pop" /\ freeListHead = thread[t].head =>
            thread[t].next = freeListNext[thread[t].head]

\* The assertion of try_get: a node that was just taken is not to be put on the
\* list; nor is any node in use.
TakenIsNotWanted ==
    /\ \A n \in used : ~shouldBeOnFreeList[n]
    /\ \A t \in Thread : thread[t].pc = "release2" => ~shouldBeOnFreeList[thread[t].node]

\* "We run only one copy of this method per node at a time": no two threads add a
\* node, and nobody refers to it while its next pointer is written.
OneAdder ==
    \A t \in Thread : thread[t].pc \in {"add", "setNext", "setRefs"} =>
        /\ freeListRefs[thread[t].node] = 0
        /\ \A s \in Thread \ {t} :
              thread[s].pc \in {"add", "setNext", "setRefs", "push", "retry"} =>
                  thread[s].node # thread[t].node

\* References are counted, nodes claimed and pointers written as the comments and
\* assertions of the free list presume, whatever calls overlap.
ListRight == TypeOK /\ NoABA /\ TakenIsNotWanted /\ OneAdder

\* S holds the head of the list and what the pointers of its nodes lead to.
Closed(S) ==
    /\ freeListHead \in S \cup {none}
    /\ \A n \in S : freeListNext[n] \in S \cup {none}

\* The nodes on the list: those that can be reached from its head.
Listed == {n \in Node : \A S \in SUBSET Node : Closed(S) => n \in S}

\* No node is lost, even one that was added while others referred to it: when all
\* calls have returned, the list holds exactly the nodes that are not in use.
NothingLost == (\A t \in Thread : thread[t].pc = "idle") => Listed = Node \ used

\* Threads cannot keep each other from finishing: once no call starts, all end.
Starts == \E t \in Thread : thread[t].pc = "idle" /\ (LoadHead(t) \/ add(t))
Settles == <>[][~Starts]_vars => <>[](\A t \in Thread : thread[t].pc = "idle")

-----------------------------------------------------------------------------
(* The list is a pool of nodes.                                            *)

Promised == INSTANCE Pool WITH Block <- Node

\* A node is given to one caller at a time, and only after it was given back.
ImplementsPool == Promised!Init /\ [][Promised!Next]_holders
=============================================================================
