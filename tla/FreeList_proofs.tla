-------------------------- MODULE FreeList_proofs --------------------------
(***************************************************************************)
(* What holds of the free list for every number of threads and nodes: the  *)
(* references are counted, no compare-exchange succeeds with what is out   *)
(* of date, a node has one holder, and none is lost.                       *)
(***************************************************************************)
EXTENDS FreeList, FiniteSetTheorems, TLAPS

USE NoneAssumption, ThreadAssumption DEF NoneAssumption, ThreadAssumption

(***************************************************************************)
(* The inductive invariant.                                                *)
(***************************************************************************)

\* The threads that have counted themselves as referring to n.
Referring(n) ==
    {t \in Thread : thread[t].pc \in {"next", "pop", "release", "release2"}
                        /\ thread[t].node = n}

\* The list itself refers to n: it is neither in use nor still to be put there.
Counted(n) == holders[n] = 0 /\ ~shouldBeOnFreeList[n]

\* The count is that of the references, the list's included.
RefsCounted ==
    \A n \in Node : freeListRefs[n] = Cardinality(Referring(n)) + IF Counted(n) THEN 1 ELSE 0

\* Where a thread has a node of its own: it writes its pointer and its count, ...
Writing == {"add", "setNext", "setRefs"}

\* ... tries to make it the head, or has taken it from the list.
Claiming == Writing \cup {"push", "retry", "release2"}

\* A thread's own node is no other's and not in use; nobody refers to it while it
\* is written, and only then it is marked as one to be put on the list.
ClaimsRight ==
    \A t \in Thread : thread[t].pc \in Claiming =>
        /\ holders[thread[t].node] = 0
        /\ shouldBeOnFreeList[thread[t].node] <=> thread[t].pc \in Writing
        /\ thread[t].pc \in Writing => freeListRefs[thread[t].node] = 0
        /\ \A s \in Thread \ {t} :
               thread[s].pc \in Claiming => thread[s].node # thread[t].node

\* A node has one holder at most; one in use is not to be put on the list.
HoldersRight ==
    \A n \in Node : holders[n] \in {0, 1} /\ (holders[n] = 1 => ~shouldBeOnFreeList[n])

\* Somebody will see to a node that is to be put on the list: the last of those who
\* refer to it, or the one who is at it.
WantedIsKnown ==
    \A n \in Node : shouldBeOnFreeList[n] /\ freeListRefs[n] = 0 =>
        \E t \in Thread : thread[t].pc \in Writing /\ thread[t].node = n

\* The local variables of the threads: what was looked at is the head that was
\* loaded, and a next pointer that was read or written is still that of the node.
LocalsRight ==
    \A t \in Thread :
        /\ thread[t].pc \in {"refs", "acquire", "next", "pop"} => thread[t].node = thread[t].head
        /\ thread[t].pc = "acquire" => thread[t].count # 0
        /\ thread[t].pc \in {"pop", "setRefs", "push"} =>
               thread[t].next = freeListNext[thread[t].node]

\* The nodes on the list.
OnList ==
    {n \in Node : Counted(n) /\ \A t \in Thread : thread[t].pc \in Claiming => thread[t].node # n}

\* The list is a chain: its pointers stay in it, and no two lead to the same node.
Chained ==
    /\ freeListHead \in OnList \cup {none}
    /\ \A n \in OnList :
           /\ freeListNext[n] \in OnList \cup {none}
           /\ freeListNext[n] # none => freeListNext[n] # freeListHead
           /\ \A m \in OnList \ {n} : freeListNext[m] # none => freeListNext[m] # freeListNext[n]

\* Every node of the list can be reached from its head.
Reachable == \A S \in SUBSET Node : Closed(S) => OnList \subseteq S

FInv ==
    /\ TypeOK
    /\ RefsCounted
    /\ ClaimsRight
    /\ HoldersRight
    /\ WantedIsKnown
    /\ LocalsRight
    /\ Chained
    /\ Reachable

(***************************************************************************)
(* What a step of one thread does to the invariant's operators.            *)
(***************************************************************************)

\* The local variables of a thread, and what a record of them says.
Local == [pc : Places, head : Node \cup {none}, node : Node \cup {none},
          next : Node \cup {none}, count : Nat, should : BOOLEAN]

Refers(r, n) == r.pc \in {"next", "pop", "release", "release2"} /\ r.node = n

AtNode(r) == r.pc \notin {"idle", "load"} => r.node \in Node

LocalRight(r) ==
    /\ r.pc \in {"refs", "acquire", "next", "pop"} => r.node = r.head
    /\ r.pc = "acquire" => r.count # 0
    /\ r.pc \in {"pop", "setRefs", "push"} => r.next = freeListNext[r.node]

\* A thread that begins, or goes on where At says.
LEMMA AtStep ==
    ASSUME TypeOK, NEW t \in Thread, NEW pc \in Places
    PROVE  /\ thread[t] \in Local /\ AtNode(thread[t]) /\ Idle \in Local /\ At(t, pc) \in Local
           /\ At(t, pc).pc = pc
           /\ pc # "load" => At(t, pc) = [thread[t] EXCEPT !.pc = pc]
           /\ pc = "load" => At(t, pc) = [Idle EXCEPT !.pc = "load"]
           /\ \A h \in Node \cup {none} :
                 /\ Loop(h) \in Local /\ AtNode(Loop(h)) /\ LocalRight(Loop(h))
                 /\ Loop(h).pc \in {"idle", "refs"}
<1>1. thread[t] \in Local /\ AtNode(thread[t])
  BY DEF TypeOK, Local, AtNode
<1>2. Idle \in Local /\ Idle.pc = "idle" /\ [Idle EXCEPT !.pc = "load"] \in Local
  BY DEF Idle, Local, Places
<1>3. At(t, pc) \in Local /\ At(t, pc).pc = pc
  BY <1>1, <1>2 DEF At, Local
<1>4. ASSUME NEW h \in Node \cup {none}
      PROVE  /\ Loop(h) \in Local /\ AtNode(Loop(h)) /\ LocalRight(Loop(h))
             /\ Loop(h).pc \in {"idle", "refs"}
  BY <1>2 DEF Loop, Idle, Local, Places, AtNode, LocalRight
<1> QED
  BY <1>1, <1>2, <1>3, <1>4 DEF At

\* Only the thread that made a step has other local variables.
LEMMA OneThread ==
    ASSUME TypeOK, NEW t \in Thread, NEW r \in Local, AtNode(r),
           thread' = [thread EXCEPT ![t] = r]
    PROVE  /\ thread' \in [Thread -> Local] /\ \A s \in Thread : AtNode(thread'[s])
           /\ thread'[t] = r /\ \A s \in Thread \ {t} : thread'[s] = thread[s]
BY DEF TypeOK, Local, AtNode

\* The threads that refer to a node are counted.
LEMMA ReferringStep ==
    ASSUME TypeOK, NEW t \in Thread, NEW r \in Local, AtNode(r),
           thread' = [thread EXCEPT ![t] = r], NEW n \in Node
    PROVE  /\ Cardinality(Referring(n)) \in Nat
           /\ Cardinality(Referring(n))' =
                Cardinality(Referring(n)) + (IF Refers(r, n) THEN 1 ELSE 0)
                                          - (IF Refers(thread[t], n) THEN 1 ELSE 0)
<1>1. thread'[t] = r /\ \A s \in Thread \ {t} : thread'[s] = thread[s]
  BY OneThread
<1>2. IsFiniteSet(Referring(n)) /\ Cardinality(Referring(n)) \in Nat
  BY FS_Subset, FS_CardinalityType DEF Referring
<1>3. t \in Referring(n) <=> Refers(thread[t], n)
  BY DEF Referring, Refers
<1>4. Referring(n)' = IF Refers(r, n) THEN Referring(n) \cup {t} ELSE Referring(n) \ {t}
  BY <1>1 DEF Referring, Refers
<1>5. /\ Cardinality(Referring(n) \cup {t}) =
             IF t \in Referring(n) THEN Cardinality(Referring(n)) ELSE Cardinality(Referring(n)) + 1
      /\ Cardinality(Referring(n) \ {t}) =
             IF t \in Referring(n) THEN Cardinality(Referring(n)) - 1 ELSE Cardinality(Referring(n))
  BY <1>2, FS_AddElement, FS_RemoveElement
<1>6. Cardinality(Referring(n))' = Cardinality(Referring(n)')
  OBVIOUS
<1> QED
  BY <1>2, <1>3, <1>4, <1>5, <1>6

\* Nobody refers to a node whose count is zero.
LEMMA Unreferred ==
    ASSUME TypeOK, RefsCounted, NEW n \in Node
    PROVE  /\ freeListRefs[n] = 0 => /\ ~Counted(n)
                                     /\ \A t \in Thread : ~Refers(thread[t], n)
           /\ \A t \in Thread : Refers(thread[t], n) =>
                 freeListRefs[n] >= 1 + IF Counted(n) THEN 1 ELSE 0
<1>1. IsFiniteSet(Referring(n)) /\ Cardinality(Referring(n)) \in Nat
  BY FS_Subset, FS_CardinalityType DEF Referring
<1>2. \A t \in Thread : Refers(thread[t], n) => t \in Referring(n)
  BY DEF Referring, Refers
<1>3. Referring(n) # {} => Cardinality(Referring(n)) >= 1
  BY <1>1, FS_EmptySet
<1> QED
  BY <1>1, <1>2, <1>3 DEF RefsCounted

\* The chain does not change as long as what is on the list does not.
LEMMA SameList ==
    ASSUME Chained, Reachable, OnList' = OnList, UNCHANGED <<freeListHead, freeListNext>>
    PROVE  Chained' /\ Reachable'
BY DEF Chained, Reachable, Closed

LEMMA InvLocals == ASSUME TypeOK PROVE LocalsRight <=> \A t \in Thread : LocalRight(thread[t])
BY DEF LocalsRight, LocalRight

\* A step that changes nothing but what a thread knows.
LEMMA LocalStep ==
    ASSUME FInv, NEW t \in Thread, NEW r \in Local, AtNode(r), LocalRight(r),
           thread' = [thread EXCEPT ![t] = r],
           UNCHANGED <<freeListHead, refs, freeListNext, holders>>,
           \A n \in Node : Refers(r, n) <=> Refers(thread[t], n),
           r.pc \in Claiming <=> thread[t].pc \in Claiming,
           r.pc \in Writing <=> thread[t].pc \in Writing,
           r.pc \in Claiming => r.node = thread[t].node
    PROVE  FInv'
<1>1. /\ thread' \in [Thread -> Local] /\ \A s \in Thread : AtNode(thread'[s])
      /\ thread'[t] = r /\ \A s \in Thread \ {t} : thread'[s] = thread[s]
  BY OneThread DEF FInv
<1>2. TypeOK'
  BY <1>1 DEF FInv, TypeOK, Local, AtNode, refs
<1>3. RefsCounted'
  <2>1. ASSUME NEW n \in Node
        PROVE  /\ Cardinality(Referring(n))' = Cardinality(Referring(n))
               /\ Counted(n)' = Counted(n)
    <3>1. TypeOK /\ (Refers(r, n) <=> Refers(thread[t], n))
      BY DEF FInv
    <3>2. /\ Cardinality(Referring(n)) \in Nat
          /\ Cardinality(Referring(n))' =
                Cardinality(Referring(n)) + (IF Refers(r, n) THEN 1 ELSE 0)
                                          - (IF Refers(thread[t], n) THEN 1 ELSE 0)
      BY <3>1, ReferringStep
    <3>3. Cardinality(Referring(n))' = Cardinality(Referring(n))
      BY <3>1, <3>2
    <3> QED
      BY <3>3 DEF Counted, refs
  <2> QED
    BY <2>1 DEF FInv, RefsCounted, refs
<1>4. \A s \in Thread : /\ thread'[s].pc \in Claiming <=> thread[s].pc \in Claiming
                        /\ thread'[s].pc \in Writing <=> thread[s].pc \in Writing
                        /\ thread'[s].pc \in Claiming => thread'[s].node = thread[s].node
  BY <1>1
<1>5. ClaimsRight' /\ HoldersRight' /\ WantedIsKnown'
  <2>1. ClaimsRight'
    BY <1>4 DEF FInv, ClaimsRight, refs
  <2>2. HoldersRight'
    BY DEF FInv, HoldersRight, refs
  <2>3. WantedIsKnown'
    BY <1>4 DEF FInv, WantedIsKnown, Claiming, refs
  <2> QED
    BY <2>1, <2>2, <2>3
<1>6. LocalsRight'
  BY <1>1 DEF FInv, LocalsRight, LocalRight
<1>7. OnList' = OnList
  BY <1>4 DEF OnList, Counted, refs
<1> QED
  BY <1>2, <1>3, <1>5, <1>6, <1>7, SameList DEF FInv

(***************************************************************************)
(* Steps that read shared memory only.                                     *)
(***************************************************************************)

LEMMA LoadHeadInv == ASSUME FInv, NEW t \in Thread, LoadHead(t) PROVE FInv'
<1>1. freeListHead \in Node \cup {none} /\ TypeOK
  BY DEF FInv, TypeOK
<1>2. PICK r : r = Loop(freeListHead)
  OBVIOUS
<1>3. /\ r \in Local /\ AtNode(r) /\ LocalRight(r) /\ r.pc \in {"idle", "refs"}
      /\ thread' = [thread EXCEPT ![t] = r] /\ thread[t].pc \in {"idle", "load"}
      /\ UNCHANGED <<freeListHead, refs, freeListNext, holders>>
  BY <1>1, <1>2, AtStep DEF LoadHead, Places
<1> QED
  BY <1>3, LocalStep DEF Refers, Claiming, Writing

LEMMA LoadRefsInv == ASSUME FInv, NEW t \in Thread, LoadRefs(t) PROVE FInv'
<1>1. TypeOK /\ LocalRight(thread[t]) /\ thread[t].pc = "refs"
  BY InvLocals DEF FInv, LoadRefs, Step
<1>2. PICK n \in Node : n = thread[t].node
  BY <1>1 DEF TypeOK
<1>3. freeListRefs[n] \in Nat /\ shouldBeOnFreeList[n] \in BOOLEAN
  BY <1>1 DEF TypeOK
<1>4. PICK r : r = [At(t, IF freeListRefs[n] = 0 THEN Again ELSE "acquire") EXCEPT
                        !.count = freeListRefs[n], !.should = shouldBeOnFreeList[n]]
  OBVIOUS
<1>5. /\ thread' = [thread EXCEPT ![t] = r]
      /\ UNCHANGED <<freeListHead, refs, freeListNext, holders>>
  BY <1>2, <1>4 DEF LoadRefs, Step
<1>6. r \in Local /\ AtNode(r) /\ LocalRight(r) /\ r.pc \in {"load", "acquire"}
  <2>1. CASE freeListRefs[n] = 0
    <3>1. At(t, "load") \in Local /\ At(t, "load").pc = "load"
      BY <1>1, AtStep DEF Places
    <3>2. r \in Local /\ r.pc = "load"
      BY <1>3, <1>4, <2>1, <3>1 DEF Again, Local
    <3> QED
      BY <3>2 DEF AtNode, LocalRight
  <2>2. CASE freeListRefs[n] # 0
    <3>1. thread[t] \in Local /\ At(t, "acquire") = [thread[t] EXCEPT !.pc = "acquire"]
          /\ At(t, "acquire") \in Local
      BY <1>1, AtStep DEF Places
    <3>2. /\ r \in Local /\ r.pc = "acquire" /\ r.count = freeListRefs[n]
          /\ r.head = thread[t].head /\ r.node = n
      BY <1>2, <1>3, <1>4, <2>2, <3>1 DEF Local
    <3> QED
      BY <1>1, <1>2, <2>2, <3>2 DEF AtNode, LocalRight
  <2> QED
    BY <2>1, <2>2
<1> QED
  BY <1>1, <1>5, <1>6, LocalStep DEF Refers, Claiming, Writing

LEMMA LoadNextInv == ASSUME FInv, NEW t \in Thread, LoadNext(t) PROVE FInv'
<1>1. TypeOK /\ LocalRight(thread[t]) /\ thread[t].pc = "next"
  BY InvLocals DEF FInv, LoadNext, Step
<1>2. PICK n \in Node, m \in Node \cup {none} : n = thread[t].node /\ m = freeListNext[n]
  BY <1>1 DEF TypeOK
<1>3. PICK r : r = [At(t, "pop") EXCEPT !.next = m]
  OBVIOUS
<1>4. /\ thread' = [thread EXCEPT ![t] = r]
      /\ UNCHANGED <<freeListHead, refs, freeListNext, holders>>
  BY <1>2, <1>3 DEF LoadNext, Step
<1>5. thread[t] \in Local /\ At(t, "pop") = [thread[t] EXCEPT !.pc = "pop"] /\ At(t, "pop") \in Local
  BY <1>1, AtStep DEF Places
<1>6. r \in Local /\ r.pc = "pop" /\ r.next = m /\ r.head = thread[t].head /\ r.node = n
  BY <1>2, <1>3, <1>5 DEF Local
<1>7. AtNode(r) /\ LocalRight(r)
  BY <1>1, <1>2, <1>6 DEF AtNode, LocalRight
<1>8. \A k \in Node : Refers(r, k) <=> Refers(thread[t], k)
  BY <1>1, <1>2, <1>6 DEF Refers
<1> QED
  BY <1>1, <1>4, <1>6, <1>7, <1>8, LocalStep DEF Claiming, Writing

LEMMA PopFailsInv == ASSUME FInv, NEW t \in Thread, PopFails(t) PROVE FInv'
<1>1. TypeOK /\ thread[t].pc = "pop" /\ thread[t].node \in Node
      /\ freeListHead \in Node \cup {none}
  BY DEF FInv, PopFails, Step, TypeOK
<1>2. PICK r : r = [At(t, "release") EXCEPT !.head = freeListHead]
  OBVIOUS
<1>3. /\ thread' = [thread EXCEPT ![t] = r]
      /\ UNCHANGED <<freeListHead, refs, freeListNext, holders>>
  BY <1>2 DEF PopFails, Step
<1>4. thread[t] \in Local /\ At(t, "release") = [thread[t] EXCEPT !.pc = "release"]
      /\ At(t, "release") \in Local
  BY <1>1, AtStep DEF Places
<1>5. r \in Local /\ r.pc = "release" /\ r.node = thread[t].node
  BY <1>1, <1>2, <1>4 DEF Local
<1>6. AtNode(r) /\ LocalRight(r) /\ \A k \in Node : Refers(r, k) <=> Refers(thread[t], k)
  BY <1>1, <1>5 DEF AtNode, LocalRight, Refers
<1> QED
  BY <1>1, <1>3, <1>5, <1>6, LocalStep DEF Claiming, Writing

LEMMA AddLoadHeadInv == ASSUME FInv, NEW t \in Thread, AddLoadHead(t) PROVE FInv'
<1>1. TypeOK /\ thread[t].pc = "add" /\ thread[t].node \in Node
      /\ freeListHead \in Node \cup {none}
  BY DEF FInv, AddLoadHead, Step, TypeOK
<1>2. PICK r : r = [At(t, "setNext") EXCEPT !.next = freeListHead]
  OBVIOUS
<1>3. /\ thread' = [thread EXCEPT ![t] = r]
      /\ UNCHANGED <<freeListHead, refs, freeListNext, holders>>
  BY <1>2 DEF AddLoadHead, Step
<1>4. thread[t] \in Local /\ At(t, "setNext") = [thread[t] EXCEPT !.pc = "setNext"]
      /\ At(t, "setNext") \in Local
  BY <1>1, AtStep DEF Places
<1>5. r \in Local /\ r.pc = "setNext" /\ r.node = thread[t].node
  BY <1>1, <1>2, <1>4 DEF Local
<1>6. AtNode(r) /\ LocalRight(r) /\ \A k \in Node : Refers(r, k) <=> Refers(thread[t], k)
  BY <1>1, <1>5 DEF AtNode, LocalRight, Refers
<1> QED
  BY <1>1, <1>3, <1>5, <1>6, LocalStep DEF Claiming, Writing

LEMMA PushFailsInv == ASSUME FInv, NEW t \in Thread, PushFails(t) PROVE FInv'
<1>1. TypeOK /\ thread[t].pc = "push" /\ thread[t].node \in Node
      /\ freeListHead \in Node \cup {none}
  BY DEF FInv, PushFails, Step, TypeOK
<1>2. PICK r : r = [At(t, "retry") EXCEPT !.next = freeListHead]
  OBVIOUS
<1>3. /\ thread' = [thread EXCEPT ![t] = r]
      /\ UNCHANGED <<freeListHead, refs, freeListNext, holders>>
  BY <1>2 DEF PushFails, Step
<1>4. thread[t] \in Local /\ At(t, "retry") = [thread[t] EXCEPT !.pc = "retry"]
      /\ At(t, "retry") \in Local
  BY <1>1, AtStep DEF Places
<1>5. r \in Local /\ r.pc = "retry" /\ r.node = thread[t].node
  BY <1>1, <1>2, <1>4 DEF Local
<1>6. AtNode(r) /\ LocalRight(r) /\ \A k \in Node : Refers(r, k) <=> Refers(thread[t], k)
  BY <1>1, <1>5 DEF AtNode, LocalRight, Refers
<1> QED
  BY <1>1, <1>3, <1>5, <1>6, LocalStep DEF Claiming, Writing

(***************************************************************************)
(* What a step that writes must see to, conjunct by conjunct.              *)
(***************************************************************************)

LEMMA TypeStep ==
    ASSUME TypeOK, NEW t \in Thread, NEW r \in Local, AtNode(r),
           thread' = [thread EXCEPT ![t] = r],
           freeListHead' \in Node \cup {none},
           freeListRefs' \in [Node -> Nat], shouldBeOnFreeList' \in [Node -> BOOLEAN],
           freeListNext' \in [Node -> Node \cup {none}], holders' \in [Node -> Nat]
    PROVE  TypeOK'
<1>1. thread' \in [Thread -> Local] /\ \A s \in Thread : AtNode(thread'[s])
  BY OneThread
<1> QED
  BY <1>1 DEF TypeOK, Local, AtNode

\* The count changes with the references of the thread and of the list.
LEMMA RefsStep ==
    ASSUME TypeOK, RefsCounted, NEW t \in Thread, NEW r \in Local, AtNode(r),
           thread' = [thread EXCEPT ![t] = r],
           \A n \in Node : freeListRefs'[n] = freeListRefs[n]
               + (IF Refers(r, n) THEN 1 ELSE 0) - (IF Refers(thread[t], n) THEN 1 ELSE 0)
               + (IF Counted(n)' THEN 1 ELSE 0) - (IF Counted(n) THEN 1 ELSE 0)
    PROVE  RefsCounted'
<1> SUFFICES ASSUME NEW n \in Node
             PROVE  freeListRefs'[n] = Cardinality(Referring(n))' + IF Counted(n)' THEN 1 ELSE 0
  BY DEF RefsCounted
<1>1. freeListRefs[n] = Cardinality(Referring(n)) + IF Counted(n) THEN 1 ELSE 0
  BY DEF RefsCounted
<1>2. /\ Cardinality(Referring(n)) \in Nat
      /\ Cardinality(Referring(n))' =
            Cardinality(Referring(n)) + (IF Refers(r, n) THEN 1 ELSE 0)
                                      - (IF Refers(thread[t], n) THEN 1 ELSE 0)
  BY ReferringStep
<1> QED
  BY <1>1, <1>2

\* The claims of the others stand, and that of the thread is right.
LEMMA ClaimsStep ==
    ASSUME TypeOK, ClaimsRight, NEW t \in Thread, NEW r \in Local, AtNode(r),
           thread' = [thread EXCEPT ![t] = r],
           \A s \in Thread \ {t} : thread[s].pc \in Claiming =>
               /\ holders'[thread[s].node] = holders[thread[s].node]
               /\ shouldBeOnFreeList'[thread[s].node] = shouldBeOnFreeList[thread[s].node]
               /\ freeListRefs[thread[s].node] = 0 => freeListRefs'[thread[s].node] = 0
               /\ r.pc \in Claiming => thread[s].node # r.node,
           r.pc \in Claiming =>
               /\ holders'[r.node] = 0
               /\ shouldBeOnFreeList'[r.node] <=> r.pc \in Writing
               /\ r.pc \in Writing => freeListRefs'[r.node] = 0
    PROVE  ClaimsRight'
<1>1. thread'[t] = r /\ \A s \in Thread \ {t} : thread'[s] = thread[s]
  BY OneThread
<1>2. ASSUME NEW s \in Thread, s # t, thread[s].pc \in Claiming
      PROVE  /\ holders'[thread[s].node] = 0
             /\ shouldBeOnFreeList'[thread[s].node] <=> thread[s].pc \in Writing
             /\ thread[s].pc \in Writing => freeListRefs'[thread[s].node] = 0
             /\ \A u \in Thread \ {s} : thread'[u].pc \in Claiming =>
                                            thread'[u].node # thread[s].node
  BY <1>1, <1>2 DEF ClaimsRight
<1> QED
  BY <1>1, <1>2 DEF ClaimsRight

\* What the other threads know stays right while no pointer is written.
LEMMA LocalsStep ==
    ASSUME TypeOK, LocalsRight, NEW t \in Thread, NEW r \in Local, AtNode(r),
           thread' = [thread EXCEPT ![t] = r], LocalRight(r)', freeListNext' = freeListNext
    PROVE  LocalsRight'
<1>1. thread'[t] = r /\ \A s \in Thread \ {t} : thread'[s] = thread[s]
  BY OneThread
<1> QED
  BY <1>1 DEF LocalsRight, LocalRight

\* Who saw to a node still does, unless it is t.
LEMMA WantedStep ==
    ASSUME TypeOK, WantedIsKnown, NEW t \in Thread, NEW r \in Local, AtNode(r),
           thread' = [thread EXCEPT ![t] = r],
           NEW n \in Node,
           \A m \in Node \ {n} : /\ shouldBeOnFreeList'[m] = shouldBeOnFreeList[m]
                                 /\ freeListRefs'[m] = freeListRefs[m],
           thread[t].pc \in Writing => thread[t].node = n,
           shouldBeOnFreeList'[n] /\ freeListRefs'[n] = 0 =>
               r.pc \in Writing /\ r.node = n
    PROVE  WantedIsKnown'
<1>1. thread'[t] = r /\ \A s \in Thread \ {t} : thread'[s] = thread[s]
  BY OneThread
<1> SUFFICES ASSUME NEW m \in Node, shouldBeOnFreeList'[m], freeListRefs'[m] = 0
             PROVE  \E s \in Thread : thread'[s].pc \in Writing /\ thread'[s].node = m
  BY DEF WantedIsKnown
<1>2. CASE m = n
  BY <1>1, <1>2
<1>3. CASE m # n
  <2>1. PICK s \in Thread : thread[s].pc \in Writing /\ thread[s].node = m
    BY <1>3 DEF WantedIsKnown
  <2> QED
    BY <1>1, <1>3, <2>1
<1> QED
  BY <1>2, <1>3

(***************************************************************************)
(* Steps of try_get that write.                                            *)
(***************************************************************************)

LEMMA AcquireInv == ASSUME FInv, NEW t \in Thread, Acquire(t) PROVE FInv'
<1>1. TypeOK /\ LocalRight(thread[t]) /\ thread[t].pc = "acquire"
  BY InvLocals DEF FInv, Acquire, Step
<1>2. PICK n \in Node : n = thread[t].node
  BY <1>1 DEF TypeOK
<1>3. freeListRefs \in [Node -> Nat] /\ thread[t] \in Local
  BY <1>1, AtStep DEF TypeOK, Places
<1>4. CASE ~SameRefs(t)
  <2>1. PICK r : r = At(t, "load")
    OBVIOUS
  <2>2. r \in Local /\ r.pc = "load"
    BY <1>1, <2>1, AtStep DEF Places
  <2>3. thread' = [thread EXCEPT ![t] = r] /\ freeListRefs' = freeListRefs
        /\ UNCHANGED <<freeListHead, refs, freeListNext, holders>>
    BY <1>3, <1>4, <2>1 DEF Acquire, Step, Again, refs
  <2>4. AtNode(r) /\ LocalRight(r) /\ \A k \in Node : Refers(r, k) <=> Refers(thread[t], k)
    BY <1>1, <2>2 DEF AtNode, LocalRight, Refers
  <2> QED
    BY <1>1, <2>2, <2>3, <2>4, LocalStep DEF Claiming, Writing
<1>5. CASE SameRefs(t)
  <2>1. PICK r : r = [thread[t] EXCEPT !.pc = "next"]
    OBVIOUS
  <2>2. r \in Local /\ r.pc = "next" /\ r.node = n /\ r.head = thread[t].head
    BY <1>2, <1>3, <2>1 DEF Local, Places
  <2>3. AtNode(r) /\ LocalRight(r) /\ LocalRight(r)'
    BY <1>1, <1>2, <2>2 DEF AtNode, LocalRight
  <2>4. /\ thread' = [thread EXCEPT ![t] = r]
        /\ UNCHANGED <<freeListHead, shouldBeOnFreeList, freeListNext, holders>>
        /\ freeListRefs' = [freeListRefs EXCEPT ![n] = freeListRefs[n] + 1]
        /\ freeListRefs[n] # 0
    <3>1. At(t, "next") = r
      BY <1>1, <2>1, AtStep DEF Places
    <3> QED
      BY <1>1, <1>2, <1>5, <3>1 DEF Acquire, Step, SameRefs, LocalRight
  <2>5. freeListRefs' \in [Node -> Nat] /\ freeListRefs'[n] = freeListRefs[n] + 1
        /\ \A m \in Node \ {n} : freeListRefs'[m] = freeListRefs[m]
    BY <1>3, <2>4
  <2>6. TypeOK'
    BY <1>1, <2>2, <2>3, <2>4, <2>5, TypeStep DEF TypeOK
  <2>7. RefsCounted'
    <3>1. \A m \in Node : Refers(r, m) <=> m = n
      BY <2>2 DEF Refers
    <3>2. \A m \in Node : ~Refers(thread[t], m) /\ Counted(m)' = Counted(m)
      BY <1>1, <2>4 DEF Refers, Counted
    <3>3. \A m \in Node : freeListRefs'[m] = freeListRefs[m]
               + (IF Refers(r, m) THEN 1 ELSE 0) - (IF Refers(thread[t], m) THEN 1 ELSE 0)
               + (IF Counted(m)' THEN 1 ELSE 0) - (IF Counted(m) THEN 1 ELSE 0)
      BY <1>3, <2>5, <3>1, <3>2
    <3> QED
      BY <1>1, <2>2, <2>3, <2>4, <3>3, RefsStep DEF FInv
  <2>8. ClaimsRight'
    <3>1. r.pc \notin Claiming
      BY <2>2 DEF Claiming, Writing
    <3>2. ASSUME NEW s \in Thread, freeListRefs[thread[s].node] = 0, thread[s].node \in Node
          PROVE  freeListRefs'[thread[s].node] = 0
      BY <2>4, <2>5, <3>2
    <3>3. \A s \in Thread : thread[s].pc \in Claiming => thread[s].node \in Node
      BY <1>1 DEF TypeOK, Claiming, Writing
    <3> QED
      BY <1>1, <2>2, <2>3, <2>4, <3>1, <3>2, <3>3, ClaimsStep DEF FInv
  <2>9. HoldersRight' /\ LocalsRight'
    BY <1>1, <2>2, <2>3, <2>4, LocalsStep DEF FInv, HoldersRight
  <2>10. WantedIsKnown'
    <3>1. thread[t].pc \notin Writing /\ freeListRefs'[n] # 0
      BY <1>1, <1>3, <2>5 DEF Writing
    <3> QED
      BY <1>1, <2>2, <2>3, <2>4, <2>5, <3>1, WantedStep DEF FInv
  <2>11. OnList' = OnList
    <3>1. \A s \in Thread : /\ thread'[s].pc \in Claiming <=> thread[s].pc \in Claiming
                            /\ thread'[s].pc \in Claiming => thread'[s].node = thread[s].node
      BY <1>1, <2>2, <2>3, <2>4, OneThread DEF Claiming, Writing
    <3> QED
      BY <2>4, <3>1 DEF OnList, Counted
  <2> QED
    BY <2>4, <2>6, <2>7, <2>8, <2>9, <2>10, <2>11, SameList DEF FInv
<1> QED
  BY <1>4, <1>5

LEMMA PopInv == ASSUME FInv, NEW t \in Thread, Pop(t) PROVE FInv'
<1>1. TypeOK /\ LocalRight(thread[t]) /\ thread[t].pc = "pop"
  BY InvLocals DEF FInv, Pop, Step
<1>2. PICK n \in Node : n = thread[t].node
  BY <1>1 DEF TypeOK
<1>3. freeListNext \in [Node -> Node \cup {none}] /\ thread[t] \in Local
  BY <1>1, AtStep DEF TypeOK, Places
<1>4. PICK r : r = [thread[t] EXCEPT !.pc = "release2"]
  OBVIOUS
<1>5. r \in Local /\ r.pc = "release2" /\ r.node = n
  BY <1>2, <1>3, <1>4 DEF Local, Places
<1>6. AtNode(r) /\ LocalRight(r) /\ LocalRight(r)'
  BY <1>5 DEF AtNode, LocalRight
<1>7. /\ thread' = [thread EXCEPT ![t] = r]
      /\ UNCHANGED <<freeListRefs, shouldBeOnFreeList, freeListNext, holders>>
      /\ freeListHead = n /\ freeListHead' = freeListNext[n]
  <2>1. At(t, "release2") = r
    BY <1>1, <1>4, AtStep DEF Places
  <2> QED
    BY <1>1, <1>2, <2>1 DEF Pop, Step, LocalRight, refs
\* The node is the first of the list, so it is nobody's.
<1>8. n \in OnList /\ Counted(n) /\ \A s \in Thread : thread[s].pc \in Claiming => thread[s].node # n
  BY <1>7 DEF FInv, Chained, OnList
<1>9. TypeOK'
  BY <1>1, <1>3, <1>5, <1>6, <1>7, TypeStep DEF TypeOK
<1>10. RefsCounted'
  <2>1. \A m \in Node : Refers(r, m) <=> Refers(thread[t], m)
    BY <1>1, <1>2, <1>5 DEF Refers
  <2>2. \A m \in Node : Counted(m)' = Counted(m) /\ freeListRefs'[m] = freeListRefs[m]
                        /\ freeListRefs[m] \in Nat
    BY <1>1, <1>7 DEF Counted, TypeOK
  <2> QED
    <3>1. \A m \in Node : freeListRefs'[m] = freeListRefs[m]
               + (IF Refers(r, m) THEN 1 ELSE 0) - (IF Refers(thread[t], m) THEN 1 ELSE 0)
               + (IF Counted(m)' THEN 1 ELSE 0) - (IF Counted(m) THEN 1 ELSE 0)
      BY <2>1, <2>2
    <3> QED
      BY <1>1, <1>5, <1>6, <1>7, <3>1, RefsStep DEF FInv
<1>11. ClaimsRight'
  <2>1. r.pc \in Claiming /\ r.pc \notin Writing /\ holders[n] = 0 /\ ~shouldBeOnFreeList[n]
    BY <1>5, <1>8 DEF Claiming, Writing, Counted
  <2> QED
    BY <1>1, <1>5, <1>6, <1>7, <1>8, <2>1, ClaimsStep DEF FInv
<1>12. HoldersRight' /\ LocalsRight'
  BY <1>1, <1>5, <1>6, <1>7, LocalsStep DEF FInv, HoldersRight
<1>13. WantedIsKnown'
  <2>1. thread[t].pc \notin Writing /\ ~shouldBeOnFreeList'[n]
    BY <1>1, <1>7, <1>8 DEF Writing, Counted
  <2> QED
    BY <1>1, <1>5, <1>6, <1>7, <2>1, WantedStep DEF FInv
<1>14. OnList' = OnList \ {n}
  <2>1. thread'[t] = r /\ \A s \in Thread \ {t} : thread'[s] = thread[s]
    BY <1>1, <1>5, <1>6, <1>7, OneThread
  <2>2. thread[t].pc \notin Claiming /\ r.pc \in Claiming
    BY <1>1, <1>5 DEF Claiming, Writing
  <2> QED
    BY <1>5, <1>7, <2>1, <2>2 DEF OnList, Counted
<1>15. Chained'
  BY <1>7, <1>8, <1>14 DEF FInv, Chained
<1>16. Reachable'
  <2> SUFFICES ASSUME NEW S \in SUBSET Node, Closed(S)' PROVE OnList' \subseteq S
    BY DEF Reachable
  <2>1. Closed(S \cup {n})
    BY <1>7 DEF Closed
  <2>2. OnList \subseteq S \cup {n}
    BY <2>1 DEF FInv, Reachable
  <2> QED
    BY <1>14, <2>2
<1> QED
  BY <1>9, <1>10, <1>11, <1>12, <1>13, <1>15, <1>16 DEF FInv

LEMMA Release2Inv == ASSUME FInv, NEW t \in Thread, Release2(t) PROVE FInv'
<1>1. TypeOK /\ thread[t].pc = "release2"
  BY DEF FInv, Release2, Step
<1>2. PICK n \in Node : n = thread[t].node
  BY <1>1 DEF TypeOK
<1>3. /\ freeListRefs \in [Node -> Nat] /\ holders \in [Node -> Nat]
      /\ Idle \in Local /\ Idle.pc = "idle" /\ AtNode(Idle)
  BY <1>1, AtStep DEF TypeOK, Places, Idle, AtNode
<1>4. LocalRight(Idle) /\ LocalRight(Idle)'
  BY <1>3 DEF LocalRight
<1>5. /\ thread' = [thread EXCEPT ![t] = Idle]
      /\ freeListRefs' = [freeListRefs EXCEPT ![n] = @ - 2]
      /\ holders' = [holders EXCEPT ![n] = @ + 1]
      /\ UNCHANGED <<freeListHead, shouldBeOnFreeList, freeListNext>>
  BY <1>2 DEF Release2, Step
\* The node is t's own, and both t and the list are counted.
<1>6. /\ holders[n] = 0 /\ ~shouldBeOnFreeList[n] /\ Counted(n)
      /\ \A s \in Thread \ {t} : thread[s].pc \in Claiming => thread[s].node # n
  BY <1>1, <1>2 DEF FInv, ClaimsRight, Claiming, Writing, Counted
<1>7. Refers(thread[t], n) /\ freeListRefs[n] >= 2
  <2>1. Refers(thread[t], n)
    BY <1>1, <1>2 DEF Refers
  <2> QED
    BY <1>1, <1>6, <2>1, Unreferred DEF FInv
<1>8. /\ freeListRefs' \in [Node -> Nat] /\ holders' \in [Node -> Nat]
      /\ freeListRefs'[n] = freeListRefs[n] - 2 /\ holders'[n] = 1
      /\ \A m \in Node \ {n} : freeListRefs'[m] = freeListRefs[m] /\ holders'[m] = holders[m]
  BY <1>3, <1>5, <1>6, <1>7
<1>9. TypeOK'
  BY <1>1, <1>3, <1>5, <1>8, TypeStep DEF TypeOK
<1>10. RefsCounted'
  <2>1. \A m \in Node : ~Refers(Idle, m) /\ (Refers(thread[t], m) <=> m = n)
    BY <1>1, <1>2, <1>3 DEF Refers
  <2>2. ~Counted(n)' /\ \A m \in Node \ {n} : Counted(m)' = Counted(m)
    BY <1>5, <1>8 DEF Counted
  <2>3. \A m \in Node : freeListRefs[m] \in Nat
    BY <1>3
  <2>4. \A m \in Node : freeListRefs'[m] = freeListRefs[m]
               + (IF Refers(Idle, m) THEN 1 ELSE 0) - (IF Refers(thread[t], m) THEN 1 ELSE 0)
               + (IF Counted(m)' THEN 1 ELSE 0) - (IF Counted(m) THEN 1 ELSE 0)
    BY <1>6, <1>8, <2>1, <2>2, <2>3
  <2> QED
    BY <1>1, <1>3, <1>5, <2>4, RefsStep DEF FInv
<1>11. ClaimsRight'
  <2>1. \A s \in Thread : thread[s].pc \in Claiming => thread[s].node \in Node
    BY <1>1 DEF TypeOK, Claiming, Writing
  <2>2. Idle.pc \notin Claiming
    BY <1>3 DEF Claiming, Writing
  <2> QED
    <3>1. \A s \in Thread \ {t} : thread[s].pc \in Claiming =>
              /\ holders'[thread[s].node] = holders[thread[s].node]
              /\ freeListRefs'[thread[s].node] = freeListRefs[thread[s].node]
      BY <1>6, <1>8, <2>1
    <3> QED
      BY <1>1, <1>3, <1>5, <2>2, <3>1, ClaimsStep DEF FInv
<1>12. HoldersRight'
  BY <1>5, <1>6, <1>8 DEF FInv, HoldersRight
<1>13. LocalsRight'
  BY <1>1, <1>3, <1>4, <1>5, LocalsStep DEF FInv
<1>14. WantedIsKnown'
  <2>1. thread[t].pc \notin Writing /\ ~shouldBeOnFreeList'[n]
    BY <1>1, <1>5, <1>6 DEF Writing
  <2> QED
    BY <1>1, <1>3, <1>5, <1>8, <2>1, WantedStep DEF FInv
<1>15. OnList' = OnList
  <2>1. thread'[t] = Idle /\ \A s \in Thread \ {t} : thread'[s] = thread[s]
    BY <1>1, <1>3, <1>5, OneThread
  <2>2. thread[t].pc \in Claiming /\ Idle.pc \notin Claiming
    BY <1>1, <1>3 DEF Claiming, Writing
  <2>3. n \notin OnList /\ n \notin OnList'
    BY <1>2, <1>8, <2>2 DEF OnList, Counted
  <2>4. \A m \in Node \ {n} : m \in OnList' <=> m \in OnList
    BY <1>2, <1>5, <1>8, <2>1, <2>2 DEF OnList, Counted
  <2> QED
    BY <2>3, <2>4 DEF OnList
<1> QED
  BY <1>5, <1>9, <1>10, <1>11, <1>12, <1>13, <1>14, <1>15, SameList DEF FInv

LEMMA ReleaseInv == ASSUME FInv, NEW t \in Thread, Release(t) PROVE FInv'
<1>1. TypeOK /\ thread[t].pc = "release"
  BY DEF FInv, Release, Step
<1>2. PICK n \in Node, h \in Node \cup {none} : n = thread[t].node /\ h = thread[t].head
  BY <1>1 DEF TypeOK
<1>3. freeListRefs \in [Node -> Nat] /\ thread[t] \in Local
  BY <1>1, AtStep DEF TypeOK, Places
<1>4. PICK r : r = IF LastReference(n) THEN [thread[t] EXCEPT !.pc = "add"] ELSE Loop(h)
  OBVIOUS
<1>5. /\ r \in Local /\ AtNode(r) /\ LocalRight(r) /\ LocalRight(r)'
      /\ LastReference(n) => r.pc = "add" /\ r.node = n
      /\ ~LastReference(n) => r.pc \in {"idle", "refs"}
  <2>1. CASE LastReference(n)
    <3>1. r \in Local /\ r.pc = "add" /\ r.node = n
      BY <1>2, <1>3, <1>4, <2>1 DEF Local, Places
    <3> QED
      BY <2>1, <3>1 DEF AtNode, LocalRight
  <2>2. CASE ~LastReference(n)
    <3>1. r \in Local /\ AtNode(r) /\ LocalRight(r) /\ r.pc \in {"idle", "refs"}
      BY <1>1, <1>4, <2>2, AtStep DEF Places
    <3> QED
      BY <2>2, <3>1 DEF LocalRight
  <2> QED
    BY <2>1, <2>2
<1>6. /\ thread' = [thread EXCEPT ![t] = r]
      /\ freeListRefs' = [freeListRefs EXCEPT ![n] = @ - 1]
      /\ UNCHANGED <<freeListHead, shouldBeOnFreeList, freeListNext, holders>>
  <2>1. At(t, "add") = [thread[t] EXCEPT !.pc = "add"]
    BY <1>1, AtStep DEF Places
  <2> QED
    BY <1>2, <1>4, <2>1 DEF Release, Step
<1>7. Refers(thread[t], n) /\ freeListRefs[n] >= 1
  <2>1. Refers(thread[t], n)
    BY <1>1, <1>2 DEF Refers
  <2>2. freeListRefs[n] >= 1 + IF Counted(n) THEN 1 ELSE 0
    BY <1>1, <2>1, Unreferred DEF FInv
  <2> QED
    BY <1>3, <2>1, <2>2
<1>8. /\ freeListRefs' \in [Node -> Nat] /\ freeListRefs'[n] = freeListRefs[n] - 1
      /\ \A m \in Node \ {n} : freeListRefs'[m] = freeListRefs[m]
  BY <1>3, <1>6, <1>7
\* If the reference is the last one of a wanted node, nobody has the node.
<1>9. LastReference(n) => /\ shouldBeOnFreeList[n] /\ freeListRefs'[n] = 0 /\ holders[n] = 0
                          /\ \A s \in Thread : thread[s].pc \in Claiming => thread[s].node # n
  <2>1. LastReference(n) => shouldBeOnFreeList[n] /\ freeListRefs[n] = 1
    BY DEF LastReference
  <2>2. LastReference(n) => \A s \in Thread : thread[s].pc \in Claiming => thread[s].node # n
    BY <2>1 DEF FInv, ClaimsRight
  <2>3. LastReference(n) => holders[n] = 0
    BY <2>1 DEF FInv, HoldersRight
  <2> QED
    BY <1>8, <2>1, <2>2, <2>3
<1>10. TypeOK'
  BY <1>1, <1>5, <1>6, <1>8, TypeStep DEF TypeOK
<1>11. RefsCounted'
  <2>1. \A m \in Node : ~Refers(r, m) /\ (Refers(thread[t], m) <=> m = n)
    BY <1>1, <1>2, <1>5 DEF Refers
  <2>2. \A m \in Node : Counted(m)' = Counted(m) /\ freeListRefs[m] \in Nat
    BY <1>3, <1>6 DEF Counted
  <2>3. \A m \in Node : freeListRefs'[m] = freeListRefs[m]
               + (IF Refers(r, m) THEN 1 ELSE 0) - (IF Refers(thread[t], m) THEN 1 ELSE 0)
               + (IF Counted(m)' THEN 1 ELSE 0) - (IF Counted(m) THEN 1 ELSE 0)
    BY <1>8, <2>1, <2>2
  <2> QED
    BY <1>1, <1>5, <1>6, <2>3, RefsStep DEF FInv
<1>12. ClaimsRight'
  <2>1. \A s \in Thread : thread[s].pc \in Claiming => thread[s].node \in Node
    BY <1>1 DEF TypeOK, Claiming, Writing
  <2>2. \A s \in Thread \ {t} : thread[s].pc \in Claiming =>
            /\ freeListRefs[thread[s].node] = 0 => freeListRefs'[thread[s].node] = 0
            /\ r.pc \in Claiming => thread[s].node # r.node
    <3>1. ~LastReference(n) => r.pc \notin Claiming
      BY <1>5 DEF Claiming, Writing
    <3>2. \A s \in Thread : thread[s].pc \in Claiming /\ freeListRefs[thread[s].node] = 0 =>
              freeListRefs'[thread[s].node] = 0
      BY <1>7, <1>8, <2>1
    <3> QED
      BY <1>5, <1>9, <3>1, <3>2
  <2>3. r.pc \in Claiming =>
               /\ holders'[r.node] = 0
               /\ shouldBeOnFreeList'[r.node] <=> r.pc \in Writing
               /\ r.pc \in Writing => freeListRefs'[r.node] = 0
    <3>1. CASE LastReference(n)
      BY <1>5, <1>6, <1>9, <3>1 DEF Writing
    <3>2. CASE ~LastReference(n)
      BY <1>5, <3>2 DEF Claiming, Writing
    <3> QED
      BY <3>1, <3>2
  <2> QED
    BY <1>1, <1>5, <1>6, <2>2, <2>3, ClaimsStep DEF FInv
<1>13. HoldersRight' /\ LocalsRight'
  BY <1>1, <1>5, <1>6, LocalsStep DEF FInv, HoldersRight
<1>14. WantedIsKnown'
  <2>1. thread[t].pc \notin Writing
    BY <1>1 DEF Writing
  <2>2. shouldBeOnFreeList'[n] /\ freeListRefs'[n] = 0 => r.pc \in Writing /\ r.node = n
    <3>1. shouldBeOnFreeList'[n] /\ freeListRefs'[n] = 0 => LastReference(n)
      BY <1>3, <1>6, <1>8 DEF LastReference
    <3> QED
      BY <1>5, <3>1 DEF Writing
  <2> QED
    BY <1>1, <1>5, <1>6, <1>8, <2>1, <2>2, WantedStep DEF FInv
<1>15. OnList' = OnList
  <2>1. thread'[t] = r /\ \A s \in Thread \ {t} : thread'[s] = thread[s]
    BY <1>1, <1>5, <1>6, OneThread
  <2>2. thread[t].pc \notin Claiming /\ \A m \in Node : Counted(m)' = Counted(m)
    BY <1>1, <1>6 DEF Claiming, Writing, Counted
  <2>3. r.pc \in Claiming => r.node = n /\ ~Counted(n)
    BY <1>5, <1>9 DEF Claiming, Writing, Counted
  <2> QED
    BY <2>1, <2>2, <2>3 DEF OnList
<1> QED
  BY <1>6, <1>10, <1>11, <1>12, <1>13, <1>14, <1>15, SameList DEF FInv

(***************************************************************************)
(* Steps of add and add_knowing_refcount_is_zero that write.               *)
(***************************************************************************)

LEMMA AddInv == ASSUME FInv, NEW t \in Thread, add(t) PROVE FInv'
<1>1. TypeOK /\ thread[t].pc = "idle"
  BY DEF FInv, add, Step
<1>2. PICK n \in used :
        /\ thread' = [thread EXCEPT ![t] = IF Unreferenced(n) THEN [At(t, "add") EXCEPT !.node = n]
                                                              ELSE Idle]
        /\ shouldBeOnFreeList' = [shouldBeOnFreeList EXCEPT ![n] = TRUE]
        /\ holders' = [holders EXCEPT ![n] = @ - 1]
        /\ UNCHANGED <<freeListHead, freeListRefs, freeListNext>>
  BY DEF add, Step
<1>3. n \in Node /\ holders[n] = 1 /\ ~shouldBeOnFreeList[n]
  BY <1>1 DEF FInv, HoldersRight, used, TypeOK
<1>4. /\ shouldBeOnFreeList \in [Node -> BOOLEAN] /\ holders \in [Node -> Nat]
      /\ freeListRefs \in [Node -> Nat]
  BY <1>1 DEF TypeOK
<1>5. PICK r : r = IF Unreferenced(n) THEN [At(t, "add") EXCEPT !.node = n] ELSE Idle
  OBVIOUS
<1>6. /\ r \in Local /\ AtNode(r) /\ LocalRight(r) /\ LocalRight(r)'
      /\ Unreferenced(n) => r.pc = "add" /\ r.node = n
      /\ ~Unreferenced(n) => r.pc = "idle"
  <2>1. CASE Unreferenced(n)
    <3>1. At(t, "add") \in Local /\ At(t, "add").pc = "add"
      BY <1>1, AtStep DEF Places
    <3>2. r \in Local /\ r.pc = "add" /\ r.node = n
      BY <1>3, <1>5, <2>1, <3>1 DEF Local
    <3> QED
      BY <1>3, <2>1, <3>2 DEF AtNode, LocalRight
  <2>2. CASE ~Unreferenced(n)
    <3>1. r \in Local /\ r.pc = "idle"
      BY <1>1, <1>5, <2>2, AtStep DEF Places, Idle
    <3> QED
      BY <2>2, <3>1 DEF AtNode, LocalRight
  <2> QED
    BY <2>1, <2>2
<1>7. thread' = [thread EXCEPT ![t] = r]
  BY <1>2, <1>5
<1>8. /\ holders' \in [Node -> Nat] /\ shouldBeOnFreeList' \in [Node -> BOOLEAN]
      /\ holders'[n] = 0 /\ shouldBeOnFreeList'[n]
      /\ \A m \in Node \ {n} : /\ holders'[m] = holders[m]
                               /\ shouldBeOnFreeList'[m] = shouldBeOnFreeList[m]
  BY <1>2, <1>3, <1>4
\* The node was in use, so nobody had claimed it.
<1>9. \A s \in Thread : thread[s].pc \in Claiming => thread[s].node \in Node \ {n}
  BY <1>1, <1>3 DEF FInv, ClaimsRight, TypeOK, Claiming, Writing
<1>10. TypeOK'
  BY <1>1, <1>2, <1>4, <1>6, <1>7, <1>8, TypeStep DEF TypeOK
<1>11. RefsCounted'
  <2>1. \A m \in Node : ~Refers(r, m) /\ ~Refers(thread[t], m)
    BY <1>1, <1>6 DEF Refers
  <2>2. \A m \in Node : Counted(m)' = Counted(m)
    BY <1>3, <1>8 DEF Counted
  <2>3. \A m \in Node : freeListRefs'[m] = freeListRefs[m]
               + (IF Refers(r, m) THEN 1 ELSE 0) - (IF Refers(thread[t], m) THEN 1 ELSE 0)
               + (IF Counted(m)' THEN 1 ELSE 0) - (IF Counted(m) THEN 1 ELSE 0)
    BY <1>2, <1>4, <2>1, <2>2
  <2> QED
    BY <1>1, <1>6, <1>7, <2>3, RefsStep DEF FInv
<1>12. ClaimsRight'
  <2>1. \A s \in Thread \ {t} : thread[s].pc \in Claiming =>
            /\ holders'[thread[s].node] = holders[thread[s].node]
            /\ shouldBeOnFreeList'[thread[s].node] = shouldBeOnFreeList[thread[s].node]
            /\ freeListRefs'[thread[s].node] = freeListRefs[thread[s].node]
            /\ thread[s].node # n
    BY <1>2, <1>8, <1>9
  <2>2. r.pc \in Claiming =>
               /\ r.node = n /\ holders'[r.node] = 0
               /\ shouldBeOnFreeList'[r.node] <=> r.pc \in Writing
               /\ r.pc \in Writing => freeListRefs'[r.node] = 0
    BY <1>2, <1>6, <1>8 DEF Claiming, Writing, Unreferenced
  <2> QED
    <3>1. \A s \in Thread \ {t} : thread[s].pc \in Claiming =>
            /\ holders'[thread[s].node] = holders[thread[s].node]
            /\ shouldBeOnFreeList'[thread[s].node] = shouldBeOnFreeList[thread[s].node]
            /\ freeListRefs[thread[s].node] = 0 => freeListRefs'[thread[s].node] = 0
            /\ r.pc \in Claiming => thread[s].node # r.node
      BY <2>1, <2>2
    <3>2. ClaimsRight
      BY DEF FInv
    <3> QED
      BY <1>1, <1>6, <1>7, <2>2, <3>1, <3>2, ClaimsStep
<1>13. HoldersRight'
  BY <1>8 DEF FInv, HoldersRight
<1>14. LocalsRight'
  BY <1>1, <1>2, <1>6, <1>7, LocalsStep DEF FInv
<1>15. WantedIsKnown'
  <2>1. thread[t].pc \notin Writing
    BY <1>1 DEF Writing
  <2>2. shouldBeOnFreeList'[n] /\ freeListRefs'[n] = 0 => r.pc \in Writing /\ r.node = n
    BY <1>2, <1>6 DEF Writing, Unreferenced
  <2> QED
    <3>1. \A m \in Node \ {n} : /\ shouldBeOnFreeList'[m] = shouldBeOnFreeList[m]
                                 /\ freeListRefs'[m] = freeListRefs[m]
      BY <1>2, <1>8
    <3>2. TypeOK /\ WantedIsKnown
      BY DEF FInv
    <3>3. thread[t].pc \in Writing => thread[t].node = n
      BY <2>1
    <3> QED
      BY <1>3, <1>6, <1>7, <2>2, <3>1, <3>2, <3>3, WantedStep
<1>16. OnList' = OnList
  <2>1. thread'[t] = r /\ \A s \in Thread \ {t} : thread'[s] = thread[s]
    BY <1>1, <1>6, <1>7, OneThread
  <2>2. thread[t].pc \notin Claiming /\ (r.pc \in Claiming => r.node = n)
    BY <1>1, <1>6 DEF Claiming, Writing
  <2>3. ~Counted(n) /\ \A m \in Node : Counted(m)' = Counted(m)
    BY <1>3, <1>8 DEF Counted
  <2> QED
    BY <2>1, <2>2, <2>3 DEF OnList
<1> QED
  BY <1>2, <1>10, <1>11, <1>12, <1>13, <1>14, <1>15, <1>16, SameList DEF FInv

LEMMA SetNextInv == ASSUME FInv, NEW t \in Thread, SetNext(t) PROVE FInv'
<1>1. TypeOK /\ thread[t].pc = "setNext"
  BY DEF FInv, SetNext, Step
<1>2. PICK n \in Node, h \in Node \cup {none} : n = thread[t].node /\ h = thread[t].next
  BY <1>1 DEF TypeOK
<1>3. freeListNext \in [Node -> Node \cup {none}] /\ thread[t] \in Local
  BY <1>1, AtStep DEF TypeOK, Places
<1>4. PICK r : r = [thread[t] EXCEPT !.pc = "setRefs"]
  OBVIOUS
<1>5. r \in Local /\ AtNode(r) /\ r.pc = "setRefs" /\ r.node = n /\ r.next = h
  BY <1>2, <1>3, <1>4 DEF Local, Places, AtNode
<1>6. /\ thread' = [thread EXCEPT ![t] = r]
      /\ freeListNext' = [freeListNext EXCEPT ![n] = h]
      /\ UNCHANGED <<freeListHead, freeListRefs, shouldBeOnFreeList, holders>>
  <2>1. At(t, "setRefs") = r
    BY <1>1, <1>4, AtStep DEF Places
  <2> QED
    BY <1>2, <2>1 DEF SetNext, Step, refs
<1>7. thread'[t] = r /\ \A s \in Thread \ {t} : thread'[s] = thread[s]
  BY <1>1, <1>5, <1>6, OneThread
<1>8. /\ freeListNext' \in [Node -> Node \cup {none}] /\ freeListNext'[n] = h
      /\ \A m \in Node \ {n} : freeListNext'[m] = freeListNext[m]
  BY <1>3, <1>6
\* Nobody else has the node, and nobody refers to it.
<1>9. /\ holders[n] = 0 /\ shouldBeOnFreeList[n] /\ freeListRefs[n] = 0
      /\ \A s \in Thread \ {t} : thread[s].pc \in Claiming => thread[s].node # n
  BY <1>1, <1>2 DEF FInv, ClaimsRight, Claiming, Writing
<1>10. \A s \in Thread : ~Refers(thread[s], n)
  BY <1>1, <1>9, Unreferred DEF FInv
<1>11. TypeOK'
  BY <1>1, <1>5, <1>6, <1>8, TypeStep DEF TypeOK
<1>12. RefsCounted'
  <2>1. \A m \in Node : ~Refers(r, m) /\ ~Refers(thread[t], m)
    BY <1>1, <1>5 DEF Refers
  <2>2. \A m \in Node : Counted(m)' = Counted(m) /\ freeListRefs[m] \in Nat
    BY <1>1, <1>6 DEF Counted, TypeOK
  <2>3. \A m \in Node : freeListRefs'[m] = freeListRefs[m]
               + (IF Refers(r, m) THEN 1 ELSE 0) - (IF Refers(thread[t], m) THEN 1 ELSE 0)
               + (IF Counted(m)' THEN 1 ELSE 0) - (IF Counted(m) THEN 1 ELSE 0)
    BY <1>6, <2>1, <2>2
  <2> QED
    BY <1>1, <1>5, <1>6, <2>3, RefsStep DEF FInv
<1>13. ClaimsRight'
  <2>1. r.pc \in Writing
    BY <1>5 DEF Writing
  <2>2. ClaimsRight
    BY DEF FInv
  <2> QED
    BY <1>1, <1>5, <1>6, <1>9, <2>1, <2>2, ClaimsStep
<1>14. HoldersRight'
  BY <1>6 DEF FInv, HoldersRight
<1>15. WantedIsKnown'
  <2>1. thread[t].pc \in Writing /\ r.pc \in Writing /\ WantedIsKnown
    BY <1>1, <1>5 DEF Writing, FInv
  <2> QED
    BY <1>1, <1>2, <1>5, <1>6, <2>1, WantedStep
\* What the others know of a pointer is of another node's.
<1>16. LocalsRight'
  <2>1. LocalRight(r)'
    BY <1>5, <1>8 DEF LocalRight
  <2>2. ASSUME NEW s \in Thread, s # t PROVE LocalRight(thread[s])'
    <3>1. LocalRight(thread[s])
      BY <1>1, InvLocals DEF FInv
    <3>2. thread[s].pc \in {"pop", "setRefs", "push"} => thread[s].node \in Node \ {n}
      BY <1>1, <1>9, <1>10, <2>2 DEF TypeOK, Refers, Claiming, Writing
    <3> QED
      BY <1>7, <1>8, <2>2, <3>1, <3>2 DEF LocalRight
  <2> QED
    BY <1>7, <2>1, <2>2 DEF LocalsRight, LocalRight
<1>17. OnList' = OnList /\ n \notin OnList
  <2>1. \A s \in Thread : /\ thread'[s].pc \in Claiming <=> thread[s].pc \in Claiming
                          /\ thread'[s].pc \in Claiming => thread'[s].node = thread[s].node
    BY <1>1, <1>2, <1>5, <1>7 DEF Claiming, Writing
  <2> QED
    BY <1>6, <1>9, <2>1 DEF OnList, Counted
<1>18. Chained'
  <2>1. \A m \in OnList : m \in Node /\ freeListNext'[m] = freeListNext[m]
    BY <1>8, <1>17 DEF OnList
  <2> QED
    BY <1>6, <1>17, <2>1 DEF FInv, Chained
<1>19. Reachable'
  <2> SUFFICES ASSUME NEW S \in SUBSET Node, Closed(S)' PROVE OnList' \subseteq S
    BY DEF Reachable
  <2>1. Closed(S \cap OnList)
    BY <1>6, <1>8, <1>17 DEF FInv, Chained, Closed
  <2> QED
    BY <1>17, <2>1 DEF FInv, Reachable
<1> QED
  BY <1>11, <1>12, <1>13, <1>14, <1>15, <1>16, <1>18, <1>19 DEF FInv

LEMMA SetRefsInv == ASSUME FInv, NEW t \in Thread, SetRefs(t) PROVE FInv'
<1>1. TypeOK /\ LocalRight(thread[t]) /\ thread[t].pc = "setRefs"
  BY InvLocals DEF FInv, SetRefs, Step
<1>2. PICK n \in Node : n = thread[t].node
  BY <1>1 DEF TypeOK
<1>3. /\ freeListRefs \in [Node -> Nat] /\ shouldBeOnFreeList \in [Node -> BOOLEAN]
      /\ thread[t] \in Local
  BY <1>1, AtStep DEF TypeOK, Places
<1>4. PICK r : r = [thread[t] EXCEPT !.pc = "push"]
  OBVIOUS
<1>5. r \in Local /\ AtNode(r) /\ r.pc = "push" /\ r.node = n /\ r.next = thread[t].next
  BY <1>2, <1>3, <1>4 DEF Local, Places, AtNode
<1>6. /\ thread' = [thread EXCEPT ![t] = r]
      /\ freeListRefs' = [freeListRefs EXCEPT ![n] = 1]
      /\ shouldBeOnFreeList' = [shouldBeOnFreeList EXCEPT ![n] = FALSE]
      /\ UNCHANGED <<freeListHead, freeListNext, holders>>
  <2>1. At(t, "push") = r
    BY <1>1, <1>4, AtStep DEF Places
  <2> QED
    BY <1>2, <2>1 DEF SetRefs, Step
<1>7. /\ freeListRefs' \in [Node -> Nat] /\ shouldBeOnFreeList' \in [Node -> BOOLEAN]
      /\ freeListRefs'[n] = 1 /\ ~shouldBeOnFreeList'[n]
      /\ \A m \in Node \ {n} : /\ freeListRefs'[m] = freeListRefs[m]
                               /\ shouldBeOnFreeList'[m] = shouldBeOnFreeList[m]
  BY <1>3, <1>6
<1>8. /\ holders[n] = 0 /\ shouldBeOnFreeList[n] /\ freeListRefs[n] = 0
      /\ \A s \in Thread \ {t} : thread[s].pc \in Claiming => thread[s].node # n
  BY <1>1, <1>2 DEF FInv, ClaimsRight, Claiming, Writing
<1>9. TypeOK'
  BY <1>1, <1>5, <1>6, <1>7, TypeStep DEF TypeOK
<1>10. RefsCounted'
  <2>1. \A m \in Node : ~Refers(r, m) /\ ~Refers(thread[t], m)
    BY <1>1, <1>5 DEF Refers
  <2>2. /\ ~Counted(n) /\ Counted(n)'
        /\ \A m \in Node \ {n} : Counted(m)' = Counted(m)
    BY <1>6, <1>7, <1>8 DEF Counted
  <2>3. \A m \in Node : freeListRefs'[m] = freeListRefs[m]
               + (IF Refers(r, m) THEN 1 ELSE 0) - (IF Refers(thread[t], m) THEN 1 ELSE 0)
               + (IF Counted(m)' THEN 1 ELSE 0) - (IF Counted(m) THEN 1 ELSE 0)
    BY <1>3, <1>7, <1>8, <2>1, <2>2
  <2> QED
    BY <1>1, <1>5, <1>6, <2>3, RefsStep DEF FInv
<1>11. ClaimsRight'
  <2>1. r.pc \notin Writing /\ ClaimsRight
    BY <1>5 DEF Writing, FInv
  <2>2. \A s \in Thread \ {t} : thread[s].pc \in Claiming => thread[s].node \in Node \ {n}
    BY <1>1, <1>8 DEF TypeOK, Claiming, Writing
  <2>3. \A s \in Thread \ {t} : thread[s].pc \in Claiming =>
            /\ holders'[thread[s].node] = holders[thread[s].node]
            /\ shouldBeOnFreeList'[thread[s].node] = shouldBeOnFreeList[thread[s].node]
            /\ freeListRefs'[thread[s].node] = freeListRefs[thread[s].node]
            /\ thread[s].node # r.node
    BY <1>5, <1>6, <1>7, <2>2
  <2>4. holders'[r.node] = 0 /\ ~shouldBeOnFreeList'[r.node]
    BY <1>5, <1>6, <1>7, <1>8
  <2> QED
    BY <1>1, <1>5, <1>6, <2>1, <2>3, <2>4, ClaimsStep
<1>12. HoldersRight'
  BY <1>6, <1>7 DEF FInv, HoldersRight
<1>13. LocalsRight'
  <2>1. LocalRight(r)'
    BY <1>1, <1>2, <1>5, <1>6 DEF LocalRight
  <2> QED
    BY <1>1, <1>5, <1>6, <2>1, LocalsStep DEF FInv
<1>14. WantedIsKnown'
  <2>1. WantedIsKnown
    BY DEF FInv
  <2> QED
    BY <1>1, <1>2, <1>5, <1>6, <1>7, <2>1, WantedStep
<1>15. OnList' = OnList
  <2>1. \A s \in Thread : /\ thread'[s].pc \in Claiming <=> thread[s].pc \in Claiming
                          /\ thread'[s].pc \in Claiming => thread'[s].node = thread[s].node
    BY <1>1, <1>2, <1>5, <1>6, OneThread DEF Claiming, Writing
  <2>2. n \notin OnList /\ n \notin OnList'
    BY <1>1, <1>2, <2>1 DEF OnList, Claiming, Writing
  <2>3. \A m \in Node \ {n} : m \in OnList' <=> m \in OnList
    BY <1>6, <1>7, <2>1 DEF OnList, Counted
  <2> QED
    BY <2>2, <2>3 DEF OnList
<1> QED
  BY <1>6, <1>9, <1>10, <1>11, <1>12, <1>13, <1>14, <1>15, SameList DEF FInv

LEMMA PushInv == ASSUME FInv, NEW t \in Thread, Push(t) PROVE FInv'
<1>1. TypeOK /\ LocalRight(thread[t]) /\ thread[t].pc = "push"
  BY InvLocals DEF FInv, Push, Step
<1>2. PICK n \in Node, h \in Node \cup {none} : n = thread[t].node /\ h = thread[t].head
  BY <1>1 DEF TypeOK
<1>3. PICK r : r = Loop(h)
  OBVIOUS
<1>4. r \in Local /\ AtNode(r) /\ LocalRight(r) /\ r.pc \in {"idle", "refs"}
  BY <1>1, <1>3, AtStep DEF Places
<1>5. LocalRight(r)'
  BY <1>4 DEF LocalRight
<1>6. /\ thread' = [thread EXCEPT ![t] = r]
      /\ freeListHead = freeListNext[n] /\ freeListHead' = n
      /\ UNCHANGED <<freeListRefs, shouldBeOnFreeList, freeListNext, holders>>
  BY <1>1, <1>2, <1>3 DEF Push, Step, LocalRight, refs
<1>7. thread'[t] = r /\ \A s \in Thread \ {t} : thread'[s] = thread[s]
  BY <1>1, <1>4, <1>6, OneThread
<1>8. /\ holders[n] = 0 /\ ~shouldBeOnFreeList[n]
      /\ \A s \in Thread \ {t} : thread[s].pc \in Claiming => thread[s].node # n
  BY <1>1, <1>2 DEF FInv, ClaimsRight, Claiming, Writing
<1>9. TypeOK'
  BY <1>1, <1>4, <1>6, TypeStep DEF TypeOK
<1>10. RefsCounted'
  <2>1. \A m \in Node : ~Refers(r, m) /\ ~Refers(thread[t], m)
    BY <1>1, <1>4 DEF Refers
  <2>2. \A m \in Node : Counted(m)' = Counted(m) /\ freeListRefs[m] \in Nat
    BY <1>1, <1>6 DEF Counted, TypeOK
  <2>3. \A m \in Node : freeListRefs'[m] = freeListRefs[m]
               + (IF Refers(r, m) THEN 1 ELSE 0) - (IF Refers(thread[t], m) THEN 1 ELSE 0)
               + (IF Counted(m)' THEN 1 ELSE 0) - (IF Counted(m) THEN 1 ELSE 0)
    BY <1>6, <2>1, <2>2
  <2> QED
    BY <1>1, <1>4, <1>6, <2>3, RefsStep DEF FInv
<1>11. ClaimsRight' /\ HoldersRight'
  <2>1. r.pc \notin Claiming /\ ClaimsRight
    BY <1>4 DEF Claiming, Writing, FInv
  <2> QED
    BY <1>1, <1>4, <1>6, <2>1, ClaimsStep DEF FInv, HoldersRight
<1>12. LocalsRight'
  BY <1>1, <1>4, <1>5, <1>6, LocalsStep DEF FInv
<1>13. WantedIsKnown'
  <2>1. thread[t].pc \notin Writing /\ ~shouldBeOnFreeList'[n] /\ WantedIsKnown
    BY <1>1, <1>6, <1>8 DEF Writing, FInv
  <2> QED
    BY <1>1, <1>4, <1>6, <2>1, WantedStep
<1>14. n \notin OnList /\ OnList' = OnList \cup {n}
  <2>1. thread[t].pc \in Claiming /\ r.pc \notin Claiming
    BY <1>1, <1>4 DEF Claiming, Writing
  <2>2. n \notin OnList /\ n \in OnList'
    BY <1>2, <1>6, <1>7, <1>8, <2>1 DEF OnList, Counted
  <2>3. \A m \in Node \ {n} : m \in OnList' <=> m \in OnList
    BY <1>2, <1>6, <1>7, <2>1 DEF OnList, Counted
  <2> QED
    BY <2>2, <2>3 DEF OnList
<1>15. Chained'
  <2>1. /\ freeListHead \in OnList \cup {none}
        /\ \A m \in OnList :
              /\ freeListNext[m] \in OnList \cup {none}
              /\ freeListNext[m] # none => freeListNext[m] # freeListHead
              /\ \A k \in OnList \ {m} : freeListNext[k] # none => freeListNext[k] # freeListNext[m]
    BY DEF FInv, Chained
  <2>2. /\ freeListHead' \in OnList' \cup {none} /\ freeListNext[n] # n
        /\ \A m \in OnList' : freeListNext[m] \in OnList' \cup {none}
    BY <1>6, <1>14, <2>1
  <2>3. \A m \in OnList' : freeListNext[m] # none => freeListNext[m] # n
    BY <1>6, <1>14, <2>1, <2>2
  <2>4. \A m \in OnList' : \A k \in OnList' \ {m} :
            freeListNext[k] # none => freeListNext[k] # freeListNext[m]
    BY <1>6, <1>14, <2>1
  <2> QED
    BY <1>6, <2>2, <2>3, <2>4 DEF Chained
<1>16. Reachable'
  <2> SUFFICES ASSUME NEW S \in SUBSET Node, Closed(S)' PROVE OnList' \subseteq S
    BY DEF Reachable
  <2>1. n \in S /\ Closed(S)
    BY <1>6 DEF Closed
  <2> QED
    BY <1>14, <2>1 DEF FInv, Reachable
<1> QED
  BY <1>9, <1>10, <1>11, <1>12, <1>13, <1>15, <1>16 DEF FInv

LEMMA RetryInv == ASSUME FInv, NEW t \in Thread, Retry(t) PROVE FInv'
<1>1. TypeOK /\ thread[t].pc = "retry"
  BY DEF FInv, Retry, Step
<1>2. PICK n \in Node, h \in Node \cup {none} : n = thread[t].node /\ h = thread[t].head
  BY <1>1 DEF TypeOK
<1>3. /\ freeListRefs \in [Node -> Nat] /\ shouldBeOnFreeList \in [Node -> BOOLEAN]
      /\ thread[t] \in Local
  BY <1>1, AtStep DEF TypeOK, Places
<1>4. PICK r : r = IF freeListRefs[n] = 1 THEN [thread[t] EXCEPT !.pc = "setNext"] ELSE Loop(h)
  OBVIOUS
<1>5. /\ r \in Local /\ AtNode(r) /\ LocalRight(r) /\ LocalRight(r)'
      /\ freeListRefs[n] = 1 => r.pc = "setNext" /\ r.node = n
      /\ freeListRefs[n] # 1 => r.pc \in {"idle", "refs"}
  <2>1. CASE freeListRefs[n] = 1
    <3>1. r \in Local /\ r.pc = "setNext" /\ r.node = n
      BY <1>2, <1>3, <1>4, <2>1 DEF Local, Places
    <3> QED
      BY <2>1, <3>1 DEF AtNode, LocalRight
  <2>2. CASE freeListRefs[n] # 1
    <3>1. r \in Local /\ AtNode(r) /\ LocalRight(r) /\ r.pc \in {"idle", "refs"}
      BY <1>1, <1>4, <2>2, AtStep DEF Places
    <3> QED
      BY <2>2, <3>1 DEF LocalRight
  <2> QED
    BY <2>1, <2>2
<1>6. /\ thread' = [thread EXCEPT ![t] = r]
      /\ freeListRefs' = [freeListRefs EXCEPT ![n] = @ - 1]
      /\ shouldBeOnFreeList' = [shouldBeOnFreeList EXCEPT ![n] = TRUE]
      /\ UNCHANGED <<freeListHead, freeListNext, holders>>
  <2>1. At(t, "setNext") = [thread[t] EXCEPT !.pc = "setNext"]
    BY <1>1, AtStep DEF Places
  <2> QED
    BY <1>2, <1>4, <2>1 DEF Retry, Step
\* The node is t's own, and the list has its reference for the moment.
<1>7. /\ holders[n] = 0 /\ ~shouldBeOnFreeList[n] /\ Counted(n) /\ freeListRefs[n] >= 1
      /\ \A s \in Thread \ {t} : thread[s].pc \in Claiming => thread[s].node # n
  <2>1. /\ holders[n] = 0 /\ ~shouldBeOnFreeList[n] /\ Counted(n)
        /\ \A s \in Thread \ {t} : thread[s].pc \in Claiming => thread[s].node # n
    BY <1>1, <1>2 DEF FInv, ClaimsRight, Claiming, Writing, Counted
  <2>2. freeListRefs[n] # 0
    BY <1>1, <2>1, Unreferred DEF FInv
  <2> QED
    BY <1>3, <2>1, <2>2
<1>8. /\ freeListRefs' \in [Node -> Nat] /\ shouldBeOnFreeList' \in [Node -> BOOLEAN]
      /\ freeListRefs'[n] = freeListRefs[n] - 1 /\ shouldBeOnFreeList'[n]
      /\ \A m \in Node \ {n} : /\ freeListRefs'[m] = freeListRefs[m]
                               /\ shouldBeOnFreeList'[m] = shouldBeOnFreeList[m]
  BY <1>3, <1>6, <1>7
<1>9. TypeOK'
  BY <1>1, <1>5, <1>6, <1>8, TypeStep DEF TypeOK
<1>10. RefsCounted'
  <2>1. \A m \in Node : ~Refers(r, m) /\ ~Refers(thread[t], m)
    BY <1>1, <1>5 DEF Refers
  <2>2. /\ Counted(n) /\ ~Counted(n)'
        /\ \A m \in Node \ {n} : Counted(m)' = Counted(m)
    BY <1>6, <1>7, <1>8 DEF Counted
  <2>3. \A m \in Node : freeListRefs'[m] = freeListRefs[m]
               + (IF Refers(r, m) THEN 1 ELSE 0) - (IF Refers(thread[t], m) THEN 1 ELSE 0)
               + (IF Counted(m)' THEN 1 ELSE 0) - (IF Counted(m) THEN 1 ELSE 0)
    BY <1>3, <1>8, <2>1, <2>2
  <2> QED
    BY <1>1, <1>5, <1>6, <2>3, RefsStep DEF FInv
<1>11. ClaimsRight'
  <2>1. \A s \in Thread \ {t} : thread[s].pc \in Claiming => thread[s].node \in Node \ {n}
    BY <1>1, <1>7 DEF TypeOK, Claiming, Writing
  <2>2. r.pc \in Claiming => r.node = n /\ r.pc \in Writing /\ freeListRefs'[n] = 0
    <3>1. CASE freeListRefs[n] = 1
      BY <1>5, <1>8, <3>1 DEF Writing
    <3>2. CASE freeListRefs[n] # 1
      BY <1>5, <3>2 DEF Claiming, Writing
    <3> QED
      BY <3>1, <3>2
  <2>3. \A s \in Thread \ {t} : thread[s].pc \in Claiming =>
            /\ holders'[thread[s].node] = holders[thread[s].node]
            /\ shouldBeOnFreeList'[thread[s].node] = shouldBeOnFreeList[thread[s].node]
            /\ freeListRefs'[thread[s].node] = freeListRefs[thread[s].node]
            /\ r.pc \in Claiming => thread[s].node # r.node
    BY <1>6, <1>8, <2>1, <2>2
  <2>4. r.pc \in Claiming =>
               /\ holders'[r.node] = 0
               /\ shouldBeOnFreeList'[r.node] <=> r.pc \in Writing
               /\ r.pc \in Writing => freeListRefs'[r.node] = 0
    BY <1>6, <1>7, <1>8, <2>2
  <2>5. ClaimsRight
    BY DEF FInv
  <2> QED
    BY <1>1, <1>5, <1>6, <2>3, <2>4, <2>5, ClaimsStep
<1>12. HoldersRight'
  BY <1>6, <1>7, <1>8 DEF FInv, HoldersRight
<1>13. LocalsRight'
  BY <1>1, <1>5, <1>6, LocalsStep DEF FInv
<1>14. WantedIsKnown'
  <2>1. thread[t].pc \notin Writing /\ WantedIsKnown
    BY <1>1 DEF Writing, FInv
  <2>2. shouldBeOnFreeList'[n] /\ freeListRefs'[n] = 0 => r.pc \in Writing /\ r.node = n
    BY <1>3, <1>5, <1>8 DEF Writing
  <2> QED
    BY <1>1, <1>5, <1>6, <1>8, <2>1, <2>2, WantedStep
<1>15. OnList' = OnList
  <2>1. thread'[t] = r /\ \A s \in Thread \ {t} : thread'[s] = thread[s]
    BY <1>1, <1>5, <1>6, OneThread
  <2>2. thread[t].pc \in Claiming /\ (r.pc \in Claiming => r.node = n)
    BY <1>1, <1>5 DEF Claiming, Writing
  <2>3. n \notin OnList /\ n \notin OnList'
    BY <1>2, <1>8, <2>2 DEF OnList, Counted
  <2>4. \A m \in Node \ {n} : m \in OnList' <=> m \in OnList
    BY <1>2, <1>6, <1>8, <2>1, <2>2 DEF OnList, Counted
  <2> QED
    BY <2>3, <2>4 DEF OnList
<1> QED
  BY <1>6, <1>9, <1>10, <1>11, <1>12, <1>13, <1>14, <1>15, SameList DEF FInv

(***************************************************************************)
(* The invariant, and what follows from it.                                *)
(***************************************************************************)

LEMMA FInit == Init => FInv
<1> SUFFICES ASSUME Init PROVE FInv
  OBVIOUS
<1>1. \A t \in Thread : thread[t] = Idle /\ thread[t].pc = "idle"
  BY DEF Init, Idle
<1>2. TypeOK
  BY DEF Init, TypeOK, Idle, Places
<1>3. RefsCounted
  <2>1. \A n \in Node : Referring(n) = {} /\ ~Counted(n) /\ freeListRefs[n] = 0
    BY <1>1 DEF Init, Referring, Counted
  <2> QED
    BY <2>1, FS_EmptySet DEF RefsCounted
<1>4. ClaimsRight /\ LocalsRight
  BY <1>1 DEF ClaimsRight, LocalsRight, Claiming, Writing
<1>5. HoldersRight /\ WantedIsKnown
  BY DEF Init, HoldersRight, WantedIsKnown
<1>6. OnList = {}
  BY DEF Init, OnList, Counted
<1>7. Chained /\ Reachable
  BY <1>6 DEF Init, Chained, Reachable
<1> QED
  BY <1>2, <1>3, <1>4, <1>5, <1>7 DEF FInv

LEMMA FNext == FInv /\ [Next]_vars => FInv'
<1> SUFFICES ASSUME FInv, [Next]_vars PROVE FInv'
  OBVIOUS
<1>1. ASSUME NEW t \in Thread, try_get(t) PROVE FInv'
  BY <1>1, LoadHeadInv, LoadRefsInv, AcquireInv, LoadNextInv, PopInv, PopFailsInv,
     Release2Inv, ReleaseInv DEF try_get
<1>2. ASSUME NEW t \in Thread, add(t) PROVE FInv'
  BY <1>2, AddInv
<1>3. ASSUME NEW t \in Thread, add_knowing_refcount_is_zero(t) PROVE FInv'
  BY <1>3, AddLoadHeadInv, SetNextInv, SetRefsInv, PushInv, PushFailsInv, RetryInv
     DEF add_knowing_refcount_is_zero
<1>4. ASSUME UNCHANGED vars PROVE FInv'
  <2>1. UNCHANGED <<freeListHead, freeListRefs, shouldBeOnFreeList, freeListNext, holders, thread>>
    BY <1>4 DEF vars, refs
  <2>2. /\ \A n \in Node : Counted(n)' = Counted(n) /\ Referring(n)' = Referring(n)
        /\ OnList' = OnList
    BY <2>1 DEF Counted, Referring, OnList
  <2>3. TypeOK' /\ ClaimsRight' /\ HoldersRight' /\ WantedIsKnown' /\ LocalsRight'
    BY <2>1 DEF FInv, TypeOK, ClaimsRight, HoldersRight, WantedIsKnown, LocalsRight
  <2>4. RefsCounted'
    <3>1. \A n \in Node : Cardinality(Referring(n))' = Cardinality(Referring(n))
      BY <2>2
    <3> QED
      BY <2>1, <2>2, <3>1 DEF FInv, RefsCounted
  <2> QED
    BY <2>1, <2>2, <2>3, <2>4, SameList DEF FInv
<1> QED
  BY <1>1, <1>2, <1>3, <1>4 DEF Next

THEOREM FreeListInvariant == Spec => []FInv
BY FInit, FNext, PTL DEF Spec

\* ListRight: for every number of threads and nodes, the references of a node are
\* counted as try_get and add_knowing_refcount_is_zero presume, a compare-exchange
\* that succeeds puts the right node at the head, and no node in use is wanted.
THEOREM ListCorrect == Spec => []ListRight
<1>1. FInv => ListRight
  <2> SUFFICES ASSUME FInv PROVE ListRight
    OBVIOUS
  <2>1. NoABA
    BY DEF FInv, LocalsRight, NoABA
  <2>2. TakenIsNotWanted
    BY DEF FInv, TypeOK, HoldersRight, ClaimsRight, Claiming, Writing, TakenIsNotWanted, used
  <2>3. OneAdder
    BY DEF FInv, ClaimsRight, Claiming, Writing, OneAdder
  <2> QED
    BY <2>1, <2>2, <2>3 DEF FInv, ListRight
<1> QED
  BY <1>1, FreeListInvariant, PTL

\* NothingLost: when all calls have returned, a node is in use or on the list.
THEOREM NothingLostCorrect == Spec => []NothingLost
<1>1. FInv => NothingLost
  <2> SUFFICES ASSUME FInv, \A t \in Thread : thread[t].pc = "idle" PROVE Listed = Node \ used
    BY DEF NothingLost
  \* Without calls there are no references but the list's, so no node is wanted.
  <2>1. \A n \in Node : shouldBeOnFreeList[n] => freeListRefs[n] # 0 /\ ~Counted(n)
    BY DEF FInv, WantedIsKnown, Writing, Counted
  <2>2. \A n \in Node : Referring(n) = {} /\ Cardinality(Referring(n)) = 0
    BY FS_EmptySet DEF Referring
  <2>3. \A n \in Node : ~shouldBeOnFreeList[n]
    BY <2>1, <2>2 DEF FInv, RefsCounted
  <2>4. OnList = Node \ used
    BY <2>3 DEF FInv, HoldersRight, OnList, Counted, Claiming, Writing, used
  <2>5. Closed(OnList) /\ OnList \in SUBSET Node
    BY DEF FInv, Chained, Closed, OnList
  <2>6. Listed = OnList
    BY <2>5 DEF FInv, Reachable, Listed
  <2> QED
    BY <2>4, <2>6
<1> QED
  BY <1>1, FreeListInvariant, PTL

\* ImplementsPool: a node is given to one caller at a time, and only after the
\* one before has given it back.
THEOREM ImplementsPoolCorrect == Spec => ImplementsPool
<1>1. Init => Promised!Init
  BY DEF Init, Promised!Init
<1>2. FInv /\ [Next]_vars => [Promised!Next]_holders
  <2> SUFFICES ASSUME FInv, [Next]_vars, holders' # holders PROVE Promised!Next
    OBVIOUS
  <2>1. ASSUME NEW t \in Thread, add(t) PROVE Promised!Next
    <3>1. PICK n \in used : holders' = [holders EXCEPT ![n] = @ - 1]
      BY <2>1 DEF add
    <3>2. n \in Node /\ holders[n] = 1
      BY DEF FInv, HoldersRight, used, TypeOK
    <3>3. holders' = [holders EXCEPT ![n] = 0]
      BY <3>1, <3>2
    <3> QED
      BY <3>2, <3>3 DEF Promised!Next, Promised!Give
  <2>2. ASSUME NEW t \in Thread, Release2(t) PROVE Promised!Next
    <3>1. thread[t].node \in Node /\ holders[thread[t].node] = 0
      BY <2>2 DEF FInv, TypeOK, ClaimsRight, Claiming, Release2, Step
    <3>2. holders' = [holders EXCEPT ![thread[t].node] = 1]
      BY <2>2, <3>1 DEF Release2
    <3> QED
      BY <3>1, <3>2 DEF Promised!Next, Promised!Take
  <2>3. ASSUME NEW t \in Thread, try_get(t) PROVE Promised!Next
    BY <2>2, <2>3 DEF try_get, LoadHead, LoadRefs, Acquire, LoadNext, Pop, PopFails, Release
  <2>4. ASSUME NEW t \in Thread, add_knowing_refcount_is_zero(t) PROVE Promised!Next
    BY <2>4 DEF add_knowing_refcount_is_zero, AddLoadHead, SetNext, SetRefs, Push,
         PushFails, Retry
  <2> QED
    BY <2>1, <2>3, <2>4 DEF Next, vars
<1> QED
  BY <1>1, <1>2, FreeListInvariant, PTL DEF Spec, ImplementsPool
=============================================================================
