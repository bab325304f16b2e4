-------------------------- MODULE BlockPool_proofs --------------------------
(***************************************************************************)
(* That a block has one owner, that the index into the array stops and     *)
(* that ~ConcurrentQueue frees what was allocated, for every number of     *)
(* threads, every capacity and every allocator.                            *)
(***************************************************************************)
EXTENDS BlockPool, FiniteSetTheorems, TLAPS

USE PoolAssumption DEF PoolAssumption

\* The threads that found the array not used up and have not yet added.
Adders == {t \in Thread : pc[t] = "add"}

\* Block b was given out by the array, or allocated.
Exists(b) == IF dynamicallyAllocated(b) THEN b < initialBlockPoolSize + created
                                        ELSE b < initialBlockPoolIndex

FreeExist == \A b \in freeList : Exists(b)

\* No allocated block is lost.
NoneLost ==
    \A b \in initialBlockPoolSize .. initialBlockPoolSize + created - 1 :
        b \in freeList \/ \E t \in Thread : b \in held[t]

\* Those who will still add count.
RaceBound ==
    initialBlockPoolIndex + Cardinality(Adders) < initialBlockPoolSize + Cardinality(Thread)

PastArray ==
    \A t \in Thread : pc[t] \in {"list", "create"} => initialBlockPoolIndex >= initialBlockPoolSize

AfterDestroy == destroyed # {alive} => \A t \in Thread : pc[t] = "idle" /\ held[t] = {}

Owners == OneOwner /\ BlocksExist /\ FreeExist /\ NoneLost
Races == RaceBound /\ PastArray /\ ArrayFirst
End == AfterDestroy /\ DynamicFreed
IInv == TypeOK /\ Owners /\ Races /\ End

-----------------------------------------------------------------------------
\* The blocks of the constructor hold the capacity asked for.
LEMMA BlocksForEnough ==
    ASSUME NEW n \in Nat
    PROVE  BlocksFor(n) \in Nat /\ BlocksFor(n) * BLOCK_SIZE >= n
<1>1. n \in Int /\ BLOCK_SIZE \in Int /\ BLOCK_SIZE > 0
  OBVIOUS
<1>2. n \div BLOCK_SIZE \in Nat /\ n < BLOCK_SIZE * (n \div BLOCK_SIZE + 1)
  BY <1>1, SMTT(30)
<1>3. n % BLOCK_SIZE = n - BLOCK_SIZE * (n \div BLOCK_SIZE)
  BY <1>1, Z3T(60)
<1>4. CASE n % BLOCK_SIZE = 0
  BY <1>1, <1>2, <1>3, <1>4 DEF BlocksFor
<1>5. CASE n % BLOCK_SIZE # 0
  BY <1>1, <1>2, <1>5 DEF BlocksFor
<1> QED
  BY <1>4, <1>5

\* A thread that starts to add is one more, one that has added is one less.
LEMMA AddersMore ==
    ASSUME NEW t \in Thread, pc \in [Thread -> {"idle", "add", "list", "create"}],
           pc' = [pc EXCEPT ![t] = "add"]
    PROVE  /\ IsFiniteSet(Adders) /\ Cardinality(Adders) \in Nat
           /\ Cardinality(Adders') \in Nat /\ Cardinality(Adders') <= Cardinality(Thread)
<1>1. Adders \subseteq Thread /\ Adders' \subseteq Thread
  BY DEF Adders
<1> QED
  BY <1>1, FS_Subset, FS_CardinalityType

LEMMA AddersLess ==
    ASSUME NEW t \in Thread, pc \in [Thread -> {"idle", "add", "list", "create"}],
           pc[t] = "add", NEW to \in {"idle", "list"}, pc' = [pc EXCEPT ![t] = to]
    PROVE  /\ Cardinality(Adders) \in Nat
           /\ Cardinality(Adders') = Cardinality(Adders) - 1
<1>1. IsFiniteSet(Adders) /\ Cardinality(Adders) \in Nat
  BY FS_Subset, FS_CardinalityType DEF Adders
<1>2. t \in Adders /\ Adders' = Adders \ {t}
  BY DEF Adders
<1> QED
  BY <1>1, <1>2, FS_RemoveElement

LEMMA AddersSame ==
    ASSUME NEW t \in Thread, pc \in [Thread -> {"idle", "add", "list", "create"}],
           pc[t] # "add", NEW to, to # "add", pc' = [pc EXCEPT ![t] = to]
    PROVE  Adders' = Adders
BY DEF Adders

-----------------------------------------------------------------------------
\* The initial states satisfy the invariant.
LEMMA PoolInit == Init => IInv
<1> SUFFICES ASSUME Init PROVE IInv
  OBVIOUS
<1>1. TypeOK
  <2>1. capacity \in Nat /\ BlocksFor(capacity) \in Nat
        /\ BlocksFor(capacity) * BLOCK_SIZE >= capacity
    BY BlocksForEnough DEF Init
  <2> QED
    BY <2>1 DEF Init, TypeOK
<1>2. Owners
  BY <1>1 DEF Init, TypeOK, Owners, OneOwner, BlocksExist, FreeExist, NoneLost
<1>3. Races
  <2>1. Adders = {}
    BY DEF Init, Adders
  <2>2. Cardinality(Adders) = 0 /\ Cardinality(Thread) \in Nat \ {0}
    BY <2>1, FS_EmptySet, FS_CardinalityType
  <2> QED
    BY <1>1, <2>2 DEF Init, TypeOK, Races, RaceBound, PastArray, ArrayFirst
<1>4. End
  BY DEF Init, End, AfterDestroy, DynamicFreed
<1> QED
  BY <1>1, <1>2, <1>3, <1>4 DEF IInv

\* LoadIndex: nothing changes hands; a thread that may add saw room in the array.
LEMMA PoolLoadIndex == ASSUME IInv, NEW t \in Thread, LoadIndex(t) PROVE IInv'
<1> USE DEF IInv
<1>1. TypeOK'
  BY DEF LoadIndex, Goto, TypeOK
<1>2. Owners'
  BY DEF LoadIndex, Owners, OneOwner, BlocksExist, FreeExist, NoneLost, Exists,
         dynamicallyAllocated
<1>3. Races'
  <2>1. UNCHANGED <<initialBlockPoolSize, initialBlockPoolIndex, created>> /\ pc[t] = "idle"
    BY DEF LoadIndex, Goto
  <2>2. CASE PoolHasMore
    <3>1. pc' = [pc EXCEPT ![t] = "add"]
      BY <2>2 DEF LoadIndex, Goto
    <3>2. Cardinality(Adders') \in Nat /\ Cardinality(Adders') <= Cardinality(Thread)
      BY <3>1, AddersMore DEF TypeOK
    <3>3. Cardinality(Thread) \in Nat
      BY FS_CardinalityType
    <3> QED
      BY <2>1, <2>2, <3>1, <3>2, <3>3
      DEF PoolHasMore, Races, RaceBound, PastArray, ArrayFirst, TypeOK
  <2>3. CASE ~PoolHasMore
    <3>1. pc' = [pc EXCEPT ![t] = "list"]
      BY <2>3 DEF LoadIndex, Goto
    <3>2. Adders' = Adders
      BY <2>1, <3>1, AddersSame DEF TypeOK
    <3> QED
      BY <2>1, <2>3, <3>1, <3>2
      DEF PoolHasMore, Races, RaceBound, PastArray, ArrayFirst, TypeOK
  <2> QED
    BY <2>2, <2>3
<1>4. End'
  BY DEF LoadIndex, End, AfterDestroy, DynamicFreed
<1> QED
  BY <1>1, <1>2, <1>3, <1>4

\* The types without the capacity.
LEMMA Types ==
    ASSUME TypeOK
    PROVE  /\ initialBlockPoolSize \in Nat /\ initialBlockPoolIndex \in Nat /\ created \in Nat
           /\ freeList \in SUBSET Nat
           /\ held \in [Thread -> SUBSET Nat]
           /\ pc \in [Thread -> {"idle", "add", "list", "create"}]
BY DEF TypeOK

\* A block nobody has goes to thread t, and nothing else changes hands.
LEMMA NewBlockOwners ==
    ASSUME TypeOK, Owners, NEW t \in Thread, NEW b \in Nat, Gets(t, b),
           UNCHANGED <<freeList, initialBlockPoolSize>>,
           initialBlockPoolIndex' \in Nat, initialBlockPoolIndex' >= initialBlockPoolIndex,
           created' \in Nat, created' >= created,
           ~Exists(b), Exists(b)',
           created' > created => created' = created + 1 /\ b = initialBlockPoolSize + created
    PROVE  Owners'
<1>1. \A u \in Thread : held'[u] = IF u = t THEN held[t] \cup {b} ELSE held[u]
  BY DEF Gets, TypeOK
<1>2. b \notin freeList /\ \A u \in Thread : b \notin held[u]
  BY DEF Owners, BlocksExist, FreeExist, Exists
<1>3. \A a \in Nat : Exists(a) => Exists(a)'
  BY Types DEF Exists, dynamicallyAllocated
<1>4. OneOwner'
  BY <1>1, <1>2 DEF Owners, OneOwner
<1>5. BlocksExist'
  <2>1. \A u \in Thread : \A a \in held[u] : Exists(a) /\ a \in Nat
    BY DEF Owners, BlocksExist, Exists, TypeOK
  <2>2. \A u \in Thread : \A a \in held'[u] : Exists(a)'
    BY <1>1, <1>3, <2>1
  <2> QED
    BY <2>2 DEF BlocksExist, Exists
<1>6. FreeExist'
  BY <1>3 DEF Owners, FreeExist, TypeOK
<1>7. NoneLost'
  <2> SUFFICES ASSUME NEW a \in initialBlockPoolSize .. initialBlockPoolSize + created' - 1
               PROVE  a \in freeList \/ \E u \in Thread : a \in held'[u]
    BY DEF NoneLost
  <2>1. CASE a = b
    BY <1>1, <2>1
  <2>2. CASE a # b
    <3>1. a \in initialBlockPoolSize .. initialBlockPoolSize + created - 1
      BY <2>2, Types
    <3> QED
      BY <1>1, <3>1 DEF Owners, NoneLost
  <2> QED
    BY <2>1, <2>2
<1> QED
  BY <1>4, <1>5, <1>6, <1>7 DEF Owners

\* Nothing changes hands in the queue that is destroyed.
LEMMA Destroyed ==
    ASSUME AfterDestroy, DynamicFreed, destroyed = {alive}, UNCHANGED destroyed
    PROVE  End'
BY DEF End, AfterDestroy, DynamicFreed

\* A thread that is not at "idle", or has a block, is in a queue that is alive.
LEMMA AliveWhileUsed ==
    ASSUME AfterDestroy, NEW t \in Thread, pc[t] # "idle" \/ held[t] # {}
    PROVE  destroyed = {alive}
BY DEF AfterDestroy

\* AddIndex: an index below the size is a block that nobody has.
LEMMA PoolAddIndex == ASSUME IInv, NEW t \in Thread, AddIndex(t) PROVE IInv'
<1> USE DEF IInv
<1>1. /\ pc[t] = "add" /\ initialBlockPoolIndex' = initialBlockPoolIndex + 1
      /\ UNCHANGED <<capacity, initialBlockPoolSize, freeList, created, destroyed>>
  BY DEF AddIndex, Goto
<1>2. TypeOK'
  BY DEF AddIndex, Goto, Gets, TypeOK
<1>3. Owners'
  <2>1. CASE OldIndexInPool /\ Gets(t, initialBlockPoolIndex)
    <3>0. PICK b \in Nat : b = initialBlockPoolIndex
      BY Types
    <3>1. b \in Nat /\ ~Exists(b) /\ b < initialBlockPoolSize
      BY <2>1, <3>0, Types DEF OldIndexInPool, Exists, dynamicallyAllocated
    <3>2. b < initialBlockPoolIndex' /\ ~(b >= initialBlockPoolSize')
      BY <1>1, <3>0, <3>1, Types
    <3>3. Exists(b)'
      BY <1>1, <3>2 DEF Exists, dynamicallyAllocated
    <3>4. /\ initialBlockPoolIndex' \in Nat /\ initialBlockPoolIndex' >= initialBlockPoolIndex
          /\ created' \in Nat /\ created' >= created /\ ~(created' > created)
          /\ UNCHANGED <<freeList, initialBlockPoolSize>>
      BY <1>1, Types
    <3>5. Gets(t, b)
      BY <2>1, <3>0
    <3> QED
      BY <3>1, <3>3, <3>4, <3>5, NewBlockOwners
  <2>2. CASE UNCHANGED held
    <3>1. \A b \in Nat : Exists(b) => Exists(b)'
      BY <1>1, Types DEF Exists, dynamicallyAllocated
    <3>2. \A u \in Thread : \A b \in held[u] : Exists(b) /\ b \in Nat
      BY Types DEF Owners, BlocksExist, Exists
    <3>3. \A u \in Thread : \A b \in held'[u] : Exists(b)'
      BY <2>2, <3>1, <3>2
    <3>4. BlocksExist'
      BY <3>3 DEF BlocksExist, Exists
    <3>5. FreeExist'
      BY <1>1, <3>1, Types DEF Owners, FreeExist
    <3>6. OneOwner' /\ NoneLost'
      BY <1>1, <2>2 DEF Owners, OneOwner, NoneLost
    <3> QED
      BY <3>4, <3>5, <3>6 DEF Owners
  <2> QED
    BY <2>1, <2>2 DEF AddIndex
<1>4. Races'
  <2>1. PICK to \in {"idle", "list"} : /\ pc' = [pc EXCEPT ![t] = to]
                                       /\ to = "list" => ~OldIndexInPool
    BY DEF AddIndex, Goto
  <2>2. Cardinality(Adders) \in Nat /\ Cardinality(Adders') = Cardinality(Adders) - 1
    BY <1>1, <2>1, Types, AddersLess
  <2>3. Cardinality(Thread) \in Nat
    BY FS_CardinalityType
  <2>4. RaceBound'
    BY <1>1, <2>2, <2>3, Types DEF Races, RaceBound
  <2>5. PastArray'
    BY <1>1, <2>1, Types DEF Races, PastArray, OldIndexInPool
  <2>6. ArrayFirst'
    BY <1>1, Types DEF Races, ArrayFirst
  <2> QED
    BY <2>4, <2>5, <2>6 DEF Races
<1>5. End'
  BY <1>1, AliveWhileUsed, Destroyed DEF End
<1> QED
  BY <1>2, <1>3, <1>4, <1>5

\* A step that changes neither the counters nor who adds.
LEMMA RacesKept ==
    ASSUME IInv, NEW t \in Thread, pc[t] # "add", NEW to, to # "add",
           pc' = [pc EXCEPT ![t] = to],
           to \in {"list", "create"} => pc[t] \in {"list", "create"},
           UNCHANGED <<initialBlockPoolSize, initialBlockPoolIndex, created>>
    PROVE  Races'
<1>1. Adders' = Adders
  BY AddersSame, Types DEF IInv
<1>2. RaceBound'
  BY <1>1 DEF IInv, Races, RaceBound
<1>3. PastArray'
  BY Types DEF IInv, Races, PastArray
<1> QED
  BY <1>2, <1>3 DEF IInv, Races, ArrayFirst

\* TryFreeList: a block changes from the free list to the thread.
LEMMA PoolTryFreeList == ASSUME IInv, NEW t \in Thread, TryFreeList(t) PROVE IInv'
<1> USE DEF IInv
<1>1. /\ pc[t] = "list"
      /\ UNCHANGED <<capacity, initialBlockPoolSize, initialBlockPoolIndex, created, destroyed>>
  BY DEF TryFreeList, Goto
<1>2. TypeOK'
  BY DEF TryFreeList, Goto, Gets, TypeOK
<1>3. Owners'
  <2>1. CASE UNCHANGED <<freeList, held>>
    BY <1>1, <2>1 DEF Owners, OneOwner, BlocksExist, FreeExist, NoneLost, Exists,
                      dynamicallyAllocated
  <2>2. CASE \E b \in freeList : Gets(t, b) /\ freeList' = freeList \ {b}
    <3>1. PICK b \in freeList : Gets(t, b) /\ freeList' = freeList \ {b}
      BY <2>2
    <3>2. \A u \in Thread : held'[u] = IF u = t THEN held[t] \cup {b} ELSE held[u]
      BY <3>1, Types DEF Gets
    <3>3. OneOwner'
      BY <3>1, <3>2 DEF Owners, OneOwner
    <3>4. BlocksExist' /\ FreeExist'
      <4>1. \A u \in Thread : \A a \in held[u] : Exists(a)
        BY DEF Owners, BlocksExist, Exists
      <4>2. \A a : Exists(a) => Exists(a)'
        BY <1>1 DEF Exists, dynamicallyAllocated
      <4>3. \A u \in Thread : \A a \in held'[u] : Exists(a)'
        BY <3>1, <3>2, <4>1, <4>2 DEF Owners, FreeExist
      <4>4. BlocksExist'
        BY <4>3 DEF BlocksExist, Exists
      <4> QED
        BY <3>1, <4>2, <4>4 DEF Owners, FreeExist
    <3>5. NoneLost'
      BY <1>1, <3>1, <3>2 DEF Owners, NoneLost
    <3> QED
      BY <3>3, <3>4, <3>5 DEF Owners
  <2> QED
    BY <2>1, <2>2 DEF TryFreeList
<1>4. Races'
  <2>1. PICK to \in {"idle", "create"} : pc' = [pc EXCEPT ![t] = to]
    BY DEF TryFreeList, Goto
  <2> QED
    BY <1>1, <2>1, RacesKept
<1>5. End'
  BY <1>1, AliveWhileUsed, Destroyed DEF End
<1> QED
  BY <1>2, <1>3, <1>4, <1>5

\* Create: the number of a block that is allocated is new.
LEMMA PoolCreate == ASSUME IInv, NEW t \in Thread, Create(t) PROVE IInv'
<1> USE DEF IInv
<1>1. /\ pc[t] = "create" /\ pc' = [pc EXCEPT ![t] = "idle"]
      /\ UNCHANGED <<capacity, initialBlockPoolSize, initialBlockPoolIndex, freeList, destroyed>>
  BY DEF Create, Goto
<1>2. CASE UNCHANGED <<created, held>>
  <2>1. TypeOK'
    BY <1>1, <1>2 DEF TypeOK
  <2>2. Owners'
    BY <1>1, <1>2 DEF Owners, OneOwner, BlocksExist, FreeExist, NoneLost, Exists,
                      dynamicallyAllocated
  <2>3. Races'
    BY <1>1, <1>2, RacesKept
  <2>4. End'
    BY <1>1, AliveWhileUsed, Destroyed DEF End
  <2> QED
    BY <2>1, <2>2, <2>3, <2>4
<1>3. CASE /\ created < MaxCreated /\ created' = created + 1
           /\ Gets(t, initialBlockPoolSize + created)
  <2>0. PICK b \in Nat : b = initialBlockPoolSize + created
    BY Types
  <2>1. created' \in Nat /\ created' = created + 1 /\ b >= initialBlockPoolSize
    BY <1>3, <2>0, Types
  <2>2. TypeOK'
    BY <1>1, <1>3, <2>0, <2>1 DEF TypeOK, Gets
  <2>3. Owners'
    <3>1. ~Exists(b)
      BY <2>0, <2>1, Types DEF Exists, dynamicallyAllocated
    <3>2. Exists(b)'
      BY <1>1, <2>0, <2>1, Types DEF Exists, dynamicallyAllocated
    <3>3. /\ initialBlockPoolIndex' \in Nat /\ initialBlockPoolIndex' >= initialBlockPoolIndex
          /\ created' >= created /\ UNCHANGED <<freeList, initialBlockPoolSize>>
      BY <1>1, <2>1, Types
    <3>4. Gets(t, b) /\ b = initialBlockPoolSize + created
      BY <1>3, <2>0
    <3> QED
      BY <2>1, <3>1, <3>2, <3>3, <3>4, NewBlockOwners
  <2>4. Races'
    <3>1. Adders' = Adders
      BY <1>1, AddersSame, Types
    <3>2. initialBlockPoolIndex >= initialBlockPoolSize
      BY <1>1 DEF Races, PastArray
    <3>3. RaceBound'
      BY <1>1, <3>1 DEF Races, RaceBound
    <3>4. PastArray'
      BY <1>1, <3>2 DEF PastArray
    <3>5. ArrayFirst'
      BY <1>1, <3>2 DEF ArrayFirst
    <3> QED
      BY <3>3, <3>4, <3>5 DEF Races
  <2>5. End'
    BY <1>1, AliveWhileUsed, Destroyed DEF End
  <2> QED
    BY <2>2, <2>3, <2>4, <2>5
<1> QED
  BY <1>2, <1>3 DEF Create

\* Release: a block changes from the thread to the free list.
LEMMA PoolRelease == ASSUME IInv, NEW t \in Thread, Release(t) PROVE IInv'
<1> USE DEF IInv
<1>1. UNCHANGED <<capacity, initialBlockPoolSize, initialBlockPoolIndex, created, pc, destroyed>>
  BY DEF Release
<1>2. PICK b \in held[t] : /\ held' = [held EXCEPT ![t] = @ \ {b}]
                           /\ freeList' = freeList \cup {b}
  BY DEF Release
<1>3. \A u \in Thread : held'[u] = IF u = t THEN held[t] \ {b} ELSE held[u]
  BY <1>2, Types
<1>4. TypeOK'
  BY <1>1, <1>2 DEF TypeOK
<1>5. Owners'
  <2>1. OneOwner'
    <3>1. b \notin freeList /\ \A u \in Thread \ {t} : b \notin held[u]
      BY DEF Owners, OneOwner
    <3> QED
      BY <1>2, <1>3, <3>1 DEF Owners, OneOwner
  <2>2. BlocksExist' /\ FreeExist'
    <3>1. \A u \in Thread : \A a \in held[u] : Exists(a)
      BY DEF Owners, BlocksExist, Exists
    <3>2. \A a : Exists(a) => Exists(a)'
      BY <1>1 DEF Exists, dynamicallyAllocated
    <3>3. \A u \in Thread : \A a \in held'[u] : Exists(a)'
      BY <1>3, <3>1, <3>2
    <3>4. BlocksExist'
      BY <3>3 DEF BlocksExist, Exists
    <3> QED
      BY <1>2, <3>1, <3>2, <3>4 DEF Owners, FreeExist
  <2>3. NoneLost'
    BY <1>1, <1>2, <1>3 DEF Owners, NoneLost
  <2> QED
    BY <2>1, <2>2, <2>3 DEF Owners
<1>6. Races'
  BY <1>1 DEF Races, RaceBound, Adders, PastArray, ArrayFirst
<1>7. End'
  BY <1>1, <1>2, AliveWhileUsed, Destroyed DEF End
<1> QED
  BY <1>4, <1>5, <1>6, <1>7

\* Destroy: all that was allocated is on the free list, and nothing else of it is freed.
LEMMA PoolDestroy == ASSUME IInv, Destroy PROVE IInv'
<1> USE DEF IInv
<1>1. /\ UNCHANGED <<capacity, initialBlockPoolSize, initialBlockPoolIndex, freeList, created,
                     pc, held>>
      /\ \A t \in Thread : pc[t] = "idle" /\ held[t] = {}
      /\ destroyed' = {b \in freeList : b >= initialBlockPoolSize}
  BY DEF Destroy, FreedOneByOne, dynamicallyAllocated
<1>2. TypeOK'
  BY <1>1 DEF TypeOK
<1>3. Owners'
  BY <1>1 DEF Owners, OneOwner, BlocksExist, FreeExist, NoneLost, Exists, dynamicallyAllocated
<1>4. Races'
  BY <1>1 DEF Races, RaceBound, Adders, PastArray, ArrayFirst
<1>5. End'
  <2>1. \A b \in initialBlockPoolSize .. initialBlockPoolSize + created - 1 :
            b \in freeList /\ b >= initialBlockPoolSize
    BY <1>1, Types DEF Owners, NoneLost
  <2>2. \A b \in freeList : b >= initialBlockPoolSize =>
            b \in initialBlockPoolSize .. initialBlockPoolSize + created - 1
    BY Types DEF Owners, FreeExist, Exists, dynamicallyAllocated
  <2>3. destroyed' = initialBlockPoolSize .. initialBlockPoolSize + created - 1
    BY <1>1, <2>1, <2>2
  <2> QED
    BY <1>1, <2>3 DEF End, AfterDestroy, DynamicFreed
<1> QED
  BY <1>2, <1>3, <1>4, <1>5

-----------------------------------------------------------------------------
\* The invariant holds always.
THEOREM PoolInvariant == Spec => []IInv
<1>1. ASSUME IInv, [Next]_vars PROVE IInv'
  <2>1. CASE UNCHANGED vars
    BY <1>1, <2>1 DEF vars, IInv, TypeOK, Owners, OneOwner, BlocksExist, FreeExist, NoneLost, Exists,
       dynamicallyAllocated, Races, RaceBound, Adders, PastArray, ArrayFirst, End, AfterDestroy,
       DynamicFreed
  <2>2. CASE Next
    BY <1>1, <2>1, <2>2, PoolLoadIndex, PoolAddIndex, PoolTryFreeList, PoolCreate, PoolRelease,
       PoolDestroy DEF Next, Over
  <2> QED
    BY <1>1, <2>1, <2>2
<1> QED
  BY <1>1, PoolInit, PTL DEF Spec

\* Types, and room for the capacity that the constructor was asked for.
THEOREM PoolTypeCorrect == Spec => []TypeOK
<1>1. IInv => TypeOK
  BY DEF IInv
<1> QED
  BY <1>1, PoolInvariant, PTL

\* A block is in one sub-queue or on the free list, however many threads race.
THEOREM PoolOneOwner == Spec => [](OneOwner /\ BlocksExist)
<1>1. IInv => OneOwner /\ BlocksExist
  BY DEF IInv, Owners
<1> QED
  BY <1>1, PoolInvariant, PTL

\* The index into the array stops within as many steps as there are threads.
THEOREM PoolIndexStops == Spec => []IndexStops
<1>1. IInv => IndexStops
  <2> SUFFICES ASSUME IInv PROVE IndexStops
    OBVIOUS
  <2>1. Adders \subseteq Thread
    BY DEF Adders
  <2>2. Cardinality(Adders) \in Nat /\ Cardinality(Thread) \in Nat
    BY <2>1, FS_Subset, FS_CardinalityType
  <2> QED
    BY <2>2, Types DEF IInv, Races, RaceBound, IndexStops
<1> QED
  BY <1>1, PoolInvariant, PTL

\* No block is given to two threads or given out that does not exist.
THEOREM PoolBlocksOwned == Spec => []BlocksOwned
BY PoolTypeCorrect, PoolOneOwner, PoolIndexStops, PTL DEF BlocksOwned

\* The allocator is asked after the array, and what it gave is freed once.
THEOREM PoolDynamicFreed == Spec => [](ArrayFirst /\ DynamicFreed)
<1>1. IInv => ArrayFirst /\ DynamicFreed
  BY DEF IInv, Races, End
<1> QED
  BY <1>1, PoolInvariant, PTL
=============================================================================
