------------------------ MODULE ProducerHash_proofs ------------------------
(***************************************************************************)
(* That the tables stay chained, counted and never full, that a thread has *)
(* one entry per table and none while it inserts itself, and that it keeps *)
(* its producer, for every number of threads, hash and initial capacity.   *)
(*                                                                         *)
(* The count that rations the slots is taken before the slot, so that the  *)
(* threads with a newCount of at most k are at most k (Rationed); and one  *)
(* enters a table only if its newCount is below that table's quota.        *)
(***************************************************************************)
EXTENDS ProducerHash, FiniteSetTheorems, SequenceTheorems, TLAPS

USE ThreadAssumption, HashAssumption, CapacityAssumption
USE DEF ThreadAssumption, HashAssumption, CapacityAssumption

Mod(j, c) == j % c
Quota(c) == c \div 2 + c \div 4

\* The key that probing finds at index j of table h.
KeyAt(h, j) == tables[h].keys[Mod(j, tables[h].capacity)]

Has(t, h) == \E i \in 0 .. tables[h].capacity - 1 : tables[h].keys[i] = t

\* Probing for t in table h came to index j and met no free slot before.
Probed(t, h, j) == hashedId[t] <= j /\ \A k \in hashedId[t] .. j - 1 : KeyAt(h, k) # none

-----------------------------------------------------------------------------
(* The invariant.                                                          *)

IsSeq == Len(tables) \in Nat /\ tables = [h \in 1 .. Len(tables) |-> tables[h]]

\* Tables do not shrink.
Growing == \A g, h \in DOMAIN tables : g <= h => tables[g].capacity <= tables[h].capacity

Unique(h) ==
    \A i, j \in 0 .. tables[h].capacity - 1 :
        tables[h].keys[i] # none /\ tables[h].keys[i] = tables[h].keys[j] => i = j

WithinQuota(h) ==
    \A i \in 0 .. tables[h].capacity - 1 : tables[h].keys[i] # none =>
        /\ newCount[tables[h].keys[i]] > 0
        /\ newCount[tables[h].keys[i]] < Quota(tables[h].capacity)

\* Probing finds every key.
Findable(h) ==
    \A i \in 0 .. tables[h].capacity - 1 : tables[h].keys[i] # none =>
        \E j \in Nat : Mod(j, tables[h].capacity) = i /\ Probed(tables[h].keys[i], h, j)

ValuesRight(h) ==
    \A i \in 0 .. tables[h].capacity - 1 : tables[h].keys[i] # none =>
        tables[h].values[i] = producer[tables[h].keys[i]]

TableOK(h) == Unique(h) /\ WithinQuota(h) /\ Findable(h) /\ ValuesRight(h)

Below(k) == {t \in Thread : newCount[t] > 0 /\ newCount[t] <= k}
Counted == {t \in Thread : newCount[t] > 0}
Rationed == \A k \in Nat : Cardinality(Below(k)) <= k

Inserts == {"count", "try", "reload", "grow", "unlock", "unlockFailed", "room", "link"}
CountTaken == {"try", "reload", "grow", "unlock", "room", "link", "store"}
Locking == {"reload", "grow", "unlock", "unlockFailed"}

Finding(t, r) ==
    r.pc = "find" =>
        /\ \A h \in DOMAIN tables : h > r.hash => ~Has(t, h)
        /\ r.hash <= r.mainHash
        /\ Probed(t, r.hash, r.index)
        /\ \A k \in hashedId[t] .. r.index - 1 : KeyAt(r.hash, k) # t

Inserting(t, r) == r.pc \in Inserts => \A h \in DOMAIN tables : ~Has(t, h)

Storing(t, r) ==
    r.pc = "store" =>
        /\ \A h \in DOMAIN tables : h >= r.mainHash => ~Has(t, h)
        /\ Probed(t, r.mainHash, r.index)
        /\ (\E h \in DOMAIN tables : Has(t, h)) => r.value = producer[t]

Counting(t, r) ==
    /\ r.pc \in CountTaken => newCount[t] > 0
    /\ r.pc \in {"count", "unlockFailed"} => newCount[t] = 0
    /\ r.pc \in {"link", "store"} => newCount[t] < Quota(tables[r.mainHash].capacity)
    /\ r.pc \in {"idle", "find"} /\ newCount[t] > 0 => \E h \in DOMAIN tables : Has(t, h)

\* A thread that has a producer has an entry.
Owning(t) == producer[t] # 0 => \E h \in DOMAIN tables : Has(t, h)

Local(t, r) ==
    /\ Finding(t, r) /\ Inserting(t, r) /\ Storing(t, r) /\ Counting(t, r)
    /\ r.pc = "grow" => r.mainHash = Len(tables)

Locked ==
    \A t \in Thread : thread[t].pc \in Locking =>
        /\ implicitProducerHashResizeInProgress
        /\ \A s \in Thread \ {t} : thread[s].pc \notin Locking

Tables == IsSeq /\ TablesChained /\ Growing /\ \A h \in DOMAIN tables : TableOK(h)
Counts == CountExact /\ Rationed
Threads == \A t \in Thread : Local(t, thread[t]) /\ Owning(t)

IInv == TypeOK /\ Tables /\ Counts /\ Threads /\ Locked

-----------------------------------------------------------------------------
(* Facts about one state.                                                  *)

LEMMA ModType == ASSUME NEW j \in Nat, NEW c \in Nat \ {0} PROVE Mod(j, c) \in 0 .. c - 1
BY SMTT(30) DEF Mod

LEMMA QuotaBelow ==
    ASSUME NEW c \in Nat \ {0} PROVE Quota(c) \in Nat /\ Quota(c) < c
BY DEF Quota

LEMMA QuotaGrows ==
    ASSUME NEW c \in Nat, NEW d \in Nat, c <= d PROVE Quota(c) <= Quota(d)
BY DEF Quota

LEMMA TableType ==
    ASSUME TypeOK, IsSeq, NEW h \in DOMAIN tables
    PROVE  /\ tables[h].capacity \in Nat \ {0}
           /\ tables[h].keys \in [0 .. tables[h].capacity - 1 -> Thread \cup {none}]
           /\ tables[h].values \in [0 .. tables[h].capacity - 1 -> 0 .. producerCount]
           /\ h \in 1 .. Len(tables) /\ h \in Nat
BY DEF TypeOK, IsSeq

LEMMA KeyAtType ==
    ASSUME TypeOK, IsSeq, NEW h \in DOMAIN tables, NEW j \in Nat
    PROVE  /\ Mod(j, tables[h].capacity) \in 0 .. tables[h].capacity - 1
           /\ KeyAt(h, j) \in Thread \cup {none}
BY TableType, ModType DEF KeyAt

\* Probing that ends at a free slot has looked at every slot where t could be.
LEMMA NotFound ==
    ASSUME TypeOK, IsSeq, NEW t \in Thread, NEW h \in DOMAIN tables, Findable(h), NEW n \in Nat,
           Probed(t, h, n), \A k \in hashedId[t] .. n - 1 : KeyAt(h, k) # t, KeyAt(h, n) = none
    PROVE  ~Has(t, h)
<1> SUFFICES ASSUME NEW i \in 0 .. tables[h].capacity - 1, tables[h].keys[i] = t PROVE FALSE
  BY DEF Has
<1>1. t # none /\ hashedId[t] \in Nat
  OBVIOUS
<1>2. PICK j \in Nat : Mod(j, tables[h].capacity) = i /\ Probed(t, h, j)
  BY <1>1 DEF Findable
<1>3. KeyAt(h, j) = t
  BY <1>2 DEF KeyAt
<1>4. hashedId[t] <= j /\ hashedId[t] <= n
  BY <1>2 DEF Probed
<1>5. CASE j < n
  BY <1>1, <1>3, <1>4, <1>5
<1>6. CASE j = n
  BY <1>1, <1>3, <1>6
<1>7. CASE j > n
  BY <1>1, <1>2, <1>4, <1>7 DEF Probed
<1> QED
  BY <1>5, <1>6, <1>7

LEMMA BelowFinite ==
    ASSUME NEW k
    PROVE  /\ IsFiniteSet(Below(k)) /\ Cardinality(Below(k)) \in Nat
           /\ IsFiniteSet(Counted) /\ Cardinality(Counted) \in Nat
BY FS_Subset, FS_CardinalityType DEF Below, Counted

\* No table is ever full: its keys are threads within its quota, which is less
\* than its slots, and these are rationed.
LEMMA NeverFull == ASSUME IInv PROVE FreeSlot
<1> SUFFICES ASSUME NEW h \in DOMAIN tables,
                    none \notin {tables[h].keys[i] : i \in DOMAIN tables[h].keys}
             PROVE  FALSE
  BY DEF FreeSlot
<1>0. \A i \in 0 .. tables[h].capacity - 1 : tables[h].keys[i] # none
  BY TableType DEF IInv, Tables
<1> DEFINE c == tables[h].capacity
           keys == tables[h].keys
<1>1. /\ c \in Nat \ {0} /\ keys \in [0 .. c - 1 -> Thread \cup {none}]
      /\ Unique(h) /\ WithinQuota(h)
  BY TableType DEF IInv, Tables, TableOK
<1>2. newCount \in [Thread -> Nat] /\ Rationed
  BY DEF IInv, TypeOK, Counts
<1>3. Quota(c) \in Nat /\ Quota(c) < c
  BY <1>1, QuotaBelow
<1>4. \A i \in 0 .. c - 1 : keys[i] \in Thread /\ newCount[keys[i]] > 0
                            /\ newCount[keys[i]] < Quota(c)
  BY <1>0, <1>1 DEF WithinQuota
<1> HIDE DEF c, keys
<1>5. PICK q \in Nat : q = Quota(c) - 1
  <2>1. 0 \in 0 .. c - 1
    BY <1>1
  <2>2. newCount[keys[0]] > 0 /\ newCount[keys[0]] < Quota(c) /\ newCount[keys[0]] \in Nat
    BY <2>1, <1>2, <1>4
  <2> QED
    BY <2>2, <1>3
<1>6. keys \in [0 .. c - 1 -> Below(q)]
  <2>1. ASSUME NEW i \in 0 .. c - 1 PROVE keys[i] \in Below(q)
    <3>1. /\ keys[i] \in Thread /\ newCount[keys[i]] > 0 /\ newCount[keys[i]] < Quota(c)
          /\ newCount[keys[i]] \in Nat
      BY <1>2, <1>4
    <3>2. newCount[keys[i]] <= q
      BY <1>3, <1>5, <3>1
    <3> QED
      BY <3>1, <3>2 DEF Below
  <2>2. DOMAIN keys = 0 .. c - 1 /\ keys = [i \in 0 .. c - 1 |-> keys[i]]
    BY <1>1
  <2> QED
    BY <2>1, <2>2
<1>7. keys \in Injection(0 .. c - 1, Below(q))
  <2>1. \A i, j \in 0 .. c - 1 : keys[i] = keys[j] => i = j
    BY <1>0, <1>1 DEF Unique, c, keys
  <2> QED
    BY <1>6, <2>1 DEF Injection, IsInjective
<1>8. IsFiniteSet(0 .. c - 1) /\ Cardinality(0 .. c - 1) = c
  BY <1>1, FS_Interval
<1>9. Cardinality(0 .. c - 1) <= Cardinality(Below(q))
  BY <1>7, <1>8, BelowFinite, FS_Injection
<1>10. Cardinality(Below(q)) <= q /\ Cardinality(Below(q)) \in Nat
  BY <1>2, BelowFinite DEF Rationed
<1> QED
  BY <1>1, <1>3, <1>5, <1>8, <1>9, <1>10
-----------------------------------------------------------------------------
(* Steps of a thread that leave the tables and the counts alone.           *)

LEMMA LocalKept ==
    ASSUME UNCHANGED <<tables, newCount, producer>>, NEW s \in Thread, NEW r, Local(s, r)
    PROVE  Local(s, r)'
BY DEF Local, Finding, Inserting, Storing, Counting, Has, Probed, KeyAt

LEMMA TablesKept ==
    ASSUME Tables, UNCHANGED <<tables, newCount, producer, implicitProducerHash>>
    PROVE  Tables'
BY DEF Tables, IsSeq, TablesChained, Growing, TableOK, Unique, WithinQuota, Findable, ValuesRight,
       Probed, KeyAt

LEMMA CountsKept ==
    ASSUME Counts, UNCHANGED <<newCount, implicitProducerHashCount>>
    PROVE  Counts'
BY DEF Counts, CountExact, Rationed, Below

\* Only the thread changes: what it does next must be right for what it knows.
Moves(t, r) ==
    /\ thread' = [thread EXCEPT ![t] = r]
    /\ UNCHANGED <<tables, newCount, producer, hashVars>>

LEMMA MovesInv ==
    ASSUME IInv, NEW t \in Thread, NEW r, Moves(t, r), Local(t, r), TypeOK', Locked'
    PROVE  IInv'
<1>1. UNCHANGED <<tables, newCount, producer, implicitProducerHash, implicitProducerHashCount>>
  BY DEF Moves, hashVars
<1>2. Tables' /\ Counts'
  BY <1>1, TablesKept, CountsKept DEF IInv
<1>3. \A s \in Thread : thread'[s] = IF s = t THEN r ELSE thread[s]
  BY DEF Moves, IInv, TypeOK
<1>4. ASSUME NEW s \in Thread PROVE Local(s, thread[s])' /\ Owning(s)'
  <2>1. PICK x : x = thread'[s]
    OBVIOUS
  <2>2. Local(s, x)
    BY <1>3, <2>1 DEF IInv, Threads
  <2>3. Local(s, x)'
    BY <1>1, <2>2, LocalKept
  <2>4. Owning(s)'
    BY <1>1 DEF IInv, Threads, Owning, Has
  <2>5. Local(s, thread[s])'
    BY <2>1, <2>3
    DEF Local, Finding, Inserting, Storing, Counting, Has, Probed, KeyAt
  <2> QED
    BY <2>4, <2>5
<1>5. Threads'
  BY <1>4 DEF Threads
<1> QED
  BY <1>2, <1>5 DEF IInv

\* The thread's record has its type, and no producer is taken away.
LEMMA TypeMoves ==
    ASSUME TypeOK, NEW t \in Thread, NEW r, r \in Locals', Moves(t, r),
           implicitProducerHashResizeInProgress' \in BOOLEAN,
           producerCount' \in Nat, producerCount <= producerCount',
           producerListTail' \in 0 .. producerCount',
           next' \in [1 .. producerCount' -> 0 .. producerCount']
    PROVE  TypeOK'
<1>1. UNCHANGED <<tables, newCount, producer, implicitProducerHash, implicitProducerHashCount>>
  BY DEF Moves, hashVars
<1>2. \A x \in 0 .. producerCount : x \in 0 .. producerCount'
  BY DEF TypeOK
<1>3. thread' \in [Thread -> Locals']
  <2>1. \A s \in Thread : thread[s] \in Locals'
    BY <1>1, <1>2 DEF TypeOK, Locals
  <2> QED
    BY <2>1 DEF Moves, TypeOK
<1> QED
  BY <1>1, <1>2, <1>3 DEF TypeOK

LEMMA TypeQuiet ==
    ASSUME IInv, NEW t \in Thread, NEW r \in Locals, Moves(t, r),
           implicitProducerHashResizeInProgress' \in BOOLEAN, UNCHANGED listVars
    PROVE  TypeOK'
<1>1. r \in Locals' /\ UNCHANGED <<producerListTail, producerCount, next>>
  BY DEF Locals, Moves, listVars
<1>2. /\ producerCount \in Nat /\ producerListTail \in 0 .. producerCount
      /\ next \in [1 .. producerCount -> 0 .. producerCount] /\ TypeOK
  BY DEF IInv, TypeOK
<1> QED
  BY <1>1, <1>2, TypeMoves

LEMMA LockedMoves ==
    ASSUME IInv, NEW t \in Thread, NEW r, thread' = [thread EXCEPT ![t] = r],
           UNCHANGED implicitProducerHashResizeInProgress,
           r.pc \in Locking => thread[t].pc \in Locking
    PROVE  Locked'
BY DEF IInv, TypeOK, Locked

\* Such a step is right if the thread's new record is.
LEMMA QuietStep ==
    ASSUME IInv, NEW t \in Thread, NEW r \in Locals, Moves(t, r), Local(t, r),
           UNCHANGED <<implicitProducerHashResizeInProgress, listVars>>,
           r.pc \in Locking => thread[t].pc \in Locking
    PROVE  IInv'
<1>1. TypeOK'
  BY TypeQuiet DEF IInv, TypeOK
<1>2. Locked'
  BY LockedMoves DEF Moves
<1> QED
  BY <1>1, <1>2, MovesInv

LEMMA ThreadType ==
    ASSUME IInv, NEW t \in Thread
    PROVE  /\ thread[t] \in Locals /\ Local(t, thread[t]) /\ Owning(t)
           /\ DOMAIN tables = 1 .. Len(tables) /\ Len(tables) \in Nat \ {0}
           /\ implicitProducerHash = Len(tables)
           /\ producer \in [Thread -> 0 .. producerCount] /\ producerCount \in Nat
           /\ newCount \in [Thread -> Nat]
BY DEF IInv, TypeOK, Threads, Tables, IsSeq, TablesChained

LEMMA LoadHashInv == ASSUME IInv, NEW t \in Thread, LoadHash(t) PROVE IInv'
<1>1. PICK r : r = [At(t, "find") EXCEPT !.mainHash = implicitProducerHash,
                        !.hash = implicitProducerHash, !.index = hashedId[t]]
  OBVIOUS
<1>2. r \in Locals /\ thread[t].pc = "idle" /\ Moves(t, r)
  <2>1. r \in Locals
    <3>1. thread[t] \in Locals
      BY ThreadType
    <3>2. implicitProducerHash \in 1 .. Len(tables) /\ hashedId[t] \in Nat
      BY ThreadType
    <3> QED
      BY <1>1, <3>1, <3>2 DEF At, Locals
  <2> QED
    BY <1>1, <2>1 DEF LoadHash, Step, Moves
<1>3. r.pc = "find" /\ r.hash = Len(tables) /\ r.mainHash = Len(tables) /\ r.index = hashedId[t]
  BY <1>1, ThreadType DEF At, Locals
<1>4. Finding(t, r)
  BY <1>3, ThreadType DEF Finding, Probed
<1>5. Local(t, r)
  BY <1>2, <1>3, <1>4, ThreadType
  DEF Local, Inserting, Storing, Counting, Inserts, CountTaken
<1> QED
  BY <1>2, <1>3, <1>5, QuietStep DEF LoadHash, Locking

LEMMA NextSlotInv ==
    ASSUME IInv, NEW t \in Thread, NextSlot(t),
           UNCHANGED <<tables, hashVars, implicitProducerHashResizeInProgress, listVars, newCount>>
    PROVE  IInv'
<1>1. PICK r : r = [thread[t] EXCEPT !.index = @ + 1]
  OBVIOUS
<1>2. r \in Locals /\ thread[t].pc = "find" /\ Moves(t, r)
  <2>1. r \in Locals
    <3>1. thread[t] \in Locals
      BY ThreadType
    <3>2. thread[t].index + 1 \in Nat
      BY <3>1 DEF Locals
    <3>3. r = [thread[t] EXCEPT !.index = thread[t].index + 1]
      BY <1>1
    <3> QED
      BY <3>1, <3>2, <3>3 DEF Locals
  <2> QED
    BY <1>1, <2>1 DEF NextSlot, Step, Moves
<1>3. /\ r.pc = "find" /\ r.hash = thread[t].hash /\ r.mainHash = thread[t].mainHash
      /\ r.index = thread[t].index + 1 /\ thread[t].index \in Nat
  BY <1>1, <1>2, ThreadType DEF Locals
<1>4. KeyAt(r.hash, thread[t].index) \notin {t, none}
  BY <1>3 DEF NextSlot, Key, Slot, KeyAt, Mod
<1>5. Finding(t, r)
  <2>1. Finding(t, thread[t])
    BY ThreadType DEF Local
  <2>2. hashedId[t] \in Nat
    OBVIOUS
  <2>3. \A k \in hashedId[t] .. r.index - 1 :
          k = thread[t].index \/ k \in hashedId[t] .. thread[t].index - 1
    BY <1>3, <2>2
  <2> QED
    BY <1>2, <1>3, <1>4, <2>1, <2>2, <2>3 DEF Finding, Probed
<1>6. Local(t, r)
  BY <1>2, <1>3, <1>5, ThreadType
  DEF Local, Inserting, Storing, Counting, Inserts, CountTaken
<1> QED
  BY <1>2, <1>3, <1>6, QuietStep DEF Locking

\* What t finds is its own producer.
LEMMA FoundValue ==
    ASSUME IInv, NEW t \in Thread, Found(t)
    PROVE  /\ thread[t].pc = "find" /\ Has(t, thread[t].hash)
           /\ thread[t].hash \in DOMAIN tables
           /\ tables[thread[t].hash].values[Slot(t, thread[t].hash)] = producer[t]
           /\ newCount[t] > 0 /\ newCount[t] < Quota(tables[thread[t].hash].capacity)
<1>1. thread[t].pc = "find"
  BY DEF Found, Return, Step
<1>2. PICK h \in DOMAIN tables : h = thread[t].hash
  BY ThreadType DEF Locals
<1>3. PICK i \in 0 .. tables[h].capacity - 1 : i = Slot(t, h) /\ tables[h].keys[i] = t
  <2>1. thread[t].index \in Nat
    BY ThreadType DEF Locals
  <2>2. Slot(t, h) \in 0 .. tables[h].capacity - 1
    BY <2>1, KeyAtType DEF IInv, Tables, Slot, Mod
  <2> QED
    BY <1>2, <2>2 DEF Found, Key
<1>4. TableOK(h) /\ t # none
  BY DEF IInv, Tables
<1> QED
  BY <1>1, <1>2, <1>3, <1>4 DEF TableOK, ValuesRight, WithinQuota, Has

LEMMA FoundInv ==
    ASSUME IInv, NEW t \in Thread, Found(t),
           UNCHANGED <<tables, hashVars, implicitProducerHashResizeInProgress, listVars, newCount>>
    PROVE  IInv'
<1>1. CASE thread[t].hash = thread[t].mainHash
  <2>1. thread' = [thread EXCEPT ![t] = Idle] /\ producer' = [producer EXCEPT ![t] = producer[t]]
    BY <1>1, FoundValue DEF Found, Return, Step
  <2>2. producer' = producer
    BY <2>1, ThreadType
  <2>3. Moves(t, Idle) /\ Idle \in Locals /\ Idle.pc = "idle"
    BY <2>1, <2>2, ThreadType DEF Moves, Idle, Locals
  <2>4. Local(t, Idle)
    BY <2>3, FoundValue DEF Local, Finding, Inserting, Storing, Counting, Inserts, CountTaken
  <2> QED
    BY <2>3, <2>4, QuietStep DEF Locking
<1>2. CASE thread[t].hash # thread[t].mainHash
  <2>1. PICK r : r = [At(t, "store") EXCEPT !.index = hashedId[t],
                        !.value = tables[thread[t].hash].values[Slot(t, thread[t].hash)]]
    OBVIOUS
  <2>2. thread' = [thread EXCEPT ![t] = r] /\ UNCHANGED producer
    BY <1>2, <2>1 DEF Found, Step
  <2>3. /\ r \in Locals /\ r.pc = "store" /\ r.index = hashedId[t] /\ r.value = producer[t]
        /\ r.mainHash = thread[t].mainHash
    BY <2>1, FoundValue, ThreadType DEF At, Locals
  <2>4. Moves(t, r)
    BY <2>2 DEF Moves
  <2>5. /\ thread[t].hash < r.mainHash /\ r.mainHash \in DOMAIN tables
        /\ \A h \in DOMAIN tables : h >= r.mainHash => ~Has(t, h)
    BY <1>2, <2>3, FoundValue, ThreadType DEF Local, Finding, Locals
  <2>6. newCount[t] < Quota(tables[r.mainHash].capacity)
    <3>1. tables[thread[t].hash].capacity <= tables[r.mainHash].capacity
      BY <2>5, FoundValue, ThreadType DEF IInv, Tables, Growing
    <3>2. Quota(tables[thread[t].hash].capacity) <= Quota(tables[r.mainHash].capacity)
      BY <2>5, <3>1, FoundValue, QuotaGrows, TableType DEF IInv, Tables
    <3>3. /\ Quota(tables[thread[t].hash].capacity) \in Nat
          /\ Quota(tables[r.mainHash].capacity) \in Nat
      BY <2>5, FoundValue, QuotaBelow, TableType DEF IInv, Tables
    <3> QED
      BY <3>2, <3>3, FoundValue, ThreadType
  <2>7. Storing(t, r)
    BY <2>3, <2>5 DEF Storing, Probed
  <2>8. Local(t, r)
    BY <2>3, <2>6, <2>7, FoundValue
    DEF Local, Finding, Inserting, Counting, Inserts, CountTaken
  <2> QED
    BY <2>3, <2>4, <2>8, QuietStep DEF Locking
<1> QED
  BY <1>1, <1>2

LEMMA NotHereInv ==
    ASSUME IInv, NEW t \in Thread, NotHere(t),
           UNCHANGED <<tables, hashVars, implicitProducerHashResizeInProgress, listVars, newCount>>
    PROVE  IInv'
<1>1. PICK h \in DOMAIN tables : h = thread[t].hash
  BY ThreadType DEF Locals
<1>2. thread[t].pc = "find" /\ thread[t] \in Locals /\ Finding(t, thread[t])
  BY ThreadType DEF NotHere, Step, Local
<1>3. KeyAt(h, thread[t].index) = none
  BY <1>1 DEF NotHere, Key, Slot, KeyAt, Mod
<1>4. ~Has(t, h)
  <2>1. thread[t].index \in Nat /\ TypeOK /\ IsSeq /\ Findable(h)
    BY <1>2 DEF Locals, IInv, Tables, TableOK
  <2> QED
    BY <1>1, <1>2, <1>3, <2>1, NotFound DEF Finding
<1>5. \A g \in DOMAIN tables : g >= h => ~Has(t, g)
  <2>1. \A g \in DOMAIN tables : g >= h => g = h \/ g > h
    BY <1>1, ThreadType
  <2> QED
    BY <1>1, <1>2, <1>4, <2>1 DEF Finding
<1>6. tables[h].prev = h - 1 /\ h \in Nat \ {0}
  BY ThreadType DEF IInv, Tables, TablesChained
<1>7. CASE h = 1
  <2>1. PICK r : r = At(t, "count")
    OBVIOUS
  <2>2. r \in Locals /\ r.pc = "count"
    BY <1>2, <2>1 DEF At, Locals
  <2>3. Moves(t, r)
    BY <1>1, <1>6, <1>7, <2>1 DEF NotHere, Step, Prev, Moves
  <2>4. \A g \in DOMAIN tables : ~Has(t, g)
    BY <1>5, <1>7, ThreadType
  <2>5. newCount[t] = 0
    BY <1>2, <2>4, ThreadType DEF Local, Counting
  <2>6. Local(t, r)
    BY <2>2, <2>4, <2>5 DEF Local, Finding, Storing, Counting, Inserting, CountTaken
  <2> QED
    BY <2>2, <2>3, <2>6, QuietStep DEF NotHere, Locking
<1>8. CASE h # 1
  <2>1. PICK r : r = [thread[t] EXCEPT !.hash = tables[h].prev, !.index = hashedId[t]]
    OBVIOUS
  <2>2. tables[h].prev \in 1 .. Len(tables) /\ hashedId[t] \in Nat
    BY <1>1, <1>6, <1>8, ThreadType
  <2>3. /\ r \in Locals /\ r.pc = "find" /\ r.hash = h - 1 /\ r.index = hashedId[t]
        /\ r.mainHash = thread[t].mainHash
    BY <1>2, <1>6, <2>1, <2>2 DEF Locals
  <2>4. Moves(t, r)
    BY <1>1, <1>6, <1>8, <2>1 DEF NotHere, Step, Prev, Moves
  <2>5. Finding(t, r)
    <3>1. r.hash <= r.mainHash
      BY <1>1, <1>2, <1>6, <2>3 DEF Finding, Locals
    <3>2. \A g \in DOMAIN tables : g > r.hash => ~Has(t, g)
      BY <1>5, <1>6, <2>3, ThreadType
    <3> QED
      BY <2>2, <2>3, <3>1, <3>2 DEF Finding, Probed
  <2>6. Local(t, r)
    BY <1>2, <2>3, <2>5, ThreadType DEF Local, Storing, Counting, Inserting, Inserts, CountTaken
  <2> QED
    BY <2>3, <2>4, <2>6, QuietStep DEF NotHere, Locking
<1> QED
  BY <1>7, <1>8

\* A thread that inserts itself goes on as it is.
LEMMA StillInserting ==
    ASSUME IInv, NEW t \in Thread, NEW r,
           thread[t].pc \in {"try", "reload", "unlock", "room"},
           r.pc \in {"try", "reload", "unlock", "room"}
    PROVE  Local(t, r)
BY ThreadType DEF Local, Finding, Inserting, Storing, Counting, Inserts, CountTaken

LEMMA TryToGrowInv == ASSUME IInv, NEW t \in Thread, TryToGrow(t) PROVE IInv'
<1>1. PICK grows \in BOOLEAN :
        /\ grows = (HalfFull(t, thread[t].mainHash) /\ ~implicitProducerHashResizeInProgress)
        /\ thread' = [thread EXCEPT ![t] = At(t, IF grows THEN "reload" ELSE "room")]
        /\ implicitProducerHashResizeInProgress' = (implicitProducerHashResizeInProgress \/ grows)
  BY DEF TryToGrow, Step
<1>2. PICK r : r = At(t, IF grows THEN "reload" ELSE "room")
  OBVIOUS
<1>3. thread[t] \in Locals /\ implicitProducerHashResizeInProgress \in BOOLEAN
  BY ThreadType DEF IInv, TypeOK
<1>4. r \in Locals /\ r.pc = IF grows THEN "reload" ELSE "room"
  BY <1>2, <1>3 DEF At, Locals
<1>5. thread[t].pc = "try" /\ Moves(t, r) /\ UNCHANGED listVars
  BY <1>1, <1>2 DEF TryToGrow, Step, Moves
<1>6. TypeOK'
  BY <1>1, <1>3, <1>4, <1>5, TypeQuiet
<1>7. Locked'
  <2>1. \A s \in Thread : thread'[s] = IF s = t THEN r ELSE thread[s]
    BY <1>1, <1>2 DEF IInv, TypeOK
  <2>2. grows => \A s \in Thread : thread[s].pc \notin Locking
    BY <1>1 DEF IInv, Locked
  <2>3. implicitProducerHashResizeInProgress \/ grows => implicitProducerHashResizeInProgress'
    BY <1>1
  <2>4. ~grows => r.pc \notin Locking
    BY <1>4 DEF Locking
  <2> QED
    BY <2>1, <2>2, <2>3, <2>4 DEF IInv, Locked
<1> QED
  BY <1>4, <1>5, <1>6, <1>7, StillInserting, MovesInv

LEMMA ReloadInv == ASSUME IInv, NEW t \in Thread, Reload(t) PROVE IInv'
<1>1. PICK p \in {"grow", "unlock"} :
        thread' = [thread EXCEPT ![t] = [At(t, p) EXCEPT !.mainHash = implicitProducerHash]]
  BY DEF Reload, Step, ToReplace
<1>2. PICK r : r = [At(t, p) EXCEPT !.mainHash = implicitProducerHash]
  OBVIOUS
<1>3. thread[t] \in Locals /\ implicitProducerHash \in 1 .. Len(tables)
  BY ThreadType
<1>4. r \in Locals /\ r.pc = p /\ r.mainHash = Len(tables)
  BY <1>2, <1>3, ThreadType DEF At, Locals
<1>5. thread[t].pc = "reload" /\ Moves(t, r)
  BY <1>1, <1>2 DEF Reload, Step, Moves
<1>6. Local(t, r)
  BY <1>4, <1>5, ThreadType
  DEF Local, Finding, Inserting, Storing, Counting, Inserts, CountTaken
<1> QED
  BY <1>4, <1>5, <1>6, QuietStep DEF Reload, Locking

LEMMA UnlockInv == ASSUME IInv, NEW t \in Thread, Unlock(t) PROVE IInv'
<1>0. PICK r : r = IF thread[t].pc = "unlock" THEN At(t, "room") ELSE Idle
  OBVIOUS
<1>1. /\ thread[t].pc \in {"unlock", "unlockFailed"}
      /\ thread' = [thread EXCEPT ![t] = r]
  <2>1. CASE Step(t, "unlock", At(t, "room"))
    BY <1>0, <2>1 DEF Step
  <2>2. CASE Step(t, "unlockFailed", Idle)
    BY <1>0, <2>2 DEF Step
  <2> QED
    BY <2>1, <2>2 DEF Unlock
<1>2. thread[t] \in Locals
  BY ThreadType
<1>3. r \in Locals /\ r.pc = IF thread[t].pc = "unlock" THEN "room" ELSE "idle"
  <2>1. CASE thread[t].pc = "unlock"
    BY <1>0, <1>2, <2>1 DEF At, Locals
  <2>2. CASE thread[t].pc # "unlock"
    <3>1. 1 \in 1 .. Len(tables) /\ 0 \in 0 .. producerCount
      BY ThreadType
    <3> QED
      BY <1>0, <2>2, <3>1 DEF Idle, Locals
  <2> QED
    BY <2>1, <2>2
<1>4. Moves(t, r)
  BY <1>1 DEF Unlock, Moves
<1>5. TypeOK'
  BY <1>3, <1>4, TypeQuiet DEF Unlock
<1>6. Locked'
  <2>1. \A s \in Thread : thread'[s] = IF s = t THEN r ELSE thread[s]
    BY <1>1 DEF IInv, TypeOK
  <2>2. \A s \in Thread \ {t} : thread[s].pc \notin Locking
    BY <1>1 DEF IInv, Locked, Locking
  <2> QED
    BY <1>3, <2>1, <2>2 DEF Locked, Locking
<1>7. Local(t, r)
  BY <1>1, <1>3, ThreadType
  DEF Local, Finding, Inserting, Storing, Counting, Inserts, CountTaken
<1> QED
  BY <1>4, <1>5, <1>6, <1>7, MovesInv

LEMMA WaitInv == ASSUME IInv, NEW t \in Thread, Wait(t) PROVE IInv'
<1>1. PICK r : r = [At(t, "try") EXCEPT !.mainHash = implicitProducerHash]
  OBVIOUS
<1>2. thread[t] \in Locals /\ implicitProducerHash \in 1 .. Len(tables)
  BY ThreadType
<1>3. r \in Locals /\ r.pc = "try"
  BY <1>1, <1>2 DEF At, Locals
<1>4. thread[t].pc = "room" /\ Moves(t, r)
  BY <1>1 DEF Wait, Step, Moves
<1> QED
  BY <1>3, <1>4, StillInserting, QuietStep DEF Wait, Locking

-----------------------------------------------------------------------------
(* The list of producers.                                                  *)

LEMMA CreateProducerInv == ASSUME IInv, NEW t \in Thread, CreateProducer(t) PROVE IInv'
<1>1. PICK r : r = [At(t, "link") EXCEPT !.value = producerCount + 1]
  OBVIOUS
<1>2. thread[t] \in Locals /\ producerCount \in Nat /\ producerCount' = producerCount + 1
      /\ UNCHANGED tables
  BY ThreadType DEF CreateProducer
<1>3. r \in Locals' /\ r.pc = "link" /\ r.mainHash = thread[t].mainHash
  <2>1. /\ r = [pc |-> "link", mainHash |-> thread[t].mainHash, hash |-> thread[t].hash,
                 index |-> thread[t].index, value |-> producerCount + 1]
        /\ thread[t].mainHash \in 1 .. Len(tables) /\ thread[t].hash \in 1 .. Len(tables)
        /\ thread[t].index \in Nat
    BY <1>1, <1>2 DEF At, Locals
  <2>2. producerCount + 1 \in 0 .. producerCount'
    BY <1>2
  <2> QED
    BY <1>2, <2>1, <2>2 DEF Locals
<1>4. thread[t].pc = "room" /\ Moves(t, r)
  BY <1>1 DEF CreateProducer, Step, Moves
<1>5. next' \in [1 .. producerCount' -> 0 .. producerCount']
      /\ producerListTail' \in 0 .. producerCount'
  <2>1. next \in [1 .. producerCount -> 0 .. producerCount]
        /\ producerListTail \in 0 .. producerCount /\ producerListTail' = producerListTail
        /\ next' = Append(next, producerListTail)
    BY DEF IInv, TypeOK, CreateProducer
  <2>2. PICK S : S = 0 .. producerCount + 1
    OBVIOUS
  <2>3. next \in Seq(S) /\ Len(next) = producerCount /\ producerListTail \in S
    BY <1>2, <2>1, <2>2
  <2>4. next' \in Seq(S) /\ Len(next') = producerCount + 1
    BY <2>1, <2>3, AppendProperties
  <2>5. next' \in [1 .. producerCount + 1 -> S]
    BY <2>4
  <2> QED
    BY <1>2, <2>1, <2>2, <2>3, <2>5
<1>6. TypeOK'
  <2>1. implicitProducerHashResizeInProgress' \in BOOLEAN /\ producerCount' \in Nat
        /\ producerCount <= producerCount' /\ TypeOK
    BY <1>2 DEF IInv, TypeOK, CreateProducer
  <2> QED
    BY <1>3, <1>4, <1>5, <2>1, TypeMoves
<1>7. Locked'
  BY <1>3, <1>4, LockedMoves DEF Moves, CreateProducer, Locking
<1>8. newCount[t] < Quota(tables[r.mainHash].capacity)
  BY <1>3 DEF CreateProducer, HasRoom, Quota
<1>9. Local(t, r)
  BY <1>3, <1>4, <1>8, ThreadType
  DEF Local, Finding, Inserting, Storing, Counting, Inserts, CountTaken
<1> QED
  BY <1>4, <1>6, <1>7, <1>9, MovesInv

LEMMA LinkInv == ASSUME IInv, NEW t \in Thread, Link(t) PROVE IInv'
<1>1. PICK r : r = [At(t, "store") EXCEPT !.index = hashedId[t]]
  OBVIOUS
<1>2. thread[t] \in Locals /\ UNCHANGED <<tables, producerCount, next>> /\ hashedId[t] \in Nat
      /\ producerListTail' = thread[t].value
  BY ThreadType DEF Link
<1>3. /\ r \in Locals' /\ r.pc = "store" /\ r.mainHash = thread[t].mainHash
      /\ r.index = hashedId[t]
  BY <1>1, <1>2 DEF At, Locals
<1>4. thread[t].pc = "link" /\ Moves(t, r)
  BY <1>1 DEF Link, Step, Moves
<1>5. producerListTail' \in 0 .. producerCount'
  BY <1>2 DEF Locals
<1>6. TypeOK'
  <2>1. /\ TypeOK /\ implicitProducerHashResizeInProgress' \in BOOLEAN
        /\ producerCount' \in Nat /\ producerCount <= producerCount'
        /\ next' \in [1 .. producerCount' -> 0 .. producerCount']
    BY <1>2 DEF IInv, TypeOK, Link
  <2> QED
    BY <1>3, <1>4, <1>5, <2>1, TypeMoves
<1>7. Locked'
  BY <1>3, <1>4, LockedMoves DEF Moves, Link, Locking
<1>8. \A h \in DOMAIN tables : ~Has(t, h)
  BY <1>4, ThreadType DEF Local, Inserting, Inserts
<1>9. Local(t, r)
  BY <1>2, <1>3, <1>4, <1>8, ThreadType
  DEF Local, Finding, Inserting, Storing, Counting, Inserts, CountTaken, Probed
<1> QED
  BY <1>4, <1>6, <1>7, <1>9, MovesInv

LEMMA LinkFailsInv == ASSUME IInv, NEW t \in Thread, LinkFails(t) PROVE IInv'
<1>1. thread[t] \in Locals /\ Local(t, thread[t]) /\ thread' = thread
      /\ UNCHANGED <<tables, producerCount, producerListTail>>
  BY ThreadType DEF LinkFails, Step, IInv, TypeOK
<1>2. PICK r : r = thread[t]
  OBVIOUS
<1>3. r \in Locals' /\ Local(t, r) /\ Moves(t, r)
  BY <1>1, <1>2 DEF Locals, Moves, LinkFails, Step
<1>4. next' \in [1 .. producerCount' -> 0 .. producerCount']
  BY <1>1 DEF LinkFails, IInv, TypeOK
<1>5. TypeOK'
  <2>1. /\ TypeOK /\ implicitProducerHashResizeInProgress' \in BOOLEAN
        /\ producerCount' \in Nat /\ producerCount <= producerCount'
        /\ producerListTail' \in 0 .. producerCount'
    BY <1>1 DEF IInv, TypeOK, LinkFails
  <2> QED
    BY <1>3, <1>4, <2>1, TypeMoves
<1>6. Locked'
  BY <1>1 DEF IInv, Locked, LinkFails
<1> QED
  BY <1>3, <1>5, <1>6, MovesInv

-----------------------------------------------------------------------------
(* Steps that change the count of a thread that has no entry.              *)

CountMoves(t, r, n) ==
    /\ thread' = [thread EXCEPT ![t] = r]
    /\ newCount' = [newCount EXCEPT ![t] = n]
    /\ UNCHANGED <<tables, producer, implicitProducerHash>>

LEMMA CountMovesInv ==
    ASSUME IInv, NEW t \in Thread, NEW r, NEW n \in Nat, CountMoves(t, r, n),
           \A h \in DOMAIN tables : ~Has(t, h),
           Local(t, r)', TypeOK', Locked', Counts'
    PROVE  IInv'
<1>1. /\ UNCHANGED <<tables, producer, implicitProducerHash>>
      /\ \A s \in Thread : thread'[s] = IF s = t THEN r ELSE thread[s]
      /\ \A s \in Thread \ {t} : newCount'[s] = newCount[s]
  BY DEF CountMoves, IInv, TypeOK
<1>2. Tables'
  <2>1. (IsSeq /\ TablesChained /\ Growing)'
    BY <1>1 DEF IInv, Tables, IsSeq, TablesChained, Growing
  <2>2. ASSUME NEW h \in DOMAIN tables PROVE TableOK(h)'
    <3>1. TableOK(h) /\ ~Has(t, h)
          /\ tables[h].keys \in [0 .. tables[h].capacity - 1 -> Thread \cup {none}]
      BY TableType DEF IInv, Tables
    <3>2. WithinQuota(h)'
      <4>1. ASSUME NEW i \in 0 .. tables[h].capacity - 1, tables[h].keys[i] # none
            PROVE  newCount'[tables[h].keys[i]] = newCount[tables[h].keys[i]]
        <5>1. tables[h].keys[i] \in Thread \ {t}
          BY <3>1, <4>1 DEF Has
        <5> QED
          BY <1>1, <5>1
      <4>2. WithinQuota(h) /\ tables' = tables
        BY <1>1, <3>1 DEF TableOK
      <4> QED
        BY <4>1, <4>2 DEF WithinQuota
    <3>3. Unique(h)' /\ Findable(h)' /\ ValuesRight(h)'
      BY <1>1, <3>1 DEF TableOK, Unique, Findable, ValuesRight, Probed, KeyAt
    <3> QED
      BY <3>2, <3>3 DEF TableOK
  <2> QED
    BY <1>1, <2>1, <2>2 DEF Tables
<1>3. ASSUME NEW s \in Thread PROVE Local(s, thread[s])' /\ Owning(s)'
  <2>1. Owning(s)'
    BY <1>1 DEF IInv, Threads, Owning, Has
  <2>2. PICK x : x = thread'[s]
    OBVIOUS
  <2>3. Local(s, x)'
    <3>1. CASE s = t
      BY <1>1, <2>2, <3>1
    <3>2. CASE s # t
      <4>1. Local(s, x) /\ newCount'[s] = newCount[s]
        BY <1>1, <2>2, <3>2 DEF IInv, Threads
      <4> QED
        BY <1>1, <4>1
        DEF Local, Finding, Inserting, Storing, Counting, Has, Probed, KeyAt
    <3> QED
      BY <3>1, <3>2
  <2>4. Local(s, thread[s])'
    BY <2>2, <2>3
    DEF Local, Finding, Inserting, Storing, Counting, Has, Probed, KeyAt
  <2> QED
    BY <2>1, <2>4
<1>4. Threads'
  BY <1>3 DEF Threads
<1> QED
  BY <1>2, <1>4 DEF IInv

LEMMA CountInv == ASSUME IInv, NEW t \in Thread, Count(t) PROVE IInv'
<1>1. PICK r, n : r = At(t, "try") /\ n = implicitProducerHashCount + 1
  OBVIOUS
<1>2. thread[t] \in Locals /\ implicitProducerHashCount \in Nat /\ newCount \in [Thread -> Nat]
      /\ TypeOK /\ Counts
  BY ThreadType DEF IInv, TypeOK
<1>3. r \in Locals /\ r.pc = "try" /\ r.mainHash = thread[t].mainHash /\ n \in Nat /\ n > 0
  <2>1. r \in Locals /\ r.pc = "try" /\ r.mainHash = thread[t].mainHash
    BY <1>1, <1>2 DEF At, Locals
  <2> QED
    BY <1>1, <1>2, <2>1
<1>4. thread[t].pc = "count" /\ CountMoves(t, r, n) /\ implicitProducerHashCount' = n
      /\ UNCHANGED <<implicitProducerHashResizeInProgress, producerListTail, producerCount, next>>
  BY <1>1 DEF Count, Step, CountMoves, listVars
<1>5. newCount[t] = 0 /\ \A h \in DOMAIN tables : ~Has(t, h)
  BY <1>4, ThreadType DEF Local, Inserting, Counting, Inserts
<1>6. newCount' \in [Thread -> Nat] /\ newCount'[t] = n
      /\ \A s \in Thread \ {t} : newCount'[s] = newCount[s]
  BY <1>2, <1>3, <1>4 DEF CountMoves
<1>7. TypeOK'
  <2>1. thread' \in [Thread -> Locals']
    BY <1>2, <1>3, <1>4 DEF CountMoves, TypeOK, Locals
  <2> QED
    BY <1>2, <1>3, <1>4, <1>6, <2>1 DEF CountMoves, TypeOK
<1>8. Locked'
  BY <1>3, <1>4, LockedMoves DEF CountMoves, Locking
<1>9. Counts'
  <2>1. Counted' = Counted \cup {t} /\ t \notin Counted
    BY <1>3, <1>5, <1>6 DEF Counted
  <2>2. Cardinality(Counted') = Cardinality(Counted) + 1 /\ Cardinality(Counted) \in Nat
        /\ IsFiniteSet(Counted')
    BY <2>1, BelowFinite, FS_AddElement
  <2>3. Cardinality(Counted) = implicitProducerHashCount
    BY <1>2 DEF Counts, CountExact, Counted
  <2>4. CountExact'
    BY <1>1, <1>4, <2>2, <2>3 DEF CountExact, Counted
  <2>5. ASSUME NEW k \in Nat PROVE Cardinality(Below(k)') <= k
    <3>1. CASE k >= n
      <4>1. Below(k)' \subseteq Counted'
        BY DEF Below, Counted
      <4>2. Cardinality(Below(k)') <= n
        BY <1>1, <2>2, <2>3, <4>1, FS_Subset
      <4>3. Cardinality(Below(k)') \in Nat
        BY <2>2, <4>1, FS_Subset, FS_CardinalityType
      <4> QED
        BY <1>3, <3>1, <4>2, <4>3
    <3>2. CASE k < n
      <4>1. Below(k)' = Below(k)
        BY <1>3, <1>5, <1>6, <3>2 DEF Below
      <4> QED
        BY <1>2, <4>1 DEF Counts, Rationed
    <3> QED
      BY <1>3, <3>1, <3>2
  <2> QED
    BY <2>4, <2>5 DEF Counts, Rationed
<1>10. Local(t, r)'
  <2>1. \A h \in DOMAIN tables : ~Has(t, h)'
    BY <1>4, <1>5 DEF CountMoves, Has
  <2> QED
    BY <1>3, <1>4, <1>6, <2>1
    DEF CountMoves, Local, Finding, Inserting, Storing, Counting, Inserts, CountTaken
<1> QED
  BY <1>3, <1>4, <1>5, <1>7, <1>8, <1>9, <1>10, CountMovesInv

\* A thread whose allocation failed is counted no more.
LEMMA TakeBackInv ==
    ASSUME IInv, NEW t \in Thread, NEW r \in Locals, CountMoves(t, r, 0),
           thread[t].pc \in {"grow", "room"},
           r.pc = IF thread[t].pc = "grow" THEN "unlockFailed" ELSE "idle",
           implicitProducerHashCount' = implicitProducerHashCount - 1,
           UNCHANGED <<implicitProducerHashResizeInProgress, listVars>>
    PROVE  IInv'
<1>1. implicitProducerHashCount \in Nat /\ newCount \in [Thread -> Nat] /\ TypeOK /\ Counts
  BY DEF IInv, TypeOK
<1>2. newCount[t] > 0 /\ \A h \in DOMAIN tables : ~Has(t, h)
  BY ThreadType DEF Local, Inserting, Counting, Inserts, CountTaken
<1>3. newCount' \in [Thread -> Nat] /\ newCount'[t] = 0
      /\ \A s \in Thread \ {t} : newCount'[s] = newCount[s]
  BY <1>1 DEF CountMoves
<1>4. Counted' = Counted \ {t} /\ t \in Counted
  BY <1>2, <1>3 DEF Counted
<1>5. Cardinality(Counted') = Cardinality(Counted) - 1 /\ Cardinality(Counted) \in Nat
      /\ Cardinality(Counted') \in Nat
  <2>1. IsFiniteSet(Counted')
    BY <1>4, BelowFinite, FS_Subset
  <2> QED
    BY <1>4, <2>1, BelowFinite, FS_RemoveElement, FS_CardinalityType
<1>6. Cardinality(Counted) = implicitProducerHashCount
  BY <1>1 DEF Counts, CountExact, Counted
<1>7. TypeOK'
  <2>1. thread' \in [Thread -> Locals']
    BY <1>1 DEF CountMoves, TypeOK, Locals, listVars
  <2>2. implicitProducerHashCount' \in Nat
    BY <1>5, <1>6
  <2> QED
    BY <1>1, <1>3, <2>1, <2>2 DEF CountMoves, TypeOK, listVars
<1>8. Locked'
  BY LockedMoves DEF CountMoves, Locking
<1>9. Counts'
  <2>1. CountExact'
    BY <1>5, <1>6 DEF CountExact, Counted
  <2>2. ASSUME NEW k \in Nat PROVE Cardinality(Below(k)') <= k
    <3>1. Below(k)' \subseteq Below(k)
      BY <1>3 DEF Below
    <3>2. Cardinality(Below(k)') <= Cardinality(Below(k)) /\ Cardinality(Below(k)') \in Nat
      BY <3>1, BelowFinite, FS_Subset, FS_CardinalityType
    <3>3. Cardinality(Below(k)) <= k /\ Cardinality(Below(k)) \in Nat
      BY <1>1, BelowFinite DEF Counts, Rationed
    <3> QED
      BY <3>2, <3>3
  <2> QED
    BY <2>1, <2>2 DEF Counts, Rationed
<1>10. Local(t, r)'
  <2>1. \A h \in DOMAIN tables : ~Has(t, h)'
    BY <1>2 DEF CountMoves, Has
  <2> QED
    BY <1>3, <2>1
    DEF CountMoves, Local, Finding, Inserting, Storing, Counting, Inserts, CountTaken
<1> QED
  BY <1>2, <1>7, <1>8, <1>9, <1>10, CountMovesInv

LEMMA FailsInv ==
    ASSUME IInv, NEW t \in Thread, GrowFails(t) \/ CreateFails(t)
    PROVE  IInv'
<1>1. CASE GrowFails(t)
  <2>1. PICK r : r = At(t, "unlockFailed")
    OBVIOUS
  <2>2. thread[t] \in Locals
    BY ThreadType
  <2>3. r \in Locals /\ r.pc = "unlockFailed"
    BY <2>1, <2>2 DEF At, Locals
  <2>4. thread[t].pc = "grow" /\ CountMoves(t, r, 0)
        /\ implicitProducerHashCount' = implicitProducerHashCount - 1
        /\ UNCHANGED <<implicitProducerHashResizeInProgress, listVars>>
    BY <1>1, <2>1 DEF GrowFails, Step, Unlocks, CountMoves
  <2> QED
    BY <2>3, <2>4, TakeBackInv
<1>2. CASE CreateFails(t)
  <2>1. Idle \in Locals /\ Idle.pc = "idle"
    BY ThreadType DEF Idle, Locals
  <2>2. thread[t].pc = "room" /\ CountMoves(t, Idle, 0)
        /\ implicitProducerHashCount' = implicitProducerHashCount - 1
        /\ UNCHANGED <<implicitProducerHashResizeInProgress, listVars>>
    BY <1>2 DEF CreateFails, Step, CountTakenBack, CountMoves
  <2> QED
    BY <2>1, <2>2, TakeBackInv
<1> QED
  BY <1>1, <1>2

-----------------------------------------------------------------------------
(* A new table.                                                            *)

\* It has room for the thread that makes it, is not smaller and leads to the last one.
NewTable(T) ==
    /\ T.capacity \in Nat \ {0} /\ tables[Len(tables)].capacity <= T.capacity
    /\ T.prev = Len(tables)
    /\ T.keys = [i \in 0 .. T.capacity - 1 |-> none]
    /\ T.values = [i \in 0 .. T.capacity - 1 |-> 0]
    /\ T = [capacity |-> T.capacity, prev |-> T.prev, keys |-> T.keys, values |-> T.values]

LEMMA GrowTable ==
    ASSUME IInv, NEW t \in Thread, Grow(t)
    PROVE  \E T : NewTable(T) /\ tables' = Append(tables, T)
<1>1. thread[t].pc = "grow" /\ thread[t].mainHash = Len(tables) /\ newCount[t] \in Nat
      /\ newCount[t] > 0
  BY ThreadType DEF Grow, Step, Local, Counting, CountTaken
<1>2. PICK c \in Nat \ {0} : c = tables[Len(tables)].capacity
  BY TableType, ThreadType DEF IInv, Tables
<1>3. PICK m \in 1 .. 2 * newCount[t] + 2 : tables' = Append(tables, EmptyTable(2 * c * m, Len(tables)))
  BY <1>1, <1>2 DEF Grow
<1>4. m \in Nat /\ m >= 1
  BY <1>1, <1>3
<1>5. 2 * c * m \in Nat \ {0} /\ c <= 2 * c * m
  BY <1>2, <1>4, Z3T(30)
<1>6. PICK C \in Nat \ {0} : C = 2 * c * m
  BY <1>5
<1>7. NewTable(EmptyTable(C, Len(tables)))
  BY <1>2, <1>5, <1>6 DEF NewTable, EmptyTable
<1> QED
  BY <1>3, <1>6, <1>7

LEMMA Appended ==
    ASSUME IInv, NEW T, tables' = Append(tables, T)
    PROVE  /\ IsSeq' /\ Len(tables') = Len(tables) + 1 /\ Len(tables) \in Nat
           /\ DOMAIN tables = 1 .. Len(tables) /\ DOMAIN tables' = 1 .. Len(tables) + 1
           /\ tables'[Len(tables) + 1] = T
           /\ \A h \in DOMAIN tables : tables'[h] = tables[h]
<1>1. Len(tables) \in Nat /\ tables = [h \in 1 .. Len(tables) |-> tables[h]]
  BY DEF IInv, Tables, IsSeq
<1>2. PICK S : S = {tables[h] : h \in 1 .. Len(tables)} \cup {T}
  OBVIOUS
<1>3. tables \in Seq(S) /\ T \in S
  BY <1>1, <1>2
<1>4. /\ tables' \in Seq(S) /\ Len(tables') = Len(tables) + 1
      /\ \A h \in 1 .. Len(tables) : tables'[h] = tables[h]
      /\ tables'[Len(tables) + 1] = T
  BY <1>3, AppendProperties
<1>5. PICK q \in Seq(S) : q = tables'
  BY <1>4
<1>6. Len(q) \in Nat /\ DOMAIN q = 1 .. Len(q) /\ q = [h \in 1 .. Len(q) |-> q[h]]
  OBVIOUS
<1>7. IsSeq'
  BY <1>5, <1>6 DEF IsSeq
<1>8. DOMAIN tables = 1 .. Len(tables) /\ DOMAIN tables' = 1 .. Len(tables) + 1
  BY <1>1, <1>4, <1>5, <1>6
<1> QED
  BY <1>1, <1>4, <1>7, <1>8

LEMMA GrowInv == ASSUME IInv, NEW t \in Thread, Grow(t) PROVE IInv'
<1>1. PICK T : NewTable(T) /\ tables' = Append(tables, T)
  BY GrowTable
<1>2. PICK n : n = Len(tables) /\ n \in Nat \ {0}
  BY ThreadType
<1>3. /\ IsSeq' /\ Len(tables') = n + 1
      /\ DOMAIN tables = 1 .. n /\ DOMAIN tables' = 1 .. n + 1 /\ tables'[n + 1] = T
      /\ \A h \in 1 .. n : tables'[h] = tables[h]
  BY <1>1, <1>2, Appended
<1>4. /\ implicitProducerHash' = n + 1 /\ thread[t].pc = "grow"
      /\ UNCHANGED <<implicitProducerHashCount, implicitProducerHashResizeInProgress,
                      producerListTail, producerCount, next, newCount, producer>>
  BY <1>2 DEF Grow, Step, listVars
<1>5. PICK r : r = [At(t, "unlock") EXCEPT !.mainHash = n + 1]
  OBVIOUS
<1>6. thread' = [thread EXCEPT ![t] = r]
  BY <1>2, <1>5 DEF Grow, Step
<1>7. r \in Locals' /\ r.pc = "unlock"
  <2>1. thread[t] \in Locals
    BY ThreadType
  <2>2. /\ r = [pc |-> "unlock", mainHash |-> n + 1, hash |-> thread[t].hash,
                 index |-> thread[t].index, value |-> thread[t].value]
        /\ thread[t].hash \in 1 .. n /\ thread[t].index \in Nat
        /\ thread[t].value \in 0 .. producerCount
    BY <1>2, <1>5, <2>1 DEF At, Locals
  <2>3. n + 1 \in 1 .. n + 1 /\ thread[t].hash \in 1 .. n + 1
    BY <1>2, <2>2
  <2> QED
    BY <1>3, <1>4, <2>2, <2>3 DEF Locals
<1>8. \A s \in Thread : thread'[s] = IF s = t THEN r ELSE thread[s]
  BY <1>6 DEF IInv, TypeOK
<1>9. /\ T.capacity \in Nat \ {0} /\ tables[n].capacity <= T.capacity /\ T.prev = n
      /\ \A i \in 0 .. T.capacity - 1 : T.keys[i] = none
  BY <1>1, <1>2 DEF NewTable
<1>10. TypeOK'
  <2>1. thread' \in [Thread -> Locals']
    <3>1. \A s \in Thread : thread[s] \in Locals'
      <4> SUFFICES ASSUME NEW s \in Thread PROVE thread[s] \in Locals'
        OBVIOUS
      <4>1. thread[s] \in Locals
        BY ThreadType
      <4> QED
        BY <1>2, <1>3, <1>4, <4>1 DEF Locals
    <3> QED
      BY <1>6, <1>7, <3>1 DEF IInv, TypeOK
  <2>2. ASSUME NEW h \in 1 .. n + 1
        PROVE  tables'[h] \in [capacity : Nat \ {0}, prev : 0 .. h - 1,
                   keys : [0 .. tables'[h].capacity - 1 -> Thread \cup {none}],
                   values : [0 .. tables'[h].capacity - 1 -> 0 .. producerCount]]
    <3>1. CASE h = n + 1
      <4>1. producerCount \in Nat
        BY ThreadType
      <4>2. T.keys \in [0 .. T.capacity - 1 -> Thread \cup {none}]
            /\ T.values \in [0 .. T.capacity - 1 -> 0 .. producerCount]
        BY <1>1, <4>1 DEF NewTable
      <4>3. T.prev \in 0 .. h - 1
        BY <1>2, <1>9, <3>1
      <4> QED
        BY <1>1, <1>3, <1>9, <3>1, <4>2, <4>3 DEF NewTable
    <3>2. CASE h # n + 1
      <4>1. h \in DOMAIN tables /\ tables'[h] = tables[h]
        BY <1>2, <1>3, <3>2
      <4> QED
        BY <4>1 DEF IInv, TypeOK
    <3> QED
      BY <3>1, <3>2
  <2>3. implicitProducerHash' \in DOMAIN tables'
    BY <1>2, <1>3, <1>4
  <2> QED
    BY <1>3, <1>4, <2>1, <2>2, <2>3 DEF IInv, TypeOK
<1>11. Tables'
  <2>1. TablesChained'
    BY <1>2, <1>3, <1>4, <1>9 DEF IInv, Tables, TablesChained
  <2>2. Growing'
    <3>1. \A h \in 1 .. n : tables[h].capacity <= tables[n].capacity /\ tables[h].capacity \in Nat
      BY <1>2, <1>3, TableType DEF IInv, Tables, Growing
    <3>2. \A h \in 1 .. n : tables[h].capacity <= T.capacity
      BY <1>2, <1>9, <3>1
    <3> QED
      BY <1>2, <1>3, <1>9, <3>2 DEF IInv, Tables, Growing
  <2>3. ASSUME NEW h \in 1 .. n + 1 PROVE TableOK(h)'
    <3>1. CASE h = n + 1
      BY <1>3, <1>9, <3>1 DEF TableOK, Unique, WithinQuota, Findable, ValuesRight
    <3>2. CASE h # n + 1
      <4>1. h \in DOMAIN tables /\ tables'[h] = tables[h] /\ TableOK(h)
        BY <1>2, <1>3, <3>2 DEF IInv, Tables
      <4> QED
        BY <1>4, <4>1
        DEF TableOK, Unique, WithinQuota, Findable, ValuesRight, Probed, KeyAt
    <3> QED
      BY <3>1, <3>2
  <2> QED
    BY <1>3, <2>1, <2>2, <2>3 DEF Tables
<1>12. Counts'
  BY <1>4, CountsKept DEF IInv
<1>13. Locked'
  BY <1>4, <1>6, <1>7, LockedMoves DEF Locking
<1>14. \A s \in Thread : ~Has(s, n + 1)' /\ \A h \in 1 .. n : Has(s, h)' <=> Has(s, h)
  BY <1>3, <1>9 DEF Has
<1>15. ASSUME NEW s \in Thread PROVE Local(s, thread[s])' /\ Owning(s)'
  <2>1. Owning(s)'
    BY <1>2, <1>3, <1>4, <1>14 DEF IInv, Threads, Owning
  <2>2. PICK x : x = thread'[s]
    OBVIOUS
  <2>3. Local(s, x)'
    <3>1. CASE s = t
      <4>1. x = r /\ newCount[t] > 0 /\ \A h \in 1 .. n : ~Has(t, h)
        BY <1>3, <1>4, <1>8, <2>2, <3>1, ThreadType
        DEF Local, Inserting, Inserts, Counting, CountTaken
      <4>2. \A h \in 1 .. n + 1 : ~Has(t, h)'
        BY <1>2, <1>14, <4>1
      <4> QED
        BY <1>3, <1>4, <1>7, <3>1, <4>1, <4>2
        DEF Local, Finding, Inserting, Storing, Counting, Inserts, CountTaken
    <3>2. CASE s # t
      <4>1. x = thread[s] /\ Local(s, x) /\ x \in Locals
        BY <1>8, <2>2, <3>2, ThreadType
      <4>2. x.mainHash \in 1 .. n /\ x.hash \in 1 .. n /\ x.pc # "grow"
        BY <1>2, <1>4, <3>2, <4>1 DEF Locals, IInv, Locked, Locking
      <4>3. \A j : KeyAt(x.hash, j)' = KeyAt(x.hash, j) /\ KeyAt(x.mainHash, j)' = KeyAt(x.mainHash, j)
        BY <1>3, <4>2 DEF KeyAt
      <4>4. Finding(s, x)'
        BY <1>2, <1>3, <1>14, <4>1, <4>3 DEF Local, Finding, Probed
      <4>5. Inserting(s, x)'
        BY <1>2, <1>3, <1>14, <4>1 DEF Local, Inserting
      <4>6. Storing(s, x)'
        BY <1>2, <1>3, <1>4, <1>14, <4>1, <4>3 DEF Local, Storing, Probed
      <4>7. Counting(s, x)'
        BY <1>2, <1>3, <1>4, <1>14, <4>1, <4>2 DEF Local, Counting
      <4> QED
        BY <4>2, <4>4, <4>5, <4>6, <4>7 DEF Local
    <3> QED
      BY <3>1, <3>2
  <2>4. Local(s, thread[s])'
    BY <2>2, <2>3
    DEF Local, Finding, Inserting, Storing, Counting, Has, Probed, KeyAt
  <2> QED
    BY <2>1, <2>4
<1>16. Threads'
  BY <1>15 DEF Threads
<1> QED
  BY <1>10, <1>11, <1>12, <1>13, <1>16 DEF IInv

-----------------------------------------------------------------------------
(* A new entry.                                                            *)

\* Entry t goes to the free slot i of table h.
Enters(t, h, i) ==
    /\ h \in DOMAIN tables /\ i \in 0 .. tables[h].capacity - 1
    /\ tables[h].keys[i] = none
    /\ tables' = [tables EXCEPT ![h].keys[i] = t, ![h].values[i] = thread[t].value]

AfterEnter(t, h, i) ==
    /\ DOMAIN tables' = DOMAIN tables /\ Len(tables') = Len(tables) /\ IsSeq'
    /\ \A g \in DOMAIN tables \ {h} : tables'[g] = tables[g]
    /\ tables'[h].capacity = tables[h].capacity /\ tables'[h].prev = tables[h].prev
    /\ tables'[h].keys = [tables[h].keys EXCEPT ![i] = t]
    /\ tables'[h].values = [tables[h].values EXCEPT ![i] = thread[t].value]
    /\ tables'[h] = [capacity |-> tables'[h].capacity, prev |-> tables'[h].prev,
                     keys |-> tables'[h].keys, values |-> tables'[h].values]

LEMMA Entered ==
    ASSUME IInv, NEW t \in Thread, NEW h, NEW i, Enters(t, h, i)
    PROVE  AfterEnter(t, h, i)
<1>1. Len(tables) \in Nat /\ DOMAIN tables = 1 .. Len(tables)
      /\ tables = [g \in 1 .. Len(tables) |-> tables[g]]
  BY ThreadType DEF IInv, Tables, IsSeq
<1>2. h \in DOMAIN tables
  BY DEF Enters
<1>3. tables[h] \in [capacity : Nat \ {0}, prev : 0 .. h - 1,
          keys : [0 .. tables[h].capacity - 1 -> Thread \cup {none}],
          values : [0 .. tables[h].capacity - 1 -> 0 .. producerCount]]
  BY <1>2 DEF IInv, TypeOK
<1>4. /\ DOMAIN tables' = DOMAIN tables
      /\ \A g \in DOMAIN tables \ {h} : tables'[g] = tables[g]
      /\ tables'[h] = [tables[h] EXCEPT !.keys[i] = t, !.values[i] = thread[t].value]
  BY <1>1, <1>2 DEF Enters
<1>5. /\ tables'[h].capacity = tables[h].capacity /\ tables'[h].prev = tables[h].prev
      /\ tables'[h].keys = [tables[h].keys EXCEPT ![i] = t]
      /\ tables'[h].values = [tables[h].values EXCEPT ![i] = thread[t].value]
      /\ tables'[h] = [capacity |-> tables'[h].capacity, prev |-> tables'[h].prev,
                       keys |-> tables'[h].keys, values |-> tables'[h].values]
  BY <1>3, <1>4
<1>6. PICK q : q = tables'
  OBVIOUS
<1>7. q = [g \in 1 .. Len(tables) |-> q[g]]
  BY <1>1, <1>6 DEF Enters
<1>8. Len(q) = Len(tables) /\ q = [g \in 1 .. Len(q) |-> q[g]]
  BY <1>1, <1>7
<1>9. IsSeq' /\ Len(tables') = Len(tables)
  BY <1>1, <1>6, <1>8 DEF IsSeq
<1> QED
  BY <1>4, <1>5, <1>9 DEF AfterEnter

LEMMA EnterInv ==
    ASSUME IInv, NEW t \in Thread, NEW h, NEW i, Enters(t, h, i),
           thread[t].pc = "store", h = thread[t].mainHash, i = Mod(thread[t].index, tables[h].capacity),
           thread' = [thread EXCEPT ![t] = Idle],
           producer' = [producer EXCEPT ![t] = thread[t].value],
           UNCHANGED <<hashVars, implicitProducerHashResizeInProgress, listVars, newCount>>
    PROVE  IInv'
<1>0. AfterEnter(t, h, i)
  BY Entered
<1>1. /\ DOMAIN tables' = DOMAIN tables /\ Len(tables') = Len(tables) /\ IsSeq'
      /\ \A g \in DOMAIN tables \ {h} : tables'[g] = tables[g]
      /\ tables'[h].capacity = tables[h].capacity /\ tables'[h].prev = tables[h].prev
      /\ tables'[h].keys = [tables[h].keys EXCEPT ![i] = t]
      /\ tables'[h].values = [tables[h].values EXCEPT ![i] = thread[t].value]
      /\ tables'[h] = [capacity |-> tables'[h].capacity, prev |-> tables'[h].prev,
                       keys |-> tables'[h].keys, values |-> tables'[h].values]
  BY <1>0, Zenon DEF AfterEnter
<1>2. PICK c, keys, values :
        /\ c = tables[h].capacity /\ keys = tables[h].keys /\ values = tables[h].values
        /\ c \in Nat \ {0} /\ keys \in [0 .. c - 1 -> Thread \cup {none}]
        /\ values \in [0 .. c - 1 -> 0 .. producerCount]
  BY TableType DEF IInv, Tables, Enters
<1>3. h \in DOMAIN tables /\ i \in 0 .. c - 1 /\ keys[i] = none /\ TableOK(h) /\ t # none
  BY <1>2 DEF Enters, IInv, Tables
<1>4. PICK v \in 0 .. producerCount : v = thread[t].value
  BY ThreadType DEF Locals
<1>5. PICK newKeys, newValues :
        /\ tables'[h].capacity = c /\ tables'[h].keys = newKeys /\ tables'[h].values = newValues
        /\ newKeys = [keys EXCEPT ![i] = t] /\ newValues = [values EXCEPT ![i] = v]
  BY <1>1, <1>2, <1>4
<1>5a. /\ newKeys \in [0 .. c - 1 -> Thread \cup {none}]
       /\ newValues \in [0 .. c - 1 -> 0 .. producerCount]
       /\ \A k \in 0 .. c - 1 : newKeys[k] = IF k = i THEN t ELSE keys[k]
       /\ \A k \in 0 .. c - 1 : newValues[k] = IF k = i THEN v ELSE values[k]
  BY <1>2, <1>3, <1>4, <1>5
<1>5b. PICK index \in Nat : index = thread[t].index
  BY ThreadType DEF Locals
<1>6. /\ \A g \in DOMAIN tables : g >= h => ~Has(t, g)
      /\ Probed(t, h, index) /\ Mod(index, c) = i
      /\ (\E g \in DOMAIN tables : Has(t, g)) => v = producer[t]
      /\ newCount[t] > 0 /\ newCount[t] < Quota(c)
  BY <1>2, <1>4, <1>5b, ThreadType DEF Local, Storing, Counting, CountTaken, Locals
<1>7. ~Has(t, h)
  BY <1>3, <1>6, ThreadType
<1>8. \A k \in 0 .. c - 1 : keys[k] # t
  BY <1>2, <1>7 DEF Has
<1>9. \A s \in Thread : newCount'[s] = newCount[s] /\ producer'[s] = IF s = t THEN v ELSE producer[s]
  BY <1>4, ThreadType
<1>10. \A s \in Thread : thread'[s] = IF s = t THEN Idle ELSE thread[s]
  BY DEF IInv, TypeOK
\* Others find what they found, and slots that were taken stay taken.
<1>11. ASSUME NEW s \in Thread, s # t, NEW g \in DOMAIN tables PROVE Has(s, g)' <=> Has(s, g)
  <2>1. CASE g # h
    BY <1>1, <2>1 DEF Has
  <2>2. CASE g = h
    <3>1. (\E k \in 0 .. c - 1 : newKeys[k] = s) <=> (\E k \in 0 .. c - 1 : keys[k] = s)
      BY <1>3, <1>11, <1>5a
    <3>2. Has(s, h) <=> \E k \in 0 .. c - 1 : keys[k] = s
      BY <1>2 DEF Has
    <3>3. Has(s, h)' <=> \E k \in 0 .. c - 1 : newKeys[k] = s
      BY <1>5 DEF Has
    <3> QED
      BY <2>2, <3>1, <3>2, <3>3
  <2> QED
    BY <2>1, <2>2
<1>12. ASSUME NEW g \in DOMAIN tables, NEW k \in Nat
       PROVE  KeyAt(g, k)' \in {KeyAt(g, k), t}
  <2>1. CASE g # h
    BY <1>1, <2>1 DEF KeyAt
  <2>2. CASE g = h
    <3>1. Mod(k, c) \in 0 .. c - 1
      BY <1>2, ModType
    <3>2. newKeys[Mod(k, c)] \in {keys[Mod(k, c)], t}
      BY <1>5a, <3>1
    <3> QED
      BY <1>2, <1>5, <2>2, <3>2 DEF KeyAt
  <2> QED
    BY <2>1, <2>2
<1>13. ASSUME NEW g \in DOMAIN tables, NEW s \in Thread, NEW j, Probed(s, g, j)
       PROVE  Probed(s, g, j)'
  <2>1. hashedId[s] \in Nat /\ \A k \in hashedId[s] .. j - 1 : k \in Nat
    OBVIOUS
  <2> QED
    BY <1>3, <1>12, <1>13, <2>1 DEF Probed
<1>14. Has(t, h)'
  BY <1>3, <1>5, <1>5a DEF Has
<1>15. TypeOK'
  <2>1. thread' \in [Thread -> Locals']
    <3>1. 1 \in 1 .. Len(tables) /\ 0 \in 0 .. producerCount
      BY ThreadType
    <3>2. Idle \in Locals' /\ \A s \in Thread : thread[s] \in Locals'
      BY <1>1, <3>1, ThreadType DEF Locals, Idle, listVars
    <3> QED
      BY <3>2 DEF IInv, TypeOK
  <2>2. producer' \in [Thread -> 0 .. producerCount]
    BY <1>4, ThreadType
  <2>3. ASSUME NEW g \in DOMAIN tables
        PROVE  tables'[g] \in [capacity : Nat \ {0}, prev : 0 .. g - 1,
                   keys : [0 .. tables'[g].capacity - 1 -> Thread \cup {none}],
                   values : [0 .. tables'[g].capacity - 1 -> 0 .. producerCount]]
    <3>1. tables[g].prev \in 0 .. g - 1
      BY DEF IInv, TypeOK
    <3>2. CASE g = h
      <4>1. tables'[h].keys \in [0 .. c - 1 -> Thread \cup {none}]
            /\ tables'[h].values \in [0 .. c - 1 -> 0 .. producerCount]
        BY <1>5, <1>5a
      <4> QED
        BY <1>1, <1>2, <1>5, <3>1, <3>2, <4>1
    <3>3. CASE g # h
      BY <1>1, <3>3 DEF IInv, TypeOK
    <3> QED
      BY <3>2, <3>3
  <2> QED
    BY <1>1, <2>1, <2>2, <2>3 DEF IInv, TypeOK, hashVars, listVars
<1>16. Tables'
  <2>1. TablesChained' /\ Growing'
    <3>1. \A g \in DOMAIN tables : tables'[g].capacity = tables[g].capacity
                                    /\ tables'[g].prev = tables[g].prev
      BY <1>1
    <3> QED
      BY <1>1, <3>1 DEF IInv, Tables, TablesChained, Growing, hashVars
  <2>2. ASSUME NEW g \in DOMAIN tables, g # h PROVE TableOK(g)'
    <3>1. TableOK(g) /\ tables'[g] = tables[g]
          /\ tables[g].keys \in [0 .. tables[g].capacity - 1 -> Thread \cup {none}]
      BY <1>1, <2>2, TableType DEF IInv, Tables
    <3>2. Unique(g)' /\ WithinQuota(g)'
      BY <1>9, <3>1 DEF TableOK, Unique, WithinQuota
    <3>3. Findable(g)'
      BY <3>1 DEF TableOK, Findable, Probed, KeyAt
    <3>4. ValuesRight(g)'
      BY <1>6, <1>9, <3>1 DEF TableOK, ValuesRight, Has
    <3> QED
      BY <3>2, <3>3, <3>4 DEF TableOK
  <2>3. TableOK(h)'
    <3>3. Unique(h)'
      <4>1. \A j, k \in 0 .. c - 1 : newKeys[j] # none /\ newKeys[j] = newKeys[k] => j = k
        <5>1. \A j, k \in 0 .. c - 1 : keys[j] # none /\ keys[j] = keys[k] => j = k
          BY <1>2, <1>3 DEF TableOK, Unique
        <5>2. ASSUME NEW j \in 0 .. c - 1, NEW k \in 0 .. c - 1,
                     newKeys[j] # none, newKeys[j] = newKeys[k]
              PROVE  j = k
          <6>1. /\ newKeys[j] = IF j = i THEN t ELSE keys[j]
                /\ newKeys[k] = IF k = i THEN t ELSE keys[k]
                /\ keys[j] # t /\ keys[k] # t
            BY <1>8, <1>5a
          <6>2. t # none
            OBVIOUS
          <6>3. CASE j = i /\ k # i
            BY <5>2, <6>1, <6>3
          <6>4. CASE j # i /\ k = i
            BY <5>2, <6>1, <6>4
          <6>5. CASE j # i /\ k # i
            BY <5>1, <5>2, <6>1, <6>5
          <6> QED
            BY <6>3, <6>4, <6>5
        <5> QED
          BY <5>2
      <4> QED
        BY <1>5, <4>1 DEF Unique
    <3>4. WithinQuota(h)'
      <4>1. \A k \in 0 .. c - 1 : newKeys[k] # none =>
              newCount[newKeys[k]] > 0 /\ newCount[newKeys[k]] < Quota(c)
        <5>1. \A k \in 0 .. c - 1 : keys[k] # none =>
                newCount[keys[k]] > 0 /\ newCount[keys[k]] < Quota(c)
          BY <1>2, <1>3 DEF TableOK, WithinQuota
        <5> QED
          BY <1>6, <1>5a, <5>1
      <4> QED
        BY <1>5, <4>1 DEF WithinQuota
    <3>5. ValuesRight(h)'
      <4>1. \A k \in 0 .. c - 1 : newKeys[k] # none => newValues[k] = producer'[newKeys[k]]
        <5>1. \A k \in 0 .. c - 1 : keys[k] # none => values[k] = producer[keys[k]]
          BY <1>2, <1>3 DEF TableOK, ValuesRight
        <5>2. ASSUME NEW k \in 0 .. c - 1, newKeys[k] # none
              PROVE  newValues[k] = producer'[newKeys[k]]
          <6>1. CASE k = i
            <7>1. newKeys[k] = t /\ newValues[k] = v
              BY <1>5a, <6>1
            <7> QED
              BY <1>9, <7>1
          <6>2. CASE k # i
            <7>1. newKeys[k] = keys[k] /\ newValues[k] = values[k]
              BY <1>5a, <6>2
            <7>2. keys[k] \in Thread /\ keys[k] # t
              BY <1>2, <1>8, <5>2, <7>1
            <7>3. producer'[keys[k]] = producer[keys[k]]
              BY <1>9, <7>2
            <7> QED
              BY <5>1, <5>2, <7>1, <7>3
          <6> QED
            BY <6>1, <6>2
        <5> QED
          BY <5>2
      <4> QED
        BY <1>5, <4>1 DEF ValuesRight
    <3>6. ASSUME NEW k \in 0 .. c - 1, NEW key, key = newKeys[k], key # none
          PROVE  \E j \in Nat : Mod(j, c) = k /\ Probed(key, h, j)'
      <4>1. CASE k = i
        <5>1. Probed(t, h, index)'
          BY <1>3, <1>6, <1>13
        <5> QED
          BY <1>6, <1>5a, <3>6, <4>1, <5>1
      <4>2. CASE k # i
        <5>1. key = keys[k] /\ key \in Thread
          BY <1>2, <1>5a, <3>6, <4>2
        <5>2. PICK j \in Nat : Mod(j, c) = k /\ Probed(key, h, j)
          BY <1>2, <1>3, <3>6, <5>1 DEF TableOK, Findable
        <5>3. Probed(key, h, j)'
          BY <1>3, <1>13, <5>1, <5>2
        <5> QED
          BY <5>2, <5>3
      <4> QED
        BY <4>1, <4>2
    <3>7. Findable(h)'
      <4>1. \A k \in 0 .. c - 1 : newKeys[k] # none =>
              \E j \in Nat : Mod(j, c) = k /\ Probed(newKeys[k], h, j)'
        BY <3>6
      <4>2. /\ tables'[h].capacity = c /\ tables'[h].keys = newKeys
        BY <1>5
      <4> QED
        BY <4>1, <4>2 DEF Findable, Probed, KeyAt
    <3> QED
      BY <3>3, <3>4, <3>5, <3>7 DEF TableOK
  <2> QED
    BY <1>1, <2>1, <2>2, <2>3 DEF Tables
<1>17. Counts'
  BY CountsKept DEF IInv, hashVars
<1>18. Locked'
  BY LockedMoves DEF Idle, Locking
<1>19. ASSUME NEW s \in Thread PROVE Local(s, thread[s])' /\ Owning(s)'
  <2>1. Owning(s)'
    BY <1>1, <1>3, <1>9, <1>11, <1>14, ThreadType DEF Owning
  <2>2. PICK x : x = thread'[s]
    OBVIOUS
  <2>3. Local(s, x)'
    <3>1. CASE s = t
      <4>1. x.pc = "idle"
        BY <1>10, <2>2, <3>1 DEF Idle
      <4> QED
        BY <1>1, <1>3, <1>14, <3>1, <4>1
        DEF Local, Finding, Inserting, Storing, Counting, Inserts, CountTaken
    <3>2. CASE s # t
      <4>1. x = thread[s] /\ Local(s, x) /\ x \in Locals
        BY <1>10, <2>2, <3>2, ThreadType
      <4>2. x.mainHash \in DOMAIN tables /\ x.hash \in DOMAIN tables
        BY <4>1, ThreadType DEF Locals
      <4>3. hashedId[s] \in Nat /\ \A j : \A k \in hashedId[s] .. j - 1 : k \in Nat
        OBVIOUS
      <4>4. Finding(s, x)'
        <5>1. x.pc = "find" => Probed(s, x.hash, x.index)'
          BY <1>13, <4>1, <4>2 DEF Local, Finding
        <5>2. \A k \in hashedId[s] .. x.index - 1 : KeyAt(x.hash, k) # s => KeyAt(x.hash, k)' # s
          BY <1>12, <3>2, <4>2, <4>3
        <5> QED
          BY <1>1, <1>11, <3>2, <4>1, <5>1, <5>2 DEF Local, Finding
      <4>5. Inserting(s, x)'
        BY <1>1, <1>11, <3>2, <4>1 DEF Local, Inserting
      <4>6. Storing(s, x)'
        <5>1. x.pc = "store" => Probed(s, x.mainHash, x.index)'
          BY <1>13, <4>1, <4>2 DEF Local, Storing
        <5> QED
          BY <1>1, <1>9, <1>11, <3>2, <4>1, <5>1 DEF Local, Storing
      <4>7. Counting(s, x)'
        <5>1. tables'[x.mainHash].capacity = tables[x.mainHash].capacity
          BY <1>1, <4>2
        <5> QED
          BY <1>1, <1>9, <1>11, <3>2, <4>1, <5>1 DEF Local, Counting
      <4>8. x.pc = "grow" => x.mainHash = Len(tables')
        BY <1>1, <4>1 DEF Local
      <4> QED
        BY <4>4, <4>5, <4>6, <4>7, <4>8 DEF Local
    <3> QED
      BY <3>1, <3>2
  <2>4. Local(s, thread[s])'
    BY <2>2, <2>3
    DEF Local, Finding, Inserting, Storing, Counting, Has, Probed, KeyAt
  <2> QED
    BY <2>1, <2>4
<1>20. Threads'
  BY <1>19 DEF Threads
<1> QED
  BY <1>15, <1>16, <1>17, <1>18, <1>20 DEF IInv

LEMMA StoreInv == ASSUME IInv, NEW t \in Thread, Store(t) PROVE IInv'
<1>1. PICK h \in DOMAIN tables : h = thread[t].mainHash
  BY ThreadType DEF Locals
<1>2. thread[t].pc = "store" /\ thread[t] \in Locals /\ thread[t].index \in Nat
      /\ Storing(t, thread[t])
  BY ThreadType DEF Store, Return, Step, Locals, Local
<1>3. PICK i \in 0 .. tables[h].capacity - 1 : i = Mod(thread[t].index, tables[h].capacity)
  BY <1>2, KeyAtType DEF IInv, Tables
<1>4. Slot(t, h) = i /\ Key(t, h) = tables[h].keys[i] /\ KeyAt(h, thread[t].index) = tables[h].keys[i]
  BY <1>3 DEF Slot, Key, Mod, KeyAt
<1>5. CASE tables[h].keys[i] = none
  <2>1. /\ Enters(t, h, i) /\ thread' = [thread EXCEPT ![t] = Idle]
        /\ producer' = [producer EXCEPT ![t] = thread[t].value]
        /\ UNCHANGED <<hashVars, implicitProducerHashResizeInProgress, listVars, newCount>>
    BY <1>1, <1>4, <1>5 DEF Store, Empty, Return, Step, Enters
  <2> QED
    BY <1>1, <1>2, <1>3, <2>1, EnterInv
<1>6. CASE tables[h].keys[i] # none
  <2>1. PICK r : r = [thread[t] EXCEPT !.index = @ + 1]
    OBVIOUS
  <2>2. Moves(t, r) /\ UNCHANGED <<implicitProducerHashResizeInProgress, listVars>>
    BY <1>1, <1>4, <1>6, <2>1 DEF Store, Empty, Step, Moves
  <2>3. /\ r \in Locals /\ r.pc = "store" /\ r.index = thread[t].index + 1
        /\ r.mainHash = thread[t].mainHash /\ r.value = thread[t].value
    <3>1. r = [thread[t] EXCEPT !.index = thread[t].index + 1] /\ thread[t].index + 1 \in Nat
      BY <1>2, <2>1 DEF Locals
    <3> QED
      BY <1>2, <3>1 DEF Locals
  <2>4. Probed(t, h, r.index)
    <3>1. hashedId[t] \in Nat /\ \A k \in hashedId[t] .. r.index - 1 :
            k = thread[t].index \/ k \in hashedId[t] .. thread[t].index - 1
      BY <1>2, <2>3
    <3> QED
      BY <1>1, <1>2, <1>4, <1>6, <2>3, <3>1 DEF Storing, Probed
  <2>5. Storing(t, r)
    BY <1>1, <1>2, <2>3, <2>4 DEF Storing
  <2>6. Local(t, r)
    BY <1>2, <2>3, <2>5, ThreadType DEF Local, Finding, Inserting, Counting, Inserts, CountTaken
  <2> QED
    BY <2>2, <2>3, <2>6, QuietStep DEF Locking
<1> QED
  BY <1>5, <1>6

-----------------------------------------------------------------------------
(* The theorems.                                                           *)

LEMMA HashInit == Init => IInv
<1> SUFFICES ASSUME Init PROVE IInv
  OBVIOUS
<1>1. /\ Len(tables) = 1 /\ DOMAIN tables = 1 .. 1 /\ DOMAIN tables = {1} /\ IsSeq
      /\ tables[1] = EmptyTable(InitialCapacity, 0)
  BY DEF Init, IsSeq
<1>2. /\ tables[1].capacity = InitialCapacity /\ tables[1].prev = 0
      /\ tables[1].keys = [i \in 0 .. InitialCapacity - 1 |-> none]
      /\ tables[1].values = [i \in 0 .. InitialCapacity - 1 |-> 0]
      /\ \A i \in 0 .. InitialCapacity - 1 : tables[1].keys[i] = none
  BY <1>1 DEF EmptyTable
<1>3. \A t \in Thread : thread[t] = Idle /\ newCount[t] = 0 /\ producer[t] = 0
  BY DEF Init
<1>4. TypeOK
  <2>1. thread \in [Thread -> Locals]
    BY <1>1 DEF Init, Idle, Locals
  <2>2. next \in [1 .. producerCount -> 0 .. producerCount]
    BY DEF Init
  <2>3. /\ [i \in 0 .. InitialCapacity - 1 |-> none]
             \in [0 .. InitialCapacity - 1 -> Thread \cup {none}]
        /\ [i \in 0 .. InitialCapacity - 1 |-> 0] \in [0 .. InitialCapacity - 1 -> 0 .. producerCount]
    BY DEF Init
  <2>4. ASSUME NEW h \in DOMAIN tables
        PROVE  tables[h] \in [capacity : Nat \ {0}, prev : 0 .. h - 1,
                   keys : [0 .. tables[h].capacity - 1 -> Thread \cup {none}],
                   values : [0 .. tables[h].capacity - 1 -> 0 .. producerCount]]
    <3>1. h = 1 /\ 0 \in 0 .. 1 - 1
      BY <1>1
    <3> QED
      BY <1>1, <1>2, <2>3, <3>1 DEF EmptyTable
  <2>5. implicitProducerHash \in DOMAIN tables
    BY <1>1 DEF Init
  <2>6. implicitProducerHashResizeInProgress \in BOOLEAN
    BY Zenon DEF Init
  <2>7. /\ implicitProducerHashCount \in Nat
        /\ producerCount \in Nat /\ producerListTail \in 0 .. producerCount
        /\ newCount \in [Thread -> Nat] /\ producer \in [Thread -> 0 .. producerCount]
    BY DEF Init
  <2> QED
    BY <2>1, <2>2, <2>4, <2>5, <2>6, <2>7 DEF TypeOK
<1>5. Tables
  BY <1>1, <1>2 DEF Init, Tables, TablesChained, Growing, TableOK, Unique, WithinQuota, Findable,
     ValuesRight
<1>6. Counts
  <2>1. Counted = {} /\ \A k \in Nat : Below(k) = {}
    BY <1>3 DEF Counted, Below
  <2> QED
    BY <2>1, FS_EmptySet DEF Init, Counts, CountExact, Rationed, Counted
<1>7. Threads
  BY <1>3 DEF Threads, Local, Owning, Finding, Inserting, Storing, Counting, Inserts, CountTaken, Idle
<1>8. Locked
  BY <1>3 DEF Locked, Locking, Idle
<1> QED
  BY <1>4, <1>5, <1>6, <1>7, <1>8 DEF IInv

LEMMA HashStutter == ASSUME IInv, UNCHANGED vars PROVE IInv'
<1>1. UNCHANGED <<tables, implicitProducerHash, implicitProducerHashCount,
                  implicitProducerHashResizeInProgress, producerListTail, producerCount, next,
                  thread, newCount, producer>>
  BY DEF vars, hashVars, listVars
<1>2. Tables' /\ Counts'
  BY <1>1, TablesKept, CountsKept DEF IInv
<1>3. TypeOK' /\ Locked'
  BY <1>1 DEF IInv, TypeOK, Locals, Locked
<1>4. Threads'
  BY <1>1
  DEF IInv, Threads, Owning, Local, Finding, Inserting, Storing, Counting, Has, Probed, KeyAt
<1> QED
  BY <1>2, <1>3, <1>4 DEF IInv

LEMMA HashNext == IInv /\ [Next]_vars => IInv'
<1> SUFFICES ASSUME IInv, [Next]_vars PROVE IInv'
  OBVIOUS
<1>1. ASSUME NEW t \in Thread, LoadHash(t) \/ get_or_add_implicit_producer(t) PROVE IInv'
  <2>1. CASE LoadHash(t)
    BY <2>1, LoadHashInv
  <2>2. CASE Probe(t)
    BY <2>2, NextSlotInv, FoundInv, NotHereInv DEF Probe
  <2>3. CASE Count(t)
    BY <2>3, CountInv
  <2>4. CASE TryToGrow(t) \/ Reload(t) \/ Unlock(t) \/ Wait(t)
    BY <2>4, TryToGrowInv, ReloadInv, UnlockInv, WaitInv
  <2>5. CASE Grow(t)
    BY <2>5, GrowInv
  <2>6. CASE GrowFails(t) \/ CreateFails(t)
    BY <2>6, FailsInv
  <2>7. CASE CreateProducer(t) \/ Link(t) \/ LinkFails(t)
    BY <2>7, CreateProducerInv, LinkInv, LinkFailsInv
  <2>8. CASE Store(t)
    BY <2>8, StoreInv
  <2> QED
    BY <1>1, <2>1, <2>2, <2>3, <2>4, <2>5, <2>6, <2>7, <2>8 DEF get_or_add_implicit_producer
<1> QED
  BY <1>1, HashStutter DEF Next

\* Each access of get_or_add_implicit_producer (concurrentqueue.h) keeps the tables
\* findable by probing and within their quotas, whatever the other threads do between.
THEOREM HashInvariant == Spec => []IInv
<1> QED
  BY HashInit, HashNext, PTL DEF Spec

\* The tables are chained, counted and never full: probing always ends
\* (concurrentqueue.h, get_or_add_implicit_producer).
THEOREM TablesCorrect == Spec => []TablesRight
<1>1. IInv => TablesRight
  BY NeverFull DEF IInv, Tables, Counts, TablesRight
<1> QED
  BY <1>1, HashInvariant, PTL

\* A thread that inserts itself (get_or_add_implicit_producer found no entry) is in no
\* table, and in each table a thread is there once.
THEOREM EntryOnceCorrect == Spec => []EntryOnce
<1>1. IInv => EntryOnce
  <2> SUFFICES ASSUME IInv, NEW t \in Thread, NEW h \in DOMAIN tables
               PROVE  LET slots == {i \in DOMAIN tables[h].keys : tables[h].keys[i] = t} IN
                      /\ thread[t].pc \in {"count", "try", "reload", "grow", "unlock", "unlockFailed",
                                           "room", "link"} => slots = {}
                      /\ \A i, j \in slots : i = j
    BY DEF EntryOnce
  <2>1. DOMAIN tables[h].keys = 0 .. tables[h].capacity - 1 /\ Unique(h) /\ t # none
    BY TableType DEF IInv, Tables, TableOK
  <2>2. thread[t].pc \in Inserts => ~Has(t, h)
    BY ThreadType DEF Local, Inserting
  <2> QED
    BY <2>1, <2>2 DEF Unique, Has, Inserts
<1> QED
  BY <1>1, HashInvariant, PTL

\* What a call returns a thread is what every later call returns it.
THEOREM SameProducerCorrect == Spec => SameProducer
<1>1. ASSUME IInv, Next, NEW t \in Thread, producer[t] # 0 PROVE producer'[t] = producer[t]
  <2>1. PICK s \in Thread : LoadHash(s) \/ get_or_add_implicit_producer(s)
    BY <1>1 DEF Next
  <2>2. \E h \in DOMAIN tables : Has(t, h)
    BY <1>1, ThreadType DEF Owning
  <2>3. CASE Found(s)
    BY <1>1, <2>3, FoundValue, ThreadType DEF Found, Return
  <2>4. CASE Store(s)
    <3>1. s = t => thread[s].value = producer[s]
      BY <1>1, <2>2, <2>4, ThreadType DEF Store, Return, Step, Local, Storing
    <3> QED
      BY <1>1, <2>4, <3>1, ThreadType DEF Store, Return
  <2>5. CASE ~Found(s) /\ ~Store(s)
    BY <2>1, <2>5 DEF LoadHash, get_or_add_implicit_producer, Probe, NextSlot, NotHere, Count,
       TryToGrow, Reload, Grow, GrowFails, Unlock, Wait, CreateProducer, CreateFails, Link, LinkFails
  <2> QED
    BY <2>3, <2>4, <2>5
<1>2. IInv /\ [Next]_vars => [\A t \in Thread : producer[t] # 0 => producer'[t] = producer[t]]_producer
  BY <1>1 DEF vars
<1> QED
  BY <1>2, HashInvariant, PTL DEF Spec, SameProducer

-----------------------------------------------------------------------------
(* The list of producers.                                                  *)

\* The producers that are t's: what its last call returned, and what it is about to
\* link or to store.
Owned(t) ==
    {producer[t]} \cup IF thread[t].pc \in {"link", "store"} THEN {thread[t].value} ELSE {}

\* No two threads have the same one.
OwnersDiffer ==
    \A s, t \in Thread : s # t => \A p \in Owned(s) : p \in Owned(t) => p = 0

\* The producers that are on the list: those made, but for the ones about to be linked.
Linked ==
    {p \in 1 .. producerCount : \A t \in Thread : thread[t].pc = "link" => thread[t].value # p}

\* A producer about to be linked is one.
PendingRight == \A t \in Thread : thread[t].pc = "link" => thread[t].value # 0

\* The list leads from one producer that is on it to another, and to all of them.
ListRight ==
    /\ Closed(Linked)
    /\ \A S \in SUBSET (1 .. producerCount) : Closed(S) => Linked \subseteq S

PInv == IInv /\ OwnersDiffer /\ PendingRight /\ ListRight

\* A thread that links a producer has none yet.
LEMMA FirstProducer ==
    ASSUME IInv, NEW t \in Thread, thread[t].pc \in {"room", "link"} PROVE producer[t] = 0
BY ThreadType DEF Local, Inserting, Inserts, Owning

LEMMA LocalsOf ==
    ASSUME IInv, NEW t \in Thread, NEW r, thread' = [thread EXCEPT ![t] = r]
    PROVE  thread'[t] = r /\ \A s \in Thread \ {t} : thread'[s] = thread[s]
BY DEF IInv, TypeOK

\* Steps that leave the list alone and give t no producer that was not its own.
LEMMA ListKept ==
    ASSUME PInv, IInv', NEW t \in Thread, NEW r, NEW p,
           thread' = [thread EXCEPT ![t] = r], UNCHANGED listVars,
           producer' = [producer EXCEPT ![t] = p], p \in Owned(t),
           thread[t].pc # "link", r.pc # "link",
           r.pc = "store" => r.value \in Owned(t)
    PROVE  PInv'
<1>1. thread'[t] = r /\ \A s \in Thread \ {t} : thread'[s] = thread[s]
  BY LocalsOf DEF PInv
<1>2. producer'[t] = p /\ \A s \in Thread \ {t} : producer'[s] = producer[s]
  BY ThreadType DEF PInv
<1>3. Owned(t)' \subseteq Owned(t) /\ \A s \in Thread \ {t} : Owned(s)' = Owned(s)
  BY <1>1, <1>2 DEF Owned
<1>4. \A s \in Thread : Owned(s)' \subseteq Owned(s)
  BY <1>3
<1>5. OwnersDiffer'
  BY <1>4 DEF PInv, OwnersDiffer
<1>6. \A s \in Thread : /\ thread'[s].pc = "link" <=> thread[s].pc = "link"
                        /\ thread'[s].pc = "link" => thread'[s].value = thread[s].value
  BY <1>1
<1>7. UNCHANGED <<producerListTail, producerCount, next>>
  BY DEF listVars
<1>8. Linked' = Linked /\ PendingRight'
  BY <1>6, <1>7 DEF PInv, Linked, PendingRight
<1>9. ListRight'
  BY <1>7, <1>8 DEF PInv, ListRight, Closed
<1> QED
  BY <1>5, <1>8, <1>9 DEF PInv

\* Steps that change where a thread is, and do not touch producers.
LEMMA ListUntouched ==
    ASSUME PInv, IInv', NEW t \in Thread, NEW r,
           thread' = [thread EXCEPT ![t] = r], UNCHANGED <<listVars, producer>>,
           thread[t].pc # "link", r.pc \notin {"link", "store"}
    PROVE  PInv'
<1>1. producer' = [producer EXCEPT ![t] = producer[t]]
  BY ThreadType DEF PInv
<1>2. producer[t] \in Owned(t)
  BY DEF Owned
<1> QED
  BY <1>1, <1>2, ListKept

LEMMA ListProbe == ASSUME PInv, IInv', NEW t \in Thread, Probe(t) PROVE PInv'
<1>1. thread[t] \in Locals /\ UNCHANGED listVars
  BY ThreadType DEF PInv, Probe
<1>2. CASE NextSlot(t)
  <2>1. PICK r : r = [thread[t] EXCEPT !.index = @ + 1]
    OBVIOUS
  <2>2. thread' = [thread EXCEPT ![t] = r] /\ thread[t].pc = "find" /\ UNCHANGED producer
    BY <1>2, <2>1 DEF NextSlot, Step
  <2>3. r.pc = "find"
    BY <1>1, <2>1, <2>2 DEF Locals
  <2> QED
    BY <1>1, <2>2, <2>3, ListUntouched
<1>3. CASE NotHere(t)
  <2>1. PICK r : /\ thread' = [thread EXCEPT ![t] = r] /\ thread[t].pc = "find"
                 /\ r.pc \in {"find", "count"} /\ UNCHANGED producer
    <3>1. CASE Prev(thread[t].hash) = 0
      BY <1>1, <1>3, <3>1 DEF NotHere, Step, At, Locals
    <3>2. CASE Prev(thread[t].hash) # 0
      <4>1. PICK r : r = [thread[t] EXCEPT !.hash = Prev(thread[t].hash), !.index = hashedId[t]]
        OBVIOUS
      <4>2. thread' = [thread EXCEPT ![t] = r] /\ thread[t].pc = "find" /\ UNCHANGED producer
        BY <1>3, <3>2, <4>1 DEF NotHere, Step
      <4>3. r.pc = "find"
        BY <1>1, <4>1, <4>2 DEF Locals
      <4> QED
        BY <4>2, <4>3
    <3> QED
      BY <3>1, <3>2
  <2> QED
    BY <1>1, <2>1, ListUntouched
<1>4. CASE Found(t)
  <2>1. /\ thread[t].pc = "find" /\ producer[t] \in Owned(t)
        /\ tables[thread[t].hash].values[Slot(t, thread[t].hash)] = producer[t]
    BY <1>4, FoundValue DEF PInv, Owned
  <2>2. CASE thread[t].hash = thread[t].mainHash
    <3>1. /\ thread' = [thread EXCEPT ![t] = Idle] /\ Idle.pc = "idle"
          /\ producer' = [producer EXCEPT ![t] = producer[t]]
      BY <1>4, <2>1, <2>2 DEF Found, Return, Step, Idle
    <3> QED
      BY <1>1, <2>1, <3>1, ListKept
  <2>3. CASE thread[t].hash # thread[t].mainHash
    <3>1. PICK r : r = [At(t, "store") EXCEPT !.index = hashedId[t],
                            !.value = tables[thread[t].hash].values[Slot(t, thread[t].hash)]]
      OBVIOUS
    <3>2. thread' = [thread EXCEPT ![t] = r] /\ UNCHANGED producer
      BY <1>4, <2>3, <3>1 DEF Found, Step
    <3>3. r.pc = "store" /\ r.value = producer[t]
      BY <1>1, <2>1, <3>1 DEF At, Locals
    <3>4. producer' = [producer EXCEPT ![t] = producer[t]]
      BY <3>2, ThreadType DEF PInv
    <3> QED
      BY <1>1, <2>1, <3>2, <3>3, <3>4, ListKept
  <2> QED
    BY <2>2, <2>3
<1> QED
  BY <1>2, <1>3, <1>4 DEF Probe

\* The steps that make room.
LEMMA ListRoom ==
    ASSUME PInv, IInv', NEW t \in Thread,
           \/ LoadHash(t) \/ Count(t) \/ TryToGrow(t) \/ Reload(t) \/ Grow(t) \/ GrowFails(t)
           \/ Unlock(t) \/ Wait(t) \/ CreateFails(t)
    PROVE  PInv'
<1>1. thread[t] \in Locals
  BY ThreadType DEF PInv
<1>2. PICK r : /\ thread' = [thread EXCEPT ![t] = r] /\ UNCHANGED <<listVars, producer>>
               /\ thread[t].pc # "link" /\ r.pc \notin {"link", "store"}
  <2>1. CASE LoadHash(t)
    <3>1. PICK r : r = [At(t, "find") EXCEPT !.mainHash = implicitProducerHash,
                            !.hash = implicitProducerHash, !.index = hashedId[t]]
      OBVIOUS
    <3>2. r.pc = "find"
      BY <1>1, <3>1 DEF At, Locals
    <3> QED
      BY <2>1, <3>1, <3>2 DEF LoadHash, Step
  <2>2. CASE Count(t) \/ TryToGrow(t)
    BY <1>1, <2>2 DEF Count, TryToGrow, Step, At, Locals
  <2>3. CASE Reload(t)
    <3>1. PICK r : r = [At(t, IF HalfFull(t, ToReplace(t)) THEN "grow" ELSE "unlock")
                              EXCEPT !.mainHash = ToReplace(t)]
      OBVIOUS
    <3>2. r.pc \in {"grow", "unlock"}
      BY <1>1, <3>1 DEF At, Locals
    <3> QED
      BY <2>3, <3>1, <3>2 DEF Reload, Step
  <2>4. CASE Grow(t)
    <3>1. PICK r : r = [At(t, "unlock") EXCEPT !.mainHash = Len(tables) + 1]
      OBVIOUS
    <3>2. r.pc = "unlock"
      BY <1>1, <3>1 DEF At, Locals
    <3> QED
      BY <2>4, <3>1, <3>2 DEF Grow, Step
  <2>5. CASE GrowFails(t)
    <3>1. At(t, "unlockFailed").pc = "unlockFailed"
      BY <1>1 DEF At, Locals
    <3> QED
      BY <2>5, <3>1 DEF GrowFails, Unlocks, Step
  <2>6. CASE Unlock(t)
    BY <1>1, <2>6 DEF Unlock, Step, At, Locals, Idle
  <2>7. CASE Wait(t)
    <3>1. PICK r : r = [At(t, "try") EXCEPT !.mainHash = implicitProducerHash]
      OBVIOUS
    <3>2. r.pc = "try"
      BY <1>1, <3>1 DEF At, Locals
    <3> QED
      BY <2>7, <3>1, <3>2 DEF Wait, Step
  <2>8. CASE CreateFails(t)
    <3>1. Idle.pc = "idle"
      BY DEF Idle
    <3> QED
      BY <2>8, <3>1 DEF CreateFails, Step
  <2> QED
    BY <2>1, <2>2, <2>3, <2>4, <2>5, <2>6, <2>7, <2>8
<1> QED
  BY <1>2, ListUntouched

LEMMA ListStore == ASSUME PInv, IInv', NEW t \in Thread, Store(t) PROVE PInv'
<1>1. thread[t] \in Locals /\ thread[t].pc = "store" /\ UNCHANGED listVars
  BY ThreadType DEF PInv, Store, Return, Step
<1>2. thread[t].value \in Owned(t)
  BY <1>1 DEF Owned
<1>3. CASE Empty(Key(t, thread[t].mainHash))
  <2>1. /\ thread' = [thread EXCEPT ![t] = Idle] /\ Idle.pc = "idle"
        /\ producer' = [producer EXCEPT ![t] = thread[t].value]
    BY <1>3 DEF Store, Return, Step, Idle
  <2> QED
    BY <1>1, <1>2, <2>1, ListKept
<1>4. CASE ~Empty(Key(t, thread[t].mainHash))
  <2>1. PICK r : r = [thread[t] EXCEPT !.index = @ + 1]
    OBVIOUS
  <2>2. thread' = [thread EXCEPT ![t] = r] /\ UNCHANGED producer
    BY <1>4, <2>1 DEF Store, Step
  <2>3. r.pc = "store" /\ r.value = thread[t].value
    BY <1>1, <2>1 DEF Locals
  <2>4. producer' = [producer EXCEPT ![t] = producer[t]] /\ producer[t] \in Owned(t)
    BY <2>2, ThreadType DEF PInv, Owned
  <2> QED
    BY <1>1, <1>2, <2>2, <2>3, <2>4, ListKept
<1> QED
  BY <1>3, <1>4

\* A producer is made: it is t's, and not yet on the list.
LEMMA ListCreate == ASSUME PInv, IInv', NEW t \in Thread, CreateProducer(t) PROVE PInv'
<1>1. /\ thread[t] \in Locals /\ thread[t].pc = "room" /\ producerCount \in Nat
      /\ next \in [1 .. producerCount -> 0 .. producerCount]
      /\ \A s \in Thread : producer[s] \in 0 .. producerCount /\ thread[s].value \in 0 .. producerCount
  BY ThreadType DEF PInv, IInv, TypeOK, CreateProducer, Step, Locals
<1>2. PICK n : n = producerCount + 1
  OBVIOUS
<1>3. PICK r : r = [At(t, "link") EXCEPT !.value = n]
  OBVIOUS
<1>4. /\ thread' = [thread EXCEPT ![t] = r] /\ r.pc = "link" /\ r.value = n
      /\ producerCount' = n /\ next' = Append(next, producerListTail)
      /\ UNCHANGED <<producerListTail, producer>>
  BY <1>1, <1>2, <1>3 DEF CreateProducer, Step, At, Locals
<1>5. thread'[t] = r /\ \A s \in Thread \ {t} : thread'[s] = thread[s]
  BY <1>4, LocalsOf DEF PInv
<1>6. \A p \in 1 .. producerCount : next'[p] = next[p]
  <2>1. next \in Seq(0 .. producerCount) /\ Len(next) = producerCount
    BY <1>1
  <2> QED
    BY <1>1, <1>4, <2>1
<1>7. OwnersDiffer'
  <2>1. Owned(t)' = {producer[t], n} /\ \A s \in Thread \ {t} : Owned(s)' = Owned(s)
    BY <1>4, <1>5 DEF Owned
  <2>2. \A s \in Thread : n \notin Owned(s) /\ producer[s] \in Owned(s)
    BY <1>1, <1>2 DEF Owned
  <2> QED
    BY <2>1, <2>2 DEF PInv, OwnersDiffer
<1>8. PendingRight'
  BY <1>1, <1>2, <1>4, <1>5 DEF PInv, PendingRight
<1>9. Linked' = Linked /\ Linked \subseteq 1 .. producerCount
  <2>1. n \notin Linked' /\ n \notin Linked
    BY <1>1, <1>2, <1>4, <1>5 DEF Linked
  <2>2. 1 .. n = (1 .. producerCount) \cup {n}
    BY <1>1, <1>2
  <2>3. \A p \in 1 .. producerCount : p \in Linked' <=> p \in Linked
    BY <1>1, <1>2, <1>4, <1>5, <2>2 DEF Linked
  <2> QED
    BY <1>4, <2>1, <2>2, <2>3 DEF Linked
<1>10. ListRight'
  <2>1. Closed(Linked)'
    BY <1>4, <1>6, <1>9 DEF PInv, ListRight, Closed
  <2>2. ASSUME NEW S \in SUBSET (1 .. producerCount)', Closed(S)' PROVE Linked' \subseteq S
    <3>1. Closed(S \cap Linked)
      BY <1>4, <1>6, <1>9, <2>2 DEF PInv, ListRight, Closed
    <3> QED
      BY <1>9, <3>1 DEF PInv, ListRight
  <2> QED
    BY <2>1, <2>2 DEF ListRight
<1> QED
  BY <1>7, <1>8, <1>10 DEF PInv

\* The compare-exchange succeeds: t's producer becomes the head of the list.
LEMMA ListLink == ASSUME PInv, IInv', NEW t \in Thread, Link(t) PROVE PInv'
<1>1. /\ thread[t] \in Locals /\ thread[t].pc = "link" /\ producer[t] = 0
      /\ producerCount \in Nat /\ next \in [1 .. producerCount -> 0 .. producerCount]
  BY ThreadType, FirstProducer DEF PInv, IInv, TypeOK, Link, Step
<1>2. PICK n \in 1 .. producerCount : n = thread[t].value
  BY <1>1 DEF PInv, PendingRight, Locals
<1>3. PICK r : r = [At(t, "store") EXCEPT !.index = hashedId[t]]
  OBVIOUS
<1>4. /\ thread' = [thread EXCEPT ![t] = r] /\ r.pc = "store" /\ r.value = n
      /\ producerListTail = next[n] /\ producerListTail' = n
      /\ UNCHANGED <<producerCount, next, producer>>
  BY <1>1, <1>2, <1>3 DEF Link, Step, At, Locals, TailUnchanged
<1>5. thread'[t] = r /\ \A s \in Thread \ {t} : thread'[s] = thread[s]
  BY <1>4, LocalsOf DEF PInv
<1>6. \A s \in Thread : Owned(s)' = Owned(s)
  BY <1>1, <1>2, <1>4, <1>5 DEF Owned
<1>7. OwnersDiffer' /\ PendingRight'
  BY <1>4, <1>5, <1>6 DEF PInv, OwnersDiffer, PendingRight
<1>8. Linked' = Linked \cup {n}
  <2>1. \A s \in Thread \ {t} : thread[s].pc = "link" => thread[s].value # n
    <3>1. n \in Owned(t) /\ n # 0
      BY <1>1, <1>2 DEF Owned
    <3>2. \A s \in Thread : thread[s].pc = "link" => thread[s].value \in Owned(s)
      BY DEF Owned
    <3> QED
      BY <3>1, <3>2 DEF PInv, OwnersDiffer
  <2> QED
    BY <1>1, <1>2, <1>4, <1>5, <2>1 DEF Linked
<1>9. ListRight'
  <2>1. Closed(Linked)'
    BY <1>4, <1>8 DEF PInv, ListRight, Closed
  <2>2. ASSUME NEW S \in SUBSET (1 .. producerCount), Closed(S)' PROVE Linked' \subseteq S
    <3>1. n \in S /\ Closed(S)
      BY <1>2, <1>4, <2>2 DEF Closed
    <3> QED
      BY <1>8, <3>1 DEF PInv, ListRight
  <2> QED
    BY <1>4, <2>1, <2>2 DEF ListRight
<1> QED
  BY <1>7, <1>9 DEF PInv

LEMMA ListLinkFails == ASSUME PInv, IInv', NEW t \in Thread, LinkFails(t) PROVE PInv'
<1>1. /\ thread[t] \in Locals /\ thread[t].pc = "link"
      /\ next \in [1 .. producerCount -> 0 .. producerCount]
  BY ThreadType DEF PInv, IInv, TypeOK, LinkFails, Step
<1>2. PICK n \in 1 .. producerCount : n = thread[t].value
  BY <1>1 DEF PInv, PendingRight, Locals
<1>3. /\ thread' = [thread EXCEPT ![t] = thread[t]]
      /\ next' = [next EXCEPT ![n] = producerListTail]
      /\ UNCHANGED <<producerListTail, producerCount, producer>>
  BY <1>2 DEF LinkFails, Step
<1>4. thread' = thread
  BY <1>3 DEF PInv, IInv, TypeOK
<1>5. /\ OwnersDiffer' /\ PendingRight' /\ Linked' = Linked
      /\ n \notin Linked /\ Linked \subseteq 1 .. producerCount
  <2>1. \A s \in Thread : Owned(s)' = Owned(s)
    BY <1>3, <1>4 DEF Owned
  <2>2. OwnersDiffer' /\ PendingRight'
    BY <1>4, <2>1 DEF PInv, OwnersDiffer, PendingRight
  <2>3. Linked' = Linked
    BY <1>3, <1>4 DEF Linked
  <2> QED
    BY <1>1, <1>2, <2>2, <2>3 DEF Linked
<1>6. \A p \in Linked : next'[p] = next[p]
  BY <1>1, <1>3, <1>5
<1>7. Closed(Linked)'
  BY <1>3, <1>5, <1>6 DEF PInv, ListRight, Closed
<1>8. ASSUME NEW S \in SUBSET (1 .. producerCount), Closed(S)' PROVE Linked' \subseteq S
  <2>1. Closed(S \cap Linked)
    BY <1>3, <1>5, <1>6, <1>8 DEF PInv, ListRight, Closed
  <2> QED
    BY <1>5, <2>1 DEF PInv, ListRight
<1> QED
  BY <1>3, <1>5, <1>7, <1>8 DEF PInv, ListRight

LEMMA ListInit == Init => PInv
<1> SUFFICES ASSUME Init PROVE PInv
  OBVIOUS
<1>1. \A t \in Thread : thread[t].pc = "idle" /\ producer[t] = 0
  BY DEF Init, Idle
<1>2. Linked = {} /\ producerListTail = 0
  BY DEF Init, Linked
<1> QED
  BY <1>1, <1>2, HashInit DEF PInv, OwnersDiffer, Owned, PendingRight, ListRight, Closed

LEMMA ListNext == PInv /\ [Next]_vars => PInv'
<1> SUFFICES ASSUME PInv, [Next]_vars PROVE PInv'
  OBVIOUS
<1>1. IInv'
  BY HashNext DEF PInv
<1>2. ASSUME NEW t \in Thread, LoadHash(t) \/ get_or_add_implicit_producer(t) PROVE PInv'
  BY <1>1, <1>2, ListProbe, ListRoom, ListStore, ListCreate, ListLink, ListLinkFails
     DEF get_or_add_implicit_producer
<1>3. CASE UNCHANGED vars
  <2>1. UNCHANGED <<producerListTail, producerCount, next, thread, producer>>
    BY <1>3 DEF vars, listVars
  <2>2. Linked' = Linked /\ \A t \in Thread : Owned(t)' = Owned(t)
    BY <2>1 DEF Linked, Owned
  <2> QED
    BY <1>1, <2>1, <2>2 DEF PInv, OwnersDiffer, PendingRight, ListRight, Closed
<1> QED
  BY <1>2, <1>3 DEF Next

\* Every producer that get_or_add_implicit_producer returned is reached from
\* producerListTail, whatever compare-exchanges of add_producer failed; and each is
\* one thread's.
THEOREM ProducersListedCorrect == Spec => []ProducersListed
<1>1. Spec => []PInv
  BY ListInit, ListNext, PTL DEF Spec
<1>2. PInv => ProducersListed
  <2> SUFFICES ASSUME PInv PROVE ProducersListed
    OBVIOUS
  <2>1. Linked \subseteq Reached
    BY DEF PInv, ListRight, Reached, Linked
  <2>2. ASSUME NEW t \in Thread, producer[t] # 0 PROVE producer[t] \in Linked
    <3>1. producer[t] \in 1 .. producerCount
      BY <2>2, ThreadType DEF PInv
    <3>2. \A s \in Thread : thread[s].pc = "link" => thread[s].value # producer[t]
      BY <2>2, FirstProducer DEF PInv, OwnersDiffer, Owned
    <3> QED
      BY <3>1, <3>2 DEF Linked
  <2>3. \A s, t \in Thread : s # t /\ producer[s] # 0 => producer[s] # producer[t]
    BY DEF PInv, OwnersDiffer, Owned
  <2> QED
    BY <2>1, <2>2, <2>3 DEF ProducersListed
<1> QED
  BY <1>1, <1>2, PTL
=============================================================================
