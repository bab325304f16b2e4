------------------------ MODULE ImplicitQueue_proofs ------------------------
(***************************************************************************)
(* What holds of a sub-queue, for every number of consumers, messages and  *)
(* blocks, and every size of the blocks and of the first block index: its  *)
(* counters, its blocks and its messages, and what its destructor finds.   *)
(***************************************************************************)
EXTENDS Teardown, FiniteSetTheorems, SequenceTheorems, TLAPS

USE SizesAssumption DEF SizesAssumption

-----------------------------------------------------------------------------
(***************************************************************************)
(* That no consumer claims a message that is not there, and that no        *)
(* reservation is forgotten, for every number of consumers and messages.   *)
(*                                                                         *)
(* A reservation is the number myDequeueCount that a consumer drew.  The   *)
(* invariant splits the numbers drawn so far into those that succeeded     *)
(* (S), those that failed (F) and those not yet checked; m is the highest  *)
(* that succeeded.  When it was checked, at least as many lower numbers    *)
(* had failed as the consumer had loaded from dequeueOvercommit, so that   *)
(* those up to m that did not fail are at most tailIndex; and headIndex    *)
(* counts some of them.                                                    *)
(***************************************************************************)

\* The locals that matter for the counters.
Field == {"pc", "tail", "overcommit", "index"}

Shape ==
    /\ consumer = [c \in Consumer |-> consumer[c]]
    /\ \A c \in Consumer : Field \subseteq DOMAIN consumer[c]

CountersNat ==
    /\ tailIndex \in Nat /\ headIndex \in Nat
    /\ dequeueOptimisticCount \in Nat /\ dequeueOvercommit \in Nat

AtPc(p) == {c \in Consumer : consumer[c].pc = p}

\* The numbers that succeeded and failed were drawn, and are counted.
Drawn(S, F) ==
    /\ IsFiniteSet(S) /\ IsFiniteSet(F) /\ S \cap F = {}
    /\ \A n \in S \cup F : n < dequeueOptimisticCount

Counted(S, F) ==
    /\ Cardinality(S) = headIndex + Cardinality(AtPc("claim"))
    /\ Cardinality(F) = dequeueOvercommit + Cardinality(AtPc("undo"))

\* A number not yet checked is its consumer's own; of the lower ones at least as
\* many failed as that consumer knows of.
Pending(S, F) ==
    \A c \in AtPc("recheck") :
        /\ consumer[c].index \in Nat /\ consumer[c].index < dequeueOptimisticCount
        /\ consumer[c].index \notin S \cup F
        /\ consumer[c].overcommit \in Nat
        /\ consumer[c].overcommit <= Cardinality(F \cap (0 .. consumer[c].index))
        /\ \A d \in AtPc("recheck") \ {c} : consumer[d].index # consumer[c].index

Loaded ==
    \A c \in AtPc("count") \cup AtPc("reserve") :
        consumer[c].overcommit \in Nat /\ consumer[c].overcommit <= dequeueOvercommit

\* Up to the highest number that succeeded, those that did not fail have a message.
Highest(S, F, m) ==
    /\ m >= -1 /\ \A n \in S : n <= m
    /\ m + 1 - Cardinality(F \cap (0 .. m)) <= tailIndex

Split(S, F, m) == Drawn(S, F) /\ Counted(S, F) /\ Pending(S, F) /\ Highest(S, F, m)

CInv ==
    /\ Shape /\ CountersNat /\ Loaded
    /\ \E S, F \in SUBSET Nat : \E m \in Int : Split(S, F, m)

-----------------------------------------------------------------------------
(* Steps of a consumer.                                                    *)

LEMMA AtFields ==
    ASSUME Shape, NEW c \in Consumer, NEW p
    PROVE  /\ Field \subseteq DOMAIN At(c, p) /\ At(c, p).pc = p
           /\ p # "idle" => /\ At(c, p).overcommit = consumer[c].overcommit
                            /\ At(c, p).index = consumer[c].index
BY DEF Shape, Field, At, Idle

LEMMA Stepped ==
    ASSUME Shape, NEW c \in Consumer, NEW from, NEW r, Field \subseteq DOMAIN r,
           StepWith(c, from, r)
    PROVE  /\ Shape' /\ consumer[c].pc = from
           /\ \A d \in Consumer : consumer'[d] = IF d = c THEN r ELSE consumer[d]
BY DEF Shape, StepWith

\* The number of consumers at a place is known, and changes with those who come
\* and go.
LEMMA AtPcFinite ==
    ASSUME NEW p
    PROVE  IsFiniteSet(AtPc(p)) /\ Cardinality(AtPc(p)) \in Nat
BY FS_Subset, FS_CardinalityType DEF AtPc

LEMMA AtPcStep ==
    ASSUME NEW c \in Consumer, NEW r, NEW p,
           \A d \in Consumer : consumer'[d] = IF d = c THEN r ELSE consumer[d]
    PROVE  /\ consumer[c].pc # p /\ r.pc # p => AtPc(p)' = AtPc(p)
           /\ consumer[c].pc # p /\ r.pc = p =>
                  /\ AtPc(p)' = AtPc(p) \cup {c}
                  /\ Cardinality(AtPc(p)') = Cardinality(AtPc(p)) + 1
           /\ consumer[c].pc = p /\ r.pc # p =>
                  /\ AtPc(p)' = AtPc(p) \ {c}
                  /\ Cardinality(AtPc(p)') = Cardinality(AtPc(p)) - 1
<1>1. ASSUME consumer[c].pc # p, r.pc # p PROVE AtPc(p)' = AtPc(p)
  BY <1>1 DEF AtPc
<1>2. ASSUME consumer[c].pc # p, r.pc = p
      PROVE  /\ AtPc(p)' = AtPc(p) \cup {c}
             /\ Cardinality(AtPc(p)') = Cardinality(AtPc(p)) + 1
  <2>1. AtPc(p)' = AtPc(p) \cup {c} /\ c \notin AtPc(p)
    BY <1>2 DEF AtPc
  <2> QED
    BY <2>1, AtPcFinite, FS_AddElement
<1>3. ASSUME consumer[c].pc = p, r.pc # p
      PROVE  /\ AtPc(p)' = AtPc(p) \ {c}
             /\ Cardinality(AtPc(p)') = Cardinality(AtPc(p)) - 1
  <2>1. AtPc(p)' = AtPc(p) \ {c} /\ c \in AtPc(p)
    BY <1>3 DEF AtPc
  <2> QED
    BY <2>1, AtPcFinite, FS_RemoveElement
<1> QED
  BY <1>1, <1>2, <1>3

-----------------------------------------------------------------------------
(* Steps that draw, check and give back no number.                         *)

Busy == {"recheck", "undo", "claim"}

Quiet(c, from, r) ==
    /\ StepWith(c, from, r) /\ UNCHANGED counters
    /\ Field \subseteq DOMAIN r /\ from \notin Busy /\ r.pc \notin Busy
    /\ r.pc \in {"count", "reserve"} =>
           r.overcommit \in Nat /\ r.overcommit <= dequeueOvercommit

LEMMA QuietStep ==
    ASSUME CInv, NEW c \in Consumer, NEW from, NEW r, Quiet(c, from, r)
    PROVE  CInv'
<1> USE DEF Quiet
<1>1. UNCHANGED <<tailIndex, headIndex, dequeueOptimisticCount, dequeueOvercommit>>
  BY DEF counters
<1>2. /\ Shape' /\ consumer[c].pc = from
      /\ \A d \in Consumer : consumer'[d] = IF d = c THEN r ELSE consumer[d]
  BY Stepped DEF CInv
<1>3. \A p \in Busy : AtPc(p)' = AtPc(p)
  BY <1>2, AtPcStep
<1>4. CountersNat'
  BY <1>1 DEF CInv, CountersNat
<1>5. Loaded'
  BY <1>1, <1>2 DEF CInv, Loaded, AtPc
<1>6. PICK S \in SUBSET Nat, F \in SUBSET Nat, m \in Int : Split(S, F, m)
  BY DEF CInv
<1>7. Drawn(S, F)' /\ Highest(S, F, m)'
  BY <1>1, <1>6 DEF Split, Drawn, Highest
<1>8. Counted(S, F)'
  BY <1>1, <1>3, <1>6 DEF Split, Counted, Busy
<1>9. Pending(S, F)'
  <2>1. AtPc("recheck")' = AtPc("recheck")
    BY <1>3 DEF Busy
  <2>2. \A d \in AtPc("recheck") : consumer'[d] = consumer[d]
    BY <1>2 DEF AtPc, Busy
  <2> QED
    BY <1>1, <1>6, <2>1, <2>2 DEF Split, Pending
<1> QED
  BY <1>2, <1>4, <1>5, <1>7, <1>8, <1>9 DEF CInv, Split

\* The producer only ever lets tailIndex grow.
LEMMA EnqueueStep == ASSUME CInv, enqueue PROVE CInv'
<1>1. /\ UNCHANGED <<headIndex, dequeueOptimisticCount, dequeueOvercommit, consumer>>
      /\ tailIndex' = tailIndex \/ tailIndex' = tailIndex + 1
  BY DEF enqueue, StartEnqueue, StoreKey, new_block_index, IndexFails, StoreTail, Requisition,
         RequisitionFails, ResetEntry, StoreValue, Construct, Publish, counters
<1>2. Shape' /\ Loaded' /\ CountersNat'
  BY <1>1 DEF CInv, Shape, Loaded, CountersNat, AtPc
<1>3. PICK S \in SUBSET Nat, F \in SUBSET Nat, m \in Int : Split(S, F, m)
  BY DEF CInv
<1>4. Drawn(S, F)' /\ Counted(S, F)' /\ Pending(S, F)'
  BY <1>1, <1>3 DEF Split, Drawn, Counted, Pending, AtPc
<1>5. Highest(S, F, m)'
  <2>1. IsFiniteSet(F \cap (0 .. m))
    BY <1>3, FS_Intersection DEF Split, Drawn
  <2>2. Cardinality(F \cap (0 .. m)) \in Nat
    BY <2>1, FS_CardinalityType
  <2> QED
    BY <1>1, <1>3, <2>2 DEF Split, Highest, CInv, CountersNat
<1> QED
  BY <1>2, <1>4, <1>5 DEF CInv, Split

\* The same for the numbers below n of a set, with one more or without.
LEMMA BelowFinite ==
    ASSUME NEW F \in SUBSET Nat, IsFiniteSet(F), NEW n \in Int
    PROVE  IsFiniteSet(F \cap (0 .. n)) /\ Cardinality(F \cap (0 .. n)) \in Nat
<1>1. IsFiniteSet(F \cap (0 .. n))
  BY FS_Intersection
<1> QED
  BY <1>1, FS_CardinalityType

LEMMA BelowGrows ==
    ASSUME NEW F \in SUBSET Nat, IsFiniteSet(F), NEW n \in Int, NEW i \in Nat
    PROVE  Cardinality(F \cap (0 .. n)) <= Cardinality((F \cup {i}) \cap (0 .. n))
<1>1. IsFiniteSet(F \cup {i})
  BY FS_AddElement
<1>2. IsFiniteSet((F \cup {i}) \cap (0 .. n))
  BY <1>1, FS_Intersection
<1>3. F \cap (0 .. n) \subseteq (F \cup {i}) \cap (0 .. n)
  OBVIOUS
<1> QED
  BY <1>2, <1>3, FS_Subset

-----------------------------------------------------------------------------
(* Steps that do.                                                          *)

\* The number drawn is new, and every failure known came before.
LEMMA ReserveStep == ASSUME CInv, NEW c \in Consumer, Reserve(c) PROVE CInv'
<1> DEFINE r == [At(c, "recheck") EXCEPT !.index = dequeueOptimisticCount]
<1>1. /\ Field \subseteq DOMAIN r /\ r.pc = "recheck" /\ r.index = dequeueOptimisticCount
      /\ r.overcommit = consumer[c].overcommit
  BY AtFields DEF CInv, Field
<1>2. /\ StepWith(c, "reserve", r)
      /\ dequeueOptimisticCount' = dequeueOptimisticCount + 1
      /\ UNCHANGED <<tailIndex, headIndex, dequeueOvercommit>>
  BY DEF Reserve
<1> HIDE DEF r
<1>3. /\ Shape' /\ consumer[c].pc = "reserve"
      /\ \A d \in Consumer : consumer'[d] = IF d = c THEN r ELSE consumer[d]
  BY <1>1, <1>2, Stepped DEF CInv
<1>4. CountersNat'
  BY <1>2 DEF CInv, CountersNat
<1>5. Loaded'
  BY <1>1, <1>2, <1>3 DEF CInv, Loaded, AtPc
<1>6. PICK S \in SUBSET Nat, F \in SUBSET Nat, m \in Int : Split(S, F, m)
  BY DEF CInv
<1>7. Drawn(S, F)'
  BY <1>2, <1>6 DEF CInv, CountersNat, Split, Drawn
<1>8. Highest(S, F, m)'
  BY <1>2, <1>6 DEF Split, Highest
<1>9. Counted(S, F)'
  <2>1. AtPc("claim")' = AtPc("claim") /\ AtPc("undo")' = AtPc("undo")
    BY <1>1, <1>3, AtPcStep
  <2> QED
    BY <1>2, <1>6, <2>1 DEF Split, Counted
<1>10. Pending(S, F)'
  <2>1. AtPc("recheck")' = AtPc("recheck") \cup {c} /\ c \notin AtPc("recheck")
    BY <1>1, <1>3, AtPcStep DEF AtPc
  <2>2. \A d \in AtPc("recheck") : d # c /\ consumer'[d] = consumer[d]
    BY <1>3, <2>1 DEF AtPc
  <2>3. F \cap (0 .. dequeueOptimisticCount) = F
    <3>1. \A n \in F : n \in Nat /\ n < dequeueOptimisticCount
      BY <1>6 DEF Split, Drawn
    <3>2. dequeueOptimisticCount \in Nat
      BY DEF CInv, CountersNat
    <3>3. \A n \in F : n \in 0 .. dequeueOptimisticCount
      BY <3>1, <3>2
    <3> QED
      BY <3>3
  <2>4. /\ r.overcommit \in Nat
        /\ r.overcommit <= Cardinality(F \cap (0 .. dequeueOptimisticCount))
    <3>1. Cardinality(AtPc("undo")) \in Nat
      BY AtPcFinite
    <3>2. consumer[c].overcommit \in Nat /\ consumer[c].overcommit <= dequeueOvercommit
      BY <1>3 DEF CInv, Loaded, AtPc
    <3> QED
      BY <1>1, <1>6, <2>3, <3>1, <3>2 DEF Split, Counted, CInv, CountersNat
  <2>5. /\ consumer'[c].index = dequeueOptimisticCount
        /\ consumer'[c].overcommit = r.overcommit
    BY <1>1, <1>3
  <2>6. dequeueOptimisticCount \in Nat /\ dequeueOptimisticCount \notin S \cup F
    BY <1>6 DEF Split, Drawn, CInv, CountersNat
  <2>7. \A d \in AtPc("recheck") :
            /\ consumer'[d].index \in Nat /\ consumer'[d].index < dequeueOptimisticCount
            /\ consumer'[d].index \notin S \cup F
            /\ consumer'[d].overcommit \in Nat
            /\ consumer'[d].overcommit <= Cardinality(F \cap (0 .. consumer'[d].index))
            /\ \A e \in AtPc("recheck") \ {d} : consumer'[e].index # consumer'[d].index
    BY <1>6, <2>2 DEF Split, Pending
  <2>8. \A d \in AtPc("recheck") :
            /\ consumer'[d].index < dequeueOptimisticCount'
            /\ consumer'[d].index # consumer'[c].index
    <3> SUFFICES ASSUME NEW d \in AtPc("recheck")
                 PROVE  /\ consumer'[d].index < dequeueOptimisticCount'
                        /\ consumer'[d].index # consumer'[c].index
      OBVIOUS
    <3>1. PICK k \in Nat : k = consumer'[d].index /\ k < dequeueOptimisticCount
      BY <2>7
    <3> QED
      BY <1>2, <2>5, <2>6, <3>1
  <2>9. dequeueOptimisticCount < dequeueOptimisticCount'
    BY <1>2, <2>6
  <2>a. \A d \in AtPc("recheck") :
            /\ consumer'[d].index \in Nat /\ consumer'[d].index \notin S \cup F
            /\ consumer'[d].overcommit \in Nat
            /\ consumer'[d].overcommit <= Cardinality(F \cap (0 .. consumer'[d].index))
            /\ \A e \in AtPc("recheck")' \ {d} : consumer'[e].index # consumer'[d].index
    BY <2>1, <2>7, <2>8
  <2>b. /\ consumer'[c].index \in Nat /\ consumer'[c].index < dequeueOptimisticCount'
        /\ consumer'[c].index \notin S \cup F
        /\ consumer'[c].overcommit \in Nat
        /\ consumer'[c].overcommit <= Cardinality(F \cap (0 .. consumer'[c].index))
        /\ \A e \in AtPc("recheck")' \ {c} : consumer'[e].index # consumer'[c].index
    BY <2>1, <2>4, <2>5, <2>6, <2>8, <2>9
  <2> QED
    BY <2>1, <2>8, <2>a, <2>b DEF Pending
<1> QED
  BY <1>3, <1>4, <1>5, <1>7, <1>8, <1>9, <1>10 DEF CInv, Split

\* The number checked joins those that succeeded or those that failed.
LEMMA RecheckStep == ASSUME CInv, NEW c \in Consumer, Recheck(c) PROVE CInv'
<1>0. PICK to \in {"claim", "undo"} : to = IF Reserved(c) THEN "claim" ELSE "undo"
  OBVIOUS
<1>1. /\ StepWith(c, "recheck", At(c, to))
      /\ UNCHANGED <<tailIndex, headIndex, dequeueOptimisticCount, dequeueOvercommit>>
  BY <1>0 DEF Recheck, Step, counters
<1>2. /\ Field \subseteq DOMAIN At(c, to) /\ At(c, to).pc = to
  BY AtFields DEF CInv
<1>3. /\ Shape' /\ consumer[c].pc = "recheck"
      /\ \A d \in Consumer : consumer'[d] = IF d = c THEN At(c, to) ELSE consumer[d]
  BY <1>1, <1>2, Stepped DEF CInv
<1>4. CountersNat'
  BY <1>1 DEF CInv, CountersNat
<1>5. Loaded'
  BY <1>1, <1>2, <1>3 DEF CInv, Loaded, AtPc
<1>6. PICK S \in SUBSET Nat, F \in SUBSET Nat, m \in Int : Split(S, F, m)
  BY DEF CInv
<1>7. /\ c \in AtPc("recheck") /\ AtPc("recheck")' = AtPc("recheck") \ {c}
  BY <1>2, <1>3, AtPcStep DEF AtPc
<1>i. PICK i \in Nat : i = consumer[c].index
  BY <1>6, <1>7 DEF Split, Pending
<1>8. /\ i \in Nat /\ i < dequeueOptimisticCount /\ i \notin S \cup F
      /\ consumer[c].overcommit \in Nat
      /\ consumer[c].overcommit <= Cardinality(F \cap (0 .. i))
  BY <1>6, <1>7, <1>i DEF Split, Pending
<1>9. \A d \in AtPc("recheck") \ {c} :
        /\ consumer'[d] = consumer[d]
        /\ consumer[d].index \in Nat /\ consumer[d].index < dequeueOptimisticCount
        /\ consumer[d].index \notin S \cup F /\ consumer[d].index # i
        /\ consumer[d].overcommit \in Nat
        /\ consumer[d].overcommit <= Cardinality(F \cap (0 .. consumer[d].index))
        /\ \A e \in AtPc("recheck") \ {c, d} : consumer[e].index # consumer[d].index
  BY <1>3, <1>6, <1>7, <1>i DEF Split, Pending, AtPc
<1>10. /\ Cardinality(AtPc("claim")) \in Nat /\ Cardinality(AtPc("undo")) \in Nat
  BY AtPcFinite
<1>11. IsFiniteSet(S) /\ IsFiniteSet(F)
  BY <1>6 DEF Split, Drawn
<1>12. CASE Reserved(c)
  <2>a. PICK T \in SUBSET Nat : T = S \cup {i}
    BY <1>8
  <2>b. PICK n \in Int : n = IF i > m THEN i ELSE m
    BY <1>8
  <2>0. T = S \cup {i} /\ n = IF i > m THEN i ELSE m
    BY <2>a, <2>b
  <2>1. IsFiniteSet(T) /\ Cardinality(T) = Cardinality(S) + 1
    BY <1>8, <1>11, <2>0, FS_AddElement
  <2>2. Drawn(T, F)'
    BY <1>1, <1>6, <1>8, <2>0, <2>1 DEF Split, Drawn
  <2>3. Counted(T, F)'
    <3>1. AtPc("undo")' = AtPc("undo")
          /\ Cardinality(AtPc("claim")') = Cardinality(AtPc("claim")) + 1
      BY <1>0, <1>2, <1>3, <1>12, AtPcStep
    <3> QED
      BY <1>1, <1>6, <1>10, <2>1, <3>1 DEF Split, Counted, CInv, CountersNat
  <2>4. Pending(T, F)'
    <3>1. \A d \in AtPc("recheck") \ {c} : consumer[d].index \notin T \cup F
      BY <1>9, <2>0
    <3> QED
      BY <1>1, <1>7, <1>9, <3>1 DEF Pending
  <2>5. Highest(T, F, n)'
    <3>1. i - consumer[c].overcommit < tailIndex
      BY <1>12, <1>i DEF Reserved
    <3>2. Cardinality(F \cap (0 .. i)) \in Nat
      <4>1. i \in Int
        OBVIOUS
      <4> QED
        BY <1>11, <4>1, BelowFinite
    <3>3. i + 1 - Cardinality(F \cap (0 .. i)) <= tailIndex
      BY <1>8, <3>1, <3>2 DEF CInv, CountersNat
    <3>4. n + 1 - Cardinality(F \cap (0 .. n)) <= tailIndex
      BY <1>6, <2>0, <3>3 DEF Split, Highest
    <3>5. n >= -1 /\ \A k \in T : k <= n
      BY <1>6, <1>8, <2>0 DEF Split, Highest
    <3> QED
      BY <1>1, <3>4, <3>5 DEF Highest
  <2> QED
    BY <1>3, <1>4, <1>5, <2>2, <2>3, <2>4, <2>5 DEF CInv, Split
<1>13. CASE ~Reserved(c)
  <2>0. PICK G \in SUBSET Nat : G = F \cup {i}
    BY <1>8
  <2>1. IsFiniteSet(G) /\ Cardinality(G) = Cardinality(F) + 1
    BY <1>8, <1>11, <2>0, FS_AddElement
  <2>2. Drawn(S, G)'
    BY <1>1, <1>6, <1>8, <2>0, <2>1 DEF Split, Drawn
  <2>3. Counted(S, G)'
    <3>1. AtPc("claim")' = AtPc("claim")
          /\ Cardinality(AtPc("undo")') = Cardinality(AtPc("undo")) + 1
      BY <1>0, <1>2, <1>3, <1>13, AtPcStep
    <3> QED
      BY <1>1, <1>6, <1>10, <2>1, <3>1 DEF Split, Counted, CInv, CountersNat
  <2>4. \A n \in Int : /\ Cardinality(F \cap (0 .. n)) \in Nat /\ Cardinality(G \cap (0 .. n)) \in Nat
                       /\ Cardinality(F \cap (0 .. n)) <= Cardinality(G \cap (0 .. n))
    BY <1>8, <1>11, <2>0, <2>1, BelowFinite, BelowGrows
  <2>5. Pending(S, G)'
    <3>1. \A d \in AtPc("recheck") \ {c} :
            /\ consumer[d].index \notin S \cup G
            /\ consumer[d].overcommit <= Cardinality(G \cap (0 .. consumer[d].index))
      <4> SUFFICES ASSUME NEW d \in AtPc("recheck") \ {c}
                   PROVE  /\ consumer[d].index \notin S \cup G
                          /\ consumer[d].overcommit
                                 <= Cardinality(G \cap (0 .. consumer[d].index))
        OBVIOUS
      <4>1. /\ consumer[d].index \in Int /\ consumer[d].overcommit \in Nat
            /\ consumer[d].overcommit <= Cardinality(F \cap (0 .. consumer[d].index))
        BY <1>9
      <4>2. consumer[d].overcommit <= Cardinality(G \cap (0 .. consumer[d].index))
        <5>1. PICK k \in Int : k = consumer[d].index
          BY <4>1
        <5>2. /\ Cardinality(F \cap (0 .. k)) \in Nat /\ Cardinality(G \cap (0 .. k)) \in Nat
              /\ Cardinality(F \cap (0 .. k)) <= Cardinality(G \cap (0 .. k))
          BY <2>4
        <5> QED
          BY <4>1, <5>1, <5>2
      <4> QED
        BY <1>9, <2>0, <4>2
    <3> QED
      BY <1>1, <1>7, <1>9, <3>1 DEF Pending
  <2>6. Highest(S, G, m)'
    <3>1. /\ Cardinality(F \cap (0 .. m)) \in Nat /\ Cardinality(G \cap (0 .. m)) \in Nat
          /\ Cardinality(F \cap (0 .. m)) <= Cardinality(G \cap (0 .. m))
      BY <2>4
    <3> QED
      BY <1>1, <1>6, <3>1 DEF Split, Highest, CInv, CountersNat
  <2> QED
    BY <1>3, <1>4, <1>5, <2>2, <2>3, <2>5, <2>6 DEF CInv, Split
<1> QED
  BY <1>12, <1>13

\* A failure that is given back was counted as one not given back.
LEMMA UndoStep == ASSUME CInv, NEW c \in Consumer, Undo(c) PROVE CInv'
<1>1. /\ StepWith(c, "undo", At(c, "idle")) /\ dequeueOvercommit' = dequeueOvercommit + 1
      /\ UNCHANGED <<tailIndex, headIndex, dequeueOptimisticCount>>
  BY DEF Undo, Step, AfterUndo
<1>2. Field \subseteq DOMAIN At(c, "idle") /\ At(c, "idle").pc = "idle"
  BY AtFields DEF CInv
<1>3. /\ Shape' /\ consumer[c].pc = "undo"
      /\ \A d \in Consumer : consumer'[d] = IF d = c THEN At(c, "idle") ELSE consumer[d]
  BY <1>1, <1>2, Stepped DEF CInv
<1>4. CountersNat'
  BY <1>1 DEF CInv, CountersNat
<1>5. Loaded'
  BY <1>1, <1>2, <1>3 DEF CInv, CountersNat, Loaded, AtPc
<1>6. PICK S \in SUBSET Nat, F \in SUBSET Nat, m \in Int : Split(S, F, m)
  BY DEF CInv
<1>7. Drawn(S, F)' /\ Highest(S, F, m)'
  BY <1>1, <1>6 DEF Split, Drawn, Highest
<1>8. /\ AtPc("recheck")' = AtPc("recheck") /\ AtPc("claim")' = AtPc("claim")
      /\ Cardinality(AtPc("undo")') = Cardinality(AtPc("undo")) - 1
  BY <1>2, <1>3, AtPcStep
<1>9. Cardinality(AtPc("undo")) \in Nat
  BY AtPcFinite
<1>10. Counted(S, F)'
  BY <1>1, <1>6, <1>8, <1>9 DEF Split, Counted, CInv, CountersNat
<1>11. Pending(S, F)'
  <2>1. \A d \in AtPc("recheck") : consumer'[d] = consumer[d]
    BY <1>3 DEF AtPc
  <2> QED
    BY <1>1, <1>6, <1>8, <2>1 DEF Split, Pending
<1> QED
  BY <1>3, <1>4, <1>5, <1>7, <1>10, <1>11 DEF CInv, Split

\* A claim that is taken was counted as one to be taken.
LEMMA ClaimStep == ASSUME CInv, NEW c \in Consumer, Claim(c) PROVE CInv'
<1> DEFINE r == [At(c, "header") EXCEPT !.index = headIndex]
<1>1. Field \subseteq DOMAIN r /\ r.pc = "header"
  BY AtFields DEF CInv, Field
<1>2. /\ StepWith(c, "claim", r) /\ headIndex' = headIndex + 1
      /\ UNCHANGED <<tailIndex, dequeueOptimisticCount, dequeueOvercommit>>
  BY DEF Claim
<1> HIDE DEF r
<1>3. /\ Shape' /\ consumer[c].pc = "claim"
      /\ \A d \in Consumer : consumer'[d] = IF d = c THEN r ELSE consumer[d]
  BY <1>1, <1>2, Stepped DEF CInv
<1>4. CountersNat'
  BY <1>2 DEF CInv, CountersNat
<1>5. Loaded'
  BY <1>1, <1>2, <1>3 DEF CInv, Loaded, AtPc
<1>6. PICK S \in SUBSET Nat, F \in SUBSET Nat, m \in Int : Split(S, F, m)
  BY DEF CInv
<1>7. Drawn(S, F)' /\ Highest(S, F, m)'
  BY <1>2, <1>6 DEF Split, Drawn, Highest
<1>8. /\ AtPc("recheck")' = AtPc("recheck") /\ AtPc("undo")' = AtPc("undo")
      /\ Cardinality(AtPc("claim")') = Cardinality(AtPc("claim")) - 1
  BY <1>1, <1>3, AtPcStep
<1>9. Cardinality(AtPc("claim")) \in Nat
  BY AtPcFinite
<1>10. Counted(S, F)'
  BY <1>2, <1>6, <1>8, <1>9 DEF Split, Counted, CInv, CountersNat
<1>11. Pending(S, F)'
  <2>1. \A d \in AtPc("recheck") : consumer'[d] = consumer[d]
    BY <1>3 DEF AtPc
  <2> QED
    BY <1>2, <1>6, <1>8, <2>1 DEF Split, Pending
<1> QED
  BY <1>3, <1>4, <1>5, <1>7, <1>10, <1>11 DEF CInv, Split

\* Every other step of a consumer is quiet.
LEMMA OtherStep ==
    ASSUME CInv, NEW c \in Consumer, dequeue(c),
           ~Reserve(c), ~Recheck(c), ~Undo(c), ~Claim(c)
    PROVE  \E from, r : Quiet(c, from, r)
<1> USE DEF Quiet
<1>1. \A p : /\ Field \subseteq DOMAIN At(c, p) /\ At(c, p).pc = p
             /\ p # "idle" => At(c, p).overcommit = consumer[c].overcommit
  BY AtFields DEF CInv
<1>2. consumer[c].pc = "count" => /\ consumer[c].overcommit \in Nat
                                  /\ consumer[c].overcommit <= dequeueOvercommit
  BY DEF CInv, Loaded, AtPc
<1>3. dequeueOvercommit \in Nat
  BY DEF CInv, CountersNat
<1>4. ASSUME NEW from, from \notin Busy, NEW to, to \notin Busy \cup {"count", "reserve"},
             Step(c, from, to), UNCHANGED counters
      PROVE  \E f, r : Quiet(c, f, r)
  BY <1>1, <1>4 DEF Step
<1>5. CASE SizeTail(c)
  <2> DEFINE r == [At(c, "size") EXCEPT !.tail = tailIndex]
  <2>1. Field \subseteq DOMAIN r /\ r.pc = "size"
    BY <1>1 DEF Field
  <2>2. StepWith(c, "idle", r) /\ UNCHANGED counters
    BY <1>5 DEF SizeTail
  <2> HIDE DEF r
  <2> QED
    BY <2>1, <2>2 DEF Busy
<1>6. CASE LoadTail(c)
  <2> DEFINE r == [At(c, "overcommit") EXCEPT !.tail = tailIndex]
  <2>1. Field \subseteq DOMAIN r /\ r.pc = "overcommit"
    BY <1>1 DEF Field
  <2>2. StepWith(c, "tail", r) /\ UNCHANGED counters
    BY <1>6 DEF LoadTail
  <2> HIDE DEF r
  <2> QED
    BY <2>1, <2>2 DEF Busy
<1>7. CASE LoadOvercommit(c)
  <2> DEFINE r == [At(c, "count") EXCEPT !.overcommit = dequeueOvercommit]
  <2>1. Field \subseteq DOMAIN r /\ r.pc = "count" /\ r.overcommit = dequeueOvercommit
    BY <1>1 DEF Field
  <2>2. StepWith(c, "overcommit", r) /\ UNCHANGED counters
    BY <1>7 DEF LoadOvercommit
  <2> HIDE DEF r
  <2> QED
    BY <1>3, <2>1, <2>2 DEF Busy
<1>8. CASE LoadCount(c)
  <2>1. CASE LooksThere(c)
    <3>1. StepWith(c, "count", At(c, "reserve")) /\ UNCHANGED counters
      BY <1>8, <2>1 DEF LoadCount, Step
    <3>2. consumer[c].pc = "count"
      BY <3>1 DEF StepWith
    <3> QED
      BY <1>1, <1>2, <3>1, <3>2 DEF Busy
  <2>2. CASE ~LooksThere(c)
    BY <1>4, <1>8, <2>2 DEF LoadCount, Busy
  <2> QED
    BY <2>1, <2>2
<1>9. CASE LoadHeader(c)
  <2> DEFINE r == [At(c, "headerTail") EXCEPT !.header = blockIndex]
  <2>1. Field \subseteq DOMAIN r /\ r.pc = "headerTail"
    BY <1>1 DEF Field
  <2>2. StepWith(c, "header", r) /\ UNCHANGED counters
    BY <1>9 DEF LoadHeader
  <2> HIDE DEF r
  <2> QED
    BY <2>1, <2>2 DEF Busy
<1>10. CASE LoadHeaderTail(c)
  <2> DEFINE r == [At(c, "tailKey") EXCEPT !.headerTail = headers[consumer[c].header].tail]
  <2>1. Field \subseteq DOMAIN r /\ r.pc = "tailKey"
    BY <1>1 DEF Field
  <2>2. StepWith(c, "headerTail", r) /\ UNCHANGED counters
    BY <1>10 DEF LoadHeaderTail
  <2> HIDE DEF r
  <2> QED
    BY <2>1, <2>2 DEF Busy
<1>11. CASE LoadTailKey(c)
  <2> DEFINE l == consumer[c]
             r == [At(c, "value") EXCEPT
                      !.entry = headers[l.header].ring[Position(l.header, l.headerTail, l.index)]]
  <2>1. Field \subseteq DOMAIN r /\ r.pc = "value"
    BY <1>1 DEF Field
  <2>2. StepWith(c, "tailKey", r) /\ UNCHANGED counters
    BY <1>11 DEF LoadTailKey
  <2> HIDE DEF r
  <2> QED
    BY <2>1, <2>2 DEF Busy
<1>12. CASE LoadValue(c)
  <2> DEFINE r == [At(c, "move") EXCEPT !.block = entries[consumer[c].entry].value]
  <2>1. Field \subseteq DOMAIN r /\ r.pc = "move"
    BY <1>1 DEF Field
  <2>2. StepWith(c, "value", r) /\ UNCHANGED counters
    BY <1>12 DEF LoadValue
  <2> HIDE DEF r
  <2> QED
    BY <2>1, <2>2 DEF Busy
<1>13. CASE SizeHead(c)
  <2>1. PICK to \in {"tail", "idle"} : Step(c, "size", to)
    BY <1>13 DEF SizeHead
  <2> QED
    BY <1>4, <1>13, <2>1 DEF SizeHead, Busy
<1>14. CASE Move(c)
  BY <1>4, <1>14 DEF Move, Busy
<1>15. CASE SetEmpty(c)
  <2>1. PICK to \in {"clear", "idle"} : Step(c, "empty", to)
    BY <1>15 DEF SetEmpty
  <2> QED
    BY <1>4, <1>15, <2>1 DEF SetEmpty, Busy
<1>16. CASE ClearValue(c)
  BY <1>4, <1>16 DEF ClearValue, Busy
<1>17. CASE Release(c)
  BY <1>4, <1>17 DEF Release, Busy
<1> QED
  BY <1>5, <1>6, <1>7, <1>8, <1>9, <1>10, <1>11, <1>12, <1>13, <1>14, <1>15, <1>16, <1>17
  DEF dequeue

LEMMA DequeueStep == ASSUME CInv, NEW c \in Consumer, dequeue(c) PROVE CInv'
BY OtherStep, QuietStep, ReserveStep, RecheckStep, UndoStep, ClaimStep

LEMMA CountersInit == Init => CInv
<1> SUFFICES ASSUME Init PROVE CInv
  OBVIOUS
<1>1. Shape /\ CountersNat
  BY DEF Init, Shape, CountersNat, Field, Idle
<1>2. \A p : p # "idle" => AtPc(p) = {}
  BY DEF Init, AtPc, Idle
<1>3. Loaded
  BY <1>2 DEF Loaded
<1>4. Split({}, {}, -1)
  <2>1. IsFiniteSet({}) /\ Cardinality({}) = 0
    BY FS_EmptySet
  <2>2. {} \cap (0 .. -1) = {}
    OBVIOUS
  <2>3. Drawn({}, {})
    BY <2>1 DEF Drawn
  <2>4. Counted({}, {})
    <3>1. AtPc("claim") = {} /\ AtPc("undo") = {}
      BY <1>2
    <3>2. headIndex = 0 /\ dequeueOvercommit = 0
      BY DEF Init
    <3>3. Cardinality(AtPc("claim")) = 0 /\ Cardinality(AtPc("undo")) = 0
      BY <2>1, <3>1
    <3> QED
      BY <2>1, <3>2, <3>3 DEF Counted
  <2>5. Pending({}, {})
    BY <1>2 DEF Pending
  <2>6. Highest({}, {}, -1)
    BY <2>1, <2>2 DEF Highest, Init
  <2> QED
    BY <2>3, <2>4, <2>5, <2>6 DEF Split
<1> QED
  BY <1>1, <1>3, <1>4 DEF CInv

LEMMA CountersStep == ASSUME CInv, [Next]_vars PROVE CInv'
<1>1. CASE UNCHANGED vars
  <2>1. UNCHANGED <<tailIndex, headIndex, dequeueOptimisticCount, dequeueOvercommit, consumer>>
    BY <1>1 DEF vars, counters
  <2> QED
    BY <2>1 DEF CInv, Shape, CountersNat, Loaded, Split, Drawn, Counted, Pending, Highest, AtPc
<1> QED
  BY <1>1, EnqueueStep, DequeueStep DEF Next

\* The invariant holds always.
THEOREM CountersInvariant == Spec => []CInv
BY CountersInit, CountersStep, PTL DEF Spec

-----------------------------------------------------------------------------
\* The numbers that succeeded are among those up to the highest that did not fail.
LEMMA Behind ==
    ASSUME CInv
    PROVE  HeadBehindTail /\ (AtPc("claim") # {} => headIndex < tailIndex)
<1>1. PICK S \in SUBSET Nat, F \in SUBSET Nat, m \in Int : Split(S, F, m)
  BY DEF CInv
<1>2. S \subseteq (0 .. m) \ F
  BY <1>1 DEF Split, Drawn, Highest
<1>3. /\ IsFiniteSet(0 .. m) /\ Cardinality(0 .. m) = m + 1
  <2>1. m >= -1
    BY <1>1 DEF Split, Highest
  <2> QED
    BY <2>1, FS_Interval
<1>4. /\ IsFiniteSet((0 .. m) \ F)
      /\ Cardinality((0 .. m) \ F) = m + 1 - Cardinality((0 .. m) \cap F)
  <2>1. PICK A : A = 0 .. m
    OBVIOUS
  <2>2. IsFiniteSet(A) /\ Cardinality(A) = m + 1
    BY <1>3, <2>1
  <2>3. IsFiniteSet(A \ F) /\ Cardinality(A \ F) = Cardinality(A) - Cardinality(A \cap F)
    BY <2>2, FS_Difference
  <2>4. Cardinality(A \ F) = m + 1 - Cardinality(A \cap F)
    <3>1. Cardinality(A \cap F) \in Int
      <4>1. IsFiniteSet(A \cap F)
        BY <2>2, FS_Intersection
      <4> QED
        BY <4>1, FS_CardinalityType
    <3> QED
      BY <2>2, <2>3, <3>1
  <2> QED
    BY <2>1, <2>3, <2>4, Zenon
<1>5. Cardinality(S) <= Cardinality((0 .. m) \ F)
  BY <1>2, <1>4, FS_Subset
<1>6. (0 .. m) \cap F = F \cap (0 .. m)
  OBVIOUS
<1>7. /\ Cardinality(F \cap (0 .. m)) \in Nat /\ Cardinality(AtPc("claim")) \in Nat
  BY <1>1, BelowFinite, AtPcFinite DEF Split, Drawn
<1>8. /\ Cardinality(S) = headIndex + Cardinality(AtPc("claim"))
      /\ m + 1 - Cardinality(F \cap (0 .. m)) <= tailIndex
  BY <1>1 DEF Split, Counted, Highest
<1>9. PICK k \in Nat, f \in Nat : k = Cardinality(AtPc("claim")) /\ f = Cardinality(F \cap (0 .. m))
  BY <1>7
<1>10. headIndex + k <= m + 1 - f /\ m + 1 - f <= tailIndex
  BY <1>4, <1>5, <1>6, <1>8, <1>9
<1>11. headIndex \in Nat /\ tailIndex \in Nat
  BY DEF CInv, CountersNat
<1>12. AtPc("claim") # {} => k # 0
  BY <1>9, AtPcFinite, FS_EmptySet
<1> QED
  BY <1>10, <1>11, <1>12 DEF HeadBehindTail

\* headIndex never passes tailIndex: no consumer is given a message that is not
\* there, however many consumers race, however stale what they loaded is.
THEOREM HeadBehindTailCorrect == Spec => []HeadBehindTail
<1>1. CInv => HeadBehindTail
  BY Behind
<1> QED
  BY <1>1, CountersInvariant, PTL

-----------------------------------------------------------------------------
(* Reservations.                                                           *)

Held == {c \in Consumer : consumer[c].pc \in Busy}

LEMMA HeldStep ==
    ASSUME NEW c \in Consumer, NEW r,
           \A d \in Consumer : consumer'[d] = IF d = c THEN r ELSE consumer[d]
    PROVE  /\ Cardinality(Held) \in Nat
           /\ (consumer[c].pc \in Busy <=> r.pc \in Busy) => Held' = Held
           /\ consumer[c].pc \notin Busy /\ r.pc \in Busy =>
                  Cardinality(Held') = Cardinality(Held) + 1
           /\ consumer[c].pc \in Busy /\ r.pc \notin Busy =>
                  Cardinality(Held') = Cardinality(Held) - 1
<1>1. IsFiniteSet(Held) /\ Cardinality(Held) \in Nat
  BY FS_Subset, FS_CardinalityType DEF Held
<1>2. ASSUME consumer[c].pc \in Busy <=> r.pc \in Busy PROVE Held' = Held
  BY <1>2 DEF Held
<1>3. ASSUME consumer[c].pc \notin Busy, r.pc \in Busy
      PROVE  Cardinality(Held') = Cardinality(Held) + 1
  <2>1. Held' = Held \cup {c} /\ c \notin Held
    BY <1>3 DEF Held
  <2> QED
    BY <1>1, <2>1, FS_AddElement
<1>4. ASSUME consumer[c].pc \in Busy, r.pc \notin Busy
      PROVE  Cardinality(Held') = Cardinality(Held) - 1
  <2>1. Held' = Held \ {c} /\ c \in Held
    BY <1>4 DEF Held
  <2> QED
    BY <1>1, <2>1, FS_RemoveElement
<1> QED
  BY <1>1, <1>2, <1>3, <1>4

LEMMA ReservationsStep ==
    ASSUME CInv, Reservations, NEW c \in Consumer, dequeue(c)
    PROVE  Reservations'
<1>1. dequeueOptimisticCount - dequeueOvercommit = headIndex + Cardinality(Held)
  BY DEF Reservations, Held, Busy
<1>2. CountersNat /\ Shape
  BY DEF CInv
<1>3. \A p : Field \subseteq DOMAIN At(c, p) /\ At(c, p).pc = p
  BY <1>2, AtFields
<1>4. SUFFICES (dequeueOptimisticCount - dequeueOvercommit = headIndex + Cardinality(Held))'
  BY DEF Reservations, Held, Busy
<1>5. CASE Reserve(c)
  <2> DEFINE r == [At(c, "recheck") EXCEPT !.index = dequeueOptimisticCount]
  <2>1. Field \subseteq DOMAIN r /\ r.pc = "recheck"
    BY <1>3 DEF Field
  <2>2. /\ StepWith(c, "reserve", r) /\ dequeueOptimisticCount' = dequeueOptimisticCount + 1
        /\ UNCHANGED <<headIndex, dequeueOvercommit>>
    BY <1>5 DEF Reserve
  <2> HIDE DEF r
  <2>3. Cardinality(Held) \in Nat /\ Cardinality(Held') = Cardinality(Held) + 1
    BY <1>2, <2>1, <2>2, Stepped, HeldStep DEF Busy
  <2> QED
    BY <1>1, <1>2, <2>2, <2>3 DEF CountersNat
<1>6. CASE Recheck(c)
  <2>1. PICK to \in {"claim", "undo"} : StepWith(c, "recheck", At(c, to))
    BY <1>6 DEF Recheck, Step
  <2>2. Held' = Held
    BY <1>2, <1>3, <2>1, Stepped, HeldStep DEF Busy
  <2> QED
    BY <1>1, <1>6, <2>2 DEF Recheck, counters
<1>7. CASE Undo(c)
  <2>1. /\ StepWith(c, "undo", At(c, "idle")) /\ dequeueOvercommit' = dequeueOvercommit + 1
        /\ UNCHANGED <<headIndex, dequeueOptimisticCount>>
    BY <1>7 DEF Undo, Step, AfterUndo
  <2>2. Cardinality(Held) \in Nat /\ Cardinality(Held') = Cardinality(Held) - 1
    BY <1>2, <1>3, <2>1, Stepped, HeldStep DEF Busy
  <2> QED
    BY <1>1, <1>2, <2>1, <2>2 DEF CountersNat
<1>8. CASE Claim(c)
  <2> DEFINE r == [At(c, "header") EXCEPT !.index = headIndex]
  <2>1. Field \subseteq DOMAIN r /\ r.pc = "header"
    BY <1>3 DEF Field
  <2>2. /\ StepWith(c, "claim", r) /\ headIndex' = headIndex + 1
        /\ UNCHANGED <<dequeueOptimisticCount, dequeueOvercommit>>
    BY <1>8 DEF Claim
  <2> HIDE DEF r
  <2>3. Cardinality(Held) \in Nat /\ Cardinality(Held') = Cardinality(Held) - 1
    BY <1>2, <2>1, <2>2, Stepped, HeldStep DEF Busy
  <2> QED
    BY <1>1, <1>2, <2>2, <2>3 DEF CountersNat
<1>9. CASE ~Reserve(c) /\ ~Recheck(c) /\ ~Undo(c) /\ ~Claim(c)
  <2>1. PICK from, r : Quiet(c, from, r)
    BY <1>9, OtherStep
  <2>2. Held' = Held
    BY <1>2, <2>1, Stepped, HeldStep DEF Quiet
  <2> QED
    BY <1>1, <2>1, <2>2 DEF Quiet, counters
<1> QED
  BY <1>5, <1>6, <1>7, <1>8, <1>9

\* Every number drawn is used, given back or held by a consumer: no message is
\* hidden from the calls to come by a reservation that was forgotten.
THEOREM ReservationsCorrect == Spec => []Reservations
<1>1. Init => Reservations
  <2> SUFFICES ASSUME Init PROVE Reservations
    OBVIOUS
  <2>1. {c \in Consumer : consumer[c].pc \in {"recheck", "undo", "claim"}} = {}
    BY DEF Init, Idle
  <2>2. dequeueOptimisticCount = 0 /\ dequeueOvercommit = 0 /\ headIndex = 0
    BY DEF Init
  <2> QED
    BY <2>1, <2>2, FS_EmptySet DEF Reservations
<1>2. ASSUME CInv, Reservations, [Next]_vars PROVE Reservations'
  <2>1. CASE UNCHANGED vars \/ enqueue
    <3>1. UNCHANGED <<headIndex, dequeueOptimisticCount, dequeueOvercommit, consumer>>
      BY <2>1 DEF vars, counters, enqueue, StartEnqueue, StoreKey, new_block_index, IndexFails,
         StoreTail, Requisition, RequisitionFails, ResetEntry, StoreValue, Construct, Publish
    <3> QED
      BY <1>2, <3>1 DEF Reservations
  <2> QED
    BY <1>2, <2>1, ReservationsStep DEF Next
<1> QED
  BY <1>1, <1>2, CountersInvariant, PTL DEF Spec

\* The counters that consumers correct after the fact are right together.
THEOREM CountersCorrect == Spec => []CountersRight
BY HeadBehindTailCorrect, ReservationsCorrect, PTL DEF CountersRight

-----------------------------------------------------------------------------
(***************************************************************************)
(* That a sub-queue finds, keeps and gives back its blocks as the code     *)
(* presumes, and hands every message over once, with its own value and     *)
(* oldest first: for every number of consumers, messages and blocks, and   *)
(* every size of the blocks and of the first block index.                  *)
(*                                                                         *)
(* Blocks are numbered in the order of their messages.  In the current     *)
(* ring the keys go down from the tail, block by block, whatever was       *)
(* emptied meanwhile; in a ring that was replaced, keys and positions      *)
(* agree modulo its size, whatever the producer stored since.  A block in  *)
(* the index counts the messages taken from it by consumers who are done.  *)
(*                                                                         *)
(* And that the destructor, begun when no call is under way, destroys and  *)
(* gives back all that the sub-queue has left, once: every message that is *)
(* left has its home, and a block that is not free is one of these homes   *)
(* or the tail block.                                                      *)
(***************************************************************************)

\* The first index of block k, and the block of index i.
Nth(k) == BLOCK_SIZE * k
Num(i) == i \div BLOCK_SIZE

Ring == headers[blockIndex].ring
Size == Cardinality(DOMAIN Ring)
TailAt == headers[blockIndex].tail
Key(e) == entries[e].key
Value(e) == entries[e].value

Valid(e) == Key(e) # INVALID_BLOCK_BASE
Live(e) == Value(e) \in Block

USE DEF Key, Value, Valid, Live

\* A new block is begun; the tail of the ring is the entry of tailIndex.
Starting == {"key", "tail", "requisition", "reset", "value"}
Indexed == {"requisition", "value", "construct", "publish"}

\* The block that the tail of the ring is for, and how many blocks ago p was.
Last == IF producer.pc \in Indexed THEN Num(tailIndex) ELSE Num(tailIndex - 1)
Age(p) == IF p <= TailAt THEN TailAt - p ELSE TailAt - p + Size

ProducerRight ==
    /\ producer \in [pc : Starting \cup {"idle", "construct", "publish"},
                     slot : Nat, tailBlock : Block \cup {none}]
    /\ producer.pc \in Starting => tailIndex % BLOCK_SIZE = 0
    /\ producer.pc # "idle" => tailIndex < MaxTail

-----------------------------------------------------------------------------
(* The block index.                                                        *)

RingRight(h) ==
    /\ headers[h] = [tail |-> headers[h].tail, ring |-> headers[h].ring]
    /\ Capacity(h) \in Nat \ {0}
    /\ headers[h].ring \in [0 .. Capacity(h) - 1 -> 0 .. Size - 1]
    /\ headers[h].tail \in 0 .. Capacity(h) - 1
    /\ Size % Capacity(h) = 0

RingsRight ==
    /\ blockIndex \in Nat \ {0} /\ headers = [h \in 1 .. blockIndex |-> headers[h]]
    /\ \A h \in 1 .. blockIndex : RingRight(h)

EntriesType == entries \in [0 .. Size - 1 -> [key : Nat, value : Block \cup {none, garbage}]]

\* Every entry is in the current ring, once.
Bijective ==
    /\ \A p, q \in 0 .. Size - 1 : Ring[p] = Ring[q] => p = q
    /\ \A e \in 0 .. Size - 1 : \E p \in 0 .. Size - 1 : Ring[p] = e

\* An entry that may be used for the next block, or is being made ready for it.
Fresh(e) == SlotFree(e) \/ (producer.pc \in {"tail", "reset"} /\ e = producer.slot)

\* The keys of the current ring go down from the tail.  The next entry may have
\* its new key already, or still from an attempt that failed.
Announced(p) ==
    /\ producer.pc \notin Indexed /\ tailIndex % BLOCK_SIZE = 0
    /\ Age(p) = Size - 1 /\ ~Live(Ring[p]) /\ Fresh(Ring[p])
    /\ Key(Ring[p]) = Nth(Last + 1)

Ordered ==
    \A p \in 0 .. Size - 1 :
        Valid(Ring[p]) => Key(Ring[p]) = Nth(Last - Age(p)) \/ Announced(p)

\* The entries up to u were all used; those after it are free.
FilledTo(u) ==
    /\ \A p \in 0 .. Size - 1 : IF p <= u THEN Valid(Ring[p]) ELSE Fresh(Ring[p])
    /\ Last < 0 => u = -1 /\ TailAt = Size - 1
    /\ Last >= 0 => u = TailAt \/ u = Size - 1
    /\ producer.pc = "requisition" /\ TailAt = 0 => Last = 0 \/ u = Size - 1
Filled == \E u \in -1 .. Size - 1 : FilledTo(u)

SlotRight ==
    producer.pc \in {"tail", "reset", "requisition", "value"} =>
        /\ producer.slot = IF producer.pc \in {"tail", "reset"} THEN NextSlot ELSE Ring[TailAt]
        /\ Key(producer.slot) = tailIndex /\ ~Live(producer.slot)

\* In a ring that was replaced.
Congruent(h) ==
    \A p, q \in 0 .. Capacity(h) - 1 :
        LET d == headers[h].ring[p]
            e == headers[h].ring[q]
        IN  Valid(d) /\ Valid(e) => (Num(Key(d)) - Num(Key(e)) - (p - q)) % Capacity(h) = 0
OldRight ==
    \A h \in 1 .. blockIndex - 1 :
        /\ \A p \in 0 .. Capacity(h) - 1 : Valid(headers[h].ring[p])
        /\ Congruent(h)

IndexRight ==
    /\ ProducerRight /\ RingsRight /\ EntriesType /\ Bijective
    /\ Ordered /\ Filled /\ SlotRight /\ OldRight

-----------------------------------------------------------------------------
(* Who has which block.                                                    *)

Entry == 0 .. Size - 1

Owned ==
    /\ free \subseteq Block
    /\ \A e \in Entry : Live(e) => Valid(e) /\ Value(e) \notin free
    /\ \A d, e \in Entry : Live(e) /\ Value(d) = Value(e) => d = e

NewBlock ==
    producer.pc = "value" =>
        /\ producer.tailBlock \in Block \ free /\ dequeued[producer.tailBlock] = 0
        /\ \A e \in Entry : Value(e) # producer.tailBlock

Released ==
    \A c \in AtPc("release") :
        /\ consumer[c].block \in Block \ free
        /\ \A e \in Entry : Value(e) # consumer[c].block
        /\ producer.pc = "value" => producer.tailBlock # consumer[c].block
        /\ \A d \in AtPc("release") \ {c} : consumer[d].block # consumer[c].block

Emptied ==
    \A c \in AtPc("clear") :
        /\ consumer[c].entry \in Entry /\ consumer[c].block \in Block
        /\ Value(consumer[c].entry) = consumer[c].block
        /\ dequeued[consumer[c].block] = BLOCK_SIZE
        /\ \A d \in AtPc("clear") \ {c} : consumer[d].block # consumer[c].block

-----------------------------------------------------------------------------
(* The messages.                                                           *)

Claimed == {"header", "headerTail", "tailKey", "value", "move", "empty"}
Claimant == {c \in Consumer : consumer[c].pc \in Claimed}
Working(k) == {c \in Claimant : Base(consumer[c].index) = k}

LocalField == {"pc", "tail", "overcommit", "index", "header", "headerTail", "entry", "block"}

Claims ==
    /\ \A c \in Consumer : LocalField \subseteq DOMAIN consumer[c]
    /\ \A c \in Claimant :
        /\ consumer[c].index \in Nat /\ consumer[c].index < headIndex
        /\ \A d \in Claimant \ {c} : consumer[d].index # consumer[c].index

Filling == producer.pc \in {"construct", "publish"} \/ tailIndex % BLOCK_SIZE # 0
NeededFound ==
    /\ \A i \in headIndex .. tailIndex - 1 : \E e \in Entry : Live(e) /\ Key(e) = Base(i)
    /\ \A c \in Claimant : \E e \in Entry : Live(e) /\ Key(e) = Base(consumer[c].index)
    /\ Filling => \E e \in Entry : /\ Live(e) /\ Key(e) = Base(tailIndex)
                                   /\ Value(e) = producer.tailBlock

\* How many messages were taken of the block that begins with index k.
Begun(k) ==
    IF headIndex <= k THEN 0 ELSE IF headIndex >= k + BLOCK_SIZE THEN BLOCK_SIZE ELSE headIndex - k

Counting ==
    /\ dequeued \in [Block -> 0 .. BLOCK_SIZE]
    /\ \A e \in Entry : Live(e) =>
        \A k \in {Key(e)} : dequeued[Value(e)] = Begun(k) - Cardinality(Working(k))

\* Message i is in its slot.
Present(i) ==
    \/ headIndex <= i /\ i < tailIndex
    \/ producer.pc = "publish" /\ i = tailIndex
    \/ \E c \in Claimant : consumer[c].pc # "empty" /\ consumer[c].index = i

Slot == 0 .. BLOCK_SIZE - 1
Stored ==
    /\ elements \in [Block -> [Slot -> Nat \cup {Nil}]]
    /\ \A e \in Entry : Live(e) =>
        \A i \in Key(e) .. Key(e) + BLOCK_SIZE - 1 :
            elements[Value(e)][i % BLOCK_SIZE] = IF Present(i) THEN i ELSE Nil
    /\ \A b \in Block : (\A e \in Entry : Value(e) # b) => \A j \in Slot : elements[b][j] = Nil

\* What a consumer on the way to its entry, and at it, has found.
Searching ==
    /\ \A c \in AtPc("headerTail") \cup AtPc("tailKey") :
        \E h \in 1 .. blockIndex :
            /\ consumer[c].header = h
            /\ \E p \in 0 .. Capacity(h) - 1 :
                /\ Live(headers[h].ring[p])
                /\ Key(headers[h].ring[p]) = Base(consumer[c].index)
    /\ \A c \in AtPc("tailKey") :
        \A h \in {consumer[c].header} :
            /\ consumer[c].headerTail \in 0 .. Capacity(h) - 1
            /\ Valid(headers[h].ring[consumer[c].headerTail])

AtEntry ==
    \A c \in AtPc("value") \cup AtPc("move") \cup AtPc("empty") :
        /\ consumer[c].entry \in Entry
        /\ Live(consumer[c].entry) /\ Key(consumer[c].entry) = Base(consumer[c].index)
        /\ consumer[c].pc # "value" => Value(consumer[c].entry) = consumer[c].block

BlocksOwned == Owned /\ NewBlock /\ Released /\ Emptied
MessagesRight ==
    /\ Claims /\ NeededFound /\ Counting /\ Stored /\ Searching /\ AtEntry
    /\ got \in [Consumer -> Nat \cup {Nil}]

BInv == CInv /\ IndexRight /\ BlocksOwned /\ MessagesRight

-----------------------------------------------------------------------------
(* Arithmetic.                                                             *)

\* A product that lies between -n and n.
LEMMA SmallProduct ==
    ASSUME NEW n \in Nat, NEW k \in Int, n * k > -n, n * k < n
    PROVE  k = 0
<1>1. CASE k >= 1
  <2>1. n * k = n + n * (k - 1)
    OBVIOUS
  <2>2. n * (k - 1) >= 0
    BY <1>1
  <2> QED
    BY <1>1, <2>1, <2>2
<1>2. CASE k <= -1
  <2>1. n * k = -n - n * (-1 - k)
    OBVIOUS
  <2>2. n * (-1 - k) >= 0
    BY <1>2
  <2> QED
    BY <1>2, <2>1, <2>2
<1> QED
  BY <1>1, <1>2

LEMMA Remainder ==
    ASSUME NEW n \in Nat \ {0}, NEW k \in Int, NEW r \in 0 .. n - 1
    PROVE  (r + n * k) % n = r /\ (r + n * k) \div n = k
<1>1. PICK d \in Int : d = (r + n * k) \div n
  OBVIOUS
<1>2. PICK m \in 0 .. n - 1 : m = (r + n * k) % n
  OBVIOUS
<1>3. r + n * k = n * d + m
  BY <1>1, <1>2
<1>4. n * (k - d) = m - r
  BY <1>3
<1>5. k - d = 0
  BY <1>4, SmallProduct
<1> QED
  BY <1>1, <1>2, <1>4, <1>5

LEMMA Divided ==
    ASSUME NEW n \in Nat \ {0}, NEW i \in Int
    PROVE  /\ i \div n \in Int /\ i % n \in 0 .. n - 1
           /\ i = n * (i \div n) + (i % n)
OBVIOUS

\* The first index of a block, the block of an index, and the slot there.
LEMMA BlockOf ==
    ASSUME NEW i \in Int
    PROVE  /\ Num(i) \in Int /\ Base(i) \in Int /\ i % BLOCK_SIZE \in Slot
           /\ Base(i) = Nth(Num(i)) /\ i = Base(i) + (i % BLOCK_SIZE)
BY Divided DEF Num, Base, Nth, Slot

LEMMA FirstOf ==
    ASSUME NEW k \in Int, NEW j \in Slot
    PROVE  /\ Nth(k) \in Int /\ Num(Nth(k) + j) = k /\ Base(Nth(k) + j) = Nth(k)
           /\ (Nth(k) + j) % BLOCK_SIZE = j
<1>1. PICK i \in Int : i = j + BLOCK_SIZE * k
  BY DEF Slot
<1>2. i % BLOCK_SIZE = j /\ i \div BLOCK_SIZE = k
  BY <1>1, Remainder DEF Slot
<1>3. PICK f \in Int : f = Nth(k) /\ f = BLOCK_SIZE * k
  BY DEF Nth
<1>4. i = Nth(k) + j /\ i - j = Nth(k)
  BY <1>1, <1>3 DEF Slot
<1> QED
  BY <1>2, <1>3, <1>4 DEF Num, Base

LEMMA FirstsDiffer ==
    ASSUME NEW a \in Int, NEW b \in Int
    PROVE  /\ Nth(a) = Nth(b) => a = b
           /\ Nth(a) # INVALID_BLOCK_BASE
           /\ Nth(a) \in Nat => a >= 0
           /\ a >= 0 => Nth(a) \in Nat
           /\ Num(Nth(a)) = a
           /\ (Nth(a) - Nth(b)) \div BLOCK_SIZE = a - b
<1>0. 0 \in Slot
  BY DEF Slot
<1>1. \A k \in Int : Nth(k) \in Int /\ Num(Nth(k)) = k /\ Nth(k) % BLOCK_SIZE = 0
  <2> SUFFICES ASSUME NEW k \in Int
               PROVE  Nth(k) \in Int /\ Num(Nth(k)) = k /\ Nth(k) % BLOCK_SIZE = 0
    OBVIOUS
  <2>1. /\ Nth(k) \in Int /\ Num(Nth(k) + 0) = k /\ (Nth(k) + 0) % BLOCK_SIZE = 0
    BY <1>0, FirstOf
  <2>2. Nth(k) + 0 = Nth(k)
    BY <2>1
  <2> QED
    BY <2>1, <2>2
<1>2. Nth(a) # INVALID_BLOCK_BASE
  <2>1. Nth(a) % BLOCK_SIZE = 0
    BY <1>1
  <2>2. 1 % BLOCK_SIZE = 1
    <3>1. 1 \in Slot /\ Nth(0) + 1 = 1
      BY DEF Slot, Nth
    <3>2. (Nth(0) + 1) % BLOCK_SIZE = 1
      BY <3>1, FirstOf
    <3> QED
      BY <3>1, <3>2
  <2> QED
    BY <2>1, <2>2 DEF INVALID_BLOCK_BASE
<1>3. a < 0 => Nth(a) < 0
  <2>1. Nth(a) = -BLOCK_SIZE - BLOCK_SIZE * (-1 - a)
    BY DEF Nth
  <2>2. a < 0 => BLOCK_SIZE * (-1 - a) >= 0
    OBVIOUS
  <2> QED
    BY <2>1, <2>2
<1>4. a >= 0 => Nth(a) >= 0
  BY DEF Nth
<1>5. (Nth(a) - Nth(b)) \div BLOCK_SIZE = a - b
  <2>1. PICK d \in Int : d = 0 + BLOCK_SIZE * (a - b)
    OBVIOUS
  <2>2. Nth(a) - Nth(b) = d
    BY <2>1 DEF Nth
  <2>3. d \div BLOCK_SIZE = a - b
    <3>1. 0 \in 0 .. BLOCK_SIZE - 1 /\ a - b \in Int
      OBVIOUS
    <3> QED
      BY <2>1, <3>1, Remainder
  <2> QED
    BY <2>2, <2>3
<1> QED
  BY <1>1, <1>2, <1>3, <1>4, <1>5

\* The block of the index before i.
LEMMA BlockBefore ==
    ASSUME NEW i \in Int
    PROVE  /\ i % BLOCK_SIZE = 0 => /\ Num(i - 1) = Num(i) - 1
                                    /\ i = Nth(Num(i)) /\ Base(i) = i
           /\ i % BLOCK_SIZE # 0 => Num(i - 1) = Num(i) /\ Base(i - 1) = Base(i)
<1>1. /\ Num(i) \in Int /\ i = Nth(Num(i)) + (i % BLOCK_SIZE) /\ i % BLOCK_SIZE \in Slot
      /\ Base(i) = Nth(Num(i)) /\ Nth(Num(i)) \in Int
  BY BlockOf
<1>2. CASE i % BLOCK_SIZE = 0
  <2>1. i - 1 = Nth(Num(i) - 1) + (BLOCK_SIZE - 1)
    <3>1. PICK k \in Int : k = Num(i)
      BY <1>1
    <3>2. Nth(k - 1) = Nth(k) - BLOCK_SIZE
      BY DEF Nth
    <3>3. PICK f \in Int : f = Nth(k) /\ i = f
      BY <1>1, <1>2, <3>1
    <3> QED
      BY <3>1, <3>2, <3>3
  <2> QED
    BY <1>1, <1>2, <2>1, FirstOf DEF Slot
<1>3. CASE i % BLOCK_SIZE # 0
  <2>1. i - 1 = Nth(Num(i)) + ((i % BLOCK_SIZE) - 1) /\ (i % BLOCK_SIZE) - 1 \in Slot
    BY <1>1, <1>3 DEF Slot
  <2> QED
    BY <1>1, <1>3, <2>1, FirstOf
<1> QED
  BY <1>2, <1>3

\* Which indices a block has.
LEMMA InBlock ==
    ASSUME NEW k \in Int, NEW i \in Int
    PROVE  Base(i) = Nth(k) <=> Nth(k) <= i /\ i < Nth(k) + BLOCK_SIZE
<1>1. Nth(k) \in Int
  BY DEF Nth
<1>2. ASSUME Base(i) = Nth(k) PROVE Nth(k) <= i /\ i < Nth(k) + BLOCK_SIZE
  <2>1. PICK f \in Int : f = Nth(k)
    BY <1>1
  <2>2. i % BLOCK_SIZE \in 0 .. BLOCK_SIZE - 1 /\ i = f + (i % BLOCK_SIZE)
    BY <1>2, <2>1, BlockOf DEF Slot
  <2> QED
    BY <2>1, <2>2
<1>3. ASSUME Nth(k) <= i, i < Nth(k) + BLOCK_SIZE PROVE Base(i) = Nth(k)
  <2>1. i - Nth(k) \in Slot /\ i = Nth(k) + (i - Nth(k))
    BY <1>1, <1>3 DEF Slot
  <2> QED
    BY <2>1, FirstOf
<1> QED
  BY <1>2, <1>3

\* The place after and before a place of a ring, and i places further.
LEMMA Around ==
    ASSUME NEW n \in Nat \ {0}, NEW p \in 0 .. n - 1
    PROVE  /\ (p + 1) % n = IF p = n - 1 THEN 0 ELSE p + 1
           /\ (p - 1) % n = IF p = 0 THEN n - 1 ELSE p - 1
           /\ \A i \in 0 .. n - 1 :
                  (p + 1 + i) % n = IF p + 1 + i < n THEN p + 1 + i ELSE p + 1 + i - n
<1>1. \A i \in 0 .. n - 1 :
          (p + 1 + i) % n = IF p + 1 + i < n THEN p + 1 + i ELSE p + 1 + i - n
  <2> SUFFICES ASSUME NEW i \in 0 .. n - 1
               PROVE  (p + 1 + i) % n = IF p + 1 + i < n THEN p + 1 + i ELSE p + 1 + i - n
    OBVIOUS
  <2>1. CASE p + 1 + i < n
    <3>1. p + 1 + i = (p + 1 + i) + n * 0 /\ p + 1 + i \in 0 .. n - 1
      BY <2>1
    <3> QED
      BY <2>1, <3>1, Remainder
  <2>2. CASE p + 1 + i >= n
    <3>1. p + 1 + i = (p + 1 + i - n) + n * 1 /\ p + 1 + i - n \in 0 .. n - 1
      BY <2>2
    <3> QED
      BY <2>2, <3>1, Remainder
  <2> QED
    BY <2>1, <2>2
<1>2. (p + 1) % n = IF p = n - 1 THEN 0 ELSE p + 1
  BY <1>1
<1>3. (p - 1) % n = IF p = 0 THEN n - 1 ELSE p - 1
  <2>1. CASE p = 0
    <3>1. p - 1 = (n - 1) + n * (-1)
      BY <2>1
    <3> QED
      BY <2>1, <3>1, Remainder
  <2>2. CASE p # 0
    <3>1. p - 1 = (p - 1) + n * 0 /\ p - 1 \in 0 .. n - 1
      BY <2>2
    <3> QED
      BY <2>2, <3>1, Remainder
  <2> QED
    BY <2>1, <2>2
<1> QED
  BY <1>1, <1>2, <1>3

\* Numbers that agree modulo n.
LEMMA Multiples ==
    ASSUME NEW n \in Nat \ {0}, NEW i \in Int
    PROVE  /\ i % n = 0 => \E k \in Int : i = n * k
           /\ \A k \in Int : (n * k) % n = 0 /\ (i % n = 0 => (i + n * k) % n = 0)
<1>1. ASSUME i % n = 0 PROVE i = n * (i \div n) /\ i \div n \in Int
  BY <1>1, Divided
<1>2. ASSUME NEW k \in Int PROVE (n * k) % n = 0
  <2>1. n * k = 0 + n * k /\ 0 \in 0 .. n - 1
    OBVIOUS
  <2> QED
    BY <2>1, Remainder
<1>3. ASSUME NEW k \in Int, i % n = 0 PROVE (i + n * k) % n = 0
  <2>1. PICK q \in Int : i = n * q
    BY <1>1, <1>3
  <2>2. i + n * k = n * (q + k)
    BY <2>1
  <2> QED
    BY <1>2, <2>2
<1> QED
  BY <1>1, <1>2, <1>3

-----------------------------------------------------------------------------
(* What the invariant says of the ring and of its entries.                 *)

BRest == IndexRight /\ BlocksOwned /\ MessagesRight

LEMMA RingFacts ==
    ASSUME IndexRight
    PROVE  /\ Size \in Nat \ {0} /\ Size = Capacity(blockIndex)
           /\ Ring \in [Entry -> Entry] /\ TailAt \in Entry
           /\ NewTail = (IF TailAt = Size - 1 THEN 0 ELSE TailAt + 1)
           /\ NewTail \in Entry /\ NextSlot = Ring[NewTail] /\ NextSlot \in Entry
<1>1. blockIndex \in 1 .. blockIndex /\ RingRight(blockIndex)
  BY DEF IndexRight, RingsRight
<1>2. /\ Size \in Nat \ {0} /\ Size = Capacity(blockIndex)
      /\ Ring \in [Entry -> Entry] /\ TailAt \in Entry
  BY <1>1 DEF RingRight, Size, Capacity, Ring, TailAt, Entry
<1>3. NewTail = IF TailAt = Size - 1 THEN 0 ELSE TailAt + 1
  BY <1>2, Around DEF NewTail, TailAt, Entry
<1>4. NewTail \in Entry
  BY <1>2, <1>3 DEF Entry
<1> QED
  BY <1>2, <1>3, <1>4 DEF NextSlot, Ring

LEMMA LastInt == ASSUME CInv PROVE tailIndex \in Nat /\ headIndex \in Nat /\ Last \in Int
<1>1. tailIndex \in Nat /\ headIndex \in Nat
  BY DEF CInv, CountersNat
<1>2. Num(tailIndex) \in Int /\ Num(tailIndex - 1) \in Int
  BY <1>1, BlockOf
<1> QED
  BY <1>1, <1>2 DEF Last

LEMMA AgeFacts ==
    ASSUME IndexRight
    PROVE  /\ \A p \in Entry : Age(p) \in 0 .. Size - 1
           /\ \A p, q \in Entry : Age(p) = Age(q) => p = q
           /\ Age(TailAt) = 0
           /\ \A p \in Entry : Age(p) = Size - 1 <=> p = NewTail
<1>1. PICK n \in Nat \ {0}, t \in Nat :
          /\ n = Size /\ t = TailAt /\ t < n /\ Entry = 0 .. n - 1
          /\ NewTail = IF t = n - 1 THEN 0 ELSE t + 1
  BY RingFacts DEF Entry
<1>2. \A p \in Entry : Age(p) = IF p <= t THEN t - p ELSE t - p + n
  BY <1>1 DEF Age
<1> QED
  BY <1>1, <1>2

LEMMA NumberInt == ASSUME CInv, IndexRight, NEW p \in Entry PROVE Last - Age(p) \in Int
<1>1. PICK l \in Int : l = Last
  BY LastInt
<1>2. PICK a \in Int : a = Age(p)
  BY AgeFacts, RingFacts
<1> QED
  BY <1>1, <1>2

\* Where an entry is, and how its key comes from there.
LEMMA KeyOf ==
    ASSUME CInv, IndexRight, NEW e \in Entry, Valid(e)
    PROVE  /\ \E k \in Nat : Key(e) = Nth(k)
           /\ \E p \in Entry : /\ Ring[p] = e
                               /\ Key(e) = Nth(Last - Age(p)) \/ Announced(p)
<1>1. PICK p \in Entry : Ring[p] = e
  BY DEF IndexRight, Bijective, Entry
<1>2. Key(e) = Nth(Last - Age(p)) \/ Announced(p)
  BY <1>1 DEF IndexRight, Ordered, Entry
<1>3. Last - Age(p) \in Int /\ Last + 1 \in Int
  BY LastInt, NumberInt
<1>4. PICK k \in Int : Key(e) = Nth(k)
  BY <1>1, <1>2, <1>3 DEF Announced
<1>5. Key(e) \in Nat
  BY DEF IndexRight, EntriesType, Entry
<1>6. k \in Nat
  BY <1>4, <1>5, FirstsDiffer
<1> QED
  BY <1>1, <1>2, <1>4, <1>6

\* A block in the index is not younger than the tail, and no other one has its key.
LEMMA LiveKey ==
    ASSUME CInv, BRest, NEW e \in Entry, Live(e)
    PROVE  \E p \in Entry : /\ Ring[p] = e /\ Key(e) = Nth(Last - Age(p))
                            /\ Last - Age(p) \in Nat
<1>1. Valid(e)
  BY DEF BRest, BlocksOwned, Owned
<1>2. PICK p \in Entry : Ring[p] = e /\ (Key(e) = Nth(Last - Age(p)) \/ Announced(p))
  BY <1>1, KeyOf DEF BRest
<1>3. Key(e) = Nth(Last - Age(p))
  BY <1>2 DEF Announced
<1>4. PICK k \in Int : k = Last - Age(p)
  BY NumberInt DEF BRest
<1>5. Key(e) \in Nat
  BY DEF Entry, BRest, IndexRight, EntriesType
<1>6. k \in Nat
  BY <1>3, <1>4, <1>5, FirstsDiffer
<1> QED
  BY <1>2, <1>3, <1>4, <1>6

LEMMA UniqueKey ==
    ASSUME CInv, BRest, NEW d \in Entry, NEW e \in Entry, Live(d), Live(e), Key(d) = Key(e)
    PROVE  d = e
<1>1. PICK p \in Entry : Ring[p] = d /\ Key(d) = Nth(Last - Age(p)) /\ Last - Age(p) \in Nat
  BY LiveKey
<1>2. PICK q \in Entry : Ring[q] = e /\ Key(e) = Nth(Last - Age(q)) /\ Last - Age(q) \in Nat
  BY LiveKey
<1>3. Last - Age(p) = Last - Age(q)
  <2>1. PICK a \in Nat, b \in Nat : a = Last - Age(p) /\ b = Last - Age(q)
    BY <1>1, <1>2
  <2>2. Nth(a) = Nth(b)
    BY <1>1, <1>2, <2>1
  <2>3. a = b
    BY <2>2, FirstsDiffer
  <2> QED
    BY <2>1, <2>3
<1>4. Age(p) = Age(q)
  <2>1. PICK l \in Int : l = Last
    BY LastInt
  <2>2. PICK a \in Int, b \in Int : a = Age(p) /\ b = Age(q)
    BY AgeFacts, RingFacts DEF BRest
  <2> QED
    BY <1>3, <2>1, <2>2
<1> QED
  BY <1>1, <1>2, <1>4, AgeFacts DEF BRest

\* An entry that a consumer works with still counts.
LEMMA WorkingFinite ==
    ASSUME NEW k
    PROVE  IsFiniteSet(Working(k)) /\ Cardinality(Working(k)) \in Nat
BY FS_Subset, FS_CardinalityType DEF Working, Claimant

LEMMA BegunBound ==
    ASSUME CInv, NEW k \in Int
    PROVE  Begun(k) \in 0 .. BLOCK_SIZE
BY LastInt DEF Begun

LEMMA Counted1 ==
    ASSUME CInv, BRest, NEW c \in Claimant, NEW e \in Entry, Live(e),
           Key(e) = Base(consumer[c].index)
    PROVE  dequeued[Value(e)] < BLOCK_SIZE
<1>1. PICK k \in Nat : k = Key(e)
  BY DEF BRest, IndexRight, EntriesType, Entry
<1>2. dequeued[Value(e)] = Begun(k) - Cardinality(Working(k))
  BY <1>1 DEF BRest, MessagesRight, Counting
<1>3. c \in Working(k)
  BY <1>1 DEF Working
<1>4. Cardinality(Working(k)) # 0
  BY <1>3, WorkingFinite, FS_EmptySet
<1> QED
  BY <1>1, <1>2, <1>4, WorkingFinite, BegunBound

-----------------------------------------------------------------------------
(* What steps leave alone.                                                 *)

\* The index does not change with the consumers and the blocks.
LEMMA IndexKept ==
    ASSUME IndexRight, UNCHANGED <<index, producer, tailIndex>>
    PROVE  IndexRight'
<1>1. UNCHANGED <<blockIndex, headers, entries, producer, tailIndex>>
  BY DEF index
<1>2. Size' = Size /\ Ring' = Ring /\ TailAt' = TailAt /\ Last' = Last
  BY <1>1 DEF Size, Ring, TailAt, Last
<1>3. \A h : Capacity(h)' = Capacity(h)
  BY <1>1 DEF Capacity
<1>4. \A p : Age(p)' = Age(p)
  BY <1>2 DEF Age
<1>5. \A e : Fresh(e)' <=> Fresh(e)
  BY <1>1 DEF Fresh, SlotFree
<1>6. \A p : Announced(p)' <=> Announced(p)
  BY <1>1, <1>2, <1>4, <1>5 DEF Announced
<1>7. ProducerRight' /\ EntriesType'
  BY <1>1, <1>2 DEF IndexRight, ProducerRight, EntriesType
<1>8. RingsRight'
  BY <1>1, <1>2, <1>3 DEF IndexRight, RingsRight, RingRight
<1>9. Bijective'
  BY <1>2 DEF IndexRight, Bijective
<1>10. Ordered'
  BY <1>1, <1>2, <1>4, <1>6 DEF IndexRight, Ordered
<1>11. Filled'
  <2>1. PICK u \in -1 .. Size - 1 : FilledTo(u)
    BY DEF IndexRight, Filled
  <2>2. FilledTo(u)'
    BY <1>1, <1>2, <1>5, <2>1 DEF FilledTo
  <2> QED
    BY <1>2, <2>1, <2>2 DEF Filled
<1>12. SlotRight'
  <2>1. NextSlot' = NextSlot
    BY <1>1 DEF NextSlot, NewTail, Capacity
  <2> QED
    BY <1>1, <1>2, <2>1 DEF IndexRight, SlotRight
<1>13. OldRight'
  BY <1>1, <1>3 DEF IndexRight, OldRight, Congruent
<1> QED
  BY <1>7, <1>8, <1>9, <1>10, <1>11, <1>12, <1>13 DEF IndexRight

\* A consumer that goes on with its local variables only.
LEMMA LookupStep ==
    ASSUME BRest, NEW c \in Consumer, NEW r,
           \A d \in Consumer : consumer'[d] = IF d = c THEN r ELSE consumer[d],
           UNCHANGED <<headIndex, tailIndex, index, blocks, producer, got>>,
           consumer[c].pc \notin {"empty", "clear", "release"},
           r.pc \notin {"empty", "clear", "release"},
           consumer[c].pc \in Claimed <=> r.pc \in Claimed,
           r.pc \in Claimed => r.index = consumer[c].index,
           LocalField \subseteq DOMAIN r, Searching', AtEntry'
    PROVE  BRest'
<1>1. UNCHANGED <<headIndex, tailIndex, blockIndex, headers, entries, elements, dequeued, free,
                  producer, got>>
  BY DEF index, blocks
<1>2. Size' = Size /\ Entry' = Entry
  BY <1>1 DEF Size, Ring, Entry
<1>3. IndexRight'
  BY IndexKept DEF BRest
<1>4. /\ AtPc("clear")' = AtPc("clear") /\ AtPc("release")' = AtPc("release")
      /\ \A d \in AtPc("clear") \cup AtPc("release") : consumer'[d] = consumer[d]
  BY DEF AtPc
<1>5. /\ Claimant' = Claimant
      /\ \A d \in Claimant : /\ consumer'[d].index = consumer[d].index
                             /\ consumer'[d].pc = "empty" <=> consumer[d].pc = "empty"
  BY DEF Claimant, Claimed
<1>6. BlocksOwned'
  <2>1. Owned' /\ NewBlock'
    BY <1>1, <1>2 DEF BRest, BlocksOwned, Owned, NewBlock
  <2>2. Released' /\ Emptied'
    BY <1>1, <1>2, <1>4 DEF BRest, BlocksOwned, Released, Emptied
  <2> QED
    BY <2>1, <2>2 DEF BlocksOwned
<1>7. Claims'
  BY <1>1, <1>5 DEF BRest, MessagesRight, Claims
<1>8. NeededFound'
  BY <1>1, <1>2, <1>5 DEF BRest, MessagesRight, NeededFound, Filling
<1>9. \A k : Working(k)' = Working(k) /\ Begun(k)' = Begun(k)
  BY <1>1, <1>5 DEF Working, Begun
<1>10. Counting'
  BY <1>1, <1>2, <1>9 DEF BRest, MessagesRight, Counting
<1>11. \A i : Present(i)' <=> Present(i)
  BY <1>1, <1>5 DEF Present
<1>12. Stored'
  BY <1>1, <1>2, <1>11 DEF BRest, MessagesRight, Stored
<1>13. (got \in [Consumer -> Nat \cup {Nil}])'
  BY <1>1 DEF BRest, MessagesRight
<1> QED
  BY <1>3, <1>6, <1>7, <1>8, <1>10, <1>12, <1>13 DEF BRest, MessagesRight

\* The producer changes the index, and the entries that have a block stay.
Keeps ==
    /\ \A e \in Entry : /\ e \in Entry' /\ (Live(e) => entries'[e] = entries[e])
                        /\ Valid(e) => Valid(e)'
    /\ \A e \in Entry' : Live(e)' => e \in Entry /\ Live(e)
    /\ \A h \in 1 .. blockIndex : h \in 1 .. blockIndex' /\ headers'[h].ring = headers[h].ring

LEMMA RingStep ==
    ASSUME BRest, Keeps,
           UNCHANGED <<headIndex, tailIndex, elements, dequeued, free, consumer, got>>,
           producer'.pc # "value", producer'.pc = "publish" <=> producer.pc = "publish",
           Filling' <=> Filling, producer'.tailBlock = producer.tailBlock
    PROVE  BlocksOwned' /\ MessagesRight'
<1>1. \A p : AtPc(p)' = AtPc(p)
  BY DEF AtPc
<1>2. Claimant' = Claimant
  BY DEF Claimant
<1>3. \A e \in Entry : Live(e) => /\ e \in Entry' /\ Live(e)'
                                  /\ Key(e)' = Key(e) /\ Value(e)' = Value(e)
  BY DEF Keeps
<1>4. \A e \in Entry' : Live(e)' => /\ e \in Entry /\ Live(e)
                                    /\ Key(e)' = Key(e) /\ Value(e)' = Value(e)
  BY DEF Keeps
<1>5. \A b \in Block : (\A e \in Entry : Value(e) # b) <=> \A e \in Entry' : Value(e)' # b
  BY <1>3, <1>4
<1>6. Owned'
  <2>1. (free \subseteq Block)'
    BY DEF BRest, BlocksOwned, Owned
  <2>2. \A e \in Entry' : Live(e)' => Valid(e)' /\ Value(e)' \notin free'
    BY <1>4 DEF BRest, BlocksOwned, Owned, Keeps
  <2>3. \A d, e \in Entry' : Live(e)' /\ Value(d)' = Value(e)' => d = e
    BY <1>4 DEF BRest, BlocksOwned, Owned
  <2> QED
    BY <2>1, <2>2, <2>3 DEF Owned
<1>7. NewBlock'
  BY DEF NewBlock
<1>8. Released'
  BY <1>1, <1>5 DEF BRest, BlocksOwned, Released
<1>9. Emptied'
  BY <1>1, <1>3 DEF BRest, BlocksOwned, Emptied
<1>10. Claims'
  BY <1>2 DEF BRest, MessagesRight, Claims
<1>11. NeededFound'
  BY <1>2, <1>3 DEF BRest, MessagesRight, NeededFound
<1>12. \A k : Working(k)' = Working(k) /\ Begun(k)' = Begun(k)
  BY <1>2 DEF Working, Begun
<1>13. Counting'
  BY <1>4, <1>12 DEF BRest, MessagesRight, Counting
<1>14. \A i : Present(i)' <=> Present(i)
  BY <1>2 DEF Present
<1>15. Stored'
  <2>1. (elements \in [Block -> [Slot -> Nat \cup {Nil}]])'
    BY DEF BRest, MessagesRight, Stored
  <2>2. \A e \in Entry' : Live(e)' =>
          \A i \in Key(e)' .. Key(e)' + BLOCK_SIZE - 1 :
              elements'[Value(e)'][i % BLOCK_SIZE] = IF Present(i)' THEN i ELSE Nil
    BY <1>4, <1>14 DEF BRest, MessagesRight, Stored
  <2>3. \A b \in Block : (\A e \in Entry' : Value(e)' # b) => \A j \in Slot : elements'[b][j] = Nil
    BY <1>5 DEF BRest, MessagesRight, Stored
  <2> QED
    BY <2>1, <2>2, <2>3 DEF Stored
<1>16. Searching'
  <2>1. \A h \in 1 .. blockIndex : Capacity(h)' = Capacity(h)
    BY DEF Keeps, Capacity
  <2>2. \A h \in 1 .. blockIndex : \A p \in 0 .. Capacity(h) - 1 : headers[h].ring[p] \in Entry
    BY DEF BRest, IndexRight, RingsRight, RingRight, Entry
  <2>3. \A d \in AtPc("headerTail") \cup AtPc("tailKey") : \E h \in 1 .. blockIndex' :
          /\ consumer[d].header = h
          /\ \E p \in 0 .. Capacity(h)' - 1 :
                /\ Live(headers[h].ring[p])'
                /\ Key(headers[h].ring[p])' = Base(consumer[d].index)
    <3> SUFFICES ASSUME NEW d \in AtPc("headerTail") \cup AtPc("tailKey")
                 PROVE  \E h \in 1 .. blockIndex' :
          /\ consumer[d].header = h
          /\ \E p \in 0 .. Capacity(h)' - 1 :
                /\ Live(headers[h].ring[p])'
                /\ Key(headers[h].ring[p])' = Base(consumer[d].index)
      OBVIOUS
    <3>0. PICK h \in 1 .. blockIndex : consumer[d].header = h /\ \E p \in 0 .. Capacity(h) - 1 :
              /\ Live(headers[h].ring[p])
              /\ Key(headers[h].ring[p]) = Base(consumer[d].index)
      BY DEF BRest, MessagesRight, Searching
    <3>1. PICK p \in 0 .. Capacity(h) - 1 :
              /\ consumer[d].header = h /\ Live(headers[h].ring[p])
              /\ Key(headers[h].ring[p]) = Base(consumer[d].index)
      BY <3>0
    <3>2. headers[h].ring[p] \in Entry /\ headers'[h].ring = headers[h].ring /\ h \in 1 .. blockIndex'
      BY <2>2 DEF Keeps
    <3> QED
      BY <1>3, <2>1, <3>1, <3>2
  <2>4. \A d \in AtPc("tailKey") : \A h \in {consumer[d].header} :
          /\ consumer[d].headerTail \in 0 .. Capacity(h)' - 1
          /\ Valid(headers[h].ring[consumer[d].headerTail])'
    <3> SUFFICES ASSUME NEW d \in AtPc("tailKey"), NEW h, h = consumer[d].header
                 PROVE  /\ consumer[d].headerTail \in 0 .. Capacity(h)' - 1
                        /\ Valid(headers[h].ring[consumer[d].headerTail])'
      OBVIOUS
    <3>1. h \in 1 .. blockIndex
      BY DEF BRest, MessagesRight, Searching
    <3>2. PICK p \in 0 .. Capacity(h) - 1 : consumer[d].headerTail = p /\ Valid(headers[h].ring[p])
      BY DEF BRest, MessagesRight, Searching
    <3>3. headers[h].ring[p] \in Entry /\ headers'[h].ring = headers[h].ring
      BY <2>2, <3>1 DEF Keeps
    <3> QED
      BY <2>1, <3>1, <3>2, <3>3 DEF Keeps
  <2> QED
    BY <1>1, <2>3, <2>4 DEF Searching
<1>17. AtEntry'
  BY <1>1, <1>3 DEF BRest, MessagesRight, AtEntry
<1> QED
  BY <1>6, <1>7, <1>8, <1>9, <1>10, <1>11, <1>13, <1>15, <1>16, <1>17
  DEF BlocksOwned, MessagesRight, BRest

-----------------------------------------------------------------------------
(* Steps of a consumer that look something up.                             *)

LEMMA AtLocals ==
    ASSUME BRest, NEW c \in Consumer, NEW p
    PROVE  /\ LocalField \subseteq DOMAIN At(c, p) /\ At(c, p).pc = p
           /\ p # "idle" => \A f \in LocalField \ {"pc"} : At(c, p)[f] = consumer[c][f]
<1>1. LocalField \subseteq DOMAIN consumer[c]
  BY DEF BRest, MessagesRight, Claims
<1> QED
  BY <1>1 DEF LocalField, At, Idle

LEMMA Moves ==
    ASSUME CInv, NEW c \in Consumer, NEW from, NEW r, LocalField \subseteq DOMAIN r,
           StepWith(c, from, r)
    PROVE  /\ consumer[c].pc = from
           /\ \A d \in Consumer : consumer'[d] = IF d = c THEN r ELSE consumer[d]
<1>1. Field \subseteq DOMAIN r
  BY DEF Field, LocalField
<1> QED
  BY <1>1, Stepped DEF CInv

\* What the other consumers have found stays found.
LEMMA OthersFound ==
    ASSUME BRest, NEW c \in Consumer, NEW r,
           \A d \in Consumer : consumer'[d] = IF d = c THEN r ELSE consumer[d],
           UNCHANGED index
    PROVE  /\ r.pc \notin {"headerTail", "tailKey"} => Searching'
           /\ r.pc \notin {"value", "move", "empty"} => AtEntry'
<1>1. UNCHANGED <<blockIndex, headers, entries>>
  BY DEF index
<1>2. Entry' = Entry /\ \A h : Capacity(h)' = Capacity(h)
  BY <1>1 DEF Entry, Size, Ring, Capacity
<1>3. ASSUME r.pc \notin {"headerTail", "tailKey"} PROVE Searching'
  <2>1. \A p \in {"headerTail", "tailKey"} :
            \A d \in AtPc(p)' : d \in AtPc(p) /\ consumer'[d] = consumer[d]
    BY <1>3 DEF AtPc
  <2> QED
    BY <1>1, <1>2, <2>1 DEF BRest, MessagesRight, Searching
<1>4. ASSUME r.pc \notin {"value", "move", "empty"} PROVE AtEntry'
  <2>1. \A p \in {"value", "move", "empty"} :
            \A d \in AtPc(p)' : d \in AtPc(p) /\ consumer'[d] = consumer[d]
    BY <1>4 DEF AtPc
  <2> QED
    BY <1>1, <1>2, <2>1 DEF BRest, MessagesRight, AtEntry
<1> QED
  BY <1>3, <1>4

Beyond == Claimed \cup {"clear", "release"}

LEMMA BeforeClaim ==
    ASSUME CInv, BRest, NEW c \in Consumer, NEW from, NEW r, StepWith(c, from, r),
           LocalField \subseteq DOMAIN r, from \notin Beyond, r.pc \notin Beyond,
           UNCHANGED <<headIndex, tailIndex, index, blocks, producer, got>>
    PROVE  BRest'
<1>1. /\ consumer[c].pc = from
      /\ \A d \in Consumer : consumer'[d] = IF d = c THEN r ELSE consumer[d]
  BY Moves
<1>2. Searching' /\ AtEntry'
  BY <1>1, OthersFound DEF Beyond, Claimed
<1> QED
  BY <1>1, <1>2, LookupStep DEF Beyond, Claimed

Early(c) ==
    \/ SizeTail(c) \/ SizeHead(c) \/ LoadTail(c) \/ LoadOvercommit(c) \/ LoadCount(c)
    \/ Reserve(c) \/ Recheck(c) \/ Undo(c)

LEMMA EarlyStep ==
    ASSUME BRest, NEW c \in Consumer, Early(c)
    PROVE  /\ UNCHANGED <<headIndex, tailIndex, index, blocks, producer, got>>
           /\ \E from, r : /\ StepWith(c, from, r) /\ LocalField \subseteq DOMAIN r
                           /\ from \notin Beyond /\ r.pc \notin Beyond
<1> USE DEF Early
<1>1. \A p : LocalField \subseteq DOMAIN At(c, p) /\ At(c, p).pc = p
  BY AtLocals
<1>2. \A to, v : \A f \in {"tail", "overcommit", "index"} :
          /\ LocalField \subseteq DOMAIN [At(c, to) EXCEPT ![f] = v]
          /\ [At(c, to) EXCEPT ![f] = v].pc = to
  BY <1>1 DEF LocalField
<1>3. UNCHANGED <<headIndex, tailIndex, index, blocks, producer, got>>
  BY DEF SizeTail, SizeHead, LoadTail, LoadOvercommit, LoadCount, Reserve, Recheck, Undo, counters
<1>4. \E from \in {"idle", "size", "tail", "overcommit", "count", "reserve", "recheck", "undo"},
         to \in {"idle", "size", "tail", "overcommit", "count", "reserve", "recheck", "undo", "claim"} :
        \/ StepWith(c, from, At(c, to))
        \/ StepWith(c, from, [At(c, to) EXCEPT !["tail"] = tailIndex])
        \/ StepWith(c, from, [At(c, to) EXCEPT !["overcommit"] = dequeueOvercommit])
        \/ StepWith(c, from, [At(c, to) EXCEPT !["index"] = dequeueOptimisticCount])
  BY Zenon DEF SizeTail, SizeHead, LoadTail, LoadOvercommit, LoadCount, Reserve, Recheck, Undo, Step
<1>5. \E from, r : /\ StepWith(c, from, r) /\ LocalField \subseteq DOMAIN r
                    /\ from \notin Beyond /\ r.pc \notin Beyond
  <2>1. PICK from \in {"idle", "size", "tail", "overcommit", "count", "reserve", "recheck", "undo"},
             to \in {"idle", "size", "tail", "overcommit", "count", "reserve", "recheck", "undo",
                     "claim"} :
          \/ StepWith(c, from, At(c, to))
          \/ StepWith(c, from, [At(c, to) EXCEPT !["tail"] = tailIndex])
          \/ StepWith(c, from, [At(c, to) EXCEPT !["overcommit"] = dequeueOvercommit])
          \/ StepWith(c, from, [At(c, to) EXCEPT !["index"] = dequeueOptimisticCount])
    BY <1>4
  <2>2. from \notin Beyond /\ to \notin Beyond
    BY DEF Beyond, Claimed
  <2>3. ASSUME NEW r, StepWith(c, from, r), LocalField \subseteq DOMAIN r, r.pc = to
        PROVE  \E f, s : /\ StepWith(c, f, s) /\ LocalField \subseteq DOMAIN s
                         /\ f \notin Beyond /\ s.pc \notin Beyond
    BY <2>2, <2>3
  <2>4. CASE StepWith(c, from, At(c, to))
    BY <1>1, <2>3, <2>4
  <2>5. CASE StepWith(c, from, [At(c, to) EXCEPT !["tail"] = tailIndex])
    BY <1>2, <2>3, <2>5
  <2>6. CASE StepWith(c, from, [At(c, to) EXCEPT !["overcommit"] = dequeueOvercommit])
    BY <1>2, <2>3, <2>6
  <2>7. CASE StepWith(c, from, [At(c, to) EXCEPT !["index"] = dequeueOptimisticCount])
    BY <1>2, <2>3, <2>7
  <2> QED
    BY <2>1, <2>4, <2>5, <2>6, <2>7
<1> QED
  BY <1>3, <1>5

LEMMA BeforeClaimSteps == ASSUME CInv, BRest, NEW c \in Consumer, Early(c) PROVE BRest'
<1>1. PICK from, r : /\ StepWith(c, from, r) /\ LocalField \subseteq DOMAIN r
                     /\ from \notin Beyond /\ r.pc \notin Beyond
  BY EarlyStep
<1> QED
  BY <1>1, EarlyStep, BeforeClaim

\* The entry of the index is in the ring that is current.
LEMMA LoadHeaderRest == ASSUME CInv, BRest, NEW c \in Consumer, LoadHeader(c) PROVE BRest'
<1> DEFINE r == [At(c, "headerTail") EXCEPT !.header = blockIndex]
<1>1. /\ LocalField \subseteq DOMAIN r /\ r.pc = "headerTail" /\ r.header = blockIndex
      /\ r.index = consumer[c].index
  BY AtLocals DEF LocalField
<1>2. /\ StepWith(c, "header", r)
      /\ UNCHANGED <<headIndex, tailIndex, index, blocks, producer, got>>
  BY DEF LoadHeader, counters
<1> HIDE DEF r
<1>3. /\ consumer[c].pc = "header"
      /\ \A d \in Consumer : consumer'[d] = IF d = c THEN r ELSE consumer[d]
  BY <1>1, <1>2, Moves
<1>4. UNCHANGED <<blockIndex, headers, entries>>
  BY <1>2 DEF index
<1>5. /\ blockIndex \in 1 .. blockIndex
      /\ \E p \in 0 .. Capacity(blockIndex) - 1 :
            /\ Live(headers[blockIndex].ring[p])
            /\ Key(headers[blockIndex].ring[p]) = Base(consumer[c].index)
  <2>1. PICK e \in Entry : Live(e) /\ Key(e) = Base(consumer[c].index)
    BY <1>3 DEF BRest, MessagesRight, NeededFound, Claimant, Claimed
  <2>2. PICK p \in Entry : Ring[p] = e
    BY DEF BRest, IndexRight, Bijective, Entry
  <2>3. blockIndex \in 1 .. blockIndex
    BY DEF BRest, IndexRight, RingsRight
  <2>4. p \in 0 .. Capacity(blockIndex) - 1
    BY <2>2, RingFacts DEF BRest, Entry
  <2> QED
    BY <2>1, <2>2, <2>3, <2>4 DEF Ring
<1>6. Searching'
  <2>1. \A h : Capacity(h)' = Capacity(h)
    BY <1>4 DEF Capacity
  <2>2. /\ AtPc("tailKey")' = AtPc("tailKey") /\ AtPc("headerTail")' \subseteq AtPc("headerTail") \cup {c}
        /\ c \notin AtPc("headerTail") \cup AtPc("tailKey")
    BY <1>1, <1>3 DEF AtPc
  <2>3. \A d \in AtPc("tailKey")' \cup AtPc("headerTail")' : d # c => consumer'[d] = consumer[d]
    BY <1>3 DEF AtPc
  <2>4. \A d \in AtPc("headerTail")' \cup AtPc("tailKey")' :
        \E h \in 1 .. blockIndex' :
            /\ consumer'[d].header = h
            /\ \E p \in 0 .. Capacity(h)' - 1 :
                /\ Live(headers[h].ring[p])'
                /\ Key(headers[h].ring[p])' = Base(consumer'[d].index)
    <3>1. CASE consumer'[c].header = blockIndex
      BY <1>1, <1>3, <1>4, <1>5, <2>1, <2>2, <2>3 DEF BRest, MessagesRight, Searching
    <3> QED
      BY <1>1, <1>3, <3>1
  <2>5. \A d \in AtPc("tailKey")' : d \in AtPc("tailKey") /\ consumer'[d] = consumer[d]
    BY <2>2, <2>3
  <2> QED
    BY <1>4, <2>1, <2>4, <2>5 DEF BRest, MessagesRight, Searching
<1>7. AtEntry'
  BY <1>1, <1>2, <1>3, OthersFound
<1> QED
  BY <1>1, <1>2, <1>3, <1>6, <1>7, LookupStep DEF Claimed

LEMMA NumSign ==
    ASSUME NEW i \in Int
    PROVE  /\ i >= 0 => Num(i) >= 0
           /\ i < 0 => Num(i) < 0
<1>1. PICK k \in Int : k = Num(i)
  BY BlockOf
<1>2. Nth(k) <= i /\ i < Nth(k) + BLOCK_SIZE
  BY <1>1, BlockOf, InBlock
<1>3. k >= 0 => Nth(k) >= 0
  BY FirstsDiffer
<1>4. k < 0 => Nth(k) <= -BLOCK_SIZE
  <2>1. k < 0 => BLOCK_SIZE * (-1 - k) >= 0
    OBVIOUS
  <2>2. Nth(k) = -BLOCK_SIZE - BLOCK_SIZE * (-1 - k)
    BY DEF Nth
  <2> QED
    BY <2>1, <2>2
<1>5. Nth(k) \in Int
  BY DEF Nth
<1> QED
  BY <1>1, <1>2, <1>3, <1>4, <1>5

\* In the current ring keys and positions agree modulo its size, too.
LEMMA CongruentRing ==
    ASSUME CInv, IndexRight
    PROVE  Congruent(blockIndex)
<1>1. Size = Capacity(blockIndex) /\ Ring = headers[blockIndex].ring /\ Size \in Nat \ {0}
  BY RingFacts DEF Ring
<1>2. ASSUME NEW p \in Entry, Valid(Ring[p])
      PROVE  \E z \in Int : Num(Key(Ring[p])) = Last - TailAt + p + Size * z
  <2>1. PICK l \in Int, t \in Int, a \in Int : l = Last /\ t = TailAt /\ a = Age(p)
    BY LastInt, RingFacts, AgeFacts DEF Entry
  <2>2. PICK y \in Int : a = t - p + Size * y
    <3>1. a = t - p + Size * 0 \/ a = t - p + Size * 1
      BY <1>1, <2>1 DEF Age, Entry
    <3> QED
      BY <3>1
  <2>3. CASE Key(Ring[p]) = Nth(Last - Age(p))
    <3>1. Num(Key(Ring[p])) = l - a
      BY <2>1, <2>3, FirstsDiffer
    <3>2. l - a = l - t + p + Size * (-y)
      BY <1>1, <2>2 DEF Entry
    <3> QED
      BY <2>1, <3>1, <3>2
  <2>4. CASE Announced(p)
    <3>1. Num(Key(Ring[p])) = l + 1 /\ a = Size - 1
      BY <2>1, <2>4, FirstsDiffer DEF Announced
    <3>2. PICK n \in Int, i \in Int : n = Size /\ i = p
      BY <1>1 DEF Entry
    <3>3. l + 1 = l - t + i + n * (1 - y)
      BY <2>2, <3>1, <3>2
    <3>4. Num(Key(Ring[p])) = Last - TailAt + p + Size * (1 - y) /\ 1 - y \in Int
      BY <2>1, <3>1, <3>2, <3>3
    <3> QED
      BY <3>4
  <2> QED
    BY <1>2, <2>3, <2>4 DEF IndexRight, Ordered, Entry
<1>3. ASSUME NEW p \in Entry, NEW q \in Entry, Valid(Ring[p]), Valid(Ring[q])
      PROVE  (Num(Key(Ring[p])) - Num(Key(Ring[q])) - (p - q)) % Size = 0
  <2>1. PICK x \in Int : Num(Key(Ring[p])) = Last - TailAt + p + Size * x
    BY <1>2, <1>3
  <2>2. PICK y \in Int : Num(Key(Ring[q])) = Last - TailAt + q + Size * y
    BY <1>2, <1>3
  <2>3. PICK l \in Int, t \in Int : l = Last /\ t = TailAt
    BY LastInt, RingFacts DEF Entry
  <2>4. Num(Key(Ring[p])) - Num(Key(Ring[q])) - (p - q) = Size * (x - y)
    BY <1>1, <2>1, <2>2, <2>3 DEF Entry
  <2>5. (Size * (x - y)) % Size = 0
    BY <1>1, Multiples
  <2> QED
    BY <2>4, <2>5
<1> QED
  BY <1>1, <1>3 DEF Congruent, Entry

\* The ring that a consumer has loaded, current or not.
LEMMA AnyRing ==
    ASSUME CInv, BRest, NEW h \in 1 .. blockIndex
    PROVE  /\ Congruent(h) /\ Capacity(h) \in Nat \ {0}
           /\ headers[h].ring \in [0 .. Capacity(h) - 1 -> Entry]
           /\ headers[h].tail \in 0 .. Capacity(h) - 1
           /\ tailIndex # 0 => Valid(headers[h].ring[headers[h].tail])
<1>1. /\ Capacity(h) \in Nat \ {0} /\ headers[h].ring \in [0 .. Capacity(h) - 1 -> Entry]
      /\ headers[h].tail \in 0 .. Capacity(h) - 1
  BY DEF BRest, IndexRight, RingsRight, RingRight, Entry
<1>2. CASE h = blockIndex
  <2>1. Congruent(h)
    BY <1>2, CongruentRing DEF BRest
  <2>2. ASSUME tailIndex # 0 PROVE Valid(Ring[TailAt])
    <3>1. tailIndex - 1 >= 0 /\ tailIndex >= 0 /\ tailIndex \in Int /\ tailIndex - 1 \in Int
      BY <2>2, LastInt
    <3>2. Last >= 0
      BY <3>1, NumSign DEF Last
    <3>3. PICK u \in -1 .. Size - 1 : FilledTo(u)
      BY DEF BRest, IndexRight, Filled
    <3>4. u = TailAt \/ u = Size - 1
      BY <3>2, <3>3 DEF FilledTo
    <3>5. TailAt \in 0 .. Size - 1 /\ TailAt <= u
      BY <3>4, RingFacts DEF BRest, Entry
    <3> QED
      BY <3>3, <3>5 DEF FilledTo
  <2> QED
    BY <1>1, <1>2, <2>1, <2>2 DEF Ring, TailAt
<1>3. CASE h # blockIndex
  <2>1. h \in 1 .. blockIndex - 1
    BY <1>3 DEF BRest, IndexRight, RingsRight
  <2> QED
    BY <1>1, <2>1 DEF BRest, IndexRight, OldRight
<1> QED
  BY <1>2, <1>3

\* The tail that a consumer loads is that of an entry in use.
LEMMA LoadHeaderTailRest == ASSUME CInv, BRest, NEW c \in Consumer, LoadHeaderTail(c) PROVE BRest'
<1> DEFINE r == [At(c, "tailKey") EXCEPT !.headerTail = headers[consumer[c].header].tail]
<1>1. /\ LocalField \subseteq DOMAIN r /\ r.pc = "tailKey" /\ r.header = consumer[c].header
      /\ r.headerTail = headers[consumer[c].header].tail /\ r.index = consumer[c].index
  BY AtLocals DEF LocalField
<1>2. /\ StepWith(c, "headerTail", r)
      /\ UNCHANGED <<headIndex, tailIndex, index, blocks, producer, got>>
  BY DEF LoadHeaderTail, counters
<1> HIDE DEF r
<1>3. /\ consumer[c].pc = "headerTail"
      /\ \A d \in Consumer : consumer'[d] = IF d = c THEN r ELSE consumer[d]
  BY <1>1, <1>2, Moves
<1>4. UNCHANGED <<blockIndex, headers, entries>>
  BY <1>2 DEF index
<1>5. PICK g \in 1 .. blockIndex :
          /\ consumer[c].header = g
          /\ \E p \in 0 .. Capacity(g) - 1 :
              /\ Live(headers[g].ring[p])
              /\ Key(headers[g].ring[p]) = Base(consumer[c].index)
  BY <1>3 DEF BRest, MessagesRight, Searching, AtPc
<1>6. r.headerTail \in 0 .. Capacity(g) - 1 /\ Valid(headers[g].ring[r.headerTail])
  <2>1. consumer[c].index \in Nat /\ consumer[c].index < headIndex
    BY <1>3 DEF BRest, MessagesRight, Claims, Claimant, Claimed
  <2>2. tailIndex # 0
    BY <2>1, Behind, LastInt DEF HeadBehindTail
  <2> QED
    BY <1>1, <1>5, <2>2, AnyRing
<1>7. Searching'
  <2>1. \A h : Capacity(h)' = Capacity(h)
    BY <1>4 DEF Capacity
  <2>2. \A d \in AtPc("headerTail")' \cup AtPc("tailKey")' :
            d # c => d \in AtPc("headerTail") \cup AtPc("tailKey") /\ consumer'[d] = consumer[d]
    BY <1>3 DEF AtPc
  <2>3. \A d \in AtPc("tailKey")' : d # c => d \in AtPc("tailKey") /\ consumer'[d] = consumer[d]
    BY <1>3 DEF AtPc
  <2>4. \A d \in AtPc("headerTail")' \cup AtPc("tailKey")' :
        \E h \in 1 .. blockIndex' :
            /\ consumer'[d].header = h
            /\ \E p \in 0 .. Capacity(h)' - 1 :
                /\ Live(headers[h].ring[p])'
                /\ Key(headers[h].ring[p])' = Base(consumer'[d].index)
    <3>1. consumer'[c].header = g /\ consumer'[c].index = consumer[c].index
      BY <1>1, <1>3, <1>5
    <3> QED
      BY <1>4, <1>5, <2>1, <2>2, <3>1 DEF BRest, MessagesRight, Searching
  <2>5. \A d \in AtPc("tailKey")' : \A h \in {consumer'[d].header} :
            /\ consumer'[d].headerTail \in 0 .. Capacity(h)' - 1
            /\ Valid(headers[h].ring[consumer[d].headerTail])'
    <3>1. consumer'[c].header = g /\ consumer'[c].headerTail = r.headerTail
      BY <1>1, <1>3, <1>5
    <3>2. ASSUME NEW d \in AtPc("tailKey")', NEW h, h = consumer'[d].header
          PROVE  /\ consumer'[d].headerTail \in 0 .. Capacity(h) - 1
                 /\ Valid(headers[h].ring[consumer'[d].headerTail])
      <4>1. CASE d = c
        BY <1>6, <3>1, <3>2, <4>1
      <4>2. CASE d # c
        BY <2>3, <3>2, <4>2 DEF BRest, MessagesRight, Searching
      <4> QED
        BY <4>1, <4>2
    <3> QED
      BY <1>4, <2>1, <3>2
  <2> QED
    BY <1>4, <2>1, <2>4, <2>5 DEF Searching
<1>8. AtEntry'
  BY <1>1, <1>2, <1>3, OthersFound
<1> QED
  BY <1>1, <1>2, <1>3, <1>7, <1>8, LookupStep DEF Claimed

\* A consumer finds the place of its entry, whatever the producer did since.
LEMMA PositionFound ==
    ASSUME CInv, BRest, NEW h \in 1 .. blockIndex, NEW i \in Nat,
           NEW t \in 0 .. Capacity(h) - 1, NEW p \in 0 .. Capacity(h) - 1,
           Valid(headers[h].ring[t]), Live(headers[h].ring[p]),
           Key(headers[h].ring[p]) = Base(i)
    PROVE  Position(h, t, i) = p
<1>1. /\ Congruent(h) /\ Capacity(h) \in Nat \ {0}
      /\ headers[h].ring[t] \in Entry /\ headers[h].ring[p] \in Entry
  BY AnyRing
<1>2. PICK b \in Nat : Key(headers[h].ring[t]) = Nth(b)
  BY <1>1, KeyOf DEF BRest
<1>3. PICK a \in Int : a = Num(i) /\ Base(i) = Nth(a)
  BY BlockOf
<1>4. Num(Nth(a)) = a /\ Num(Nth(b)) = b /\ (Nth(a) - Nth(b)) \div BLOCK_SIZE = a - b
  <2>1. a \in Int /\ b \in Int
    OBVIOUS
  <2>2. Num(Nth(a)) = a /\ Num(Nth(b)) = b
    BY <2>1, FirstsDiffer
  <2>3. (Nth(a) - Nth(b)) \div BLOCK_SIZE = a - b
    BY <2>1, FirstsDiffer, Zenon
  <2> QED
    BY <2>2, <2>3
<1>5. (a - b - (p - t)) % Capacity(h) = 0
  <2>1. Valid(headers[h].ring[p])
    BY <1>1 DEF BRest, BlocksOwned, Owned
  <2>2. (Num(Key(headers[h].ring[p])) - Num(Key(headers[h].ring[t])) - (p - t)) % Capacity(h) = 0
    BY <1>1, <2>1 DEF Congruent
  <2> QED
    BY <1>2, <1>3, <1>4, <2>2
<1>6. PICK n \in Nat \ {0} : n = Capacity(h)
  BY <1>1
<1>7. PICK z \in Int : a - b - (p - t) = n * z
  <2>1. a - b - (p - t) \in Int
    BY <1>6
  <2> QED
    BY <1>5, <1>6, <2>1, Multiples
<1>8. PICK w \in Int : w = p + n * z /\ w = t + (a - b)
  BY <1>6, <1>7
<1>9. w % n = p
  BY <1>6, <1>8, Remainder
<1> QED
  BY <1>2, <1>3, <1>4, <1>6, <1>8, <1>9 DEF Position

LEMMA LoadTailKeyRest == ASSUME CInv, BRest, NEW c \in Consumer, LoadTailKey(c) PROVE BRest'
<1> DEFINE l == consumer[c]
           x == headers[l.header].ring[Position(l.header, l.headerTail, l.index)]
           r == [At(c, "value") EXCEPT !.entry = x]
<1>1. /\ LocalField \subseteq DOMAIN r /\ r.pc = "value" /\ r.entry = x
      /\ r.index = consumer[c].index
  BY AtLocals DEF LocalField
<1>2. /\ StepWith(c, "tailKey", r)
      /\ UNCHANGED <<headIndex, tailIndex, index, blocks, producer, got>>
  BY DEF LoadTailKey, counters
<1> HIDE DEF r
<1>3. /\ consumer[c].pc = "tailKey"
      /\ \A d \in Consumer : consumer'[d] = IF d = c THEN r ELSE consumer[d]
  BY <1>1, <1>2, Moves
<1>4. PICK h \in 1 .. blockIndex :
          /\ l.header = h
          /\ \E p \in 0 .. Capacity(h) - 1 :
              Live(headers[h].ring[p]) /\ Key(headers[h].ring[p]) = Base(l.index)
  BY <1>3 DEF BRest, MessagesRight, Searching, AtPc
<1>5. PICK p \in 0 .. Capacity(h) - 1 :
          Live(headers[h].ring[p]) /\ Key(headers[h].ring[p]) = Base(l.index)
  BY <1>4
<1>6. l.headerTail \in 0 .. Capacity(h) - 1 /\ Valid(headers[h].ring[l.headerTail])
  BY <1>3, <1>4 DEF BRest, MessagesRight, Searching, AtPc
<1>7. l.index \in Nat
  BY <1>3 DEF BRest, MessagesRight, Claims, Claimant, Claimed
<1>8. Position(h, l.headerTail, l.index) = p
  <2>1. PICK t \in 0 .. Capacity(h) - 1, i \in Nat : t = l.headerTail /\ i = l.index
    BY <1>6, <1>7
  <2> QED
    BY <1>5, <1>6, <2>1, PositionFound
<1>9. x = headers[h].ring[p] /\ x \in Entry /\ Live(x) /\ Key(x) = Base(l.index)
  BY <1>4, <1>5, <1>8, AnyRing
<1> HIDE DEF x
<1>10. Searching'
  BY <1>1, <1>2, <1>3, OthersFound
<1>11. AtEntry'
  <2>1. UNCHANGED entries /\ Entry' = Entry
    BY <1>2 DEF index, Entry, Size, Ring
  <2>2. ASSUME NEW d \in AtPc("value")' \cup AtPc("move")' \cup AtPc("empty")', d # c
        PROVE  /\ d \in AtPc("value") \cup AtPc("move") \cup AtPc("empty")
               /\ consumer'[d] = consumer[d]
    BY <1>3, <2>2 DEF AtPc
  <2>3. /\ consumer'[c].entry \in Entry /\ consumer'[c].pc = "value"
        /\ Live(consumer'[c].entry) /\ Key(consumer'[c].entry) = Base(consumer'[c].index)
    BY <1>1, <1>3, <1>9
  <2> QED
    BY <2>1, <2>2, <2>3 DEF BRest, MessagesRight, AtEntry
<1> QED
  BY <1>1, <1>2, <1>3, <1>10, <1>11, LookupStep DEF Claimed

LEMMA LoadValueRest == ASSUME CInv, BRest, NEW c \in Consumer, LoadValue(c) PROVE BRest'
<1> DEFINE r == [At(c, "move") EXCEPT !.block = entries[consumer[c].entry].value]
<1>1. /\ LocalField \subseteq DOMAIN r /\ r.pc = "move" /\ r.entry = consumer[c].entry
      /\ r.block = entries[consumer[c].entry].value /\ r.index = consumer[c].index
  BY AtLocals DEF LocalField
<1>2. /\ StepWith(c, "value", r)
      /\ UNCHANGED <<headIndex, tailIndex, index, blocks, producer, got>>
  BY DEF LoadValue, counters
<1> HIDE DEF r
<1>3. /\ consumer[c].pc = "value"
      /\ \A d \in Consumer : consumer'[d] = IF d = c THEN r ELSE consumer[d]
  BY <1>1, <1>2, Moves
<1>4. Searching'
  BY <1>1, <1>2, <1>3, OthersFound
<1>5. AtEntry'
  <2>1. UNCHANGED entries /\ Entry' = Entry
    BY <1>2 DEF index, Entry, Size, Ring
  <2>2. ASSUME NEW d \in AtPc("value")' \cup AtPc("move")' \cup AtPc("empty")', d # c
        PROVE  /\ d \in AtPc("value") \cup AtPc("move") \cup AtPc("empty")
               /\ consumer'[d] = consumer[d]
    BY <1>3, <2>2 DEF AtPc
  <2>3. c \in AtPc("value")
    BY <1>3 DEF AtPc
  <2>4. /\ consumer'[c].entry \in Entry /\ Live(consumer'[c].entry)
        /\ Key(consumer'[c].entry) = Base(consumer'[c].index)
        /\ Value(consumer'[c].entry) = consumer'[c].block
    BY <1>1, <1>3, <2>3 DEF BRest, MessagesRight, AtEntry
  <2> QED
    BY <2>1, <2>2, <2>4 DEF BRest, MessagesRight, AtEntry
<1> QED
  BY <1>1, <1>2, <1>3, <1>4, <1>5, LookupStep DEF Claimed

-----------------------------------------------------------------------------
(* Steps of a consumer that take something.                                *)

LEMMA InRange ==
    ASSUME CInv, BRest, NEW e \in Entry, Live(e), NEW i \in Int
    PROVE  /\ i \in Key(e) .. Key(e) + BLOCK_SIZE - 1 <=> Base(i) = Key(e)
           /\ Base(i) = Key(e) => i \in Nat /\ i = Key(e) + (i % BLOCK_SIZE)
           /\ i % BLOCK_SIZE \in Slot /\ Key(e) \in Nat
<1>1. PICK k \in Nat : Key(e) = Nth(k)
  BY KeyOf DEF BRest, BlocksOwned, Owned
<1>2. Key(e) \in Nat
  BY DEF BRest, IndexRight, EntriesType, Entry
<1>3. Base(i) = Nth(k) <=> Nth(k) <= i /\ i < Nth(k) + BLOCK_SIZE
  BY InBlock
<1>4. i % BLOCK_SIZE \in Slot /\ i = Base(i) + (i % BLOCK_SIZE)
  BY BlockOf
<1> QED
  BY <1>1, <1>2, <1>3, <1>4

\* The element that a consumer moves out is the message it claimed.
LEMMA OwnMessage ==
    ASSUME CInv, BRest, NEW c \in Consumer, consumer[c].pc = "move"
    PROVE  /\ consumer[c].block \in Block /\ consumer[c].index \in Nat
           /\ elements[consumer[c].block][consumer[c].index % BLOCK_SIZE] = consumer[c].index
<1>1. PICK e \in Entry : /\ e = consumer[c].entry /\ Live(e) /\ Key(e) = Base(consumer[c].index)
                         /\ Value(e) = consumer[c].block
  BY DEF BRest, MessagesRight, AtEntry, AtPc
<1>2. PICK i \in Nat : i = consumer[c].index
  BY DEF BRest, MessagesRight, Claims, Claimant, Claimed
<1>3. i \in Key(e) .. Key(e) + BLOCK_SIZE - 1
  BY <1>1, <1>2, InRange
<1>4. Present(i)
  BY <1>2 DEF Present, Claimant, Claimed
<1>5. elements[Value(e)][i % BLOCK_SIZE] = i
  BY <1>1, <1>3, <1>4 DEF BRest, MessagesRight, Stored
<1> QED
  BY <1>1, <1>2, <1>5

\* A step by which no consumer leaves its block, and no block its owner.
LEMMA OwnersKept ==
    ASSUME BRest, UNCHANGED <<index, free, dequeued, producer>>,
           \A p \in {"clear", "release"} :
               \A d \in AtPc(p)' : d \in AtPc(p) /\ consumer'[d] = consumer[d]
    PROVE  BlocksOwned'
<1>1. UNCHANGED <<blockIndex, headers, entries, free, dequeued, producer>>
  BY DEF index
<1>2. Entry' = Entry
  BY <1>1 DEF Size, Ring, Entry
<1>3. Owned' /\ NewBlock'
  BY <1>1, <1>2 DEF BRest, BlocksOwned, Owned, NewBlock
<1>4. Released' /\ Emptied'
  BY <1>1, <1>2 DEF BRest, BlocksOwned, Released, Emptied
<1> QED
  BY <1>3, <1>4 DEF BlocksOwned

\* One by which the same consumers work on the same messages.
LEMMA WorkKept ==
    ASSUME BRest, UNCHANGED <<headIndex, tailIndex, index, dequeued, producer>>,
           Claimant' = Claimant, \A d \in Claimant : consumer'[d].index = consumer[d].index,
           \A d \in Consumer : LocalField \subseteq DOMAIN consumer'[d]
    PROVE  Claims' /\ NeededFound' /\ Counting'
<1>1. UNCHANGED <<headIndex, tailIndex, blockIndex, headers, entries, dequeued, producer>>
  BY DEF index
<1>2. Entry' = Entry
  BY <1>1 DEF Size, Ring, Entry
<1>3. Claims'
  BY <1>1 DEF BRest, MessagesRight, Claims
<1>4. NeededFound'
  BY <1>1, <1>2 DEF BRest, MessagesRight, NeededFound, Filling
<1>5. \A k : Working(k)' = Working(k) /\ Begun(k)' = Begun(k)
  BY <1>1 DEF Working, Begun
<1>6. Counting'
  BY <1>1, <1>2, <1>5 DEF BRest, MessagesRight, Counting
<1> QED
  BY <1>3, <1>4, <1>6

\* The message is gone from its slot, and from no other.
LEMMA MoveRest == ASSUME CInv, BRest, NEW c \in Consumer, Move(c) PROVE BRest'
<1> DEFINE r == At(c, "empty")
<1>1. /\ LocalField \subseteq DOMAIN r /\ r.pc = "empty" /\ r.entry = consumer[c].entry
      /\ r.block = consumer[c].block /\ r.index = consumer[c].index
  BY AtLocals DEF LocalField
<1>2. /\ StepWith(c, "move", r)
      /\ UNCHANGED <<headIndex, tailIndex, index, dequeued, free, producer>>
      /\ got' = [got EXCEPT ![c] = elements[consumer[c].block][consumer[c].index % BLOCK_SIZE]]
      /\ elements' = [elements EXCEPT ![consumer[c].block][consumer[c].index % BLOCK_SIZE] = Nil]
  BY DEF Move, Step, counters
<1> HIDE DEF r
<1>3. /\ consumer[c].pc = "move"
      /\ \A d \in Consumer : consumer'[d] = IF d = c THEN r ELSE consumer[d]
  BY <1>1, <1>2, Moves
<1>4. UNCHANGED <<blockIndex, headers, entries>> /\ Entry' = Entry
  BY <1>2 DEF index, Entry, Size, Ring
<1>5. IndexRight'
  BY <1>2, IndexKept DEF BRest
<1>6. BlocksOwned'
  <2>1. \A p \in {"clear", "release"} :
            \A d \in AtPc(p)' : d \in AtPc(p) /\ consumer'[d] = consumer[d]
    BY <1>1, <1>3 DEF AtPc
  <2> QED
    BY <1>2, <2>1, OwnersKept
<1>7. Claimant' = Claimant /\ c \in Claimant /\ Claimant \subseteq Consumer
  BY <1>1, <1>3 DEF Claimant, Claimed
<1>8. Claims' /\ NeededFound' /\ Counting'
  <2>1. \A d \in Claimant : consumer'[d].index = consumer[d].index
    BY <1>1, <1>3, <1>7
  <2>2. \A d \in Consumer : LocalField \subseteq DOMAIN consumer'[d]
    BY <1>1, <1>3 DEF BRest, MessagesRight, Claims
  <2> QED
    BY <1>2, <1>7, <2>1, <2>2, WorkKept
<1>9. Searching'
  BY <1>1, <1>2, <1>3, OthersFound
<1>10. AtEntry'
  <2>1. ASSUME NEW d \in AtPc("value")' \cup AtPc("move")' \cup AtPc("empty")', d # c
        PROVE  /\ d \in AtPc("value") \cup AtPc("move") \cup AtPc("empty")
               /\ consumer'[d] = consumer[d]
    BY <1>3, <2>1 DEF AtPc
  <2>2. c \in AtPc("move")
    BY <1>3 DEF AtPc
  <2>3. /\ consumer'[c].entry \in Entry /\ Live(consumer'[c].entry)
        /\ Key(consumer'[c].entry) = Base(consumer'[c].index)
        /\ Value(consumer'[c].entry) = consumer'[c].block
    BY <1>1, <1>3, <2>2 DEF BRest, MessagesRight, AtEntry
  <2> QED
    BY <1>4, <2>1, <2>3 DEF BRest, MessagesRight, AtEntry
<1>11. PICK i \in Nat, b \in Block : i = consumer[c].index /\ b = consumer[c].block
  BY <1>3, OwnMessage
<1>12. got' = [got EXCEPT ![c] = i] /\ elements' = [elements EXCEPT ![b][i % BLOCK_SIZE] = Nil]
  BY <1>2, <1>3, <1>11, OwnMessage
<1>13. (got \in [Consumer -> Nat \cup {Nil}])'
  BY <1>12 DEF BRest, MessagesRight
<1>14. Stored'
  <2>1. PICK e \in Entry : e = consumer[c].entry /\ Live(e) /\ Key(e) = Base(i) /\ Value(e) = b
    BY <1>3, <1>11 DEF BRest, MessagesRight, AtEntry, AtPc
  <2>2. i % BLOCK_SIZE \in Slot /\ i = Key(e) + (i % BLOCK_SIZE) /\ Key(e) \in Nat
    BY <2>1, InRange
  <2>3. (elements \in [Block -> [Slot -> Nat \cup {Nil}]])'
    <3>1. [elements[b] EXCEPT ![i % BLOCK_SIZE] = Nil] \in [Slot -> Nat \cup {Nil}]
      BY DEF BRest, MessagesRight, Stored
    <3> QED
      BY <1>12, <3>1 DEF BRest, MessagesRight, Stored
  <2>4. \A a \in Block : \A j \in Slot :
            elements'[a][j] = IF a = b /\ j = i % BLOCK_SIZE THEN Nil ELSE elements[a][j]
    BY <1>12, <2>2 DEF BRest, MessagesRight, Stored
  <2>5. \A x \in Nat : Present(x)' <=> Present(x) /\ x # i
    <3>1. ~Present(i)'
      <4>1. i < headIndex /\ headIndex <= tailIndex
        BY <1>7, <1>11, Behind DEF BRest, MessagesRight, Claims, HeadBehindTail
      <4>2. \A d \in Claimant : d # c => consumer'[d].index # i
        BY <1>3, <1>7, <1>11 DEF BRest, MessagesRight, Claims
      <4> QED
        BY <1>1, <1>2, <1>3, <1>7, <4>1, <4>2, LastInt DEF Present
    <3>2. ASSUME NEW x \in Nat, x # i PROVE Present(x)' <=> Present(x)
      BY <1>1, <1>2, <1>3, <1>7, <1>11, <3>2 DEF Present
    <3> QED
      BY <3>1, <3>2
  <2>6. ASSUME NEW d \in Entry, Live(d), NEW x \in Key(d) .. Key(d) + BLOCK_SIZE - 1
        PROVE  elements'[Value(d)][x % BLOCK_SIZE] = IF Present(x)' THEN x ELSE Nil
    <3>1. Key(d) \in Nat
      BY <2>6, InRange
    <3>2. x \in Nat /\ Base(x) = Key(d) /\ x = Key(d) + (x % BLOCK_SIZE) /\ x % BLOCK_SIZE \in Slot
      BY <2>6, <3>1, InRange
    <3>3. elements[Value(d)][x % BLOCK_SIZE] = IF Present(x) THEN x ELSE Nil
      BY <2>6 DEF BRest, MessagesRight, Stored
    <3>4. x = i <=> Value(d) = b /\ x % BLOCK_SIZE = i % BLOCK_SIZE
      <4>1. CASE d = e
        BY <2>1, <2>2, <3>2, <4>1
      <4>2. CASE d # e
        BY <2>1, <2>6, <3>2, <4>2, UniqueKey DEF BRest, BlocksOwned, Owned
      <4> QED
        BY <4>1, <4>2
    <3> QED
      BY <2>4, <2>5, <2>6, <3>2, <3>3, <3>4
  <2>7. \A a \in Block : (\A d \in Entry : Value(d) # a) => \A j \in Slot : elements'[a][j] = Nil
    BY <2>4 DEF BRest, MessagesRight, Stored
  <2> QED
    BY <1>4, <2>3, <2>6, <2>7 DEF Stored
<1> QED
  BY <1>5, <1>6, <1>8, <1>9, <1>10, <1>13, <1>14 DEF BRest, MessagesRight

\* The message counts; the consumer that counts the last one has the block to give
\* back, and no other consumer is at work there.
LEMMA SetEmptyRest == ASSUME CInv, BRest, NEW c \in Consumer, SetEmpty(c) PROVE BRest'
<1>0. PICK to \in {"clear", "idle"} :
          to = IF LastElement(consumer[c].block) THEN "clear" ELSE "idle"
  OBVIOUS
<1> DEFINE r == At(c, to)
<1>1. /\ LocalField \subseteq DOMAIN r /\ r.pc = to
      /\ to = "clear" => r.entry = consumer[c].entry /\ r.block = consumer[c].block
  BY AtLocals DEF LocalField
<1>2. /\ StepWith(c, "empty", r)
      /\ UNCHANGED <<headIndex, tailIndex, index, elements, free, producer, got>>
      /\ dequeued' = [dequeued EXCEPT ![consumer[c].block] = @ + 1]
  BY <1>0 DEF SetEmpty, Step, counters
<1> HIDE DEF r
<1>3. /\ consumer[c].pc = "empty"
      /\ \A d \in Consumer : consumer'[d] = IF d = c THEN r ELSE consumer[d]
  BY <1>1, <1>2, Moves
<1>4. UNCHANGED <<blockIndex, headers, entries>> /\ Entry' = Entry
  BY <1>2 DEF index, Entry, Size, Ring
<1>5. IndexRight'
  BY <1>2, IndexKept DEF BRest
<1>6. PICK i \in Nat : i = consumer[c].index
  BY <1>3 DEF BRest, MessagesRight, Claims, Claimant, Claimed
<1>7. PICK e \in Entry : e = consumer[c].entry /\ Live(e) /\ Key(e) = Base(i)
                         /\ Value(e) = consumer[c].block
  BY <1>3, <1>6 DEF BRest, MessagesRight, AtEntry, AtPc
<1>8. PICK b \in Block : b = consumer[c].block /\ b = Value(e)
  BY <1>7
<1>9. Claimant' = Claimant \ {c} /\ c \in Claimant /\ Claimant \subseteq Consumer
  BY <1>1, <1>3 DEF Claimant, Claimed
<1>10. \A d \in Claimant \ {c} : consumer'[d] = consumer[d]
  BY <1>3, <1>9
<1>11. dequeued[b] \in 0 .. BLOCK_SIZE - 1 /\ dequeued \in [Block -> 0 .. BLOCK_SIZE]
  BY <1>6, <1>7, <1>8, <1>9, Counted1 DEF BRest, MessagesRight, Counting
<1>12. /\ dequeued' \in [Block -> 0 .. BLOCK_SIZE] /\ dequeued'[b] = dequeued[b] + 1
       /\ \A a \in Block : a # b => dequeued'[a] = dequeued[a]
  BY <1>2, <1>8, <1>11
<1>13. BlocksOwned'
  <2>1. Owned'
    BY <1>2, <1>4 DEF BRest, BlocksOwned, Owned
  <2>2. NewBlock'
    BY <1>2, <1>4, <1>8, <1>12 DEF BRest, BlocksOwned, NewBlock
  <2>3. \A d \in AtPc("release")' : d \in AtPc("release") /\ consumer'[d] = consumer[d]
    BY <1>1, <1>3 DEF AtPc
  <2>4. Released'
    BY <1>2, <1>4, <2>3 DEF BRest, BlocksOwned, Released
  <2>5. \A d \in AtPc("clear") : consumer[d].block # b
    BY <1>11 DEF BRest, BlocksOwned, Emptied
  <2>6. \A d \in AtPc("clear")' : d # c => d \in AtPc("clear") /\ consumer'[d] = consumer[d]
    BY <1>1, <1>3 DEF AtPc
  <2>7. c \in AtPc("clear")' => /\ consumer'[c].entry = e /\ consumer'[c].block = b
                                /\ dequeued'[b] = BLOCK_SIZE
    BY <1>0, <1>1, <1>3, <1>7, <1>8, <1>11, <1>12 DEF AtPc, LastElement
  <2>8. Emptied'
    <3>1. ASSUME NEW d \in AtPc("clear")'
          PROVE  /\ consumer'[d].entry \in Entry /\ consumer'[d].block \in Block
                 /\ Value(consumer'[d].entry) = consumer'[d].block
                 /\ dequeued'[consumer'[d].block] = BLOCK_SIZE
                 /\ \A a \in AtPc("clear")' \ {d} : consumer'[a].block # consumer'[d].block
      <4>1. CASE d = c
        BY <1>7, <1>8, <2>5, <2>6, <2>7, <3>1, <4>1
      <4>2. CASE d # c
        BY <1>12, <2>5, <2>6, <2>7, <3>1, <4>2 DEF BRest, BlocksOwned, Emptied
      <4> QED
        BY <4>1, <4>2
    <3> QED
      BY <1>4, <3>1 DEF Emptied
  <2> QED
    BY <2>1, <2>2, <2>4, <2>8 DEF BlocksOwned
<1>14. Claims'
  <2>1. \A d \in Consumer : LocalField \subseteq DOMAIN consumer'[d]
    BY <1>1, <1>3 DEF BRest, MessagesRight, Claims
  <2> QED
    BY <1>2, <1>9, <1>10, <2>1 DEF BRest, MessagesRight, Claims
<1>15. NeededFound'
  BY <1>2, <1>4, <1>9, <1>10 DEF BRest, MessagesRight, NeededFound, Filling
<1>16. Counting'
  <2>1. ASSUME NEW k PROVE Begun(k)' = Begun(k)
    BY <1>2 DEF Begun
  <2>2. ASSUME NEW k, k # Base(i) PROVE Working(k)' = Working(k)
    BY <1>6, <1>9, <1>10, <2>2 DEF Working
  <2>3. Cardinality(Working(Base(i))') = Cardinality(Working(Base(i))) - 1
    <3>1. Working(Base(i))' = Working(Base(i)) \ {c} /\ c \in Working(Base(i))
      BY <1>6, <1>9, <1>10 DEF Working
    <3>2. IsFiniteSet(Working(Base(i)))
      BY WorkingFinite
    <3>3. Cardinality(Working(Base(i)) \ {c}) = Cardinality(Working(Base(i))) - 1
      BY <3>1, <3>2, FS_RemoveElement
    <3> QED
      BY <3>1, <3>3
  <2>4. ASSUME NEW d \in Entry, Live(d), NEW k, k = Key(d)
        PROVE  dequeued'[Value(d)] = Begun(k)' - Cardinality(Working(k)')
    <3>1. dequeued[Value(d)] = Begun(k) - Cardinality(Working(k))
      BY <2>4 DEF BRest, MessagesRight, Counting
    <3>2. CASE d = e
      <4>1. k = Base(i) /\ k \in Int
        BY <1>6, <1>7, <2>4, <3>2, BlockOf
      <4>2. Cardinality(Working(k)) \in Nat /\ Begun(k) \in Nat
        BY <4>1, WorkingFinite, BegunBound
      <4> QED
        BY <1>8, <1>12, <2>1, <2>3, <3>1, <3>2, <4>1, <4>2
    <3>3. CASE d # e
      <4>1. Value(d) # b
        BY <1>8, <2>4, <3>3 DEF BRest, BlocksOwned, Owned
      <4>2. k # Base(i)
        BY <1>7, <2>4, <3>3, UniqueKey
      <4> QED
        BY <1>12, <2>1, <2>2, <2>4, <3>1, <4>1, <4>2
    <3> QED
      BY <3>2, <3>3
  <2> QED
    BY <1>4, <1>12, <2>4 DEF Counting
<1>17. Stored'
  <2>1. \A x : Present(x)' <=> Present(x)
    BY <1>2, <1>3, <1>9, <1>10 DEF Present
  <2> QED
    BY <1>2, <1>4, <2>1 DEF BRest, MessagesRight, Stored
<1>18. Searching' /\ AtEntry'
  BY <1>1, <1>2, <1>3, OthersFound
<1> QED
  BY <1>2, <1>5, <1>13, <1>14, <1>15, <1>16, <1>17, <1>18 DEF BRest, MessagesRight

\* Of a block that was counted empty, no message is there or being taken.
LEMMA EmptyBlock ==
    ASSUME CInv, BRest, NEW e \in Entry, Live(e), dequeued[Value(e)] = BLOCK_SIZE
    PROVE  /\ Key(e) + BLOCK_SIZE <= headIndex /\ headIndex <= tailIndex
           /\ \A d \in Claimant : Base(consumer[d].index) # Key(e)
           /\ Base(tailIndex) # Key(e)
           /\ \A i \in headIndex .. tailIndex - 1 : Base(i) # Key(e)
<1>1. PICK k \in Nat : k = Key(e)
  BY DEF BRest, IndexRight, EntriesType, Entry
<1>2. BLOCK_SIZE = Begun(k) - Cardinality(Working(k))
  BY <1>1 DEF BRest, MessagesRight, Counting
<1>3. Cardinality(Working(k)) = 0 /\ Begun(k) = BLOCK_SIZE
  BY <1>2, WorkingFinite, BegunBound
<1>4. k + BLOCK_SIZE <= headIndex /\ headIndex <= tailIndex
  BY <1>3, LastInt, Behind DEF Begun, HeadBehindTail
<1>5. Working(k) = {}
  BY <1>3, WorkingFinite, FS_EmptySet
<1>6. \A d \in Claimant : Base(consumer[d].index) # k
  BY <1>5 DEF Working
<1>7. \A i \in Int : i >= headIndex => Base(i) # k
  <2> SUFFICES ASSUME NEW i \in Int, i >= headIndex, Base(i) = k PROVE FALSE
    OBVIOUS
  <2>1. i \in k .. k + BLOCK_SIZE - 1
    BY <1>1, InRange
  <2> QED
    BY <1>4, <2>1, LastInt
<1> QED
  BY <1>1, <1>4, <1>6, <1>7, LastInt

\* The entry loses a block that nobody looks for any more.
LEMMA ClearValueRest == ASSUME CInv, BRest, NEW c \in Consumer, ClearValue(c) PROVE BRest'
<1> DEFINE r == At(c, "release")
<1>1. /\ LocalField \subseteq DOMAIN r /\ r.pc = "release" /\ r.block = consumer[c].block
  BY AtLocals DEF LocalField
<1>2. /\ StepWith(c, "clear", r)
      /\ UNCHANGED <<headIndex, tailIndex, blockIndex, headers, blocks, producer, got>>
      /\ entries' = [entries EXCEPT ![consumer[c].entry].value = none]
  BY DEF ClearValue, Step, counters
<1> HIDE DEF r
<1>3. /\ consumer[c].pc = "clear"
      /\ \A d \in Consumer : consumer'[d] = IF d = c THEN r ELSE consumer[d]
  BY <1>1, <1>2, Moves
<1>4. /\ Size' = Size /\ Entry' = Entry /\ Ring' = Ring /\ TailAt' = TailAt
      /\ UNCHANGED <<elements, dequeued, free>>
  BY <1>2 DEF blocks, Entry, Size, Ring, TailAt
<1>5. PICK e \in Entry, b \in Block :
          /\ e = consumer[c].entry /\ b = consumer[c].block /\ Value(e) = b
          /\ dequeued[b] = BLOCK_SIZE
          /\ \A d \in AtPc("clear") \ {c} : consumer[d].block # b
  BY <1>3 DEF BRest, BlocksOwned, Emptied, AtPc
<1>6. /\ EntriesType'
      /\ \A d \in Entry : Key(d)' = Key(d) /\ Value(d)' = IF d = e THEN none ELSE Value(d)
  <2>1. entries \in [Entry -> [key : Nat, value : Block \cup {none, garbage}]]
    BY DEF BRest, IndexRight, EntriesType, Entry
  <2>2. PICK x \in [key : Nat, value : Block \cup {none, garbage}] : x = entries[e]
    BY <2>1
  <2>3. [x EXCEPT !.value = none] \in [key : Nat, value : Block \cup {none, garbage}]
    OBVIOUS
  <2>4. entries' = [entries EXCEPT ![e] = [x EXCEPT !.value = none]]
    BY <1>2, <1>5, <2>2
  <2>5. entries' \in [Entry -> [key : Nat, value : Block \cup {none, garbage}]]
    BY <2>1, <2>3, <2>4
  <2>6. \A d \in Entry : d # e => entries'[d] = entries[d]
    BY <2>1, <2>4
  <2>7. entries'[e].key = entries[e].key /\ entries'[e].value = none
    BY <2>1, <2>2, <2>4
  <2> QED
    BY <1>4, <2>5, <2>6, <2>7 DEF EntriesType, Entry
<1>7. \A d \in Entry : /\ Valid(d)' <=> Valid(d)
                       /\ Live(d)' <=> Live(d) /\ d # e
                       /\ \A a \in Block : Value(d)' = a <=> Value(d) = a /\ d # e
  BY <1>6
<1>8. \A h : Capacity(h)' = Capacity(h)
  BY <1>2 DEF Capacity
<1>9. IndexRight'
  <2>1. Last' = Last /\ \A p : Age(p)' = Age(p)
    BY <1>2, <1>4 DEF Last, Age
  <2>2. ProducerRight'
    BY <1>2 DEF BRest, IndexRight, ProducerRight
  <2>3. RingsRight'
    BY <1>2, <1>4, <1>8 DEF BRest, IndexRight, RingsRight, RingRight
  <2>4. Bijective'
    BY <1>4 DEF BRest, IndexRight, Bijective
  <2>5. \A p \in Entry : Ring[p] \in Entry
    BY RingFacts DEF BRest
  <2>6. \A p \in Entry : Announced(p) => Announced(p)'
    BY <1>2, <1>4, <1>6, <1>7, <2>1, <2>5 DEF Announced, Fresh, SlotFree
  <2>7. Ordered'
    BY <1>4, <1>6, <1>7, <2>1, <2>5, <2>6 DEF BRest, IndexRight, Ordered, Entry
  <2>8. \A d \in Entry : Fresh(d) => Fresh(d)'
    BY <1>2, <1>6 DEF Fresh, SlotFree
  <2>9. Filled'
    <3>1. PICK u \in -1 .. Size - 1 : FilledTo(u)
      BY DEF BRest, IndexRight, Filled
    <3>2. FilledTo(u)'
      BY <1>2, <1>4, <1>7, <2>1, <2>5, <2>8, <3>1 DEF FilledTo, Entry
    <3> QED
      BY <1>4, <3>1, <3>2 DEF Filled
  <2>10. SlotRight'
    <3>1. NextSlot' = NextSlot /\ NextSlot \in Entry /\ Ring[TailAt] \in Entry
      BY <1>2, <1>8, RingFacts DEF BRest, NextSlot, NewTail, Capacity
    <3> QED
      BY <1>2, <1>4, <1>6, <1>7, <3>1 DEF BRest, IndexRight, SlotRight
  <2>11. OldRight'
    <3>1. \A h \in 1 .. blockIndex - 1 : \A p \in 0 .. Capacity(h) - 1 : headers[h].ring[p] \in Entry
      BY AnyRing DEF BRest, IndexRight, RingsRight
    <3>2. \A h \in 1 .. blockIndex - 1 : \A p \in 0 .. Capacity(h) - 1 :
              Key(headers[h].ring[p])' = Key(headers[h].ring[p])
      BY <1>2, <1>6, <3>1
    <3>3. \A h \in 1 .. blockIndex - 1 : Congruent(h)'
      BY <1>8, <3>2 DEF BRest, IndexRight, OldRight, Congruent
    <3>4. \A h \in 1 .. blockIndex - 1 : \A p \in 0 .. Capacity(h) - 1 : Valid(headers[h].ring[p])'
      BY <3>2 DEF BRest, IndexRight, OldRight
    <3> QED
      BY <1>2, <1>8, <3>3, <3>4 DEF OldRight
  <2> QED
    BY <1>6, <2>2, <2>3, <2>4, <2>7, <2>9, <2>10, <2>11 DEF IndexRight
<1>10. /\ b \notin free /\ \A d \in Entry : Value(d) = b => d = e
       /\ Live(e)
  BY <1>5 DEF BRest, BlocksOwned, Owned
<1>11. BlocksOwned'
  <2>1. Owned'
    BY <1>4, <1>6, <1>7 DEF BRest, BlocksOwned, Owned
  <2>2. NewBlock'
    BY <1>2, <1>4, <1>7 DEF BRest, BlocksOwned, NewBlock
  <2>3. \A d \in AtPc("release")' : d # c => d \in AtPc("release") /\ consumer'[d] = consumer[d]
    BY <1>3 DEF AtPc
  <2>4. producer.pc = "value" => producer.tailBlock # b
    BY <1>5 DEF BRest, BlocksOwned, NewBlock
  <2>5. Released'
    <3>1. ASSUME NEW d \in AtPc("release")'
          PROVE  /\ consumer'[d].block \in Block \ free
                 /\ \A x \in Entry : Value(x)' # consumer'[d].block
                 /\ producer.pc = "value" => producer.tailBlock # consumer'[d].block
                 /\ \A a \in AtPc("release")' \ {d} : consumer'[a].block # consumer'[d].block
      <4>1. \A a \in AtPc("release") : consumer[a].block # b
        BY <1>5 DEF BRest, BlocksOwned, Released
      <4>2. consumer'[c].block = b
        BY <1>1, <1>3, <1>5
      <4>3. CASE d = c
        BY <1>7, <1>10, <2>3, <2>4, <3>1, <4>1, <4>2, <4>3
      <4>4. CASE d # c
        <5>1. d \in AtPc("release") /\ consumer'[d] = consumer[d]
          BY <2>3, <3>1, <4>4
        <5>2. /\ consumer[d].block \in Block \ free
              /\ \A x \in Entry : Value(x) # consumer[d].block
              /\ producer.pc = "value" => producer.tailBlock # consumer[d].block
              /\ \A a \in AtPc("release") \ {d} : consumer[a].block # consumer[d].block
          BY <5>1 DEF BRest, BlocksOwned, Released
        <5>3. \A a \in AtPc("release")' \ {d} : consumer'[a].block # consumer'[d].block
          BY <2>3, <4>1, <4>2, <5>1, <5>2
        <5> QED
          BY <1>7, <5>1, <5>2, <5>3
      <4> QED
        BY <4>3, <4>4
    <3> QED
      BY <1>2, <1>4, <3>1 DEF Released
  <2>6. \A d \in AtPc("clear")' : /\ d \in AtPc("clear") \ {c} /\ consumer'[d] = consumer[d]
    BY <1>1, <1>3 DEF AtPc
  <2>7. Emptied'
    <3>1. ASSUME NEW d \in AtPc("clear")'
          PROVE  /\ consumer'[d].entry \in Entry /\ consumer'[d].block \in Block
                 /\ Value(consumer[d].entry)' = consumer'[d].block
                 /\ dequeued'[consumer'[d].block] = BLOCK_SIZE
                 /\ \A a \in AtPc("clear")' \ {d} : consumer'[a].block # consumer'[d].block
      <4>1. d \in AtPc("clear") \ {c} /\ consumer'[d] = consumer[d]
        BY <2>6, <3>1
      <4>2. /\ consumer[d].entry \in Entry /\ consumer[d].block \in Block
            /\ Value(consumer[d].entry) = consumer[d].block
            /\ dequeued[consumer[d].block] = BLOCK_SIZE
            /\ \A a \in AtPc("clear") \ {d} : consumer[a].block # consumer[d].block
        BY <4>1 DEF BRest, BlocksOwned, Emptied
      <4>3. consumer[d].entry # e
        BY <1>5, <4>1, <4>2
      <4>4. Value(consumer[d].entry)' = Value(consumer[d].entry)
        <5>1. PICK x \in Entry : x = consumer[d].entry
          BY <4>2
        <5>2. consumer'[d].entry = x
          BY <4>1, <5>1
        <5>3. entries'[x].value = entries[x].value
          BY <1>6, <4>3, <5>1
        <5> QED
          BY <5>1, <5>2, <5>3
      <4> QED
        BY <1>4, <2>6, <4>1, <4>2, <4>4
    <3> QED
      BY <1>4, <3>1 DEF Emptied
  <2> QED
    BY <2>1, <2>2, <2>5, <2>7 DEF BlocksOwned
<1>12. Claimant' = Claimant /\ \A d \in Claimant : consumer'[d] = consumer[d]
  BY <1>1, <1>3 DEF Claimant, Claimed
<1>13. Claims'
  <2>1. \A d \in Consumer : LocalField \subseteq DOMAIN consumer'[d]
    BY <1>1, <1>3 DEF BRest, MessagesRight, Claims
  <2> QED
    BY <1>2, <1>12, <2>1 DEF BRest, MessagesRight, Claims
<1>14. /\ Key(e) + BLOCK_SIZE <= headIndex /\ headIndex <= tailIndex /\ Key(e) \in Nat
       /\ \A d \in Claimant : Base(consumer[d].index) # Key(e)
       /\ Base(tailIndex) # Key(e)
       /\ \A i \in headIndex .. tailIndex - 1 : Base(i) # Key(e)
  BY <1>5, <1>10, EmptyBlock DEF BRest, IndexRight, EntriesType, Entry
<1>15. NeededFound'
  <2>1. \A i \in headIndex .. tailIndex - 1 : \E d \in Entry : Live(d)' /\ Key(d)' = Base(i)
    BY <1>6, <1>7, <1>14 DEF BRest, MessagesRight, NeededFound
  <2>2. \A f \in Claimant : \E d \in Entry : Live(d)' /\ Key(d)' = Base(consumer[f].index)
    BY <1>6, <1>7, <1>14 DEF BRest, MessagesRight, NeededFound
  <2>3. Filling => \E d \in Entry : /\ Live(d)' /\ Key(d)' = Base(tailIndex)
                                    /\ Value(d)' = producer.tailBlock
    BY <1>6, <1>7, <1>14 DEF BRest, MessagesRight, NeededFound
  <2>4. Filling' <=> Filling
    BY <1>2 DEF Filling
  <2> QED
    BY <1>2, <1>4, <1>12, <2>1, <2>2, <2>3, <2>4 DEF NeededFound
<1>16. Counting'
  <2>1. \A k : Working(k)' = Working(k) /\ Begun(k)' = Begun(k)
    BY <1>2, <1>12 DEF Working, Begun
  <2> QED
    BY <1>4, <1>6, <1>7, <2>1 DEF BRest, MessagesRight, Counting
<1>17. Stored'
  <2>1. \A i : Present(i)' <=> Present(i)
    BY <1>2, <1>12 DEF Present
  <2>2. \A d \in Entry : Live(d)' =>
            \A i \in Key(d)' .. Key(d)' + BLOCK_SIZE - 1 :
                elements'[Value(d)'][i % BLOCK_SIZE] = IF Present(i)' THEN i ELSE Nil
    BY <1>4, <1>6, <1>7, <2>1 DEF BRest, MessagesRight, Stored
  <2>3. \A j \in Slot : elements[b][j] = Nil
    <3> SUFFICES ASSUME NEW j \in Slot PROVE elements[b][j] = Nil
      OBVIOUS
    <3>1. PICK k \in Nat : Key(e) = Nth(k)
      BY <1>10, KeyOf DEF BRest, BlocksOwned, Owned
    <3>2. PICK i \in Nat : i = Key(e) + j
      BY <1>14 DEF Slot
    <3>3. Base(i) = Key(e) /\ i % BLOCK_SIZE = j
      BY <3>1, <3>2, FirstOf
    <3>4. i \in Key(e) .. Key(e) + BLOCK_SIZE - 1 /\ i < headIndex
      BY <1>14, <3>2, LastInt DEF Slot
    <3>5. ~Present(i)
      BY <1>14, <3>3, <3>4, LastInt DEF Present
    <3> QED
      BY <1>5, <1>10, <3>3, <3>4, <3>5 DEF BRest, MessagesRight, Stored
  <2>4. ASSUME NEW a \in Block, \A d \in Entry : Value(d)' # a
        PROVE  \A j \in Slot : elements'[a][j] = Nil
    <3>1. CASE a = b
      BY <1>4, <2>3, <3>1
    <3>2. CASE a # b
      <4>1. \A d \in Entry : Value(d) # a
        BY <1>5, <1>6, <2>4, <3>2
      <4> QED
        BY <1>4, <4>1 DEF BRest, MessagesRight, Stored
    <3> QED
      BY <3>1, <3>2
  <2> QED
    BY <1>4, <2>2, <2>4 DEF BRest, MessagesRight, Stored
<1>18. Searching'
  <2>1. \A p \in {"headerTail", "tailKey"} :
            \A d \in AtPc(p)' : /\ d \in AtPc(p) /\ consumer'[d] = consumer[d] /\ d \in Claimant
    BY <1>1, <1>3 DEF AtPc, Claimant, Claimed
  <2>2. \A h \in 1 .. blockIndex : \A p \in 0 .. Capacity(h) - 1 : headers[h].ring[p] \in Entry
    BY AnyRing
  <2>3. ASSUME NEW d \in AtPc("headerTail") \cup AtPc("tailKey"), d \in Claimant
        PROVE  \E h \in 1 .. blockIndex :
                  /\ consumer[d].header = h
                  /\ \E p \in 0 .. Capacity(h) - 1 :
                      /\ Live(headers[h].ring[p])'
                      /\ Key(headers[h].ring[p])' = Base(consumer[d].index)
    <3>1. PICK h \in 1 .. blockIndex :
              /\ consumer[d].header = h
              /\ \E p \in 0 .. Capacity(h) - 1 :
                  Live(headers[h].ring[p]) /\ Key(headers[h].ring[p]) = Base(consumer[d].index)
      BY <2>3 DEF BRest, MessagesRight, Searching
    <3>2. PICK p \in 0 .. Capacity(h) - 1 :
              Live(headers[h].ring[p]) /\ Key(headers[h].ring[p]) = Base(consumer[d].index)
      BY <3>1
    <3>3. headers[h].ring[p] \in Entry /\ headers[h].ring[p] # e
      BY <1>14, <2>2, <2>3, <3>2
    <3>4. Live(headers[h].ring[p])' /\ Key(headers[h].ring[p])' = Key(headers[h].ring[p])
      BY <1>2, <1>6, <1>7, <3>2, <3>3
    <3> QED
      BY <3>1, <3>2, <3>4
  <2>4. ASSUME NEW d \in AtPc("tailKey"), d \in Claimant, NEW h, h = consumer[d].header
        PROVE  /\ consumer[d].headerTail \in 0 .. Capacity(h) - 1
               /\ entries'[headers'[h].ring[consumer[d].headerTail]].key # INVALID_BLOCK_BASE
    <3>1. h \in 1 .. blockIndex
      BY <2>4 DEF BRest, MessagesRight, Searching
    <3>2. PICK t \in 0 .. Capacity(h) - 1 : t = consumer[d].headerTail /\ Valid(headers[h].ring[t])
      BY <2>4 DEF BRest, MessagesRight, Searching
    <3>3. headers[h].ring[t] \in Entry
      BY <2>2, <3>1
    <3> QED
      BY <1>2, <1>6, <3>2, <3>3
  <2> QED
    BY <1>2, <1>8, <2>1, <2>3, <2>4 DEF Searching
<1>19. AtEntry'
  <2>1. \A p \in {"value", "move", "empty"} :
            \A d \in AtPc(p)' : /\ d \in AtPc(p) /\ consumer'[d] = consumer[d] /\ d \in Claimant
    BY <1>1, <1>3 DEF AtPc, Claimant, Claimed
  <2>2. ASSUME NEW d \in AtPc("value") \cup AtPc("move") \cup AtPc("empty"), d \in Claimant
        PROVE  /\ consumer[d].entry \in Entry
               /\ entries'[consumer[d].entry] = entries[consumer[d].entry]
    <3>1. PICK x \in Entry : x = consumer[d].entry /\ Key(x) = Base(consumer[d].index)
      BY <2>2 DEF BRest, MessagesRight, AtEntry
    <3>2. x # e
      BY <1>14, <2>2, <3>1
    <3>3. entries'[x] = entries[x]
      BY <1>2, <1>5, <3>2 DEF BRest, IndexRight, EntriesType, Entry
    <3> QED
      BY <3>1, <3>3
  <2> QED
    BY <1>4, <2>1, <2>2 DEF BRest, MessagesRight, AtEntry
<1> QED
  BY <1>2, <1>9, <1>11, <1>13, <1>15, <1>16, <1>17, <1>18, <1>19 DEF BRest, MessagesRight

LEMMA ReleaseRest == ASSUME CInv, BRest, NEW c \in Consumer, Release(c) PROVE BRest'
<1> DEFINE r == At(c, "idle")
<1>1. LocalField \subseteq DOMAIN r /\ r.pc = "idle"
  BY AtLocals
<1>2. /\ StepWith(c, "release", r)
      /\ UNCHANGED <<headIndex, tailIndex, index, elements, dequeued, producer, got>>
      /\ free' = free \cup {consumer[c].block}
  BY DEF Release, Step, counters
<1> HIDE DEF r
<1>3. /\ consumer[c].pc = "release"
      /\ \A d \in Consumer : consumer'[d] = IF d = c THEN r ELSE consumer[d]
  BY <1>1, <1>2, Moves
<1>4. UNCHANGED <<blockIndex, headers, entries>> /\ Entry' = Entry
  BY <1>2 DEF index, Entry, Size, Ring
<1>5. IndexRight'
  BY <1>2, IndexKept DEF BRest
<1>6. PICK b \in Block \ free :
          /\ b = consumer[c].block /\ \A e \in Entry : Value(e) # b
          /\ producer.pc = "value" => producer.tailBlock # b
          /\ \A d \in AtPc("release") \ {c} : consumer[d].block # b
  BY <1>3 DEF BRest, BlocksOwned, Released, AtPc
<1>7. free' = free \cup {b}
  BY <1>2, <1>6
<1>8. \A d \in AtPc("release")' : d \in AtPc("release") \ {c} /\ consumer'[d] = consumer[d]
  BY <1>1, <1>3 DEF AtPc
<1>9. \A d \in AtPc("clear")' : d \in AtPc("clear") /\ consumer'[d] = consumer[d]
  BY <1>1, <1>3 DEF AtPc
<1>10. BlocksOwned'
  <2>1. Owned'
    BY <1>4, <1>6, <1>7 DEF BRest, BlocksOwned, Owned
  <2>2. NewBlock'
    BY <1>2, <1>4, <1>6, <1>7 DEF BRest, BlocksOwned, NewBlock
  <2>3. Released'
    BY <1>2, <1>4, <1>6, <1>7, <1>8 DEF BRest, BlocksOwned, Released
  <2>4. Emptied'
    BY <1>2, <1>4, <1>9 DEF BRest, BlocksOwned, Emptied
  <2> QED
    BY <2>1, <2>2, <2>3, <2>4 DEF BlocksOwned
<1>11. Claimant' = Claimant /\ \A d \in Claimant : consumer'[d] = consumer[d]
  BY <1>1, <1>3 DEF Claimant, Claimed
<1>12. Claims' /\ NeededFound' /\ Counting'
  <2>1. \A d \in Consumer : LocalField \subseteq DOMAIN consumer'[d]
    BY <1>1, <1>3 DEF BRest, MessagesRight, Claims
  <2> QED
    BY <1>2, <1>11, <2>1, WorkKept
<1>13. Stored'
  <2>1. \A x : Present(x)' <=> Present(x)
    BY <1>2, <1>11 DEF Present
  <2> QED
    BY <1>2, <1>4, <2>1 DEF BRest, MessagesRight, Stored
<1>14. Searching' /\ AtEntry'
  BY <1>1, <1>2, <1>3, OthersFound
<1> QED
  BY <1>2, <1>5, <1>10, <1>12, <1>13, <1>14 DEF BRest, MessagesRight

\* The message claimed is there, and nobody else's.
LEMMA ClaimRest == ASSUME CInv, BRest, NEW c \in Consumer, Claim(c) PROVE BRest'
<1> DEFINE r == [At(c, "header") EXCEPT !.index = headIndex]
<1>1. LocalField \subseteq DOMAIN r /\ r.pc = "header" /\ r.index = headIndex
  BY AtLocals DEF LocalField
<1>2. /\ StepWith(c, "claim", r) /\ headIndex' = headIndex + 1
      /\ UNCHANGED <<tailIndex, index, blocks, producer, got>>
  BY DEF Claim
<1> HIDE DEF r
<1>3. /\ consumer[c].pc = "claim"
      /\ \A d \in Consumer : consumer'[d] = IF d = c THEN r ELSE consumer[d]
  BY <1>1, <1>2, Moves
<1>4. /\ UNCHANGED <<blockIndex, headers, entries, elements, dequeued, free>> /\ Entry' = Entry
  BY <1>2 DEF index, blocks, Entry, Size, Ring
<1>5. headIndex < tailIndex /\ headIndex \in Nat /\ tailIndex \in Nat
  BY <1>3, Behind, LastInt DEF AtPc
<1>6. IndexRight'
  BY <1>2, IndexKept DEF BRest
<1>7. \A p \in {"clear", "release"} :
          \A d \in AtPc(p)' : d \in AtPc(p) /\ consumer'[d] = consumer[d]
  BY <1>1, <1>3 DEF AtPc
<1>8. BlocksOwned'
  BY <1>2, <1>4, <1>7, OwnersKept
<1>9. /\ Claimant' = Claimant \cup {c} /\ c \notin Claimant
      /\ \A d \in Claimant : d # c /\ consumer'[d] = consumer[d]
      /\ consumer'[c].index = headIndex /\ consumer'[c].pc = "header"
  BY <1>1, <1>3 DEF Claimant, Claimed
<1>10. \A d \in Claimant : consumer[d].index \in Nat /\ consumer[d].index < headIndex
  BY DEF BRest, MessagesRight, Claims
<1>11. Claims'
  <2>1. \A d \in Consumer : LocalField \subseteq DOMAIN consumer'[d]
    BY <1>1, <1>3 DEF BRest, MessagesRight, Claims
  <2>2. \A d \in Claimant :
            /\ consumer'[d].index \in Nat /\ consumer'[d].index < headIndex'
            /\ consumer'[d].index # consumer'[c].index
    BY <1>2, <1>5, <1>9, <1>10
  <2>3. consumer'[c].index \in Nat /\ consumer'[c].index < headIndex'
    BY <1>2, <1>5, <1>9
  <2>4. \A d \in Claimant : \A f \in Claimant \ {d} : consumer'[f].index # consumer'[d].index
    BY <1>9 DEF BRest, MessagesRight, Claims
  <2> QED
    BY <1>9, <2>1, <2>2, <2>3, <2>4 DEF Claims
<1>12. PICK e \in Entry : Live(e) /\ Key(e) = Base(headIndex)
  <2>1. headIndex \in headIndex .. tailIndex - 1
    BY <1>5
  <2> QED
    BY <2>1 DEF BRest, MessagesRight, NeededFound
<1>13. NeededFound'
  <2>1. \A i \in headIndex' .. tailIndex' - 1 : i \in headIndex .. tailIndex - 1
    BY <1>2, <1>5
  <2>2. Filling' <=> Filling
    BY <1>2 DEF Filling
  <2>3. \A d \in Claimant' : \E f \in Entry : Live(f) /\ Key(f) = Base(consumer'[d].index)
    BY <1>9, <1>12 DEF BRest, MessagesRight, NeededFound
  <2> QED
    BY <1>2, <1>4, <2>1, <2>2, <2>3 DEF BRest, MessagesRight, NeededFound
<1>14. Counting'
  <2>1. ASSUME NEW d \in Entry, Live(d), NEW k, k = Key(d)
        PROVE  dequeued[Value(d)] = Begun(k)' - Cardinality(Working(k)')
    <3>1. dequeued[Value(d)] = Begun(k) - Cardinality(Working(k))
      BY <2>1 DEF BRest, MessagesRight, Counting
    <3>2. k \in Nat
      BY <2>1, InRange
    <3>3. headIndex \in k .. k + BLOCK_SIZE - 1 <=> Base(headIndex) = k
      BY <1>5, <2>1, InRange
    <3>4. IsFiniteSet(Working(k)) /\ Cardinality(Working(k)) \in Nat /\ Begun(k) \in Nat
      BY <3>2, WorkingFinite, BegunBound
    <3>5. CASE Base(headIndex) = k
      <4>1. Working(k)' = Working(k) \cup {c} /\ c \notin Working(k)
        BY <1>9, <3>5 DEF Working
      <4>2. Cardinality(Working(k)') = Cardinality(Working(k)) + 1
        BY <3>4, <4>1, FS_AddElement
      <4>3. Begun(k)' = Begun(k) + 1
        BY <1>2, <1>5, <3>2, <3>3, <3>5 DEF Begun
      <4> QED
        BY <3>1, <3>4, <4>2, <4>3
    <3>6. CASE Base(headIndex) # k
      <4>1. Working(k)' = Working(k)
        BY <1>9, <3>6 DEF Working
      <4>2. Begun(k)' = Begun(k)
        BY <1>2, <1>5, <3>2, <3>3, <3>6 DEF Begun
      <4> QED
        BY <3>1, <4>1, <4>2
    <3> QED
      BY <3>5, <3>6
  <2> QED
    BY <1>4, <2>1 DEF BRest, MessagesRight, Counting
<1>15. Stored'
  <2>1. ASSUME NEW i \in Nat PROVE Present(i)' <=> Present(i)
    BY <1>2, <1>5, <1>9 DEF Present
  <2>2. ASSUME NEW d \in Entry, Live(d), NEW i \in Key(d) .. Key(d) + BLOCK_SIZE - 1
        PROVE  elements[Value(d)][i % BLOCK_SIZE] = IF Present(i)' THEN i ELSE Nil
    <3>1. i \in Nat
      BY <2>2, InRange
    <3> QED
      BY <2>1, <2>2, <3>1 DEF BRest, MessagesRight, Stored
  <2> QED
    BY <1>4, <2>2 DEF BRest, MessagesRight, Stored
<1>16. Searching' /\ AtEntry'
  BY <1>1, <1>2, <1>3, OthersFound
<1> QED
  BY <1>2, <1>6, <1>8, <1>11, <1>13, <1>14, <1>15, <1>16 DEF BRest, MessagesRight

LEMMA DequeueRest == ASSUME CInv, BRest, NEW c \in Consumer, dequeue(c) PROVE BRest'
BY BeforeClaimSteps, ClaimRest, LoadHeaderRest, LoadHeaderTailRest, LoadTailKeyRest, LoadValueRest,
   MoveRest, SetEmptyRest, ClearValueRest, ReleaseRest DEF dequeue, Early

-----------------------------------------------------------------------------
(* Steps of the producer that leave the ring alone.                        *)

LEMMA IndexSame ==
    ASSUME IndexRight, UNCHANGED <<blockIndex, headers>>, EntriesType',
           \A e \in Entry : Key(e)' = Key(e),
           ProducerRight', SlotRight', Last' = Last, producer'.pc # "requisition",
           \A p \in Entry : Announced(p) => Announced(p)',
           \A p \in Entry : Fresh(Ring[p]) => Fresh(Ring[p])' \/ (Last >= 0 /\ p = TailAt)
    PROVE  IndexRight'
<1>1. Size' = Size /\ Ring' = Ring /\ TailAt' = TailAt /\ Entry' = Entry
  BY DEF Size, Ring, TailAt, Entry
<1>2. \A h : Capacity(h)' = Capacity(h)
  BY DEF Capacity
<1>3. \A p : Age(p)' = Age(p)
  BY <1>1 DEF Age
<1>4. \A p \in Entry : Ring[p] \in Entry
  BY RingFacts
<1>5. Bijective'
  BY <1>1 DEF IndexRight, Bijective
<1>6. RingsRight'
  BY <1>1, <1>2 DEF IndexRight, RingsRight, RingRight
<1>7. Ordered'
  <2>1. \A p \in Entry : Valid(Ring[p])' <=> Valid(Ring[p])
    BY <1>1, <1>4
  <2>2. \A p \in Entry : Key(Ring[p])' = Key(Ring[p])
    BY <1>1, <1>4
  <2>3. \A p \in Entry : Valid(Ring[p])' => Key(Ring[p])' = Nth(Last' - Age(p)') \/ Announced(p)'
    BY <1>3, <2>1, <2>2 DEF IndexRight, Ordered, Entry
  <2> QED
    BY <1>1, <2>3 DEF Ordered, Entry
<1>8. Filled'
  <2>1. PICK u \in -1 .. Size - 1 : FilledTo(u)
    BY DEF IndexRight, Filled
  <2>2. \A p \in Entry : Valid(Ring[p])' <=> Valid(Ring[p])
    BY <1>1, <1>4
  <2>3. \A p \in Entry : p > u => Fresh(Ring[p])'
    <3> SUFFICES ASSUME NEW p \in Entry, p > u PROVE Fresh(Ring[p])'
      OBVIOUS
    <3>1. Fresh(Ring[p])
      BY <2>1 DEF FilledTo, Entry
    <3>2. Last >= 0 => TailAt <= u
      BY <2>1, RingFacts DEF FilledTo, Entry
    <3> QED
      BY <3>1, <3>2, RingFacts DEF Entry
  <2>4. \A p \in Entry : IF p <= u THEN Valid(Ring[p])' ELSE Fresh(Ring[p])'
    BY <2>1, <2>2, <2>3, RingFacts DEF FilledTo, Entry
  <2>5. FilledTo(u)'
    BY <1>1, <2>1, <2>4 DEF FilledTo, Entry
  <2> QED
    BY <1>1, <2>1, <2>5 DEF Filled
<1>9. OldRight'
  <2>1. \A h \in 1 .. blockIndex - 1 : \A p \in 0 .. Capacity(h) - 1 : headers[h].ring[p] \in Entry
    BY DEF IndexRight, RingsRight, RingRight, Entry
  <2>2. \A h \in 1 .. blockIndex - 1 : \A p \in 0 .. Capacity(h) - 1 :
            /\ Key(headers[h].ring[p])' = Key(headers[h].ring[p])
            /\ Valid(headers[h].ring[p])' <=> Valid(headers[h].ring[p])
    BY <2>1
  <2> QED
    BY <1>2, <2>2 DEF IndexRight, OldRight, Congruent
<1> QED
  BY <1>5, <1>6, <1>7, <1>8, <1>9 DEF IndexRight

LEMMA KeepsSame == ASSUME UNCHANGED index PROVE Keeps
BY DEF Keeps, index, Entry, Size, Ring

\* Begins an enqueue, or gives it up before anything is changed.
LEMMA StartOrFailRest == ASSUME CInv, BRest, StartEnqueue \/ IndexFails PROVE BRest'
<1>1. /\ UNCHANGED <<counters, index, blocks, consumer, got>>
      /\ UNCHANGED <<headIndex, tailIndex, elements, dequeued, free>>
  BY DEF StartEnqueue, IndexFails, counters, blocks
<1>2. PICK q \in {"idle", "key", "construct"} :
          /\ producer' = [producer EXCEPT !.pc = q] /\ producer.pc \in {"idle", "key"}
          /\ producer.pc = "key" => q = "idle"
          /\ producer.pc = "idle" => /\ tailIndex < MaxTail
                                     /\ q = IF tailIndex % BLOCK_SIZE = 0 THEN "key" ELSE "construct"
  BY DEF StartEnqueue, IndexFails, ProducerAt
<1>3. ProducerRight
  BY DEF BRest, IndexRight
<1>4. producer'.pc = q /\ producer'.slot = producer.slot /\ producer'.tailBlock = producer.tailBlock
  BY <1>2, <1>3 DEF ProducerRight
<1>5. producer.pc = "key" => tailIndex % BLOCK_SIZE = 0
  BY <1>3 DEF ProducerRight, Starting
<1>6. Last' = Last
  <2>1. tailIndex % BLOCK_SIZE # 0 => Num(tailIndex - 1) = Num(tailIndex)
    BY BlockBefore, LastInt
  <2> QED
    BY <1>1, <1>2, <1>4, <1>5, <2>1 DEF Last, Indexed
<1>7. ProducerRight'
  BY <1>1, <1>2, <1>3, <1>4, <1>5 DEF ProducerRight, Starting
<1>8. SlotRight'
  BY <1>4 DEF SlotRight
<1>9. \A p \in Entry : Announced(p) => Announced(p)'
  <2>1. Size' = Size /\ Ring' = Ring /\ TailAt' = TailAt /\ UNCHANGED entries
    BY <1>1 DEF Size, Ring, TailAt, index
  <2>2. \A p : Age(p)' = Age(p)
    BY <2>1 DEF Age
  <2> QED
    BY <1>1, <1>2, <1>4, <1>5, <1>6, <2>1, <2>2 DEF Announced, Indexed, Fresh, SlotFree
<1>10. \A p \in Entry : Fresh(Ring[p]) => Fresh(Ring[p])'
  BY <1>1, <1>2, <1>4 DEF Fresh, SlotFree, index, Ring
<1>11. IndexRight'
  <2>1. EntriesType'
    BY <1>1 DEF BRest, IndexRight, EntriesType, index, Size, Ring
  <2>2. UNCHANGED <<blockIndex, headers>> /\ \A e \in Entry : Key(e)' = Key(e)
    BY <1>1 DEF index
  <2> QED
    BY <1>2, <1>4, <1>6, <1>7, <1>8, <1>9, <1>10, <2>1, <2>2, IndexSame DEF BRest
<1>12. Keeps
  BY <1>1, KeepsSame
<1>13. Filling' <=> Filling
  BY <1>1, <1>2, <1>4, <1>5 DEF Filling
<1>14. BlocksOwned' /\ MessagesRight'
  BY <1>1, <1>2, <1>4, <1>12, <1>13, RingStep
<1> QED
  BY <1>11, <1>14 DEF BRest

\* After a failure the entry has no block: it may be used again.
LEMMA ResetEntryRest == ASSUME CInv, BRest, ResetEntry PROVE BRest'
<1>1. /\ UNCHANGED <<tailIndex, headIndex, blockIndex, headers, elements, dequeued, free, consumer, got>>
      /\ entries' = [entries EXCEPT ![producer.slot].value = none]
      /\ producer.pc = "reset" /\ producer' = [producer EXCEPT !.pc = "idle"]
  BY DEF ResetEntry, ProducerAt, counters, blocks
<1>2. ProducerRight /\ EntriesType /\ SlotRight
  BY DEF BRest, IndexRight
<1>3. producer'.pc = "idle" /\ producer'.slot = producer.slot /\ producer'.tailBlock = producer.tailBlock
  BY <1>1, <1>2 DEF ProducerRight
<1>4. PICK e \in Entry : e = producer.slot /\ e = NextSlot /\ ~Live(e)
  BY <1>1, <1>2, RingFacts DEF SlotRight, BRest
<1>5. \A d \in Entry : /\ d # e => entries'[d] = entries[d]
                       /\ Key(d)' = Key(d) /\ Value(e)' = none
  BY <1>1, <1>2, <1>4 DEF EntriesType, Entry
<1>6. Size' = Size /\ Ring' = Ring /\ TailAt' = TailAt /\ Entry' = Entry
  BY <1>1 DEF Size, Ring, TailAt, Entry
<1>7. EntriesType'
  <2>1. [entries[e] EXCEPT !.value = none] \in [key : Nat, value : Block \cup {none, garbage}]
    BY <1>2 DEF EntriesType, Entry
  <2> QED
    BY <1>1, <1>2, <1>4, <1>6, <2>1 DEF EntriesType, Entry
<1>8. Last' = Last
  BY <1>1, <1>3 DEF Last, Indexed
<1>9. ProducerRight' /\ SlotRight'
  <2>1. ProducerRight'
    BY <1>1, <1>2, <1>3 DEF ProducerRight, Starting
  <2> QED
    BY <1>3, <2>1 DEF SlotRight
<1>10. \A p \in Entry : Announced(p) => Announced(p)'
  <2>1. \A p : Age(p)' = Age(p)
    BY <1>6 DEF Age
  <2>2. \A p \in Entry : Ring[p] \in Entry
    BY RingFacts DEF BRest
  <2>3. \A d \in Entry : ~Live(d) => ~Live(d)'
    BY <1>5
  <2>4. \A d \in Entry : Fresh(d) => Fresh(d)'
    BY <1>1, <1>4, <1>5 DEF Fresh, SlotFree
  <2> QED
    BY <1>1, <1>3, <1>5, <1>6, <1>8, <2>1, <2>2, <2>3, <2>4 DEF Announced, Indexed
<1>11. \A p \in Entry : Fresh(Ring[p]) => Fresh(Ring[p])'
  <2>1. \A d \in Entry : Fresh(d) => SlotFree(d)'
    BY <1>1, <1>4, <1>5 DEF Fresh, SlotFree
  <2> QED
    BY <1>6, <2>1, RingFacts DEF Fresh, BRest
<1>12. IndexRight'
  BY <1>1, <1>3, <1>5, <1>7, <1>8, <1>9, <1>10, <1>11, IndexSame DEF BRest
<1>13. Keeps
  <2>1. \A d \in Entry : /\ d \in Entry' /\ (Live(d) => entries'[d] = entries[d])
                         /\ Valid(d) => Valid(d)'
    BY <1>4, <1>5, <1>6
  <2>2. \A d \in Entry' : Live(d)' => d \in Entry /\ Live(d)
    BY <1>5, <1>6
  <2> QED
    BY <1>1, <2>1, <2>2 DEF Keeps
<1>14. Filling' <=> Filling
  BY <1>1, <1>3 DEF Filling
<1>15. BlocksOwned' /\ MessagesRight'
  BY <1>1, <1>3, <1>13, <1>14, RingStep
<1> QED
  BY <1>12, <1>15 DEF BRest

LEMMA FoundKept ==
    ASSUME BRest, UNCHANGED <<index, consumer>>
    PROVE  Searching' /\ AtEntry'
<1>1. UNCHANGED <<blockIndex, headers, entries, consumer>>
  BY DEF index
<1>2. /\ Entry' = Entry /\ \A h : Capacity(h)' = Capacity(h)
      /\ \A p : AtPc(p)' = AtPc(p)
  BY <1>1 DEF Size, Ring, Entry, Capacity, AtPc
<1>3. Searching'
  BY <1>1, <1>2 DEF BRest, MessagesRight, Searching
<1>4. AtEntry'
  BY <1>1, <1>2 DEF BRest, MessagesRight, AtEntry
<1> QED
  BY <1>3, <1>4

\* The message is stored in its slot of the block being filled.
LEMMA ConstructRest == ASSUME CInv, BRest, Construct PROVE BRest'
<1>1. /\ UNCHANGED <<tailIndex, headIndex, index, dequeued, free, consumer, got>>
      /\ elements' = [elements EXCEPT ![producer.tailBlock][tailIndex % BLOCK_SIZE] = tailIndex]
      /\ producer.pc = "construct" /\ producer' = [producer EXCEPT !.pc = "publish"]
  BY DEF Construct, ProducerAt, counters
<1>2. ProducerRight
  BY DEF BRest, IndexRight
<1>3. /\ producer'.pc = "publish" /\ producer'.tailBlock = producer.tailBlock
      /\ producer'.slot = producer.slot
  BY <1>1, <1>2 DEF ProducerRight
<1>4. UNCHANGED <<blockIndex, headers, entries>> /\ Entry' = Entry /\ Size' = Size
  BY <1>1 DEF index, Entry, Size, Ring
<1>5. IndexRight'
  <2>1. EntriesType'
    BY <1>4 DEF BRest, IndexRight, EntriesType
  <2>2. ProducerRight' /\ SlotRight' /\ Last' = Last
    <3>1. ProducerRight'
      BY <1>1, <1>2, <1>3 DEF ProducerRight, Starting
    <3> QED
      BY <1>1, <1>3, <3>1 DEF SlotRight, Last, Indexed
  <2>3. \A p \in Entry : Announced(p) => Announced(p)'
    BY <1>1 DEF Announced, Indexed
  <2>4. \A p \in Entry : Fresh(Ring[p]) => Fresh(Ring[p])'
    BY <1>1, <1>3, <1>4 DEF Fresh, SlotFree, Ring
  <2> QED
    BY <1>3, <1>4, <2>1, <2>2, <2>3, <2>4, IndexSame DEF BRest
<1>6. PICK e \in Entry : Live(e) /\ Key(e) = Base(tailIndex) /\ Value(e) = producer.tailBlock
  BY <1>1 DEF BRest, MessagesRight, NeededFound, Filling
<1>7. PICK b \in Block, i \in Nat : b = producer.tailBlock /\ i = tailIndex
  BY <1>6, LastInt
<1>8. BlocksOwned'
  <2>1. \A p : AtPc(p)' = AtPc(p)
    BY <1>1 DEF AtPc
  <2> QED
    BY <1>1, <1>3, <1>4, <2>1 DEF BRest, BlocksOwned, Owned, NewBlock, Released, Emptied
<1>9. Claimant' = Claimant
  BY <1>1 DEF Claimant
<1>10. Claims' /\ NeededFound' /\ Counting'
  <2>1. Claims'
    BY <1>1, <1>9 DEF BRest, MessagesRight, Claims
  <2>2. NeededFound'
    BY <1>1, <1>3, <1>4, <1>9 DEF BRest, MessagesRight, NeededFound, Filling
  <2>3. \A k : Working(k)' = Working(k) /\ Begun(k)' = Begun(k)
    BY <1>1, <1>9 DEF Working, Begun
  <2>4. Counting'
    BY <1>1, <1>4, <2>3 DEF BRest, MessagesRight, Counting
  <2> QED
    BY <2>1, <2>2, <2>4
<1>11. Searching' /\ AtEntry'
  BY <1>1, FoundKept
<1>12. Stored'
  <2>1. i % BLOCK_SIZE \in Slot /\ i = Key(e) + (i % BLOCK_SIZE) /\ Key(e) \in Nat
    BY <1>6, <1>7, InRange
  <2>2. elements' = [elements EXCEPT ![b][i % BLOCK_SIZE] = i]
    BY <1>1, <1>7
  <2>3. (elements \in [Block -> [Slot -> Nat \cup {Nil}]])'
    <3>1. [elements[b] EXCEPT ![i % BLOCK_SIZE] = i] \in [Slot -> Nat \cup {Nil}]
      BY DEF BRest, MessagesRight, Stored
    <3> QED
      BY <2>2, <3>1 DEF BRest, MessagesRight, Stored
  <2>4. \A a \in Block : \A j \in Slot :
            elements'[a][j] = IF a = b /\ j = i % BLOCK_SIZE THEN i ELSE elements[a][j]
    BY <2>1, <2>2 DEF BRest, MessagesRight, Stored
  <2>5. \A x \in Nat : Present(x)' <=> Present(x) \/ x = i
    BY <1>1, <1>3, <1>7, <1>9 DEF Present
  <2>6. ASSUME NEW d \in Entry, Live(d), NEW x \in Key(d) .. Key(d) + BLOCK_SIZE - 1
        PROVE  elements'[Value(d)][x % BLOCK_SIZE] = IF Present(x)' THEN x ELSE Nil
    <3>1. Key(d) \in Nat
      BY <2>6, InRange
    <3>2. x \in Nat /\ Base(x) = Key(d) /\ x = Key(d) + (x % BLOCK_SIZE) /\ x % BLOCK_SIZE \in Slot
      BY <2>6, <3>1, InRange
    <3>3. elements[Value(d)][x % BLOCK_SIZE] = IF Present(x) THEN x ELSE Nil
      BY <2>6 DEF BRest, MessagesRight, Stored
    <3>4. x = i <=> Value(d) = b /\ x % BLOCK_SIZE = i % BLOCK_SIZE
      <4>1. CASE d = e
        BY <1>6, <1>7, <2>1, <3>2, <4>1
      <4>2. CASE d # e
        BY <1>6, <1>7, <2>6, <3>2, <4>2, UniqueKey DEF BRest, BlocksOwned, Owned
      <4> QED
        BY <4>1, <4>2
    <3> QED
      BY <2>4, <2>5, <2>6, <3>2, <3>3, <3>4
  <2>7. \A a \in Block : (\A d \in Entry : Value(d) # a) => \A j \in Slot : elements'[a][j] = Nil
    <3>1. \A a \in Block : (\A d \in Entry : Value(d) # a) => a # b
      BY <1>6, <1>7
    <3> QED
      BY <2>4, <3>1 DEF BRest, MessagesRight, Stored
  <2> QED
    BY <1>4, <2>3, <2>6, <2>7 DEF Stored
<1>13. (got \in [Consumer -> Nat \cup {Nil}])'
  BY <1>1 DEF BRest, MessagesRight
<1> QED
  BY <1>5, <1>8, <1>10, <1>11, <1>12, <1>13 DEF BRest, MessagesRight

\* The message is there for all to see; its block was found before.
LEMMA PublishRest == ASSUME CInv, BRest, Publish PROVE BRest'
<1>1. /\ UNCHANGED <<headIndex, index, elements, dequeued, free, consumer, got>>
      /\ tailIndex' = tailIndex + 1
      /\ producer.pc = "publish" /\ producer' = [producer EXCEPT !.pc = "idle"]
  BY DEF Publish, ProducerAt, blocks
<1>2. ProducerRight
  BY DEF BRest, IndexRight
<1>3. /\ producer'.pc = "idle" /\ producer'.tailBlock = producer.tailBlock
      /\ producer'.slot = producer.slot
  BY <1>1, <1>2 DEF ProducerRight
<1>4. UNCHANGED <<blockIndex, headers, entries>> /\ Entry' = Entry /\ Size' = Size
  BY <1>1 DEF index, Entry, Size, Ring
<1>5. tailIndex \in Nat /\ headIndex \in Nat /\ headIndex <= tailIndex /\ tailIndex' - 1 = tailIndex
  BY <1>1, LastInt, Behind DEF HeadBehindTail
<1>6. IndexRight'
  <2>1. EntriesType'
    BY <1>4 DEF BRest, IndexRight, EntriesType
  <2>2. ProducerRight' /\ SlotRight' /\ Last' = Last
    <3>1. ProducerRight'
      BY <1>1, <1>2, <1>3 DEF ProducerRight, Starting
    <3> QED
      BY <1>1, <1>3, <1>5, <3>1 DEF SlotRight, Last, Indexed
  <2>3. \A p \in Entry : Announced(p) => Announced(p)'
    BY <1>1 DEF Announced, Indexed
  <2>4. \A p \in Entry : Fresh(Ring[p]) => Fresh(Ring[p])'
    BY <1>1, <1>3, <1>4 DEF Fresh, SlotFree, Ring
  <2> QED
    BY <1>3, <1>4, <2>1, <2>2, <2>3, <2>4, IndexSame DEF BRest
<1>7. PICK e \in Entry : Live(e) /\ Key(e) = Base(tailIndex) /\ Value(e) = producer.tailBlock
  BY <1>1 DEF BRest, MessagesRight, NeededFound, Filling
<1>8. BlocksOwned'
  <2>1. \A p : AtPc(p)' = AtPc(p)
    BY <1>1 DEF AtPc
  <2> QED
    BY <1>1, <1>3, <1>4, <2>1 DEF BRest, BlocksOwned, Owned, NewBlock, Released, Emptied
<1>9. Claimant' = Claimant
  BY <1>1 DEF Claimant
<1>10. Claims' /\ Counting'
  <2>1. Claims'
    BY <1>1, <1>9 DEF BRest, MessagesRight, Claims
  <2>2. \A k : Working(k)' = Working(k) /\ Begun(k)' = Begun(k)
    BY <1>1, <1>9 DEF Working, Begun
  <2>3. Counting'
    BY <1>1, <1>4, <2>2 DEF BRest, MessagesRight, Counting
  <2> QED
    BY <2>1, <2>3
<1>11. NeededFound'
  <2>1. \A i \in headIndex .. tailIndex : \E d \in Entry : Live(d) /\ Key(d) = Base(i)
    BY <1>5, <1>7 DEF BRest, MessagesRight, NeededFound
  <2>2. \A c \in Claimant : \E d \in Entry : Live(d) /\ Key(d) = Base(consumer[c].index)
    BY DEF BRest, MessagesRight, NeededFound
  <2>3. Filling' => Base(tailIndex') = Base(tailIndex)
    <3>1. (tailIndex + 1) % BLOCK_SIZE # 0 => Base(tailIndex + 1) = Base(tailIndex + 1 - 1)
      BY <1>5, BlockBefore
    <3>2. tailIndex + 1 - 1 = tailIndex
      BY <1>5
    <3> QED
      BY <1>1, <1>3, <3>1, <3>2 DEF Filling
  <2>4. headIndex' .. tailIndex' - 1 = headIndex .. tailIndex
    BY <1>1, <1>5
  <2>5. \A i \in headIndex' .. tailIndex' - 1 : \E d \in Entry' : Live(d)' /\ Key(d)' = Base(i)
    BY <1>4, <2>1, <2>4
  <2>6. \A c \in Claimant' : \E d \in Entry' : Live(d)' /\ Key(d)' = Base(consumer'[c].index)
    BY <1>1, <1>4, <1>9, <2>2
  <2>7. Filling' => \E d \in Entry' : /\ Live(d)' /\ Key(d)' = Base(tailIndex')
                                      /\ Value(d)' = producer'.tailBlock
    BY <1>3, <1>4, <1>7, <2>3
  <2> QED
    BY <2>5, <2>6, <2>7 DEF NeededFound
<1>12. Searching' /\ AtEntry'
  BY <1>1, FoundKept
<1>13. Stored'
  <2>1. ASSUME NEW x \in Nat PROVE Present(x)' <=> Present(x)
    BY <1>1, <1>3, <1>5, <1>9 DEF Present
  <2>2. \A d \in Entry : Live(d) => \A x \in Key(d) .. Key(d) + BLOCK_SIZE - 1 : x \in Nat
    BY InRange
  <2>3. \A d \in Entry : Live(d) => \A x \in Key(d) .. Key(d) + BLOCK_SIZE - 1 :
            elements[Value(d)][x % BLOCK_SIZE] = IF Present(x)' THEN x ELSE Nil
    BY <2>1, <2>2 DEF BRest, MessagesRight, Stored
  <2> QED
    BY <1>1, <1>4, <2>3 DEF BRest, MessagesRight, Stored
<1>14. (got \in [Consumer -> Nat \cup {Nil}])'
  BY <1>1 DEF BRest, MessagesRight
<1> QED
  BY <1>6, <1>8, <1>10, <1>11, <1>12, <1>13, <1>14 DEF BRest, MessagesRight

\* The new block is in the index: it is empty, and nobody has begun on its messages.
LEMMA StoreValueRest == ASSUME CInv, BRest, StoreValue PROVE BRest'
<1>1. /\ UNCHANGED <<tailIndex, headIndex, blockIndex, headers, elements, dequeued, free, consumer, got>>
      /\ entries' = [entries EXCEPT ![producer.slot].value = producer.tailBlock]
      /\ producer.pc = "value" /\ producer' = [producer EXCEPT !.pc = "construct"]
  BY DEF StoreValue, ProducerAt, counters, blocks
<1>2. ProducerRight /\ EntriesType /\ SlotRight /\ NewBlock
  BY DEF BRest, IndexRight, BlocksOwned
<1>3. /\ producer'.pc = "construct" /\ producer'.slot = producer.slot
      /\ producer'.tailBlock = producer.tailBlock
  BY <1>1, <1>2 DEF ProducerRight
<1>4. PICK s \in Entry : s = producer.slot /\ s = Ring[TailAt] /\ ~Live(s) /\ Key(s) = tailIndex
  BY <1>1, <1>2, RingFacts DEF SlotRight, BRest
<1>5. PICK b \in Block : /\ b = producer.tailBlock /\ b \notin free /\ dequeued[b] = 0
                         /\ \A e \in Entry : Value(e) # b
  BY <1>1, <1>2 DEF NewBlock
<1>6. \A d \in Entry : /\ d # s => entries'[d] = entries[d]
                       /\ Key(d)' = Key(d) /\ Value(s)' = b
  BY <1>1, <1>2, <1>4, <1>5 DEF EntriesType, Entry
<1>7. Size' = Size /\ Ring' = Ring /\ TailAt' = TailAt /\ Entry' = Entry
  BY <1>1 DEF Size, Ring, TailAt, Entry
<1>8. /\ tailIndex \in Nat /\ headIndex \in Nat /\ headIndex <= tailIndex
      /\ tailIndex % BLOCK_SIZE = 0 /\ tailIndex = Nth(Num(tailIndex)) /\ Base(tailIndex) = tailIndex
      /\ Num(tailIndex) \in Int /\ Num(tailIndex) >= 0
  BY <1>1, <1>2, LastInt, Behind, BlockBefore, BlockOf, NumSign
  DEF HeadBehindTail, ProducerRight, Starting
<1>9. tailIndex # INVALID_BLOCK_BASE
  BY <1>8, FirstsDiffer
<1>10. IndexRight'
  <2>1. EntriesType'
    <3>1. [entries[s] EXCEPT !.value = b] \in [key : Nat, value : Block \cup {none, garbage}]
      BY <1>2 DEF EntriesType, Entry
    <3> QED
      BY <1>1, <1>2, <1>4, <1>5, <1>7, <3>1 DEF EntriesType, Entry
  <2>2. Last' = Last /\ Last >= 0
    BY <1>1, <1>3, <1>8 DEF Last, Indexed
  <2>3. ProducerRight' /\ SlotRight'
    <3>1. ProducerRight'
      BY <1>1, <1>2, <1>3 DEF ProducerRight, Starting
    <3> QED
      BY <1>3, <3>1 DEF SlotRight
  <2>4. \A p \in Entry : Announced(p) => Announced(p)'
    BY <1>1 DEF Announced, Indexed
  <2>5. \A p \in Entry : Fresh(Ring[p]) => Fresh(Ring[p])' \/ (Last >= 0 /\ p = TailAt)
    <3>1. \A p \in Entry : p # TailAt => Ring[p] # s /\ Ring[p] \in Entry
      BY <1>4, RingFacts DEF BRest, IndexRight, Bijective, Entry
    <3>2. \A d \in Entry : d # s /\ Fresh(d) => Fresh(d)'
      BY <1>1, <1>6 DEF Fresh, SlotFree
    <3> QED
      BY <1>7, <2>2, <3>1, <3>2 DEF Fresh
  <2> QED
    BY <1>1, <1>3, <1>6, <2>1, <2>2, <2>3, <2>4, <2>5, IndexSame DEF BRest
<1>11. \A d \in Entry : Live(d) => d # s /\ entries'[d] = entries[d]
  BY <1>4, <1>6
<1>12. \A p : AtPc(p)' = AtPc(p)
  BY <1>1 DEF AtPc
<1>13. BlocksOwned'
  <2>1. Owned'
    <3>1. \A d \in Entry : Live(d)' => Valid(d)' /\ Value(d)' \notin free
      BY <1>4, <1>5, <1>6, <1>9 DEF BRest, BlocksOwned, Owned
    <3>2. ASSUME NEW d \in Entry, NEW e \in Entry, Live(e)', Value(d)' = Value(e)' PROVE d = e
      <4>1. CASE e = s
        BY <1>5, <1>6, <3>2, <4>1
      <4>2. CASE e # s
        <5>1. entries'[e] = entries[e] /\ Live(e)
          BY <1>6, <3>2, <4>2
        <5>2. d # s
          BY <1>5, <1>6, <3>2, <5>1
        <5> QED
          BY <1>6, <3>2, <5>1, <5>2 DEF BRest, BlocksOwned, Owned
      <4> QED
        BY <4>1, <4>2
    <3> QED
      BY <1>1, <1>7, <3>1, <3>2 DEF BRest, BlocksOwned, Owned
  <2>2. NewBlock'
    BY <1>3 DEF NewBlock
  <2>3. Released'
    <3>1. \A c \in AtPc("release") : \A d \in Entry : Value(d)' # consumer[c].block
      BY <1>1, <1>5, <1>6 DEF BRest, BlocksOwned, Released
    <3> QED
      BY <1>1, <1>3, <1>7, <1>12, <3>1 DEF BRest, BlocksOwned, Released
  <2>4. Emptied'
    <3>1. \A c \in AtPc("clear") : Value(consumer[c].entry)' = consumer[c].block
      <4> SUFFICES ASSUME NEW c \in AtPc("clear") PROVE Value(consumer[c].entry)' = consumer[c].block
        OBVIOUS
      <4>1. PICK e \in Entry : e = consumer[c].entry /\ Value(e) = consumer[c].block /\ Live(e)
        BY DEF BRest, BlocksOwned, Emptied
      <4> QED
        BY <1>1, <1>11, <4>1
    <3> QED
      BY <1>1, <1>7, <1>12, <3>1 DEF BRest, BlocksOwned, Emptied
  <2> QED
    BY <2>1, <2>2, <2>3, <2>4 DEF BlocksOwned
<1>14. Claimant' = Claimant
  BY <1>1 DEF Claimant
<1>15. Claims'
  BY <1>1, <1>14 DEF BRest, MessagesRight, Claims
<1>16. NeededFound'
  <2>1. \A k : (\E e \in Entry : Live(e) /\ Key(e) = k) => \E e \in Entry' : Live(e)' /\ Key(e)' = k
    BY <1>7, <1>11
  <2>2. \E e \in Entry' : Live(e)' /\ Key(e)' = Base(tailIndex) /\ Value(e)' = producer.tailBlock
    BY <1>4, <1>5, <1>6, <1>7, <1>8
  <2>3. \A i \in headIndex .. tailIndex - 1 : \E e \in Entry' : Live(e)' /\ Key(e)' = Base(i)
    BY <2>1 DEF BRest, MessagesRight, NeededFound
  <2>4. \A c \in Claimant : \E e \in Entry' : Live(e)' /\ Key(e)' = Base(consumer[c].index)
    BY <2>1 DEF BRest, MessagesRight, NeededFound
  <2> QED
    BY <1>1, <1>3, <1>14, <2>2, <2>3, <2>4 DEF NeededFound
\* Consumers are at messages before this block.
<1>17. ASSUME NEW c \in Claimant, NEW x \in Int, x >= tailIndex
       PROVE  consumer[c].index # x /\ Base(consumer[c].index) # tailIndex
  <2>1. consumer[c].index \in Nat /\ consumer[c].index < tailIndex
    BY <1>8 DEF BRest, MessagesRight, Claims
  <2>2. Base(consumer[c].index) <= consumer[c].index
    BY <2>1, BlockOf DEF Slot
  <2> QED
    BY <1>8, <1>17, <2>1, <2>2, BlockOf
<1>18. Counting'
  <2>1. \A k : Working(k)' = Working(k) /\ Begun(k)' = Begun(k)
    BY <1>1, <1>14 DEF Working, Begun
  <2>2. Begun(tailIndex) = 0
    BY <1>8 DEF Begun
  <2>3. Cardinality(Working(tailIndex)) = 0
    <3>1. Working(tailIndex) = {}
      BY <1>8, <1>17 DEF Working
    <3> QED
      BY <3>1, FS_EmptySet
  <2>4. ASSUME NEW e \in Entry, Live(e)', NEW k, k = Key(e)'
        PROVE  dequeued[Value(e)'] = Begun(k) - Cardinality(Working(k))
    <3>1. CASE e = s
      BY <1>4, <1>5, <1>6, <2>2, <2>3, <2>4, <3>1
    <3>2. CASE e # s
      <4>1. entries'[e] = entries[e] /\ Live(e) /\ k = Key(e)
        BY <1>6, <2>4, <3>2
      <4> QED
        BY <4>1 DEF BRest, MessagesRight, Counting
    <3> QED
      BY <3>1, <3>2
  <2> QED
    BY <1>1, <1>7, <2>1, <2>4 DEF BRest, MessagesRight, Counting
<1>19. \A x : Present(x)' <=> Present(x)
  BY <1>1, <1>3, <1>14 DEF Present
<1>20. Stored'
  <2>1. ASSUME NEW x \in Key(s) .. Key(s) + BLOCK_SIZE - 1
        PROVE  elements[b][x % BLOCK_SIZE] = Nil /\ ~Present(x)
    <3>1. x \in Int /\ x >= tailIndex
      BY <1>4, <1>8
    <3>2. x % BLOCK_SIZE \in Slot
      BY <3>1, BlockOf
    <3>3. ~Present(x)
      BY <1>1, <1>8, <1>17, <3>1 DEF Present
    <3> QED
      BY <1>5, <3>2, <3>3 DEF BRest, MessagesRight, Stored
  <2>2. ASSUME NEW e \in Entry, Live(e)', NEW x \in Key(e)' .. Key(e)' + BLOCK_SIZE - 1
        PROVE  elements[Value(e)'][x % BLOCK_SIZE] = IF Present(x) THEN x ELSE Nil
    <3>1. CASE e = s
      BY <1>6, <2>1, <2>2, <3>1
    <3>2. CASE e # s
      <4>1. entries'[e] = entries[e] /\ Live(e)
        BY <1>6, <2>2, <3>2
      <4> QED
        BY <2>2, <4>1 DEF BRest, MessagesRight, Stored
    <3> QED
      BY <3>1, <3>2
  <2>3. ASSUME NEW a \in Block, \A e \in Entry : Value(e)' # a PROVE \A j \in Slot : elements[a][j] = Nil
    <3>1. \A e \in Entry : Value(e) # a
      BY <1>4, <1>6, <2>3
    <3> QED
      BY <3>1 DEF BRest, MessagesRight, Stored
  <2> QED
    BY <1>1, <1>7, <1>19, <2>2, <2>3 DEF BRest, MessagesRight, Stored
<1>21. Searching'
  <2>1. \A h \in 1 .. blockIndex : \A p \in 0 .. Capacity(h) - 1 : headers[h].ring[p] \in Entry
    BY DEF BRest, IndexRight, RingsRight, RingRight, Entry
  <2>2. \A h : Capacity(h)' = Capacity(h)
    BY <1>1 DEF Capacity
  <2>3. \A d \in AtPc("headerTail") \cup AtPc("tailKey") : \E h \in 1 .. blockIndex :
          /\ consumer[d].header = h
          /\ \E p \in 0 .. Capacity(h) - 1 :
                /\ Live(headers[h].ring[p])'
                /\ Key(headers[h].ring[p])' = Base(consumer[d].index)
    <3> SUFFICES ASSUME NEW d \in AtPc("headerTail") \cup AtPc("tailKey")
                 PROVE  \E h \in 1 .. blockIndex :
          /\ consumer[d].header = h
          /\ \E p \in 0 .. Capacity(h) - 1 :
                /\ Live(headers[h].ring[p])'
                /\ Key(headers[h].ring[p])' = Base(consumer[d].index)
      OBVIOUS
    <3>1. PICK h \in 1 .. blockIndex : consumer[d].header = h /\ \E p \in 0 .. Capacity(h) - 1 :
              /\ Live(headers[h].ring[p])
              /\ Key(headers[h].ring[p]) = Base(consumer[d].index)
      BY DEF BRest, MessagesRight, Searching
    <3>2. PICK p \in 0 .. Capacity(h) - 1 :
              /\ Live(headers[h].ring[p])
              /\ Key(headers[h].ring[p]) = Base(consumer[d].index)
      BY <3>1
    <3>3. PICK e \in Entry : e = headers[h].ring[p] /\ Live(e) /\ Key(e) = Base(consumer[d].index)
      BY <2>1, <3>2
    <3>4. Live(e)' /\ Key(e)' = Base(consumer[d].index) /\ e = headers'[h].ring[p]
      BY <1>1, <1>11, <3>3
    <3> QED
      BY <3>1, <3>4
  <2>4. \A d \in AtPc("tailKey") : \A h \in {consumer[d].header} :
          /\ consumer[d].headerTail \in 0 .. Capacity(h) - 1
          /\ Valid(headers[h].ring[consumer[d].headerTail])'
    <3> SUFFICES ASSUME NEW d \in AtPc("tailKey"), NEW h, h = consumer[d].header
                 PROVE  /\ consumer[d].headerTail \in 0 .. Capacity(h) - 1
                        /\ Valid(headers[h].ring[consumer[d].headerTail])'
      OBVIOUS
    <3>1. h \in 1 .. blockIndex
      BY DEF BRest, MessagesRight, Searching
    <3>2. PICK p \in 0 .. Capacity(h) - 1 : consumer[d].headerTail = p /\ Valid(headers[h].ring[p])
      BY DEF BRest, MessagesRight, Searching
    <3> QED
      BY <1>1, <1>6, <2>1, <3>1, <3>2
  <2> QED
    BY <1>1, <1>12, <2>2, <2>3, <2>4 DEF Searching
<1>22. AtEntry'
  <2>1. \A d \in AtPc("value") \cup AtPc("move") \cup AtPc("empty") :
            \A e \in {consumer[d].entry} :
                /\ e \in Entry /\ Live(e) /\ Key(e) = Base(consumer[d].index)
                /\ consumer[d].pc # "value" => Value(e) = consumer[d].block
    BY DEF BRest, MessagesRight, AtEntry
  <2>2. \A d \in AtPc("value") \cup AtPc("move") \cup AtPc("empty") :
            \A e \in {consumer[d].entry} :
                /\ e \in Entry /\ Live(e)' /\ Key(e)' = Base(consumer[d].index)
                /\ consumer[d].pc # "value" => Value(e)' = consumer[d].block
    BY <1>11, <2>1
  <2> QED
    BY <1>1, <1>7, <1>12, <2>2 DEF AtEntry
<1>23. (got \in [Consumer -> Nat \cup {Nil}])'
  BY <1>1 DEF BRest, MessagesRight
<1> QED
  BY <1>10, <1>13, <1>15, <1>16, <1>18, <1>20, <1>21, <1>22, <1>23 DEF BRest, MessagesRight

\* A block of the pool is nobody else's; it starts with nothing counted.
LEMMA RequisitionRest == ASSUME CInv, BRest, Requisition PROVE BRest'
<1>1. /\ UNCHANGED <<tailIndex, headIndex, index, elements, consumer, got>>
      /\ producer.pc = "requisition"
  BY DEF Requisition, counters
<1>2. PICK b \in free : /\ free' = free \ {b} /\ dequeued' = [dequeued EXCEPT ![b] = 0]
                        /\ producer' = [producer EXCEPT !.pc = "value", !.tailBlock = b]
  BY DEF Requisition, reset_empty
<1>3. ProducerRight /\ SlotRight /\ b \in Block
  BY DEF BRest, IndexRight, BlocksOwned, Owned
<1>4. producer'.pc = "value" /\ producer'.tailBlock = b /\ producer'.slot = producer.slot
  BY <1>2, <1>3 DEF ProducerRight
<1>5. UNCHANGED <<blockIndex, headers, entries>> /\ Entry' = Entry /\ Size' = Size
  BY <1>1 DEF index, Entry, Size, Ring
<1>6. tailIndex % BLOCK_SIZE = 0
  BY <1>1, <1>3 DEF ProducerRight, Starting
<1>7. \A e \in Entry : Value(e) # b
  <2>1. \A e \in Entry : Live(e) => Value(e) # b
    BY DEF BRest, BlocksOwned, Owned
  <2> QED
    BY <1>3, <2>1
<1>8. IndexRight'
  <2>1. EntriesType'
    BY <1>5 DEF BRest, IndexRight, EntriesType
  <2>2. Last' = Last
    BY <1>1, <1>4 DEF Last, Indexed
  <2>3. ProducerRight'
    <3>1. [producer EXCEPT !.pc = "value", !.tailBlock = b]
            \in [pc : Starting \cup {"idle", "construct", "publish"},
                 slot : Nat, tailBlock : Block \cup {none}]
      BY <1>3 DEF ProducerRight, Starting
    <3> QED
      BY <1>1, <1>2, <1>3, <1>4, <1>6, <3>1 DEF ProducerRight, Starting
  <2>4. SlotRight'
    <3>1. Ring' = Ring /\ TailAt' = TailAt
      BY <1>5 DEF Ring, TailAt
    <3> QED
      BY <1>1, <1>3, <1>4, <1>5, <3>1 DEF SlotRight
  <2>5. \A p \in Entry : Announced(p) => Announced(p)'
    BY <1>1 DEF Announced, Indexed
  <2>6. \A p \in Entry : Fresh(Ring[p]) => Fresh(Ring[p])'
    BY <1>1, <1>4, <1>5 DEF Fresh, SlotFree, Ring
  <2> QED
    BY <1>4, <1>5, <2>1, <2>2, <2>3, <2>4, <2>5, <2>6, IndexSame DEF BRest
<1>9. \A p : AtPc(p)' = AtPc(p)
  BY <1>1 DEF AtPc
<1>10. /\ dequeued' \in [Block -> 0 .. BLOCK_SIZE] /\ dequeued'[b] = 0
       /\ \A a \in Block : a # b => dequeued'[a] = dequeued[a]
  BY <1>2, <1>3 DEF BRest, MessagesRight, Counting
<1>11. BlocksOwned'
  <2>1. Owned'
    BY <1>2, <1>5 DEF BRest, BlocksOwned, Owned
  <2>2. NewBlock'
    BY <1>2, <1>3, <1>4, <1>5, <1>7, <1>10 DEF NewBlock
  <2>3. Released'
    BY <1>1, <1>2, <1>4, <1>5, <1>9 DEF BRest, BlocksOwned, Released
  <2>4. Emptied'
    <3>1. \A c \in AtPc("clear") : dequeued'[consumer[c].block] = BLOCK_SIZE
      BY <1>7, <1>10 DEF BRest, BlocksOwned, Emptied
    <3> QED
      BY <1>1, <1>5, <1>9, <3>1 DEF BRest, BlocksOwned, Emptied
  <2> QED
    BY <2>1, <2>2, <2>3, <2>4 DEF BlocksOwned
<1>12. Claimant' = Claimant
  BY <1>1 DEF Claimant
<1>13. Claims' /\ NeededFound' /\ Counting'
  <2>1. Claims'
    BY <1>1, <1>12 DEF BRest, MessagesRight, Claims
  <2>2. ~Filling'
    BY <1>1, <1>4, <1>6 DEF Filling
  <2>3. NeededFound'
    BY <1>1, <1>5, <1>12, <2>2 DEF BRest, MessagesRight, NeededFound
  <2>4. \A k : Working(k)' = Working(k) /\ Begun(k)' = Begun(k)
    BY <1>1, <1>12 DEF Working, Begun
  <2>5. \A e \in Entry : Live(e) => dequeued'[Value(e)] = dequeued[Value(e)]
    BY <1>7, <1>10
  <2>6. Counting'
    BY <1>5, <1>10, <2>4, <2>5 DEF BRest, MessagesRight, Counting
  <2> QED
    BY <2>1, <2>3, <2>6
<1>14. Searching' /\ AtEntry'
  BY <1>1, FoundKept
<1>15. Stored'
  <2>1. \A x : Present(x)' <=> Present(x)
    BY <1>1, <1>4, <1>12 DEF Present
  <2> QED
    BY <1>1, <1>5, <2>1 DEF BRest, MessagesRight, Stored
<1>16. (got \in [Consumer -> Nat \cup {Nil}])'
  BY <1>1 DEF BRest, MessagesRight
<1> QED
  BY <1>8, <1>11, <1>13, <1>14, <1>15, <1>16 DEF BRest, MessagesRight

-----------------------------------------------------------------------------
(* Steps of the producer that change the ring.                             *)

\* A block is begun: its number is one more than that of the tail of the ring.
LEMMA NextNumber ==
    ASSUME CInv, tailIndex % BLOCK_SIZE = 0
    PROVE  /\ tailIndex = Nth(Num(tailIndex)) /\ Num(tailIndex) \in Nat
           /\ Num(tailIndex - 1) = Num(tailIndex) - 1
           /\ tailIndex # INVALID_BLOCK_BASE
<1>1. tailIndex \in Nat
  BY LastInt
<1>2. Num(tailIndex) \in Nat
  BY <1>1, BlockOf, NumSign
<1>3. tailIndex = Nth(Num(tailIndex)) /\ Num(tailIndex - 1) = Num(tailIndex) - 1
  BY <1>1, BlockBefore
<1>4. tailIndex # INVALID_BLOCK_BASE
  BY <1>2, <1>3, FirstsDiffer
<1> QED
  BY <1>2, <1>3, <1>4

LEMMA NotLive == ASSUME BRest, NEW e \in Entry, SlotFree(e) PROVE ~Live(e)
BY DEF BRest, BlocksOwned, Owned, SlotFree

\* The key of the next block is stored where that of the oldest one was: in every
\* ring the new one agrees with the position as the old one did.
LEMMA StoreKeyRest == ASSUME CInv, BRest, StoreKey PROVE BRest'
<1>1. /\ UNCHANGED <<tailIndex, headIndex, blockIndex, headers, elements, dequeued, free, consumer, got>>
      /\ SlotFree(NextSlot) /\ entries' = [entries EXCEPT ![NextSlot].key = tailIndex]
      /\ producer.pc = "key" /\ producer' = [producer EXCEPT !.pc = "tail", !.slot = NextSlot]
  BY DEF StoreKey, counters, blocks
<1>2. ProducerRight /\ EntriesType /\ IndexRight
  BY DEF BRest, IndexRight
<1>3. PICK s \in Entry : s = NextSlot /\ s = Ring[NewTail] /\ ~Live(s) /\ SlotFree(s)
  BY <1>1, RingFacts, NotLive DEF BRest
<1>4. producer'.pc = "tail" /\ producer'.slot = s /\ producer'.tailBlock = producer.tailBlock
  BY <1>1, <1>2, <1>3 DEF ProducerRight
<1>5. \A e \in Entry : /\ e # s => entries'[e] = entries[e]
                       /\ Value(e)' = Value(e) /\ Key(s)' = tailIndex
  BY <1>1, <1>2, <1>3 DEF EntriesType, Entry
<1>6. Size' = Size /\ Ring' = Ring /\ TailAt' = TailAt /\ Entry' = Entry
  BY <1>1 DEF Size, Ring, TailAt, Entry
<1>7. \A h : Capacity(h)' = Capacity(h)
  BY <1>1 DEF Capacity
<1>8. /\ tailIndex \in Nat /\ tailIndex % BLOCK_SIZE = 0 /\ Num(tailIndex) \in Nat
      /\ tailIndex = Nth(Num(tailIndex)) /\ tailIndex # INVALID_BLOCK_BASE
      /\ Last = Num(tailIndex) - 1 /\ Last' = Last /\ Last \in Int
  BY <1>1, <1>2, <1>4, LastInt, NextNumber DEF ProducerRight, Starting, Last, Indexed
<1>9. tailIndex = Nth(Last + 1)
  BY <1>8
<1>10. /\ \A p \in Entry : /\ Ring[p] \in Entry /\ (Ring[p] = s <=> p = NewTail)
                           /\ (Age(p) = Size - 1 <=> p = NewTail)
       /\ NewTail \in Entry
  BY <1>2, <1>3, RingFacts, AgeFacts DEF IndexRight, Bijective, Entry
<1>11. \A p : Age(p)' = Age(p)
  BY <1>6 DEF Age
<1>12. ProducerRight'
  <2>1. producer' \in [pc : Starting \cup {"idle", "construct", "publish"},
                       slot : Nat, tailBlock : Block \cup {none}]
    <3>1. s \in Nat
      BY <1>2, RingFacts DEF Entry
    <3>2. [producer EXCEPT !.pc = "tail", !.slot = s]
            \in [pc : Starting \cup {"idle", "construct", "publish"},
                 slot : Nat, tailBlock : Block \cup {none}]
      BY <1>2, <3>1 DEF ProducerRight, Starting
    <3> QED
      BY <1>1, <1>3, <3>2
  <2> QED
    BY <1>1, <1>2, <1>4, <1>8, <2>1 DEF ProducerRight
<1>13. RingsRight'
  BY <1>1, <1>2, <1>6, <1>7 DEF IndexRight, RingsRight, RingRight
<1>14. EntriesType'
  <2>1. [entries[s] EXCEPT !.key = tailIndex] \in [key : Nat, value : Block \cup {none, garbage}]
    BY <1>2, <1>8 DEF EntriesType, Entry
  <2> QED
    BY <1>1, <1>2, <1>3, <1>6, <2>1 DEF EntriesType, Entry
<1>15. Bijective'
  BY <1>2, <1>6 DEF IndexRight, Bijective
<1>16. Ordered'
  <2> SUFFICES ASSUME NEW p \in Entry, Valid(Ring[p])'
               PROVE  Key(Ring[p])' = Nth(Last - Age(p)) \/ Announced(p)'
    BY <1>6, <1>8, <1>11 DEF Ordered, Entry
  <2>1. CASE p = NewTail
    <3>1. Key(Ring[p])' = tailIndex /\ ~Live(Ring[p])'
      BY <1>3, <1>5, <1>6, <2>1
    <3>2. Announced(p)'
      BY <1>1, <1>4, <1>6, <1>8, <1>9, <1>10, <1>11, <2>1, <3>1 DEF Announced, Indexed, Fresh
    <3> QED
      BY <3>2
  <2>2. CASE p # NewTail
    <3>1. Key(Ring[p])' = Key(Ring[p]) /\ Valid(Ring[p])
      BY <1>5, <1>6, <1>10, <2>2
    <3>2. ~Announced(p)
      BY <1>10, <2>2 DEF Announced
    <3> QED
      BY <1>2, <3>1, <3>2 DEF IndexRight, Ordered, Entry
  <2> QED
    BY <2>1, <2>2
<1>17. Filled'
  <2>1. PICK u \in -1 .. Size - 1 : FilledTo(u)
    BY <1>2 DEF IndexRight, Filled
  <2>2. ASSUME NEW p \in Entry, p <= u PROVE Valid(Ring[p])'
    <3>1. Valid(Ring[p])
      BY <2>1, <2>2 DEF FilledTo, Entry
    <3> QED
      BY <1>5, <1>6, <1>8, <1>10, <3>1
  <2>3. ASSUME NEW p \in Entry, ~(p <= u) PROVE Fresh(Ring[p])'
    <3>1. SlotFree(Ring[p])
      BY <1>1, <2>1, <2>3 DEF FilledTo, Entry, Fresh
    <3>2. Ring[p] # s => SlotFree(Ring[p])'
      BY <1>5, <1>6, <1>10, <3>1 DEF SlotFree
    <3> QED
      BY <1>4, <1>6, <3>2 DEF Fresh
  <2>4. FilledTo(u)'
    BY <1>4, <1>6, <1>8, <2>1, <2>2, <2>3 DEF FilledTo, Entry
  <2> QED
    BY <1>6, <2>1, <2>4 DEF Filled
<1>18. SlotRight'
  <2>1. NextSlot' = NextSlot
    BY <1>1, <1>7 DEF NextSlot, NewTail
  <2>2. Key(s)' = tailIndex /\ ~Live(s)'
    BY <1>3, <1>5
  <2> QED
    BY <1>1, <1>3, <1>4, <2>1, <2>2 DEF SlotRight
<1>19. ASSUME NEW e \in Entry, Valid(e)
       PROVE  \E z \in Int : Num(Key(e)') = Num(Key(e)) + Size * z
  <2>0. Size \in Nat \ {0} /\ Num(Key(e)) \in Int
    <3>1. PICK k \in Nat : k = Key(e)
      BY <1>2 DEF EntriesType, Entry
    <3> QED
      BY <1>2, <3>1, RingFacts, BlockOf
  <2>1. CASE e # s
    <3>1. Num(Key(e)') = Num(Key(e)) + Size * 0
      BY <1>5, <2>0, <2>1
    <3> QED
      BY <3>1
  <2>2. CASE e = s
    <3>1. Num(Key(e)') = Num(tailIndex)
      BY <1>5, <2>2
    <3>2. Key(e) = Nth(Last - (Size - 1)) \/ Key(e) = Nth(Last + 1)
      BY <1>2, <1>3, <1>10, <1>19, <2>2 DEF IndexRight, Ordered, Announced, Entry
    <3>3. CASE Key(e) = Nth(Last + 1)
      <4>0. Num(Key(e)) = Last + 1
        BY <1>8, <3>3, FirstsDiffer
      <4>1. Num(Key(e)') = Num(Key(e)) + Size * 0
        BY <1>8, <2>0, <3>1, <4>0
      <4> QED
        BY <4>1
    <3>4. CASE Key(e) = Nth(Last - (Size - 1))
      <4>1. Num(Key(e)) = Last - (Size - 1)
        BY <1>8, <2>0, <3>4, FirstsDiffer
      <4>2. Num(Key(e)') = Num(Key(e)) + Size * 1
        BY <1>8, <2>0, <3>1, <4>1
      <4> QED
        BY <4>2
    <3> QED
      BY <3>2, <3>3, <3>4
  <2> QED
    BY <2>1, <2>2
<1>20. OldRight'
  <2> SUFFICES ASSUME NEW h \in 1 .. blockIndex - 1
               PROVE  (\A p \in 0 .. Capacity(h) - 1 : Valid(headers[h].ring[p]))' /\ Congruent(h)'
    BY <1>1, <1>7 DEF OldRight
  <2>1. /\ h \in 1 .. blockIndex /\ Capacity(h) \in Nat \ {0} /\ Size % Capacity(h) = 0 /\ Size \in Int
        /\ \A p \in 0 .. Capacity(h) - 1 : headers[h].ring[p] \in Entry
    <3>1. h \in 1 .. blockIndex /\ RingRight(h)
      BY <1>2 DEF IndexRight, RingsRight
    <3>2. Size \in Nat \ {0}
      BY <1>2, RingFacts
    <3> QED
      BY <3>1, <3>2 DEF RingRight, Entry
  <2>2. \A p \in 0 .. Capacity(h) - 1 : Valid(headers[h].ring[p])
    BY <1>2 DEF IndexRight, OldRight
  <2>3. \A p \in 0 .. Capacity(h) - 1 : Valid(headers[h].ring[p])'
    BY <1>1, <1>5, <1>8, <2>1, <2>2
  <2>4. ASSUME NEW p \in 0 .. Capacity(h) - 1, NEW q \in 0 .. Capacity(h) - 1
        PROVE  (Num(Key(headers[h].ring[p])') - Num(Key(headers[h].ring[q])') - (p - q)) % Capacity(h) = 0
    <3>1. PICK d \in Entry, e \in Entry : d = headers[h].ring[p] /\ e = headers[h].ring[q]
                                          /\ Valid(d) /\ Valid(e)
      BY <2>1, <2>2
    <3>2. (Num(Key(d)) - Num(Key(e)) - (p - q)) % Capacity(h) = 0
      BY <1>2, <3>1 DEF IndexRight, OldRight, Congruent
    <3>3. PICK z \in Int : Num(Key(d)') = Num(Key(d)) + Size * z
      BY <1>19, <3>1
    <3>4. PICK y \in Int : Num(Key(e)') = Num(Key(e)) + Size * y
      BY <1>19, <3>1
    <3>5. PICK n \in Nat \ {0}, k \in Int : n = Capacity(h) /\ Size = n * k
      <4>1. PICK n \in Nat \ {0}, m \in Int : n = Capacity(h) /\ m = Size /\ (m % n) = 0
        BY <2>1
      <4>2. \E k \in Int : m = n * k
        BY <4>1, Multiples
      <4> QED
        BY <4>1, <4>2
    <3>6. PICK x \in Int, w \in Int : x = Num(Key(d)) /\ w = Num(Key(e))
      <4>1. PICK i \in Nat, j \in Nat : i = Key(d) /\ j = Key(e)
        BY <1>2 DEF EntriesType, Entry
      <4>2. Num(i) \in Int /\ Num(j) \in Int
        BY BlockOf
      <4> QED
        BY <4>1, <4>2
    <3>7. PICK i \in Int : i = x - w - (p - q)
      OBVIOUS
    <3>8. (x + Size * z) - (w + Size * y) - (p - q) = i + n * (k * (z - y))
      BY <3>5, <3>7
    <3>9. (i + n * (k * (z - y))) % n = 0
      <4>1. (i % n) = 0
        BY <3>2, <3>5, <3>6, <3>7
      <4>2. k * (z - y) \in Int
        OBVIOUS
      <4> QED
        BY <4>1, <4>2, Multiples
    <3>10. headers'[h].ring = headers[h].ring
      BY <1>1
    <3> QED
      BY <1>1, <3>1, <3>3, <3>4, <3>5, <3>6, <3>8, <3>9
  <2> QED
    BY <1>1, <1>7, <2>3, <2>4 DEF Congruent
<1>21. IndexRight'
  BY <1>12, <1>13, <1>14, <1>15, <1>16, <1>17, <1>18, <1>20 DEF IndexRight
<1>22. Keeps
  <2>1. \A e \in Entry : /\ e \in Entry' /\ (Live(e) => entries'[e] = entries[e])
                         /\ Valid(e) => Valid(e)'
    BY <1>3, <1>5, <1>6, <1>8
  <2>2. \A e \in Entry' : Live(e)' => e \in Entry /\ Live(e)
    BY <1>5, <1>6
  <2> QED
    BY <1>1, <2>1, <2>2 DEF Keeps
<1>23. Filling' <=> Filling
  BY <1>1, <1>4, <1>8 DEF Filling
<1>24. BlocksOwned' /\ MessagesRight'
  BY <1>1, <1>4, <1>22, <1>23, RingStep
<1> QED
  BY <1>21, <1>24 DEF BRest

\* The tail of the current ring is moved to place t.
LEMMA TailMoved ==
    ASSUME IndexRight, NEW t \in Entry, UNCHANGED <<blockIndex, entries>>,
           headers' = [headers EXCEPT ![blockIndex].tail = t]
    PROVE  /\ Size' = Size /\ Entry' = Entry /\ Ring' = Ring /\ TailAt' = t
           /\ NextSlot' = Ring[IF t = Size - 1 THEN 0 ELSE t + 1]
           /\ RingsRight' /\ EntriesType' /\ Bijective' /\ OldRight' /\ Keeps
<1>1. /\ blockIndex \in Nat \ {0} /\ headers = [h \in 1 .. blockIndex |-> headers[h]]
      /\ \A h \in 1 .. blockIndex : RingRight(h)
  BY DEF IndexRight, RingsRight
<1>2. \A h \in 1 .. blockIndex : headers[h] = [tail |-> headers[h].tail, ring |-> headers[h].ring]
  BY <1>1 DEF RingRight
<1>3. headers' = [h \in 1 .. blockIndex |->
                    IF h = blockIndex THEN [headers[h] EXCEPT !.tail = t] ELSE headers[h]]
  BY <1>1
<1>4. headers'[blockIndex] = [headers[blockIndex] EXCEPT !.tail = t]
  <2>1. blockIndex \in 1 .. blockIndex
    BY <1>1
  <2> QED
    BY <1>3, <2>1
<1>5. headers'[blockIndex] = [tail |-> t, ring |-> headers[blockIndex].ring]
  BY <1>1, <1>2, <1>4
<1>6. \A h \in 1 .. blockIndex : /\ headers'[h].ring = headers[h].ring
                                 /\ h # blockIndex => headers'[h] = headers[h]
  BY <1>1, <1>3, <1>5
<1>7. Size' = Size /\ Entry' = Entry /\ Ring' = Ring /\ TailAt' = t
  BY <1>1, <1>5, <1>6 DEF Size, Entry, Ring, TailAt
<1>8. \A h \in 1 .. blockIndex : Capacity(h)' = Capacity(h)
  BY <1>6 DEF Capacity
<1>9. RingsRight'
  <2>1. headers' = [h \in 1 .. blockIndex |-> headers'[h]]
    BY <1>1, <1>3
  <2>2. ASSUME NEW h \in 1 .. blockIndex PROVE RingRight(h)'
    <3>1. RingRight(h)
      BY <1>1
    <3>2. CASE h = blockIndex
      <4>1. t \in 0 .. Capacity(h) - 1
        BY <3>2, RingFacts DEF Entry
      <4>2. headers'[h] = [tail |-> t, ring |-> headers[h].ring]
        BY <1>5, <3>2
      <4> QED
        BY <1>7, <1>8, <3>1, <4>1, <4>2 DEF RingRight
    <3>3. CASE h # blockIndex
      BY <1>6, <1>7, <1>8, <3>1, <3>3 DEF RingRight
    <3> QED
      BY <3>2, <3>3
  <2> QED
    BY <1>1, <2>1, <2>2 DEF RingsRight
<1>10. EntriesType' /\ Bijective'
  BY <1>7 DEF IndexRight, EntriesType, Bijective
<1>11. OldRight'
  <2>1. \A h \in 1 .. blockIndex - 1 : h \in 1 .. blockIndex
    BY <1>1
  <2> QED
    BY <1>6, <1>8, <2>1 DEF IndexRight, OldRight, Congruent
<1>12. Keeps
  BY <1>6, <1>7 DEF Keeps
<1>13. NextSlot' = Ring[IF t = Size - 1 THEN 0 ELSE t + 1]
  <2>1. NewTail' = (t + 1) % Size
    BY <1>1, <1>5, <1>8, RingFacts DEF NewTail
  <2>2. (t + 1) % Size = IF t = Size - 1 THEN 0 ELSE t + 1
    BY RingFacts, Around DEF Entry
  <2> QED
    BY <1>1, <1>6, <2>1, <2>2 DEF NextSlot, Ring
<1> QED
  BY <1>7, <1>9, <1>10, <1>11, <1>12, <1>13

\* The ring goes on: every block is one block older.
LEMMA StoreTailRest == ASSUME CInv, BRest, StoreTail PROVE BRest'
<1>1. /\ UNCHANGED <<tailIndex, headIndex, blockIndex, entries, elements, dequeued, free, consumer, got>>
      /\ headers' = [headers EXCEPT ![blockIndex].tail = NewTail]
      /\ producer.pc = "tail" /\ producer' = [producer EXCEPT !.pc = "requisition"]
  BY DEF StoreTail, ProducerAt, counters, blocks
<1>2. ProducerRight /\ IndexRight /\ SlotRight
  BY DEF BRest, IndexRight
<1>3. /\ producer'.pc = "requisition" /\ producer'.slot = producer.slot
      /\ producer'.tailBlock = producer.tailBlock
  BY <1>1, <1>2 DEF ProducerRight
<1>4. /\ Size \in Nat \ {0} /\ TailAt \in Entry /\ NewTail \in Entry
      /\ NewTail = (IF TailAt = Size - 1 THEN 0 ELSE TailAt + 1)
      /\ producer.slot = Ring[NewTail] /\ Key(producer.slot) = tailIndex /\ ~Live(producer.slot)
  BY <1>1, <1>2, RingFacts DEF SlotRight
<1>5. /\ Size' = Size /\ Entry' = Entry /\ Ring' = Ring /\ TailAt' = NewTail
      /\ RingsRight' /\ EntriesType' /\ Bijective' /\ OldRight' /\ Keeps
  BY <1>1, <1>2, <1>4, TailMoved
<1>6. /\ tailIndex \in Nat /\ tailIndex % BLOCK_SIZE = 0 /\ Num(tailIndex) \in Nat
      /\ tailIndex = Nth(Num(tailIndex)) /\ tailIndex # INVALID_BLOCK_BASE
      /\ Last = Num(tailIndex) - 1 /\ Last' = Num(tailIndex) /\ Last \in Int
  BY <1>1, <1>2, <1>3, LastInt, NextNumber DEF ProducerRight, Starting, Last, Indexed
<1>7. \A p \in Entry : /\ Ring[p] \in Entry /\ (Ring[p] = producer.slot <=> p = NewTail)
                       /\ (Age(p) = Size - 1 <=> p = NewTail) /\ Age(p) \in Int
  <2>1. \A p \in Entry : Ring[p] \in Entry /\ (Ring[p] = producer.slot <=> p = NewTail)
    BY <1>2, <1>4, RingFacts DEF IndexRight, Bijective, Entry
  <2>2. \A p \in Entry : (Age(p) = Size - 1 <=> p = NewTail) /\ Age(p) \in Int
    BY <1>2, <1>4, AgeFacts
  <2> QED
    BY <2>1, <2>2
<1>8. \A p \in Entry : Age(p)' = IF p = NewTail THEN 0 ELSE Age(p) + 1
  BY <1>4, <1>5 DEF Age, Entry
<1>9. ProducerRight'
  BY <1>1, <1>2, <1>3, <1>6 DEF ProducerRight, Starting
<1>10. Ordered'
  <2> SUFFICES ASSUME NEW p \in Entry, Valid(Ring[p])
               PROVE  Key(Ring[p]) = Nth(Last' - Age(p)')
    BY <1>1, <1>5 DEF Ordered, Entry
  <2>1. CASE p = NewTail
    BY <1>4, <1>6, <1>8, <2>1
  <2>2. CASE p # NewTail
    <3>1. ~Announced(p)
      BY <1>7, <2>2 DEF Announced
    <3>2. Last' - Age(p)' = Last - Age(p)
      BY <1>6, <1>7, <1>8, <2>2
    <3> QED
      BY <1>2, <3>1, <3>2 DEF IndexRight, Ordered, Entry
  <2> QED
    BY <2>1, <2>2
<1>11. Filled'
  <2>1. PICK u \in -1 .. Size - 1 : FilledTo(u)
    BY <1>2 DEF IndexRight, Filled
  <2>2. \A p \in Entry : p <= u \/ p = NewTail => Valid(Ring[p])
    BY <1>4, <1>6, <2>1 DEF FilledTo, Entry
  <2>3. \A p \in Entry : ~(p <= u) /\ p # NewTail => SlotFree(Ring[p])
    BY <1>7, <2>1 DEF FilledTo, Entry, Fresh
  <2>4. \A e : SlotFree(e) => Fresh(e)'
    BY <1>1 DEF SlotFree, Fresh
  <2>5. (Last < 0 => u = -1 /\ TailAt = Size - 1) /\ (Last >= 0 => u = TailAt \/ u = Size - 1)
    BY <2>1 DEF FilledTo
  <2>6. CASE NewTail <= u
    <3>1. \A p \in Entry : IF p <= u THEN Valid(Ring[p])' ELSE Fresh(Ring[p])'
      BY <1>1, <1>4, <1>5, <2>2, <2>3, <2>4, <2>6 DEF Entry
    <3>2. Last >= 0 /\ (u = NewTail \/ u = Size - 1)
      BY <1>4, <1>6, <2>5, <2>6 DEF Entry
    <3>3. NewTail = 0 => u = Size - 1
      BY <1>4, <2>5, <3>2 DEF Entry
    <3>4. FilledTo(u)'
      BY <1>5, <1>6, <3>1, <3>2, <3>3 DEF FilledTo, Entry
    <3> QED
      BY <1>5, <2>1, <3>4 DEF Filled
  <2>7. CASE ~(NewTail <= u)
    <3>1. NewTail = u + 1
      BY <1>4, <1>6, <2>5, <2>7 DEF Entry
    <3>2. \A p \in Entry : IF p <= NewTail THEN Valid(Ring[p])' ELSE Fresh(Ring[p])'
      BY <1>1, <1>4, <1>5, <2>2, <2>3, <2>4, <3>1 DEF Entry
    <3>3. NewTail = 0 => Last' = 0
      BY <1>4, <1>6, <2>5, <3>1 DEF Entry
    <3>4. PICK n \in Entry : n = NewTail
      BY <1>4
    <3>5. FilledTo(n)'
      BY <1>5, <1>6, <3>2, <3>3, <3>4 DEF FilledTo, Entry
    <3> QED
      BY <1>4, <1>5, <3>4, <3>5 DEF Filled, Entry
  <2> QED
    BY <2>6, <2>7
<1>12. SlotRight'
  BY <1>1, <1>3, <1>4, <1>5 DEF SlotRight
<1>13. IndexRight'
  BY <1>5, <1>9, <1>10, <1>11, <1>12 DEF IndexRight
<1>14. Filling' <=> Filling
  BY <1>1, <1>3 DEF Filling
<1>15. BlocksOwned' /\ MessagesRight'
  BY <1>1, <1>3, <1>5, <1>14, RingStep
<1> QED
  BY <1>13, <1>15 DEF BRest

\* rewind_block_index_tail undoes it: the entry is the next one again, with its key.
LEMMA RequisitionFailsRest == ASSUME CInv, BRest, RequisitionFails PROVE BRest'
<1>1. /\ UNCHANGED <<tailIndex, headIndex, blockIndex, entries, elements, dequeued, free, consumer, got>>
      /\ headers' = [headers EXCEPT ![blockIndex].tail = (@ - 1) % Capacity(blockIndex)]
      /\ producer.pc = "requisition" /\ producer' = [producer EXCEPT !.pc = "reset"]
  BY DEF RequisitionFails, ProducerAt, counters, blocks
<1>2. ProducerRight /\ IndexRight /\ SlotRight
  BY DEF BRest, IndexRight
<1>3. /\ producer'.pc = "reset" /\ producer'.slot = producer.slot
      /\ producer'.tailBlock = producer.tailBlock
  BY <1>1, <1>2 DEF ProducerRight
<1>4. /\ Size \in Nat \ {0} /\ TailAt \in Entry
      /\ producer.slot = Ring[TailAt] /\ Key(producer.slot) = tailIndex /\ ~Live(producer.slot)
  BY <1>1, <1>2, RingFacts DEF SlotRight
<1>5. PICK t \in Entry : t = (IF TailAt = 0 THEN Size - 1 ELSE TailAt - 1)
  BY <1>4 DEF Entry
<1>6. headers' = [headers EXCEPT ![blockIndex].tail = t]
  <2>1. (headers[blockIndex].tail - 1) % Capacity(blockIndex) = t
    <3>1. /\ headers[blockIndex].tail = TailAt /\ Capacity(blockIndex) = Size
          /\ TailAt \in 0 .. Size - 1
      BY <1>2, <1>4, RingFacts DEF Entry, TailAt
    <3>2. (TailAt - 1) % Size = t
      BY <1>4, <1>5, <3>1, Around
    <3> QED
      BY <3>1, <3>2
  <2>2. headers' = [headers EXCEPT ![blockIndex].tail = (headers[blockIndex].tail - 1) % Capacity(blockIndex)]
    BY <1>1
  <2> QED
    BY <2>1, <2>2
<1>7. /\ Size' = Size /\ Entry' = Entry /\ Ring' = Ring /\ TailAt' = t
      /\ NextSlot' = Ring[IF t = Size - 1 THEN 0 ELSE t + 1]
      /\ RingsRight' /\ EntriesType' /\ Bijective' /\ OldRight' /\ Keeps
  BY <1>1, <1>2, <1>6, TailMoved
<1>8. NextSlot' = producer.slot
  BY <1>4, <1>5, <1>7 DEF Entry
<1>9. /\ tailIndex \in Nat /\ tailIndex % BLOCK_SIZE = 0 /\ Num(tailIndex) \in Nat
      /\ tailIndex = Nth(Num(tailIndex)) /\ tailIndex # INVALID_BLOCK_BASE
      /\ Last = Num(tailIndex) /\ Last' = Num(tailIndex) - 1 /\ Last \in Int
  BY <1>1, <1>2, <1>3, LastInt, NextNumber DEF ProducerRight, Starting, Last, Indexed
<1>10. \A p \in Entry : Ring[p] \in Entry /\ (Ring[p] = producer.slot <=> p = TailAt)
  BY <1>2, <1>4, RingFacts DEF IndexRight, Bijective, Entry
<1>11. \A p \in Entry : /\ Age(p) \in 0 .. Size - 1 /\ (Age(p) = 0 <=> p = TailAt)
                        /\ Age(p)' = IF p = TailAt THEN Size - 1 ELSE Age(p) - 1
  BY <1>4, <1>5, <1>7 DEF Age, Entry
<1>12. ProducerRight'
  BY <1>1, <1>2, <1>3, <1>9 DEF ProducerRight, Starting
<1>13. \A p \in Entry : Valid(Ring[p]) => Key(Ring[p]) = Nth(Last - Age(p))
  BY <1>1, <1>2 DEF IndexRight, Ordered, Announced, Indexed, Entry
<1>14. Ordered'
  <2> SUFFICES ASSUME NEW p \in Entry, Valid(Ring[p])
               PROVE  Key(Ring[p]) = Nth(Last' - Age(p)') \/ Announced(p)'
    BY <1>1, <1>7 DEF Ordered, Entry
  <2>1. CASE p = TailAt
    <3>1. Key(Ring[p]) = Nth(Last' + 1) /\ ~Live(Ring[p])
      BY <1>4, <1>9, <2>1
    <3> QED
      BY <1>1, <1>3, <1>4, <1>7, <1>9, <1>11, <2>1, <3>1 DEF Announced, Indexed, Fresh
  <2>2. CASE p # TailAt
    <3>1. Last' - Age(p)' = Last - Age(p)
      BY <1>4, <1>9, <1>11, <2>2
    <3> QED
      BY <1>13, <3>1
  <2> QED
    BY <2>1, <2>2
<1>15. Filled'
  <2>1. PICK u \in -1 .. Size - 1 : FilledTo(u)
    BY <1>2 DEF IndexRight, Filled
  <2>2. /\ u = TailAt \/ u = Size - 1
        /\ TailAt = 0 => Last = 0 \/ u = Size - 1
    BY <1>1, <1>9, <2>1 DEF FilledTo
  <2>3. \A p \in Entry : IF p <= u THEN Valid(Ring[p]) ELSE SlotFree(Ring[p])
    BY <1>1, <2>1 DEF FilledTo, Fresh, Entry
  <2>4. \A p \in Entry : p = TailAt \/ SlotFree(Ring[p]) => Fresh(Ring[p])'
    BY <1>1, <1>3, <1>4, <1>7 DEF Fresh, SlotFree
  <2>5. \A p \in Entry : Valid(Ring[p])' <=> Valid(Ring[p])
    BY <1>1, <1>7
  <2>6. CASE Last = 0
    <3>1. ASSUME NEW p \in Entry, Valid(Ring[p]) PROVE p = TailAt
      <4>1. PICK a \in Int : a = Age(p) /\ a >= 0
        BY <1>4, <1>11
      <4>2. Key(Ring[p]) = Nth(0 - a) /\ 0 - a \in Int
        BY <1>13, <2>6, <3>1, <4>1
      <4>3. Key(Ring[p]) \in Nat
        BY <1>2, <1>10 DEF IndexRight, EntriesType, Entry
      <4>4. 0 - a >= 0
        BY <4>2, <4>3, FirstsDiffer
      <4> QED
        BY <1>11, <4>1, <4>4
    <3>2. TailAt = 0
      <4>1. 0 \in Entry /\ 0 <= u
        BY <1>4, <2>2 DEF Entry
      <4> QED
        BY <2>3, <3>1, <4>1
    <3>3. u = 0
      <4>1. SUFFICES ASSUME u >= 1 PROVE FALSE
        BY <1>4, <2>2, <3>2 DEF Entry
      <4>2. 1 \in Entry
        BY <1>4, <2>1, <4>1 DEF Entry
      <4> QED
        BY <2>3, <3>1, <3>2, <4>1, <4>2
    <3>4. \A p \in Entry : Fresh(Ring[p])'
      BY <2>3, <2>4, <3>2, <3>3 DEF Entry
    <3>5. t = Size - 1 /\ Last' < 0
      BY <1>5, <1>9, <2>6, <3>2
    <3>6. FilledTo(-1)'
      BY <1>3, <1>7, <1>9, <3>4, <3>5 DEF FilledTo, Entry
    <3> QED
      BY <1>4, <1>7, <3>6 DEF Filled
  <2>7. CASE Last # 0 /\ u = Size - 1
    <3>1. \A p \in Entry : Valid(Ring[p])'
      BY <1>4, <2>3, <2>5, <2>7 DEF Entry
    <3>2. FilledTo(u)'
      BY <1>3, <1>7, <1>9, <2>7, <3>1 DEF FilledTo, Entry
    <3> QED
      BY <1>7, <2>1, <3>2 DEF Filled
  <2>8. CASE Last # 0 /\ u # Size - 1
    <3>1. u = TailAt /\ t = TailAt - 1
      BY <1>5, <2>2, <2>8
    <3>2. \A p \in Entry : IF p <= t THEN Valid(Ring[p])' ELSE Fresh(Ring[p])'
      <4>1. \A p \in Entry : p <= t => p <= u
        BY <1>4, <3>1 DEF Entry
      <4>2. \A p \in Entry : ~(p <= t) => p = TailAt \/ ~(p <= u)
        BY <1>4, <3>1 DEF Entry
      <4> QED
        BY <2>3, <2>4, <2>5, <4>1, <4>2
    <3>3. FilledTo(t)'
      BY <1>3, <1>7, <1>9, <2>8, <3>2 DEF FilledTo, Entry
    <3> QED
      BY <1>7, <3>3 DEF Filled, Entry
  <2> QED
    BY <2>6, <2>7, <2>8
<1>16. SlotRight'
  BY <1>1, <1>3, <1>4, <1>8 DEF SlotRight
<1>17. IndexRight'
  BY <1>7, <1>12, <1>14, <1>15, <1>16 DEF IndexRight
<1>18. Filling' <=> Filling
  BY <1>1, <1>3 DEF Filling
<1>19. BlocksOwned' /\ MessagesRight'
  BY <1>1, <1>3, <1>7, <1>18, RingStep
<1> QED
  BY <1>17, <1>19 DEF BRest

\* Appending to a sequence that is known as a function.
LEMMA Appended ==
    ASSUME NEW n \in Nat, NEW f, f = [i \in 1 .. n |-> f[i]], NEW x
    PROVE  LET g == Append(f, x)
           IN  /\ g = [i \in 1 .. n + 1 |-> g[i]]
               /\ \A i \in 1 .. n : g[i] = f[i]
               /\ g[n + 1] = x
<1> DEFINE S == {f[i] : i \in 1 .. n} \cup {x}
<1>1. f \in [1 .. n -> S]
  OBVIOUS
<1>2. f \in Seq(S) /\ x \in S
  BY <1>1, SeqDef
<1> HIDE DEF S
<1>3. Len(f) = n
  BY <1>1, <1>2, LenProperties
<1>4. /\ Append(f, x) \in Seq(S) /\ Len(Append(f, x)) = n + 1
      /\ \A i \in 1 .. n : Append(f, x)[i] = f[i]
      /\ Append(f, x)[n + 1] = x
  BY <1>2, <1>3, AppendProperties
<1>5. Append(f, x) \in [1 .. n + 1 -> S]
  BY <1>4, LenProperties
<1> QED
  BY <1>4, <1>5

\* In the larger ring the old entries come first, oldest first, then the new ones.
LEMMA Grown ==
    ASSUME IndexRight, new_block_index
    PROVE  /\ blockIndex' = blockIndex + 1 /\ headers' = [h \in 1 .. blockIndex + 1 |-> headers'[h]]
           /\ \A h \in 1 .. blockIndex : headers'[h] = headers[h] /\ Capacity(h)' = Capacity(h)
           /\ headers'[blockIndex + 1] = [tail |-> Size - 1, ring |-> GrownRing]
           /\ GrownRing \in [0 .. 2 * Size - 1 -> 0 .. 2 * Size - 1]
           /\ \A i \in Entry : GrownRing[i] =
                  Ring[IF TailAt + 1 + i < Size THEN TailAt + 1 + i ELSE TailAt + 1 + i - Size]
           /\ \A i \in Size .. 2 * Size - 1 : GrownRing[i] = i
           /\ Ring' = GrownRing /\ TailAt' = Size - 1 /\ Size' = 2 * Size /\ Entry' = 0 .. 2 * Size - 1
           /\ \A h : h = blockIndex + 1 => Capacity(h)' = 2 * Size
           /\ entries' = [e \in 0 .. 2 * Size - 1 |-> IF e \in Entry THEN entries[e] ELSE EmptyEntry]
<1>1. /\ blockIndex \in Nat \ {0} /\ headers = [h \in 1 .. blockIndex |-> headers[h]]
      /\ Size \in Nat \ {0} /\ TailAt \in Entry /\ Size = Capacity(blockIndex)
      /\ Ring \in [Entry -> Entry] /\ EntriesType
  BY RingFacts DEF IndexRight, RingsRight
<1>2. PICK n \in Nat \ {0} : n = Size /\ n = Capacity(blockIndex) /\ n = Cardinality(DOMAIN entries)
  BY <1>1 DEF EntriesType, Entry, Size
<1>3. DOMAIN entries = Entry /\ Entry = 0 .. n - 1
  BY <1>1, <1>2 DEF EntriesType, Entry
<1>4. /\ headers' = Append(headers, [tail |-> n - 1, ring |-> GrownRing])
      /\ blockIndex' = blockIndex + 1
      /\ entries' = [e \in 0 .. 2 * n - 1 |-> IF e \in Entry THEN entries[e] ELSE EmptyEntry]
  <2>1. n + n - 1 = 2 * n - 1
    OBVIOUS
  <2> QED
    BY <1>2, <1>3, <2>1 DEF new_block_index
<1>5. GrownRing = [i \in 0 .. 2 * n - 1 |-> IF i < n THEN Ring[(TailAt + 1 + i) % n] ELSE n + i - n]
  BY <1>2 DEF GrownRing, Ring, TailAt
<1>6. \A i \in Entry : (TailAt + 1 + i) % n = IF TailAt + 1 + i < n THEN TailAt + 1 + i
                                              ELSE TailAt + 1 + i - n
  BY <1>1, <1>2, <1>3, Around
<1>7. \A i \in Entry : GrownRing[i] =
          Ring[IF TailAt + 1 + i < n THEN TailAt + 1 + i ELSE TailAt + 1 + i - n]
  BY <1>3, <1>5, <1>6
<1>8. \A i \in n .. 2 * n - 1 : GrownRing[i] = i
  BY <1>5
<1>9. GrownRing \in [0 .. 2 * n - 1 -> 0 .. 2 * n - 1]
  <2>1. \A i \in Entry : GrownRing[i] \in 0 .. 2 * n - 1
    <3> SUFFICES ASSUME NEW i \in Entry PROVE GrownRing[i] \in 0 .. 2 * n - 1
      OBVIOUS
    <3>1. PICK a \in Entry : GrownRing[i] = Ring[a]
      <4>1. (IF TailAt + 1 + i < n THEN TailAt + 1 + i ELSE TailAt + 1 + i - n) \in Entry
        BY <1>1, <1>2, <1>3
      <4> QED
        BY <1>7, <4>1
    <3> QED
      BY <1>1, <1>3, <3>1
  <2>2. \A i \in 0 .. 2 * n - 1 : i \in Entry \/ i \in n .. 2 * n - 1
    BY <1>3
  <2> QED
    BY <1>5, <1>8, <2>1, <2>2
<1>10. /\ headers' = [h \in 1 .. blockIndex + 1 |-> headers'[h]]
       /\ \A h \in 1 .. blockIndex : headers'[h] = headers[h]
       /\ headers'[blockIndex + 1] = [tail |-> n - 1, ring |-> GrownRing]
  BY <1>1, <1>4, Appended
<1>11. PICK g : g = GrownRing
  OBVIOUS
<1>12. Ring' = g /\ TailAt' = n - 1
  <2>1. headers'[blockIndex'] = [tail |-> n - 1, ring |-> g]
    BY <1>4, <1>10, <1>11
  <2>2. headers'[blockIndex'].tail = n - 1 /\ headers'[blockIndex'].ring = g
    BY <2>1
  <2> QED
    BY <2>2 DEF Ring, TailAt
<1>13. Cardinality(DOMAIN g) = 2 * n
  <2>1. DOMAIN g = 0 .. 2 * n - 1
    BY <1>9, <1>11
  <2>2. 2 * n - 1 - 0 + 1 = 2 * n /\ 2 * n - 1 \in Int /\ ~(0 > 2 * n - 1)
    OBVIOUS
  <2> QED
    BY <2>1, <2>2, FS_Interval
<1>14. Size' = 2 * n /\ Entry' = 0 .. 2 * n - 1
  BY <1>12, <1>13 DEF Size, Entry
<1>15. \A h \in 1 .. blockIndex : Capacity(h)' = Capacity(h)
  BY <1>10 DEF Capacity
<1>16. \A h : h = blockIndex + 1 => Capacity(h)' = 2 * n
  BY <1>10, <1>11, <1>13 DEF Capacity
<1> QED
  BY <1>2, <1>4, <1>7, <1>8, <1>9, <1>10, <1>11, <1>12, <1>14, <1>15, <1>16

\* The ring is replaced when all its entries are in use.
LEMMA AllUsed ==
    ASSUME CInv, BRest, producer.pc = "key", ~SlotFree(NextSlot)
    PROVE  Last >= 0 /\ \A p \in Entry : Valid(Ring[p]) /\ Key(Ring[p]) = Nth(Last - Age(p))
<1>1. IndexRight /\ Size \in Nat \ {0} /\ TailAt \in Entry /\ NewTail \in Entry
      /\ NewTail = (IF TailAt = Size - 1 THEN 0 ELSE TailAt + 1) /\ NextSlot = Ring[NewTail]
  BY RingFacts DEF BRest
<1>2. PICK u \in -1 .. Size - 1 : FilledTo(u)
  BY <1>1 DEF IndexRight, Filled
<1>3. NewTail <= u
  <2>1. ~(NewTail <= u) => Fresh(Ring[NewTail])
    BY <1>1, <1>2 DEF FilledTo, Entry
  <2>2. ~Fresh(Ring[NewTail])
    BY <1>1 DEF Fresh
  <2> QED
    BY <2>1, <2>2
<1>4. Last >= 0 /\ u = Size - 1
  <2>1. Last \in Int /\ u \in Int /\ NewTail \in 0 .. Size - 1 /\ TailAt \in 0 .. Size - 1
    BY <1>1, <1>2, LastInt DEF Entry
  <2>2. (Last < 0 => u = -1) /\ (Last >= 0 => u = TailAt \/ u = Size - 1)
    BY <1>2 DEF FilledTo
  <2>3. Last >= 0
    BY <1>3, <2>1, <2>2
  <2> QED
    BY <1>1, <1>3, <2>1, <2>2, <2>3
<1>5. \A p \in Entry : Valid(Ring[p])
  BY <1>1, <1>2, <1>4 DEF FilledTo, Entry
<1>6. \A p \in Entry : ~Announced(p)
  <2>1. \A p \in Entry : Announced(p) => p = NewTail /\ SlotFree(Ring[p])
    BY <1>1, AgeFacts DEF Announced, Fresh
  <2> QED
    BY <1>1, <2>1
<1> QED
  BY <1>1, <1>4, <1>5, <1>6 DEF IndexRight, Ordered, Entry

\* Blocks keep their order in the larger ring, and consumers at the old one theirs.
LEMMA NewIndexRest == ASSUME CInv, BRest, new_block_index PROVE BRest'
<1>1. /\ UNCHANGED <<tailIndex, headIndex, elements, dequeued, free, consumer, got>>
      /\ ~SlotFree(NextSlot) /\ producer.pc = "key" /\ producer' = [producer EXCEPT !.pc = "key"]
  BY DEF new_block_index, ProducerAt, counters, blocks
<1>2. IndexRight /\ ProducerRight /\ EntriesType
  BY DEF BRest, IndexRight
<1>3. producer' = producer
  BY <1>1, <1>2 DEF ProducerRight
<1>4. Last' = Last /\ Last >= 0 /\ Last \in Int
      /\ \A p \in Entry : Valid(Ring[p]) /\ Key(Ring[p]) = Nth(Last - Age(p))
  BY <1>1, <1>3, LastInt, AllUsed DEF Last
<1>5. PICK n \in Nat \ {0}, g \in {GrownRing} :
          /\ n = Size /\ g = GrownRing /\ Entry = 0 .. n - 1 /\ TailAt \in 0 .. n - 1
          /\ Ring \in [0 .. n - 1 -> 0 .. n - 1]
  BY <1>2, RingFacts DEF Entry
<1>6. /\ blockIndex' = blockIndex + 1 /\ headers' = [h \in 1 .. blockIndex + 1 |-> headers'[h]]
      /\ \A h \in 1 .. blockIndex : headers'[h] = headers[h] /\ Capacity(h)' = Capacity(h)
      /\ headers'[blockIndex + 1] = [tail |-> n - 1, ring |-> g]
      /\ g \in [0 .. 2 * n - 1 -> 0 .. 2 * n - 1]
      /\ \A i \in n .. 2 * n - 1 : g[i] = i
      /\ Ring' = g /\ TailAt' = n - 1 /\ Size' = 2 * n /\ Entry' = 0 .. 2 * n - 1
      /\ \A h : h = blockIndex + 1 => Capacity(h)' = 2 * n
      /\ entries' = [e \in 0 .. 2 * n - 1 |-> IF e \in Entry THEN entries[e] ELSE EmptyEntry]
  BY <1>2, <1>5, Grown
\* Where the entry at place i of the larger ring was before.
<1> DEFINE was(i) == IF TailAt + 1 + i < n THEN TailAt + 1 + i ELSE TailAt + 1 + i - n
<1>7. \A i \in 0 .. n - 1 : g[i] = Ring[was(i)] /\ was(i) \in Entry /\ g[i] \in Entry
  <2>1. \A i \in 0 .. n - 1 : g[i] = Ring[was(i)]
    BY <1>2, <1>5, Grown
  <2>2. \A i \in 0 .. n - 1 : was(i) \in Entry
    BY <1>5
  <2> QED
    BY <1>5, <2>1, <2>2
<1>8. \A e \in Entry : e \in Entry' /\ entries'[e] = entries[e]
  BY <1>5, <1>6
<1>9. \A e \in n .. 2 * n - 1 : entries'[e] = EmptyEntry
  BY <1>5, <1>6
<1>10. ProducerRight'
  BY <1>1, <1>2, <1>3 DEF ProducerRight
<1>11. \A i \in 0 .. n - 1 : Age(was(i)) = n - 1 - i
  BY <1>5 DEF Age
<1>12. /\ blockIndex \in Nat \ {0} /\ \A h \in 1 .. blockIndex : RingRight(h)
  BY <1>2 DEF IndexRight, RingsRight
<1>13. RingsRight'
  <2>1. ASSUME NEW h \in 1 .. blockIndex PROVE RingRight(h)'
    <3>1. RingRight(h)
      BY <1>12
    <3>2. PICK m \in Nat \ {0} : m = Capacity(h) /\ (n % m) = 0
      BY <1>5, <3>1 DEF RingRight
    <3>3. (2 * n) % m = 0
      <4>0. \E k \in Int : n = m * k
        <5>1. n \in Int /\ m \in Nat \ {0} /\ (n % m) = 0
          BY <3>2
        <5> HIDE <3>2
        <5> QED
          BY <5>1, Multiples
      <4>1. PICK k \in Int : n = m * k
        BY <4>0
      <4>2. 2 * n = m * (2 * k) /\ 2 * k \in Int
        BY <4>1
      <4>3. (m * (2 * k)) % m = 0
        <5>1. PICK j \in Int : j = 2 * k
          BY <4>2
        <5>2. (m * j) % m = 0
          BY Multiples
        <5> QED
          BY <5>1, <5>2
      <4> QED
        BY <4>2, <4>3
    <3>4. headers[h].ring \in [0 .. m - 1 -> 0 .. 2 * n - 1]
      <4>1. headers[h].ring \in [0 .. m - 1 -> 0 .. n - 1]
        BY <1>5, <3>1, <3>2 DEF RingRight
      <4>2. \A i \in 0 .. n - 1 : i \in 0 .. 2 * n - 1
        OBVIOUS
      <4> QED
        BY <4>1, <4>2
    <3> QED
      BY <1>6, <3>1, <3>2, <3>3, <3>4 DEF RingRight
  <2>2. ASSUME NEW h, h = blockIndex + 1 PROVE RingRight(h)'
    <3>1. /\ headers'[h] = [tail |-> n - 1, ring |-> g] /\ Capacity(h)' = 2 * n
      BY <1>6, <2>2
    <3>2. (2 * n) % (2 * n) = 0
      <4>1. PICK m \in Nat \ {0} : m = 2 * n
        OBVIOUS
      <4>2. m * 1 = m /\ (m * 1) % m = 0
        BY Multiples
      <4> QED
        BY <4>1, <4>2
    <3>3. 2 * n \in Nat \ {0} /\ n - 1 \in 0 .. 2 * n - 1
      OBVIOUS
    <3> QED
      BY <1>6, <3>1, <3>2, <3>3 DEF RingRight
  <2>3. \A h \in 1 .. blockIndex + 1 : h \in 1 .. blockIndex \/ h = blockIndex + 1
    BY <1>12
  <2>4. \A h \in 1 .. blockIndex + 1 : RingRight(h)'
    BY <2>1, <2>2, <2>3
  <2> QED
    BY <1>6, <1>12, <2>4 DEF RingsRight
<1>14. EntriesType'
  <2>1. EmptyEntry \in [key : Nat, value : Block \cup {none, garbage}]
    BY DEF EmptyEntry, INVALID_BLOCK_BASE
  <2>2. \A e \in Entry : entries[e] \in [key : Nat, value : Block \cup {none, garbage}]
    BY <1>2 DEF EntriesType, Entry
  <2> QED
    BY <1>6, <2>1, <2>2 DEF EntriesType
<1>15. Bijective'
  <2>1. \A p, q \in Entry : Ring[p] = Ring[q] => p = q
    BY <1>2 DEF IndexRight, Bijective, Entry
  <2>2. ASSUME NEW p \in 0 .. 2 * n - 1, NEW q \in 0 .. 2 * n - 1, g[p] = g[q] PROVE p = q
    <3>1. CASE p < n /\ q < n
      <4>1. p \in 0 .. n - 1 /\ q \in 0 .. n - 1
        BY <3>1
      <4>2. was(p) = was(q)
        BY <1>7, <2>1, <2>2, <4>1
      <4> QED
        BY <1>5, <4>1, <4>2
    <3>2. CASE p >= n /\ q >= n
      BY <1>6, <2>2, <3>2
    <3>3. CASE p < n /\ q >= n
      <4>1. p \in 0 .. n - 1 /\ q \in n .. 2 * n - 1
        BY <3>3
      <4> QED
        BY <1>5, <1>6, <1>7, <2>2, <4>1
    <3>4. CASE p >= n /\ q < n
      <4>1. q \in 0 .. n - 1 /\ p \in n .. 2 * n - 1
        BY <3>4
      <4> QED
        BY <1>5, <1>6, <1>7, <2>2, <4>1
    <3> QED
      BY <3>1, <3>2, <3>3, <3>4
  <2>3. ASSUME NEW e \in 0 .. 2 * n - 1 PROVE \E p \in 0 .. 2 * n - 1 : g[p] = e
    <3>1. CASE e >= n
      BY <1>6, <3>1
    <3>2. CASE e < n
      <4>1. PICK a \in 0 .. n - 1 : Ring[a] = e
        BY <1>2, <1>5, <3>2 DEF IndexRight, Bijective
      <4>2. PICK i \in 0 .. n - 1 : was(i) = a
        <5>1. CASE a > TailAt
          <6>1. a - TailAt - 1 \in 0 .. n - 1 /\ was(a - TailAt - 1) = a
            BY <1>5, <5>1
          <6> QED
            BY <6>1
        <5>2. CASE a <= TailAt
          <6>1. a - TailAt - 1 + n \in 0 .. n - 1 /\ was(a - TailAt - 1 + n) = a
            BY <1>5, <5>2
          <6> QED
            BY <6>1
        <5> QED
          BY <1>5, <5>1, <5>2
      <4> QED
        BY <1>7, <4>1, <4>2
    <3> QED
      BY <3>1, <3>2
  <2> QED
    BY <1>6, <2>2, <2>3 DEF Bijective
<1>16. \A p \in 0 .. n - 1 : /\ Valid(g[p])' /\ Key(g[p]) = Nth(Last - (n - 1 - p))
                             /\ entries'[g[p]] = entries[g[p]]
  BY <1>4, <1>7, <1>8, <1>11
<1>17. \A p \in n .. 2 * n - 1 : SlotFree(g[p])' /\ ~Valid(g[p])'
  <2> SUFFICES ASSUME NEW p \in n .. 2 * n - 1 PROVE SlotFree(g[p])' /\ ~Valid(g[p])'
    OBVIOUS
  <2>1. g[p] = p
    BY <1>6
  <2>2. entries'[p] = EmptyEntry
    BY <1>9
  <2>3. entries'[g[p]].key = INVALID_BLOCK_BASE
    BY <2>1, <2>2 DEF EmptyEntry
  <2> QED
    BY <2>3 DEF SlotFree
<1>18. \A p \in 0 .. 2 * n - 1 : p \in 0 .. n - 1 \/ p \in n .. 2 * n - 1
  OBVIOUS
<1>19. Ordered'
  <2>1. \A p \in 0 .. n - 1 : Age(p)' = n - 1 - p
    BY <1>6 DEF Age
  <2>2. \A p \in 0 .. n - 1 : Key(g[p])' = Nth(Last' - Age(p)')
    BY <1>4, <1>16, <2>1
  <2> QED
    BY <1>6, <1>17, <1>18, <2>2 DEF Ordered
<1>20. Filled'
  <2>1. \A p \in 0 .. 2 * n - 1 : IF p <= n - 1 THEN Valid(g[p])' ELSE Fresh(g[p])'
    BY <1>16, <1>17 DEF Fresh
  <2>2. PICK u : u = n - 1
    OBVIOUS
  <2>3. Last' \in Int /\ Last' >= 0 /\ producer'.pc = "key"
    BY <1>1, <1>3, <1>4
  <2>4. \A p \in 0 .. Size' - 1 : IF p <= u THEN Valid(Ring[p])' ELSE Fresh(Ring[p])'
    BY <1>6, <2>1, <2>2
  <2>5. u = TailAt' /\ u \in -1 .. Size' - 1
    BY <1>6, <2>2
  <2>6. FilledTo(u)'
    <3>1. ~(Last' < 0) /\ producer'.pc # "requisition"
      BY <2>3
    <3> QED
      BY <2>4, <2>5, <3>1 DEF FilledTo
  <2> QED
    BY <2>5, <2>6 DEF Filled
<1>21. SlotRight'
  BY <1>1, <1>3 DEF SlotRight
<1>22. OldRight'
  <2>1. ASSUME NEW h \in 1 .. blockIndex
        PROVE  (\A p \in 0 .. Capacity(h) - 1 : Valid(headers[h].ring[p]))' /\ Congruent(h)'
    <3>1. \A p \in 0 .. Capacity(h) - 1 : headers[h].ring[p] \in Entry
      BY <1>12 DEF RingRight, Entry
    <3>2. (\A p \in 0 .. Capacity(h) - 1 : Valid(headers[h].ring[p])) /\ Congruent(h)
      <4>1. CASE h = blockIndex
        BY <1>2, <1>4, <4>1, CongruentRing, RingFacts DEF Ring, Entry
      <4>2. CASE h # blockIndex
        <5>1. h \in 1 .. blockIndex - 1
          BY <1>12, <4>2
        <5> QED
          BY <1>2, <5>1 DEF IndexRight, OldRight
      <4> QED
        BY <4>1, <4>2
    <3>3. headers'[h] = headers[h] /\ Capacity(h)' = Capacity(h)
      BY <1>6
    <3>4. \A p \in 0 .. Capacity(h) - 1 : entries'[headers[h].ring[p]] = entries[headers[h].ring[p]]
      BY <1>8, <3>1
    <3> QED
      BY <3>2, <3>3, <3>4 DEF Congruent
  <2>2. \A h \in 1 .. blockIndex' - 1 : h \in 1 .. blockIndex
    BY <1>6, <1>12
  <2> QED
    BY <2>1, <2>2 DEF OldRight
<1>23. IndexRight'
  BY <1>10, <1>13, <1>14, <1>15, <1>19, <1>20, <1>21, <1>22 DEF IndexRight
<1>24. Keeps
  <2>1. \A e \in Entry : /\ e \in Entry' /\ (Live(e) => entries'[e] = entries[e])
                         /\ Valid(e) => Valid(e)'
    BY <1>8
  <2>2. \A e \in Entry' : Live(e)' => e \in Entry /\ Live(e)
    <3>1. \A e \in Entry' : e \in Entry \/ e \in n .. 2 * n - 1
      BY <1>5, <1>6
    <3>2. \A e \in n .. 2 * n - 1 : ~Live(e)'
      BY <1>9 DEF EmptyEntry
    <3> QED
      BY <1>8, <3>1, <3>2
  <2>3. \A h \in 1 .. blockIndex : h \in 1 .. blockIndex' /\ headers'[h].ring = headers[h].ring
    BY <1>6, <1>12
  <2> QED
    BY <2>1, <2>2, <2>3 DEF Keeps
<1>25. Filling' <=> Filling
  BY <1>1, <1>3 DEF Filling
<1>26. BlocksOwned' /\ MessagesRight'
  BY <1>1, <1>3, <1>24, <1>25, RingStep
<1> QED
  BY <1>23, <1>26 DEF BRest

LEMMA EnqueueRest == ASSUME CInv, BRest, enqueue PROVE BRest'
BY StartOrFailRest, StoreKeyRest, NewIndexRest, StoreTailRest, RequisitionRest, RequisitionFailsRest,
   ResetEntryRest, StoreValueRest, ConstructRest, PublishRest DEF enqueue

-----------------------------------------------------------------------------
(* The invariant.                                                          *)

LEMMA RestUnchanged == ASSUME BRest, UNCHANGED vars PROVE BRest'
<1>1. UNCHANGED <<tailIndex, headIndex, index, elements, dequeued, free, producer, consumer, got>>
  BY DEF vars, counters, blocks
<1>2. /\ \A p : AtPc(p)' = AtPc(p)
      /\ Claimant' = Claimant /\ Claimant \subseteq Consumer
  BY <1>1 DEF AtPc, Claimant
<1>3. IndexRight'
  BY <1>1, IndexKept DEF BRest
<1>4. BlocksOwned'
  BY <1>1, <1>2, OwnersKept DEF AtPc
<1>5. Claims' /\ NeededFound' /\ Counting'
  <2>1. \A d \in Consumer : LocalField \subseteq DOMAIN consumer'[d]
    BY <1>1 DEF BRest, MessagesRight, Claims
  <2> QED
    BY <1>1, <1>2, <2>1, WorkKept
<1>6. Searching' /\ AtEntry'
  BY <1>1, FoundKept
<1>7. Stored'
  <2>1. \A x : Present(x)' <=> Present(x)
    BY <1>1, <1>2 DEF Present
  <2>2. Entry' = Entry /\ UNCHANGED entries
    BY <1>1 DEF index, Entry, Size, Ring
  <2> QED
    BY <1>1, <2>1, <2>2 DEF BRest, MessagesRight, Stored
<1>8. (got \in [Consumer -> Nat \cup {Nil}])'
  BY <1>1 DEF BRest, MessagesRight
<1> QED
  BY <1>3, <1>4, <1>5, <1>6, <1>7, <1>8 DEF BRest, MessagesRight

LEMMA BlocksInit == Init => BRest
<1> SUFFICES ASSUME Init PROVE BRest
  OBVIOUS
<1>1. PICK n \in Nat \ {0} : n = IndexSize
  OBVIOUS
<1>2. /\ tailIndex = 0 /\ headIndex = 0 /\ blockIndex = 1 /\ headers = <<FirstHeader>>
      /\ FirstHeader = [tail |-> n - 1, ring |-> [i \in 0 .. n - 1 |-> i]]
      /\ entries = [i \in 0 .. n - 1 |-> EmptyEntry]
      /\ elements = [b \in Block |-> [j \in Slot |-> Nil]] /\ dequeued = [b \in Block |-> 0]
      /\ free = Block /\ producer = [pc |-> "idle", slot |-> 0, tailBlock |-> none]
      /\ consumer = [c \in Consumer |-> Idle] /\ got = [c \in Consumer |-> Nil]
  BY <1>1 DEF Init, FirstHeader, Slot
<1>3. headers[1] = FirstHeader /\ headers = [h \in 1 .. 1 |-> headers[h]]
  BY <1>2
<1>4. Ring = [i \in 0 .. n - 1 |-> i] /\ TailAt = n - 1
  BY <1>2, <1>3 DEF Ring, TailAt
<1>5. Size = n /\ Entry = 0 .. n - 1
  <2>1. Cardinality(0 .. n - 1) = n
    <3>1. n - 1 - 0 + 1 = n /\ ~(0 > n - 1)
      OBVIOUS
    <3> QED
      BY <3>1, FS_Interval
  <2> QED
    BY <1>4, <2>1 DEF Size, Entry
<1>6. Capacity(1) = n
  BY <1>2, <1>3, <1>4, <1>5 DEF Capacity, Size, Ring
<1>7. tailIndex % BLOCK_SIZE = 0
  <2>1. 0 \in 0 .. BLOCK_SIZE - 1 /\ 0 = 0 + BLOCK_SIZE * 0
    OBVIOUS
  <2> QED
    BY <1>2, <2>1, Remainder
<1>8. Last < 0 /\ Last \in Int
  <2>1. Last = Num(-1)
    BY <1>2 DEF Last, Indexed
  <2> QED
    BY <2>1, NumSign, BlockOf
<1>9. /\ \A e \in Entry : Key(e) = INVALID_BLOCK_BASE /\ Value(e) = garbage /\ ~Live(e) /\ SlotFree(e)
      /\ EmptyEntry \in [key : Nat, value : Block \cup {none, garbage}]
  BY <1>2, <1>5 DEF EmptyEntry, INVALID_BLOCK_BASE, SlotFree
<1>10. \A p : p # "idle" => AtPc(p) = {}
  BY <1>2 DEF AtPc, Idle
<1>11. Claimant = {}
  BY <1>2 DEF Claimant, Claimed, Idle
<1>12. IndexRight
  <2>1. ProducerRight
    BY <1>2 DEF ProducerRight, Starting
  <2>2. RingsRight
    <3>1. RingRight(1)
      <4>1. Size % n = 0
        <5>1. n * 1 = n /\ (n * 1) % n = 0
          BY Multiples
        <5> QED
          BY <1>5, <5>1
      <4> QED
        BY <1>2, <1>3, <1>5, <1>6, <4>1 DEF RingRight
    <3> QED
      BY <1>2, <1>3, <3>1 DEF RingsRight
  <2>3. EntriesType
    BY <1>2, <1>5, <1>9 DEF EntriesType
  <2>4. Bijective
    BY <1>4, <1>5 DEF Bijective
  <2>5. \A p \in 0 .. Size - 1 : Ring[p] \in Entry
    BY <1>4, <1>5
  <2>6. Ordered
    BY <1>9, <2>5 DEF Ordered
  <2>7. Filled
    <3>1. FilledTo(-1)
      BY <1>2, <1>4, <1>5, <1>8, <1>9, <2>5 DEF FilledTo, Fresh
    <3> QED
      BY <1>5, <3>1 DEF Filled
  <2>8. SlotRight /\ OldRight
    BY <1>2 DEF SlotRight, OldRight
  <2> QED
    BY <2>1, <2>2, <2>3, <2>4, <2>6, <2>7, <2>8 DEF IndexRight
<1>13. BlocksOwned
  <2>1. Owned /\ NewBlock
    BY <1>2, <1>9 DEF Owned, NewBlock
  <2>2. Released /\ Emptied
    BY <1>10 DEF Released, Emptied
  <2> QED
    BY <2>1, <2>2 DEF BlocksOwned
<1>14. Claims
  BY <1>2, <1>11 DEF Claims, LocalField, Idle
<1>15. NeededFound
  <2>1. ~Filling
    BY <1>2, <1>7 DEF Filling
  <2> QED
    BY <1>2, <1>11, <2>1 DEF NeededFound
<1>16. Counting
  <2>1. dequeued \in [Block -> 0 .. BLOCK_SIZE]
    BY <1>2
  <2>2. \A e \in Entry : ~Live(e)
    BY <1>9
  <2> QED
    BY <2>1, <2>2 DEF Counting
<1>17. Stored
  BY <1>2, <1>9 DEF Stored
<1>18. Searching /\ AtEntry
  BY <1>10 DEF Searching, AtEntry
<1>19. got \in [Consumer -> Nat \cup {Nil}]
  BY <1>2
<1> QED
  BY <1>12, <1>13, <1>14, <1>15, <1>16, <1>17, <1>18, <1>19 DEF BRest, MessagesRight

LEMMA BlocksStep == ASSUME BInv, [Next]_vars PROVE BInv'
<1>1. CInv /\ BRest
  BY DEF BInv, BRest
<1>2. BRest'
  BY <1>1, EnqueueRest, DequeueRest, RestUnchanged DEF Next
<1>3. CInv'
  BY <1>1, CountersStep
<1> QED
  BY <1>2, <1>3 DEF BInv, BRest

\* The invariant holds always: the index, the owners of the blocks and the messages
\* stay right whatever steps the producer and the consumers take in turn.
THEOREM BlocksInvariant == Spec => []BInv
<1>1. Init => BInv
  BY CountersInit, BlocksInit DEF BInv, BRest
<1> QED
  BY <1>1, BlocksStep, PTL DEF Spec

-----------------------------------------------------------------------------
(* What the code presumes, and what it promises.                           *)

LEMMA FoundThere == ASSUME BInv PROVE FoundEntry
BY DEF BInv, MessagesRight, AtEntry, AtPc, FoundEntry

\* The assertions of get_block_index_index_for_index: the entry a consumer found is
\* the one of its index and keeps its block until the consumer is done, whatever the
\* producer stores, rewinds or replaces in the block index meanwhile.
THEOREM FoundEntryCorrect == Spec => []FoundEntry
BY FoundThere, BlocksInvariant, PTL

LEMMA TypesRight == ASSUME BInv PROVE TypeOK
<1>1. {tailIndex, headIndex, dequeueOptimisticCount, dequeueOvercommit} \subseteq Nat
  BY DEF BInv, CInv, CountersNat
<1>2. /\ blockIndex \in Nat \ {0} /\ DOMAIN headers = 1 .. blockIndex
      /\ \A h \in 1 .. blockIndex : RingRight(h)
  BY DEF BInv, IndexRight, RingsRight
<1>3. DOMAIN entries = Entry
      /\ \A e \in Entry : entries[e].value \in Block \cup {none, garbage}
  BY DEF BInv, IndexRight, EntriesType, Entry
<1>4. \A h \in DOMAIN headers :
        /\ headers[h].tail \in DOMAIN headers[h].ring
        /\ \A i \in DOMAIN headers[h].ring : headers[h].ring[i] \in DOMAIN entries
  BY <1>2, <1>3 DEF RingRight, Entry
<1>5. free \subseteq Block
  BY DEF BInv, BlocksOwned, Owned
<1>6. \A b \in Block : dequeued[b] \in 0 .. BLOCK_SIZE
  BY DEF BInv, MessagesRight, Counting
<1>7. got \in [Consumer -> Nat \cup {Nil}]
  BY DEF BInv, MessagesRight
<1>8. blockIndex \in DOMAIN headers
  BY <1>2
<1> QED
  BY <1>1, <1>3, <1>4, <1>5, <1>6, <1>7, <1>8 DEF TypeOK

LEMMA FreeUnused == ASSUME BInv PROVE FreeIsUnused
<1> SUFFICES ASSUME NEW b \in free
             PROVE  /\ \A e \in DOMAIN entries : entries[e].value # b
                    /\ \A c \in Consumer : consumer[c].pc \in {"move", "empty", "clear", "release"} =>
                                               consumer[c].block # b
                    /\ producer.pc \in {"value", "construct", "publish"} => producer.tailBlock # b
                    /\ \A j \in 0 .. BLOCK_SIZE - 1 : elements[b][j] = Nil
  BY DEF FreeIsUnused
<1>1. b \in Block /\ \A e \in Entry : Live(e) => Value(e) # b
  BY DEF BInv, BlocksOwned, Owned
<1>2. DOMAIN entries = Entry /\ \A e \in Entry : Value(e) # b
  BY <1>1 DEF BInv, IndexRight, EntriesType, Entry
<1>3. ASSUME NEW c \in Consumer, consumer[c].pc \in {"move", "empty", "clear", "release"}
      PROVE  consumer[c].block # b
  <2>1. CASE consumer[c].pc \in {"move", "empty"}
    BY <1>2, <2>1 DEF BInv, MessagesRight, AtEntry, AtPc
  <2>2. CASE consumer[c].pc = "clear"
    BY <1>2, <2>2 DEF BInv, BlocksOwned, Emptied, AtPc
  <2>3. CASE consumer[c].pc = "release"
    BY <2>3 DEF BInv, BlocksOwned, Released, AtPc
  <2> QED
    BY <1>3, <2>1, <2>2, <2>3
<1>4. producer.pc = "value" => producer.tailBlock # b
  BY DEF BInv, BlocksOwned, NewBlock
<1>5. producer.pc \in {"construct", "publish"} => producer.tailBlock # b
  BY <1>2 DEF BInv, MessagesRight, NeededFound, Filling
<1>6. \A j \in 0 .. BLOCK_SIZE - 1 : elements[b][j] = Nil
  BY <1>1, <1>2 DEF BInv, MessagesRight, Stored, Slot
<1> QED
  BY <1>2, <1>3, <1>4, <1>5, <1>6

\* A block is found, kept and given back as the code presumes: the pool never has one
\* that the index, the producer or a consumer still uses, or that holds a message.
THEOREM BlocksRightCorrect == Spec => []BlocksRight
<1>1. BInv => BlocksRight
  BY FoundThere, TypesRight, FreeUnused DEF BlocksRight
<1> QED
  BY <1>1, BlocksInvariant, PTL

-----------------------------------------------------------------------------
(* The sub-queue implements Channel.                                       *)

Bearing == {"header", "headerTail", "tailKey", "value", "move"}
Items == [i \in 1 .. tailIndex - headIndex |-> headIndex + i - 1]
Taking == [c \in Consumer |-> IF consumer[c].pc \in Bearing THEN consumer[c].index ELSE Nil]

\* Messages that nobody has taken yet, of a queue that grows or is taken from.
LEMMA ItemsGrow ==
    ASSUME NEW h \in Nat, NEW t \in Nat, h <= t
    PROVE  [i \in 1 .. t + 1 - h |-> h + i - 1] = Append([i \in 1 .. t - h |-> h + i - 1], t)
<1> DEFINE f == [i \in 1 .. t - h |-> h + i - 1]
<1>1. PICK n \in Nat : n = t - h
  OBVIOUS
<1>2. f = [i \in 1 .. n |-> f[i]]
  BY <1>1
<1> DEFINE g == Append(f, t)
<1>3. g = [i \in 1 .. n + 1 |-> g[i]] /\ (\A i \in 1 .. n : g[i] = f[i]) /\ g[n + 1] = t
  <2> HIDE DEF f
  <2> QED
    BY <1>2, Appended
<1>4. \A i \in 1 .. n + 1 : g[i] = h + i - 1
  <2>1. \A i \in 1 .. n : g[i] = h + i - 1
    BY <1>1, <1>3
  <2>2. h + (n + 1) - 1 = t
    BY <1>1
  <2> QED
    BY <1>3, <2>1, <2>2
<1>5. t + 1 - h = n + 1
  BY <1>1
<1> HIDE DEF g
<1>6. g = [i \in 1 .. n + 1 |-> h + i - 1]
  BY <1>3, <1>4
<1> QED
  BY <1>5, <1>6 DEF g

LEMMA ItemsTaken ==
    ASSUME NEW h \in Nat, NEW t \in Nat, h < t
    PROVE  LET s == [i \in 1 .. t - h |-> h + i - 1]
           IN  /\ s # <<>> /\ Head(s) = h
               /\ Tail(s) = [i \in 1 .. t - (h + 1) |-> h + 1 + i - 1]
<1> DEFINE s == [i \in 1 .. t - h |-> h + i - 1]
<1>1. s \in Seq(Int)
  <2>1. t - h \in Nat /\ s \in [1 .. t - h -> Int]
    OBVIOUS
  <2> QED
    BY <2>1, SeqDef
<1>2. Len(s) = t - h
  BY <1>1, LenProperties
<1>3. s # <<>> /\ s[1] = h
  BY <1>2
<1>4. Head(s) = h
  BY <1>1, <1>3, HeadTailProperties
<1>5. /\ Tail(s) \in Seq(Int) /\ Len(Tail(s)) = t - h - 1
      /\ \A i \in 1 .. Len(Tail(s)) : Tail(s)[i] = s[i + 1]
  BY <1>1, <1>2, <1>3, HeadTailProperties
<1>6. \A i \in 1 .. t - (h + 1) : Tail(s)[i] = h + 1 + i - 1
  BY <1>5
<1>7. DOMAIN Tail(s) = 1 .. t - (h + 1) /\ Tail(s) = [i \in DOMAIN Tail(s) |-> Tail(s)[i]]
  BY <1>5, LenProperties
<1> QED
  BY <1>3, <1>4, <1>6, <1>7

\* The step of a consumer changes what it has taken only.
LEMMA TakingStep ==
    ASSUME NEW c \in Consumer, NEW r,
           \A d \in Consumer : consumer'[d] = IF d = c THEN r ELSE consumer[d]
    PROVE  Taking' = [Taking EXCEPT ![c] = IF r.pc \in Bearing THEN r.index ELSE Nil]
BY DEF Taking

LEMMA TakingKept ==
    ASSUME CInv, NEW c \in Consumer, NEW from, NEW r, LocalField \subseteq DOMAIN r,
           StepWith(c, from, r), from \in Bearing <=> r.pc \in Bearing,
           from \in Bearing => r.index = consumer[c].index
    PROVE  Taking' = Taking
<1>1. /\ consumer[c].pc = from
      /\ \A d \in Consumer : consumer'[d] = IF d = c THEN r ELSE consumer[d]
  BY Moves
<1>2. \A d \in Consumer :
          (IF consumer'[d].pc \in Bearing THEN consumer'[d].index ELSE Nil) =
          (IF consumer[d].pc \in Bearing THEN consumer[d].index ELSE Nil)
  BY <1>1
<1> QED
  BY <1>2 DEF Taking

LEMMA OtherStepTaking ==
    ASSUME CInv, BRest, NEW c \in Consumer, dequeue(c), ~Claim(c), ~Move(c)
    PROVE  UNCHANGED <<tailIndex, headIndex, got>> /\ Taking' = Taking
<1>1. \A p : /\ LocalField \subseteq DOMAIN At(c, p) /\ At(c, p).pc = p
             /\ p # "idle" => At(c, p).index = consumer[c].index
  BY AtLocals DEF LocalField
<1>2. CASE Early(c)
  <2>1. PICK from, r : /\ StepWith(c, from, r) /\ LocalField \subseteq DOMAIN r
                       /\ from \notin Beyond /\ r.pc \notin Beyond
    BY <1>2, EarlyStep
  <2> QED
    BY <1>2, <2>1, EarlyStep, TakingKept DEF Beyond, Claimed, Bearing
<1>3. CASE LoadHeader(c)
  <2> DEFINE r == [At(c, "headerTail") EXCEPT !.header = blockIndex]
  <2>1. LocalField \subseteq DOMAIN r /\ r.pc = "headerTail" /\ r.index = consumer[c].index
    BY <1>1 DEF LocalField
  <2>2. StepWith(c, "header", r) /\ UNCHANGED <<tailIndex, headIndex, got>>
    BY <1>3 DEF LoadHeader, counters
  <2> HIDE DEF r
  <2> QED
    BY <2>1, <2>2, TakingKept DEF Bearing
<1>4. CASE LoadHeaderTail(c)
  <2> DEFINE r == [At(c, "tailKey") EXCEPT !.headerTail = headers[consumer[c].header].tail]
  <2>1. LocalField \subseteq DOMAIN r /\ r.pc = "tailKey" /\ r.index = consumer[c].index
    BY <1>1 DEF LocalField
  <2>2. StepWith(c, "headerTail", r) /\ UNCHANGED <<tailIndex, headIndex, got>>
    BY <1>4 DEF LoadHeaderTail, counters
  <2> HIDE DEF r
  <2> QED
    BY <2>1, <2>2, TakingKept DEF Bearing
<1>5. CASE LoadTailKey(c)
  <2>1. PICK e : StepWith(c, "tailKey", [At(c, "value") EXCEPT !.entry = e])
    BY <1>5 DEF LoadTailKey
  <2> DEFINE r == [At(c, "value") EXCEPT !.entry = e]
  <2>2. LocalField \subseteq DOMAIN r /\ r.pc = "value" /\ r.index = consumer[c].index
    BY <1>1 DEF LocalField
  <2>3. StepWith(c, "tailKey", r) /\ UNCHANGED <<tailIndex, headIndex, got>>
    BY <1>5, <2>1 DEF LoadTailKey, counters
  <2> HIDE DEF r
  <2> QED
    BY <2>2, <2>3, TakingKept DEF Bearing
<1>6. CASE LoadValue(c)
  <2> DEFINE r == [At(c, "move") EXCEPT !.block = entries[consumer[c].entry].value]
  <2>1. LocalField \subseteq DOMAIN r /\ r.pc = "move" /\ r.index = consumer[c].index
    BY <1>1 DEF LocalField
  <2>2. StepWith(c, "value", r) /\ UNCHANGED <<tailIndex, headIndex, got>>
    BY <1>6 DEF LoadValue, counters
  <2> HIDE DEF r
  <2> QED
    BY <2>1, <2>2, TakingKept DEF Bearing
<1>7. CASE SetEmpty(c) \/ ClearValue(c) \/ Release(c)
  <2>1. PICK from \in {"empty", "clear", "release"}, to \in {"idle", "clear", "release"} :
            StepWith(c, from, At(c, to))
    BY <1>7 DEF SetEmpty, ClearValue, Release, Step
  <2>2. UNCHANGED <<tailIndex, headIndex, got>>
    BY <1>7 DEF SetEmpty, ClearValue, Release, counters
  <2> QED
    BY <1>1, <2>1, <2>2, TakingKept DEF Bearing
<1> QED
  BY <1>2, <1>3, <1>4, <1>5, <1>6, <1>7 DEF dequeue, Early

LEMMA ChannelStep ==
    ASSUME BInv, [Next]_vars
    PROVE  [Promised!Next]_(Promised!vars)
<1> USE DEF Nil, Promised!Nil
<1>0. /\ Promised!vars = <<Items, Taking, got>>
      /\ (Promised!vars)' = <<Items', Taking', got'>>
  BY DEF Promised!vars, Items, Taking, Bearing
<1>1. /\ CInv /\ BRest /\ tailIndex \in Nat /\ headIndex \in Nat /\ headIndex <= tailIndex
      /\ Taking \in [Consumer -> Int \cup {consumer[c].index : c \in Consumer}]
  BY LastInt, Behind DEF BInv, BRest, HeadBehindTail, Taking
<1>2. UNCHANGED <<tailIndex, headIndex>> => Items' = Items
  BY DEF Items
<1>3. CASE Publish
  <2>1. tailIndex' = tailIndex + 1 /\ UNCHANGED <<headIndex, consumer, got>> /\ producer.pc = "publish"
    BY <1>3 DEF Publish, ProducerAt
  <2>2. tailIndex \in 0 .. MaxTail - 1
    BY <1>1, <2>1 DEF BRest, IndexRight, ProducerRight
  <2>3. Items' = Append(Items, tailIndex)
    BY <1>1, <2>1, ItemsGrow DEF Items
  <2>4. Taking' = Taking
    BY <2>1 DEF Taking
  <2>5. Promised!Enqueue
    BY <2>1, <2>2, <2>3, <2>4 DEF Promised!Enqueue, Items, Taking, Bearing
  <2> QED
    BY <2>5 DEF Promised!Next
<1>4. CASE enqueue /\ ~Publish
  <2>1. UNCHANGED <<tailIndex, headIndex, consumer, got>>
    BY <1>4 DEF enqueue, StartEnqueue, StoreKey, new_block_index, IndexFails, StoreTail, Requisition,
                RequisitionFails, ResetEntry, StoreValue, Construct, counters
  <2> QED
    BY <1>0, <1>2, <2>1 DEF Taking
<1>5. ASSUME NEW c \in Consumer, Claim(c) PROVE Promised!Next
  <2> DEFINE r == [At(c, "header") EXCEPT !.index = headIndex]
  <2>1. LocalField \subseteq DOMAIN r /\ r.pc = "header" /\ r.index = headIndex
    BY <1>1, AtLocals DEF LocalField
  <2>2. StepWith(c, "claim", r) /\ headIndex' = headIndex + 1 /\ UNCHANGED <<tailIndex, got>>
    BY <1>5 DEF Claim
  <2> HIDE DEF r
  <2>3. /\ consumer[c].pc = "claim"
        /\ \A d \in Consumer : consumer'[d] = IF d = c THEN r ELSE consumer[d]
    BY <1>1, <2>1, <2>2, Moves
  <2>4. Taking' = [Taking EXCEPT ![c] = headIndex] /\ Taking[c] = Nil
    BY <2>1, <2>3, TakingStep DEF Bearing, Taking
  <2>5. headIndex < tailIndex
    BY <1>1, <2>3, Behind DEF AtPc
  <2>6. Items # <<>> /\ Head(Items) = headIndex /\ Items' = Tail(Items)
    <3>1. PICK h \in Nat, t \in Nat : h = headIndex /\ t = tailIndex /\ h < t
      BY <1>1, <2>5
    <3>2. Items = [i \in 1 .. t - h |-> h + i - 1]
      BY <3>1 DEF Items
    <3>3. Items' = [i \in 1 .. t - (h + 1) |-> h + 1 + i - 1]
      BY <2>2, <3>1 DEF Items
    <3> QED
      BY <3>1, <3>2, <3>3, ItemsTaken
  <2>7. Promised!Take(c)
    BY <2>2, <2>4, <2>6 DEF Promised!Take, Items, Taking, Bearing
  <2> QED
    BY <2>7 DEF Promised!Next
<1>6. ASSUME NEW c \in Consumer, Move(c) PROVE Promised!Next
  <2> DEFINE r == At(c, "empty")
  <2>1. LocalField \subseteq DOMAIN r /\ r.pc = "empty"
    BY <1>1, AtLocals DEF LocalField
  <2>2. /\ StepWith(c, "move", r) /\ UNCHANGED <<tailIndex, headIndex>>
        /\ got' = [got EXCEPT ![c] = elements[consumer[c].block][consumer[c].index % BLOCK_SIZE]]
    BY <1>6 DEF Move, Step, counters
  <2> HIDE DEF r
  <2>3. /\ consumer[c].pc = "move"
        /\ \A d \in Consumer : consumer'[d] = IF d = c THEN r ELSE consumer[d]
    BY <1>1, <2>1, <2>2, Moves
  <2>4. PICK i \in Nat : i = consumer[c].index /\ got' = [got EXCEPT ![c] = i]
    BY <1>1, <2>2, <2>3, OwnMessage
  <2>5. Taking' = [Taking EXCEPT ![c] = Nil] /\ Taking[c] = i
    BY <2>1, <2>3, <2>4, TakingStep DEF Bearing, Taking
  <2>6. Items' = Items /\ i # Nil
    BY <1>2, <2>2
  <2>7. Promised!Get(c)
    BY <2>4, <2>5, <2>6 DEF Promised!Get, Items, Taking, Bearing
  <2> QED
    BY <2>7 DEF Promised!Next
<1>7. ASSUME NEW c \in Consumer, dequeue(c), ~Claim(c), ~Move(c) PROVE UNCHANGED Promised!vars
  BY <1>0, <1>1, <1>2, <1>7, OtherStepTaking
<1>8. CASE UNCHANGED vars
  <2>1. UNCHANGED <<tailIndex, headIndex, consumer, got>>
    BY <1>8 DEF vars, counters
  <2> QED
    BY <1>0, <1>2, <2>1 DEF Taking
<1> QED
  BY <1>3, <1>4, <1>5, <1>6, <1>7, <1>8 DEF Next

LEMMA ChannelInit == Init => Promised!Init
<1> SUFFICES ASSUME Init PROVE Promised!Init
  OBVIOUS
<1>1. tailIndex = 0 /\ headIndex = 0 /\ got = [c \in Consumer |-> Nil]
  BY DEF Init
<1>2. [i \in 1 .. tailIndex - headIndex |-> headIndex + i - 1] = <<>>
  BY <1>1
<1>3. \A c \in Consumer : consumer[c].pc = "idle"
  BY DEF Init, Idle
<1> QED
  BY <1>1, <1>2, <1>3 DEF Promised!Init, Promised!Nil, Nil

\* Every message that was enqueued is handed to one consumer, with its own value and
\* oldest first, however the threads' accesses to the index and the blocks interleave:
\* the sub-queue implements Channel.
THEOREM ImplementsChannelCorrect == Spec => ImplementsChannel
<1>1. BInv /\ [Next]_vars => [Promised!Next]_(Promised!vars)
  BY ChannelStep
<1> QED
  BY <1>1, ChannelInit, BlocksInvariant, PTL DEF Spec, ImplementsChannel

-----------------------------------------------------------------------------
(* What the destructor finds.  While calls are under way, no block is      *)
(* forgotten: one that is not free is in the index, or being put there, or *)
(* being given back, and an empty one has a consumer who will.             *)

NoneLost ==
    \A b \in Block \ free :
        \/ \E e \in Entry : Value(e) = b
        \/ producer.pc = "value" /\ producer.tailBlock = b
        \/ \E c \in AtPc("release") : consumer[c].block = b

FullSeen ==
    \A e \in Entry : Live(e) /\ dequeued[Value(e)] = BLOCK_SIZE =>
        \E c \in AtPc("clear") : consumer[c].entry = e

\* Between two blocks, the tail block is the one before.
Between == {"idle", "key", "tail", "reset", "requisition"}
TailKnown ==
    producer.pc \in Between /\ tailIndex % BLOCK_SIZE = 0 =>
        \A e \in Entry :
            Live(e) /\ Key(e) = tailIndex - BLOCK_SIZE => Value(e) = producer.tailBlock

Accounted == NoneLost /\ FullSeen /\ TailKnown

LEMMA AccountedInit == ASSUME Init PROVE Accounted
<1>1. /\ free = Block /\ \A e \in DOMAIN entries : entries[e].value = garbage
      /\ DOMAIN entries = 0 .. IndexSize - 1
  BY DEF Init, EmptyEntry
<1>2. BRest
  BY BlocksInit
<1>3. \A e \in Entry : ~Live(e)
  BY <1>1, <1>2 DEF BRest, IndexRight, EntriesType, Entry
<1> QED
  BY <1>1, <1>3 DEF Accounted, NoneLost, FullSeen, TailKnown

\* A step that leaves the entries that have a block, and makes no others.
BlocksStay ==
    /\ \A e \in Entry : Live(e) => e \in Entry' /\ entries'[e] = entries[e]
    /\ \A e \in Entry' : Live(e)' => e \in Entry /\ Live(e)

LEMMA EnqueueAccounted ==
    ASSUME Accounted, BlocksStay, UNCHANGED <<free, dequeued, consumer>>, producer.pc # "value", TailKnown'
    PROVE  Accounted'
<1>1. \A p : AtPc(p)' = AtPc(p)
  BY DEF AtPc
<1>2. \A e \in Entry' : Live(e)' => e \in Entry /\ Live(e) /\ Value(e)' = Value(e)
  BY DEF BlocksStay
<1>3. \A e \in Entry : Live(e) => e \in Entry' /\ Value(e)' = Value(e)
  BY DEF BlocksStay
<1>4. NoneLost'
  <2> SUFFICES ASSUME NEW b \in Block \ free
               PROVE  \/ \E e \in Entry' : Value(e)' = b
                      \/ \E c \in AtPc("release") : consumer[c].block = b
    BY <1>1 DEF NoneLost
  <2> QED
    BY <1>3 DEF Accounted, NoneLost
<1>5. FullSeen'
  BY <1>1, <1>2 DEF Accounted, FullSeen
<1> QED
  BY <1>4, <1>5 DEF Accounted

\* One that leaves the block that was the tail as it is.
LEMMA TailKept ==
    ASSUME TailKnown, BlocksStay, tailIndex' = tailIndex, producer'.tailBlock = producer.tailBlock,
           producer'.pc \in Between => producer.pc \in Between
    PROVE  TailKnown'
<1>1. \A e \in Entry' : Live(e)' => e \in Entry /\ Live(e) /\ Value(e)' = Value(e) /\ Key(e)' = Key(e)
  BY DEF BlocksStay
<1> QED
  BY <1>1 DEF TailKnown

LEMMA PublishTail ==
    ASSUME CInv, BRest, Publish
    PROVE  TailKnown'
<1>1. /\ UNCHANGED index /\ tailIndex' = tailIndex + 1
      /\ producer.pc = "publish" /\ producer' = [producer EXCEPT !.pc = "idle"]
  BY DEF Publish, ProducerAt
<1>2. producer'.tailBlock = producer.tailBlock
  BY <1>1 DEF BRest, IndexRight, ProducerRight
<1>3. UNCHANGED entries /\ Entry' = Entry
  BY <1>1 DEF index, Entry, Size, Ring
<1>4. PICK e \in Entry : Live(e) /\ Key(e) = Base(tailIndex) /\ Value(e) = producer.tailBlock
  BY <1>1 DEF BRest, MessagesRight, NeededFound, Filling
<1>5. ASSUME tailIndex' % BLOCK_SIZE = 0 PROVE tailIndex' - BLOCK_SIZE = Base(tailIndex)
  <2>1. PICK i \in Int : i = tailIndex + 1
    BY LastInt
  <2>2. i % BLOCK_SIZE = 0 /\ i - 1 = tailIndex
    BY <1>1, <1>5, <2>1, LastInt
  <2>3. Num(i - 1) = Num(i) - 1 /\ i = Nth(Num(i)) /\ Num(i) \in Int
    BY <2>2, BlockBefore, BlockOf
  <2>4. Base(i - 1) = Nth(Num(i) - 1)
    BY <2>3, BlockOf
  <2>5. PICK k \in Int : k = Num(i)
    BY <2>3
  <2>6. Nth(k - 1) = Nth(k) - BLOCK_SIZE
    BY DEF Nth
  <2> QED
    BY <1>1, <2>1, <2>2, <2>3, <2>4, <2>5, <2>6
<1>6. \A d \in Entry : Live(d) /\ Key(d) = Base(tailIndex) => d = e
  BY <1>4, UniqueKey
<1> QED
  BY <1>2, <1>3, <1>4, <1>5, <1>6 DEF TailKnown

LEMMA EntriesStay ==
    ASSUME CInv, BRest, StoreKey \/ ResetEntry \/ new_block_index \/ StoreTail \/ RequisitionFails
    PROVE  BlocksStay
<1>0. IndexRight /\ EntriesType /\ SlotRight
  BY DEF BRest, IndexRight
<1>1. CASE StoreKey \/ ResetEntry
  <2>1. PICK s \in Entry :
            /\ ~Live(s) /\ UNCHANGED <<blockIndex, headers>>
            /\ \/ entries' = [entries EXCEPT ![s].key = tailIndex]
               \/ entries' = [entries EXCEPT ![s].value = none]
    <3>1. CASE StoreKey
      <4>1. NextSlot \in Entry /\ ~Live(NextSlot)
        BY <1>0, <3>1, RingFacts, NotLive DEF StoreKey
      <4> QED
        BY <3>1, <4>1 DEF StoreKey
    <3>2. CASE ResetEntry
      <4>1. producer.pc = "reset" /\ producer.slot \in Entry /\ ~Live(producer.slot)
        BY <1>0, <3>2, RingFacts DEF ResetEntry, ProducerAt, SlotRight
      <4> QED
        BY <3>2, <4>1 DEF ResetEntry
    <3> QED
      BY <1>1, <3>1, <3>2
  <2>2. Entry' = Entry
    BY <2>1 DEF Entry, Size, Ring
  <2>3. entries \in [Entry -> [key : Nat, value : Block \cup {none, garbage}]]
    BY <1>0 DEF EntriesType, Entry
  <2>4. \A e \in Entry : e # s => entries'[e] = entries[e]
    BY <2>1, <2>3
  <2>5. ~Live(s)'
    BY <2>1, <2>3
  <2> QED
    BY <2>1, <2>2, <2>4, <2>5 DEF BlocksStay
<1>2. CASE new_block_index
  <2>1. PICK n \in Nat \ {0} : n = Size /\ Entry = 0 .. n - 1
    BY <1>0, RingFacts DEF Entry
  <2>2. /\ Entry' = 0 .. 2 * n - 1
        /\ entries' = [e \in 0 .. 2 * n - 1 |-> IF e \in Entry THEN entries[e] ELSE EmptyEntry]
    BY <1>0, <1>2, <2>1, Grown
  <2>3. \A e \in Entry : e \in Entry' /\ entries'[e] = entries[e]
    BY <2>1, <2>2
  <2>4. \A e \in Entry' : e \notin Entry => entries'[e].value = garbage
    BY <2>2 DEF EmptyEntry
  <2> QED
    BY <2>3, <2>4 DEF BlocksStay
<1>3. CASE StoreTail \/ RequisitionFails
  <2>1. PICK t : headers' = [headers EXCEPT ![blockIndex].tail = t] /\ UNCHANGED <<blockIndex, entries>>
    BY <1>3 DEF StoreTail, RequisitionFails
  <2>2. RingRight(blockIndex) /\ blockIndex \in DOMAIN headers
    BY <1>0 DEF IndexRight, RingsRight
  <2>3. headers'[blockIndex].ring = headers[blockIndex].ring
    BY <2>1, <2>2 DEF RingRight
  <2>4. Entry' = Entry
    BY <2>1, <2>3 DEF Entry, Size, Ring
  <2> QED
    BY <2>1, <2>4 DEF BlocksStay
<1> QED
  BY <1>1, <1>2, <1>3

LEMMA ProducerAccounted ==
    ASSUME CInv, BRest, Accounted, enqueue
    PROVE  Accounted'
<1>0. ProducerRight /\ EntriesType /\ IndexRight /\ TailKnown
  BY DEF BRest, IndexRight, Accounted
<1>1. CASE StartEnqueue \/ IndexFails \/ Construct \/ Publish
  <2>1. /\ UNCHANGED <<index, free, dequeued, consumer>> /\ producer.pc # "value"
    BY <1>1 DEF StartEnqueue, IndexFails, Construct, Publish, ProducerAt, blocks
  <2>2. BlocksStay
    BY <2>1 DEF BlocksStay, index, Entry, Size, Ring
  <2>3. TailKnown'
    <3>1. CASE StartEnqueue \/ IndexFails \/ Construct
      <4>1. /\ tailIndex' = tailIndex /\ producer'.tailBlock = producer.tailBlock
            /\ producer'.pc \in Between => producer.pc \in Between
        BY <1>0, <3>1 DEF StartEnqueue, IndexFails, Construct, ProducerAt, counters, ProducerRight,
                          Between
      <4> QED
        BY <1>0, <2>2, <4>1, TailKept
    <3> QED
      BY <1>1, <3>1, PublishTail
  <2> QED
    BY <2>1, <2>2, <2>3, EnqueueAccounted
<1>2. CASE StoreKey \/ new_block_index \/ ResetEntry \/ StoreTail \/ RequisitionFails
  <2>1. /\ UNCHANGED <<tailIndex, free, dequeued, consumer>> /\ producer.pc # "value"
        /\ producer.pc \in Between
    BY <1>2 DEF StoreKey, new_block_index, ResetEntry, StoreTail, RequisitionFails, ProducerAt,
                counters, blocks, Between
  <2>2. producer'.tailBlock = producer.tailBlock
    BY <1>0, <1>2 DEF StoreKey, new_block_index, ResetEntry, StoreTail, RequisitionFails,
                      ProducerAt, ProducerRight
  <2>3. BlocksStay
    BY <1>2, EntriesStay
  <2> QED
    BY <1>0, <2>1, <2>2, <2>3, TailKept, EnqueueAccounted
<1>3. CASE Requisition
  <2>1. /\ UNCHANGED <<index, consumer>> /\ producer.pc = "requisition"
        /\ \E b \in free : /\ free' = free \ {b} /\ dequeued' = [dequeued EXCEPT ![b] = 0]
                           /\ producer' = [producer EXCEPT !.pc = "value", !.tailBlock = b]
    BY <1>3 DEF Requisition, reset_empty
  <2>2. PICK b \in free : /\ free' = free \ {b} /\ dequeued' = [dequeued EXCEPT ![b] = 0]
                          /\ producer' = [producer EXCEPT !.pc = "value", !.tailBlock = b]
    BY <2>1
  <2>3. producer'.pc = "value" /\ producer'.tailBlock = b
    BY <1>0, <2>2 DEF ProducerRight
  <2>4. /\ UNCHANGED entries /\ Entry' = Entry /\ \A p : AtPc(p)' = AtPc(p)
    BY <2>1 DEF index, Entry, Size, Ring, AtPc
  <2>5. NoneLost'
    BY <2>1, <2>2, <2>3, <2>4 DEF Accounted, NoneLost
  <2>6. FullSeen'
    <3>1. \A e \in Entry : Live(e) => Value(e) # b
      BY DEF BRest, BlocksOwned, Owned
    <3>2. \A e \in Entry : Live(e) => dequeued'[Value(e)] = dequeued[Value(e)]
      BY <2>2, <3>1 DEF BRest, MessagesRight, Counting
    <3> QED
      BY <2>1, <2>4, <3>2 DEF Accounted, FullSeen
  <2>7. TailKnown'
    BY <2>3 DEF TailKnown, Between
  <2> QED
    BY <2>5, <2>6, <2>7 DEF Accounted
<1>4. CASE StoreValue
  <2>1. /\ UNCHANGED <<blockIndex, headers, free, dequeued, consumer>>
        /\ entries' = [entries EXCEPT ![producer.slot].value = producer.tailBlock]
        /\ producer.pc = "value" /\ producer' = [producer EXCEPT !.pc = "construct"]
    BY <1>4 DEF StoreValue, ProducerAt, blocks
  <2>2. producer'.pc = "construct"
    BY <1>0, <2>1 DEF ProducerRight
  <2>3. PICK s \in Entry : s = producer.slot /\ ~Live(s)
    BY <1>0, <2>1, RingFacts DEF BRest, IndexRight, SlotRight
  <2>4. PICK b \in Block : b = producer.tailBlock /\ dequeued[b] = 0
    BY <2>1 DEF BRest, BlocksOwned, NewBlock
  <2>5. \A e \in Entry : Value(e)' = IF e = s THEN b ELSE Value(e)
    BY <1>0, <2>1, <2>3, <2>4 DEF EntriesType, Entry
  <2>6. Entry' = Entry /\ \A p : AtPc(p)' = AtPc(p)
    BY <2>1 DEF Entry, Size, Ring, AtPc
  <2>7. NoneLost'
    <3> SUFFICES ASSUME NEW a \in Block \ free
                 PROVE  \/ \E e \in Entry : Value(e)' = a
                        \/ \E c \in AtPc("release") : consumer[c].block = a
      BY <2>1, <2>6 DEF NoneLost
    <3>1. CASE a = b
      BY <2>3, <2>5, <3>1
    <3>2. CASE \E e \in Entry : Value(e) = a
      BY <2>3, <2>5, <3>2
    <3> QED
      BY <2>4, <3>1, <3>2 DEF Accounted, NoneLost
  <2>8. FullSeen'
    BY <2>1, <2>4, <2>5, <2>6 DEF Accounted, FullSeen
  <2>9. TailKnown'
    BY <2>2 DEF TailKnown, Between
  <2> QED
    BY <2>7, <2>8, <2>9 DEF Accounted
<1> QED
  BY <1>1, <1>2, <1>3, <1>4 DEF enqueue

\* A step of a consumer on the way to its message, or at it.
LEMMA PassingStep ==
    ASSUME CInv, BRest, NEW c \in Consumer, dequeue(c), ~SetEmpty(c), ~ClearValue(c), ~Release(c)
    PROVE  /\ UNCHANGED <<tailIndex, index, dequeued, free, producer>>
           /\ \A d \in AtPc("clear") \cup AtPc("release") : consumer'[d] = consumer[d]
<1>0. ASSUME NEW from, NEW r, StepWith(c, from, r), LocalField \subseteq DOMAIN r,
             from \notin {"clear", "release"}
      PROVE  \A d \in AtPc("clear") \cup AtPc("release") : consumer'[d] = consumer[d]
  <2>1. /\ consumer[c].pc = from
        /\ \A d \in Consumer : consumer'[d] = IF d = c THEN r ELSE consumer[d]
    BY <1>0, Moves
  <2> QED
    BY <1>0, <2>1 DEF AtPc
<1>1. \A p : LocalField \subseteq DOMAIN At(c, p)
  BY AtLocals
<1>2. CASE Early(c)
  <2>1. PICK from, r : /\ StepWith(c, from, r) /\ LocalField \subseteq DOMAIN r
                       /\ from \notin Beyond /\ r.pc \notin Beyond
    BY <1>2, EarlyStep
  <2>2. from \notin {"clear", "release"}
    BY <2>1 DEF Beyond
  <2> QED
    BY <1>0, <1>2, <2>1, <2>2, EarlyStep DEF blocks
<1>3. CASE Claim(c) \/ LoadHeader(c) \/ LoadHeaderTail(c) \/ LoadTailKey(c) \/ LoadValue(c) \/ Move(c)
  <2>1. UNCHANGED <<tailIndex, index, dequeued, free, producer>>
    BY <1>3 DEF Claim, LoadHeader, LoadHeaderTail, LoadTailKey, LoadValue, Move, counters, blocks
  <2>2. ASSUME NEW p, NEW f, NEW x PROVE LocalField \subseteq DOMAIN [At(c, p) EXCEPT ![f] = x]
    BY <1>1
  <2>3. \E from \in {"claim", "header", "headerTail", "tailKey", "value", "move"} :
          \E p, f, x : \/ StepWith(c, from, [At(c, p) EXCEPT ![f] = x])
                       \/ StepWith(c, from, At(c, p))
    <3>1. CASE Claim(c)
      <4>1. StepWith(c, "claim", [At(c, "header") EXCEPT !["index"] = headIndex])
        BY <3>1 DEF Claim
      <4> QED
        BY <4>1, Zenon
    <3>2. CASE LoadHeader(c)
      <4>1. StepWith(c, "header", [At(c, "headerTail") EXCEPT !["header"] = blockIndex])
        BY <3>2 DEF LoadHeader
      <4> QED
        BY <4>1, Zenon
    <3>3. CASE LoadHeaderTail(c)
      <4>1. StepWith(c, "headerTail",
                [At(c, "tailKey") EXCEPT !["headerTail"] = headers[consumer[c].header].tail])
        BY <3>3 DEF LoadHeaderTail
      <4> QED
        BY <4>1, Zenon
    <3>4. CASE LoadTailKey(c)
      <4>1. PICK e : StepWith(c, "tailKey", [At(c, "value") EXCEPT !["entry"] = e])
        BY <3>4 DEF LoadTailKey
      <4> QED
        BY <4>1, Zenon
    <3>5. CASE LoadValue(c)
      <4>1. StepWith(c, "value",
                [At(c, "move") EXCEPT !["block"] = entries[consumer[c].entry].value])
        BY <3>5 DEF LoadValue
      <4> QED
        BY <4>1, Zenon
    <3>6. CASE Move(c)
      <4>1. StepWith(c, "move", At(c, "empty"))
        BY <3>6 DEF Move, Step
      <4> QED
        BY <4>1, Zenon
    <3> QED
      BY <1>3, <3>1, <3>2, <3>3, <3>4, <3>5, <3>6
  <2>4. PICK from \in {"claim", "header", "headerTail", "tailKey", "value", "move"} :
          \E p, f, x : \/ StepWith(c, from, [At(c, p) EXCEPT ![f] = x])
                       \/ StepWith(c, from, At(c, p))
    BY <2>3
  <2>5. PICK r : StepWith(c, from, r) /\ LocalField \subseteq DOMAIN r
    BY <1>1, <2>2, <2>4, Zenon
  <2>6. from \notin {"clear", "release"}
    OBVIOUS
  <2> QED
    BY <1>0, <2>1, <2>5, <2>6
<1> QED
  BY <1>2, <1>3 DEF dequeue, Early

LEMMA ConsumerAccounted ==
    ASSUME CInv, BRest, Accounted, NEW c \in Consumer, dequeue(c)
    PROVE  Accounted'
<1>0. \A p : /\ LocalField \subseteq DOMAIN At(c, p) /\ At(c, p).pc = p
             /\ p # "idle" => At(c, p).entry = consumer[c].entry /\ At(c, p).block = consumer[c].block
  BY AtLocals DEF LocalField
<1>1. CASE ~SetEmpty(c) /\ ~ClearValue(c) /\ ~Release(c)
  <2>1. /\ UNCHANGED <<tailIndex, blockIndex, headers, entries, dequeued, free, producer>>
        /\ \A d \in AtPc("clear") \cup AtPc("release") : consumer'[d] = consumer[d]
    BY <1>1, PassingStep DEF index
  <2>2. Entry' = Entry /\ AtPc("clear") \subseteq AtPc("clear")' /\ AtPc("release") \subseteq AtPc("release")'
    BY <2>1 DEF Entry, Size, Ring, AtPc
  <2>3. NoneLost' /\ FullSeen'
    BY <2>1, <2>2 DEF Accounted, NoneLost, FullSeen
  <2> QED
    BY <2>1, <2>2, <2>3 DEF Accounted, TailKnown
<1>2. CASE SetEmpty(c)
  <2>1. PICK to \in {"clear", "idle"} :
            to = IF LastElement(consumer[c].block) THEN "clear" ELSE "idle"
    OBVIOUS
  <2>2. /\ StepWith(c, "empty", At(c, to)) /\ UNCHANGED <<tailIndex, index, free, producer>>
        /\ dequeued' = [dequeued EXCEPT ![consumer[c].block] = @ + 1]
    BY <1>2, <2>1 DEF SetEmpty, Step, counters
  <2>3. /\ consumer[c].pc = "empty"
        /\ \A d \in Consumer : consumer'[d] = IF d = c THEN At(c, to) ELSE consumer[d]
    BY <1>0, <2>2, Moves
  <2>4. PICK e \in Entry, b \in Block :
            e = consumer[c].entry /\ b = consumer[c].block /\ Value(e) = b
    BY <2>3 DEF BRest, MessagesRight, AtEntry, AtPc
  <2>5. UNCHANGED <<blockIndex, headers, entries>> /\ Entry' = Entry
    BY <2>2 DEF index, Entry, Size, Ring
  <2>6. \A p \in {"clear", "release"} : \A d \in AtPc(p) : d \in AtPc(p)' /\ consumer'[d] = consumer[d]
    BY <2>3 DEF AtPc
  <2>7. \A d \in Entry : Value(d) = b => d = e
    BY <2>4 DEF BRest, BlocksOwned, Owned
  <2>8. FullSeen'
    <3> SUFFICES ASSUME NEW d \in Entry, Live(d), dequeued'[Value(d)] = BLOCK_SIZE
                 PROVE  \E a \in AtPc("clear")' : consumer'[a].entry = d
      BY <2>5 DEF FullSeen
    <3>1. CASE Value(d) = b
      <4>1. dequeued[b] = BLOCK_SIZE - 1
        BY <2>2, <2>4, <3>1 DEF BRest, MessagesRight, Counting
      <4>2. to = "clear" /\ d = e
        BY <2>1, <2>4, <2>7, <3>1, <4>1 DEF LastElement
      <4> QED
        BY <1>0, <2>3, <2>4, <4>2 DEF AtPc
    <3>2. CASE Value(d) # b
      <4>1. dequeued'[Value(d)] = dequeued[Value(d)]
        BY <2>2, <2>4, <3>2 DEF BRest, MessagesRight, Counting
      <4> QED
        BY <2>6, <4>1 DEF Accounted, FullSeen
    <3> QED
      BY <3>1, <3>2
  <2>9. NoneLost' /\ TailKnown'
    BY <2>2, <2>5, <2>6 DEF Accounted, NoneLost, TailKnown
  <2> QED
    BY <2>8, <2>9 DEF Accounted
<1>3. CASE ClearValue(c)
  <2>1. /\ StepWith(c, "clear", At(c, "release"))
        /\ UNCHANGED <<tailIndex, blockIndex, headers, dequeued, free, producer>>
        /\ entries' = [entries EXCEPT ![consumer[c].entry].value = none]
    BY <1>3 DEF ClearValue, Step, counters, blocks
  <2>2. /\ consumer[c].pc = "clear"
        /\ \A d \in Consumer : consumer'[d] = IF d = c THEN At(c, "release") ELSE consumer[d]
    BY <1>0, <2>1, Moves
  <2>3. PICK e \in Entry, b \in Block :
            e = consumer[c].entry /\ b = consumer[c].block /\ Value(e) = b
    BY <2>2 DEF BRest, BlocksOwned, Emptied, AtPc
  <2>4. Entry' = Entry
    BY <2>1 DEF Entry, Size, Ring
  <2>5. \A d \in Entry : Key(d)' = Key(d) /\ Value(d)' = IF d = e THEN none ELSE Value(d)
    BY <2>1, <2>3 DEF BRest, IndexRight, EntriesType, Entry
  <2>6. \A d \in AtPc("release") : d \in AtPc("release")' /\ consumer'[d] = consumer[d]
    BY <2>2 DEF AtPc
  <2>7. c \in AtPc("release")' /\ consumer'[c].block = b
    BY <1>0, <2>2, <2>3 DEF AtPc
  <2>8. NoneLost'
    <3> SUFFICES ASSUME NEW a \in Block \ free
                 PROVE  \/ \E d \in Entry : Value(d)' = a
                        \/ producer.pc = "value" /\ producer.tailBlock = a
                        \/ \E d \in AtPc("release")' : consumer'[d].block = a
      BY <2>1, <2>4 DEF NoneLost
    <3>1. CASE \E d \in Entry : Value(d) = a
      BY <2>3, <2>5, <2>7, <3>1
    <3> QED
      BY <2>6, <3>1 DEF Accounted, NoneLost
  <2>9. FullSeen'
    <3> SUFFICES ASSUME NEW d \in Entry, Live(d)', dequeued[Value(d)'] = BLOCK_SIZE
                 PROVE  \E a \in AtPc("clear")' : consumer'[a].entry = d
      BY <2>1, <2>4 DEF FullSeen
    <3>1. d # e /\ Value(d)' = Value(d)
      BY <2>5
    <3>2. PICK a \in AtPc("clear") : consumer[a].entry = d
      BY <3>1 DEF Accounted, FullSeen
    <3> QED
      BY <2>2, <2>3, <3>1, <3>2 DEF AtPc
  <2>10. TailKnown'
    BY <2>1, <2>4, <2>5 DEF Accounted, TailKnown
  <2> QED
    BY <2>8, <2>9, <2>10 DEF Accounted
<1>4. CASE Release(c)
  <2>1. /\ StepWith(c, "release", At(c, "idle")) /\ UNCHANGED <<tailIndex, index, dequeued, producer>>
        /\ free' = free \cup {consumer[c].block}
    BY <1>4 DEF Release, Step, counters
  <2>2. /\ consumer[c].pc = "release"
        /\ \A d \in Consumer : consumer'[d] = IF d = c THEN At(c, "idle") ELSE consumer[d]
    BY <1>0, <2>1, Moves
  <2>3. UNCHANGED <<blockIndex, headers, entries>> /\ Entry' = Entry
    BY <2>1 DEF index, Entry, Size, Ring
  <2>4. \A d \in AtPc("clear") \cup AtPc("release") : d # c => consumer'[d] = consumer[d]
    BY <2>2 DEF AtPc
  <2>5. NoneLost'
    <3> SUFFICES ASSUME NEW a \in Block \ free'
                 PROVE  \/ \E d \in Entry : Value(d) = a
                        \/ producer.pc = "value" /\ producer.tailBlock = a
                        \/ \E d \in AtPc("release")' : consumer'[d].block = a
      BY <2>1, <2>3 DEF NoneLost
    <3>1. \A d \in AtPc("release") : consumer[d].block = a => d # c /\ d \in AtPc("release")'
      BY <2>1, <2>2 DEF AtPc
    <3> QED
      BY <2>1, <2>4, <3>1 DEF Accounted, NoneLost
  <2>6. FullSeen'
    <3>1. c \notin AtPc("clear") /\ AtPc("clear") \subseteq AtPc("clear")'
      BY <2>2 DEF AtPc
    <3> QED
      BY <2>1, <2>3, <2>4, <3>1 DEF Accounted, FullSeen
  <2> QED
    BY <2>1, <2>3, <2>5, <2>6 DEF Accounted, TailKnown
<1> QED
  BY <1>1, <1>2, <1>3, <1>4

LEMMA AccountedUnchanged == ASSUME Accounted, UNCHANGED vars PROVE Accounted'
<1>1. UNCHANGED <<tailIndex, blockIndex, headers, entries, dequeued, free, producer, consumer>>
  BY DEF vars, counters, index, blocks
<1>2. Entry' = Entry /\ \A p : AtPc(p)' = AtPc(p)
  BY <1>1 DEF Entry, Size, Ring, AtPc
<1> QED
  BY <1>1, <1>2 DEF Accounted, NoneLost, FullSeen, TailKnown

LEMMA RunningStep ==
    ASSUME BInv, Accounted, [Next]_vars
    PROVE  (BInv /\ Accounted)'
<1>1. CInv /\ BRest /\ BInv'
  BY BlocksStep DEF BInv, BRest
<1>2. Accounted'
  BY <1>1, ProducerAccounted, ConsumerAccounted, AccountedUnchanged DEF Next
<1> QED
  BY <1>1, <1>2

-----------------------------------------------------------------------------
(* The destructor.  Of the messages that are left, each has its home, the  *)
(* block that the index finds; these are the blocks that are not free,     *)
(* unless none is left of a block that is not full, the tail block.        *)

Remaining == headIndex .. tailIndex - 1
Home(i) == Value(Ring[Position(blockIndex, TailAt, i)])
Partial == headIndex = tailIndex /\ tailIndex % BLOCK_SIZE # 0

HomesRight ==
    /\ \A i \in Remaining : Home(i) \in Block \ free
    /\ \A i, j \in Remaining : Home(i) = Home(j) <=> Base(i) = Base(j)
    /\ \A b \in Block \ free : \/ \E i \in Remaining : Home(i) = b
                               \/ Partial /\ b = producer.tailBlock
    /\ headIndex < tailIndex => producer.tailBlock = Home(tailIndex - 1)
    /\ Partial => producer.tailBlock \in Block \ free

\* The messages from u on are in their homes, and no others are in any block.
ElementsRight(u) ==
    /\ elements \in [Block -> [Slot -> Nat \cup {Nil}]]
    /\ \A i \in u .. tailIndex - 1 : elements[Home(i)][i % BLOCK_SIZE] = i
    /\ \A b \in Block, j \in Slot :
           \/ elements[b][j] = Nil
           \/ \E i \in u .. tailIndex - 1 : Home(i) = b /\ i % BLOCK_SIZE = j

LEMMA HomeFound ==
    ASSUME CInv, BRest, NEW i \in Remaining
    PROVE  \E e \in Entry : Live(e) /\ Key(e) = Base(i) /\ Home(i) = Value(e)
<1>1. PICK e \in Entry : Live(e) /\ Key(e) = Base(i)
  BY DEF Remaining, BRest, MessagesRight, NeededFound
<1>2. PICK p \in Entry : Ring[p] = e
  BY DEF BRest, IndexRight, Bijective, Entry
<1>3. blockIndex \in 1 .. blockIndex /\ Capacity(blockIndex) = Size
  BY RingFacts DEF BRest, IndexRight, RingsRight
<1>4. TailAt \in 0 .. Capacity(blockIndex) - 1 /\ p \in 0 .. Capacity(blockIndex) - 1
  BY <1>3, RingFacts DEF BRest, Entry
<1>5. i \in Nat /\ tailIndex # 0
  BY LastInt DEF Remaining
<1>6. Valid(headers[blockIndex].ring[TailAt])
  BY <1>3, <1>5, AnyRing DEF TailAt
<1>7. Live(headers[blockIndex].ring[p]) /\ Key(headers[blockIndex].ring[p]) = Base(i)
  BY <1>1, <1>2 DEF Ring
<1>8. Position(blockIndex, TailAt, i) = p
  BY <1>3, <1>4, <1>5, <1>6, <1>7, PositionFound
<1> QED
  BY <1>1, <1>2, <1>8 DEF Home

LEMMA LastOfBlock ==
    ASSUME NEW i \in Int, i % BLOCK_SIZE = 0
    PROVE  Base(i - 1) = i - BLOCK_SIZE
<1>1. Num(i - 1) = Num(i) - 1 /\ i = Nth(Num(i)) /\ Num(i) \in Int
  BY BlockBefore, BlockOf
<1>2. Base(i - 1) = Nth(Num(i) - 1)
  BY <1>1, BlockOf
<1>3. PICK k \in Int : k = Num(i)
  BY <1>1
<1>4. Nth(k - 1) = Nth(k) - BLOCK_SIZE
  BY DEF Nth
<1> QED
  BY <1>1, <1>2, <1>3, <1>4

\* When no call is under way, every entry that has a block is the one of a message
\* that is left, or of the next one.
LEMMA QuietEntry ==
    ASSUME CInv, BRest, Accounted, producer.pc = "idle", \A c \in Consumer : consumer[c].pc = "idle",
           NEW e \in Entry, Live(e)
    PROVE  \/ \E i \in Remaining : Key(e) = Base(i)
           \/ Partial /\ Key(e) = Base(tailIndex)
<1>1. PICK p \in Entry : Key(e) = Nth(Last - Age(p)) /\ Last - Age(p) \in Nat
  BY LiveKey
<1>2. PICK h \in Nat, t \in Nat : h = headIndex /\ t = tailIndex /\ h <= t
  BY LastInt, Behind DEF HeadBehindTail
<1>3. PICK a \in Nat, k \in Nat : a = Last - Age(p) /\ k = Key(e) /\ k = Nth(a)
  <2>1. PICK a \in Nat : a = Last - Age(p) /\ Key(e) = Nth(a)
    BY <1>1
  <2>2. a \in Int /\ a >= 0
    OBVIOUS
  <2>3. Nth(a) \in Nat
    BY <2>2, FirstsDiffer
  <2> QED
    BY <2>1, <2>3
<1>4. h < k + BLOCK_SIZE
  <2>1. AtPc("clear") = {} /\ Working(k) = {}
    BY DEF AtPc, Working, Claimant, Claimed
  <2>2. dequeued[Value(e)] # BLOCK_SIZE
    BY <2>1 DEF Accounted, FullSeen
  <2>3. dequeued[Value(e)] = Begun(k) - Cardinality(Working(k))
    BY <1>3 DEF BRest, MessagesRight, Counting
  <2>4. Begun(k) # BLOCK_SIZE
    <3>1. Cardinality(Working(k)) = 0
      BY <2>1, FS_EmptySet
    <3>2. Begun(k) \in Nat
      BY BegunBound
    <3> QED
      BY <2>2, <2>3, <3>1, <3>2
  <2> QED
    BY <1>2, <2>4 DEF Begun
<1>5. k <= t - 1
  <2>1. PICK m \in Int : m = Num(t - 1) /\ m = Last
    BY <1>2, BlockOf DEF Last, Indexed
  <2>2. a <= m
    BY <1>3, <2>1, AgeFacts DEF BRest
  <2>3. Nth(m) = k + BLOCK_SIZE * (m - a)
    BY <1>3 DEF Nth
  <2>4. BLOCK_SIZE * (m - a) >= 0
    BY <2>2
  <2>5. /\ Base(t - 1) = Nth(m) /\ Base(t - 1) \in Int
        /\ t - 1 = Base(t - 1) + ((t - 1) % BLOCK_SIZE) /\ (t - 1) % BLOCK_SIZE \in Slot
    BY <2>1, BlockOf
  <2>6. PICK f \in Int, r \in Nat : f = Base(t - 1) /\ f = Nth(m) /\ t - 1 = f + r
    BY <2>5 DEF Slot
  <2>7. PICK d \in Nat : d = BLOCK_SIZE * (m - a)
    BY <2>2, <2>4
  <2> QED
    BY <2>3, <2>6, <2>7
<1>6. CASE h < t
  <2>1. PICK i \in Int : i = IF k < h THEN h ELSE k
    OBVIOUS
  <2>2. i \in Remaining
    BY <1>2, <1>5, <1>6, <2>1 DEF Remaining
  <2>3. Base(i) = Nth(a)
    BY <1>3, <1>4, <2>1, InBlock
  <2> QED
    BY <1>3, <2>2, <2>3
<1>7. CASE h = t
  <2>1. Base(t) = Nth(a)
    BY <1>3, <1>4, <1>5, <1>7, InBlock
  <2>2. t % BLOCK_SIZE # 0
    <3>1. t % BLOCK_SIZE = 0 => Base(t) = t
      BY BlockBefore
    <3> QED
      BY <1>3, <1>5, <2>1, <3>1
  <2> QED
    BY <1>2, <1>3, <1>7, <2>1, <2>2 DEF Partial
<1> QED
  BY <1>2, <1>6, <1>7

LEMMA QuietHomes ==
    ASSUME CInv, BRest, Accounted, producer.pc = "idle", \A c \in Consumer : consumer[c].pc = "idle"
    PROVE  HomesRight
<1>1. \A i \in Remaining : \E e \in Entry : Live(e) /\ Key(e) = Base(i) /\ Home(i) = Value(e)
  BY HomeFound
<1>2. \A i \in Remaining : Home(i) \in Block \ free
  BY <1>1 DEF BRest, BlocksOwned, Owned
<1>3. ASSUME NEW i \in Remaining, NEW j \in Remaining PROVE Home(i) = Home(j) <=> Base(i) = Base(j)
  <2>1. PICK d \in Entry : Live(d) /\ Key(d) = Base(i) /\ Home(i) = Value(d)
    BY <1>1
  <2>2. PICK e \in Entry : Live(e) /\ Key(e) = Base(j) /\ Home(j) = Value(e)
    BY <1>1
  <2>3. Value(d) = Value(e) => d = e
    BY <2>2 DEF BRest, BlocksOwned, Owned
  <2>4. Key(d) = Key(e) => d = e
    BY <2>1, <2>2, UniqueKey
  <2> QED
    BY <2>1, <2>2, <2>3, <2>4
<1>4. tailIndex % BLOCK_SIZE # 0 =>
          \E e \in Entry : Live(e) /\ Key(e) = Base(tailIndex) /\ Value(e) = producer.tailBlock
  BY DEF BRest, MessagesRight, NeededFound, Filling
<1>5. \A b \in Block \ free : (\E i \in Remaining : Home(i) = b) \/ (Partial /\ b = producer.tailBlock)
  <2> SUFFICES ASSUME NEW b \in Block \ free
               PROVE  (\E i \in Remaining : Home(i) = b) \/ (Partial /\ b = producer.tailBlock)
    OBVIOUS
  <2>1. PICK e \in Entry : Value(e) = b
    BY DEF Accounted, NoneLost, AtPc
  <2>2. CASE \E i \in Remaining : Key(e) = Base(i)
    <3>1. PICK i \in Remaining : Key(e) = Base(i)
      BY <2>2
    <3>2. PICK d \in Entry : Live(d) /\ Key(d) = Base(i) /\ Home(i) = Value(d)
      BY <1>1
    <3>3. d = e
      BY <2>1, <3>1, <3>2, UniqueKey
    <3> QED
      BY <2>1, <3>2, <3>3
  <2>3. CASE Partial /\ Key(e) = Base(tailIndex)
    <3>1. PICK d \in Entry : Live(d) /\ Key(d) = Base(tailIndex) /\ Value(d) = producer.tailBlock
      BY <1>4, <2>3 DEF Partial
    <3>2. d = e
      BY <2>1, <2>3, <3>1, UniqueKey
    <3> QED
      BY <2>1, <2>3, <3>1, <3>2
  <2> QED
    BY <2>1, <2>2, <2>3, QuietEntry
<1>6. headIndex < tailIndex => producer.tailBlock = Home(tailIndex - 1)
  <2> SUFFICES ASSUME headIndex < tailIndex PROVE producer.tailBlock = Home(tailIndex - 1)
    OBVIOUS
  <2>1. PICK t \in Nat : t = tailIndex /\ t - 1 \in Remaining
    BY LastInt DEF Remaining
  <2>2. PICK e \in Entry : Live(e) /\ Key(e) = Base(t - 1) /\ Home(t - 1) = Value(e)
    BY <1>1, <2>1
  <2>3. CASE t % BLOCK_SIZE = 0
    <3>0. t \in Int
      BY <2>1
    <3>1. Base(t - 1) = t - BLOCK_SIZE
      BY <2>3, <3>0, LastOfBlock
    <3> QED
      BY <2>1, <2>2, <2>3, <3>1 DEF Accounted, TailKnown, Between
  <2>4. CASE t % BLOCK_SIZE # 0
    <3>1. PICK d \in Entry : Live(d) /\ Key(d) = Base(t) /\ Value(d) = producer.tailBlock
      BY <1>4, <2>1, <2>4
    <3>2. Base(t - 1) = Base(t)
      BY <2>4, BlockBefore
    <3>3. d = e
      BY <2>2, <3>1, <3>2, UniqueKey
    <3> QED
      BY <2>1, <2>2, <3>1, <3>3
  <2> QED
    BY <2>3, <2>4
<1>7. Partial => producer.tailBlock \in Block \ free
  BY <1>4 DEF Partial, BRest, BlocksOwned, Owned
<1> QED
  BY <1>2, <1>3, <1>5, <1>6, <1>7 DEF HomesRight

LEMMA QuietElements ==
    ASSUME CInv, BRest, producer.pc = "idle", \A c \in Consumer : consumer[c].pc = "idle"
    PROVE  ElementsRight(headIndex)
<1>1. \A i \in Int : Present(i) <=> i \in Remaining
  BY LastInt DEF Present, Claimant, Claimed, Remaining
<1>2. elements \in [Block -> [Slot -> Nat \cup {Nil}]]
  BY DEF BRest, MessagesRight, Stored
<1>3. ASSUME NEW i \in Remaining PROVE elements[Home(i)][i % BLOCK_SIZE] = i
  <2>1. PICK e \in Entry : Live(e) /\ Key(e) = Base(i) /\ Home(i) = Value(e)
    BY HomeFound
  <2>2. i \in Int /\ i \in Key(e) .. Key(e) + BLOCK_SIZE - 1
    BY <2>1, LastInt, InRange DEF Remaining
  <2> QED
    BY <1>1, <2>1, <2>2 DEF BRest, MessagesRight, Stored
<1>4. ASSUME NEW b \in Block, NEW j \in Slot
      PROVE  \/ elements[b][j] = Nil
             \/ \E i \in Remaining : Home(i) = b /\ i % BLOCK_SIZE = j
  <2>1. CASE \A e \in Entry : Value(e) # b
    BY <2>1 DEF BRest, MessagesRight, Stored
  <2>2. CASE \E e \in Entry : Value(e) = b
    <3>1. PICK e \in Entry : Value(e) = b
      BY <2>2
    <3>2. PICK k \in Nat : Key(e) = Nth(k)
      BY <3>1, LiveKey
    <3>3. PICK i \in Int : i = Nth(k) + j /\ Base(i) = Nth(k) /\ i % BLOCK_SIZE = j
      <4>1. k \in Int
        BY <3>2
      <4>2. Nth(k) \in Int /\ Base(Nth(k) + j) = Nth(k) /\ (Nth(k) + j) % BLOCK_SIZE = j
        BY <4>1, FirstOf
      <4> QED
        BY <4>2 DEF Slot
    <3>4. i \in Key(e) .. Key(e) + BLOCK_SIZE - 1
      BY <3>1, <3>2, <3>3, InRange
    <3>5. elements[b][j] = IF Present(i) THEN i ELSE Nil
      BY <3>1, <3>3, <3>4 DEF BRest, MessagesRight, Stored
    <3>6. CASE i \in Remaining
      <4>1. PICK d \in Entry : Live(d) /\ Key(d) = Base(i) /\ Home(i) = Value(d)
        BY <3>6, HomeFound
      <4>2. d = e
        BY <3>1, <3>2, <3>3, <4>1, UniqueKey
      <4> QED
        BY <3>1, <3>3, <3>6, <4>1, <4>2
    <3> QED
      BY <1>1, <3>5, <3>6
  <2> QED
    BY <2>1, <2>2
<1> QED
  BY <1>2, <1>3, <1>4 DEF ElementsRight, Remaining

-----------------------------------------------------------------------------
(* The destructor goes on from message to message, and gives back the block *)
(* it leaves: every block it came through but the one it is in.            *)

Shown ==
    [pc : {"destroy", "destroyed"}, slot : Nat, tailBlock : Block \cup {none}, index : Nat,
     block : Block \cup {none}, destroyed : Seq(Nat), returned : Seq(Block)]

Passed(u) == {Home(i) : i \in headIndex .. u - 1}

Destroying ==
    /\ producer \in Shown
    /\ producer.index \in headIndex .. tailIndex
    /\ producer.destroyed = [k \in 1 .. producer.index - headIndex |-> headIndex + k - 1]
    /\ ElementsRight(producer.index)
    /\ producer.block = IF producer.index = headIndex THEN none ELSE Home(producer.index - 1)
    /\ IsInjective(producer.returned)
    /\ Range(producer.returned) = Passed(producer.index) \ {producer.block}

RingWhole == IsInjective(Ring) /\ Range(Ring) = DOMAIN entries

DInv ==
    /\ \A c \in Consumer : consumer[c].pc = "over"
    /\ headIndex \in Nat /\ tailIndex \in Nat /\ headIndex <= tailIndex
    /\ HomesRight
    /\ RingWhole
    /\ producer.pc = "destroy" => Destroying
    /\ DestroyedOnce

TInv == IF producer.pc \in {"destroy", "destroyed"} THEN DInv ELSE BInv /\ Accounted

LEMMA AppendedOnce ==
    ASSUME NEW S, NEW s \in Seq(S), NEW x \in S, IsInjective(s), x \notin Range(s)
    PROVE  /\ Append(s, x) \in Seq(S) /\ IsInjective(Append(s, x))
           /\ Range(Append(s, x)) = Range(s) \cup {x}
<1>1. PICK n \in Nat : n = Len(s) /\ DOMAIN s = 1 .. n
  OBVIOUS
<1>2. /\ Append(s, x) \in Seq(S) /\ DOMAIN Append(s, x) = 1 .. n + 1
      /\ \A i \in 1 .. n : Append(s, x)[i] = s[i]
      /\ Append(s, x)[n + 1] = x
  BY <1>1
<1>3. PICK a : a = Append(s, x)
  OBVIOUS
<1>4. \A i \in 1 .. n + 1 : i \in 1 .. n \/ i = n + 1
  OBVIOUS
<1>5. \A i \in 1 .. n : s[i] # x
  BY <1>1 DEF Range
<1>6. IsInjective(a)
  BY <1>1, <1>2, <1>3, <1>4, <1>5 DEF IsInjective
<1>7. Range(a) = Range(s) \cup {x}
  <2>1. 1 .. n \subseteq 1 .. n + 1 /\ n + 1 \in 1 .. n + 1
    OBVIOUS
  <2> QED
    BY <1>1, <1>2, <1>3, <1>4, <2>1 DEF Range
<1> QED
  BY <1>2, <1>3, <1>6, <1>7

\* Messages in one block differ by their places, and the first of a block is not
\* in the block of one before.
LEMMA SameBlock ==
    ASSUME NEW i \in Int, NEW j \in Int
    PROVE  /\ Base(i) = Base(j) /\ i % BLOCK_SIZE = j % BLOCK_SIZE => i = j
           /\ i < j /\ j % BLOCK_SIZE = 0 => Base(i) # Base(j)
<1>1. /\ Base(i) \in Int /\ i % BLOCK_SIZE \in Slot /\ i = Base(i) + (i % BLOCK_SIZE)
      /\ Base(j) \in Int /\ j % BLOCK_SIZE \in Slot /\ j = Base(j) + (j % BLOCK_SIZE)
  BY BlockOf
<1>2. PICK a \in Int, b \in Int : a = i % BLOCK_SIZE /\ b = j % BLOCK_SIZE /\ a >= 0
  BY <1>1 DEF Slot
<1>3. PICK f \in Int, g \in Int : f = Base(i) /\ g = Base(j) /\ i = f + a /\ j = g + b
  BY <1>1, <1>2
<1> QED
  BY <1>2, <1>3

LEMMA NotRunning ==
    ASSUME DInv, producer.pc \in {"destroy", "destroyed"}
    PROVE  ~Next
<1>1. ~enqueue
  BY DEF enqueue, StartEnqueue, StoreKey, new_block_index, IndexFails, StoreTail, Requisition,
         RequisitionFails, ResetEntry, StoreValue, Construct, Publish, ProducerAt
<1>2. ASSUME NEW c \in Consumer PROVE ~dequeue(c)
  <2>1. consumer[c].pc = "over"
    BY DEF DInv
  <2> QED
    BY <2>1 DEF dequeue, SizeTail, SizeHead, LoadTail, LoadOvercommit, LoadCount, Reserve,
         Recheck, Undo, Claim, LoadHeader, LoadHeaderTail, LoadTailKey, LoadValue, Move,
         SetEmpty, ClearValue, Release, Step, StepWith
<1> QED
  BY <1>1, <1>2 DEF Next

LEMMA StartDestroyStep ==
    ASSUME BInv, Accounted, StartDestroy
    PROVE  DInv' /\ producer'.pc = "destroy"
<1>1. CInv /\ BRest /\ HeadBehindTail
  BY Behind DEF BInv, BRest
<1>2. /\ producer.pc = "idle" /\ \A c \in Consumer : consumer[c].pc = "idle"
      /\ producer' = [pc |-> "destroy", slot |-> producer.slot,
                      tailBlock |-> producer.tailBlock, index |-> headIndex, block |-> none,
                      destroyed |-> <<>>, returned |-> <<>>]
      /\ consumer' = [c \in Consumer |-> [consumer[c] EXCEPT !.pc = "over"]]
      /\ UNCHANGED <<headIndex, tailIndex, blockIndex, headers, entries, elements, free>>
  BY DEF StartDestroy, counters, index, blocks
<1>3. HomesRight /\ ElementsRight(headIndex)
  BY <1>1, <1>2, QuietHomes, QuietElements
<1>4. headIndex \in Nat /\ tailIndex \in Nat /\ headIndex <= tailIndex
  BY <1>1, LastInt DEF HeadBehindTail
<1>5. \A i : Home(i)' = Home(i)
  BY <1>2 DEF Home, Ring, TailAt, Position, Capacity
<1>6. RingWhole
  <2>1. DOMAIN Ring = Entry /\ DOMAIN entries = Entry /\ Ring \in [Entry -> Entry]
    BY <1>1, RingFacts DEF BRest, IndexRight, EntriesType, Entry
  <2>2. \A e \in Entry : \E p \in Entry : Ring[p] = e
    BY <1>1 DEF BRest, IndexRight, Bijective, Entry
  <2>3. \A p, q \in Entry : Ring[p] = Ring[q] => p = q
    BY <1>1 DEF BRest, IndexRight, Bijective, Entry
  <2>4. PICK r : r = Ring
    OBVIOUS
  <2> QED
    BY <2>1, <2>2, <2>3, <2>4 DEF RingWhole, IsInjective, Range
<1>7. PICK q : /\ q = producer'
               /\ q = [pc |-> "destroy", slot |-> producer.slot,
                       tailBlock |-> producer.tailBlock, index |-> headIndex, block |-> none,
                       destroyed |-> <<>>, returned |-> <<>>]
  BY <1>2
<1>8. producer.slot \in Nat /\ producer.tailBlock \in Block \cup {none}
  BY <1>1 DEF BRest, IndexRight, ProducerRight
<1>9. /\ q.pc = "destroy" /\ q.tailBlock = producer.tailBlock /\ q.index = headIndex
      /\ q.block = none /\ q.destroyed = <<>> /\ q.returned = <<>>
  BY <1>7
<1>10. HomesRight' /\ ElementsRight(headIndex)' /\ RingWhole'
  BY <1>2, <1>3, <1>5, <1>6, <1>7, <1>9
     DEF HomesRight, ElementsRight, Remaining, Partial, RingWhole, Ring
<1>11. q \in Shown
  <2>1. <<>> \in Seq(Nat) /\ <<>> \in Seq(Block)
    OBVIOUS
  <2> QED
    BY <1>4, <1>7, <1>8, <2>1 DEF Shown
<1>12. <<>> = [k \in 1 .. headIndex - headIndex |-> headIndex + k - 1]
  <2>1. 1 .. headIndex - headIndex = {}
    BY <1>4
  <2> QED
    BY <2>1
<1>13. IsInjective(<<>>) /\ Range(<<>>) = {} /\ Passed(headIndex)' = {}
  BY <1>2, <1>4 DEF IsInjective, Range, Passed
<1>14. ElementsRight(producer.index)'
  BY <1>2, <1>7, <1>9, <1>10
<1>15. Destroying'
  BY <1>2, <1>4, <1>7, <1>9, <1>11, <1>12, <1>13, <1>14 DEF Destroying, Passed
<1>16. \A c \in Consumer : consumer'[c].pc = "over"
  <2>1. \A c \in Consumer : consumer[c].pc = "idle" /\ "pc" \in DOMAIN consumer[c]
    BY <1>1, <1>2 DEF BRest, MessagesRight, Claims, LocalField
  <2> QED
    BY <1>2, <2>1
<1>17. DestroyedOnce'
  BY <1>7, <1>9
     DEF DestroyedOnce, RemainderDestroyed, BlocksReturnedOnce, EntriesDestroyedOnce
<1> QED
  BY <1>2, <1>4, <1>7, <1>9, <1>10, <1>15, <1>16, <1>17 DEF DInv

LEMMA OneMore ==
    ASSUME NEW h \in Nat, NEW u \in Nat, h <= u
    PROVE  Append([k \in 1 .. u - h |-> h + k - 1], u) = [k \in 1 .. u + 1 - h |-> h + k - 1]
<1>1. PICK n \in Nat : n = u - h /\ u = h + n /\ u + 1 - h = n + 1
  OBVIOUS
<1>2. PICK g : g = [k \in 1 .. n |-> h + k - 1]
  OBVIOUS
<1>3. g \in Seq(Nat) /\ Len(g) = n
  BY <1>2
<1>4. \A k \in 1 .. n + 1 : Append(g, u)[k] = h + k - 1
  BY <1>1, <1>2, <1>3
<1>5. PICK f : f = Append(g, u) /\ f \in [1 .. n + 1 -> Nat]
  <2>1. PICK f : f = Append(g, u) /\ f \in Seq(Nat) /\ Len(f) = n + 1
    BY <1>3, AppendProperties
  <2>2. f \in [1 .. n + 1 -> Nat]
    BY <2>1, LenProperties
  <2> QED
    BY <2>1, <2>2
<1>6. f = [k \in 1 .. n + 1 |-> f[k]]
  BY <1>5
<1>7. \A k \in 1 .. n + 1 : f[k] = h + k - 1
  BY <1>4, <1>5
<1>8. f = [k \in 1 .. n + 1 |-> h + k - 1]
  BY <1>6, <1>7
<1> QED
  BY <1>1, <1>2, <1>5, <1>8

LEMMA SameHomes ==
    ASSUME UNCHANGED <<blockIndex, headers, entries>>
    PROVE  (\A i : Home(i)' = Home(i)) /\ (RingWhole => RingWhole')
BY DEF Home, Ring, TailAt, Position, Capacity, RingWhole

LEMMA DestroyElementStep ==
    ASSUME DInv, DestroyElement
    PROVE  DInv' /\ producer'.pc = "destroy"
<1>1. /\ producer.pc = "destroy" /\ producer.index # tailIndex
      /\ UNCHANGED <<headIndex, tailIndex, blockIndex, headers, entries, free, consumer>>
  BY DEF DestroyElement, counters, index
<1>2. Destroying /\ HomesRight /\ RingWhole /\ \A c \in Consumer : consumer[c].pc = "over"
  BY <1>1 DEF DInv
<1>3. PICK h \in Nat, t \in Nat, u \in Nat :
          h = headIndex /\ t = tailIndex /\ u = producer.index /\ h <= u /\ u < t
  <2>1. PICK h \in Nat, t \in Nat : h = headIndex /\ t = tailIndex
    BY DEF DInv
  <2>2. PICK u : u = producer.index
    OBVIOUS
  <2>3. u \in h .. t /\ u # t
    BY <1>1, <1>2, <2>1, <2>2 DEF Destroying
  <2>4. u \in Nat /\ h <= u /\ u < t
    BY <2>3
  <2> QED
    BY <2>1, <2>2, <2>4
<1>4. PICK r, g, b : /\ r = producer.returned /\ g = producer.destroyed /\ b = producer.block
                     /\ r \in Seq(Block) /\ g \in Seq(Nat) /\ b \in Block \cup {none}
  BY <1>2 DEF Destroying, Shown
<1>5. /\ \A i \in h .. t - 1 : Home(i) \in Block \ free
      /\ \A i, j \in h .. t - 1 : Home(i) = Home(j) <=> Base(i) = Base(j)
  BY <1>2, <1>3 DEF HomesRight, Remaining
<1>6. u \in Int /\ u - 1 \in Int /\ u \in h .. t - 1 /\ (h < u => u - 1 \in h .. t - 1)
  BY <1>3
<1>7. b = IF u = h THEN none ELSE Home(u - 1)
  BY <1>2, <1>3, <1>4 DEF Destroying
<1>8. h < u => b = Home(u - 1) /\ b \in Block /\ b # none
  BY <1>5, <1>6, <1>7
<1>9. PICK v \in Block, s \in Slot : v = Home(u) /\ s = u % BLOCK_SIZE
  BY <1>5, <1>6, BlockOf
<1>10. h < u /\ s # 0 => v = b
  <2>1. s # 0 => Base(u - 1) = Base(u)
    BY <1>6, <1>9, BlockBefore
  <2> QED
    BY <1>5, <1>6, <1>8, <1>9, <2>1
<1>11. Lookup <=> (s = 0 \/ b = none)
  BY <1>3, <1>4, <1>9 DEF Lookup
<1>12. (IF Lookup THEN BlockOfIndex ELSE producer.block) = v
  <2>1. BlockOfIndex = v
    BY <1>3, <1>9 DEF BlockOfIndex, Home, Ring, TailAt
  <2> QED
    BY <1>4, <1>7, <1>10, <1>11, <2>1, <1>3
<1>13. PICK r1 : r1 = IF (s = 0 \/ b = none) /\ b # none THEN Append(r, b) ELSE r
  OBVIOUS
<1>14. /\ producer' = [producer EXCEPT !.index = u + 1, !.block = v,
                                       !.destroyed = Append(g, elements[v][s]),
                                       !.returned = r1]
       /\ elements' = [elements EXCEPT ![v][s] = Nil]
  BY <1>3, <1>4, <1>9, <1>11, <1>12, <1>13 DEF DestroyElement
<1>15. ElementsRight(u)
  BY <1>2, <1>3 DEF Destroying
<1>16. elements[v][s] = u
  <2>1. \A i \in u .. t - 1 : elements[Home(i)][i % BLOCK_SIZE] = i
    BY <1>3, <1>15 DEF ElementsRight
  <2>2. u \in u .. t - 1
    BY <1>3
  <2>3. elements[Home(u)][u % BLOCK_SIZE] = u
    BY <2>1, <2>2
  <2> QED
    BY <1>9, <2>3
<1>17. /\ producer \in Shown /\ Append(g, u) \in Seq(Nat) /\ u + 1 \in Nat
  <2>1. producer \in Shown
    BY <1>2 DEF Destroying
  <2>2. Append(g, u) \in Seq(Nat)
    BY <1>4
  <2> QED
    BY <2>1, <2>2
<1>18. Passed(u) = {Home(i) : i \in h .. u - 1} /\ Passed(u + 1) = Passed(u) \cup {v}
  <2>1. h .. u + 1 - 1 = (h .. u - 1) \cup {u}
    BY <1>3
  <2> QED
    BY <1>3, <1>9, <2>1 DEF Passed
<1>19. IsInjective(r) /\ Range(r) = Passed(u) \ {b}
  BY <1>2, <1>3, <1>4 DEF Destroying
<1>20. r1 \in Seq(Block) /\ IsInjective(r1) /\ Range(r1) = Passed(u + 1) \ {v}
  <2>1. CASE u = h
    <3>1. Passed(u) = {} /\ b = none
      BY <1>3, <1>7, <1>18, <2>1
    <3> QED
      BY <1>4, <1>13, <1>18, <1>19, <3>1
  <2>2. CASE h < u /\ s # 0
    <3>1. v = b /\ v # none
      BY <1>8, <1>10, <2>2
    <3>2. v \in Passed(u)
      BY <1>6, <1>8, <1>18, <2>2, <3>1, <1>3
    <3> QED
      BY <1>4, <1>13, <1>18, <1>19, <2>2, <3>1, <3>2
  <2>3. CASE h < u /\ s = 0
    <3>1. r1 = Append(r, b) /\ b \in Block /\ b \notin Range(r)
      BY <1>8, <1>13, <1>19, <2>3
    <3>2. r1 \in Seq(Block) /\ IsInjective(r1) /\ Range(r1) = Range(r) \cup {b}
      BY <1>4, <1>19, <3>1, AppendedOnce
    <3>3. b \in Passed(u)
      BY <1>3, <1>6, <1>8, <1>18, <2>3
    <3>4. v \notin Passed(u)
      <4>1. \A i \in h .. u - 1 : Base(i) # Base(u)
        BY <1>3, <1>9, <2>3, SameBlock
      <4>2. \A i \in h .. u - 1 : i \in h .. t - 1
        BY <1>3
      <4>3. \A i \in h .. u - 1 : Home(i) # Home(u)
        BY <1>5, <1>6, <4>1, <4>2
      <4> QED
        BY <1>9, <1>18, <4>3
    <3> QED
      BY <1>18, <1>19, <3>2, <3>3, <3>4
  <2> QED
    BY <1>3, <2>1, <2>2, <2>3
<1>21. PICK q : /\ q = producer' /\ q \in Shown /\ q.pc = "destroy" /\ q.tailBlock = producer.tailBlock
                /\ q.index = u + 1 /\ q.block = v /\ q.destroyed = Append(g, u) /\ q.returned = r1
  <2>1. PICK p : p = producer /\ p \in Shown
    BY <1>17
  <2>2. producer' = [p EXCEPT !.index = u + 1, !.block = v, !.destroyed = Append(g, u), !.returned = r1]
    BY <1>14, <1>16, <2>1
  <2>3. Append(g, u) \in Seq(Nat) /\ r1 \in Seq(Block) /\ u + 1 \in Nat /\ v \in Block \cup {none}
    BY <1>17, <1>20
  <2> QED
    <3>1. p.pc = "destroy" /\ p.tailBlock = producer.tailBlock
      BY <1>1, <2>1
    <3>2. PICK i \in Nat, d \in Seq(Nat) : i = u + 1 /\ d = Append(g, u)
      BY <2>3
    <3>3. PICK q : /\ q = producer'
                   /\ q = [p EXCEPT !.index = i, !.block = v, !.destroyed = d, !.returned = r1]
      BY <2>2, <3>2
    <3>4. /\ q \in Shown /\ q.pc = "destroy" /\ q.tailBlock = p.tailBlock
          /\ q.index = i /\ q.block = v /\ q.destroyed = d /\ q.returned = r1
      <4>1. /\ p \in Shown /\ i \in Nat /\ v \in Block \cup {none} /\ d \in Seq(Nat)
            /\ r1 \in Seq(Block) /\ p.pc = "destroy"
        BY <2>1, <2>3, <3>1
      <4> QED
        BY <3>3, <4>1 DEF Shown
    <3> QED
      BY <3>1, <3>2, <3>3, <3>4
<1>22. Append(g, u) = [k \in 1 .. u + 1 - h |-> h + k - 1]
  <2>1. g = [k \in 1 .. u - h |-> h + k - 1]
    BY <1>2, <1>3, <1>4 DEF Destroying
  <2> QED
    BY <1>3, <2>1, OneMore
<1>23. (\A i : Home(i)' = Home(i)) /\ RingWhole'
  BY <1>1, <1>2, SameHomes
<1>24. HomesRight'
  BY <1>1, <1>2, <1>21, <1>23 DEF HomesRight, Remaining, Partial
<1>25. ElementsRight(u + 1)'
  <2>1. elements \in [Block -> [Slot -> Nat \cup {Nil}]]
    BY <1>15 DEF ElementsRight
  <2>2. PICK e : e = elements' /\ e = [elements EXCEPT ![v][s] = Nil]
    BY <1>14
  <2>3. e \in [Block -> [Slot -> Nat \cup {Nil}]]
    BY <1>9, <2>1, <2>2
  <2>4. \A a \in Block, j \in Slot : e[a][j] = IF a = v /\ j = s THEN Nil ELSE elements[a][j]
    BY <1>9, <2>1, <2>2
  <2>5. ASSUME NEW i \in u + 1 .. t - 1 PROVE e[Home(i)][i % BLOCK_SIZE] = i
    <3>1. i \in Int /\ i \in h .. t - 1 /\ i \in u .. t - 1 /\ i # u
      BY <1>3
    <3>2. Home(i) \in Block /\ i % BLOCK_SIZE \in Slot
      BY <1>5, <3>1, BlockOf
    <3>3. ~(Home(i) = v /\ i % BLOCK_SIZE = s)
      BY <1>5, <1>6, <1>9, <3>1, SameBlock
    <3>4. elements[Home(i)][i % BLOCK_SIZE] = i
      BY <1>3, <1>15, <3>1 DEF ElementsRight
    <3> QED
      BY <2>4, <3>2, <3>3, <3>4
  <2>6. ASSUME NEW a \in Block, NEW j \in Slot
        PROVE  \/ e[a][j] = Nil
               \/ \E i \in u + 1 .. t - 1 : Home(i) = a /\ i % BLOCK_SIZE = j
    <3>1. CASE a = v /\ j = s
      BY <2>4, <3>1
    <3>2. CASE ~(a = v /\ j = s) /\ elements[a][j] # Nil
      <4>1. PICK i \in u .. t - 1 : Home(i) = a /\ i % BLOCK_SIZE = j
        BY <1>3, <1>15, <3>2 DEF ElementsRight
      <4>2. i # u
        BY <1>9, <3>2, <4>1
      <4>3. i \in u + 1 .. t - 1
        BY <1>3, <4>2
      <4> QED
        BY <4>1, <4>3
    <3> QED
      BY <2>4, <3>1, <3>2
  <2>7. tailIndex' = t /\ e = elements'
    BY <1>1, <1>3, <2>2
  <2>8. \A i \in u + 1 .. t - 1 : e[Home(i)'][i % BLOCK_SIZE] = i
    BY <1>23, <2>5
  <2>9. \A a \in Block, j \in Slot :
            \/ e[a][j] = Nil
            \/ \E i \in u + 1 .. t - 1 : Home(i)' = a /\ i % BLOCK_SIZE = j
    BY <1>23, <2>6
  <2> QED
    BY <2>3, <2>7, <2>8, <2>9 DEF ElementsRight
<1>26. Passed(u + 1)' = Passed(u + 1)
  BY <1>1, <1>23 DEF Passed
<1>27. Destroying'
  <2>1. q.index \in headIndex .. tailIndex
    BY <1>3, <1>21
  <2>2. q.destroyed = [k \in 1 .. q.index - headIndex |-> headIndex + k - 1]
    BY <1>3, <1>21, <1>22
  <2>3. ElementsRight(producer.index)'
    BY <1>21, <1>25
  <2>4. q.block = IF q.index = headIndex THEN none ELSE Home(q.index - 1)'
    <3>1. u + 1 # h /\ u + 1 - 1 = u
      BY <1>3
    <3> QED
      BY <1>3, <1>9, <1>21, <1>23, <3>1
  <2>5. IsInjective(q.returned) /\ Range(q.returned) = Passed(q.index)' \ {q.block}
    BY <1>20, <1>21, <1>26
  <2> QED
    BY <1>1, <1>21, <2>1, <2>2, <2>3, <2>4, <2>5 DEF Destroying
<1>28. DestroyedOnce'
  BY <1>21 DEF DestroyedOnce, RemainderDestroyed, BlocksReturnedOnce, EntriesDestroyedOnce
<1> QED
  BY <1>1, <1>2, <1>21, <1>23, <1>24, <1>27, <1>28 DEF DInv

LEMMA FreeTailBlockStep ==
    ASSUME DInv, FreeTailBlock
    PROVE  DInv' /\ producer'.pc = "destroyed"
<1>1. /\ producer.pc = "destroy" /\ producer.index = tailIndex
      /\ UNCHANGED <<headIndex, tailIndex, blockIndex, headers, entries, elements, free, consumer>>
  BY DEF FreeTailBlock, counters, index, blocks
<1>2. Destroying /\ HomesRight /\ RingWhole /\ \A c \in Consumer : consumer[c].pc = "over"
  BY <1>1 DEF DInv
<1>3. PICK h \in Nat, t \in Nat : h = headIndex /\ t = tailIndex /\ h <= t
  BY DEF DInv
<1>4. PICK r \in Seq(Block), b \in Block \cup {none}, l \in Block \cup {none} :
          r = producer.returned /\ b = producer.block /\ l = producer.tailBlock
  BY <1>2 DEF Destroying, Shown
<1>5. PICK r1 : r1 = IF l # none /\ TailBlockLeft THEN Append(r, l) ELSE r
  OBVIOUS
<1>6. /\ producer'.pc = "destroyed" /\ producer'.tailBlock = l
      /\ producer'.destroyed = producer.destroyed /\ producer'.returned = r1
  <2>1. PICK p : p = producer /\ p \in Shown
    BY <1>2 DEF Destroying
  <2>2. producer' = [p EXCEPT !.pc = "destroyed", !.returned = r1]
    BY <1>4, <1>5, <2>1 DEF FreeTailBlock
  <2> QED
    BY <1>4, <2>1, <2>2 DEF Shown
<1>7. b = IF t = h THEN none ELSE Home(t - 1)
  BY <1>1, <1>2, <1>3, <1>4 DEF Destroying
<1>8. Passed(t) = {Home(i) : i \in h .. t - 1}
  BY <1>3 DEF Passed
<1>9. IsInjective(r) /\ Range(r) = Passed(t) \ {b}
  BY <1>1, <1>2, <1>3, <1>4 DEF Destroying
<1>10. /\ \A i \in h .. t - 1 : Home(i) \in Block \ free
       /\ \A a \in Block \ free : a \in Passed(t) \/ (Partial /\ a = l)
       /\ h < t => l = Home(t - 1)
       /\ Partial => l \in Block \ free
  BY <1>2, <1>3, <1>4, <1>8 DEF HomesRight, Remaining
<1>11. Passed(t) \subseteq Block \ free
  BY <1>8, <1>10
<1>12. Partial <=> h = t /\ t % BLOCK_SIZE # 0
  BY <1>3 DEF Partial
<1>13. TailBlockLeft <=> h < t \/ Partial
  BY <1>3, <1>12 DEF TailBlockLeft
<1>14. IsInjective(r1) /\ Range(r1) = Block \ free
  <2>1. CASE h < t \/ Partial
    <3>1. l \in Block /\ l # none /\ l \notin Range(r)
      <4>1. CASE h < t
        <5>1. t - 1 \in h .. t - 1 /\ t # h
          BY <1>3, <4>1
        <5> QED
          BY <1>7, <1>9, <1>10, <4>1, <5>1
      <4>2. CASE Partial
        BY <1>8, <1>9, <1>10, <1>12, <1>3, <4>2
      <4> QED
        BY <2>1, <4>1, <4>2
    <3>2. r1 = Append(r, l)
      BY <1>5, <1>13, <2>1, <3>1
    <3>3. IsInjective(r1) /\ Range(r1) = Range(r) \cup {l}
      BY <1>9, <3>1, <3>2, AppendedOnce
    <3>4. (Passed(t) \ {b}) \cup {l} = Block \ free
      <4>1. CASE h < t
        <5>1. t - 1 \in h .. t - 1 /\ t # h /\ ~Partial
          BY <1>3, <1>12, <4>1
        <5>2. b = l /\ l \in Passed(t)
          BY <1>7, <1>8, <1>10, <4>1, <5>1
        <5> QED
          BY <1>10, <1>11, <5>1, <5>2
      <4>2. CASE Partial
        <5>1. h .. t - 1 = {}
          BY <1>3, <1>12, <4>2
        <5>2. Passed(t) = {}
          BY <1>8, <5>1
        <5> QED
          BY <1>10, <4>2, <5>2
      <4> QED
        BY <2>1, <4>1, <4>2
    <3> QED
      BY <1>9, <3>3, <3>4
  <2>2. CASE ~(h < t \/ Partial)
    <3>1. h .. t - 1 = {}
      BY <1>3, <2>2
    <3>2. Passed(t) = {}
      BY <1>8, <3>1
    <3>3. Block \ free = {}
      BY <1>10, <2>2, <3>2
    <3> QED
      BY <1>5, <1>9, <1>13, <2>2, <3>2, <3>3
  <2> QED
    BY <2>1, <2>2
<1>15. BlocksReturnedOnce'
  BY <1>1, <1>6, <1>14 DEF BlocksReturnedOnce
<1>16. RemainderDestroyed'
  <2>1. producer.destroyed = [k \in 1 .. tailIndex - headIndex |-> headIndex + k - 1]
    BY <1>1, <1>2 DEF Destroying
  <2>2. \A a \in Block : \A j \in Slot : elements[a][j] = Nil
    <3>1. ElementsRight(t) /\ t .. tailIndex - 1 = {}
      BY <1>1, <1>2, <1>3 DEF Destroying
    <3> QED
      BY <3>1 DEF ElementsRight
  <2> QED
    BY <1>1, <1>6, <2>1, <2>2 DEF RemainderDestroyed, Slot
<1>17. (\A i : Home(i)' = Home(i)) /\ RingWhole'
  BY <1>1, <1>2, SameHomes
<1>18. EntriesDestroyedOnce'
  BY <1>17 DEF EntriesDestroyedOnce, RingWhole, Ring
<1>19. HomesRight'
  BY <1>1, <1>2, <1>4, <1>6, <1>17 DEF HomesRight, Remaining, Partial
<1> QED
  BY <1>1, <1>2, <1>3, <1>6, <1>15, <1>16, <1>17, <1>18, <1>19 DEF DInv, DestroyedOnce

LEMMA DestroyingUnchanged == ASSUME DInv, UNCHANGED vars PROVE DInv' /\ producer' = producer
<1>1. /\ UNCHANGED <<headIndex, tailIndex, blockIndex, headers, entries, elements, free, producer>>
      /\ consumer' = consumer
  BY DEF vars, counters, index, blocks
<1>2. (\A i : Home(i)' = Home(i)) /\ (RingWhole => RingWhole')
  BY <1>1, SameHomes
<1>3. HomesRight => HomesRight'
  BY <1>1, <1>2 DEF HomesRight, Remaining, Partial
<1>4. Destroying => Destroying'
  <2>1. PICK p : p = producer /\ p = producer'
    BY <1>1
  <2>2. ElementsRight(p.index) => ElementsRight(p.index)'
    BY <1>1, <1>2 DEF ElementsRight
  <2>3. Passed(p.index)' = Passed(p.index)
    BY <1>1, <1>2 DEF Passed
  <2>4. Home(p.index - 1)' = Home(p.index - 1)
    BY <1>2
  <2> QED
    BY <1>1, <2>1, <2>2, <2>3, <2>4 DEF Destroying
<1>5. DestroyedOnce => DestroyedOnce'
  BY <1>1 DEF DestroyedOnce, RemainderDestroyed, BlocksReturnedOnce, EntriesDestroyedOnce
<1> QED
  BY <1>1, <1>2, <1>3, <1>4, <1>5 DEF DInv

\* ~ImplicitProducer: it destroys what was not dequeued, once and in order, and every
\* block the sub-queue still has goes to the free list once, wherever headIndex and
\* tailIndex stand in their blocks; no entry of the index is freed twice or left.
THEOREM DestroyedOnceCorrect == TeardownSpec => []DestroyedOnce
<1>1. Init => TInv
  BY CountersInit, BlocksInit, AccountedInit DEF TInv, BInv, BRest, Init
<1>2. TInv /\ [TeardownNext]_vars => TInv'
  <2> SUFFICES ASSUME TInv, [TeardownNext]_vars PROVE TInv'
    OBVIOUS
  <2>1. CASE producer.pc \in {"destroy", "destroyed"}
    <3>1. DInv /\ ~Next
      BY <2>1, NotRunning DEF TInv
    <3>2. ~StartDestroy
      BY <2>1 DEF StartDestroy
    <3>3. Over => UNCHANGED vars
      BY DEF Over
    <3> QED
      BY <2>1, <3>1, <3>2, <3>3, DestroyElementStep, FreeTailBlockStep, DestroyingUnchanged
         DEF TeardownNext, TInv
  <2>2. CASE producer.pc \notin {"destroy", "destroyed"}
    <3>1. BInv /\ Accounted
      BY <2>2 DEF TInv
    <3>2. ~DestroyElement /\ ~FreeTailBlock /\ ~Over
      BY <2>2 DEF DestroyElement, FreeTailBlock, Over
    <3>3. CASE StartDestroy
      BY <3>1, <3>3, StartDestroyStep DEF TInv
    <3>4. CASE [Next]_vars
      <4>1. BInv' /\ Accounted'
        BY <3>1, <3>4, RunningStep
      <4>2. producer'.pc \notin {"destroy", "destroyed"}
        BY <4>1 DEF BInv, IndexRight, ProducerRight, Starting
      <4> QED
        BY <4>1, <4>2 DEF TInv
    <3> QED
      BY <3>2, <3>3, <3>4 DEF TeardownNext
  <2> QED
    BY <2>1, <2>2
<1>3. TInv => DestroyedOnce
  BY DEF TInv, DInv, DestroyedOnce, RemainderDestroyed, BlocksReturnedOnce, EntriesDestroyedOnce
<1> QED
  BY <1>1, <1>2, <1>3, PTL DEF TeardownSpec
=============================================================================
