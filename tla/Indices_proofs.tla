--------------------------- MODULE Indices_proofs ---------------------------
(***************************************************************************)
(* That the arithmetic of a sub-queue is right wherever its indices come   *)
(* round, for every width of the indices, every size of the blocks and of  *)
(* the first block index, and any number of consumers fewer than half of   *)
(* the indices.                                                            *)
(*                                                                         *)
(* Every number of the queue is the remainder of one that never comes      *)
(* round: T messages were enqueued and H claimed, and V reservations given *)
(* back.  What the code compares lies less than half of the width apart.   *)
(***************************************************************************)
EXTENDS Indices, FiniteSetTheorems, TLAPS

LEMMA Positive ==
    /\ BLOCK_SIZE \in Nat \ {0} /\ BLOCK_SIZE >= 2
    /\ Half \in Nat \ {0} /\ InitialCapacity \in Nat \ {0} /\ InitialCapacity >= 2
BY WidthsAssumption DEF WidthsAssumption

USE Positive

-----------------------------------------------------------------------------
(* Arithmetic.                                                             *)

LEMMA Divided ==
    ASSUME NEW n \in Nat \ {0}, NEW i \in Int
    PROVE  /\ i \div n \in Int /\ i % n \in 0 .. n - 1
           /\ i = n * (i \div n) + (i % n)
OBVIOUS

\* A product that lies between -n and n.
LEMMA SmallProduct ==
    ASSUME NEW n \in Nat, NEW k \in Int, n * k > -n, n * k < n
    PROVE  k = 0
<1>1. CASE k >= 1
  <2>1. n * k = n + n * (k - 1)
    OBVIOUS
  <2>2. n * (k - 1) >= 0
    BY <1>1
  <2> QED
    BY <1>1, <2>1, <2>2
<1>2. CASE k <= -1
  <2>1. n * k = -n - n * (-1 - k)
    OBVIOUS
  <2>2. n * (-1 - k) >= 0
    BY <1>2
  <2> QED
    BY <1>2, <2>1, <2>2
<1> QED
  BY <1>1, <1>2

LEMMA Remainder ==
    ASSUME NEW n \in Nat \ {0}, NEW k \in Int, NEW r \in 0 .. n - 1
    PROVE  (r + n * k) % n = r /\ (r + n * k) \div n = k
<1>1. PICK d \in Int : d = (r + n * k) \div n
  OBVIOUS
<1>2. PICK m \in 0 .. n - 1 : m = (r + n * k) % n
  OBVIOUS
<1>3. r + n * k = n * d + m
  BY <1>1, <1>2
<1>4. n * (k - d) = m - r
  BY <1>3
<1>5. k - d = 0
  BY <1>4, SmallProduct
<1> QED
  BY <1>1, <1>2, <1>4, <1>5

LEMMA Quotient ==
    ASSUME NEW n \in Nat \ {0}, NEW i \in Int
    PROVE  \E q \in Int, r \in 0 .. n - 1, f \in Int :
               q = i \div n /\ r = i % n /\ f = n * q /\ i = f + r
<1>0. n * (i \div n) \in Int
  OBVIOUS
<1>1. i \div n \in Int /\ i % n \in 0 .. n - 1 /\ i = n * (i \div n) + (i % n)
  BY Divided
<1> QED
  BY <1>0, <1>1, Zenon

\* Numbers that are whole turns apart have the same remainder.
LEMMA Turns ==
    ASSUME NEW n \in Nat \ {0}, NEW i \in Int, NEW j \in Int, NEW k \in Int, i = j + n * k
    PROVE  i % n = j % n
<1>1. PICK q \in Int, r \in 0 .. n - 1, f \in Int :
          q = j \div n /\ r = j % n /\ f = n * q /\ j = f + r
  BY Quotient
<1>2. PICK m \in Int : m = q + k
  OBVIOUS
<1>3. i = r + n * m
  BY <1>1, <1>2
<1> QED
  BY <1>1, <1>3, Remainder

LEMMA SmallRemainder ==
    ASSUME NEW n \in Nat \ {0}, NEW i \in Int, -n <= i, i < n
    PROVE  i % n = IF i >= 0 THEN i ELSE i + n
<1>1. CASE i >= 0
  <2>1. i = i + n * 0 /\ i \in 0 .. n - 1
    BY <1>1
  <2> QED
    BY <1>1, <2>1, Remainder
<1>2. CASE i < 0
  <2>1. i = (i + n) + n * (-1) /\ i + n \in 0 .. n - 1
    BY <1>2
  <2> QED
    BY <1>2, <2>1, Remainder
<1> QED
  BY <1>1, <1>2

LEMMA Sums ==
    ASSUME NEW n \in Nat \ {0}, NEW i \in Int, NEW j \in Int
    PROVE  /\ ((i % n) + j) % n = (i + j) % n
           /\ ((i % n) - (j % n)) % n = (i - j) % n
<1>1. PICK p \in Int, r \in 0 .. n - 1, f \in Int :
          p = i \div n /\ r = i % n /\ f = n * p /\ i = f + r
  BY Quotient
<1>2. PICK q \in Int, s \in 0 .. n - 1, g \in Int :
          q = j \div n /\ s = j % n /\ g = n * q /\ j = g + s
  BY Quotient
<1>3. PICK k \in Int : k = p - q
  OBVIOUS
<1>4. i + j = (r + j) + n * p /\ i - j = (r - s) + n * k
  <2>1. n * k = f - g
    BY <1>1, <1>2, <1>3
  <2>2. i - j = (r - s) + (f - g) /\ i + j = (r + j) + f
    BY <1>1, <1>2
  <2> QED
    BY <1>1, <2>1, <2>2
<1>5. (i + j) % n = (r + j) % n
  <2>1. PICK x \in Int, y \in Int : x = i + j /\ y = r + j /\ x = y + n * p
    BY <1>4
  <2>2. x % n = y % n
    BY <2>1, Turns
  <2> QED
    BY <2>1, <2>2
<1>6. (i - j) % n = (r - s) % n
  <2>1. PICK x \in Int, y \in Int : x = i - j /\ y = r - s /\ x = y + n * k
    BY <1>4
  <2>2. x % n = y % n
    BY <2>1, Turns
  <2> QED
    BY <2>1, <2>2
<1> QED
  BY <1>1, <1>2, <1>5, <1>6

-----------------------------------------------------------------------------
(* Indices and blocks.                                                     *)

Nth(k) == BLOCK_SIZE * k
Num(i) == i \div BLOCK_SIZE

\* Half of the blocks that there are indices for.
Turn == Half \div BLOCK_SIZE

LEMMA WidthFacts ==
    /\ Turn \in Nat /\ Turn >= 2 /\ Half = Nth(Turn) /\ Width = Nth(2 * Turn)
    /\ Width \in Nat \ {0} /\ BLOCK_SIZE <= Half
    /\ Width \div BLOCK_SIZE = 2 * Turn
    /\ InitialCapacity <= Turn /\ (2 * Turn) % InitialCapacity = 0
<1>1. PICK m \in Int : m = Turn /\ Half = BLOCK_SIZE * m
  <2>1. Half \div BLOCK_SIZE \in Int /\ Half = BLOCK_SIZE * (Half \div BLOCK_SIZE) + (Half % BLOCK_SIZE)
    BY Divided
  <2>2. Half % BLOCK_SIZE = 0
    BY PowersOfTwoAssumption DEF PowersOfTwoAssumption
  <2> QED
    BY <2>1, <2>2 DEF Turn
<1>2. PICK q \in Int : m = InitialCapacity * q
  <2>1. m % InitialCapacity = 0
    BY <1>1, PowersOfTwoAssumption DEF PowersOfTwoAssumption, Turn
  <2>2. m \div InitialCapacity \in Int /\ m = InitialCapacity * (m \div InitialCapacity) + (m % InitialCapacity)
    BY Divided
  <2> QED
    BY <2>1, <2>2
<1>3. m >= 1
  <2>1. m <= 0 => BLOCK_SIZE * m <= 0
    OBVIOUS
  <2> QED
    BY <1>1, <2>1
<1>4. q >= 1
  <2>1. q <= 0 => InitialCapacity * q <= 0
    OBVIOUS
  <2> QED
    BY <1>2, <1>3, <2>1
<1>5. InitialCapacity <= m
  <2>1. InitialCapacity * q = InitialCapacity + InitialCapacity * (q - 1)
    OBVIOUS
  <2>2. InitialCapacity * (q - 1) >= 0
    BY <1>4
  <2> QED
    BY <1>2, <2>1, <2>2
<1>6. BLOCK_SIZE <= Half
  <2>1. BLOCK_SIZE * m = BLOCK_SIZE + BLOCK_SIZE * (m - 1)
    OBVIOUS
  <2>2. BLOCK_SIZE * (m - 1) >= 0
    BY <1>3
  <2> QED
    BY <1>1, <2>1, <2>2
<1>7. (2 * m) % InitialCapacity = 0
  <2>1. PICK i \in Int, k \in Int : i = 2 * m /\ k = 2 * q /\ i = 0 + InitialCapacity * k
    BY <1>2
  <2>2. 0 \in 0 .. InitialCapacity - 1 /\ InitialCapacity \in Nat \ {0}
    OBVIOUS
  <2> QED
    BY <2>1, <2>2, Remainder
<1>8. Width = BLOCK_SIZE * (2 * m)
  BY <1>1 DEF Width
<1>9. Width \div BLOCK_SIZE = 2 * m
  <2>1. PICK k \in Int : k = 2 * m /\ Width = 0 + BLOCK_SIZE * k
    BY <1>8
  <2>2. 0 \in 0 .. BLOCK_SIZE - 1 /\ BLOCK_SIZE \in Nat \ {0}
    OBVIOUS
  <2> QED
    BY <2>1, <2>2, Remainder
<1> QED
  BY <1>1, <1>3, <1>5, <1>6, <1>7, <1>8, <1>9 DEF Nth, Width

LEMMA BlockOf ==
    ASSUME NEW i \in Int
    PROVE  /\ Num(i) \in Int /\ Nth(Num(i)) \in Int /\ i % BLOCK_SIZE \in 0 .. BLOCK_SIZE - 1
           /\ i = Nth(Num(i)) + (i % BLOCK_SIZE)
BY Divided DEF Num, Nth

LEMMA Located ==
    ASSUME NEW i \in Int
    PROVE  \E k \in Int, r \in 0 .. BLOCK_SIZE - 1, f \in Int :
               k = Num(i) /\ r = i % BLOCK_SIZE /\ f = BLOCK_SIZE * k /\ i = f + r
BY Quotient DEF Num

\* The block that an index lies in is known by its bounds.
LEMMA InBlock ==
    ASSUME NEW k \in Int, NEW i \in Int, Nth(k) <= i, i < Nth(k) + BLOCK_SIZE
    PROVE  Num(i) = k /\ i % BLOCK_SIZE = i - Nth(k)
<1>1. PICK r \in 0 .. BLOCK_SIZE - 1 : i = r + BLOCK_SIZE * k
  <2>1. i - Nth(k) \in 0 .. BLOCK_SIZE - 1
    BY DEF Nth
  <2> QED
    BY <2>1 DEF Nth
<1>2. BLOCK_SIZE \in Nat \ {0}
  OBVIOUS
<1> QED
  BY <1>1, <1>2, Remainder DEF Num, Nth

LEMMA NumGrows ==
    ASSUME NEW i \in Int, NEW j \in Int, i <= j
    PROVE  Num(i) <= Num(j)
<1>1. PICK a \in Int, r \in 0 .. BLOCK_SIZE - 1, fa \in Int :
          a = Num(i) /\ r = i % BLOCK_SIZE /\ fa = BLOCK_SIZE * a /\ i = fa + r
  BY Located
<1>2. PICK b \in Int, s \in 0 .. BLOCK_SIZE - 1, fb \in Int :
          b = Num(j) /\ s = j % BLOCK_SIZE /\ fb = BLOCK_SIZE * b /\ j = fb + s
  BY Located
<1>3. a > b => BLOCK_SIZE * (a - b - 1) >= 0
  OBVIOUS
<1>4. BLOCK_SIZE * (a - b - 1) = fa - fb - BLOCK_SIZE
  BY <1>1, <1>2
<1>5. a > b => fa - fb - BLOCK_SIZE >= 0
  BY <1>3, <1>4
<1>6. fa - fb <= s - r /\ s - r < BLOCK_SIZE
  <2>1. fa + r <= fb + s
    BY <1>1, <1>2, Zenon
  <2>2. r >= 0 /\ s < BLOCK_SIZE /\ r \in Int /\ s \in Int
    OBVIOUS
  <2> QED
    BY <2>1, <2>2
<1>7. a <= b
  BY <1>5, <1>6
<1> QED
  BY <1>1, <1>2, <1>7

\* The index after i, in its block or the next.
LEMMA NextIndex ==
    ASSUME NEW i \in Int
    PROVE  IF i % BLOCK_SIZE = BLOCK_SIZE - 1
           THEN Num(i + 1) = Num(i) + 1 /\ (i + 1) % BLOCK_SIZE = 0
           ELSE Num(i + 1) = Num(i) /\ (i + 1) % BLOCK_SIZE = (i % BLOCK_SIZE) + 1
<1>1. PICK a \in Int, r \in 0 .. BLOCK_SIZE - 1, fa \in Int :
          a = Num(i) /\ r = i % BLOCK_SIZE /\ fa = BLOCK_SIZE * a /\ i = fa + r
  BY Located
<1>2. PICK j \in Int, b \in Int : j = i + 1 /\ b = a + 1
  OBVIOUS
<1>0. BLOCK_SIZE * b = fa + BLOCK_SIZE
  <2>1. BLOCK_SIZE * (a + 1) = BLOCK_SIZE * a + BLOCK_SIZE
    OBVIOUS
  <2> QED
    BY <1>1, <1>2, <2>1
<1>3. CASE r = BLOCK_SIZE - 1
  <2>1. j = 0 + BLOCK_SIZE * b /\ 0 \in 0 .. BLOCK_SIZE - 1
    BY <1>0, <1>1, <1>2, <1>3
  <2>2. j % BLOCK_SIZE = 0 /\ j \div BLOCK_SIZE = b
    BY <2>1, Remainder
  <2> QED
    BY <1>1, <1>2, <1>3, <2>2 DEF Num
<1>4. CASE r # BLOCK_SIZE - 1
  <2>1. PICK s \in 0 .. BLOCK_SIZE - 1 : s = r + 1
    BY <1>4
  <2>2. j = s + fa
    <3>1. i = fa + r /\ fa \in Int /\ r \in Int
      BY <1>1
    <3>2. j = i + 1 /\ s = r + 1
      BY <1>2, <2>1
    <3> QED
      BY <3>1, <3>2
  <2>3. j % BLOCK_SIZE = s /\ j \div BLOCK_SIZE = a
    BY <1>1, <2>2, Remainder
  <2> QED
    BY <1>1, <1>2, <1>4, <2>1, <2>3 DEF Num
<1> QED
  BY <1>3, <1>4

-----------------------------------------------------------------------------
(* Indices that come round.                                                *)

LEMMA Wraps ==
    ASSUME NEW i \in Int, NEW j \in Int
    PROVE  /\ i % Width \in Index
           /\ Plus(i % Width, j) = (i + j) % Width
           /\ Minus(i % Width, j % Width) = (i - j) % Width
BY WidthFacts, Sums, Divided DEF Index, Plus, Minus

LEMMA Compared ==
    ASSUME NEW i \in Int, NEW j \in Int, -Half < i - j, i - j <= Half
    PROVE  circular_less_than(i % Width, j % Width) <=> i < j
<1>1. circular_less_than(i % Width, j % Width) <=> (i - j) % Width > Half
  BY Wraps DEF circular_less_than
<1>2. PICK d \in Int : d = i - j
  OBVIOUS
<1>3. Width \in Nat \ {0} /\ -Width <= d /\ d < Width
  BY <1>2, WidthFacts DEF Width
<1>4. d % Width = IF d >= 0 THEN d ELSE d + Width
  BY <1>3, SmallRemainder
<1> QED
  BY <1>1, <1>2, <1>4 DEF Width

\* Coming round does not change the place in a block.
LEMMA PlaceKept ==
    ASSUME NEW i \in Int
    PROVE  /\ (i % Width) % BLOCK_SIZE = i % BLOCK_SIZE
           /\ Base(i % Width) = Nth(Num(i)) % Width
<1>0. Width \in Nat \ {0}
  BY WidthFacts
<1>1. PICK q \in Int, r \in 0 .. Width - 1, w \in Int :
          q = i \div Width /\ r = i % Width /\ w = Width * q /\ i = w + r
  BY WidthFacts, Quotient
<1>2. PICK t \in Int : Width = BLOCK_SIZE * t
  BY WidthFacts DEF Nth
<1>3. PICK k \in Int : k = t * q
  OBVIOUS
<1>4. i = r + BLOCK_SIZE * k
  <2>1. (BLOCK_SIZE * t) * q = BLOCK_SIZE * k
    BY <1>3
  <2>2. w = BLOCK_SIZE * k
    BY <1>1, <1>2, <2>1
  <2> QED
    BY <1>1, <2>2
<1>5. i % BLOCK_SIZE = r % BLOCK_SIZE
  <2>1. r \in Int
    OBVIOUS
  <2> QED
    BY <1>4, <2>1, Turns
<1>6. PICK a \in Int, p \in 0 .. BLOCK_SIZE - 1, fa \in Int :
          a = Num(i) /\ p = i % BLOCK_SIZE /\ fa = BLOCK_SIZE * a /\ i = fa + p
  BY Located
<1>7. PICK g \in Int, s \in 0 .. BLOCK_SIZE - 1, fg \in Int :
          g = Num(r) /\ s = r % BLOCK_SIZE /\ fg = BLOCK_SIZE * g /\ r = fg + s
  BY Located
<1>8. PICK b \in Int : b = Base(r) /\ b = r - p
  BY <1>5, <1>6 DEF Base
<1>9. g >= 0
  <2>1. g <= -1 => BLOCK_SIZE * (-1 - g) >= 0
    OBVIOUS
  <2>2. BLOCK_SIZE * (-1 - g) = -BLOCK_SIZE - fg
    BY <1>7
  <2> QED
    BY <1>7, <2>1, <2>2
<1>10. b \in 0 .. Width - 1
  <2>1. b = fg
    BY <1>5, <1>6, <1>7, <1>8
  <2>2. fg >= 0
    BY <1>7, <1>9
  <2>3. PICK w0 \in Int : w0 = Width /\ r < w0
    BY <1>0
  <2>4. b <= r
    <3>1. p >= 0 /\ r \in Int /\ p \in Int
      OBVIOUS
    <3> QED
      BY <1>8, <3>1
  <2> QED
    BY <2>1, <2>2, <2>3, <2>4
<1>11. PICK f \in Int : f = Nth(Num(i)) /\ f = i - p
  BY <1>6 DEF Nth
<1>12. f = b + Width * q
  <2>1. f = b + w
    BY <1>0, <1>1, <1>8, <1>11
  <2> QED
    BY <1>1, <2>1
<1>13. f % Width = b
  BY <1>10, <1>12, WidthFacts, Remainder
<1> QED
  BY <1>1, <1>5, <1>8, <1>11, <1>13

\* The key of a block is never the one of an entry that was not used.
LEMMA KeyValid == ASSUME NEW k \in Int PROVE Nth(k) % Width # INVALID_BLOCK_BASE
<1>1. PICK i \in Int : i = Nth(k)
  BY DEF Nth
<1>2. (i % Width) % BLOCK_SIZE = i % BLOCK_SIZE
  BY PlaceKept
<1>3. i % BLOCK_SIZE = 0
  BY <1>1, InBlock
<1>4. 1 % BLOCK_SIZE = 1
  BY SmallRemainder
<1> QED
  BY <1>1, <1>2, <1>3, <1>4 DEF INVALID_BLOCK_BASE

-----------------------------------------------------------------------------
(* The invariant: T messages were enqueued, H claimed, V reservations given *)
(* back.                                                                   *)

\* The queue never takes a block that would come within half of the width of H.
Sizes(T, H) ==
    /\ H <= T /\ size = T - H /\ size < Half
    /\ T % BLOCK_SIZE # 0 => size + BLOCK_SIZE - (T % BLOCK_SIZE) < Half
    /\ tailIndex = T % Width /\ headIndex = H % Width

AtPc(pc) == {c \in Consumer : consumer[c].pc = pc}
Claims == Cardinality(AtPc("claim"))
Undos == Cardinality(AtPc("undo"))

\* A consumer that is about to reserve knows of all but MaxStale of those given back.
Reserving(c, V) ==
    \E v \in Nat : v <= V /\ V - v <= MaxStale /\ consumer[c].overcommit = v % Width

Reservations(H, V) ==
    /\ consumer \in [Consumer -> [pc : {"idle", "reserve", "undo", "claim"}, overcommit : Index]]
    /\ dequeueOvercommit = V % Width
    /\ dequeueOptimisticCount = (H + V + Claims + Undos) % Width
    /\ Claims <= size
    /\ \A c \in AtPc("reserve") : Reserving(c, V)

\* The head that the producer loaded was true, and no message was added since.
HeadLoaded(T, H) ==
    /\ producer \in [pc : {"idle", "insert"}, head : Index]
    /\ producer.pc = "insert" =>
          /\ T % BLOCK_SIZE = 0
          /\ \E h \in Nat : h <= H /\ T - h < Half /\ producer.head = h % Width

Place == 0 .. Capacity - 1

RingType ==
    /\ Capacity \in Nat /\ Capacity >= 2 /\ (2 * Turn) % Capacity = 0
    /\ ring \in [Place -> [key : Index, held : BOOLEAN]]
    /\ ringTail \in Place

\* The place of the entry for the block a blocks before the newest one.
Back(a) == IF a <= ringTail THEN ringTail - a ELSE ringTail - a + Capacity

\* From block f, that of the next message to be claimed, to l, the newest, each has
\* its entry; no other entry has a block.
Entries(l, f) ==
    /\ \A k \in f .. l :
          l - k < Capacity /\ ring[Back(l - k)] = [key |-> Nth(k) % Width, held |-> TRUE]
    /\ \A a \in Place : ring[Back(a)].held => f <= l - a

RingRight(T, H) ==
    /\ T > 0 => ring[ringTail].key = Nth(Num(T - 1)) % Width
    /\ Entries(Num(T - 1), Num(H))

Counted(T, H, V) ==
    Sizes(T, H) /\ Reservations(H, V) /\ HeadLoaded(T, H) /\ RingType /\ RingRight(T, H)

NInv == \E T, H, V \in Nat : Counted(T, H, V)

-----------------------------------------------------------------------------
(* The ring.                                                               *)

LEMMA BackFacts ==
    ASSUME RingType
    PROVE  /\ \A a \in Place : Back(a) \in Place
           /\ \A a, b \in Place : Back(a) = Back(b) => a = b
           /\ Back(0) = ringTail /\ 0 \in Place /\ Capacity - 1 \in Place
           /\ NextSlot = Back(Capacity - 1) /\ NextSlot \in Place
<1>1. PICK n \in Nat, t \in Nat : n = Capacity /\ t = ringTail /\ t < n /\ n >= 2 /\ Place = 0 .. n - 1
  BY DEF RingType, Place
<1>2. \A a \in 0 .. n - 1 : Back(a) = IF a <= t THEN t - a ELSE t - a + n
  BY <1>1 DEF Back
<1>3. (t + 1) % n = IF t + 1 = n THEN 0 ELSE t + 1
  <2>1. n \in Nat \ {0}
    BY <1>1
  <2>2. CASE t + 1 = n
    <3>1. n = 0 + n * 1 /\ 0 \in 0 .. n - 1
      BY <1>1
    <3>2. n % n = 0
      BY <2>1, <3>1, Remainder
    <3> QED
      BY <2>2, <3>2
  <2>3. CASE t + 1 # n
    <3>1. PICK i \in Int : i = t + 1 /\ -n <= i /\ i < n /\ i >= 0
      BY <1>1, <2>3
    <3>2. i % n = i
      BY <2>1, <3>1, SmallRemainder
    <3> QED
      BY <2>3, <3>1, <3>2
  <2> QED
    BY <2>2, <2>3
<1>4. NextSlot = IF t + 1 = n THEN 0 ELSE t + 1
  BY <1>1, <1>3 DEF NextSlot
<1>5. /\ \A a \in 0 .. n - 1 : Back(a) \in 0 .. n - 1
      /\ \A a, b \in 0 .. n - 1 : Back(a) = Back(b) => a = b
      /\ Back(0) = t /\ 0 \in 0 .. n - 1 /\ n - 1 \in 0 .. n - 1
      /\ NextSlot = Back(n - 1) /\ NextSlot \in 0 .. n - 1
  BY <1>1, <1>2, <1>4
<1> QED
  BY <1>1, <1>5

\* An entry that a block needs is not taken for another.
LEMMA NeededNotFree ==
    ASSUME RingType, NEW T \in Nat, NEW H \in Nat, RingRight(T, H), SlotFree,
           NEW k \in Num(H) .. Num(T - 1)
    PROVE  Num(T - 1) - k \in Place /\ Num(T - 1) - k # Capacity - 1
<1>0. PICK l \in Int, f \in Int, i \in Int : l = Num(T - 1) /\ f = Num(H) /\ i = k /\ f <= i /\ i <= l
  <2>1. Num(T - 1) \in Int /\ Num(H) \in Int
    BY BlockOf
  <2> QED
    BY <2>1
<1>1. PICK a \in Int : a = Num(T - 1) - k /\ a >= 0 /\ a < Capacity
  <2>1. Num(T - 1) - k < Capacity
    BY DEF RingRight, Entries
  <2> QED
    BY <1>0, <2>1
<1>2. a \in Place
  BY <1>1 DEF Place, RingType
<1>3. ring[Back(a)] = [key |-> Nth(i) % Width, held |-> TRUE]
  BY <1>0, <1>1 DEF RingRight, Entries
<1>4. Nth(i) % Width # INVALID_BLOCK_BASE
  BY KeyValid
<1>5. Back(a) # NextSlot
  BY <1>3, <1>4 DEF SlotFree
<1> QED
  BY <1>1, <1>2, <1>5, BackFacts

\* The lookup: the division loses nothing, since the offset comes round after a
\* whole number of rings.
LEMMA PositionFound ==
    ASSUME RingType, NEW i \in Int, NEW l \in Int, NEW a \in Place,
           ring[ringTail].key = Nth(l) % Width, a = l - Num(i)
    PROVE  Position(i % Width) = Back(a)
<1>1. PICK n \in Nat, t \in Nat :
          n = Capacity /\ t = ringTail /\ t < n /\ a \in 0 .. n - 1 /\ (2 * Turn) % n = 0 /\ n \in Nat \ {0}
  BY DEF RingType, Place
<1>2. PICK N \in Int : N = 2 * Turn /\ N >= 4 /\ Width = BLOCK_SIZE * N /\ N % n = 0 /\ N > 0
  BY <1>1, WidthFacts DEF Nth
<1>3. PICK q \in Int : N = n * q
  <2>1. PICK q \in Int, r \in 0 .. n - 1, f \in Int :
            q = N \div n /\ r = N % n /\ f = n * q /\ N = f + r
    BY <1>1, Quotient
  <2>2. r = 0
    BY <1>2, <2>1
  <2>3. N = f
    BY <2>1, <2>2
  <2> QED
    BY <2>1, <2>3
<1>4. n <= N
  <2>1. q <= 0 => n * q <= 0
    OBVIOUS
  <2>2. q >= 1 => n * (q - 1) >= 0
    OBVIOUS
  <2>3. n * (q - 1) = n * q - n
    OBVIOUS
  <2> QED
    BY <1>2, <1>3, <2>1, <2>2, <2>3
<1>5. PICK k \in Int : k = Num(i) /\ a = l - k
  BY BlockOf
<1>6. Minus(Base(i % Width), Nth(l) % Width) = (Nth(k) - Nth(l)) % Width
  <2>1. Base(i % Width) = Nth(k) % Width
    BY <1>5, PlaceKept
  <2>2. Nth(k) \in Int /\ Nth(l) \in Int
    BY DEF Nth
  <2>3. Minus(Nth(k) % Width, Nth(l) % Width) = (Nth(k) - Nth(l)) % Width
    BY <2>2, Wraps
  <2> QED
    BY <2>1, <2>3
<1>7. Nth(k) - Nth(l) = -(BLOCK_SIZE * a)
  BY <1>5 DEF Nth
<1>8. PICK o \in Int : /\ o = IF a = 0 THEN 0 ELSE N - a
                       /\ (Nth(k) - Nth(l)) % Width = BLOCK_SIZE * o
  <2>1. PICK d \in Int : d = Nth(k) - Nth(l) /\ d = -(BLOCK_SIZE * a)
    BY <1>7
  <2>2. CASE a = 0
    <3>1. d = 0 /\ -Width <= d /\ d < Width
      BY <2>1, <2>2, WidthFacts
    <3>2. d % Width = 0
      BY <3>1, WidthFacts, SmallRemainder
    <3> QED
      BY <2>1, <2>2, <3>2
  <2>3. CASE a # 0
    <3>1. PICK o \in Int : o = N - a /\ o >= 0
      BY <1>1, <1>2, <1>4
    <3>2. BLOCK_SIZE * o = BLOCK_SIZE * N - BLOCK_SIZE * a /\ BLOCK_SIZE * o >= 0
      BY <3>1
    <3>3. BLOCK_SIZE * a > 0
      <4>1. a \in Nat /\ a >= 1
        BY <1>1, <2>3
      <4>2. BLOCK_SIZE * a = BLOCK_SIZE + BLOCK_SIZE * (a - 1)
        BY <4>1
      <4>3. BLOCK_SIZE * (a - 1) >= 0
        BY <4>1
      <4> QED
        BY <4>1, <4>2, <4>3
    <3>4. d < 0 /\ -Width <= d /\ d + Width = BLOCK_SIZE * o
      BY <1>2, <2>1, <3>2, <3>3
    <3>5. d % Width = d + Width
      BY <3>4, WidthFacts, SmallRemainder
    <3> QED
      BY <2>1, <2>3, <3>1, <3>4, <3>5
  <2> QED
    BY <2>2, <2>3
<1>9. Offset(i % Width) = o
  <2>1. Offset(i % Width) = (BLOCK_SIZE * o) \div BLOCK_SIZE
    BY <1>6, <1>8 DEF Offset
  <2>2. BLOCK_SIZE * o = 0 + BLOCK_SIZE * o /\ 0 \in 0 .. BLOCK_SIZE - 1
    OBVIOUS
  <2>3. (BLOCK_SIZE * o) \div BLOCK_SIZE = o
    BY <2>2, Remainder
  <2> QED
    BY <2>1, <2>3
<1>10. (t + o) % n = IF a <= t THEN t - a ELSE t - a + n
  <2>1. PICK x \in Int, y \in Int : x = t + o /\ y = t - a
    OBVIOUS
  <2>2. y % n = IF y >= 0 THEN y ELSE y + n
    <3>1. -n <= y /\ y < n
      BY <1>1, <2>1
    <3> QED
      BY <1>1, <3>1, SmallRemainder
  <2>3. x % n = y % n
    <3>1. a = 0 => x = y
      BY <1>8, <2>1
    <3>2. CASE a # 0
      <4>1. x = y + n * q
        BY <1>3, <1>8, <2>1, <3>2
      <4>2. n \in Nat \ {0}
        BY <1>1
      <4> QED
        BY <4>1, <4>2, Turns
    <3> QED
      BY <3>1, <3>2
  <2> QED
    BY <1>1, <2>1, <2>2, <2>3
<1> QED
  BY <1>1, <1>9, <1>10 DEF Position, Back

-----------------------------------------------------------------------------
(* Steps that leave a part as it is.                                       *)

LEMMA SizesKept ==
    ASSUME NEW T \in Nat, NEW H \in Nat, Sizes(T, H), UNCHANGED <<tailIndex, headIndex, size>>
    PROVE  Sizes(T, H)'
BY DEF Sizes

LEMMA Counts ==
    /\ Claims \in Nat /\ Undos \in Nat /\ Claims + Undos <= Cardinality(Consumer)
    /\ Cardinality(Consumer) \in Nat /\ MaxStale \in Nat
    /\ Cardinality(Consumer) + MaxStale < Half
    /\ \A p : IsFiniteSet(AtPc(p)) /\ AtPc(p) \subseteq Consumer
<1>1. IsFiniteSet(Consumer) /\ MaxStale \in Nat /\ MaxStale + Cardinality(Consumer) < Half
  BY WidthsAssumption DEF WidthsAssumption
<1>2. \A p : IsFiniteSet(AtPc(p)) /\ AtPc(p) \subseteq Consumer
  BY <1>1, FS_Subset DEF AtPc
<1>3. Claims \in Nat /\ Undos \in Nat /\ Cardinality(Consumer) \in Nat
  BY <1>1, <1>2, FS_CardinalityType DEF Claims, Undos
<1>4. AtPc("claim") \cap AtPc("undo") = {}
  BY DEF AtPc
<1>5. Cardinality(AtPc("claim") \cup AtPc("undo")) = Claims + Undos - 0
  BY <1>2, <1>4, FS_Union, FS_EmptySet DEF Claims, Undos
<1>6. Cardinality(AtPc("claim") \cup AtPc("undo")) <= Cardinality(Consumer)
  BY <1>1, <1>2, FS_Subset
<1> QED
  BY <1>1, <1>2, <1>3, <1>5, <1>6

LEMMA ReservationsKept ==
    ASSUME NEW H \in Nat, NEW V \in Nat, Reservations(H, V), size' >= size, size \in Nat,
           size' \in Nat, UNCHANGED <<dequeueOptimisticCount, dequeueOvercommit, consumer>>
    PROVE  Reservations(H, V)'
<1>1. /\ \A p : AtPc(p)' = AtPc(p)
      /\ \A c : Reserving(c, V)' <=> Reserving(c, V)
  BY DEF AtPc, Reserving
<1>2. Claims' = Claims /\ Undos' = Undos
  BY <1>1 DEF Claims, Undos
<1>3. Claims <= size'
  <2>1. Claims <= size
    BY DEF Reservations
  <2> QED
    BY <2>1, Counts
<1> QED
  BY <1>1, <1>2, <1>3 DEF Reservations

LEMMA HeadKept ==
    ASSUME NEW T \in Nat, NEW H \in Nat, NEW G \in Nat, H <= G, HeadLoaded(T, H),
           UNCHANGED producer
    PROVE  HeadLoaded(T, G)'
BY DEF HeadLoaded

LEMMA RingKept ==
    ASSUME NEW T \in Nat, NEW H \in Nat, RingType, RingRight(T, H), UNCHANGED <<ring, ringTail>>
    PROVE  RingType' /\ RingRight(T, H)'
<1>1. Capacity' = Capacity /\ Place' = Place /\ \A a : Back(a)' = Back(a)
  BY DEF Capacity, Place, Back
<1> QED
  BY <1>1 DEF RingType, RingRight, Entries

\* Consumer c goes to place p.
LEMMA Moves ==
    ASSUME NEW c \in Consumer, NEW p, consumer'[c].pc = p,
           \A d \in Consumer \ {c} : consumer'[d] = consumer[d]
    PROVE  \A q : AtPc(q)' = IF q = p THEN AtPc(q) \cup {c} ELSE AtPc(q) \ {c}
BY DEF AtPc

-----------------------------------------------------------------------------
(* enqueue                                                                 *)

LEMMA SizesEnqueue ==
    ASSUME NEW T \in Nat, NEW H \in Nat, Sizes(T, H), T % BLOCK_SIZE = 0 => T - H + BLOCK_SIZE < Half,
           ElementIn, UNCHANGED headIndex
    PROVE  Sizes(T + 1, H)'
<1>1. /\ H <= T /\ size = T - H /\ size < Half
      /\ T % BLOCK_SIZE # 0 => size + BLOCK_SIZE - (T % BLOCK_SIZE) < Half
      /\ tailIndex = T % Width /\ headIndex = H % Width
  BY DEF Sizes
<1>2. tailIndex' = (T + 1) % Width
  BY <1>1, Wraps DEF ElementIn
<1>3. PICK r \in 0 .. BLOCK_SIZE - 1, s \in 0 .. BLOCK_SIZE - 1 :
          /\ r = T % BLOCK_SIZE /\ s = (T + 1) % BLOCK_SIZE
          /\ s = IF r = BLOCK_SIZE - 1 THEN 0 ELSE r + 1
  <2>1. T \in Int /\ T + 1 \in Int
    OBVIOUS
  <2> QED
    BY <2>1, NextIndex, BlockOf
<1>4. size' = size + 1 /\ size' = T + 1 - H
  BY <1>1 DEF ElementIn
<1>5. size' < Half /\ (s # 0 => size' + BLOCK_SIZE - s < Half)
  BY <1>1, <1>3, <1>4
<1> QED
  BY <1>1, <1>2, <1>3, <1>4, <1>5 DEF Sizes

LEMMA EnqueueInBlockStep ==
    ASSUME NEW T \in Nat, NEW H \in Nat, NEW V \in Nat, Counted(T, H, V), EnqueueInBlock
    PROVE  Counted(T + 1, H, V)'
<1>1. /\ producer.pc = "idle" /\ tailIndex % BLOCK_SIZE # 0 /\ ElementIn
      /\ UNCHANGED <<headIndex, dequeueOptimisticCount, dequeueOvercommit, ring, ringTail,
                     producer, consumer>>
  BY DEF EnqueueInBlock
<1>2. /\ Sizes(T, H) /\ Reservations(H, V) /\ HeadLoaded(T, H) /\ RingType /\ RingRight(T, H)
      /\ size \in Nat /\ size' \in Nat /\ size' >= size
  BY <1>1 DEF Counted, Sizes, ElementIn
<1>3. T % BLOCK_SIZE # 0 /\ T > 0
  <2>1. T % BLOCK_SIZE # 0
    BY <1>1, <1>2, PlaceKept DEF Sizes
  <2>2. 0 % BLOCK_SIZE = 0
    BY SmallRemainder
  <2> QED
    BY <2>1, <2>2
<1>4. Sizes(T + 1, H)'
  BY <1>1, <1>2, <1>3, SizesEnqueue
<1>5. HeadLoaded(T + 1, H)'
  BY <1>1, <1>2 DEF HeadLoaded
<1>6. Num(T) = Num(T - 1)
  <2>1. PICK i \in Int : i = T - 1 /\ T = i + 1
    OBVIOUS
  <2>2. i % BLOCK_SIZE # BLOCK_SIZE - 1
    BY <1>3, <2>1, NextIndex
  <2> QED
    BY <2>1, <2>2, NextIndex
<1>7. RingRight(T + 1, H)
  BY <1>2, <1>3, <1>6 DEF RingRight, Entries
<1>8. RingType' /\ RingRight(T + 1, H)'
  BY <1>1, <1>2, <1>7, RingKept
<1> QED
  BY <1>1, <1>2, <1>4, <1>5, <1>8, ReservationsKept DEF Counted

LEMMA LoadHeadStep ==
    ASSUME NEW T \in Nat, NEW H \in Nat, NEW V \in Nat, Counted(T, H, V), LoadHead
    PROVE  Counted(T, H, V)'
<1>1. /\ tailIndex % BLOCK_SIZE = 0 /\ producer' = [pc |-> "insert", head |-> headIndex]
      /\ UNCHANGED <<tailIndex, headIndex, dequeueOptimisticCount, dequeueOvercommit, ring,
                     ringTail, consumer, size>>
  BY DEF LoadHead
<1>2. /\ Sizes(T, H) /\ Reservations(H, V) /\ RingType /\ RingRight(T, H) /\ size \in Nat
  BY DEF Counted, Sizes
<1>3. T % BLOCK_SIZE = 0
  BY <1>1, <1>2, PlaceKept DEF Sizes
<1>4. HeadLoaded(T, H)'
  <2>1. headIndex = H % Width /\ T - H < Half /\ headIndex \in Index
    BY <1>2, Wraps DEF Sizes
  <2> QED
    BY <1>1, <1>3, <2>1 DEF HeadLoaded
<1> QED
  BY <1>1, <1>2, <1>4, SizesKept, ReservationsKept, RingKept DEF Counted

\* The producer may use the next entry: it is not needed.
LEMMA NextSlotUsed ==
    ASSUME NEW T \in Nat, NEW H \in Nat, RingType, RingRight(T, H), SlotFree,
           NEW key \in Index, NEW held \in BOOLEAN,
           ring' = [ring EXCEPT ![NextSlot] = [key |-> key, held |-> held]]
    PROVE  /\ Capacity' = Capacity /\ Place' = Place
           /\ ring' \in [Place -> [key : Index, held : BOOLEAN]]
           /\ ring'[NextSlot] = [key |-> key, held |-> held]
           /\ \A a \in Place \ {Capacity - 1} : ring'[Back(a)] = ring[Back(a)]
<1>1. DOMAIN ring' = DOMAIN ring
  OBVIOUS
<1>2. Capacity' = Capacity /\ Place' = Place
  BY <1>1 DEF Capacity, Place
<1>3. NextSlot \in Place /\ ring \in [Place -> [key : Index, held : BOOLEAN]]
  BY BackFacts DEF RingType
<1>4. [key |-> key, held |-> held] \in [key : Index, held : BOOLEAN]
  OBVIOUS
<1>5. \A a \in Place \ {Capacity - 1} : Back(a) \in Place /\ Back(a) # NextSlot
  BY BackFacts
<1> QED
  BY <1>2, <1>3, <1>4, <1>5

LEMMA EnqueueFailsStep ==
    ASSUME NEW T \in Nat, NEW H \in Nat, NEW V \in Nat, Counted(T, H, V), EnqueueFails
    PROVE  Counted(T, H, V)'
<1>1. /\ producer.pc = "insert" /\ producer' = [producer EXCEPT !.pc = "idle"]
      /\ UNCHANGED <<tailIndex, headIndex, dequeueOptimisticCount, dequeueOvercommit, ringTail,
                     consumer, size>>
      /\ \/ UNCHANGED ring
         \/ SlotFree /\ ring' = [ring EXCEPT ![NextSlot] = [key |-> tailIndex, held |-> FALSE]]
  BY DEF EnqueueFails
<1>2. /\ Sizes(T, H) /\ Reservations(H, V) /\ HeadLoaded(T, H) /\ RingType /\ RingRight(T, H)
      /\ size \in Nat /\ tailIndex \in Index
  BY Wraps DEF Counted, Sizes
<1>3. HeadLoaded(T, H)'
  BY <1>1, <1>2 DEF HeadLoaded
<1>4. RingType' /\ RingRight(T, H)'
  <2>1. CASE UNCHANGED ring
    BY <1>1, <1>2, <2>1, RingKept
  <2>2. CASE SlotFree /\ ring' = [ring EXCEPT ![NextSlot] = [key |-> tailIndex, held |-> FALSE]]
    <3>1. /\ Capacity' = Capacity /\ Place' = Place
          /\ ring' \in [Place -> [key : Index, held : BOOLEAN]]
          /\ ring'[NextSlot] = [key |-> tailIndex, held |-> FALSE]
          /\ \A a \in Place \ {Capacity - 1} : ring'[Back(a)] = ring[Back(a)]
      BY <1>2, <2>2, NextSlotUsed
    <3>2. \A a : Back(a)' = Back(a)
      BY <1>1, <3>1 DEF Back
    <3>3. RingType'
      BY <1>1, <1>2, <3>1 DEF RingType
    <3>4. \A k \in Num(H) .. Num(T - 1) :
              Num(T - 1) - k \in Place /\ Num(T - 1) - k # Capacity - 1
      BY <1>2, <2>2, NeededNotFree
    <3>5. \A k \in Num(H) .. Num(T - 1) :
              /\ Num(T - 1) - k < Capacity
              /\ ring'[Back(Num(T - 1) - k)] = [key |-> Nth(k) % Width, held |-> TRUE]
      BY <1>2, <3>1, <3>4 DEF RingRight, Entries
    <3>6. T > 0 => ring'[ringTail].key = Nth(Num(T - 1)) % Width
      <4>1. ringTail = Back(0) /\ 0 \in Place /\ 0 # Capacity - 1
        BY <1>2, BackFacts DEF RingType
      <4>2. ring'[ringTail] = ring[ringTail]
        BY <3>1, <4>1
      <4> QED
        BY <1>2, <4>2 DEF RingRight, Entries
    <3>7. \A a \in Place : ring'[Back(a)].held => Num(H) <= Num(T - 1) - a
      <4>1. NextSlot = Back(Capacity - 1)
        BY <1>2, BackFacts
      <4>2. ~ring'[Back(Capacity - 1)].held
        BY <3>1, <4>1
      <4> QED
        BY <1>2, <3>1, <4>2 DEF RingRight, Entries
    <3> QED
      BY <1>1, <3>1, <3>2, <3>3, <3>5, <3>6, <3>7 DEF RingRight, Entries
  <2> QED
    BY <1>1, <2>1, <2>2
<1> QED
  BY <1>1, <1>2, <1>3, <1>4, SizesKept, ReservationsKept DEF Counted

LEMMA EnqueueInNewBlockStep ==
    ASSUME NEW T \in Nat, NEW H \in Nat, NEW V \in Nat, Counted(T, H, V), EnqueueInNewBlock
    PROVE  Counted(T + 1, H, V)'
<1>1. /\ producer.pc = "insert" /\ producer' = [producer EXCEPT !.pc = "idle"]
      /\ Room(producer.head) /\ SlotFree /\ ringTail' = NextSlot /\ ElementIn
      /\ ring' = [ring EXCEPT ![NextSlot] = [key |-> tailIndex, held |-> TRUE]]
      /\ UNCHANGED <<headIndex, dequeueOptimisticCount, dequeueOvercommit, consumer>>
  BY DEF EnqueueInNewBlock
<1>2. /\ Sizes(T, H) /\ Reservations(H, V) /\ HeadLoaded(T, H) /\ RingType /\ RingRight(T, H)
      /\ size \in Nat /\ size' \in Nat /\ size' >= size /\ H <= T
      /\ tailIndex = T % Width /\ tailIndex \in Index
  BY <1>1, Wraps DEF Counted, Sizes, ElementIn
<1>3. T % BLOCK_SIZE = 0
  BY <1>1, <1>2 DEF HeadLoaded
<1>4. T - H + BLOCK_SIZE < Half
  <2>1. PICK h \in Nat : h <= H /\ T - h < Half /\ producer.head = h % Width
    BY <1>1, <1>2 DEF HeadLoaded
  <2>2. PICK u \in Int, d \in Int : u = T + BLOCK_SIZE /\ d = h - u
    OBVIOUS
  <2>3. Plus(tailIndex, BLOCK_SIZE) = u % Width
    BY <1>2, <2>2, Wraps
  <2>4. d % Width > Half
    BY <1>1, <2>1, <2>2, <2>3, Wraps DEF Room, circular_less_than
  <2>5. BLOCK_SIZE <= Half /\ Width \in Nat \ {0} /\ Width = 2 * Half
    BY WidthFacts DEF Width
  <2>6. -Width <= d /\ d < 0
    BY <1>2, <2>1, <2>2, <2>5
  <2>7. d % Width = d + Width
    <3>1. Width \in Nat \ {0} /\ -Width <= d /\ d < Width
      BY <2>5, <2>6
    <3>2. d % Width = IF d >= 0 THEN d ELSE d + Width
      BY <3>1, SmallRemainder
    <3> QED
      BY <2>6, <3>2
  <2> QED
    BY <2>1, <2>2, <2>4, <2>5, <2>7
<1>5. Sizes(T + 1, H)'
  BY <1>1, <1>2, <1>4, SizesEnqueue
<1>6. HeadLoaded(T + 1, H)'
  BY <1>1, <1>2 DEF HeadLoaded
<1>7. PICK l \in Int, f \in Int : /\ l = Num(T - 1) /\ f = Num(H) /\ Num(T) = l + 1 /\ f <= l + 1
                                  /\ T = Nth(l + 1)
  <2>1. PICK i \in Int : i = T - 1 /\ T = i + 1
    OBVIOUS
  <2>2. i % BLOCK_SIZE = BLOCK_SIZE - 1 /\ Num(T) = Num(i) + 1
    <3>1. i % BLOCK_SIZE \in 0 .. BLOCK_SIZE - 1
      BY BlockOf
    <3>2. i % BLOCK_SIZE # BLOCK_SIZE - 1 => T % BLOCK_SIZE = (i % BLOCK_SIZE) + 1
      BY <2>1, NextIndex
    <3>3. i % BLOCK_SIZE = BLOCK_SIZE - 1
      BY <1>3, <3>1, <3>2
    <3> QED
      BY <2>1, <3>3, NextIndex
  <2>3. Num(i) \in Int /\ Num(H) \in Int /\ Num(H) <= Num(T)
    BY <1>2, BlockOf, NumGrows
  <2>4. T = Nth(Num(T)) + 0
    BY <1>3, BlockOf
  <2> QED
    BY <2>1, <2>2, <2>3, <2>4 DEF Nth
<1>8. PICK n \in Nat : n = Capacity /\ n >= 2 /\ Place = 0 .. n - 1
  BY <1>2 DEF RingType, Place
<1>9. /\ Capacity' = n /\ Place' = Place
      /\ ring' \in [Place -> [key : Index, held : BOOLEAN]]
      /\ ring'[NextSlot] = [key |-> tailIndex, held |-> TRUE]
      /\ \A a \in Place \ {n - 1} : ring'[Back(a)] = ring[Back(a)]
  BY <1>1, <1>2, <1>8, NextSlotUsed
<1>10. /\ Back(0)' = NextSlot /\ NextSlot \in Place
       /\ \A a \in Place \ {0} : Back(a)' = Back(a - 1) /\ a - 1 \in Place /\ a - 1 # n - 1
  <2>1. NextSlot = Back(n - 1) /\ NextSlot \in Place
    BY <1>2, <1>8, BackFacts
  <2>2. PICK t \in 0 .. n - 1, s \in 0 .. n - 1 : t = ringTail /\ s = ringTail'
    BY <1>1, <1>2, <1>8, <2>1 DEF RingType
  <2>3. \A a : Back(a) = (IF a <= t THEN t - a ELSE t - a + n)
    BY <1>8, <2>2 DEF Back
  <2>4. \A a : Back(a)' = (IF a <= s THEN s - a ELSE s - a + n)
    BY <1>9, <2>2 DEF Back
  <2>5. s = IF n - 1 <= t THEN t - (n - 1) ELSE t - (n - 1) + n
    BY <1>1, <2>1, <2>2, <2>3
  <2>6. \A a \in 1 .. n - 1 : Back(a)' = Back(a - 1)
    BY <1>8, <2>3, <2>4, <2>5
  <2>7. Back(0)' = s
    BY <2>4
  <2> QED
    BY <1>1, <1>8, <2>1, <2>2, <2>6, <2>7
<1>11. RingType'
  BY <1>1, <1>2, <1>8, <1>9, <1>10 DEF RingType
<1>12. T + 1 > 0 /\ T + 1 - 1 = T
  OBVIOUS
<1>13. ring'[ringTail'].key = Nth(Num(T)) % Width
  BY <1>1, <1>2, <1>7, <1>9
<1>a. PICK m \in Int : m = l + 1 /\ f <= m
  BY <1>7
<1>14. ASSUME NEW k \in f .. m
       PROVE  /\ m - k < n
              /\ ring'[Back(m - k)'] = [key |-> Nth(k) % Width, held |-> TRUE]
  <2>1. CASE k = m
    <3>1. ring'[NextSlot] = [key |-> Nth(k) % Width, held |-> TRUE]
      BY <1>2, <1>7, <1>9, <1>a, <2>1
    <3>2. m - k = 0
      BY <2>1
    <3> QED
      BY <1>8, <1>10, <3>1, <3>2
  <2>2. CASE k \in f .. l
    <3>1. k \in Num(H) .. Num(T - 1)
      BY <1>7, <2>2
    <3>2. Num(T - 1) - k \in Place /\ Num(T - 1) - k # Capacity - 1
      BY <1>1, <1>2, <3>1, NeededNotFree
    <3>3. ring[Back(Num(T - 1) - k)] = [key |-> Nth(k) % Width, held |-> TRUE]
      BY <1>2, <3>1 DEF RingRight, Entries
    <3>4. PICK a \in Int : a = l - k /\ a \in Place /\ a # n - 1
      BY <1>7, <1>8, <3>2
    <3>5. ring'[Back(a)] = [key |-> Nth(k) % Width, held |-> TRUE]
      BY <1>7, <1>9, <3>3, <3>4
    <3>6. a + 1 \in Place \ {0} /\ a + 1 - 1 = a /\ m - k = a + 1 /\ a + 1 < n
      BY <1>8, <1>a, <3>4
    <3>7. Back(a + 1)' = Back(a)
      BY <1>10, <3>6
    <3> QED
      BY <3>5, <3>6, <3>7
  <2> QED
    BY <1>a, <2>1, <2>2
<1>15. ASSUME NEW a \in Place, ring'[Back(a)'].held PROVE f <= m - a
  <2>1. CASE a = 0
    BY <1>a, <2>1
  <2>2. CASE a # 0
    <3>1. ring[Back(a - 1)].held /\ a - 1 \in Place
      BY <1>9, <1>10, <1>15, <2>2
    <3>2. f <= l - (a - 1)
      BY <1>2, <1>7, <3>1 DEF RingRight, Entries
    <3> QED
      BY <1>8, <1>a, <3>2
  <2> QED
    BY <2>1, <2>2
<1>16. Entries(l + 1, f)'
  <2>1. \A k \in f .. m : m - k < Capacity'
    BY <1>9, <1>14, Zenon
  <2>2. \A k \in f .. m : ring'[Back(m - k)'] = [key |-> Nth(k) % Width, held |-> TRUE]
    BY <1>9, <1>14, Zenon
  <2>3. \A a \in Place' : ring'[Back(a)'].held => f <= m - a
    BY <1>9, <1>15, Zenon
  <2>4. (\A a \in Place : ring[Back(a)].held => f <= m - a)'
    BY <2>3
  <2>5. (\A k \in f .. m : m - k < Capacity)'
    BY <2>1
  <2>6. (\A k \in f .. m : ring[Back(m - k)] = [key |-> Nth(k) % Width, held |-> TRUE])'
    BY <2>2
  <2>7. Entries(m, f)'
    BY <2>4, <2>5, <2>6 DEF Entries
  <2> QED
    BY <1>a, <2>7
<1>17. RingRight(T + 1, H)'
  <2>1. Num(T + 1 - 1) = l + 1 /\ Num(H) = f
    BY <1>7, <1>12
  <2>2. Entries(Num(T + 1 - 1), Num(H))'
    BY <1>16, <2>1
  <2>3. ring'[ringTail'].key = Nth(Num(T + 1 - 1)) % Width
    BY <1>12, <1>13
  <2> QED
    BY <2>2, <2>3 DEF RingRight
<1> QED
  BY <1>1, <1>2, <1>5, <1>6, <1>11, <1>17, ReservationsKept DEF Counted

\* The ring may be doubled: it has fewer entries than there are blocks, for with a
\* full one of as many, more than half of the indices would be in use.
LEMMA RoomToGrow ==
    ASSUME NEW T \in Nat, NEW H \in Nat, Sizes(T, H), RingType, RingRight(T, H), ~SlotFree
    PROVE  (2 * Turn) % (2 * Capacity) = 0
<1>1. PICK n \in Nat, m \in Nat : /\ n = Capacity /\ n >= 2 /\ m = Turn /\ m >= 2 /\ (2 * m) % n = 0
                                  /\ Half = BLOCK_SIZE * m
  BY WidthFacts DEF RingType, Nth
<1>2. ring[Back(n - 1)].held /\ n - 1 \in Place
  BY <1>1, BackFacts DEF SlotFree
<1>3. PICK l \in Int, r \in 0 .. BLOCK_SIZE - 1, fl \in Int :
          l = Num(T - 1) /\ r = (T - 1) % BLOCK_SIZE /\ fl = BLOCK_SIZE * l /\ T - 1 = fl + r
  <2>1. T - 1 \in Int
    OBVIOUS
  <2> QED
    BY <2>1, Located
<1>4. PICK f \in Int, s \in 0 .. BLOCK_SIZE - 1, ff \in Int :
          f = Num(H) /\ s = H % BLOCK_SIZE /\ ff = BLOCK_SIZE * f /\ H = ff + s
  BY Located
<1>5. f <= l - (n - 1)
  BY <1>2, <1>3, <1>4 DEF RingRight, Entries
<1>6. fl - ff - BLOCK_SIZE + 2 <= T - H /\ T - H < Half
  BY <1>3, <1>4 DEF Sizes
<1>7. l - f - 1 < m
  <2>1. BLOCK_SIZE * (l - f - 1) = fl - ff - BLOCK_SIZE
    BY <1>3, <1>4
  <2>2. l - f - 1 >= m => BLOCK_SIZE * (l - f - 1 - m) >= 0
    BY <1>1
  <2>3. BLOCK_SIZE * (l - f - 1 - m) = BLOCK_SIZE * (l - f - 1) - Half
    BY <1>1
  <2> QED
    BY <1>6, <2>1, <2>2, <2>3
<1>8. n \in 1 .. (2 * m) - 1
  BY <1>1, <1>5, <1>7
<1>9. (2 * Half) \div BLOCK_SIZE = 2 * m
  BY <1>1, WidthFacts DEF Width
<1>10. \A d \in 1 .. (2 * m) - 1 : (2 * m) % d = 0 => (2 * m) % (2 * d) = 0
  BY <1>9, PowersOfTwoAssumption DEF PowersOfTwoAssumption
<1> QED
  BY <1>1, <1>8, <1>10

LEMMA new_block_indexStep ==
    ASSUME NEW T \in Nat, NEW H \in Nat, NEW V \in Nat, Counted(T, H, V), new_block_index
    PROVE  Counted(T, H, V)'
<1>1. /\ ~SlotFree /\ ringTail' = Capacity - 1
      /\ ring' = [p \in 0 .. 2 * Capacity - 1 |->
                     IF p < Capacity THEN ring[(ringTail + 1 + p) % Capacity] ELSE EmptyEntry]
      /\ UNCHANGED <<tailIndex, headIndex, dequeueOptimisticCount, dequeueOvercommit, producer,
                     consumer, size>>
  BY DEF new_block_index
<1>2. /\ Sizes(T, H) /\ Reservations(H, V) /\ HeadLoaded(T, H) /\ RingType /\ RingRight(T, H)
      /\ size \in Nat
  BY DEF Counted, Sizes
<1>3. PICK n \in Nat, t \in Nat : n = Capacity /\ t = ringTail /\ t < n /\ n >= 2 /\ Place = 0 .. n - 1
  BY <1>2 DEF RingType, Place
<1>4. PICK g \in Nat : g = 2 * n
  OBVIOUS
<1>5. Capacity' = g /\ Place' = 0 .. g - 1
  <2>1. DOMAIN ring' = 0 .. g - 1
    BY <1>1, <1>3, <1>4
  <2>2. Cardinality(0 .. g - 1) = g
    <3>1. 0 \in Int /\ g - 1 \in Int /\ 0 <= g - 1 /\ g - 1 - 0 + 1 = g
      BY <1>3, <1>4
    <3>2. Cardinality(0 .. g - 1) = g - 1 - 0 + 1
      BY <3>1, FS_Interval
    <3> QED
      BY <3>1, <3>2
  <2> QED
    BY <2>1, <2>2 DEF Capacity, Place
<1>6. \A a \in 0 .. n - 1 : ring'[n - 1 - a] = ring[Back(a)]
  <2>1. TAKE a \in 0 .. n - 1
  <2>2. PICK i \in Int, b \in 0 .. n - 1 : i = t + n - a /\ b = IF a <= t THEN t - a ELSE t - a + n
    <3>1. t + n - a \in Int /\ (IF a <= t THEN t - a ELSE t - a + n) \in 0 .. n - 1
      BY <1>3
    <3> QED
      BY <3>1
  <2>3. n \in Nat \ {0}
    BY <1>3
  <2>4. i % n = b
    <3>1. CASE a <= t
      <4>1. i = b + n * 1
        BY <2>2, <3>1
      <4> QED
        BY <2>3, <4>1, Remainder
    <3>2. CASE ~(a <= t)
      <4>1. i = b + n * 0
        BY <2>2, <3>2
      <4> QED
        BY <2>3, <4>1, Remainder
    <3> QED
      BY <3>1, <3>2
  <2>5. Back(a) = b
    BY <1>3, <2>2 DEF Back
  <2>6. PICK p \in Int : p = n - 1 - a /\ p \in 0 .. g - 1 /\ p < n /\ t + 1 + p = i
    BY <1>3, <1>4, <2>2
  <2>7. ring'[p] = ring[(t + 1 + p) % n]
    BY <1>1, <1>3, <1>4, <2>6
  <2> QED
    BY <2>4, <2>5, <2>6, <2>7
<1>7. \A p \in n .. g - 1 : ring'[p] = EmptyEntry
  BY <1>1, <1>3, <1>4
<1>8. \A a : Back(a)' = IF a <= n - 1 THEN n - 1 - a ELSE n - 1 - a + g
  BY <1>1, <1>3, <1>5 DEF Back
<1>9. \A a \in 0 .. n - 1 : ring'[Back(a)'] = ring[Back(a)]
  BY <1>6, <1>8
<1>10. \A a \in n .. g - 1 : ring'[Back(a)'] = EmptyEntry
  <2>1. TAKE a \in n .. g - 1
  <2>2. PICK p \in n .. g - 1 : p = n - 1 - a + g
    BY <1>4
  <2>3. Back(a)' = p
    BY <1>8, <2>2
  <2> QED
    BY <1>7, <2>3
<1>11. RingType'
  <2>1. ring' \in [0 .. g - 1 -> [key : Index, held : BOOLEAN]]
    <3>1. EmptyEntry \in [key : Index, held : BOOLEAN]
      BY WidthFacts DEF EmptyEntry, Index, INVALID_BLOCK_BASE, Width
    <3>2. \A p \in 0 .. n - 1 : ring'[p] \in [key : Index, held : BOOLEAN]
      <4>1. TAKE p \in 0 .. n - 1
      <4>2. PICK a \in 0 .. n - 1 : a = n - 1 - p /\ n - 1 - a = p
        BY <1>3
      <4>3. Back(a) \in 0 .. n - 1 /\ ring \in [0 .. n - 1 -> [key : Index, held : BOOLEAN]]
        BY <1>2, <1>3, BackFacts DEF RingType
      <4> QED
        BY <1>6, <4>2, <4>3
    <3>3. \A p \in 0 .. g - 1 : ring'[p] \in [key : Index, held : BOOLEAN]
      BY <1>3, <1>7, <3>1, <3>2
    <3>4. ring' = [p \in 0 .. g - 1 |-> ring'[p]]
      BY <1>1, <1>3, <1>4
    <3> QED
      BY <3>3, <3>4
  <2>2. (2 * Turn) % g = 0
    BY <1>1, <1>2, <1>3, <1>4, RoomToGrow
  <2>3. g \in Nat /\ g >= 2 /\ n - 1 \in 0 .. g - 1
    BY <1>3, <1>4
  <2> QED
    BY <1>1, <1>3, <1>5, <2>1, <2>2, <2>3 DEF RingType
<1>12. PICK l \in Int, f \in Int : l = Num(T - 1) /\ f = Num(H)
  <2>1. T - 1 \in Int /\ H \in Int
    OBVIOUS
  <2> QED
    BY <2>1, BlockOf
<1>13. Entries(l, f)
  BY <1>2, <1>12 DEF RingRight
<1>14. Entries(l, f)'
  <2>1. \A k \in f .. l : l - k \in 0 .. n - 1
    <3>1. \A k \in f .. l : l - k < n
      BY <1>3, <1>13, Zenon DEF Entries
    <3> QED
      BY <1>3, <3>1
  <2>2. (\A k \in f .. l : l - k < Capacity)'
    BY <1>4, <1>5, <2>1
  <2>3. (\A k \in f .. l : ring[Back(l - k)] = [key |-> Nth(k) % Width, held |-> TRUE])'
    <3>1. \A k \in f .. l : ring[Back(l - k)] = [key |-> Nth(k) % Width, held |-> TRUE]
      BY <1>13 DEF Entries
    <3> QED
      BY <1>9, <2>1, <3>1
  <2>4. (\A a \in Place : ring[Back(a)].held => f <= l - a)'
    <3>1. \A a \in 0 .. n - 1 : ring[Back(a)].held => f <= l - a
      BY <1>3, <1>13 DEF Entries
    <3>2. \A a \in 0 .. n - 1 : ring'[Back(a)'].held => f <= l - a
      BY <1>9, <3>1
    <3>3. \A a \in n .. g - 1 : ~ring'[Back(a)'].held
      BY <1>10 DEF EmptyEntry
    <3> QED
      BY <1>3, <1>4, <1>5, <3>2, <3>3
  <2> QED
    BY <2>2, <2>3, <2>4 DEF Entries
<1>15. RingRight(T, H)'
  <2>1. Back(0) = ringTail /\ Back(0)' = ringTail'
    BY <1>1, <1>2, <1>3, <1>8, BackFacts
  <2>2. ring'[ringTail'] = ring[ringTail]
    BY <1>3, <1>9, <2>1
  <2>3. T > 0 => ring'[ringTail'].key = Nth(Num(T - 1)) % Width
    BY <1>2, <2>2 DEF RingRight
  <2>4. Entries(Num(T - 1), Num(H))'
    BY <1>12, <1>14
  <2> QED
    BY <2>3, <2>4 DEF RingRight
<1> QED
  BY <1>1, <1>2, <1>11, <1>15, SizesKept, ReservationsKept, HeadKept DEF Counted

-----------------------------------------------------------------------------
(* dequeue                                                                 *)

LEMMA CheckStep ==
    ASSUME NEW T \in Nat, NEW H \in Nat, NEW V \in Nat, NEW c \in Consumer, Counted(T, H, V), Check(c)
    PROVE  Counted(T, H, V)'
<1>1. /\ consumer[c].pc = "idle"
      /\ consumer' = [consumer EXCEPT ![c] = [pc |-> "reserve", overcommit |-> dequeueOvercommit]]
      /\ UNCHANGED <<tailIndex, headIndex, dequeueOptimisticCount, dequeueOvercommit, ring,
                     ringTail, producer, size>>
  BY DEF Check
<1>2. Sizes(T, H) /\ Reservations(H, V) /\ HeadLoaded(T, H) /\ RingType /\ RingRight(T, H)
  BY DEF Counted
<1>3. /\ consumer \in [Consumer -> [pc : {"idle", "reserve", "undo", "claim"}, overcommit : Index]]
      /\ dequeueOvercommit = V % Width /\ V % Width \in Index
  <2>1. V \in Int
    OBVIOUS
  <2>2. V % Width \in Index
    BY <2>1, Wraps
  <2> QED
    BY <1>2, <2>2 DEF Reservations
<1>4. /\ consumer'[c] = [pc |-> "reserve", overcommit |-> V % Width]
      /\ \A d \in Consumer \ {c} : consumer'[d] = consumer[d]
      /\ consumer' \in [Consumer -> [pc : {"idle", "reserve", "undo", "claim"}, overcommit : Index]]
  BY <1>1, <1>3
<1>5. \A q : AtPc(q)' = IF q = "reserve" THEN AtPc(q) \cup {c} ELSE AtPc(q) \ {c}
  BY <1>4, Moves
<1>6. c \notin AtPc("claim") /\ c \notin AtPc("undo")
  BY <1>1 DEF AtPc
<1>7. AtPc("claim")' = AtPc("claim") /\ AtPc("undo")' = AtPc("undo")
  BY <1>5, <1>6
<1>8. Claims' = Claims /\ Undos' = Undos
  BY <1>7 DEF Claims, Undos
<1>9. \A d \in AtPc("reserve")' : Reserving(d, V)'
  <2>1. TAKE d \in AtPc("reserve")'
  <2>2. CASE d = c
    <3>1. V - V <= MaxStale /\ V <= V
      BY Counts
    <3>2. consumer'[d].overcommit = V % Width
      BY <1>4, <2>2
    <3> QED
      BY <3>1, <3>2 DEF Reserving
  <2>3. CASE d # c
    <3>1. d \in AtPc("reserve") /\ consumer'[d] = consumer[d]
      BY <1>4, <1>5, <2>3 DEF AtPc
    <3>2. Reserving(d, V)
      BY <1>2, <3>1 DEF Reservations
    <3> QED
      BY <3>1, <3>2 DEF Reserving
  <2> QED
    BY <2>2, <2>3
<1>10. Reservations(H, V)'
  BY <1>1, <1>2, <1>4, <1>8, <1>9 DEF Reservations
<1> QED
  BY <1>1, <1>2, <1>10, SizesKept, HeadKept, RingKept DEF Counted

\* What a consumer compares: the messages reserved and those there are.
LEMMA LooksThereIf ==
    ASSUME NEW T \in Nat, NEW H \in Nat, NEW V \in Nat, NEW v \in Nat, v <= V, V - v <= MaxStale,
           Sizes(T, H), Reservations(H, V)
    PROVE  LooksThere(v % Width) <=> Claims + Undos + (V - v) < size
<1>1. PICK n \in Nat : n = Claims + Undos /\ n + MaxStale < Half
  BY Counts
<1>2. PICK x \in Int : x = H + V + n - v
  OBVIOUS
<1>3. Minus(dequeueOptimisticCount, v % Width) = x % Width
  <2>1. dequeueOptimisticCount = (H + V + n) % Width
    <3>1. Claims \in Nat /\ Undos \in Nat
      BY Counts
    <3>2. H + V + Claims + Undos = H + V + n
      BY <1>1, <3>1
    <3> QED
      BY <1>2, <3>2 DEF Reservations
  <2>2. PICK y \in Int : y = H + V + n /\ y - v = x
    BY <1>2
  <2>3. Minus(y % Width, v % Width) = (y - v) % Width
    BY Wraps
  <2> QED
    BY <2>1, <2>2, <2>3
<1>4. -Half < x - T /\ x - T <= Half /\ (x < T <=> n + (V - v) < size)
  <2>1. H <= T /\ size = T - H /\ size < Half
    BY DEF Sizes
  <2>2. MaxStale \in Nat
    BY Counts
  <2> QED
    BY <1>1, <1>2, <2>1, <2>2
<1>5. circular_less_than(x % Width, T % Width) <=> x < T
  BY <1>4, Compared
<1> QED
  BY <1>1, <1>3, <1>4, <1>5 DEF LooksThere, Sizes

LEMMA ReserveStep ==
    ASSUME NEW T \in Nat, NEW H \in Nat, NEW V \in Nat, NEW c \in Consumer, Counted(T, H, V), Reserve(c)
    PROVE  Counted(T, H, V)'
<1>1. /\ consumer[c].pc = "reserve"
      /\ dequeueOptimisticCount' = Plus(dequeueOptimisticCount, 1)
      /\ consumer' = [consumer EXCEPT ![c].pc = IF Reserved(c) THEN "claim" ELSE "undo"]
      /\ UNCHANGED <<tailIndex, headIndex, dequeueOvercommit, ring, ringTail, producer, size>>
  BY DEF Reserve
<1>2. Sizes(T, H) /\ Reservations(H, V) /\ HeadLoaded(T, H) /\ RingType /\ RingRight(T, H)
  BY DEF Counted
<1>3. PICK n \in Nat, m \in Nat : n = Claims /\ m = Undos
  BY Counts
<1>4. /\ consumer \in [Consumer -> [pc : {"idle", "reserve", "undo", "claim"}, overcommit : Index]]
      /\ dequeueOptimisticCount = (H + V + n + m) % Width /\ n <= size
  BY <1>2, <1>3 DEF Reservations
<1>5. PICK p \in {"claim", "undo"} : p = IF Reserved(c) THEN "claim" ELSE "undo"
  OBVIOUS
<1>6. /\ consumer'[c].pc = p
      /\ \A d \in Consumer \ {c} : consumer'[d] = consumer[d]
      /\ consumer' \in [Consumer -> [pc : {"idle", "reserve", "undo", "claim"}, overcommit : Index]]
  BY <1>1, <1>4, <1>5
<1>7. \A q : AtPc(q)' = IF q = p THEN AtPc(q) \cup {c} ELSE AtPc(q) \ {c}
  BY <1>6, Moves
<1>8. c \in AtPc("reserve") /\ c \notin AtPc("claim") /\ c \notin AtPc("undo")
  BY <1>1 DEF AtPc
<1>9. dequeueOptimisticCount' = (H + V + n + m + 1) % Width
  <2>1. PICK x \in Int : x = H + V + n + m
    OBVIOUS
  <2> QED
    BY <1>1, <1>4, <2>1, Wraps
<1>10. \A d \in AtPc("reserve")' : Reserving(d, V)'
  <2>1. TAKE d \in AtPc("reserve")'
  <2>2. d \in AtPc("reserve") /\ d # c
    BY <1>5, <1>7
  <2>3. consumer'[d] = consumer[d]
    BY <1>6, <2>2 DEF AtPc
  <2>4. Reserving(d, V)
    BY <1>2, <2>2 DEF Reservations
  <2> QED
    BY <2>3, <2>4 DEF Reserving
<1>11. \A q : IsFiniteSet(AtPc(q))
  BY Counts
<1>12. CASE p = "claim"
  <2>1. n + 1 <= size
    <3>1. Reserved(c)
      BY <1>5, <1>12
    <3>2. PICK v \in Nat : v <= V /\ V - v <= MaxStale /\ consumer[c].overcommit = v % Width
      BY <1>2, <1>8 DEF Reservations, Reserving
    <3>3. LooksThere(v % Width)
      BY <3>1, <3>2 DEF Reserved
    <3>4. n + m + (V - v) < size
      BY <1>2, <1>3, <3>2, <3>3, LooksThereIf
    <3>5. size \in Nat
      BY <1>2 DEF Sizes
    <3> QED
      BY <3>2, <3>4, <3>5
  <2>2. AtPc("claim")' = AtPc("claim") \cup {c} /\ AtPc("undo")' = AtPc("undo")
    BY <1>7, <1>8, <1>12
  <2>3. Claims' = n + 1 /\ Undos' = m
    BY <1>3, <1>8, <1>11, <2>2, FS_AddElement DEF Claims, Undos
  <2>4. H + V + n + m + 1 = H + V + (n + 1) + m
    OBVIOUS
  <2>5. Reservations(H, V)'
    BY <1>1, <1>2, <1>6, <1>9, <1>10, <2>1, <2>3, <2>4 DEF Reservations
  <2> QED
    BY <1>1, <1>2, <2>5, SizesKept, HeadKept, RingKept DEF Counted
<1>13. CASE p = "undo"
  <2>1. AtPc("undo")' = AtPc("undo") \cup {c} /\ AtPc("claim")' = AtPc("claim")
    BY <1>7, <1>8, <1>13
  <2>2. Claims' = n /\ Undos' = m + 1
    BY <1>3, <1>8, <1>11, <2>1, FS_AddElement DEF Claims, Undos
  <2>3. H + V + n + m + 1 = H + V + n + (m + 1)
    OBVIOUS
  <2>4. Reservations(H, V)'
    BY <1>1, <1>2, <1>4, <1>6, <1>9, <1>10, <2>2, <2>3 DEF Reservations
  <2> QED
    BY <1>1, <1>2, <2>4, SizesKept, HeadKept, RingKept DEF Counted
<1> QED
  BY <1>5, <1>12, <1>13

LEMMA UndoStep ==
    ASSUME NEW T \in Nat, NEW H \in Nat, NEW V \in Nat, NEW c \in Consumer, Counted(T, H, V), Undo(c)
    PROVE  Counted(T, H, V + 1)'
<1>1. /\ consumer[c].pc = "undo"
      /\ \A d \in Consumer : consumer[d].pc = "reserve" => Stale(d) < MaxStale
      /\ dequeueOvercommit' = Plus(dequeueOvercommit, 1)
      /\ consumer' = [consumer EXCEPT ![c] = [pc |-> "idle", overcommit |-> 0]]
      /\ UNCHANGED <<tailIndex, headIndex, dequeueOptimisticCount, ring, ringTail, producer, size>>
  BY DEF Undo
<1>2. Sizes(T, H) /\ Reservations(H, V) /\ HeadLoaded(T, H) /\ RingType /\ RingRight(T, H)
  BY DEF Counted
<1>3. PICK n \in Nat, m \in Nat : n = Claims /\ m = Undos
  BY Counts
<1>4. /\ consumer \in [Consumer -> [pc : {"idle", "reserve", "undo", "claim"}, overcommit : Index]]
      /\ dequeueOptimisticCount = (H + V + n + m) % Width /\ n <= size
      /\ dequeueOvercommit = V % Width /\ 0 \in Index
  BY <1>2, <1>3, WidthFacts DEF Reservations, Index, Width
<1>5. /\ consumer'[c].pc = "idle"
      /\ \A d \in Consumer \ {c} : consumer'[d] = consumer[d]
      /\ consumer' \in [Consumer -> [pc : {"idle", "reserve", "undo", "claim"}, overcommit : Index]]
  BY <1>1, <1>4
<1>6. \A q : AtPc(q)' = IF q = "idle" THEN AtPc(q) \cup {c} ELSE AtPc(q) \ {c}
  BY <1>5, Moves
<1>7. c \in AtPc("undo") /\ c \notin AtPc("claim")
  BY <1>1 DEF AtPc
<1>8. dequeueOvercommit' = (V + 1) % Width
  BY <1>1, <1>4, Wraps
<1>9. \A d \in AtPc("reserve")' : Reserving(d, V + 1)'
  <2>1. TAKE d \in AtPc("reserve")'
  <2>2. d \in AtPc("reserve") /\ d # c /\ d \in Consumer
    BY <1>6 DEF AtPc
  <2>3. consumer'[d] = consumer[d]
    BY <1>5, <2>2
  <2>4. PICK v \in Nat : v <= V /\ V - v <= MaxStale /\ consumer[d].overcommit = v % Width
    BY <1>2, <2>2 DEF Reservations, Reserving
  <2>5. Stale(d) = (V - v) % Width
    BY <1>4, <2>4, Wraps DEF Stale
  <2>6. PICK x \in Nat : x = V - v
    BY <2>4
  <2>7. Width \in Nat \ {0} /\ -Width <= x /\ x < Width
    BY <2>4, <2>6, WidthFacts, Counts DEF Width
  <2>8. x % Width = IF x >= 0 THEN x ELSE x + Width
    BY <2>7, SmallRemainder
  <2>9. x < MaxStale
    BY <1>1, <2>2, <2>5, <2>6, <2>8 DEF AtPc
  <2>10. v <= V + 1 /\ V + 1 - v <= MaxStale
    BY <2>4, <2>6, <2>9, Counts
  <2> QED
    BY <2>3, <2>4, <2>10 DEF Reserving
<1>10. Claims' = n /\ Undos' = m - 1
  <2>1. AtPc("claim")' = AtPc("claim") /\ AtPc("undo")' = AtPc("undo") \ {c}
    BY <1>6, <1>7
  <2>2. IsFiniteSet(AtPc("undo"))
    BY Counts
  <2> QED
    BY <1>3, <1>7, <2>1, <2>2, FS_RemoveElement DEF Claims, Undos
<1>11. H + V + n + m = H + (V + 1) + n + (m - 1)
  OBVIOUS
<1>12. Reservations(H, V + 1)'
  BY <1>1, <1>4, <1>5, <1>8, <1>9, <1>10, <1>11 DEF Reservations
<1> QED
  BY <1>1, <1>2, <1>12, SizesKept, HeadKept, RingKept DEF Counted

LEMMA ClaimStep ==
    ASSUME NEW T \in Nat, NEW H \in Nat, NEW V \in Nat, NEW c \in Consumer, Counted(T, H, V), Claim(c)
    PROVE  Counted(T, H + 1, V)'
<1>1. /\ consumer[c].pc = "claim" /\ headIndex' = Plus(headIndex, 1) /\ size' = size - 1
      /\ ring' = [ring EXCEPT ![Position(headIndex)].held =
                                  @ /\ headIndex % BLOCK_SIZE # BLOCK_SIZE - 1]
      /\ consumer' = [consumer EXCEPT ![c] = [pc |-> "idle", overcommit |-> 0]]
      /\ UNCHANGED <<tailIndex, dequeueOptimisticCount, dequeueOvercommit, ringTail, producer>>
  BY DEF Claim
<1>2. Sizes(T, H) /\ Reservations(H, V) /\ HeadLoaded(T, H) /\ RingType /\ RingRight(T, H)
  BY DEF Counted
<1>3. PICK n \in Nat, m \in Nat : n = Claims /\ m = Undos
  BY Counts
<1>4. /\ consumer \in [Consumer -> [pc : {"idle", "reserve", "undo", "claim"}, overcommit : Index]]
      /\ dequeueOptimisticCount = (H + V + n + m) % Width /\ n <= size
      /\ dequeueOvercommit = V % Width /\ 0 \in Index
  BY <1>2, <1>3, WidthFacts DEF Reservations, Index, Width
<1>5. /\ consumer'[c].pc = "idle"
      /\ \A d \in Consumer \ {c} : consumer'[d] = consumer[d]
      /\ consumer' \in [Consumer -> [pc : {"idle", "reserve", "undo", "claim"}, overcommit : Index]]
  BY <1>1, <1>4
<1>6. \A q : AtPc(q)' = IF q = "idle" THEN AtPc(q) \cup {c} ELSE AtPc(q) \ {c}
  BY <1>5, Moves
<1>7. c \in AtPc("claim") /\ c \notin AtPc("undo")
  BY <1>1 DEF AtPc
<1>8. Claims' = n - 1 /\ Undos' = m /\ n >= 1
  <2>1. AtPc("undo")' = AtPc("undo") /\ AtPc("claim")' = AtPc("claim") \ {c}
    BY <1>6, <1>7
  <2>2. IsFiniteSet(AtPc("claim"))
    BY Counts
  <2>3. Claims' = n - 1 /\ Undos' = m
    BY <1>3, <1>7, <2>1, <2>2, FS_RemoveElement DEF Claims, Undos
  <2>4. n # 0
    BY <1>3, <1>7, <2>2, FS_EmptySet DEF Claims
  <2> QED
    BY <2>3, <2>4
<1>9. \A d \in AtPc("reserve")' : Reserving(d, V)'
  <2>1. TAKE d \in AtPc("reserve")'
  <2>2. d \in AtPc("reserve") /\ d # c /\ d \in Consumer
    BY <1>6, <1>7 DEF AtPc
  <2>3. consumer'[d] = consumer[d]
    BY <1>5, <2>2
  <2>4. Reserving(d, V)
    BY <1>2, <2>2 DEF Reservations
  <2> QED
    BY <2>3, <2>4 DEF Reserving
<1>10. /\ H + 1 <= T /\ size = T - H /\ size < Half /\ size \in Nat /\ size >= 1
       /\ tailIndex = T % Width /\ headIndex = H % Width
  BY <1>2, <1>4, <1>8 DEF Sizes
<1>11. Reservations(H + 1, V)'
  <2>1. H + V + n + m = (H + 1) + V + (n - 1) + m
    OBVIOUS
  <2>2. n - 1 <= size'
    BY <1>1, <1>4, <1>10
  <2>3. dequeueOptimisticCount' = ((H + 1) + V + (n - 1) + m) % Width
    BY <1>1, <1>4, <2>1
  <2>4. dequeueOptimisticCount' = ((H + 1) + V + Claims' + Undos') % Width
    BY <1>8, <2>3
  <2> QED
    BY <1>1, <1>4, <1>5, <1>8, <1>9, <2>2, <2>4 DEF Reservations
<1>12. Sizes(T, H + 1)'
  <2>1. headIndex' = (H + 1) % Width
    BY <1>1, <1>10, Wraps
  <2>a. PICK r \in Int : r = T % BLOCK_SIZE
    <3>1. T \in Int
      OBVIOUS
    <3> QED
      BY <3>1, BlockOf
  <2>2. r = T % BLOCK_SIZE /\ (r # 0 => size + BLOCK_SIZE - r < Half)
    BY <1>2, <2>a DEF Sizes
  <2>3. r # 0 => size' + BLOCK_SIZE - r < Half
    BY <1>1, <1>10, <2>2
  <2>4. size' = T - (H + 1) /\ size' < Half
    BY <1>1, <1>10
  <2> QED
    BY <1>1, <1>10, <2>1, <2>2, <2>3, <2>4 DEF Sizes
<1>13. HeadLoaded(T, H + 1)'
  <2>1. H + 1 \in Nat /\ H <= H + 1
    OBVIOUS
  <2> QED
    BY <1>1, <1>2, <2>1, HeadKept
<1>14. PICK l \in Int, f \in Int : l = Num(T - 1) /\ f = Num(H) /\ f <= l
  <2>1. PICK i \in Int, j \in Int : i = T - 1 /\ j = H /\ j <= i
    BY <1>10
  <2>2. Num(i) \in Int /\ Num(j) \in Int /\ Num(j) <= Num(i)
    BY <2>1, BlockOf, NumGrows
  <2> QED
    BY <2>1, <2>2
<1>15. Entries(l, f) /\ ring[ringTail].key = Nth(l) % Width
  BY <1>2, <1>10, <1>14 DEF RingRight
<1>16. PICK b \in Place : b = l - f /\ Position(headIndex) = Back(b) /\ Back(b) \in Place
  <2>1. PICK b \in Int : b = l - f /\ b >= 0
    BY <1>14
  <2>2. f \in f .. l
    BY <1>14
  <2>3. b < Capacity
    BY <1>15, <2>1, <2>2 DEF Entries
  <2>4. b \in Place
    BY <1>2, <2>1, <2>3 DEF RingType, Place
  <2>5. Position(H % Width) = Back(b)
    BY <1>2, <1>14, <1>15, <2>1, <2>4, PositionFound
  <2> QED
    BY <1>2, <1>10, <2>1, <2>4, <2>5, BackFacts
<1>17. PICK last \in BOOLEAN : last <=> H % BLOCK_SIZE = BLOCK_SIZE - 1
  OBVIOUS
<1>18. /\ ring'[Back(b)] = [key |-> ring[Back(b)].key, held |-> ring[Back(b)].held /\ ~last]
       /\ \A p \in Place \ {Back(b)} : ring'[p] = ring[p]
       /\ ring' \in [Place -> [key : Index, held : BOOLEAN]] /\ DOMAIN ring' = DOMAIN ring
  <2>1. headIndex % BLOCK_SIZE # BLOCK_SIZE - 1 <=> ~last
    BY <1>10, <1>17, PlaceKept
  <2>2. ring \in [Place -> [key : Index, held : BOOLEAN]]
    BY <1>2 DEF RingType
  <2>3. ring' = [ring EXCEPT ![Back(b)].held = @ /\ headIndex % BLOCK_SIZE # BLOCK_SIZE - 1]
    BY <1>1, <1>16
  <2> QED
    BY <1>16, <2>1, <2>2, <2>3
<1>19. Capacity' = Capacity /\ Place' = Place /\ \A a : Back(a)' = Back(a)
  BY <1>1, <1>18 DEF Capacity, Place, Back
<1>20. RingType'
  BY <1>1, <1>2, <1>18, <1>19 DEF RingType
<1>21. ring'[ringTail'].key = Nth(l) % Width
  <2>1. ringTail \in Place
    BY <1>2 DEF RingType
  <2>2. ring'[ringTail].key = ring[ringTail].key
    BY <1>18, <2>1
  <2> QED
    BY <1>1, <1>15, <2>2
<1>22. PICK g \in Int : g = Num(H + 1) /\ g = IF last THEN f + 1 ELSE f
  <2>1. Num(H + 1) = IF last THEN f + 1 ELSE f
    <3>1. H \in Int
      OBVIOUS
    <3> QED
      BY <1>14, <1>17, <3>1, NextIndex
  <2> QED
    BY <2>1
<1>23. \A k \in f .. l : l - k \in Place
  <2>1. PICK n1 \in Nat : n1 = Capacity /\ Place = 0 .. n1 - 1
    BY <1>2 DEF RingType, Place
  <2>2. \A k \in f .. l : l - k < n1
    BY <1>15, <2>1, Zenon DEF Entries
  <2> QED
    BY <2>1, <2>2
<1>24. Entries(l, g)'
  <2>1. (\A k \in g .. l : l - k < Capacity)'
    <3>1. \A k \in f .. l : l - k < Capacity
      BY <1>15 DEF Entries
    <3> QED
      BY <1>19, <1>22, <3>1
  <2>2. (\A k \in g .. l : ring[Back(l - k)] = [key |-> Nth(k) % Width, held |-> TRUE])'
    <3>1. ASSUME NEW k \in g .. l
          PROVE  ring'[Back(l - k)] = [key |-> Nth(k) % Width, held |-> TRUE]
      <4>1. PICK a \in Place : a = l - k /\ k \in f .. l
        BY <1>22, <1>23
      <4>2. ring[Back(a)] = [key |-> Nth(k) % Width, held |-> TRUE]
        BY <1>15, <4>1 DEF Entries
      <4>3. CASE a = b
        <5>1. k = f
          BY <1>16, <4>1, <4>3
        <5>2. ~last
          BY <1>22, <5>1
        <5>3. ring[Back(b)].key = Nth(k) % Width /\ ring[Back(b)].held = TRUE
          BY <4>2, <4>3
        <5>4. (ring[Back(b)].held /\ ~last) = TRUE
          BY <5>2, <5>3
        <5>5. ring'[Back(b)] = [key |-> Nth(k) % Width, held |-> TRUE]
          BY <1>18, <5>3, <5>4, Zenon
        <5> QED
          BY <4>1, <4>3, <5>5
      <4>4. CASE a # b
        <5>1. Back(a) \in Place \ {Back(b)}
          BY <1>2, <1>16, <4>4, BackFacts
        <5> QED
          BY <1>18, <4>1, <4>2, <5>1
      <4> QED
        BY <4>3, <4>4
    <3> QED
      BY <1>19, <3>1
  <2>3. (\A a \in Place : ring[Back(a)].held => g <= l - a)'
    <3>1. ASSUME NEW a \in Place, ring'[Back(a)].held PROVE g <= l - a
      <4>1. a \in Int
        BY DEF Place
      <4>2. CASE a = b
        <5>1. ~last
          <6>1. ring'[Back(b)].held = (ring[Back(b)].held /\ ~last)
            BY <1>18
          <6> QED
            BY <3>1, <4>2, <6>1, Zenon
        <5> QED
          BY <1>16, <1>22, <4>2, <5>1
      <4>3. CASE a # b
        <5>1. Back(a) \in Place \ {Back(b)}
          BY <1>2, <1>16, <4>3, BackFacts
        <5>2. ring[Back(a)].held
          BY <1>18, <3>1, <5>1
        <5>3. f <= l - a
          BY <1>15, <5>2 DEF Entries
        <5>4. f # l - a
          BY <1>16, <4>1, <4>3
        <5> QED
          BY <1>22, <4>1, <5>3, <5>4
      <4> QED
        BY <4>2, <4>3
    <3> QED
      BY <1>19, <3>1
  <2> QED
    BY <2>1, <2>2, <2>3 DEF Entries
<1>25. RingRight(T, H + 1)'
  <2>1. Entries(Num(T - 1), Num(H + 1))'
    BY <1>14, <1>22, <1>24
  <2>2. ring'[ringTail'].key = Nth(Num(T - 1)) % Width
    BY <1>14, <1>21
  <2> QED
    BY <2>1, <2>2 DEF RingRight
<1> QED
  BY <1>11, <1>12, <1>13, <1>20, <1>25 DEF Counted

-----------------------------------------------------------------------------
(* The invariant holds.                                                    *)

LEMMA Starts == Init => NInv
<1> SUFFICES ASSUME Init PROVE Counted(0, 0, 0)
  BY DEF NInv
<1>1. Width \in Nat \ {0} /\ 0 \in Index /\ 0 \in Nat
  BY WidthFacts DEF Index, Width
<1>2. 0 % Width = 0 /\ 0 % BLOCK_SIZE = 0
  <2>1. 0 = 0 + Width * 0 /\ 0 \in 0 .. Width - 1 /\ 0 = 0 + BLOCK_SIZE * 0 /\ 0 \in 0 .. BLOCK_SIZE - 1
    BY <1>1
  <2> QED
    BY <1>1, <2>1, Remainder
<1>3. Sizes(0, 0)
  BY <1>2 DEF Init, Sizes
<1>4. AtPc("claim") = {} /\ AtPc("undo") = {} /\ AtPc("reserve") = {}
  BY DEF Init, AtPc
<1>5. Claims = 0 /\ Undos = 0
  BY <1>4, FS_EmptySet DEF Claims, Undos
<1>6. Reservations(0, 0)
  BY <1>1, <1>2, <1>4, <1>5 DEF Init, Reservations
<1>7. HeadLoaded(0, 0)
  BY <1>1 DEF Init, HeadLoaded
<1>8. Capacity = InitialCapacity
  <2>1. DOMAIN ring = 0 .. InitialCapacity - 1
    BY DEF Init
  <2>2. 0 \in Int /\ InitialCapacity - 1 \in Int /\ InitialCapacity - 1 - 0 + 1 = InitialCapacity
    OBVIOUS
  <2>3. Cardinality(0 .. InitialCapacity - 1) = InitialCapacity - 1 - 0 + 1
    BY <2>2, FS_Interval
  <2> QED
    BY <2>1, <2>2, <2>3 DEF Capacity
<1>9. RingType
  <2>1. 1 \in Index
    BY WidthFacts DEF Index, Width
  <2>2. EmptyEntry \in [key : Index, held : BOOLEAN]
    BY <2>1 DEF EmptyEntry, INVALID_BLOCK_BASE
  <2>3. (2 * Turn) % InitialCapacity = 0
    BY WidthFacts
  <2> QED
    BY <1>8, <2>2, <2>3 DEF Init, RingType, Place
<1>10. Num(0 - 1) = -1 /\ Num(0) = 0
  <2>1. PICK x \in Int, y \in Int : x = Nth(-1) /\ x = -BLOCK_SIZE /\ y = Nth(0) /\ y = 0
    BY DEF Nth
  <2>2. Num(-1) = -1
    <3>1. PICK k \in Int : k = -1 /\ Nth(k) <= k /\ k < Nth(k) + BLOCK_SIZE
      BY <2>1
    <3>2. Num(k) = k
      BY <3>1, InBlock
    <3> QED
      BY <3>1, <3>2
  <2>3. Num(0) = 0
    BY <2>1, InBlock
  <2> QED
    BY <2>2, <2>3
<1>11. Entries(-1, 0)
  <2>1. \A p \in Place : ring[p] = EmptyEntry
    BY <1>8 DEF Init, Place
  <2>2. \A a \in Place : ~ring[Back(a)].held
    BY <1>9, <2>1, BackFacts DEF EmptyEntry
  <2> QED
    BY <2>2 DEF Entries
<1>12. RingRight(0, 0)
  BY <1>10, <1>11 DEF RingRight
<1> QED
  BY <1>3, <1>6, <1>7, <1>9, <1>12 DEF Counted

LEMMA NothingDone ==
    ASSUME NEW T \in Nat, NEW H \in Nat, NEW V \in Nat, Counted(T, H, V), UNCHANGED vars
    PROVE  Counted(T, H, V)'
<1>1. /\ Sizes(T, H) /\ Reservations(H, V) /\ HeadLoaded(T, H) /\ RingType /\ RingRight(T, H)
      /\ size \in Nat
  BY DEF Counted, Sizes
<1>2. UNCHANGED <<tailIndex, headIndex, dequeueOptimisticCount, dequeueOvercommit, ring, ringTail,
                  producer, consumer, size>>
  BY DEF vars
<1> QED
  BY <1>1, <1>2, SizesKept, ReservationsKept, HeadKept, RingKept DEF Counted

LEMMA Keeps == NInv /\ [Next]_vars => NInv'
<1> SUFFICES ASSUME NEW T \in Nat, NEW H \in Nat, NEW V \in Nat, Counted(T, H, V), [Next]_vars
             PROVE  NInv'
  BY DEF NInv
<1> T + 1 \in Nat /\ H + 1 \in Nat /\ V + 1 \in Nat
  OBVIOUS
<1>1. CASE EnqueueInBlock
  BY <1>1, EnqueueInBlockStep DEF NInv
<1>2. CASE LoadHead
  BY <1>2, LoadHeadStep DEF NInv
<1>3. CASE EnqueueFails
  BY <1>3, EnqueueFailsStep DEF NInv
<1>4. CASE EnqueueInNewBlock
  BY <1>4, EnqueueInNewBlockStep DEF NInv
<1>5. CASE new_block_index
  BY <1>5, new_block_indexStep DEF NInv
<1>6. ASSUME NEW c \in Consumer, Check(c) PROVE NInv'
  BY <1>6, CheckStep DEF NInv
<1>7. ASSUME NEW c \in Consumer, Reserve(c) PROVE NInv'
  BY <1>7, ReserveStep DEF NInv
<1>8. ASSUME NEW c \in Consumer, Undo(c) PROVE NInv'
  BY <1>8, UndoStep DEF NInv
<1>9. ASSUME NEW c \in Consumer, Claim(c) PROVE NInv'
  BY <1>9, ClaimStep DEF NInv
<1>10. CASE UNCHANGED vars
  BY <1>10, NothingDone DEF NInv
<1> QED
  BY <1>1, <1>2, <1>3, <1>4, <1>5, <1>6, <1>7, <1>8, <1>9, <1>10 DEF Next, enqueue, dequeue

-----------------------------------------------------------------------------
(* What follows from it.                                                   *)

LEMMA RingFits == ASSUME RingType PROVE Capacity * BLOCK_SIZE <= Width
<1>1. PICK n \in Nat, N \in Int :
          n = Capacity /\ N = 2 * Turn /\ N % n = 0 /\ n \in Nat \ {0} /\ N > 0 /\ Width = BLOCK_SIZE * N
  BY WidthFacts DEF RingType, Nth
<1>2. PICK q \in Int, f \in Int : f = n * q /\ N = f
  <2>1. PICK q \in Int, r \in 0 .. n - 1, f \in Int :
            q = N \div n /\ r = N % n /\ f = n * q /\ N = f + r
    BY <1>1, Quotient
  <2>2. r = 0
    BY <1>1, <2>1
  <2>3. N = f
    BY <2>1, <2>2
  <2> QED
    BY <2>1, <2>3
<1>3. n <= N
  <2>1. q <= 0 => n * q <= 0
    OBVIOUS
  <2>2. q >= 1 => n * (q - 1) >= 0
    OBVIOUS
  <2>3. n * (q - 1) = n * q - n
    OBVIOUS
  <2> QED
    BY <1>1, <1>2, <2>1, <2>2, <2>3
<1>4. BLOCK_SIZE * (N - n) >= 0
  BY <1>3
<1>5. BLOCK_SIZE * (N - n) = BLOCK_SIZE * N - n * BLOCK_SIZE
  OBVIOUS
<1> QED
  BY <1>1, <1>4, <1>5

LEMMA NumbersRightHold ==
    ASSUME NEW T \in Nat, NEW H \in Nat, NEW V \in Nat, Counted(T, H, V)
    PROVE  NumbersRight
<1>1. Sizes(T, H) /\ Reservations(H, V) /\ RingType
  BY DEF Counted
<1>2. H <= T /\ size = T - H /\ size < Half /\ size \in Nat /\ tailIndex = T % Width /\ headIndex = H % Width
  BY <1>1 DEF Sizes
<1>3. TypeOK
  <2>1. tailIndex \in Index /\ headIndex \in Index
    BY <1>2, Wraps
  <2>2. dequeueOvercommit \in Index
    BY <1>1, Wraps DEF Reservations
  <2>3. dequeueOptimisticCount \in Index
    <3>1. PICK x \in Int : x = H + V + Claims + Undos
      BY Counts
    <3> QED
      BY <1>1, <3>1, Wraps DEF Reservations
  <2>4. ringTail \in DOMAIN ring /\ \A p \in DOMAIN ring : ring[p].key \in Index /\ ring[p].held \in BOOLEAN
    BY <1>1 DEF RingType
  <2>5. size \in 0 .. Half - 1
    BY <1>2
  <2> QED
    BY <1>1, <2>1, <2>2, <2>3, <2>4, <2>5, RingFits DEF TypeOK
<1>4. SizeRight
  <2>1. circular_less_than(headIndex, tailIndex) <=> H < T
    <3>1. -Half < H - T /\ H - T <= Half
      BY <1>2
    <3> QED
      BY <1>2, <3>1, Compared
  <2>2. Minus(tailIndex, headIndex) = size
    <3>1. Minus(tailIndex, headIndex) = (T - H) % Width
      BY <1>2, Wraps
    <3>2. Width \in Nat \ {0} /\ -Width <= size /\ size < Width /\ size \in Int
      BY <1>2, WidthFacts DEF Width
    <3>3. size % Width = IF size >= 0 THEN size ELSE size + Width
      BY <3>2, SmallRemainder
    <3> QED
      BY <1>2, <3>1, <3>3
  <2> QED
    BY <1>2, <2>1, <2>2 DEF SizeRight, size_approx
<1>5. RoomUntilHalf
  <2>1. SUFFICES ASSUME size + BLOCK_SIZE < Half PROVE Room(headIndex)
    BY DEF RoomUntilHalf
  <2>2. PICK u \in Int : u = T + BLOCK_SIZE
    OBVIOUS
  <2>3. Plus(tailIndex, BLOCK_SIZE) = u % Width
    BY <1>2, <2>2, Wraps
  <2>4. -Half < H - u /\ H - u <= Half /\ H < u
    BY <1>2, <2>1, <2>2
  <2>5. circular_less_than(H % Width, u % Width) <=> H < u
    BY <2>4, Compared
  <2> QED
    BY <1>2, <2>3, <2>4, <2>5 DEF Room
<1> QED
  BY <1>3, <1>4, <1>5 DEF NumbersRight

LEMMA FoundEntryHolds ==
    ASSUME NEW T \in Nat, NEW H \in Nat, NEW V \in Nat, Counted(T, H, V)
    PROVE  FoundEntry
<1>1. Sizes(T, H) /\ RingType /\ RingRight(T, H)
  BY DEF Counted
<1>2. H <= T /\ size = T - H /\ headIndex = H % Width
  BY <1>1 DEF Sizes
<1> SUFFICES ASSUME NEW k \in 0 .. size - 1
             PROVE  ring[Position(Plus(headIndex, k))] = [key |-> Base(Plus(headIndex, k)), held |-> TRUE]
  BY DEF FoundEntry
<1>3. PICK i \in Int, h \in Int, j \in Int : i = H + k /\ h = H /\ j = T - 1 /\ h <= i /\ i <= j /\ T > 0
  BY <1>2
<1>4. Plus(headIndex, k) = i % Width
  <2>1. k \in Int
    OBVIOUS
  <2> QED
    BY <1>2, <1>3, <2>1, Wraps
<1>5. PICK l \in Int, f \in Int, b \in Int :
          l = Num(T - 1) /\ f = Num(H) /\ b = Num(i) /\ f <= b /\ b <= l
  <2>1. Num(i) \in Int /\ Num(h) \in Int /\ Num(j) \in Int
    BY BlockOf
  <2>2. Num(h) <= Num(i) /\ Num(i) <= Num(j)
    BY <1>3, NumGrows
  <2> QED
    BY <1>3, <2>1, <2>2
<1>6. Entries(l, f) /\ ring[ringTail].key = Nth(l) % Width
  BY <1>1, <1>3, <1>5 DEF RingRight
<1>7. PICK a \in Int : a = l - b /\ a >= 0
  BY <1>5
<1>8. b \in f .. l
  BY <1>5
<1>9. a < Capacity /\ ring[Back(a)] = [key |-> Nth(b) % Width, held |-> TRUE]
  BY <1>6, <1>7, <1>8 DEF Entries
<1>10. a \in Place
  BY <1>1, <1>7, <1>9 DEF RingType, Place
<1>11. Position(i % Width) = Back(a)
  BY <1>1, <1>5, <1>6, <1>7, <1>10, PositionFound
<1>12. Base(i % Width) = Nth(b) % Width
  BY <1>5, PlaceKept
<1> QED
  BY <1>4, <1>9, <1>11, <1>12

\* NInv is true in every state.
LEMMA NumbersCounted == Spec => []NInv
<1>1. Init => NInv
  BY Starts
<1>2. NInv /\ [Next]_vars => NInv'
  BY Keeps
<1> QED
  BY <1>1, <1>2, PTL DEF Spec

\* What enqueue, size_approx and the comparison of a consumer compute from indices
\* that come round is what indices without end would give: the types hold, the size
\* told is the size, and there is room until half of the indices are in use.
THEOREM NumbersRightCorrect == Spec => []NumbersRight
<1>1. NInv => NumbersRight
  BY NumbersRightHold DEF NInv
<1> QED
  BY <1>1, NumbersCounted, PTL

\* dequeue never claims more messages than there are, although it compares
\* differences of unsigned numbers, one of which was loaded before.
THEOREM ClaimsBackedCorrect == Spec => []ClaimsBacked
<1>1. NInv => ClaimsBacked
  BY DEF NInv, Counted, Reservations, ClaimsBacked, Claims, AtPc
<1> QED
  BY <1>1, NumbersCounted, PTL

\* get_block_index_index_for_index finds for every message the entry of its own
\* block, wherever the indices come round and however often the ring was doubled.
THEOREM FoundEntryCorrect == Spec => []FoundEntry
<1>1. NInv => FoundEntry
  BY FoundEntryHolds DEF NInv
<1> QED
  BY <1>1, NumbersCounted, PTL

=============================================================================
