---------------------------- MODULE Data_proofs -----------------------------
(***************************************************************************)
(* What holds of the data the program passes on: of a buffer for every     *)
(* sequence of characters, of a download for every file, every way libcurl *)
(* cuts it into pieces and every failure of libcurl or select, of          *)
(* gzip_inflate for every archive and every failure of libarchive, and of  *)
(* the streams and topics for every text of symbols.                       *)
(***************************************************************************)
EXTENDS Inflate, Streams, SequenceTheorems, WellFoundedInduction, TLAPS

(***************************************************************************)
(* Sequences joined.  What Flat computes is found by looking at the least  *)
(* number at which it would be something else.                             *)
(***************************************************************************)

LEMMA LeastNumber ==
    ASSUME NEW T, T \subseteq Nat, T # {}
    PROVE  \E n \in T : \A m \in T : n <= m
<1>1. PICK n \in T : \A m \in T : ~(<<m, n>> \in OpToRel(<, Nat))
  BY NatLessThanWellFounded, WFMin, Zenon
<1>2. \A m \in T : ~(m < n)
  BY <1>1 DEF OpToRel
<1> QED
  BY <1>2

\* f joins the sequences of seqs, up to the n-th.
Joins(f, seqs, n) == f = [k \in 0 .. n |-> IF k = 0 THEN <<>> ELSE f[k - 1] \o seqs[k]]

\* For each sequence of sequences there is such an f, and it is what Flat uses.
LEMMA JoinsExists ==
    ASSUME NEW seqs, NEW n \in Nat
    PROVE  \E f : Joins(f, seqs, n)
<1> DEFINE Bad == {m \in Nat : ~\E f : Joins(f, seqs, m)}
<1> SUFFICES ASSUME Bad # {} PROVE FALSE
  OBVIOUS
<1>1. PICK m \in Bad : \A i \in Bad : m <= i
  <2> HIDE DEF Bad
  <2>1. Bad \subseteq Nat
    BY DEF Bad
  <2> QED
    BY <2>1, LeastNumber
<1>2. m \in Nat /\ ~\E f : Joins(f, seqs, m)
  OBVIOUS
<1>3. m # 0
  <2>1. Joins([k \in 0 .. 0 |-> <<>>], seqs, 0)
    BY DEF Joins
  <2> QED
    BY <1>2, <2>1
<1>4. PICK f : Joins(f, seqs, m - 1)
  BY <1>1, <1>2, <1>3
<1> DEFINE g == [k \in 0 .. m |-> IF k < m THEN f[k] ELSE f[m - 1] \o seqs[m]]
           h == [k \in 0 .. m |-> IF k = 0 THEN <<>> ELSE g[k - 1] \o seqs[k]]
<1>5. ASSUME NEW k \in 0 .. m PROVE g[k] = h[k]
  <2>1. CASE k = 0
    BY <1>2, <1>3, <1>4, <2>1 DEF Joins
  <2>2. CASE k # 0 /\ k < m
    <3>1. f[k] = f[k - 1] \o seqs[k]
      BY <1>2, <1>4, <2>2 DEF Joins
    <3>2. g[k] = f[k] /\ g[k - 1] = f[k - 1]
      BY <1>2, <2>2
    <3> QED
      BY <2>2, <3>1, <3>2
  <2>3. CASE k = m
    BY <1>2, <1>3, <2>3
  <2> QED
    BY <1>2, <2>1, <2>2, <2>3
<1>6. g = h
  BY <1>5
<1> QED
  BY <1>2, <1>6 DEF Joins

LEMMA FlatJoins ==
    ASSUME NEW seqs, Len(seqs) \in Nat
    PROVE  \E f : Joins(f, seqs, Len(seqs)) /\ Flat(seqs) = f[Len(seqs)]
<1> DEFINE f == CHOOSE g : Joins(g, seqs, Len(seqs))
<1>1. Joins(f, seqs, Len(seqs))
  <2>1. \E g : Joins(g, seqs, Len(seqs))
    BY JoinsExists
  <2> QED
    BY <2>1, Zenon
<1>2. Flat(seqs) = f[Len(seqs)]
  BY Zenon DEF Flat, Joins
<1> QED
  BY <1>1, <1>2

LEMMA JoinsStep ==
    ASSUME NEW seqs, NEW n \in Nat, NEW f, Joins(f, seqs, n)
    PROVE  f[0] = <<>> /\ \A m \in 1 .. n : f[m] = f[m - 1] \o seqs[m]
BY DEF Joins

\* What is joined is a sequence of the same elements.
LEMMA JoinsType ==
    ASSUME NEW S, NEW seqs \in Seq(Seq(S)), NEW f, Joins(f, seqs, Len(seqs)),
           NEW n \in 0 .. Len(seqs)
    PROVE  f[n] \in Seq(S)
<1> DEFINE Bad == {k \in 0 .. Len(seqs) : f[k] \notin Seq(S)}
<1>0. Len(seqs) \in Nat
  BY LenProperties
<1> SUFFICES ASSUME Bad # {} PROVE FALSE
  OBVIOUS
<1>1. PICK m \in Bad : \A i \in Bad : m <= i
  <2>1. Bad \subseteq Nat
    BY <1>0
  <2> HIDE DEF Bad
  <2> QED
    BY <2>1, LeastNumber
<1>2. m \in 0 .. Len(seqs) /\ f[m] \notin Seq(S)
  OBVIOUS
<1>3. m # 0
  BY <1>0, <1>2 DEF Joins
<1>4. m - 1 \in 0 .. Len(seqs) /\ m - 1 \notin Bad
  BY <1>0, <1>1, <1>2, <1>3
<1>5. f[m - 1] \in Seq(S)
  BY <1>4
<1>6. f[m] = f[m - 1] \o seqs[m]
  BY <1>0, <1>2, <1>3 DEF Joins
<1>7. seqs[m] \in Seq(S)
  BY <1>0, <1>2, <1>3, ElementOfSeq
<1> QED
  BY <1>2, <1>5, <1>6, <1>7, ConcatProperties

LEMMA FlatType ==
    ASSUME NEW S, NEW seqs \in Seq(Seq(S))
    PROVE  Flat(seqs) \in Seq(S)
<1>1. Len(seqs) \in Nat /\ Len(seqs) \in 0 .. Len(seqs)
  BY LenProperties
<1>2. PICK f : Joins(f, seqs, Len(seqs)) /\ Flat(seqs) = f[Len(seqs)]
  BY <1>1, FlatJoins
<1> QED
  BY <1>1, <1>2, JoinsType

\* The first sequence comes first.
LEMMA FlatFirst ==
    ASSUME NEW S, NEW seqs \in Seq(Seq(S)), seqs # <<>>
    PROVE  Flat(seqs) = Head(seqs) \o Flat(Tail(seqs))
<1>0. PICK n \in Nat : n = Len(Tail(seqs))
  BY HeadTailProperties, LenProperties
<1>1. n = Len(seqs) - 1 /\ Len(seqs) = n + 1 /\ n \in Nat /\ Len(seqs) \in Nat
  BY <1>0, HeadTailProperties, LenProperties
<1>9. PICK first \in Seq(S) : first = Head(seqs)
  BY HeadTailProperties
<1>a. Tail(seqs) \in Seq(Seq(S)) /\ first = seqs[1] /\ first \in Seq(S)
  BY <1>9, HeadTailProperties
<1>d. first \in Seq(S)
  BY <1>a
<1>b. \A i \in 1 .. n : Tail(seqs)[i] = seqs[i + 1]
  BY <1>0, HeadTailProperties
<1>c. \A i \in 1 .. n : seqs[i + 1] \in Seq(S)
  BY <1>1, ElementOfSeq
<1>2. PICK f : Joins(f, seqs, Len(seqs)) /\ Flat(seqs) = f[Len(seqs)]
  BY <1>1, FlatJoins
<1>3. PICK g : Joins(g, Tail(seqs), n) /\ Flat(Tail(seqs)) = g[n]
  BY <1>0, FlatJoins
<1> DEFINE Right(k) == f[k + 1] = first \o g[k]
<1>4. Right(0)
  <2>1. f[0] = <<>> /\ g[0] = <<>>
    BY <1>1, <1>2, <1>3, JoinsStep
  <2>2. f[1] = <<>> \o first
    <3>1. 1 \in 1 .. Len(seqs) /\ Len(seqs) \in Nat /\ 1 - 1 = 0
      BY <1>1
    <3>2. f[1] = f[1 - 1] \o seqs[1]
      BY <1>2, <3>1, JoinsStep, Zenon
    <3> QED
      BY <1>a, <2>1, <3>1, <3>2, Zenon
  <2>3. <<>> \o first = first \o <<>>
    BY <1>a, ConcatEmptySeq
  <2> QED
    BY <2>1, <2>2, <2>3
<1>5. ASSUME NEW m \in 1 .. n, Right(m - 1) PROVE Right(m)
  <2>1. f[m + 1] = f[m] \o seqs[m + 1]
    <3>1. m + 1 \in 1 .. Len(seqs) /\ (m + 1) - 1 = m
      BY <1>1
    <3>2. f[m + 1] = f[(m + 1) - 1] \o seqs[m + 1]
      BY <1>1, <1>2, <3>1, JoinsStep
    <3> QED
      BY <3>1, <3>2
  <2>2. f[m] = first \o g[m - 1]
    BY <1>5
  <2>3. g[m] = g[m - 1] \o seqs[m + 1]
    <3>1. m \in 1 .. n /\ n \in Nat
      BY <1>1
    <3>2. g[m] = g[m - 1] \o Tail(seqs)[m]
      BY <1>3, <3>1, JoinsStep, Zenon
    <3> QED
      BY <1>b, <3>1, <3>2, Zenon
  <2>4. g[m - 1] \in Seq(S) /\ seqs[m + 1] \in Seq(S)
    <3>1. m - 1 \in 0 .. n /\ m - 1 \in 0 .. Len(Tail(seqs)) /\ seqs[m + 1] \in Seq(S)
      BY <1>0, <1>1, <1>c
    <3> QED
      BY <1>0, <1>3, <1>a, <3>1, JoinsType
  <2>5. (first \o g[m - 1]) \o seqs[m + 1] = first \o (g[m - 1] \o seqs[m + 1])
    <3>1. \A x, y \in Seq(S) : (first \o x) \o y = first \o (x \o y)
      BY <1>d, ConcatAssociative, SMTT(30)
    <3> QED
      BY <2>4, <3>1, Zenon
  <2> QED
    BY <2>1, <2>2, <2>3, <2>5
<1> HIDE DEF Right
<1> DEFINE Bad == {k \in 0 .. n : ~Right(k)}
<1>6. Bad = {}
  <2> SUFFICES ASSUME Bad # {} PROVE FALSE
    OBVIOUS
  <2>1. PICK m \in Bad : \A i \in Bad : m <= i
    <3>1. Bad \subseteq Nat
      OBVIOUS
    <3> HIDE DEF Bad
    <3> QED
      BY <3>1, LeastNumber
  <2>2. m \in 1 .. n /\ ~Right(m)
    BY <1>4
  <2>3. Right(m - 1)
    BY <2>1, <2>2
  <2> QED
    BY <1>5, <2>2, <2>3
<1>7. Right(n)
  BY <1>6
<1> QED
  BY <1>1, <1>2, <1>3, <1>7, <1>9 DEF Right

\* Nothing joined is nothing.
LEMMA FlatEmpty == Flat(<<>>) = <<>>
<1>1. Len(<<>>) = 0
  OBVIOUS
<1>2. PICK f : Joins(f, <<>>, 0) /\ Flat(<<>>) = f[0]
  BY <1>1, FlatJoins
<1>3. f[0] = <<>>
  BY <1>2 DEF Joins
<1> QED
  BY <1>2, <1>3

\* A sequence put in front comes first.
LEMMA FlatCons ==
    ASSUME NEW S, NEW s \in Seq(S), NEW seqs \in Seq(Seq(S))
    PROVE  Flat(<<s>> \o seqs) = s \o Flat(seqs)
<1>1. PICK t \in Seq(Seq(S)) : t = <<s>> \o seqs
  <2>1. <<s>> \in Seq(Seq(S))
    OBVIOUS
  <2> QED
    BY <2>1, ConcatProperties
<1>2. /\ Len(t) = Len(seqs) + 1 /\ Len(seqs) \in Nat
      /\ \A i \in 1 .. Len(seqs) + 1 : t[i] = IF i <= 1 THEN s ELSE seqs[i - 1]
  <2>1. <<s>> \in Seq(Seq(S)) /\ Len(<<s>>) = 1 /\ <<s>>[1] = s
    OBVIOUS
  <2>2. /\ Len(<<s>> \o seqs) = 1 + Len(seqs)
        /\ \A i \in 1 .. 1 + Len(seqs) :
              (<<s>> \o seqs)[i] = IF i <= 1 THEN <<s>>[i] ELSE seqs[i - 1]
    BY <2>1, ConcatProperties
  <2>3. Len(seqs) \in Nat
    BY LenProperties
  <2> QED
    BY <1>1, <2>1, <2>2, <2>3
<1>3. t # <<>>
  BY <1>2, EmptySeq
<1>4. Head(t) = s
  BY <1>1, <1>2, <1>3
<1>5. Tail(t) = seqs
  <2>1. /\ Tail(t) \in Seq(Seq(S)) /\ Len(Tail(t)) = Len(t) - 1
        /\ \A i \in 1 .. Len(Tail(t)) : Tail(t)[i] = t[i + 1]
    BY <1>3, HeadTailProperties
  <2>2. Len(Tail(t)) = Len(seqs)
    BY <1>2, <2>1
  <2>3. \A i \in 1 .. Len(Tail(t)) : Tail(t)[i] = seqs[i]
    BY <1>2, <2>1, <2>2
  <2> QED
    BY <2>1, <2>2, <2>3, SeqEqual
<1> QED
  BY <1>1, <1>3, <1>4, <1>5, FlatFirst

LEMMA FirstReplaced ==
    ASSUME NEW S, NEW e \in Seq(S), e # <<>>, NEW r \in S, NEW f, f = [e EXCEPT ![1] = r]
    PROVE  f \in Seq(S) /\ f # <<>> /\ Head(f) = r /\ Tail(f) = Tail(e)
<1>1. 1 \in 1 .. Len(e) /\ Len(e) \in Nat
  BY LenProperties, EmptySeq
<1>2. f \in Seq(S) /\ Len(f) = Len(e) /\ \A j \in 1 .. Len(e) : f[j] = IF j = 1 THEN r ELSE e[j]
  BY <1>1, ExceptSeq
<1>3. f # <<>> /\ Head(f) = r
  BY <1>1, <1>2
<1>4. /\ Tail(f) \in Seq(S) /\ Len(Tail(f)) = Len(f) - 1
      /\ \A i \in 1 .. Len(Tail(f)) : Tail(f)[i] = f[i + 1]
  BY <1>2, <1>3, HeadTailProperties
<1>5. /\ Tail(e) \in Seq(S) /\ Len(Tail(e)) = Len(e) - 1
      /\ \A i \in 1 .. Len(Tail(e)) : Tail(e)[i] = e[i + 1]
  BY HeadTailProperties
<1>6. \A i \in 1 .. Len(Tail(f)) : Tail(f)[i] = Tail(e)[i]
  BY <1>1, <1>2, <1>4, <1>5
<1>7. Tail(f) = Tail(e)
  BY <1>2, <1>4, <1>5, <1>6, SeqEqual
<1> QED
  BY <1>2, <1>3, <1>7

LEMMA FirstOfTwo ==
    ASSUME NEW S, NEW s \in Seq(S), s # <<>>, NEW m \in Seq(S)
    PROVE  /\ s \o m \in Seq(S) /\ s \o m # <<>>
           /\ Head(s \o m) = Head(s) /\ Tail(s \o m) = Tail(s) \o m
<1>1. PICK t \in Seq(S) :
         /\ t = s \o m /\ Len(t) = Len(s) + Len(m)
         /\ \A i \in 1 .. Len(s) + Len(m) : t[i] = IF i <= Len(s) THEN s[i] ELSE m[i - Len(s)]
  <2>1. /\ s \o m \in Seq(S) /\ Len(s \o m) = Len(s) + Len(m)
        /\ \A i \in 1 .. Len(s) + Len(m) :
              (s \o m)[i] = IF i <= Len(s) THEN s[i] ELSE m[i - Len(s)]
    BY ConcatProperties
  <2> QED
    BY <2>1, Zenon
<1>2. Len(s) \in Nat /\ Len(s) # 0 /\ Len(m) \in Nat
  BY LenProperties, EmptySeq
<1>3. t # <<>> /\ Head(t) = t[1] /\ t[1] = s[1] /\ Head(s) = s[1]
  BY <1>1, <1>2
<1>4. /\ Tail(s) \in Seq(S) /\ Len(Tail(s)) = Len(s) - 1
      /\ \A i \in 1 .. Len(Tail(s)) : Tail(s)[i] = s[i + 1]
  BY HeadTailProperties
<1>5. /\ Tail(t) \in Seq(S) /\ Len(Tail(t)) = Len(t) - 1
      /\ \A i \in 1 .. Len(Tail(t)) : Tail(t)[i] = t[i + 1]
  BY <1>3, HeadTailProperties
<1>6. PICK u \in Seq(S) :
         /\ u = Tail(s) \o m /\ Len(u) = Len(Tail(s)) + Len(m)
         /\ \A i \in 1 .. Len(Tail(s)) + Len(m) :
               u[i] = IF i <= Len(Tail(s)) THEN Tail(s)[i] ELSE m[i - Len(Tail(s))]
  <2>1. PICK r \in Seq(S) : r = Tail(s)
    BY <1>4
  <2>2. /\ r \o m \in Seq(S) /\ Len(r \o m) = Len(r) + Len(m)
        /\ \A i \in 1 .. Len(r) + Len(m) :
              (r \o m)[i] = IF i <= Len(r) THEN r[i] ELSE m[i - Len(r)]
    <3> HIDE <2>1
    <3> QED
      BY ConcatProperties
  <2> QED
    BY <2>1, <2>2, Zenon
<1>7. Len(Tail(t)) = Len(u)
  BY <1>1, <1>2, <1>4, <1>5, <1>6
<1>8. ASSUME NEW i \in 1 .. Len(u) PROVE Tail(t)[i] = u[i]
  BY <1>1, <1>2, <1>4, <1>5, <1>6, <1>7
<1>9. Tail(t) = u
  BY <1>5, <1>6, <1>7, <1>8, SeqEqual
<1> QED
  BY <1>1, <1>3, <1>6, <1>9

-----------------------------------------------------------------------------
(* Texts.                                                                  *)

\* A text is known by its length and its characters.
LEMMA TextFacts ==
    ASSUME NEW S, NEW s \in Seq(S)
    PROVE  /\ Len(s) \in Nat /\ DOMAIN s = 1 .. Len(s)
           /\ \A i \in 1 .. Len(s) : s[i] \in S
           /\ (s # <<>> <=> Len(s) > 0)
BY LenProperties, EmptySeq

LEMMA Glued ==
    ASSUME NEW S, NEW s \in Seq(S), NEW c \in S, NEW t \in Seq(S)
    PROVE  /\ s \o (<<c>> \o t) \in Seq(S) /\ s \o <<c>> \in Seq(S) /\ <<c>> \o t \in Seq(S)
           /\ Len(s \o (<<c>> \o t)) = Len(s) + Len(t) + 1
           /\ \A i \in 1 .. Len(s) : (s \o (<<c>> \o t))[i] = s[i]
           /\ (s \o (<<c>> \o t))[Len(s) + 1] = c
           /\ \A i \in 1 .. Len(t) : (s \o (<<c>> \o t))[Len(s) + 1 + i] = t[i]
           /\ (s \o <<c>>) \o t = s \o (<<c>> \o t)
<1>1. PICK m \in Nat, n \in Nat : m = Len(s) /\ n = Len(t)
  BY TextFacts
<1>2. <<c>> \in Seq(S) /\ Len(<<c>>) = 1 /\ <<c>>[1] = c
  OBVIOUS
<1>3. /\ <<c>> \o t \in Seq(S) /\ Len(<<c>> \o t) = 1 + n
      /\ \A i \in 1 .. 1 + n : (<<c>> \o t)[i] = IF i <= 1 THEN <<c>>[i] ELSE t[i - 1]
  BY <1>1, <1>2, ConcatProperties
<1>4. PICK u : u = <<c>> \o t
  OBVIOUS
<1>5. u \in Seq(S) /\ Len(u) = 1 + n /\ u[1] = c /\ \A i \in 1 .. n : u[1 + i] = t[i]
  BY <1>2, <1>3, <1>4
<1>6. /\ s \o u \in Seq(S) /\ Len(s \o u) = m + (1 + n)
      /\ \A i \in 1 .. m + (1 + n) : (s \o u)[i] = IF i <= m THEN s[i] ELSE u[i - m]
  <2>1. /\ s \o u \in Seq(S) /\ Len(s \o u) = Len(s) + Len(u)
        /\ \A i \in 1 .. Len(s) + Len(u) : (s \o u)[i] = IF i <= Len(s) THEN s[i] ELSE u[i - Len(s)]
    BY <1>5, ConcatProperties
  <2> QED
    BY <1>1, <1>5, <2>1, Zenon
<1>7. /\ \A i \in 1 .. m : (s \o u)[i] = s[i]
      /\ (s \o u)[m + 1] = u[1]
      /\ \A i \in 1 .. n : (s \o u)[m + 1 + i] = u[1 + i]
  <2>1. \A i \in 1 .. m : i \in 1 .. m + (1 + n) /\ i <= m
    OBVIOUS
  <2>2. m + 1 \in 1 .. m + (1 + n) /\ ~(m + 1 <= m) /\ m + 1 - m = 1
    OBVIOUS
  <2>3. \A i \in 1 .. n : m + 1 + i \in 1 .. m + (1 + n) /\ ~(m + 1 + i <= m) /\ m + 1 + i - m = 1 + i
    OBVIOUS
  <2>4. \A i \in 1 .. m : (s \o u)[i] = s[i]
    BY <1>6, <2>1, Zenon
  <2>5. (s \o u)[m + 1] = u[1]
    <3>1. PICK k : k = m + 1 /\ k \in 1 .. m + (1 + n) /\ ~(k <= m) /\ k - m = 1
      BY <2>2
    <3>2. (s \o u)[k] = u[k - m]
      BY <1>6, <3>1, Zenon
    <3> QED
      BY <3>1, <3>2
  <2>6. \A i \in 1 .. n : (s \o u)[m + 1 + i] = u[1 + i]
    <3>1. TAKE i \in 1 .. n
    <3>2. PICK k : k = m + 1 + i /\ k \in 1 .. m + (1 + n) /\ ~(k <= m) /\ k - m = 1 + i
      BY <2>3
    <3>3. (s \o u)[k] = u[k - m]
      BY <1>6, <3>2, Zenon
    <3> QED
      BY <3>2, <3>3
  <2> QED
    BY <2>4, <2>5, <2>6
<1>8. s \o <<c>> \in Seq(S)
  BY <1>2, ConcatProperties
<1>9. (s \o <<c>>) \o t = s \o (<<c>> \o t)
  BY <1>2, ConcatAssociative
<1>10. m + (1 + n) = m + n + 1
  OBVIOUS
<1>11. \A i \in 1 .. n : (s \o u)[m + 1 + i] = t[i]
  BY <1>5, <1>7
<1>12. (s \o u)[m + 1] = c
  BY <1>5, <1>7
<1> QED
  BY <1>1, <1>3, <1>4, <1>6, <1>7, <1>8, <1>9, <1>10, <1>11, <1>12

\* The first of a character, or the place after the end.
LEMMA FindFirst ==
    ASSUME NEW S, NEW s \in Seq(S), NEW c
    PROVE  /\ Find(s, c) \in 1 .. Len(s) + 1
           /\ Find(s, c) <= Len(s) => s[Find(s, c)] = c
           /\ \A j \in 1 .. Find(s, c) - 1 : s[j] # c
<1>1. PICK n \in Nat : n = Len(s)
  BY TextFacts
<1> DEFINE T == {i \in 1 .. n + 1 : i <= n => s[i] = c}
<1>2. n + 1 \in T /\ T \subseteq Nat
  OBVIOUS
<1>3. PICK i \in T : \A m \in T : i <= m
  <2> HIDE DEF T
  <2> QED
    BY <1>2, LeastNumber
<1>4. \E k \in 1 .. Len(s) + 1 : (k <= Len(s) => s[k] = c) /\ \A j \in 1 .. k - 1 : s[j] # c
  BY <1>1, <1>3
<1> QED
  BY <1>4, Zenon DEF Find

-----------------------------------------------------------------------------
(* The parts between delimiters.                                           *)

Cuts(s, d) == {i \in DOMAIN s : s[i] = d} \cup {0, Len(s) + 1}

\* i and j are ends one after the other.
Between(s, d, i, j) ==
    /\ i \in Cuts(s, d) /\ j \in Cuts(s, d) /\ i < j
    /\ \A k \in Cuts(s, d) : k <= i \/ k >= j

LEMMA PartIs ==
    ASSUME NEW s, NEW d, NEW p
    PROVE  p \in Parts(s, d) <=> \E i, j : Between(s, d, i, j) /\ p = SubSeq(s, i + 1, j - 1)
<1>1. ASSUME NEW i, NEW j, Between(s, d, i, j), p = SubSeq(s, i + 1, j - 1)
      PROVE  p \in Parts(s, d)
  <2>1. PICK e : e = <<i, j>>
    OBVIOUS
  <2>2. e[1] = i /\ e[2] = j /\ e \in Cuts(s, d) \X Cuts(s, d)
    BY <1>1, <2>1 DEF Between
  <2> QED
    BY <1>1, <2>2 DEF Parts, Between, Cuts
<1>2. ASSUME p \in Parts(s, d)
      PROVE  \E i, j : Between(s, d, i, j) /\ p = SubSeq(s, i + 1, j - 1)
  BY <1>2 DEF Parts, Between, Cuts
<1> QED
  BY <1>1, <1>2

\* A part is a text without the delimiter.
LEMMA PartType ==
    ASSUME NEW S, NEW s \in Seq(S), NEW d, NEW p \in Parts(s, d)
    PROVE  p \in Seq(S) /\ \A k \in 1 .. Len(p) : p[k] # d
<1>1. PICK n \in Nat : n = Len(s) /\ DOMAIN s = 1 .. n
  BY TextFacts
<1>2. PICK i, j : Between(s, d, i, j) /\ p = SubSeq(s, i + 1, j - 1)
  BY PartIs
<1>3. i \in 0 .. n + 1 /\ j \in 0 .. n + 1 /\ i < j
  BY <1>1, <1>2 DEF Between, Cuts
<1>4. PICK a \in Int, b \in Int : a = i + 1 /\ b = j - 1 /\ 1 <= a /\ a <= b + 1 /\ b <= n
  BY <1>3
<1>5. \A k \in a .. b : s[k] \in S
  BY <1>1, <1>4, TextFacts
<1>6. /\ SubSeq(s, a, b) \in Seq(S)
      /\ Len(SubSeq(s, a, b)) = IF a <= b THEN b - a + 1 ELSE 0
      /\ \A k \in 1 .. b - a + 1 : SubSeq(s, a, b)[k] = s[a + k - 1]
  BY <1>5, SubSeqProperties
<1>7. ASSUME NEW k \in 1 .. b - a + 1 PROVE s[a + k - 1] # d
  <2>1. PICK m \in Int : m = a + k - 1 /\ m \in 1 .. n /\ i < m /\ m < j
    BY <1>3, <1>4
  <2>2. m \notin Cuts(s, d)
    BY <1>2, <1>3, <2>1 DEF Between
  <2> QED
    BY <1>1, <2>1, <2>2 DEF Cuts
<1>8. Len(p) = b - a + 1 \/ Len(p) = 0
  BY <1>2, <1>4, <1>6
<1> QED
  BY <1>2, <1>4, <1>6, <1>7, <1>8

\* A text without the delimiter is one part.
LEMMA OnePart ==
    ASSUME NEW S, NEW t \in Seq(S), NEW d, \A k \in 1 .. Len(t) : t[k] # d
    PROVE  Parts(t, d) = {t}
<1>1. PICK n \in Nat : n = Len(t) /\ DOMAIN t = 1 .. n
  BY TextFacts
<1>2. Cuts(t, d) = {0, n + 1}
  BY <1>1 DEF Cuts
<1>3. \A i, j : Between(t, d, i, j) <=> i = 0 /\ j = n + 1
  BY <1>2 DEF Between
<1>a. PICK a, b : a = 0 /\ b = n + 1
  OBVIOUS
<1>4. SubSeq(t, a + 1, b - 1) = t
  <2>1. a + 1 = 1 /\ b - 1 = n
    BY <1>a
  <2>2. SubSeq(t, 1, n) = t
    BY <1>1, SubSeqFull
  <2> QED
    BY <2>1, <2>2
<1>5. \A p : p \in Parts(t, d) <=> p = t
  <2>1. TAKE p
  <2>2. p \in Parts(t, d) <=> \E i, j : Between(t, d, i, j) /\ p = SubSeq(t, i + 1, j - 1)
    BY PartIs
  <2>a. \A i, j : Between(t, d, i, j) <=> i = a /\ j = b
    BY <1>3, <1>a
  <2>3. (\E i, j : Between(t, d, i, j) /\ p = SubSeq(t, i + 1, j - 1)) <=> p = SubSeq(t, a + 1, b - 1)
    <3>1. ASSUME NEW i, NEW j, Between(t, d, i, j), p = SubSeq(t, i + 1, j - 1)
          PROVE  p = SubSeq(t, a + 1, b - 1)
      <4>1. i = a /\ j = b
        BY <2>a, <3>1
      <4> QED
        BY <3>1, <4>1
    <3>2. Between(t, d, a, b)
      BY <2>a
    <3> QED
      BY <3>1, <3>2
  <2> QED
    BY <1>4, <2>2, <2>3, Zenon
<1> QED
  BY <1>5

\* With a delimiter and a text without one put after s, there is one part more.
LEMMA MoreParts ==
    ASSUME NEW S, NEW s \in Seq(S), NEW d \in S, NEW t \in Seq(S), \A k \in 1 .. Len(t) : t[k] # d
    PROVE  Parts(s \o (<<d>> \o t), d) = Parts(s, d) \cup {t}
<1>1. PICK m \in Nat, n \in Nat : m = Len(s) /\ DOMAIN s = 1 .. m /\ n = Len(t) /\ DOMAIN t = 1 .. n
  BY TextFacts
<1>2. PICK u \in Seq(S) : u = s \o (<<d>> \o t)
  BY Glued
<1>3. /\ Len(u) = m + n + 1 /\ DOMAIN u = 1 .. m + n + 1
      /\ \A i \in 1 .. m : u[i] = s[i]
      /\ u[m + 1] = d
      /\ \A i \in 1 .. n : u[m + 1 + i] = t[i]
  <2>1. /\ Len(u) = m + n + 1
        /\ \A i \in 1 .. m : u[i] = s[i]
        /\ u[m + 1] = d
        /\ \A i \in 1 .. n : u[m + 1 + i] = t[i]
    <3>1. /\ Len(u) = Len(s) + Len(t) + 1
          /\ \A i \in 1 .. Len(s) : u[i] = s[i]
          /\ u[Len(s) + 1] = d
          /\ \A i \in 1 .. Len(t) : u[Len(s) + 1 + i] = t[i]
      BY <1>2, Glued
    <3> QED
      BY <1>1, <3>1, Zenon
  <2>2. DOMAIN u = 1 .. Len(u)
    BY TextFacts
  <2> QED
    BY <2>1, <2>2
<1>4. Cuts(u, d) = Cuts(s, d) \cup {m + n + 2}
  <2>1. \A i \in m + 2 .. m + n + 1 : u[i] # d
    <3>1. TAKE i \in m + 2 .. m + n + 1
    <3>2. PICK k \in 1 .. n : k = i - (m + 1) /\ i = m + 1 + k
      OBVIOUS
    <3>3. t[k] # d
      BY <1>1
    <3> QED
      BY <1>3, <3>2, <3>3
  <2>2. \A i \in 1 .. m + n + 1 : u[i] = d <=> i = m + 1 \/ (i \in 1 .. m /\ s[i] = d)
    <3>1. TAKE i \in 1 .. m + n + 1
    <3>2. i \in 1 .. m \/ i = m + 1 \/ i \in m + 2 .. m + n + 1
      OBVIOUS
    <3> QED
      BY <1>3, <2>1, <3>2
  <2>3. {i \in DOMAIN u : u[i] = d} = {i \in DOMAIN s : s[i] = d} \cup {m + 1}
    BY <1>1, <1>3, <2>2
  <2>4. Len(u) + 1 = m + n + 2 /\ Len(s) + 1 = m + 1
    BY <1>1, <1>3
  <2> QED
    BY <2>3, <2>4 DEF Cuts
<1>5. \A k \in Cuts(s, d) : k \in 0 .. m + 1
  BY <1>1 DEF Cuts
<1>6. m + 1 \in Cuts(s, d)
  BY <1>1 DEF Cuts
<1>7. \A i, j : Between(u, d, i, j) <=> Between(s, d, i, j) \/ (i = m + 1 /\ j = m + n + 2)
  <2>1. ASSUME NEW i, NEW j, Between(s, d, i, j) PROVE Between(u, d, i, j)
    BY <1>4, <1>5, <2>1 DEF Between
  <2>2. Between(u, d, m + 1, m + n + 2)
    BY <1>4, <1>5, <1>6 DEF Between
  <2>3. ASSUME NEW i, NEW j, Between(u, d, i, j)
        PROVE  Between(s, d, i, j) \/ (i = m + 1 /\ j = m + n + 2)
    BY <1>4, <1>5, <1>6, <2>3 DEF Between
  <2> QED
    BY <2>1, <2>2, <2>3
<1>8. ASSUME NEW i, NEW j, Between(s, d, i, j)
      PROVE  SubSeq(u, i + 1, j - 1) = SubSeq(s, i + 1, j - 1)
  <2>1. i \in 0 .. m + 1 /\ j \in 0 .. m + 1 /\ i < j
    BY <1>5, <1>8 DEF Between
  <2>2. PICK a \in Int, b \in Int : a = i + 1 /\ b = j - 1 /\ 1 <= a /\ b <= m
    BY <2>1
  <2>3. CASE b < a
    BY <2>2, <2>3, SubSeqEmpty
  <2>4. CASE a <= b
    <3>1. a \in 1 .. Len(s) /\ b \in 1 .. Len(s)
      BY <1>1, <2>2, <2>4
    <3>2. <<d>> \o t \in Seq(S)
      BY Glued
    <3> QED
      BY <1>2, <2>2, <3>1, <3>2, SubSeqOfConcat1
  <2> QED
    BY <2>2, <2>3, <2>4
<1>9. SubSeq(u, m + 1 + 1, m + n + 2 - 1) = t
  <2>1. PICK a \in Int, b \in Int : a = m + 1 + 1 /\ b = m + n + 2 - 1
    OBVIOUS
  <2>2. \A k \in a .. b : u[k] \in S
    BY <1>3, <2>1, TextFacts
  <2>3. /\ SubSeq(u, a, b) \in Seq(S)
        /\ Len(SubSeq(u, a, b)) = IF a <= b THEN b - a + 1 ELSE 0
        /\ \A k \in 1 .. b - a + 1 : SubSeq(u, a, b)[k] = u[a + k - 1]
    BY <2>2, SubSeqProperties
  <2>4. b - a + 1 = n /\ (IF a <= b THEN b - a + 1 ELSE 0) = n
    BY <2>1
  <2>5. \A k \in 1 .. n : SubSeq(u, a, b)[k] = t[k]
    <3>1. TAKE k \in 1 .. n
    <3>2. a + k - 1 = m + 1 + k
      BY <2>1
    <3>3. SubSeq(u, a, b)[k] = u[a + k - 1]
      BY <2>3, <2>4
    <3> QED
      BY <1>3, <3>2, <3>3
  <2>6. SubSeq(u, a, b) = t
    BY <1>1, <2>3, <2>4, <2>5, SeqEqual
  <2> QED
    BY <2>1, <2>6
<1>10. \A p : p \in Parts(u, d) <=> p \in Parts(s, d) \/ p = t
  <2>1. TAKE p
  <2>2. p \in Parts(u, d) <=> \E i, j : Between(u, d, i, j) /\ p = SubSeq(u, i + 1, j - 1)
    BY PartIs
  <2>3. p \in Parts(s, d) <=> \E i, j : Between(s, d, i, j) /\ p = SubSeq(s, i + 1, j - 1)
    BY PartIs
  <2> QED
    <3>1. CASE p \in Parts(s, d)
      <4>1. PICK i, j : Between(s, d, i, j) /\ p = SubSeq(s, i + 1, j - 1)
        BY <2>3, <3>1
      <4>2. Between(u, d, i, j) /\ p = SubSeq(u, i + 1, j - 1)
        BY <1>7, <1>8, <4>1
      <4> QED
        BY <2>2, <3>1, <4>2
    <3>2. CASE p = t
      <4>1. PICK i, j : i = m + 1 /\ j = m + n + 2
        OBVIOUS
      <4>2. Between(u, d, i, j)
        BY <1>7, <4>1
      <4>3. p = SubSeq(u, i + 1, j - 1)
        BY <1>9, <3>2, <4>1
      <4>4. p \in Parts(u, d)
        BY <2>2, <4>2, <4>3
      <4> QED
        BY <3>2, <4>4
    <3>3. CASE p \in Parts(u, d)
      <4>1. PICK i, j : Between(u, d, i, j) /\ p = SubSeq(u, i + 1, j - 1)
        BY <2>2, <3>3
      <4>2. CASE Between(s, d, i, j)
        <5>1. p = SubSeq(s, i + 1, j - 1)
          BY <1>8, <4>1, <4>2
        <5> QED
          BY <2>3, <3>3, <4>2, <5>1, Zenon
      <4>3. CASE i = m + 1 /\ j = m + n + 2
        <5>1. p = t
          BY <1>9, <4>1, <4>3
        <5> QED
          BY <3>3, <5>1
      <4> QED
        BY <1>7, <4>1, <4>2, <4>3
    <3> QED
      BY <3>1, <3>2, <3>3
<1> QED
  BY <1>2, <1>10

-----------------------------------------------------------------------------
(* Tokens joined.                                                          *)

JoinedBy(f, tokens) ==
    f = [k \in 1 .. Len(tokens) |-> IF k = 1 THEN tokens[1] ELSE f[k - 1] \o <<";">> \o tokens[k]]

LEMMA JoinedIs ==
    ASSUME NEW tokens, NEW f, JoinedBy(f, tokens), Len(tokens) \in Nat \ {0}
    PROVE  Joined(tokens) = f[Len(tokens)]
<1> DEFINE g == CHOOSE h : JoinedBy(h, tokens)
<1>1. JoinedBy(g, tokens)
  BY Zenon
<1>2. Joined(tokens) = g[Len(tokens)]
  BY Zenon DEF Joined, JoinedBy
<1> HIDE DEF g
<1>3. PICK n \in Nat : n = Len(tokens) /\ n >= 1
  OBVIOUS
<1> DEFINE Step(before, k) == IF k = 1 THEN tokens[1] ELSE before \o <<";">> \o tokens[k]
           Bad == {k \in 1 .. n : f[k] # g[k]}
<1>4. /\ f = [k \in 1 .. n |-> Step(f[k - 1], k)]
      /\ g = [k \in 1 .. n |-> Step(g[k - 1], k)]
  BY <1>1, <1>3 DEF JoinedBy
<1>5. f[1] = g[1]
  <2>1. 1 \in 1 .. n
    BY <1>3
  <2>2. f[1] = Step(f[1 - 1], 1) /\ g[1] = Step(g[1 - 1], 1)
    <3> HIDE DEF Step
    <3> QED
      BY <1>4, <2>1, Zenon
  <2> QED
    BY <2>2
<1> HIDE DEF Step
<1>6. SUFFICES ASSUME Bad # {} PROVE FALSE
  BY <1>2, <1>3
<1>7. PICK k \in Bad : \A j \in Bad : k <= j
  <2>1. Bad \subseteq Nat
    OBVIOUS
  <2> HIDE DEF Bad
  <2> QED
    BY <1>6, <2>1, LeastNumber
<1>8. k \in 1 .. n /\ k # 1 /\ k - 1 \in 1 .. n /\ k - 1 \notin Bad
  BY <1>5, <1>7
<1>9. f[k - 1] = g[k - 1]
  BY <1>8
<1>10. f[k] = Step(f[k - 1], k) /\ g[k] = Step(g[k - 1], k)
  BY <1>4, <1>8
<1> QED
  BY <1>7, <1>9, <1>10

\* One token more.
LEMMA JoinedMore ==
    ASSUME NEW tokens \in Seq(Seq(Characters)), NEW f, NEW token \in Seq(Characters),
           JoinedBy(f, tokens)
    PROVE  \E g : /\ JoinedBy(g, Append(tokens, token))
                  /\ g[Len(tokens) + 1] = IF tokens = <<>> THEN token
                                          ELSE f[Len(tokens)] \o <<";">> \o token
<1>1. PICK n \in Nat : n = Len(tokens) /\ DOMAIN tokens = 1 .. n /\ (tokens = <<>> <=> n = 0)
  BY TextFacts
<1>2. PICK more : more = Append(tokens, token)
  OBVIOUS
<1>3. Len(more) = n + 1 /\ more[n + 1] = token /\ \A k \in 1 .. n : more[k] = tokens[k]
  BY <1>1, <1>2
<1> DEFINE last == IF n = 0 THEN token ELSE f[n] \o <<";">> \o token
           g == [k \in 1 .. n + 1 |-> IF k <= n THEN f[k] ELSE last]
           h == [k \in 1 .. n + 1 |-> IF k = 1 THEN more[1] ELSE g[k - 1] \o <<";">> \o more[k]]
<1>4. \A k \in 1 .. n : f[k] = IF k = 1 THEN tokens[1] ELSE f[k - 1] \o <<";">> \o tokens[k]
  BY <1>1 DEF JoinedBy
<1>5. ASSUME NEW k \in 1 .. n + 1 PROVE g[k] = h[k]
  <2>1. CASE k = 1
    <3>0. h[k] = more[1]
      BY <2>1
    <3>1. CASE n = 0
      BY <1>3, <2>1, <3>0, <3>1
    <3>2. CASE n # 0
      <4>1. 1 \in 1 .. n /\ 1 <= n
        BY <3>2
      <4>2. g[k] = f[1]
        BY <2>1, <4>1
      <4>3. f[1] = tokens[1] /\ more[1] = tokens[1]
        BY <1>3, <1>4, <4>1, Zenon
      <4> QED
        BY <3>0, <4>2, <4>3
    <3> QED
      BY <3>1, <3>2
  <2>2. CASE k # 1 /\ k <= n
    <3>1. k \in 1 .. n /\ k - 1 \in 1 .. n /\ k - 1 \in 1 .. n + 1
      BY <2>2
    <3>2. g[k] = f[k] /\ g[k - 1] = f[k - 1] /\ more[k] = tokens[k]
      BY <1>3, <3>1
    <3>3. f[k] = f[k - 1] \o <<";">> \o tokens[k]
      BY <1>4, <2>2, <3>1
    <3>4. h[k] = g[k - 1] \o <<";">> \o more[k]
      BY <2>2
    <3> QED
      BY <3>2, <3>3, <3>4
  <2>3. CASE k # 1 /\ k = n + 1
    <3>1. n # 0 /\ k - 1 = n /\ n \in 1 .. n + 1
      BY <2>3
    <3>2. h[k] = g[n] \o <<";">> \o token
      BY <1>3, <2>3, <3>1
    <3>3. g[n] = f[n] /\ g[k] = last
      <4> HIDE DEF last
      <4> QED
        BY <2>3, <3>1
    <3> QED
      BY <3>1, <3>2, <3>3
  <2>4. k = 1 \/ (k # 1 /\ k <= n) \/ (k # 1 /\ k = n + 1)
    OBVIOUS
  <2> HIDE DEF g, h
  <2> QED
    BY <2>1, <2>2, <2>3, <2>4
<1>6. g = h
  BY <1>5
<1>7. JoinedBy(g, more)
  BY <1>3, <1>6 DEF JoinedBy
<1>8. g[n + 1] = last
  <2>1. n + 1 \in 1 .. n + 1 /\ ~(n + 1 <= n)
    OBVIOUS
  <2> HIDE DEF last
  <2> QED
    BY <2>1
<1> QED
  BY <1>1, <1>2, <1>7, <1>8

\* What std::getline takes of a text, and what it leaves.
LEMMA LineRead ==
    ASSUME NEW S, NEW s \in Seq(S), s # <<>>
    PROVE  \E token, left :
              /\ token = Token(s) /\ left = SubSeq(s, Find(s, ";") + 1, Len(s))
              /\ token \in Seq(S) /\ left \in Seq(S) /\ \A j \in 1 .. Len(token) : token[j] # ";"
              /\ s = token \o (<<";">> \o left) \/ (s = token /\ left = <<>>)
<1>a. Len(s) \in Nat /\ Len(s) >= 1
  BY TextFacts
<1>b. /\ Find(s, ";") \in 1 .. Len(s) + 1
      /\ Find(s, ";") <= Len(s) => s[Find(s, ";")] = ";"
      /\ \A j \in 1 .. Find(s, ";") - 1 : s[j] # ";"
  BY FindFirst
<1>c. PICK n \in Nat : n = Len(s) /\ n >= 1
  BY <1>a
<1>d. PICK f \in 1 .. n + 1 : f = Find(s, ";")
  BY <1>b, <1>c
<1>1. f \in Int /\ f >= 1 /\ f <= n + 1
  OBVIOUS
<1>e. (f <= n => s[f] = ";") /\ \A j \in 1 .. f - 1 : s[j] # ";"
  BY <1>b, <1>c, <1>d, Zenon
<1>f. \A j \in 1 .. n : s[j] \in S
  BY <1>c, TextFacts
<1>2. PICK token, left : token = SubSeq(s, 1, f - 1) /\ left = SubSeq(s, f + 1, n)
  OBVIOUS
<1>3. token \in Seq(S) /\ \A j \in 1 .. Len(token) : token[j] # ";"
  <2>a. PICK e \in Int : e = f - 1 /\ e >= 0 /\ e <= n
    BY <1>1
  <2>b. \A j \in 1 .. e : s[j] # ";"
    BY <1>e, <2>a, Zenon
  <2>c. \A j \in 1 .. e : s[j] \in S
    <3>1. \A j \in 1 .. e : j \in 1 .. n
      BY <2>a
    <3> QED
      BY <1>f, <3>1, Zenon
  <2>1. e = f - 1 /\ \A j \in 1 .. e : s[j] \in S /\ s[j] # ";"
    BY <2>a, <2>b, <2>c, Zenon
  <2>2. /\ SubSeq(s, 1, e) \in Seq(S)
        /\ Len(SubSeq(s, 1, e)) = IF 1 <= e THEN e - 1 + 1 ELSE 0
        /\ \A j \in 1 .. e - 1 + 1 : SubSeq(s, 1, e)[j] = s[1 + j - 1]
    BY <2>c, SubSeqProperties
  <2>3. (IF 1 <= e THEN e - 1 + 1 ELSE 0) = e /\ e - 1 + 1 = e
    BY <2>a
  <2>4. token = SubSeq(s, 1, e)
    BY <1>2, <2>1
  <2>5. Len(token) = e
    BY <2>2, <2>3, <2>4
  <2>6. \A j \in 1 .. e : token[j] = s[j]
    <3>1. TAKE j \in 1 .. e
    <3>2. 1 + j - 1 = j
      OBVIOUS
    <3> QED
      BY <2>2, <2>3, <2>4, <3>2
  <2> QED
    BY <2>1, <2>2, <2>4, <2>5, <2>6
<1>4. left \in Seq(S)
  <2>1. PICK e \in Int : e = f + 1 /\ \A j \in e .. n : s[j] \in S
    BY <1>1, <1>f
  <2> QED
    BY <1>2, <2>1, SubSeqProperties
<1>5. CASE f <= n
  <2>1. /\ 1 \in 1 .. n + 1 /\ f - 1 \in 1 - 1 .. n /\ n \in f - 1 .. n
        /\ f \in 1 .. n /\ n \in f .. n /\ f - 1 + 1 = f
    BY <1>1, <1>c, <1>5
  <2>2. SubSeq(s, 1, f - 1) \o SubSeq(s, f - 1 + 1, n) = SubSeq(s, 1, n)
    BY <1>c, <2>1, ConcatAdjacentSubSeq
  <2>3. SubSeq(s, f, n) = <<s[f]>> \o SubSeq(s, f + 1, n)
    BY <1>c, <2>1, SubSeqRecursiveFirst
  <2>4. SubSeq(s, 1, n) = s
    BY <1>c, SubSeqFull
  <2>5. s = token \o (<<";">> \o left)
    BY <1>2, <1>5, <1>e, <2>1, <2>2, <2>3, <2>4
  <2> QED
    BY <1>2, <1>3, <1>4, <1>c, <1>d, <2>5 DEF Token
<1>6. CASE f = n + 1
  <2>1. f - 1 = n /\ n < f + 1 /\ f + 1 \in Int /\ n \in Int
    BY <1>1, <1>6
  <2>2. token = s
    BY <1>2, <1>c, <2>1, SubSeqFull
  <2>3. left = <<>>
    BY <1>2, <2>1, SubSeqEmpty
  <2> QED
    BY <1>2, <1>3, <1>4, <1>c, <1>d, <2>2, <2>3 DEF Token
<1> QED
  <2>1. f <= n \/ f = n + 1
    BY <1>1
  <2> QED
    BY <1>5, <1>6, <2>1

-----------------------------------------------------------------------------
(* From the symbols to the path.                                           *)

Letter == Characters \cup {"@"}

\* The characters of a path and of a topic.
PathCharacter == Letter \cup {"/"}

TextsRight ==
    /\ stage \in {"no ticker", "split", "subscribe", "format", "combine", "connected"}
    /\ symbols \in Seq(Characters) /\ rest \in Seq(Characters)
    /\ stream \in 0 .. Len(StreamNames)
    /\ pairs \in Seq(Seq(Characters)) /\ sub \in Seq(Seq(Letter))
    /\ written \in Nat /\ written <= Len(sub) /\ Len(sub) <= Len(pairs)

\* What is done at each stage, and what is not begun.
Staged ==
    /\ stage \in {"no ticker", "split"} => sub = <<>> /\ written = 0 /\ stream = 0
    /\ stage \in {"format", "combine"} => stream \in 1 .. Len(StreamNames)
    /\ stage = "format" => written = 0
    /\ stage = "combine" => Len(sub) = Len(pairs)
    /\ stage = "connected" => stream = Len(StreamNames)
    /\ stage # "no ticker" => symbols # <<>>
    /\ stage \notin {"no ticker", "split"} => rest = <<>>

\* The tokens joined and what is left make up the text.
MadeUp(text, tokens, left) ==
    /\ \A i \in 1 .. Len(tokens) : \A j \in 1 .. Len(tokens[i]) : tokens[i][j] # ";"
    /\ tokens = <<>> => left = text
    /\ tokens # <<>> =>
        \E f, joined :
            /\ JoinedBy(f, tokens) /\ joined = f[Len(tokens)] /\ joined \in Seq(Characters)
            /\ text = joined \o <<";">> \o left \/ (text = joined /\ left = <<>>)

NamesRight == \A i \in 1 .. Len(sub) : sub[i] = StreamOf(pairs[i], StreamNames[stream])

PathRight ==
    stage \in {"format", "combine"} =>
        \E path :
            /\ path \in Seq(PathCharacter) /\ channel = <<"/stream?streams=">> \o path
            /\ written = 0 => path = <<>>
            /\ written > 0 => Parts(path, "/") = {sub[i] : i \in 1 .. written}

\* The names of the streams of one call of subscribe.
NamesOf(tokens, kind) == {StreamOf(tokens[i], kind) : i \in DOMAIN tokens}

\* Each call that is over has its endpoint, with the right names in its path.
EndpointsRight ==
    /\ stage \in {"no ticker", "split"} => endpoints = {}
    /\ \A e \in endpoints :
          e.stream \in 1 .. Len(StreamNames) /\ StreamsIn(e.channel) = NamesOf(pairs, StreamNames[e.stream])
    /\ \A k \in 1 .. stream :
          k < stream \/ stage \in {"subscribe", "connected"} => \E e \in endpoints : e.stream = k

\* What is published about a symbol that comes from call k of subscribe.
MessageOf(symbol, k) ==
    [stream |-> k, name |-> StreamOf(symbol, StreamNames[k]), topic |-> Topic(StreamOf(symbol, StreamNames[k]))]

PublishedRight ==
    /\ stage # "connected" => published = {}
    /\ \A m \in published :
          \E k \in 1 .. Len(StreamNames) : \E i \in 1 .. Len(pairs) : m = MessageOf(pairs[i], k)

SInv ==
    /\ TextsRight /\ Staged /\ MadeUp(symbols, pairs, rest)
    /\ NamesRight /\ PathRight /\ EndpointsRight /\ PublishedRight

LEMMA CharacterFacts ==
    /\ Texts \subseteq Seq(Characters) /\ StreamNames \in Seq(Characters)
    /\ Len(StreamNames) \in Nat /\ DOMAIN StreamNames = 1 .. Len(StreamNames)
    /\ \A k \in 1 .. Len(StreamNames) : StreamNames[k] \in Letter
    /\ \A c \in DOMAIN LowerCase : LowerCase[c] \in Letter
    /\ ";" \in Characters /\ "@" \in Letter /\ "/" \in PathCharacter
    /\ \A s \in Seq(Characters) : s \in Seq(Letter)
    /\ \A s \in Seq(Letter) : s \in Seq(PathCharacter) /\ \A k \in 1 .. Len(s) : s[k] # "/"
<1>1. Characters \subseteq Letter /\ Letter \subseteq PathCharacter /\ "/" \notin Letter
  BY CharactersAssumption DEF CharactersAssumption, Letter, PathCharacter
<1>2. ASSUME NEW s \in Seq(Letter)
      PROVE  s \in Seq(PathCharacter) /\ \A k \in 1 .. Len(s) : s[k] # "/"
  <2>1. \A k \in 1 .. Len(s) : s[k] \in Letter
    BY TextFacts
  <2>2. s \in Seq(PathCharacter)
    BY <1>1, SeqMonotonic
  <2> QED
    BY <1>1, <2>1, <2>2
<1>3. ASSUME NEW s \in Seq(Characters) PROVE s \in Seq(Letter)
  BY <1>1, SeqMonotonic
<1>4. \A c \in DOMAIN LowerCase : LowerCase[c] \in Letter
  BY <1>1, CharactersAssumption DEF CharactersAssumption
<1>5. "@" \in Letter /\ "/" \in PathCharacter
  BY DEF Letter, PathCharacter
<1>6. StreamNames \in Seq(Characters)
  BY CharactersAssumption DEF CharactersAssumption
<1>7. /\ Len(StreamNames) \in Nat /\ DOMAIN StreamNames = 1 .. Len(StreamNames)
      /\ \A k \in 1 .. Len(StreamNames) : StreamNames[k] \in Letter
  BY <1>1, <1>6, TextFacts
<1> QED
  BY <1>2, <1>3, <1>4, <1>5, <1>6, <1>7, CharactersAssumption, Zenon DEF CharactersAssumption

\* A function on the numbers up to n is a text.
LEMMA IsText ==
    ASSUME NEW S, NEW n \in Nat, NEW t, t = [i \in 1 .. n |-> t[i]], \A i \in 1 .. n : t[i] \in S
    PROVE  t \in Seq(S) /\ Len(t) = n
<1>1. t \in [1 .. n -> S]
  BY Zenon
<1>2. t \in Seq(S)
  BY <1>1, SeqDef, Zenon
<1>3. DOMAIN t = 1 .. n /\ DOMAIN t = 1 .. Len(t) /\ Len(t) \in Nat
  BY <1>1, <1>2, TextFacts
<1> QED
  BY <1>2, <1>3

LEMMA StreamType ==
    ASSUME NEW s \in Seq(Letter), NEW kind \in Letter
    PROVE  /\ StreamOf(s, kind) \in Seq(Letter)
           /\ StreamOf(s, kind)[Len(StreamOf(s, kind))] = kind
<1>1. PICK n \in Nat : n = Len(s) /\ DOMAIN s = 1 .. n
  BY TextFacts
<1>2. PICK t : t = to_lower(s)
  OBVIOUS
<1>3. t = [i \in 1 .. n |-> t[i]] /\ \A i \in 1 .. n : t[i] \in Letter
  <2>1. \A i \in 1 .. n : s[i] \in Letter
    BY <1>1, TextFacts
  <2> QED
    BY <1>1, <1>2, <2>1, CharacterFacts DEF to_lower
<1>4. t \in Seq(Letter)
  BY <1>3, IsText
<1>5. PICK last \in Seq(Letter) : last = <<"@", kind>> /\ Len(last) = 2 /\ last[2] = kind
  <2>1. PICK sign \in Letter : sign = "@"
    BY CharacterFacts
  <2>2. <<sign, kind>> \in Seq(Letter) /\ Len(<<sign, kind>>) = 2 /\ <<sign, kind>>[2] = kind
    OBVIOUS
  <2> QED
    BY <2>1, <2>2
<1>6. t \o last \in Seq(Letter) /\ Len(t \o last) = n + 2
  <2>1. t \o last \in Seq(Letter) /\ Len(t \o last) = Len(t) + Len(last)
    BY <1>4, <1>5, ConcatProperties
  <2> QED
    BY <1>3, <1>5, <2>1, IsText
<1>7. (t \o last)[n + 2] = kind
  <2>1. Len(t) = n
    BY <1>3, IsText
  <2>2. \A i \in 1 .. n + 2 : (t \o last)[i] = IF i <= n THEN t[i] ELSE last[i - n]
    BY <1>4, <1>5, <2>1, ConcatProperties
  <2>3. PICK j : j = n + 2 /\ j \in 1 .. n + 2 /\ ~(j <= n) /\ j - n = 2
    OBVIOUS
  <2>4. (t \o last)[j] = last[j - n]
    BY <2>2, <2>3, Zenon
  <2> QED
    BY <1>5, <2>3, <2>4
<1>8. StreamOf(s, kind) = t \o last
  BY <1>2, <1>5 DEF StreamOf
<1> QED
  BY <1>6, <1>7, <1>8

LEMMA TopicType ==
    ASSUME NEW s \in Seq(Letter)
    PROVE  Topic(s) \in Seq(PathCharacter)
<1>1. PICK n \in Nat : n = Len(s) /\ DOMAIN s = 1 .. n
  BY TextFacts
<1>2. PICK t : t = Topic(s)
  OBVIOUS
<1>3. t = [i \in 1 .. n |-> t[i]] /\ \A i \in 1 .. n : t[i] \in PathCharacter
  <2>1. \A i \in 1 .. n : s[i] \in PathCharacter
    BY <1>1, TextFacts, CharacterFacts
  <2> QED
    BY <1>1, <1>2, <2>1, CharacterFacts DEF Topic
<1> QED
  BY <1>2, <1>3, IsText

\* Different streams have different topics: '/' does not occur in a name.
LEMMA TopicsDiffer ==
    ASSUME NEW s \in Seq(Letter), NEW t \in Seq(Letter), Topic(s) = Topic(t)
    PROVE  s = t
<1>1. PICK m \in Nat, n \in Nat : m = Len(s) /\ DOMAIN s = 1 .. m /\ n = Len(t) /\ DOMAIN t = 1 .. n
  BY TextFacts
<1>2. DOMAIN Topic(s) = 1 .. m /\ DOMAIN Topic(t) = 1 .. n
  BY <1>1 DEF Topic
<1>3. m = n
  BY <1>2
<1>4. ASSUME NEW i \in 1 .. m PROVE s[i] = t[i]
  <2>1. s[i] # "/" /\ t[i] # "/"
    BY <1>1, <1>3, CharacterFacts
  <2>2. /\ Topic(s)[i] = IF s[i] = "@" THEN "/" ELSE s[i]
        /\ Topic(t)[i] = IF t[i] = "@" THEN "/" ELSE t[i]
    BY <1>1, <1>3 DEF Topic
  <2> QED
    BY <2>1, <2>2
<1> QED
  BY <1>1, <1>3, <1>4, SeqEqual

LEMMA PathOf ==
    ASSUME NEW path \in Seq(PathCharacter), NEW c, c = <<"/stream?streams=">> \o path
    PROVE  SubSeq(c, 2, Len(c)) = path
<1> DEFINE C == PathCharacter \cup {"/stream?streams="}
<1>a. PICK start \in C : start = "/stream?streams="
  OBVIOUS
<1>b. path \in Seq(C)
  BY SeqMonotonic
<1> HIDE DEF C
<1>1. <<start>> \in Seq(C) /\ Len(<<start>>) = 1 /\ c = <<start>> \o path
  BY <1>a
<1>2. PICK n \in Nat : n = Len(path)
  BY TextFacts
<1>3. c \in Seq(C) /\ Len(c) = 1 + n /\ c # <<>>
  <2>1. c \in Seq(C) /\ Len(c) = 1 + n
    BY <1>1, <1>2, <1>b, ConcatProperties
  <2> QED
    BY <1>2, <2>1, TextFacts
<1>4. \A k \in 1 .. n : c[k + 1] = path[k]
  <2>1. TAKE k \in 1 .. n
  <2>2. PICK j : j = k + 1 /\ j \in 1 .. 1 + n /\ ~(j <= 1) /\ j - 1 = k
    OBVIOUS
  <2>3. \A i \in 1 .. 1 + n : c[i] = IF i <= 1 THEN <<start>>[i] ELSE path[i - 1]
    BY <1>1, <1>2, <1>b, ConcatProperties
  <2>4. c[j] = path[j - 1]
    BY <2>2, <2>3, Zenon
  <2> QED
    BY <2>2, <2>4
<1>5. /\ Tail(c) = SubSeq(c, 2, Len(c)) /\ Tail(c) \in Seq(C) /\ Len(Tail(c)) = n
      /\ \A k \in 1 .. n : Tail(c)[k] = c[k + 1]
  <2>1. Tail(c) = SubSeq(c, 2, Len(c))
    BY <1>3, TailIsSubSeq
  <2>2. /\ Tail(c) \in Seq(C) /\ Len(Tail(c)) = Len(c) - 1
        /\ \A k \in 1 .. Len(Tail(c)) : Tail(c)[k] = c[k + 1]
    BY <1>3, HeadTailProperties
  <2>3. Len(Tail(c)) = n
    BY <1>3, <2>2
  <2> QED
    BY <2>1, <2>2, <2>3
<1>6. Tail(c) = path
  BY <1>2, <1>4, <1>5, <1>b, SeqEqual
<1> QED
  BY <1>5, <1>6

LEMMA OneCharacter == ASSUME NEW S, NEW c \in S PROVE <<c>> \in Seq(S)
OBVIOUS

LEMMA LineAdded ==
    ASSUME NEW text, NEW tokens \in Seq(Seq(Characters)), NEW s \in Seq(Characters), s # <<>>,
           MadeUp(text, tokens, s)
    PROVE  \E token, left :
              /\ token = Token(s) /\ left = SubSeq(s, Find(s, ";") + 1, Len(s))
              /\ token \in Seq(Characters) /\ left \in Seq(Characters)
              /\ MadeUp(text, Append(tokens, token), left)
<1>1. PICK token, left :
          /\ token = Token(s) /\ left = SubSeq(s, Find(s, ";") + 1, Len(s))
          /\ token \in Seq(Characters) /\ left \in Seq(Characters)
          /\ \A j \in 1 .. Len(token) : token[j] # ";"
          /\ s = token \o (<<";">> \o left) \/ (s = token /\ left = <<>>)
  <2>1. \E token, left :
          /\ token = Token(s) /\ left = SubSeq(s, Find(s, ";") + 1, Len(s))
          /\ token \in Seq(Characters) /\ left \in Seq(Characters) /\ \A j \in 1 .. Len(token) : token[j] # ";"
          /\ s = token \o (<<";">> \o left) \/ (s = token /\ left = <<>>)
    BY LineRead, Zenon
  <2> QED
    BY <2>1, Zenon
<1>a. token \in Seq(Characters) /\ left \in Seq(Characters)
  BY <1>1
<1>b. \A j \in 1 .. Len(token) : token[j] # ";"
  BY <1>1
<1>c. s = token \o (<<";">> \o left) \/ (s = token /\ left = <<>>)
  BY <1>1
<1>2. PICK n \in Nat : n = Len(tokens) /\ DOMAIN tokens = 1 .. n /\ (tokens = <<>> <=> n = 0)
  BY TextFacts
<1>3. PICK more : more = Append(tokens, token)
  OBVIOUS
<1>4. /\ Len(more) = n + 1 /\ more # <<>> /\ more[n + 1] = token
      /\ \A i \in 1 .. n : more[i] = tokens[i]
  <2>1. more \in Seq(Seq(Characters))
    BY <1>a, <1>3, AppendProperties
  <2>2. Len(more) = n + 1 /\ more[n + 1] = token /\ \A i \in 1 .. n : more[i] = tokens[i]
    BY <1>a, <1>2, <1>3, AppendProperties
  <2>3. more # <<>>
    BY <2>1, <2>2, TextFacts
  <2> QED
    BY <2>2, <2>3
<1>5. \A i \in 1 .. Len(more) : \A j \in 1 .. Len(more[i]) : more[i][j] # ";"
  <2>1. TAKE i \in 1 .. Len(more)
  <2>2. CASE i \in 1 .. n
    <3>1. more[i] = tokens[i] /\ \A j \in 1 .. Len(tokens[i]) : tokens[i][j] # ";"
      BY <1>2, <1>4, <2>2 DEF MadeUp
    <3> QED
      BY <3>1
  <2>3. CASE i = n + 1
    BY <1>b, <1>4, <2>3
  <2>4. i \in 1 .. n \/ i = n + 1
    BY <1>4
  <2> QED
    BY <2>2, <2>3, <2>4
<1>6. ";" \in Characters
  BY CharacterFacts
<1>d. PICK colon \in Seq(Characters) : colon = <<";">>
  BY <1>6, OneCharacter, Zenon
<1>e. \A x, y, z \in Seq(Characters) : (x \o y) \o z = x \o (y \o z)
  BY ConcatAssociative
<1>7. CASE n = 0
  <2>1. PICK f : f = [k \in 1 .. 0 |-> 0]
    OBVIOUS
  <2>2. JoinedBy(f, tokens)
    BY <1>2, <1>7, <2>1 DEF JoinedBy
  <2>a. \E g : /\ JoinedBy(g, Append(tokens, token))
               /\ g[Len(tokens) + 1] = IF tokens = <<>> THEN token ELSE f[Len(tokens)] \o <<";">> \o token
    BY <1>a, <2>2, JoinedMore, Zenon
  <2>3. PICK g : JoinedBy(g, more) /\ g[n + 1] = token
    BY <1>2, <1>3, <1>7, <2>a, Zenon
  <2>4. text = s
    BY <1>2, <1>7 DEF MadeUp
  <2>5. (token \o colon) \o left = token \o (colon \o left)
    BY <1>a, <1>e
  <2>6. text = token \o <<";">> \o left \/ (text = token /\ left = <<>>)
    BY <1>c, <1>d, <2>4, <2>5
  <2>7. MadeUp(text, more, left)
    BY <1>1, <1>4, <1>5, <2>3, <2>6, Zenon DEF MadeUp
  <2> QED
    BY <1>1, <1>3, <2>7
<1>8. CASE n # 0
  <2>1. PICK f, joined :
            /\ JoinedBy(f, tokens) /\ joined = f[Len(tokens)] /\ joined \in Seq(Characters)
            /\ text = joined \o <<";">> \o s
    BY <1>2, <1>8 DEF MadeUp
  <2>a. \E g : /\ JoinedBy(g, Append(tokens, token))
               /\ g[Len(tokens) + 1] = IF tokens = <<>> THEN token ELSE f[Len(tokens)] \o <<";">> \o token
    BY <1>a, <2>1, JoinedMore, Zenon
  <2>b. tokens # <<>> /\ f[Len(tokens)] = joined
    BY <1>2, <1>8, <2>1
  <2>2. PICK g : JoinedBy(g, more) /\ g[n + 1] = joined \o <<";">> \o token
    BY <1>2, <1>3, <2>a, <2>b, Zenon
  <2>3. PICK start \in Seq(Characters) : start = joined \o <<";">>
    BY <1>6, <2>1, Glued
  <2>4. PICK next \in Seq(Characters) : next = start \o token
    BY <1>a, ConcatProperties
  <2>5. text = next \o <<";">> \o left \/ (text = next /\ left = <<>>)
    <3>1. CASE s = token \o (<<";">> \o left)
      <4>1. PICK after \in Seq(Characters) : after = <<";">> \o left
        BY <1>a, <1>6, Glued
      <4>2. (start \o token) \o after = start \o (token \o after)
        <5>1. start \in Seq(Characters) /\ token \in Seq(Characters) /\ after \in Seq(Characters)
          BY <1>a
        <5> QED
          BY <1>e, <5>1, Zenon
      <4>3. (next \o colon) \o left = next \o (colon \o left)
        BY <1>a, <1>e
      <4> QED
        BY <1>d, <2>1, <2>3, <2>4, <3>1, <4>1, <4>2, <4>3
    <3>2. CASE s = token /\ left = <<>>
      BY <2>1, <2>3, <2>4, <3>2
    <3> QED
      BY <1>c, <3>1, <3>2
  <2>6. g[n + 1] = next
    BY <2>2, <2>3, <2>4
  <2>7. MadeUp(text, more, left)
    BY <1>4, <1>5, <2>2, <2>4, <2>5, <2>6, Zenon DEF MadeUp
  <2> QED
    BY <1>1, <1>3, <2>7
<1> QED
  BY <1>7, <1>8

LEMMA SInit == StreamsInit => SInv
<1> SUFFICES ASSUME StreamsInit PROVE SInv
  OBVIOUS
<1>1. symbols \in Seq(Characters) /\ stream = 0 /\ stream \in 0 .. Len(StreamNames)
  <2>1. PICK n \in Nat : n = Len(StreamNames)
    BY CharacterFacts
  <2>2. 0 \in 0 .. n
    OBVIOUS
  <2>3. symbols \in Seq(Characters) /\ stream = 0
    BY CharacterFacts DEF StreamsInit
  <2> QED
    BY <2>1, <2>2, <2>3, Zenon
<1>2. <<>> \in Seq(Seq(Characters)) /\ <<>> \in Seq(Seq(Letter)) /\ Len(<<>>) = 0 /\ <<>> \in Seq(PathCharacter)
  OBVIOUS
<1>a. PICK none : none = <<>>
  OBVIOUS
<1>b. /\ none \in Seq(Seq(Characters)) /\ none \in Seq(Seq(Letter)) /\ Len(none) = 0 /\ pairs = none /\ sub = none
      /\ rest = symbols /\ written = 0 /\ endpoints = {} /\ published = {}
      /\ stage = IF symbols # <<>> THEN "split" ELSE "no ticker"
  BY <1>2, <1>a DEF StreamsInit, MakesTicker
<1>c. \A i : i \notin 1 .. Len(none)
  <2>1. \A i : i \notin 1 .. 0
    OBVIOUS
  <2> QED
    BY <1>b, <2>1, Zenon
<1>3. TextsRight /\ Staged
  <2>1. stage = "split" \/ stage = "no ticker"
    BY <1>b
  <2>2. TextsRight
    <3>1. Len(sub) = 0 /\ Len(pairs) = 0
      BY <1>b, Zenon
    <3>2. written \in Nat /\ written <= Len(sub) /\ Len(sub) <= Len(pairs)
      <4>1. 0 \in Nat /\ 0 <= 0
        OBVIOUS
      <4> QED
        BY <1>b, <3>1, <4>1, Zenon
    <3> QED
      BY <1>1, <1>b, <2>1, <3>2, Zenon DEF TextsRight
  <2>3. Staged
    BY <1>1, <1>a, <1>b, <2>1 DEF Staged
  <2> QED
    BY <2>2, <2>3
<1>4. MadeUp(symbols, pairs, rest)
  BY <1>a, <1>b, <1>c, Zenon DEF MadeUp
<1>5. NamesRight /\ PublishedRight
  <2>1. NamesRight
    BY <1>b, <1>c, Zenon DEF NamesRight
  <2>2. PublishedRight
    BY <1>b DEF PublishedRight
  <2> QED
    BY <2>1, <2>2
<1>6. PathRight /\ EndpointsRight
  <2>1. stage \in {"no ticker", "split"}
    BY <1>b
  <2>2. \A k \in 1 .. stream : FALSE
    BY <1>1
  <2> QED
    BY <1>b, <2>1, <2>2 DEF PathRight, EndpointsRight
<1> QED
  BY <1>3, <1>4, <1>5, <1>6 DEF SInv

\* What an action that leaves the text alone keeps.
LEMMA TextKept ==
    MadeUp(symbols, pairs, rest) /\ UNCHANGED <<symbols, pairs, rest>> => MadeUp(symbols, pairs, rest)'
<1>1. SUFFICES ASSUME MadeUp(symbols, pairs, rest), symbols' = symbols, pairs' = pairs, rest' = rest
               PROVE  MadeUp(symbols, pairs, rest)'
  OBVIOUS
<1> QED
  BY <1>1, Zenon DEF MadeUp, JoinedBy

LEMMA NamesKept ==
    NamesRight /\ UNCHANGED <<sub, pairs, stream>> => NamesRight'
BY DEF NamesRight

LEMMA PathKept ==
    PathRight /\ stage' = stage /\ UNCHANGED <<channel, written, sub>> => PathRight'
BY DEF PathRight

LEMMA EndpointsKept ==
    ASSUME EndpointsRight, UNCHANGED <<endpoints, pairs, stream>>,
           stage' \in {"no ticker", "split"} => stage \in {"no ticker", "split"},
           stage' \in {"subscribe", "connected"} => stage \in {"subscribe", "connected"}
    PROVE  EndpointsRight'
BY DEF EndpointsRight, NamesOf

LEMMA PublishedKept ==
    ASSUME PublishedRight, UNCHANGED <<pairs, published>>, stage' # "connected" => stage # "connected"
    PROVE  PublishedRight'
BY DEF PublishedRight

LEMMA SGetLine == SInv /\ GetLine => SInv'
<1> SUFFICES ASSUME SInv, GetLine PROVE SInv'
  OBVIOUS
<1>1. /\ TextsRight /\ Staged /\ MadeUp(symbols, pairs, rest)
      /\ NamesRight /\ PathRight /\ EndpointsRight /\ PublishedRight
  BY DEF SInv
<1>2. /\ stage = "split" /\ rest # <<>>
      /\ pairs' = Append(pairs, Token(rest))
      /\ rest' = SubSeq(rest, Find(rest, ";") + 1, Len(rest))
      /\ stage' = stage /\ symbols' = symbols /\ stream' = stream /\ sub' = sub
      /\ written' = written /\ channel' = channel /\ endpoints' = endpoints /\ published' = published
  BY DEF GetLine
<1>3. PICK none : none = <<>>
  OBVIOUS
<1>4. sub = none /\ Len(none) = 0 /\ rest \in Seq(Characters) /\ pairs \in Seq(Seq(Characters))
  BY <1>1, <1>2, <1>3 DEF Staged, TextsRight
<1>5. \E token, left :
          /\ token = Token(rest) /\ left = SubSeq(rest, Find(rest, ";") + 1, Len(rest))
          /\ token \in Seq(Characters) /\ left \in Seq(Characters)
          /\ MadeUp(symbols, Append(pairs, token), left)
  BY <1>1, <1>2, <1>4, LineAdded, Zenon
<1>6. PICK token, left :
          /\ pairs' = Append(pairs, token) /\ rest' = left
          /\ token \in Seq(Characters) /\ left \in Seq(Characters)
          /\ MadeUp(symbols, Append(pairs, token), left)
  BY <1>2, <1>5, Zenon
<1>7. pairs' \in Seq(Seq(Characters)) /\ Len(pairs') \in Nat
  <2>1. Append(pairs, token) \in Seq(Seq(Characters))
    BY <1>4, <1>6, AppendProperties
  <2> QED
    BY <1>6, <2>1, TextFacts
<1>8. TextsRight'
  <2>1. sub' = none /\ Len(sub') <= Len(pairs') /\ written' <= Len(sub')
    <3>1. sub' = none
      BY <1>2, <1>4
    <3>2. Len(sub') = 0
      BY <1>4, <3>1
    <3>3. written <= 0
      BY <1>1, <1>4 DEF TextsRight
    <3>4. PICK n \in Nat : n = Len(pairs')
      BY <1>7
    <3>5. 0 <= n
      OBVIOUS
    <3> QED
      BY <1>2, <3>1, <3>2, <3>3, <3>4, <3>5, Zenon
  <2> QED
    BY <1>1, <1>2, <1>6, <1>7, <2>1, Zenon DEF TextsRight
<1>9. Staged'
  BY <1>1, <1>2 DEF Staged
<1>10. MadeUp(symbols, pairs, rest)'
  <2>1. PICK more : more = Append(pairs, token)
    OBVIOUS
  <2>2. pairs' = more /\ rest' = left /\ symbols' = symbols /\ MadeUp(symbols, more, left)
    BY <1>2, <1>6, <2>1
  <2> QED
    BY <2>2, Zenon DEF MadeUp, JoinedBy
<1>11. NamesRight'
  <2>1. \A i : i \notin 1 .. 0
    OBVIOUS
  <2>2. Len(sub') = 0
    BY <1>2, <1>4
  <2> QED
    BY <2>1, <2>2, Zenon DEF NamesRight
<1>12. PathRight'
  BY <1>1, <1>2, PathKept
<1>13. EndpointsRight'
  <2>1. endpoints' = {} /\ stream' = 0
    BY <1>1, <1>2 DEF EndpointsRight, Staged
  <2>2. \A k \in 1 .. stream' : FALSE
    BY <2>1
  <2> QED
    BY <2>1, <2>2 DEF EndpointsRight
<1>14. PublishedRight'
  BY <1>1, <1>2 DEF PublishedRight
<1> QED
  BY <1>8, <1>9, <1>10, <1>11, <1>12, <1>13, <1>14 DEF SInv

LEMMA SSplitEnds == SInv /\ SplitEnds => SInv'
<1> SUFFICES ASSUME SInv, SplitEnds PROVE SInv'
  OBVIOUS
<1>1. /\ TextsRight /\ Staged /\ MadeUp(symbols, pairs, rest)
      /\ NamesRight /\ PathRight /\ EndpointsRight /\ PublishedRight
  BY DEF SInv
<1>2. /\ stage = "split" /\ rest = <<>> /\ stage' = "subscribe"
      /\ UNCHANGED <<symbols, rest, pairs, stream, sub, written, channel, endpoints, published>>
  BY DEF SplitEnds, textVars
<1>3. TextsRight'
  BY <1>1, <1>2 DEF TextsRight
<1>4. Staged'
  BY <1>1, <1>2 DEF Staged
<1>5. MadeUp(symbols, pairs, rest)'
  BY <1>1, <1>2, TextKept
<1>6. NamesRight' /\ PathRight'
  BY <1>1, <1>2, NamesKept DEF PathRight
<1>7. EndpointsRight'
  <2>1. endpoints' = {} /\ stream' = 0
    BY <1>1, <1>2 DEF EndpointsRight, Staged
  <2>2. \A k \in 1 .. stream' : FALSE
    BY <2>1
  <2> QED
    BY <2>1, <2>2 DEF EndpointsRight
<1>8. PublishedRight'
  BY <1>1, <1>2, PublishedKept
<1> QED
  BY <1>3, <1>4, <1>5, <1>6, <1>7, <1>8 DEF SInv

\* main calls subscribe for the next kind of stream.
LEMMA SSubscribe == SInv /\ Subscribe => SInv'
<1> SUFFICES ASSUME SInv, Subscribe PROVE SInv'
  OBVIOUS
<1>1. /\ TextsRight /\ Staged /\ MadeUp(symbols, pairs, rest)
      /\ NamesRight /\ PathRight /\ EndpointsRight /\ PublishedRight
  BY DEF SInv
<1>2. /\ stage = "subscribe" /\ stream < Len(StreamNames) /\ stage' = "format"
      /\ stream' = stream + 1 /\ sub' = <<>> /\ written' = 0 /\ channel' = <<"/stream?streams=">>
      /\ UNCHANGED <<symbols, rest, pairs, endpoints, published>>
  BY DEF Subscribe, textVars
<1>a. PICK n \in Nat : n = Len(StreamNames)
  BY CharacterFacts
<1>3. PICK k \in Nat : k = stream /\ k < n
  BY <1>1, <1>2, <1>a DEF TextsRight
<1>4. k + 1 \in 1 .. n /\ k + 1 \in 0 .. n
  BY <1>3
<1>5. PICK none : none = <<>>
  OBVIOUS
<1>6. none \in Seq(Seq(Letter)) /\ none \in Seq(PathCharacter) /\ Len(none) = 0
  BY <1>5
<1>7. TextsRight'
  <2>1. Len(pairs) \in Nat
    BY <1>1, TextFacts DEF TextsRight
  <2>2. written' \in Nat /\ written' <= Len(sub') /\ Len(sub') <= Len(pairs')
    BY <1>2, <1>5, <1>6, <2>1
  <2>3. stream' \in 0 .. Len(StreamNames) /\ sub' \in Seq(Seq(Letter))
    BY <1>2, <1>3, <1>4, <1>5, <1>6, <1>a
  <2> QED
    BY <1>1, <1>2, <2>2, <2>3 DEF TextsRight
<1>8. Staged'
  BY <1>1, <1>2, <1>3, <1>4, <1>a DEF Staged
<1>9. MadeUp(symbols, pairs, rest)'
  BY <1>1, <1>2, TextKept
<1>10. NamesRight'
  <2>1. \A i : i \notin 1 .. 0
    OBVIOUS
  <2>2. Len(sub') = 0
    BY <1>2, <1>5, <1>6
  <2> QED
    BY <2>1, <2>2, Zenon DEF NamesRight
<1>11. PathRight'
  <2>1. PICK start : start = "/stream?streams="
    OBVIOUS
  <2>2. <<start>> = <<start>> \o <<>>
    OBVIOUS
  <2>3. written' = 0 /\ channel' = <<start>> \o none
    BY <1>2, <1>5, <2>1, <2>2
  <2>4. ~(written' > 0)
    BY <2>3
  <2> QED
    BY <1>5, <1>6, <2>1, <2>3, <2>4, Zenon DEF PathRight
<1>12. EndpointsRight'
  <2>1. ASSUME NEW l \in 1 .. stream', l < stream' PROVE \E e \in endpoints : e.stream = l
    <3>1. l \in 1 .. stream
      BY <1>2, <1>3, <2>1
    <3> QED
      BY <1>1, <1>2, <3>1 DEF EndpointsRight
  <2> QED
    BY <1>1, <1>2, <2>1 DEF EndpointsRight, NamesOf
<1>13. PublishedRight'
  BY <1>1, <1>2, PublishedKept
<1> QED
  BY <1>7, <1>8, <1>9, <1>10, <1>11, <1>12, <1>13 DEF SInv

LEMMA SFormat == SInv /\ Format => SInv'
<1> SUFFICES ASSUME SInv, Format PROVE SInv'
  OBVIOUS
<1>1. /\ TextsRight /\ Staged /\ MadeUp(symbols, pairs, rest)
      /\ NamesRight /\ PathRight /\ EndpointsRight /\ PublishedRight
  BY DEF SInv
<1>2. /\ stage = "format" /\ Len(sub) < Len(pairs)
      /\ sub' = Append(sub, StreamOf(pairs[Len(sub) + 1], StreamNames[stream]))
      /\ stage' = stage /\ symbols' = symbols /\ rest' = rest /\ pairs' = pairs /\ stream' = stream
      /\ written' = written /\ channel' = channel /\ endpoints' = endpoints /\ published' = published
  BY DEF Format, textVars
<1>3. PICK m \in Nat, n \in Nat : m = Len(sub) /\ n = Len(pairs)
  BY <1>1, TextFacts DEF TextsRight
<1>4. m + 1 \in 1 .. n /\ m < n
  BY <1>2, <1>3
<1>5. PICK symbol \in Seq(Characters) : symbol = pairs[m + 1]
  BY <1>1, <1>3, <1>4, TextFacts DEF TextsRight
<1>6. PICK name \in Seq(Letter) : name = StreamOf(symbol, StreamNames[stream])
  <2>1. symbol \in Seq(Letter) /\ StreamNames[stream] \in Letter
    BY <1>1, <1>2, CharacterFacts DEF Staged
  <2> QED
    BY <2>1, StreamType
<1>7. sub' = Append(sub, name)
  BY <1>2, <1>3, <1>5, <1>6, Zenon
<1>8. /\ sub' \in Seq(Seq(Letter)) /\ Len(sub') = m + 1 /\ sub'[m + 1] = name
      /\ \A i \in 1 .. m : sub'[i] = sub[i]
  <2>1. sub \in Seq(Seq(Letter))
    BY <1>1 DEF TextsRight
  <2> QED
    BY <1>3, <1>7, <2>1, AppendProperties
<1>9. written = 0
  BY <1>1, <1>2 DEF Staged
<1>10. TextsRight'
  <2>1. written' \in Nat /\ written' <= Len(sub') /\ Len(sub') <= Len(pairs')
    BY <1>2, <1>3, <1>4, <1>8, <1>9
  <2> QED
    BY <1>1, <1>2, <1>8, <2>1, Zenon DEF TextsRight
<1>11. Staged'
  BY <1>1, <1>2 DEF Staged
<1>12. MadeUp(symbols, pairs, rest)'
  BY <1>1, <1>2, TextKept
<1>13. NamesRight'
  <2>1. ASSUME NEW i \in 1 .. m + 1 PROVE sub'[i] = StreamOf(pairs[i], StreamNames[stream])
    <3>1. CASE i \in 1 .. m
      BY <1>1, <1>3, <1>8, <3>1 DEF NamesRight
    <3>2. CASE i = m + 1
      BY <1>5, <1>6, <1>8, <3>2
    <3> QED
      BY <3>1, <3>2
  <2> QED
    BY <1>2, <1>8, <2>1 DEF NamesRight
<1>14. PathRight'
  <2>1. PICK path : path \in Seq(PathCharacter) /\ channel = <<"/stream?streams=">> \o path /\ path = <<>>
    BY <1>1, <1>2, <1>9 DEF PathRight
  <2>2. ~(written' > 0) /\ channel' = channel
    BY <1>2, <1>9
  <2> QED
    BY <2>1, <2>2, Zenon DEF PathRight
<1>15. EndpointsRight' /\ PublishedRight'
  BY <1>1, <1>2, EndpointsKept, PublishedKept
<1> QED
  BY <1>10, <1>11, <1>12, <1>13, <1>14, <1>15 DEF SInv

LEMMA SFormatEnds == SInv /\ FormatEnds => SInv'
<1> SUFFICES ASSUME SInv, FormatEnds PROVE SInv'
  OBVIOUS
<1>1. /\ TextsRight /\ Staged /\ MadeUp(symbols, pairs, rest)
      /\ NamesRight /\ PathRight /\ EndpointsRight /\ PublishedRight
  BY DEF SInv
<1>2. /\ stage = "format" /\ Len(sub) = Len(pairs) /\ stage' = "combine"
      /\ UNCHANGED <<symbols, rest, pairs, stream, sub, written, channel, endpoints, published>>
  BY DEF FormatEnds, textVars
<1>3. TextsRight'
  BY <1>1, <1>2 DEF TextsRight
<1>4. Staged'
  BY <1>1, <1>2 DEF Staged
<1>5. MadeUp(symbols, pairs, rest)'
  BY <1>1, <1>2, TextKept
<1>6. NamesRight' /\ PathRight'
  BY <1>1, <1>2, NamesKept DEF PathRight
<1>7. EndpointsRight' /\ PublishedRight'
  BY <1>1, <1>2, EndpointsKept, PublishedKept
<1> QED
  BY <1>3, <1>4, <1>5, <1>6, <1>7 DEF SInv

\* What follows the start of the path is joined like any text.
LEMMA PathLonger ==
    ASSUME NEW path \in Seq(PathCharacter), NEW value \in Seq(PathCharacter)
    PROVE  (<<"/stream?streams=">> \o path) \o value = <<"/stream?streams=">> \o (path \o value)
<1> DEFINE C == PathCharacter \cup {"/stream?streams="}
<1>1. PICK start \in C : start = "/stream?streams="
  OBVIOUS
<1>2. path \in Seq(C) /\ value \in Seq(C)
  BY SeqMonotonic
<1> HIDE DEF C
<1>3. <<start>> \in Seq(C)
  OBVIOUS
<1>4. (<<start>> \o path) \o value = <<start>> \o (path \o value)
  BY <1>2, <1>3, ConcatAssociative
<1> QED
  BY <1>1, <1>4

\* combine writes one stream more: the path gets one part more.
LEMMA SCombine == SInv /\ Combine => SInv'
<1> SUFFICES ASSUME SInv, Combine PROVE SInv'
  OBVIOUS
<1>1. /\ TextsRight /\ Staged /\ MadeUp(symbols, pairs, rest)
      /\ NamesRight /\ PathRight /\ EndpointsRight /\ PublishedRight
  BY DEF SInv
<1>2. /\ stage = "combine" /\ written < Len(sub)
      /\ channel' = channel \o Delimited(sub[written + 1], written = 0)
      /\ written' = written + 1
      /\ stage' = stage /\ symbols' = symbols /\ rest' = rest /\ pairs' = pairs /\ stream' = stream
      /\ sub' = sub /\ endpoints' = endpoints /\ published' = published
  BY DEF Combine, textVars
<1>3. PICK m \in Nat, w \in Nat : m = Len(sub) /\ w = written
  BY <1>1, TextFacts DEF TextsRight
<1>4. w + 1 \in 1 .. m /\ w < m
  BY <1>2, <1>3
<1>5. PICK name \in Seq(Letter) : name = sub[w + 1]
  BY <1>1, <1>3, <1>4, TextFacts DEF TextsRight
<1>6. name \in Seq(PathCharacter) /\ \A k \in 1 .. Len(name) : name[k] # "/"
  BY CharacterFacts
<1>7. PICK path :
          /\ path \in Seq(PathCharacter) /\ channel = <<"/stream?streams=">> \o path
          /\ w = 0 => path = <<>>
          /\ w > 0 => Parts(path, "/") = {sub[i] : i \in 1 .. w}
  BY <1>1, <1>2, <1>3 DEF PathRight
<1>8. PICK value : value = Delimited(name, w = 0)
  OBVIOUS
<1>9. channel' = channel \o value
  BY <1>2, <1>3, <1>5, <1>8, Zenon
<1>10. "/" \in PathCharacter
  BY CharacterFacts
<1>11. value \in Seq(PathCharacter)
  <2>1. <<"/">> \o name \in Seq(PathCharacter)
    BY <1>6, <1>10, Glued
  <2> QED
    BY <1>6, <1>8, <2>1 DEF Delimited
<1>12. PICK longer : longer = path \o value
  OBVIOUS
<1>13. longer \in Seq(PathCharacter)
  BY <1>7, <1>11, <1>12, ConcatProperties
<1>14. channel' = <<"/stream?streams=">> \o longer
  BY <1>7, <1>9, <1>11, <1>12, PathLonger, Zenon
<1>15. Parts(longer, "/") = {sub[i] : i \in 1 .. w + 1}
  <2>1. CASE w = 0
    <3>1. longer = name
      <4>1. value = name
        BY <1>8, <2>1 DEF Delimited
      <4> QED
        BY <1>5, <1>6, <1>7, <1>12, <2>1, <4>1, ConcatEmptySeq
    <3>2. Parts(name, "/") = {name}
      BY <1>6, OnePart
    <3>3. {sub[i] : i \in 1 .. w + 1} = {name}
      BY <1>5, <2>1
    <3> QED
      BY <3>1, <3>2, <3>3
  <2>2. CASE w > 0
    <3>1. longer = path \o (<<"/">> \o name)
      BY <1>8, <1>12, <2>2 DEF Delimited
    <3>2. Parts(path \o (<<"/">> \o name), "/") = Parts(path, "/") \cup {name}
      BY <1>6, <1>7, <1>10, MoreParts
    <3>3. Parts(longer, "/") = {sub[i] : i \in 1 .. w} \cup {name}
      BY <1>7, <2>2, <3>1, <3>2, Zenon
    <3>4. 1 .. w + 1 = 1 .. w \cup {w + 1}
      OBVIOUS
    <3> QED
      BY <1>5, <3>3, <3>4
  <2> QED
    BY <2>1, <2>2
<1>16. TextsRight'
  <2>1. written' \in Nat /\ written' <= Len(sub') /\ Len(sub') <= Len(pairs')
    <3>1. Len(sub) <= Len(pairs)
      BY <1>1 DEF TextsRight
    <3>2. w + 1 \in Nat /\ w + 1 <= m
      BY <1>4
    <3> QED
      BY <1>2, <1>3, <3>1, <3>2, Zenon
  <2> QED
    BY <1>1, <1>2, <2>1, Zenon DEF TextsRight
<1>17. Staged'
  BY <1>1, <1>2 DEF Staged
<1>18. MadeUp(symbols, pairs, rest)'
  BY <1>1, <1>2, TextKept
<1>19. NamesRight'
  BY <1>1, <1>2, NamesKept
<1>20. PathRight'
  <2>1. written' = w + 1 /\ w + 1 # 0
    BY <1>2, <1>3
  <2> QED
    BY <1>2, <1>13, <1>14, <1>15, <2>1, Zenon DEF PathRight
<1>21. EndpointsRight' /\ PublishedRight'
  BY <1>1, <1>2, EndpointsKept, PublishedKept
<1> QED
  BY <1>16, <1>17, <1>18, <1>19, <1>20, <1>21 DEF SInv

\* There is a token at each later stage.
LEMMA Positive == ASSUME NEW n \in Nat, n > 0 PROVE n \in Nat \ {0}
OBVIOUS

LEMMA HasToken ==
    SInv /\ stage \notin {"no ticker", "split"} => Len(pairs) \in Nat \ {0} /\ Len(pairs) > 0 /\ pairs # <<>>
<1> SUFFICES ASSUME SInv, stage \notin {"no ticker", "split"}
             PROVE  Len(pairs) \in Nat \ {0} /\ Len(pairs) > 0 /\ pairs # <<>>
  OBVIOUS
<1>1. TextsRight /\ Staged /\ MadeUp(symbols, pairs, rest)
  BY DEF SInv
<1>2. symbols # <<>> /\ rest = <<>>
  BY <1>1 DEF Staged
<1>3. pairs # <<>>
  BY <1>1, <1>2 DEF MadeUp
<1>4. PICK n \in Nat : n = Len(pairs) /\ n > 0
  BY <1>1, <1>3, TextFacts DEF TextsRight
<1>5. n \in Nat \ {0}
  BY <1>4, Positive, Zenon
<1> QED
  BY <1>3, <1>4, <1>5, Zenon

\* When combine has written all names, the exchange finds them in the path.
LEMMA NamesInPath ==
    SInv /\ stage = "combine" /\ written = Len(sub) =>
        StreamsIn(channel) = NamesOf(pairs, StreamNames[stream])
<1> SUFFICES ASSUME SInv, stage = "combine", written = Len(sub)
             PROVE  StreamsIn(channel) = NamesOf(pairs, StreamNames[stream])
  OBVIOUS
<1>1. TextsRight /\ Staged /\ NamesRight /\ PathRight
  BY DEF SInv
<1>2. Len(sub) = Len(pairs) /\ Len(pairs) > 0
  BY <1>1, HasToken DEF Staged
<1>3. PICK path :
          /\ path \in Seq(PathCharacter) /\ channel = <<"/stream?streams=">> \o path
          /\ Parts(path, "/") = {sub[i] : i \in 1 .. Len(sub)}
  <2>1. written > 0
    BY <1>2
  <2> QED
    BY <1>1, <1>2, <2>1, Zenon DEF PathRight
<1>4. SubSeq(channel, 2, Len(channel)) = path
  BY <1>3, PathOf, Zenon
<1>5. PICK n \in Nat : n = Len(sub) /\ DOMAIN pairs = 1 .. n
  BY <1>1, <1>2, TextFacts DEF TextsRight
<1>6. \A i \in 1 .. n : sub[i] = StreamOf(pairs[i], StreamNames[stream])
  BY <1>1, <1>5, Zenon DEF NamesRight
<1>7. {sub[i] : i \in 1 .. n} = {StreamOf(pairs[i], StreamNames[stream]) : i \in 1 .. n}
  BY <1>6, Zenon
<1> QED
  BY <1>3, <1>4, <1>5, <1>7, Zenon DEF StreamsIn, NamesOf

LEMMA SConnect == SInv /\ ConnectEndpoint => SInv'
<1> SUFFICES ASSUME SInv, ConnectEndpoint PROVE SInv'
  OBVIOUS
<1>1. /\ TextsRight /\ Staged /\ MadeUp(symbols, pairs, rest)
      /\ NamesRight /\ PathRight /\ EndpointsRight /\ PublishedRight
  BY DEF SInv
<1>2. /\ stage = "combine" /\ written = Len(sub) /\ stage' = "subscribe"
      /\ endpoints' = endpoints \cup {[stream |-> stream, channel |-> channel]}
      /\ UNCHANGED <<symbols, rest, pairs, stream, sub, written, channel, published>>
  BY DEF ConnectEndpoint, textVars
<1>3. TextsRight'
  BY <1>1, <1>2 DEF TextsRight
<1>4. Staged'
  BY <1>1, <1>2 DEF Staged
<1>5. MadeUp(symbols, pairs, rest)'
  BY <1>1, <1>2, TextKept
<1>6. NamesRight' /\ PathRight'
  BY <1>1, <1>2, NamesKept DEF PathRight
<1>7. EndpointsRight'
  <2>1. PICK this : this = [stream |-> stream, channel |-> channel]
    OBVIOUS
  <2>2. /\ this \in endpoints' /\ this.stream = stream /\ this.channel = channel
        /\ \A e \in endpoints' : e \in endpoints \/ e = this
        /\ \A e \in endpoints : e \in endpoints'
    BY <1>2, <2>1
  <2>3. stream \in 1 .. Len(StreamNames)
    BY <1>1, <1>2 DEF Staged
  <2>4. StreamsIn(channel) = NamesOf(pairs, StreamNames[stream])
    BY <1>2, NamesInPath, Zenon
  <2>5. ASSUME NEW e \in endpoints'
        PROVE  e.stream \in 1 .. Len(StreamNames) /\ StreamsIn(e.channel) = NamesOf(pairs, StreamNames[e.stream])
    <3>1. CASE e \in endpoints
      BY <1>1, <3>1, Zenon DEF EndpointsRight
    <3>2. CASE e = this
      BY <2>2, <2>3, <2>4, <3>2, Zenon
    <3> QED
      BY <2>2, <2>5, <3>1, <3>2, Zenon
  <2>b. PICK n \in Nat : n = Len(StreamNames)
    BY CharacterFacts
  <2>6. ASSUME NEW k \in 1 .. stream PROVE \E e \in endpoints' : e.stream = k
    <3>1. CASE k = stream
      BY <2>2, <3>1, Zenon
    <3>2. CASE k < stream
      BY <1>1, <2>2, <3>2, Zenon DEF EndpointsRight
    <3>3. k = stream \/ k < stream
      BY <2>3, <2>b
    <3> QED
      BY <3>1, <3>2, <3>3
  <2> QED
    BY <1>2, <2>5, <2>6 DEF EndpointsRight, NamesOf
<1>8. PublishedRight'
  BY <1>1, <1>2, PublishedKept
<1> QED
  BY <1>3, <1>4, <1>5, <1>6, <1>7, <1>8 DEF SInv

LEMMA SEventLoop == SInv /\ EventLoop => SInv'
<1> SUFFICES ASSUME SInv, EventLoop PROVE SInv'
  OBVIOUS
<1>1. /\ TextsRight /\ Staged /\ MadeUp(symbols, pairs, rest)
      /\ NamesRight /\ PathRight /\ EndpointsRight /\ PublishedRight
  BY DEF SInv
<1>2. /\ stage = "subscribe" /\ stream = Len(StreamNames) /\ stage' = "connected"
      /\ UNCHANGED <<symbols, rest, pairs, stream, sub, written, channel, endpoints, published>>
  BY DEF EventLoop, textVars
<1>3. TextsRight'
  BY <1>1, <1>2 DEF TextsRight
<1>4. Staged'
  BY <1>1, <1>2 DEF Staged
<1>5. MadeUp(symbols, pairs, rest)'
  BY <1>1, <1>2, TextKept
<1>6. NamesRight' /\ PathRight'
  BY <1>1, <1>2, NamesKept DEF PathRight
<1>7. EndpointsRight' /\ PublishedRight'
  BY <1>1, <1>2, EndpointsKept, PublishedKept
<1> QED
  BY <1>3, <1>4, <1>5, <1>6, <1>7 DEF SInv

LEMMA SMessage == SInv /\ Message => SInv'
<1> SUFFICES ASSUME SInv, Message PROVE SInv'
  OBVIOUS
<1>1. /\ TextsRight /\ Staged /\ MadeUp(symbols, pairs, rest)
      /\ NamesRight /\ PathRight /\ EndpointsRight /\ PublishedRight
  BY DEF SInv
<1>2. /\ stage = "connected" /\ stage' = stage
      /\ UNCHANGED <<symbols, rest, pairs, stream, sub, written, channel, endpoints>>
  BY DEF Message, textVars
<1>3. PICK e \in endpoints : \E name \in StreamsIn(e.channel) :
          published' = published \cup {[stream |-> e.stream, name |-> name, topic |-> Topic(name)]}
  BY <1>2 DEF Message
<1>a. PICK name \in StreamsIn(e.channel) :
          published' = published \cup {[stream |-> e.stream, name |-> name, topic |-> Topic(name)]}
  BY <1>3
<1>4. PICK k \in 1 .. Len(StreamNames) : k = e.stream /\ name \in NamesOf(pairs, StreamNames[k])
  BY <1>1, <1>a, Zenon DEF EndpointsRight
<1>5. PICK i \in 1 .. Len(pairs) : name = StreamOf(pairs[i], StreamNames[k])
  <2>1. DOMAIN pairs = 1 .. Len(pairs)
    BY <1>1, TextFacts DEF TextsRight
  <2> QED
    BY <1>4, <2>1, Zenon DEF NamesOf
<1>6. published' = published \cup {MessageOf(pairs[i], k)}
  BY <1>a, <1>4, <1>5, Zenon DEF MessageOf
<1>7. TextsRight'
  BY <1>1, <1>2 DEF TextsRight
<1>8. Staged'
  BY <1>1, <1>2 DEF Staged
<1>9. MadeUp(symbols, pairs, rest)'
  BY <1>1, <1>2, TextKept
<1>10. NamesRight' /\ PathRight'
  BY <1>1, <1>2, NamesKept, PathKept
<1>11. EndpointsRight'
  BY <1>1, <1>2, EndpointsKept
<1>12. PublishedRight'
  <2>1. ASSUME NEW m \in published'
        PROVE  \E l \in 1 .. Len(StreamNames) : \E j \in 1 .. Len(pairs) : m = MessageOf(pairs[j], l)
    <3>1. CASE m \in published
      BY <1>1, <3>1, Zenon DEF PublishedRight
    <3>2. CASE m = MessageOf(pairs[i], k)
      BY <3>2, Zenon
    <3>3. m \in published \/ m = MessageOf(pairs[i], k)
      BY <1>6
    <3> QED
      BY <3>1, <3>2, <3>3
  <2> QED
    BY <1>2, <2>1 DEF PublishedRight
<1> QED
  BY <1>7, <1>8, <1>9, <1>10, <1>11, <1>12 DEF SInv

LEMMA SNext == SInv /\ [StreamsNext]_streamsVars => SInv'
<1> SUFFICES ASSUME SInv, [StreamsNext]_streamsVars PROVE SInv'
  OBVIOUS
<1>1. CASE GetLine
  BY <1>1, SGetLine
<1>2. CASE SplitEnds
  BY <1>2, SSplitEnds
<1>3. CASE Subscribe
  BY <1>3, SSubscribe
<1>4. CASE Format
  BY <1>4, SFormat
<1>5. CASE FormatEnds
  BY <1>5, SFormatEnds
<1>6. CASE Combine
  BY <1>6, SCombine
<1>7. CASE ConnectEndpoint
  BY <1>7, SConnect
<1>8. CASE EventLoop
  BY <1>8, SEventLoop
<1>9. CASE Message
  BY <1>9, SMessage
<1>10. CASE UNCHANGED streamsVars
  <2>1. stage' = stage /\ UNCHANGED <<symbols, rest, pairs, stream, sub, written, channel, endpoints, published>>
    BY <1>10 DEF streamsVars, textVars
  <2>2. /\ TextsRight /\ Staged /\ MadeUp(symbols, pairs, rest)
        /\ NamesRight /\ PathRight /\ EndpointsRight /\ PublishedRight
    BY DEF SInv
  <2>3. TextsRight'
    BY <2>1, <2>2 DEF TextsRight
  <2>4. Staged'
    BY <2>1, <2>2 DEF Staged
  <2>5. MadeUp(symbols, pairs, rest)'
    BY <2>1, <2>2, TextKept
  <2>6. NamesRight' /\ PathRight'
    BY <2>1, <2>2, NamesKept, PathKept
  <2>7. EndpointsRight' /\ PublishedRight'
    BY <2>1, <2>2, EndpointsKept, PublishedKept
  <2> QED
    BY <2>3, <2>4, <2>5, <2>6, <2>7 DEF SInv
<1> QED
  BY <1>1, <1>2, <1>3, <1>4, <1>5, <1>6, <1>7, <1>8, <1>9, <1>10 DEF StreamsNext

LEMMA SType == SInv => StreamsTypeOK
<1> SUFFICES ASSUME SInv PROVE StreamsTypeOK
  OBVIOUS
<1>1. TextsRight /\ EndpointsRight /\ PublishedRight
  BY DEF SInv
<1>2. PICK m \in Nat, n \in Nat : m = Len(sub) /\ n = Len(pairs)
  BY <1>1, TextFacts DEF TextsRight
<1>3. written \in 0 .. m /\ m \in 0 .. n
  <2>1. written \in Nat /\ written <= m /\ m <= n
    BY <1>1, <1>2 DEF TextsRight
  <2> QED
    BY <2>1
<1>4. \A e \in endpoints : e.stream \in DOMAIN StreamNames
  BY <1>1, CharacterFacts DEF EndpointsRight
<1>5. ASSUME NEW p \in published PROVE p.stream \in DOMAIN StreamNames
  <2>1. PICK k \in 1 .. Len(StreamNames), i \in 1 .. Len(pairs) : p = MessageOf(pairs[i], k)
    BY <1>1 DEF PublishedRight
  <2>2. p.stream = k
    BY <2>1 DEF MessageOf
  <2> QED
    BY <2>2, CharacterFacts
<1> QED
  BY <1>1, <1>2, <1>3, <1>4, <1>5, Zenon DEF StreamsTypeOK, TextsRight

LEMMA SComplete == SInv => SplitComplete
<1> SUFFICES ASSUME SInv, stage \notin {"no ticker", "split"}
             PROVE  /\ \A i \in DOMAIN pairs : \A j \in DOMAIN pairs[i] : pairs[i][j] # ";"
                    /\ pairs # <<>> => symbols \in {Joined(pairs), Joined(pairs) \o <<";">>}
  BY DEF SplitComplete
<1>1. TextsRight /\ Staged /\ MadeUp(symbols, pairs, rest)
  BY DEF SInv
<1>0. Len(pairs) \in Nat \ {0}
  BY HasToken
<1>2. rest = <<>> /\ pairs # <<>>
  BY <1>1, HasToken DEF Staged
<1>3. PICK n \in Nat : n = Len(pairs) /\ DOMAIN pairs = 1 .. n
  BY <1>1, TextFacts DEF TextsRight
<1>4. ASSUME NEW i \in DOMAIN pairs, NEW j \in DOMAIN pairs[i] PROVE pairs[i][j] # ";"
  <2>1. pairs[i] \in Seq(Characters)
    BY <1>1, <1>3, TextFacts DEF TextsRight
  <2>2. DOMAIN pairs[i] = 1 .. Len(pairs[i])
    BY <2>1, TextFacts
  <2> QED
    BY <1>1, <1>3, <2>2, Zenon DEF MadeUp
<1>5. PICK f, joined :
          /\ JoinedBy(f, pairs) /\ joined = f[Len(pairs)] /\ joined \in Seq(Characters)
          /\ symbols = joined \o <<";">> \o rest \/ (symbols = joined /\ rest = <<>>)
  BY <1>1, <1>2, Zenon DEF MadeUp
<1>6. Joined(pairs) = joined
  BY <1>0, <1>5, JoinedIs, Zenon
<1>7. PICK longer \in Seq(Characters) : longer = joined \o <<";">>
  BY <1>5, CharacterFacts, Glued
<1>8. longer \o <<>> = longer
  BY ConcatEmptySeq
<1>9. symbols = joined \/ symbols = joined \o <<";">>
  BY <1>2, <1>5, <1>7, <1>8, Zenon
<1> QED
  BY <1>4, <1>6, <1>9

LEMMA SGiven == SInv => StreamsAsGiven
<1> SUFFICES ASSUME SInv PROVE StreamsAsGiven
  OBVIOUS
<1>1. Staged /\ EndpointsRight
  BY DEF SInv
<1>2. \A e \in endpoints :
          StreamsIn(e.channel) = {StreamOf(pairs[i], StreamNames[e.stream]) : i \in DOMAIN pairs}
  BY <1>1, Zenon DEF EndpointsRight, NamesOf
<1>3. ASSUME stage = "connected" PROVE {e.stream : e \in endpoints} = DOMAIN StreamNames
  <2>1. \A k \in 1 .. Len(StreamNames) : \E e \in endpoints : e.stream = k
    BY <1>1, <1>3 DEF Staged, EndpointsRight
  <2>2. \A e \in endpoints : e.stream \in 1 .. Len(StreamNames)
    BY <1>1 DEF EndpointsRight
  <2>3. DOMAIN StreamNames = 1 .. Len(StreamNames)
    BY CharacterFacts
  <2> QED
    BY <2>1, <2>2, <2>3
<1> QED
  BY <1>2, <1>3, Zenon DEF StreamsAsGiven

LEMMA StreamsInvariance == StreamsSpec => []SInv
<1> QED
  BY SInit, SNext, PTL DEF StreamsSpec

\* Every text of symbols, of whatever length, and any kinds of stream: split loses
\* and invents nothing, combine finds a first value, and the exchange takes from
\* the path of each kind's endpoint one stream for each token, in lower case, and
\* no other.
THEOREM SymbolsReachExchangeCorrect == StreamsSpec => []SymbolsReachExchange
<1>1. SInv => CombineHasValue
  <2> SUFFICES ASSUME SInv, stage = "combine" PROVE sub # <<>>
    BY DEF CombineHasValue
  <2>1. Len(sub) = Len(pairs) /\ Len(pairs) > 0 /\ sub \in Seq(Seq(Letter))
    BY HasToken DEF SInv, Staged, TextsRight
  <2>2. Len(sub) > 0
    BY <2>1
  <2> QED
    BY <2>1, <2>2, TextFacts
<1>2. SInv => SymbolsReachExchange
  BY <1>1, SType, SComplete, SGiven DEF SymbolsReachExchange
<1> QED
  BY <1>2, StreamsInvariance, PTL

\* The callbacks never publish messages of two streams under one topic, be it of
\* two symbols or of two kinds: no name has a '/', so a topic tells the name, and
\* the name ends in its kind, of which each call of subscribe has its own.
THEOREM TopicsDistinctCorrect == StreamsSpec => []TopicsDistinct
<1>1. SInv => TopicsDistinct
  <2> SUFFICES ASSUME SInv, NEW m \in published, NEW n \in published, m.topic = n.topic
               PROVE  m.stream = n.stream /\ m.name = n.name
    BY DEF TopicsDistinct
  <2>1. TextsRight /\ PublishedRight
    BY DEF SInv
  <2>2. PICK k \in 1 .. Len(StreamNames), i \in 1 .. Len(pairs) : m = MessageOf(pairs[i], k)
    BY <2>1 DEF PublishedRight
  <2>3. PICK l \in 1 .. Len(StreamNames), j \in 1 .. Len(pairs) : n = MessageOf(pairs[j], l)
    BY <2>1 DEF PublishedRight
  <2>4. PICK a \in Seq(Letter), b \in Seq(Letter) : a = pairs[i] /\ b = pairs[j]
    BY <2>1, TextFacts, CharacterFacts DEF TextsRight
  <2>5. PICK c \in Letter, d \in Letter : c = StreamNames[k] /\ d = StreamNames[l]
    BY CharacterFacts
  <2>6. PICK s \in Seq(Letter), t \in Seq(Letter) :
            s = StreamOf(a, c) /\ t = StreamOf(b, d) /\ s[Len(s)] = c /\ t[Len(t)] = d
    BY StreamType
  <2>7. /\ m = [stream |-> k, name |-> s, topic |-> Topic(s)]
        /\ n = [stream |-> l, name |-> t, topic |-> Topic(t)]
    BY <2>2, <2>3, <2>4, <2>5, <2>6, Zenon DEF MessageOf
  <2>8. Topic(s) = Topic(t)
    BY <2>7
  <2>9. s = t
    BY <2>8, TopicsDiffer, Zenon
  <2>10. k = l
    BY <2>5, <2>6, <2>9, CharactersAssumption, CharacterFacts DEF CharactersAssumption
  <2> QED
    BY <2>7, <2>9, <2>10
<1> QED
  BY <1>1, StreamsInvariance, PTL

-----------------------------------------------------------------------------
USE GarbageAssumption, FilesAssumption, TimeoutsAssumption, ArchivesAssumption
    DEF GarbageAssumption, FilesAssumption, TimeoutsAssumption, ArchivesAssumption

(***************************************************************************)
(* Buffers.                                                                *)
(***************************************************************************)

\* A new buffer is one, and holds nothing.
LEMMA EmptyBuffer == IsBuffer(Empty) /\ Contents(Empty) = <<>>
BY DEF IsBuffer, Contents, Empty

\* A larger array holds the same characters.
LEMMA MovedBuffer ==
    ASSUME NEW b, IsBuffer(b), NEW n \in Nat, b.size_ <= n
    PROVE  /\ IsBuffer(Moved(b, n))
           /\ Moved(b, n).size_ = b.size_ /\ Moved(b, n).max_size_ = n
           /\ \A i \in 0 .. b.size_ - 1 : Moved(b, n).data[i] = b.data[i]
BY DEF IsBuffer, Moved

\* There is room for what is to be appended, however small the array was.
LEMMA RoomBuffer ==
    ASSUME NEW b, IsBuffer(b), NEW n \in Nat, b.size_ <= n
    PROVE  /\ IsBuffer(Room(b, n))
           /\ Room(b, n).size_ = b.size_ /\ n <= Room(b, n).max_size_
           /\ \A i \in 0 .. b.size_ - 1 : Room(b, n).data[i] = b.data[i]
<1>1. CASE n > b.max_size_
  <2>1. n * 2 \in Nat /\ b.size_ <= n * 2 /\ n <= n * 2
    BY DEF IsBuffer
  <2> QED
    BY <1>1, <2>1, MovedBuffer DEF Room
<1>2. CASE ~(n > b.max_size_)
  BY <1>2 DEF Room, IsBuffer
<1> QED
  BY <1>1, <1>2

\* The contents of a buffer are a sequence of characters.
LEMMA ContentsType ==
    ASSUME NEW b, IsBuffer(b)
    PROVE  Contents(b) \in Seq(Char) /\ Len(Contents(b)) = b.size_
<1>1. b.size_ \in Nat
  BY DEF IsBuffer
<1>2. \A i \in 1 .. b.size_ : b.data[i - 1] \in Char
  <2>1. \A i \in 1 .. b.size_ : i - 1 \in 0 .. b.size_ - 1
    BY <1>1
  <2> QED
    BY <2>1 DEF IsBuffer
<1>3. Contents(b) \in [1 .. b.size_ -> Char]
  BY <1>2 DEF Contents
<1>4. Contents(b) \in Seq(Char)
  BY <1>1, <1>3, SeqDef
<1> QED
  BY <1>1, <1>3, <1>4, LenProperties

\* append adds its characters at the end, and never writes beyond the array.
LEMMA AppendBuffer ==
    ASSUME NEW b, IsBuffer(b), NEW chunk \in Seq(Char)
    PROVE  /\ IsBuffer(append(b, chunk))
           /\ Contents(append(b, chunk)) = Contents(b) \o chunk
<1> DEFINE n == b.size_ + Len(chunk)
           r == Room(b, n)
           a == append(b, chunk)
<1>1. n \in Nat /\ b.size_ <= n /\ b.size_ \in Nat /\ Len(chunk) \in Nat
  BY DEF IsBuffer
<1>2. /\ IsBuffer(r) /\ r.size_ = b.size_ /\ n <= r.max_size_
      /\ \A i \in 0 .. b.size_ - 1 : r.data[i] = b.data[i]
  BY <1>1, RoomBuffer
<1> HIDE DEF r
<1>3. a = Stored(r, chunk)
  BY DEF append, r
<1>4. /\ a.size_ = n /\ a.max_size_ = r.max_size_
      /\ a.data = [i \in 0 .. r.max_size_ - 1 |->
                      IF i \in b.size_ .. n - 1 THEN chunk[i - b.size_ + 1] ELSE r.data[i]]
  BY <1>2, <1>3 DEF Stored, IsBuffer
<1> HIDE DEF a
<1>5. \A i \in 0 .. n - 1 :
        a.data[i] = IF i < b.size_ THEN b.data[i] ELSE chunk[i - b.size_ + 1]
  BY <1>1, <1>2, <1>4 DEF IsBuffer
<1>6. \A i \in b.size_ .. n - 1 : chunk[i - b.size_ + 1] \in Char
  BY <1>1
<1>7. IsBuffer(a)
  <2>1. a.data \in [0 .. a.max_size_ - 1 -> Char \cup {garbage}]
    BY <1>2, <1>4, <1>6 DEF IsBuffer
  <2>2. \A i \in 0 .. a.size_ - 1 : a.data[i] \in Char
    <3>1. \A i \in 0 .. n - 1 : i < b.size_ \/ i \in b.size_ .. n - 1
      BY <1>1
    <3>2. \A i \in 0 .. n - 1 : i < b.size_ => i \in 0 .. b.size_ - 1
      BY <1>1
    <3>3. \A i \in b.size_ .. n - 1 : ~(i < b.size_)
      BY <1>1
    <3> QED
      BY <1>4, <1>5, <1>6, <3>1, <3>2, <3>3 DEF IsBuffer
  <2> QED
    BY <1>1, <1>2, <1>4, <2>1, <2>2 DEF IsBuffer
<1>8. Contents(a) = Contents(b) \o chunk
  <2>1. Contents(b) \in Seq(Char) /\ Len(Contents(b)) = b.size_
    BY ContentsType
  <2>2. \A i \in 1 .. b.size_ : Contents(b)[i] = b.data[i - 1]
    BY DEF Contents
  <2>3. Contents(a) = [i \in 1 .. n |-> a.data[i - 1]]
    BY <1>4 DEF Contents
  <2>4. \A i \in 1 .. n :
          a.data[i - 1] = IF i <= b.size_ THEN Contents(b)[i] ELSE chunk[i - b.size_]
    <3> SUFFICES ASSUME NEW i \in 1 .. n
                 PROVE  a.data[i - 1] =
                          IF i <= b.size_ THEN Contents(b)[i] ELSE chunk[i - b.size_]
      OBVIOUS
    <3>1. i - 1 \in 0 .. n - 1 /\ (i - 1) - b.size_ + 1 = i - b.size_
      BY <1>1
    <3> QED
      BY <1>1, <1>5, <2>2, <3>1
  <2>5. /\ Contents(a) \in Seq(Char) /\ Len(Contents(a)) = n
        /\ \A i \in 1 .. n : Contents(a)[i] = a.data[i - 1]
    BY <1>4, <1>7, <2>3, ContentsType
  <2>6. /\ Contents(b) \o chunk \in Seq(Char)
        /\ Len(Contents(b) \o chunk) = n
        /\ \A i \in 1 .. n : (Contents(b) \o chunk)[i] =
              IF i <= b.size_ THEN Contents(b)[i] ELSE chunk[i - b.size_]
    BY <2>1, ConcatProperties
  <2> QED
    BY <2>4, <2>5, <2>6, SeqEqual
<1> QED
  BY <1>7, <1>8 DEF a

\* A copy holds what the original does.
LEMMA CopiedBuffer ==
    ASSUME NEW b, IsBuffer(b)
    PROVE  IsBuffer(Copied(b)) /\ Contents(Copied(b)) = Contents(b)
<1>1. /\ IsBuffer(Copied(b)) /\ Copied(b).size_ = b.size_
      /\ \A i \in 0 .. b.size_ - 1 : Copied(b).data[i] = b.data[i]
  BY MovedBuffer DEF Copied, IsBuffer
<1>2. \A i \in 1 .. b.size_ : i - 1 \in 0 .. b.size_ - 1
  BY DEF IsBuffer
<1> QED
  BY <1>1, <1>2 DEF Contents

(***************************************************************************)
(* The inductive invariant: the buffer always holds what was received      *)
(* (Filled), and the loop can end only when nothing is left to come        *)
(* (Unfinished), because waiting means that the transfer runs.             *)
(***************************************************************************)
Filled ==
    /\ Contents(bufferPtr) = received
    /\ ResultIsReceived

Unfinished ==
    /\ pc = "wait" => still_running = 1
    /\ pc = "test" /\ still_running = 0 => remaining = <<>> \/ failed
    /\ NoEarlyReturn

DInv == TypeOK /\ Filled /\ Unfinished /\ TimeoutInTime

\* Every timeout get_timeout makes is in time.
LEMMA TimeoutBounds ==
    ASSUME NEW ms \in Nat \cup {-1}, NEW t, t = get_timeout(ms)
    PROVE  /\ t.tv_sec \in Nat /\ t.tv_usec \in Nat
           /\ t.tv_usec \div 1000 \in 0 .. 999
           /\ Milliseconds(t) < 2000
           /\ ms >= 0 => Milliseconds(t) <= ms
<1>1. CASE ms < 0 \/ ms \div 1000 > 1
  <2>1. t.tv_sec = 1 /\ t.tv_usec = 0
    BY <1>1 DEF get_timeout
  <2>2. 0 \div 1000 = 0 /\ (ms >= 0 => ms >= 2000)
    BY <1>1
  <2> QED
    BY <2>1, <2>2 DEF Milliseconds
<1>2. CASE ms \in Nat /\ ~(ms \div 1000 > 1)
  <2>1. /\ ms \div 1000 \in Nat /\ ms % 1000 \in 0 .. 999
        /\ ms = (ms \div 1000) * 1000 + (ms % 1000)
    BY <1>2
  <2>2. t.tv_sec = ms \div 1000 /\ t.tv_usec = (ms % 1000) * 1000
    BY <1>2, <2>1 DEF get_timeout
  <2>3. ((ms % 1000) * 1000) \div 1000 = ms % 1000 /\ (ms % 1000) * 1000 \in Nat
    BY <2>1
  <2>4. Milliseconds(t) = ms /\ ms < 2000
    BY <1>2, <2>1, <2>2, <2>3 DEF Milliseconds
  <2> QED
    BY <2>1, <2>2, <2>3, <2>4
<1> QED
  BY <1>1, <1>2

\* A download starts in a state of the invariant.
LEMMA DInit == Init => DInv
<1> SUFFICES ASSUME Init PROVE DInv
  OBVIOUS
<1>1. IsBuffer(Empty) /\ Contents(Empty) = <<>>
  BY EmptyBuffer
<1>2. TypeOK
  <2>1. remaining \in Seq(Seq(Char)) /\ <<>> \in Seq(Char)
    BY EmptySeq DEF Init
  <2>2. timeout \in [tv_sec : Nat, tv_usec : Nat, asked : Nat \cup {-1}]
    BY DEF Init
  <2> QED
    BY <1>1, <2>1, <2>2 DEF Init, TypeOK
<1>3. Filled /\ Unfinished
  BY <1>1 DEF Init, Filled, Unfinished, ResultIsReceived, NoEarlyReturn
<1>4. TimeoutInTime
  BY DEF Init, TimeoutInTime, Milliseconds
<1> QED
  BY <1>2, <1>3, <1>4 DEF DInv

\* The contents of a buffer change with the buffer only.
LEMMA SameContents ==
    /\ Contents(bufferPtr)' = Contents(bufferPtr')
    /\ Contents(result)' = Contents(result')
BY DEF Contents

\* A piece that arrives is appended to what there is.
LEMMA DWrite == DInv /\ write_to_memory => DInv'
<1> SUFFICES ASSUME DInv, write_to_memory PROVE DInv'
  OBVIOUS
<1> DEFINE piece == Head(remaining)
<1>1. /\ TypeOK /\ Filled /\ Unfinished /\ TimeoutInTime
      /\ pc = "perform" /\ pc' = pc /\ result' = result /\ failed' = failed
      /\ still_running' = still_running /\ timeout' = timeout
  BY DEF DInv, write_to_memory, loopVars
<1>2. /\ piece \in Seq(Char) /\ remaining' \in Seq(Seq(Char))
      /\ bufferPtr' = append(bufferPtr, piece) /\ received' = received \o piece
  BY <1>1, HeadTailProperties DEF TypeOK, write_to_memory
<1>3. IsBuffer(bufferPtr') /\ Contents(bufferPtr') = Contents(bufferPtr) \o piece
  BY <1>1, <1>2, AppendBuffer DEF TypeOK
<1>4. received' \in Seq(Char)
  BY <1>1, <1>2, ConcatProperties DEF TypeOK
<1>5. TypeOK'
  BY <1>1, <1>2, <1>3, <1>4 DEF TypeOK
<1>6. Filled'
  BY <1>1, <1>2, <1>3, SameContents DEF Filled, ResultIsReceived
<1>7. Unfinished' /\ TimeoutInTime'
  BY <1>1 DEF Unfinished, NoEarlyReturn, TimeoutInTime
<1> QED
  BY <1>5, <1>6, <1>7 DEF DInv

\* The timeout stays in time while nobody changes it.
LEMMA SameTimeout == TimeoutInTime /\ UNCHANGED timeout => TimeoutInTime'
BY DEF TimeoutInTime, Milliseconds

\* curl_multi_perform leaves the loop waiting for a transfer that runs.
LEMMA DPerform == DInv /\ (TransferFails \/ perform) => DInv'
<1> SUFFICES ASSUME DInv, TransferFails \/ perform PROVE DInv'
  OBVIOUS
<1>1. /\ TypeOK /\ Filled /\ Unfinished /\ TimeoutInTime
      /\ pc = "perform" /\ pc' \in {"perform", "test"}
      /\ UNCHANGED <<bufferPtr, timeout, remaining, received, result>>
  BY DEF DInv, TransferFails, perform, PerformReturns, PerformFails, loopVars, dataVars
<1>2. failed' \in BOOLEAN /\ still_running' \in {0, 1}
  BY <1>1 DEF TypeOK, TransferFails, perform, PerformReturns, PerformFails, loopVars, dataVars
<1>3. TypeOK'
  BY <1>1, <1>2 DEF TypeOK
<1>4. Filled'
  BY <1>1, SameContents DEF Filled, ResultIsReceived
<1>5. pc' = "test" /\ still_running' = 0 => remaining = <<>> \/ failed'
  <2>1. CASE TransferFails
    BY <1>1, <2>1 DEF TransferFails, loopVars
  <2>2. CASE PerformReturns
    BY <1>1, <2>2 DEF PerformReturns, dataVars
  <2>3. CASE PerformFails
    BY <1>1, <2>3 DEF PerformFails
  <2> QED
    BY <2>1, <2>2, <2>3 DEF perform
<1>6. Unfinished'
  BY <1>1, <1>5 DEF Unfinished, NoEarlyReturn
<1> QED
  BY <1>1, <1>3, <1>4, <1>6, SameTimeout DEF DInv

\* multi_loop waits only while the transfer runs.
LEMMA DLoop == DInv /\ multi_loop => DInv'
<1> SUFFICES ASSUME DInv, multi_loop PROVE DInv'
  OBVIOUS
<1>1. /\ TypeOK /\ Filled /\ Unfinished /\ TimeoutInTime
      /\ pc \in {"test", "wait"} /\ pc' \in {"wait", "perform", "test", "return"}
      /\ UNCHANGED <<still_running, bufferPtr, remaining, received, failed, result>>
  BY DEF DInv, multi_loop, LoopTest, WaitEnds, SelectFails, LoopEnds, AfterTimeout,
         AfterSelectError, dataVars
<1>2. /\ TimeoutInTime'
      /\ timeout' \in [tv_sec : Nat, tv_usec : Nat, asked : Nat \cup {-1}]
  <2>1. CASE LoopTest
    <3>1. PICK ms \in CurlTimeouts :
            timeout' = [tv_sec |-> get_timeout(ms).tv_sec,
                        tv_usec |-> get_timeout(ms).tv_usec, asked |-> ms]
      BY <2>1 DEF LoopTest
    <3>2. ms \in Nat \cup {-1}
      OBVIOUS
    <3>3. timeout' \in [tv_sec : Nat, tv_usec : Nat, asked : Nat \cup {-1}]
      BY <3>1, <3>2, TimeoutBounds
    <3>4. TimeoutInTime'
      BY <3>1, <3>2, TimeoutBounds DEF TimeoutInTime, Milliseconds
    <3> QED
      BY <3>3, <3>4
  <2>2. CASE UNCHANGED timeout
    BY <1>1, <2>2, SameTimeout DEF TypeOK
  <2> QED
    BY <2>1, <2>2 DEF multi_loop, WaitEnds, SelectFails, LoopEnds
<1>3. TypeOK'
  BY <1>1, <1>2 DEF TypeOK
<1>4. Filled'
  BY <1>1, SameContents DEF Filled, ResultIsReceived
<1>5. /\ pc' = "wait" => still_running # 0
      /\ pc' = "return" => pc = "test" /\ still_running = 0
      /\ pc' = "test" => pc = "wait"
  BY DEF multi_loop, LoopTest, WaitEnds, SelectFails, LoopEnds, AfterTimeout, AfterSelectError
<1>6. Unfinished'
  BY <1>1, <1>5 DEF Unfinished, NoEarlyReturn, TypeOK
<1> QED
  BY <1>2, <1>3, <1>4, <1>6 DEF DInv

\* What is returned is the buffer or a copy of it.
LEMMA DReturn == DInv /\ Return => DInv'
<1> SUFFICES ASSUME DInv, Return PROVE DInv'
  OBVIOUS
<1>1. /\ TypeOK /\ Filled /\ Unfinished /\ TimeoutInTime
      /\ pc = "return" /\ pc' = "returned"
      /\ UNCHANGED <<still_running, timeout, bufferPtr, remaining, received, failed>>
  BY DEF DInv, Return
<1>2. IsBuffer(result') /\ Contents(result') = Contents(bufferPtr)
  BY <1>1, CopiedBuffer DEF TypeOK, Return
<1>3. TypeOK'
  BY <1>1, <1>2 DEF TypeOK
<1>4. Filled'
  BY <1>1, <1>2, SameContents DEF Filled, ResultIsReceived
<1>5. Unfinished'
  BY <1>1 DEF Unfinished, NoEarlyReturn
<1> QED
  BY <1>1, <1>3, <1>4, <1>5, SameTimeout DEF DInv

\* No step breaks the invariant.
LEMMA DNext == DInv /\ [Next]_vars => DInv'
<1> SUFFICES ASSUME DInv, [Next]_vars PROVE DInv'
  OBVIOUS
<1>1. CASE write_to_memory
  BY <1>1, DWrite
<1>2. CASE TransferFails \/ perform
  BY <1>2, DPerform
<1>3. CASE multi_loop
  BY <1>3, DLoop
<1>4. CASE Return
  BY <1>4, DReturn
<1>5. CASE Returned \/ UNCHANGED vars
  <2>1. UNCHANGED <<pc, still_running, timeout, bufferPtr, remaining, received, failed, result>>
    BY <1>5 DEF Returned, vars, loopVars, dataVars
  <2>2. TypeOK'
    BY <2>1 DEF DInv, TypeOK
  <2>3. Filled'
    BY <2>1, SameContents DEF DInv, Filled, ResultIsReceived
  <2>4. Unfinished'
    BY <2>1 DEF DInv, Unfinished, NoEarlyReturn
  <2> QED
    BY <2>1, <2>2, <2>3, <2>4, SameTimeout DEF DInv
<1> QED
  BY <1>1, <1>2, <1>3, <1>4, <1>5 DEF Next

\* The invariant holds in every reachable state.
THEOREM DownloadInvariance == Spec => []DInv
BY DInit, DNext, PTL DEF Spec

\* The buffer is well formed after every callback, growth and copy.
THEOREM DownloadTypeCorrect == Spec => []TypeOK
<1>1. DInv => TypeOK
  BY DEF DInv
<1> QED
  BY <1>1, DownloadInvariance, PTL

\* The caller of get_file gets what libcurl handed to write_to_memory.
THEOREM ResultCorrect == Spec => []ResultIsReceived
<1>1. DInv => ResultIsReceived
  BY DEF DInv, Filled
<1> QED
  BY <1>1, DownloadInvariance, PTL

\* Only a failed transfer or a failed first perform makes get_file return early.
THEOREM NoEarlyReturnCorrect == Spec => []NoEarlyReturn
<1>1. DInv => NoEarlyReturn
  BY DEF DInv, Unfinished
<1> QED
  BY <1>1, DownloadInvariance, PTL

\* select is never given an improper timeout nor made to wait longer than curl asked.
THEOREM TimeoutCorrect == Spec => []TimeoutInTime
<1>1. DInv => TimeoutInTime
  BY DEF DInv
<1> QED
  BY <1>1, DownloadInvariance, PTL

(***************************************************************************)
(* What get_file and gzip_inflate put into their buffers is what libcurl   *)
(* and libarchive handed them.  Most of it is known of the download and of *)
(* append already.                                                         *)
(***************************************************************************)

\* The inductive invariant.
AInv == DInv /\ InflateTypeOK /\ HoldsDelivered

\* A call starts in a state of the invariant.
LEMMA AInit == InflateInit => AInv
<1> SUFFICES ASSUME InflateInit PROVE AInv
  OBVIOUS
<1>1. DInv
  BY DInit DEF InflateInit
<1>2. entries \in Seq(Seq(Seq(Char))) /\ entries # <<>> /\ <<>> \in Seq(Char)
  BY DEF InflateInit
<1>3. IsBuffer(uncompressedBytes) /\ Contents(uncompressedBytes) = <<>>
  BY EmptyBuffer DEF InflateInit
<1> QED
  BY <1>1, <1>2, <1>3 DEF AInv, DInv, InflateTypeOK, HoldsDelivered, InflateInit

\* The contents of the buffer change with the buffer only.
LEMMA SameUncompressed == Contents(uncompressedBytes)' = Contents(uncompressedBytes')
BY DEF Contents

\* A step of gzip_inflate other than of get_file leaves the download as it is.
LEMMA DownloadKept == DInv /\ UNCHANGED vars => DInv'
BY DNext

\* get_file goes on: the archive is not touched.
LEMMA ADownload == AInv /\ DownloadStep => AInv'
<1> SUFFICES ASSUME AInv, DownloadStep PROVE AInv'
  OBVIOUS
<1>1. UNCHANGED <<at, entries, fatal, troubled, delivered, whole, uncompressedBytes, freed>>
  BY DEF DownloadStep, archiveVars
<1>2. DInv'
  BY DNext DEF AInv, DownloadStep, get_file, Next
<1>3. TypeOK'
  BY <1>2 DEF DInv
<1> QED
  BY <1>1, <1>2, <1>3, SameUncompressed DEF AInv, InflateTypeOK, HoldsDelivered

\* An archive begins: its entries are sequences of blocks.
LEMMA AStart == AInv /\ StartInflate => AInv'
<1> SUFFICES ASSUME AInv, StartInflate PROVE AInv'
  OBVIOUS
<1>1. /\ UNCHANGED vars /\ at' = "header"
      /\ UNCHANGED <<fatal, troubled, uncompressedBytes, delivered, freed>>
  BY DEF StartInflate
<1>2. PICK a \in Archives : entries' = <<<<>>>> \o a
  BY DEF StartInflate
<1>3. entries' \in Seq(Seq(Seq(Char))) /\ entries' # <<>>
  <2>1. a \in Seq(Seq(Seq(Char))) /\ <<<<>>>> \in Seq(Seq(Seq(Char))) /\ Len(<<<<>>>>) = 1
    BY <1>2
  <2>2. <<<<>>>> \o a \in Seq(Seq(Seq(Char))) /\ Len(<<<<>>>> \o a) = 1 + Len(a) /\ Len(a) \in Nat
    BY <2>1, ConcatProperties
  <2>3. Len(<<<<>>>> \o a) # 0
    BY <2>2
  <2> QED
    BY <1>2, <2>2, <2>3, EmptySeq
<1>4. DInv' /\ TypeOK'
  BY <1>1, DownloadKept DEF AInv, DInv
<1> QED
  BY <1>1, <1>3, <1>4, SameUncompressed DEF AInv, InflateTypeOK, HoldsDelivered

\* A block goes to the end of the buffer, as the next of what was delivered.
LEMMA ABlock == AInv /\ DataBlock => AInv'
<1> SUFFICES ASSUME AInv, DataBlock PROVE AInv'
  OBVIOUS
<1> DEFINE block == Head(Head(entries))
<1>1. /\ UNCHANGED vars /\ at' = "data" /\ UNCHANGED <<fatal, troubled, whole, freed>>
      /\ uncompressedBytes' = append(uncompressedBytes, block)
      /\ delivered' = delivered \o block
      /\ entries' = [entries EXCEPT ![1] = Tail(@)]
      /\ Head(entries) # <<>>
  BY DEF DataBlock, AfterBlock
<1>2. /\ entries \in Seq(Seq(Seq(Char))) /\ entries # <<>>
      /\ IsBuffer(uncompressedBytes) /\ delivered \in Seq(Char)
      /\ Contents(uncompressedBytes) = delivered
  BY DEF AInv, InflateTypeOK, HoldsDelivered
<1>3. Head(entries) \in Seq(Seq(Char)) /\ Head(entries) = entries[1]
  BY <1>2, HeadTailProperties
<1>4. block \in Seq(Char) /\ Tail(entries[1]) \in Seq(Seq(Char))
  BY <1>1, <1>3, HeadTailProperties
<1>5. entries' \in Seq(Seq(Seq(Char))) /\ entries' # <<>>
  BY <1>1, <1>2, <1>4
<1>6. IsBuffer(uncompressedBytes') /\ Contents(uncompressedBytes') = delivered'
  BY <1>1, <1>2, <1>4, AppendBuffer
<1>7. delivered' \in Seq(Char)
  BY <1>1, <1>2, <1>4, ConcatProperties
<1>8. DInv' /\ TypeOK'
  BY <1>1, DownloadKept DEF AInv, DInv
<1> QED
  BY <1>1, <1>5, <1>6, <1>7, <1>8, SameUncompressed DEF AInv, InflateTypeOK, HoldsDelivered

\* The other steps of gzip_inflate touch neither buffer.
LEMMA AOther ==
    AInv /\ (NextHeader \/ NoMoreHeaders \/ HeaderTrouble \/ EndOfEntry \/ DataTrouble \/ Free)
        => AInv'
<1> SUFFICES ASSUME AInv, NextHeader \/ NoMoreHeaders \/ HeaderTrouble \/ EndOfEntry
                            \/ DataTrouble \/ Free
             PROVE  AInv'
  OBVIOUS
<1>1. UNCHANGED vars /\ UNCHANGED <<uncompressedBytes, delivered>>
  BY DEF NextHeader, NoMoreHeaders, HeaderTrouble, EndOfEntry, DataTrouble, Free, Trouble, archiveVars
<1>2. at' \in {"off", "header", "data", "free", "returned"}
  BY DEF NextHeader, NoMoreHeaders, HeaderTrouble, EndOfEntry, DataTrouble, Free, Trouble,
         AfterEntry, AfterTrouble
<1>3. fatal' \in BOOLEAN /\ troubled' \in BOOLEAN /\ freed' \in BOOLEAN
  <2>1. fatal \in BOOLEAN /\ troubled \in BOOLEAN /\ freed \in BOOLEAN
    BY DEF AInv, InflateTypeOK
  <2> QED
    BY <2>1 DEF NextHeader, NoMoreHeaders, HeaderTrouble, EndOfEntry, DataTrouble, Free, Trouble,
                archiveVars
<1>4. entries' \in Seq(Seq(Seq(Char))) /\ entries' # <<>>
  <2>1. entries \in Seq(Seq(Seq(Char))) /\ entries # <<>>
    BY DEF AInv, InflateTypeOK
  <2>2. CASE NextHeader
    <3>1. entries' = Tail(entries) /\ Len(entries) > 1
      BY <2>2 DEF NextHeader
    <3>2. Tail(entries) \in Seq(Seq(Seq(Char))) /\ Len(Tail(entries)) = Len(entries) - 1
      BY <2>1, HeadTailProperties
    <3>3. Len(entries) \in Nat
      BY <2>1, LenProperties
    <3>4. Len(entries') # 0
      <4>1. Len(entries') = Len(entries) - 1
        BY <3>1, <3>2
      <4> QED
        BY <3>1, <3>3, <4>1
    <3>5. entries' \in Seq(Seq(Seq(Char)))
      BY <3>1, <3>2
    <3> QED
      BY <3>4, <3>5, EmptySeq
  <2>3. CASE ~NextHeader
    <3>1. entries' = entries
      BY <2>3 DEF NoMoreHeaders, HeaderTrouble, EndOfEntry, DataTrouble, Free, Trouble, archiveVars
    <3> QED
      BY <2>1, <3>1
  <2> QED
    BY <2>2, <2>3
<1>5. DInv' /\ TypeOK'
  BY <1>1, DownloadKept DEF AInv, DInv
<1> QED
  BY <1>1, <1>2, <1>3, <1>4, <1>5, SameUncompressed DEF AInv, InflateTypeOK, HoldsDelivered

\* No step breaks the invariant.
LEMMA ANext == AInv /\ [InflateNext]_inflateVars => AInv'
<1> SUFFICES ASSUME AInv, [InflateNext]_inflateVars PROVE AInv'
  OBVIOUS
<1>1. CASE DownloadStep
  BY <1>1, ADownload
<1>2. CASE gzip_inflate
  BY <1>2, AStart, ABlock, AOther DEF gzip_inflate, copy_data
<1>3. CASE Over \/ UNCHANGED inflateVars
  <2>1. /\ UNCHANGED vars
        /\ UNCHANGED <<at, entries, fatal, troubled, delivered, whole, uncompressedBytes, freed>>
    BY <1>3 DEF Over, inflateVars, archiveVars
  <2>2. DInv' /\ TypeOK'
    BY <2>1, DownloadKept DEF AInv, DInv
  <2> QED
    BY <2>1, <2>2, SameUncompressed DEF AInv, InflateTypeOK, HoldsDelivered
<1> QED
  BY <1>1, <1>2, <1>3 DEF InflateNext

\* Neither buffer loses, repeats or makes up a character, whatever libcurl and
\* libarchive hand over and whenever they fail.
THEOREM BuffersCorrect == InflateSpec => []BuffersRight
<1>1. AInv => BuffersRight
  BY DEF AInv, DInv, Filled, BuffersRight
<1> QED
  BY <1>1, AInit, ANext, PTL DEF InflateSpec

(***************************************************************************)
(* What is left of an archive.  Unless something failed, what has been     *)
(* delivered and what is left make the whole; a header is read when the    *)
(* entry before is used up, and the end comes when nothing is left.        *)
(***************************************************************************)
Left(e) == Flat(Flat(e))

LEMMA LeftType ==
    ASSUME NEW e \in Seq(Seq(Seq(Char)))
    PROVE  Flat(e) \in Seq(Seq(Char)) /\ Left(e) \in Seq(Char)
<1>1. Flat(e) \in Seq(Seq(Char))
  BY FlatType
<1> QED
  BY <1>1, FlatType DEF Left

\* An entry that is used up holds nothing.
LEMMA LeftAfterEntry ==
    ASSUME NEW e \in Seq(Seq(Seq(Char))), e # <<>>, Head(e) = <<>>
    PROVE  Left(e) = Left(Tail(e))
<1>1. Tail(e) \in Seq(Seq(Seq(Char)))
  BY HeadTailProperties
<1>2. Flat(e) = <<>> \o Flat(Tail(e))
  BY FlatFirst
<1>3. Flat(Tail(e)) \in Seq(Seq(Char))
  BY <1>1, FlatType
<1>4. <<>> \o Flat(Tail(e)) = Flat(Tail(e))
  BY <1>3, ConcatEmptySeq
<1> QED
  BY <1>2, <1>4 DEF Left

\* An archive with an empty entry before it is the same.
LEMMA LeftAtStart ==
    ASSUME NEW a \in Seq(Seq(Seq(Char)))
    PROVE  Left(<<<<>>>> \o a) = Left(a)
<1>1. <<>> \in Seq(Seq(Char))
  OBVIOUS
<1>2. Flat(<<<<>>>> \o a) = <<>> \o Flat(a)
  BY <1>1, FlatCons
<1>3. Flat(a) \in Seq(Seq(Char))
  BY FlatType
<1>4. <<>> \o Flat(a) = Flat(a)
  BY <1>3, ConcatEmptySeq
<1> QED
  BY <1>2, <1>4 DEF Left

\* The next block is the first of what is left.
LEMMA LeftAfterBlock ==
    ASSUME NEW e \in Seq(Seq(Seq(Char))), e # <<>>, Head(e) # <<>>,
           NEW f, f = [e EXCEPT ![1] = Tail(@)]
    PROVE  Head(Head(e)) \in Seq(Char) /\ f \in Seq(Seq(Seq(Char)))
           /\ Left(e) = Head(Head(e)) \o Left(f)
<1>1. Head(e) \in Seq(Seq(Char)) /\ Tail(e) \in Seq(Seq(Seq(Char))) /\ Head(e) = e[1]
  BY HeadTailProperties
<1>2. Head(Head(e)) \in Seq(Char) /\ Tail(Head(e)) \in Seq(Seq(Char))
  BY <1>1, HeadTailProperties
<1>3. PICK b \in Seq(Char), r \in Seq(Seq(Char)), m \in Seq(Seq(Char)) :
         b = Head(Head(e)) /\ r = Tail(Head(e)) /\ m = Flat(Tail(e))
  BY <1>1, <1>2, FlatType
<1>5. f = [e EXCEPT ![1] = r]
  BY <1>1, <1>3
<1>6. f \in Seq(Seq(Seq(Char))) /\ f # <<>> /\ Head(f) = r /\ Tail(f) = Tail(e)
  BY <1>3, <1>5, FirstReplaced
<1>9. Flat(f) = r \o m
  BY <1>3, <1>6, FlatFirst
<1>10. Flat(e) = Head(e) \o m
  BY <1>3, FlatFirst
<1>11. /\ Head(e) \o m \in Seq(Seq(Char)) /\ Head(e) \o m # <<>>
       /\ Head(Head(e) \o m) = b /\ Tail(Head(e) \o m) = r \o m
  <2>1. m \in Seq(Seq(Char)) /\ Head(e) \in Seq(Seq(Char))
    BY <1>1, <1>3
  <2>2. /\ Head(e) \o m \in Seq(Seq(Char)) /\ Head(e) \o m # <<>>
        /\ Head(Head(e) \o m) = Head(Head(e)) /\ Tail(Head(e) \o m) = Tail(Head(e)) \o m
    BY <2>1, FirstOfTwo, ZenonT(30)
  <2> QED
    BY <1>3, <2>2, Zenon
<1>12. Flat(Head(e) \o m) = Head(Head(e) \o m) \o Flat(Tail(Head(e) \o m))
  BY <1>11, FlatFirst
<1>15. Left(e) = b \o Left(f)
  BY <1>9, <1>10, <1>11, <1>12, Zenon DEF Left
<1> QED
  BY <1>2, <1>3, <1>6, <1>15

WholeRight ==
    /\ fatal => troubled
    /\ at = "off" => delivered = <<>>
    /\ at # "off" => pc = "returned"
    /\ at # "off" /\ ~failed /\ ~troubled =>
          /\ whole = delivered \o Left(entries)
          /\ at = "header" => Head(entries) = <<>>
          /\ at \in {"free", "returned"} => Left(entries) = <<>>

WInv == AInv /\ WholeRight

LEMMA SameLeft == Left(entries)' = Left(entries')
BY DEF Left, Flat

LEMMA WInit == InflateInit => WInv
BY AInit DEF InflateInit, WInv, WholeRight

\* An archive begins with nothing delivered.
LEMMA WStart == WInv /\ StartInflate => WholeRight'
<1> SUFFICES ASSUME WInv, StartInflate PROVE WholeRight'
  OBVIOUS
<1>1. /\ at = "off" /\ at' = "header" /\ pc = "returned" /\ pc' = pc
      /\ fatal' = fatal /\ troubled' = troubled /\ delivered' = delivered
  BY DEF StartInflate, vars, loopVars, dataVars
<1>2. PICK a \in Archives : entries' = <<<<>>>> \o a /\ whole' = Flat(Flat(a))
  BY DEF StartInflate
<1>3. a \in Seq(Seq(Seq(Char)))
  OBVIOUS
<1>4. whole' = <<>> \o Left(entries')
  <2>1. Left(entries') = Flat(Flat(a)) /\ Flat(Flat(a)) \in Seq(Char)
    BY <1>2, <1>3, LeftAtStart, LeftType DEF Left
  <2> QED
    BY <1>2, <2>1, ConcatEmptySeq
<1>5. Head(entries') = <<>>
  <2>1. PICK s \in Seq(Seq(Seq(Char))) : s = <<<<>>>>
    <3>1. PICK e \in Seq(Seq(Char)) : e = <<>>
      <4>1. <<>> \in Seq(Seq(Char))
        OBVIOUS
      <4> QED
        BY <4>1, Zenon
    <3>2. <<e>> \in Seq(Seq(Seq(Char)))
      OBVIOUS
    <3> QED
      BY <3>1, <3>2, Zenon
  <2>2. s # <<>> /\ Head(s) = <<>>
    BY <2>1
  <2>3. Head(s \o a) = Head(s)
    BY <1>3, <2>2, FirstOfTwo, Zenon
  <2> QED
    BY <1>2, <2>1, <2>2, <2>3, Zenon
<1> QED
  BY <1>1, <1>4, <1>5, SameLeft DEF WInv, WholeRight

\* get_file goes on only before an archive begins.
LEMMA WDownload == WInv /\ DownloadStep => WholeRight'
<1> SUFFICES ASSUME WInv, DownloadStep PROVE WholeRight'
  OBVIOUS
<1>1. at' = at /\ UNCHANGED <<entries, fatal, troubled, delivered, whole>>
  BY DEF DownloadStep, archiveVars
<1>2. pc # "returned"
  BY DEF DownloadStep, get_file, write_to_memory, TransferFails, perform, PerformReturns,
         PerformFails, multi_loop, LoopTest, WaitEnds, SelectFails, LoopEnds, Return
<1> QED
  BY <1>1, <1>2 DEF WInv, WholeRight

\* A block goes from what is left to what was delivered.
LEMMA WBlock == WInv /\ DataBlock => WholeRight'
<1> SUFFICES ASSUME WInv, DataBlock PROVE WholeRight'
  OBVIOUS
<1>1. /\ at = "data" /\ at' = "data" /\ pc' = pc /\ failed' = failed
      /\ UNCHANGED <<fatal, troubled, whole>>
      /\ delivered' = delivered \o Head(Head(entries))
      /\ entries' = [entries EXCEPT ![1] = Tail(@)]
      /\ Head(entries) # <<>>
  BY DEF DataBlock, AfterBlock, vars, loopVars, dataVars
<1>2. entries \in Seq(Seq(Seq(Char))) /\ entries # <<>> /\ delivered \in Seq(Char)
  BY DEF WInv, AInv, InflateTypeOK
<1>3. PICK b : b = Head(Head(entries))
  OBVIOUS
<1>4. /\ b \in Seq(Char) /\ entries' \in Seq(Seq(Seq(Char)))
      /\ Left(entries) = b \o Left(entries')
  BY <1>1, <1>2, <1>3, LeftAfterBlock
<1>5. Left(entries') \in Seq(Char)
  BY <1>4, LeftType
<1>6. delivered \o (b \o Left(entries')) = (delivered \o b) \o Left(entries')
  <2>1. \A x, y, z \in Seq(Char) : x \o (y \o z) = (x \o y) \o z
    BY ConcatAssociative, SMT
  <2> QED
    BY <1>2, <1>4, <1>5, <2>1, Zenon
<1>7. delivered \o Left(entries) = delivered' \o Left(entries')
  BY <1>1, <1>3, <1>4, <1>6, Zenon
<1> QED
  BY <1>1, <1>7, SameLeft DEF WInv, WholeRight

\* A header follows an entry that is used up.
LEMMA WHeader == WInv /\ NextHeader => WholeRight'
<1> SUFFICES ASSUME WInv, NextHeader PROVE WholeRight'
  OBVIOUS
<1>1. /\ at = "header" /\ at' = "data" /\ pc' = pc /\ failed' = failed
      /\ UNCHANGED <<fatal, troubled, whole, delivered>>
      /\ entries' = Tail(entries)
  BY DEF NextHeader, vars, loopVars, dataVars
<1>2. entries \in Seq(Seq(Seq(Char))) /\ entries # <<>>
  BY DEF WInv, AInv, InflateTypeOK
<1>3. Head(entries) = <<>> => Left(entries) = Left(entries')
  BY <1>1, <1>2, LeftAfterEntry
<1> QED
  BY <1>1, <1>3, SameLeft DEF WInv, WholeRight

\* Without a failed transfer, the last header was read when nothing is left.
LEMMA WEnd == WInv /\ NoMoreHeaders => WholeRight'
<1> SUFFICES ASSUME WInv, NoMoreHeaders PROVE WholeRight'
  OBVIOUS
<1>1. /\ at = "header" /\ at' = "free" /\ pc' = pc /\ failed' = failed
      /\ UNCHANGED <<fatal, troubled, whole, delivered, entries>>
      /\ Len(entries) = 1 \/ remaining # <<>>
  BY DEF NoMoreHeaders, vars, loopVars, dataVars, archiveVars
<1>2. entries \in Seq(Seq(Seq(Char))) /\ entries # <<>>
  BY DEF WInv, AInv, InflateTypeOK
<1>3. remaining # <<>> => failed
  BY <1>1 DEF WInv, WholeRight, AInv, DInv, Unfinished, NoEarlyReturn
<1>4. Len(entries) = 1 /\ Head(entries) = <<>> => Left(entries) = <<>>
  <2> SUFFICES ASSUME Len(entries) = 1, Head(entries) = <<>> PROVE Left(entries) = <<>>
    OBVIOUS
  <2>1. Tail(entries) \in Seq(Seq(Seq(Char))) /\ Len(Tail(entries)) = 0
    BY <1>2, HeadTailProperties
  <2>2. Tail(entries) = <<>>
    BY <2>1, EmptySeq
  <2>3. Left(entries) = Left(Tail(entries))
    BY <1>2, LeftAfterEntry
  <2> QED
    BY <2>2, <2>3, FlatEmpty DEF Left
<1> QED
  BY <1>1, <1>3, <1>4, SameLeft DEF WInv, WholeRight

\* Answers below ARCHIVE_OK are a reason; the other steps change nothing of this.
LEMMA WOther ==
    WInv /\ (HeaderTrouble \/ EndOfEntry \/ DataTrouble \/ Free) => WholeRight'
<1> SUFFICES ASSUME WInv, HeaderTrouble \/ EndOfEntry \/ DataTrouble \/ Free PROVE WholeRight'
  OBVIOUS
<1>1. pc' = pc /\ failed' = failed /\ UNCHANGED <<delivered, whole, entries>>
  BY DEF HeaderTrouble, EndOfEntry, DataTrouble, Free, Trouble, archiveVars, vars, loopVars, dataVars
<1>2. Left(entries)' = Left(entries)
  BY <1>1, SameLeft
<1>3. CASE HeaderTrouble \/ DataTrouble
  BY <1>1, <1>3 DEF HeaderTrouble, DataTrouble, Trouble, AfterTrouble, AfterEntry, WInv, WholeRight
<1>4. CASE EndOfEntry
  BY <1>1, <1>2, <1>4 DEF EndOfEntry, AfterEntry, archiveVars, WInv, WholeRight
<1>5. CASE Free
  BY <1>1, <1>2, <1>5 DEF Free, archiveVars, WInv, WholeRight
<1> QED
  BY <1>3, <1>4, <1>5

LEMMA WNext == WInv /\ [InflateNext]_inflateVars => WInv'
<1> SUFFICES ASSUME WInv, [InflateNext]_inflateVars PROVE WInv'
  OBVIOUS
<1>1. AInv'
  BY ANext DEF WInv
<1>2. CASE DownloadStep
  BY <1>1, <1>2, WDownload DEF WInv
<1>3. CASE gzip_inflate
  BY <1>1, <1>3, WStart, WBlock, WHeader, WEnd, WOther DEF gzip_inflate, copy_data, WInv
<1>4. CASE Over \/ UNCHANGED inflateVars
  <2>1. /\ pc' = pc /\ failed' = failed
        /\ UNCHANGED <<at, entries, fatal, troubled, delivered, whole>>
    BY <1>4 DEF Over, inflateVars, archiveVars, vars, loopVars, dataVars
  <2> QED
    BY <1>1, <2>1, SameLeft DEF WInv, WholeRight
<1> QED
  BY <1>2, <1>3, <1>4 DEF InflateNext

\* Data of an archive are missing only if the transfer failed or libarchive reported
\* trouble, however the archive is cut into entries and blocks.
THEOREM NothingMissingCorrect == InflateSpec => []NothingMissing
<1>1. WInv => NothingMissing
  <2> SUFFICES ASSUME WInv PROVE NothingMissing
    OBVIOUS
  <2>1. NoEarlyReturn
    BY DEF WInv, AInv, DInv, Unfinished
  <2>2. delivered \in Seq(Char) /\ Contents(uncompressedBytes) = delivered
    BY DEF WInv, AInv, InflateTypeOK, HoldsDelivered
  <2>3. ASSUME at = "returned", ~failed, ~troubled PROVE whole = delivered
    <3>1. whole = delivered \o Left(entries) /\ Left(entries) = <<>>
      BY <2>3 DEF WInv, WholeRight
    <3> QED
      BY <2>2, <3>1, ConcatEmptySeq
  <2> QED
    BY <2>1, <2>2, <2>3 DEF NothingMissing
<1> QED
  BY <1>1, WInit, WNext, PTL DEF InflateSpec
=============================================================================
