------------------------------ MODULE ListsProofs ------------------------------
(***************************************************************************)
(* Lemmas on lists that the proofs about several components cite: the first *)
(* and the last of a set of numbers, a set in order, and lists laid end to  *)
(* end (`\o`, FlattenSeq). FlattenSeq is a recursive function: that it has  *)
(* the value its recursion says is proved by a smallest counterexample.     *)
(***************************************************************************)
EXTENDS Lists, SequencesExt, FiniteSetTheorems, NaturalsInduction,
        WellFoundedInduction, TLAPS

-------------------------------------------------------------------------------
(***************************************************************************)
(* Ranks: the first and the last of a set of positions, and the set in      *)
(* order.                                                                   *)
(***************************************************************************)
LEMMA FirstExists ==
    ASSUME NEW S, S \subseteq Nat, S # {}
    PROVE  \E first \in S : \A s \in S : first <= s
<1>1. PICK first \in S : \A s \in S : <<s, first>> \notin OpToRel(<, Nat)
  BY NatLessThanWellFounded, WFMin
<1>2. \A s \in S : ~(s < first)
  BY <1>1 DEF OpToRel
<1> QED
  BY <1>2

LEMMA LastExists ==
    ASSUME NEW n \in Nat, NEW S, S \subseteq 1..n, S # {}
    PROVE  \E last \in S : \A s \in S : s <= last
<1> DEFINE T == {n - s : s \in S}
<1>1. T \subseteq Nat /\ T # {}
  <2>1. \A s \in S : n - s \in Nat
    OBVIOUS
  <2>2. PICK s \in S : TRUE
    OBVIOUS
  <2>3. n - s \in T
    OBVIOUS
  <2> QED
    BY <2>1, <2>3
<1>2. PICK t \in T : \A u \in T : t <= u
  BY <1>1, FirstExists
<1>3. PICK last \in S : t = n - last
  BY <1>2
<1>4. ASSUME NEW s \in S PROVE s <= last
  <2>1. n - last <= n - s
    BY <1>2, <1>3
  <2> QED
    BY <2>1
<1> QED
  BY <1>4

(* Every rank is the rank of one number, which InOrder chooses.             *)
LEMMA InOrderEnumerates ==
    ASSUME NEW S, IsFiniteSet(S), S \subseteq Int
    PROVE  /\ Cardinality(S) \in Nat
           /\ DOMAIN InOrder(S) = 1..Cardinality(S)
           /\ InOrder(S) \in [1..Cardinality(S) -> S]
           /\ \A x \in S : \E k \in DOMAIN InOrder(S) : InOrder(S)[k] = x
           /\ \A k, l \in DOMAIN InOrder(S) : k < l => InOrder(S)[k] < InOrder(S)[l]
<1> DEFINE upto(p) == {q \in S : q <= p}
           rank == [p \in S |-> Cardinality(upto(p))]
           c == Cardinality(S)
<1>1. c \in Nat
  BY FS_CardinalityType
<1>2. IsFiniteSet(1..c) /\ Cardinality(1..c) = c
  BY <1>1, FS_Interval
<1>3. ASSUME NEW p \in S
      PROVE  IsFiniteSet(upto(p)) /\ Cardinality(upto(p)) \in 1..c
  <2>1. upto(p) \in SUBSET S /\ p \in upto(p)
    OBVIOUS
  <2>2. IsFiniteSet(upto(p)) /\ Cardinality(upto(p)) <= c
    BY <2>1, FS_Subset
  <2>3. Cardinality(upto(p)) \in Nat
    BY <2>2, FS_CardinalityType
  <2>4. Cardinality(upto(p)) # 0
    BY <2>1, <2>2, FS_EmptySet
  <2> QED
    BY <2>2, <2>3, <2>4, <1>1
<1>4. ASSUME NEW p \in S, NEW q \in S, p < q
      PROVE  Cardinality(upto(p)) < Cardinality(upto(q))
  <2>1. upto(p) \in SUBSET upto(q)
    <3>1. ASSUME NEW x \in upto(p) PROVE x \in S /\ x <= q
      <4>1. x \in Int /\ p \in Int /\ q \in Int /\ x <= p
        OBVIOUS
      <4> QED
        BY <4>1, <1>4
    <3> QED
      BY <3>1
  <2>2. q \in upto(q) /\ q \notin upto(p)
    BY <1>4
  <2>3. upto(p) # upto(q)
    BY <2>2
  <2>4. /\ Cardinality(upto(p)) <= Cardinality(upto(q))
        /\ Cardinality(upto(p)) # Cardinality(upto(q))
    BY <2>1, <2>3, <1>3, FS_Subset
  <2>5. Cardinality(upto(p)) \in Int /\ Cardinality(upto(q)) \in Int
    BY <1>1, <1>3
  <2> QED
    BY <2>4, <2>5
<1>5. rank \in Injection(S, 1..c)
  <2>1. rank \in [S -> 1..c]
    BY <1>3
  <2>2. ASSUME NEW p \in S, NEW q \in S, rank[p] = rank[q] PROVE p = q
    <3>1. rank[p] = Cardinality(upto(p)) /\ rank[q] = Cardinality(upto(q))
      OBVIOUS
    <3>2. ~(p < q) /\ ~(q < p)
      BY <2>2, <3>1, <1>1, <1>3, <1>4
    <3>3. p \in Int /\ q \in Int
      OBVIOUS
    <3> QED
      BY <3>2, <3>3
  <2> HIDE DEF rank
  <2> QED
    BY <2>1, <2>2 DEF Injection, IsInjective
<1>6. rank \in Surjection(S, 1..c)
  BY <1>1, <1>2, <1>5, FS_Injection
<1>7. ASSUME NEW k \in 1..c PROVE \E p \in S : Cardinality(upto(p)) = k
  <2>1. PICK p \in S : rank[p] = k
    BY <1>6 DEF Surjection
  <2> QED
    BY <2>1
<1> DEFINE f == InOrder(S)
           nth(k) == CHOOSE p \in S : Cardinality(upto(p)) = k
<1>8. f = [k \in 1..c |-> nth(k)]
  BY DEF InOrder
<1>9. ASSUME NEW k \in 1..c PROVE nth(k) \in S /\ Cardinality(upto(nth(k))) = k
  BY <1>7
<1> HIDE DEF f, nth
<1>10. DOMAIN f = 1..c /\ f \in [1..c -> S]
  BY <1>8, <1>9
<1>11. ASSUME NEW k \in 1..c, NEW l \in 1..c, k < l PROVE f[k] < f[l]
  <2>1. f[k] \in S /\ f[l] \in S /\ f[k] \in Int /\ f[l] \in Int
    BY <1>10
  <2>2. Cardinality(upto(f[k])) = k /\ Cardinality(upto(f[l])) = l
    BY <1>8, <1>9
  <2>3. ~(f[l] < f[k])
    <3>1. k \in Int /\ l \in Int /\ ~(l < k)
      BY <1>11
    <3> QED
      BY <2>1, <2>2, <3>1, <1>4
  <2>4. f[l] # f[k]
    BY <2>2, <1>11
  <2> QED
    BY <2>1, <2>3, <2>4
<1>12. ASSUME NEW x \in S PROVE \E k \in DOMAIN f : f[k] = x
  <2> DEFINE k == Cardinality(upto(x))
  <2>1. k \in 1..c
    BY <1>3
  <2>2. f[k] \in S /\ Cardinality(upto(f[k])) = k
    BY <2>1, <1>8, <1>9
  <2>3. rank[f[k]] = rank[x]
    BY <2>2
  <2>4. f[k] = x
    BY <2>2, <2>3, <1>5 DEF Injection, IsInjective
  <2> QED
    BY <2>1, <2>4, <1>10
<1> QED
  BY <1>1, <1>10, <1>11, <1>12 DEF f

(* The same, of some positions of a list of n elements.                     *)
LEMMA InOrderSelects ==
    ASSUME NEW n \in Nat, NEW S, S \subseteq 1..n
    PROVE  /\ Cardinality(S) \in 0..n
           /\ DOMAIN InOrder(S) = 1..Cardinality(S)
           /\ InOrder(S) \in [1..Cardinality(S) -> S]
           /\ \A k, l \in DOMAIN InOrder(S) : InOrder(S)[k] = InOrder(S)[l] => k = l
<1>1. IsFiniteSet(1..n) /\ Cardinality(1..n) = n
  BY FS_Interval
<1>2. S \in SUBSET (1..n) /\ S \subseteq Int
  OBVIOUS
<1>3. IsFiniteSet(S) /\ Cardinality(S) <= n
  BY <1>1, <1>2, FS_Subset
<1>4. Cardinality(S) \in 0..n
  BY <1>3, FS_CardinalityType
<1> DEFINE f == InOrder(S)
           c == Cardinality(S)
<1>5. /\ c \in Nat /\ DOMAIN f = 1..c /\ f \in [1..c -> S]
      /\ \A k, l \in DOMAIN f : k < l => f[k] < f[l]
  BY <1>2, <1>3, InOrderEnumerates
<1> HIDE DEF f, c
<1>6. ASSUME NEW k \in 1..c, NEW l \in 1..c, f[k] = f[l] PROVE k = l
  <2>1. f[k] \in S /\ f[l] \in S
    BY <1>5
  <2>2. k \in Int /\ l \in Int /\ f[k] \in Int /\ f[l] \in Int
    <3>1. k \in Int /\ l \in Int
      BY <1>5
    <3>2. f[k] \in Int /\ f[l] \in Int
      BY <1>2, <2>1
    <3> QED
      BY <3>1, <3>2
  <2>3. ~(k < l) /\ ~(l < k)
    BY <1>5, <1>6, <2>2
  <2> QED
    BY <2>2, <2>3
<1> QED
  BY <1>4, <1>5, <1>6 DEF f, c

LEMMA InOrderPrefix ==
    ASSUME NEW m \in Nat
    PROVE  InOrder(1..m) = [k \in 1..m |-> k]
<1>1. Cardinality(1..m) = m
  BY FS_Interval
<1>2. ASSUME NEW k \in 1..m
      PROVE  (CHOOSE p \in 1..m : Cardinality({q \in 1..m : q <= p}) = k) = k
  <2>1. ASSUME NEW p \in 1..m PROVE Cardinality({q \in 1..m : q <= p}) = p
    <3>1. {q \in 1..m : q <= p} = 1..p
      OBVIOUS
    <3>2. Cardinality(1..p) = p
      BY FS_Interval
    <3> QED
      BY <3>1, <3>2
  <2> QED
    BY <2>1
<1> QED
  BY <1>1, <1>2 DEF InOrder

-------------------------------------------------------------------------------
(***************************************************************************)
(* Sequences of sequences, one after the other.                             *)
(***************************************************************************)
LEMMA Concatenated ==
    ASSUME NEW S, NEW a \in Seq(S), NEW b \in Seq(S)
    PROVE  /\ a \o b \in Seq(S)
           /\ Len(a) \in Nat /\ Len(b) \in Nat /\ Len(a \o b) = Len(a) + Len(b)
           /\ \A i \in 1..Len(a) : (a \o b)[i] = a[i]
           /\ \A i \in 1..Len(b) : (a \o b)[Len(a) + i] = b[i]
  OBVIOUS

(* The two halves of a list laid end to end, one at a time.                 *)
LEMMA Lengthened ==
    ASSUME NEW S, NEW a \in Seq(S), NEW b \in Seq(S)
    PROVE  a \o b \in Seq(S) /\ Len(a \o b) = Len(a) + Len(b)
  OBVIOUS

LEMMA LeftHalf ==
    ASSUME NEW S, NEW a \in Seq(S), NEW b \in Seq(S)
    PROVE  \A i \in 1..Len(a) : (a \o b)[i] = a[i]
  OBVIOUS

LEMMA RightHalf ==
    ASSUME NEW S, NEW a \in Seq(S), NEW b \in Seq(S)
    PROVE  \A i \in 1..Len(b) : (a \o b)[Len(a) + i] = b[i]
  OBVIOUS

(* The recursion of FlattenSeq.                                             *)
Grown(ss, n, g) == g = [i \in 1..n |-> IF i = 1 THEN ss[i] ELSE g[i - 1] \o ss[i]]

LEMMA GrownExists ==
    ASSUME NEW ss, NEW n \in Nat
    PROVE  \E g : Grown(ss, n, g)
<1> DEFINE Bad == {k \in Nat : ~ \E g : Grown(ss, k, g)}
<1>1. SUFFICES ASSUME Bad # {} PROVE FALSE
  OBVIOUS
<1>2. PICK k \in Bad : \A j \in Bad : k <= j
  <2>1. Bad \subseteq Nat
    OBVIOUS
  <2> HIDE DEF Bad
  <2> QED
    BY <1>1, <2>1, FirstExists
<1>3. k \in Nat /\ ~ \E g : Grown(ss, k, g)
  OBVIOUS
<1>4. CASE k = 0
  <2>1. Grown(ss, 0, <<>>)
    BY DEF Grown
  <2> QED
    BY <2>1, <1>3, <1>4
<1>5. CASE k # 0
  <2>1. k - 1 \in Nat /\ k - 1 \notin Bad
    <3>1. k - 1 \in Nat /\ ~(k <= k - 1)
      BY <1>3, <1>5
    <3> HIDE DEF Bad
    <3> QED
      BY <3>1, <1>2
  <2>2. PICK g : Grown(ss, k - 1, g)
    BY <2>1
  <2> DEFINE last == IF k = 1 THEN ss[k] ELSE g[k - 1] \o ss[k]
             h == [i \in 1..k |-> IF i = k THEN last ELSE g[i]]
  <2>3. g = [i \in 1..(k - 1) |-> IF i = 1 THEN ss[i] ELSE g[i - 1] \o ss[i]]
    BY <2>2 DEF Grown
  <2>4. ASSUME NEW i \in 1..k
        PROVE  h[i] = IF i = 1 THEN ss[i] ELSE h[i - 1] \o ss[i]
    <3>1. i \in Int /\ (i # 1 => i - 1 \in 1..k /\ i - 1 # k)
      BY <1>3
    <3>2. i # 1 => h[i - 1] = g[i - 1]
      BY <3>1
    <3>3. CASE i = k
      BY <3>2, <3>3
    <3>4. CASE i # k
      <4>1. i \in 1..(k - 1)
        BY <3>1, <3>4, <1>3
      <4>2. h[i] = g[i]
        BY <3>4
      <4>3. g[i] = IF i = 1 THEN ss[i] ELSE g[i - 1] \o ss[i]
        BY <4>1, <2>3
      <4> QED
        BY <4>2, <4>3, <3>2
    <3> QED
      BY <3>3, <3>4
  <2>5. Grown(ss, k, h)
    <3> DEFINE r == [i \in 1..k |-> IF i = 1 THEN ss[i] ELSE h[i - 1] \o ss[i]]
    <3>1. DOMAIN h = 1..k /\ DOMAIN r = 1..k
      OBVIOUS
    <3>2. \A i \in 1..k : r[i] = IF i = 1 THEN ss[i] ELSE h[i - 1] \o ss[i]
      OBVIOUS
    <3>3. \A i \in 1..k : h[i] = r[i]
      BY <2>4, <3>2
    <3>4. h = [i \in 1..k |-> h[i]]
      OBVIOUS
    <3>5. r = [i \in 1..k |-> r[i]]
      OBVIOUS
    <3> HIDE DEF h, r
    <3>6. h = r
      BY <3>1, <3>3, <3>4, <3>5
    <3> QED
      BY <3>6 DEF Grown, r
  <2> QED
    BY <2>5, <1>3
<1> QED
  BY <1>4, <1>5

LEMMA FlattenBySteps ==
    ASSUME NEW ss, Len(ss) \in Nat, Len(ss) > 0
    PROVE  \E fl : /\ fl[1] = ss[1]
                   /\ \A i \in 2..Len(ss) : fl[i] = fl[i - 1] \o ss[i]
                   /\ FlattenSeq(ss) = fl[Len(ss)]
<1> DEFINE n == Len(ss)
           fl == CHOOSE g : Grown(ss, n, g)
<1>1. Grown(ss, n, fl)
  BY GrownExists
<1>2. FlattenSeq(ss) = fl[n]
  BY DEF FlattenSeq, Grown
<1> HIDE DEF fl
<1>3. fl = [i \in 1..n |-> IF i = 1 THEN ss[i] ELSE fl[i - 1] \o ss[i]]
  BY <1>1 DEF Grown
<1>4. fl[1] = ss[1] /\ \A i \in 2..n : fl[i] = fl[i - 1] \o ss[i]
  <2>1. 1 \in 1..n /\ \A i \in 2..n : i \in 1..n /\ i # 1
    OBVIOUS
  <2> HIDE DEF n
  <2> QED
    BY <2>1, <1>3
<1> QED
  BY <1>2, <1>4

(* Lists of elements of S, laid end to end, make a list of elements of S.   *)
LEMMA FlattenType ==
    ASSUME NEW S, NEW ss \in Seq(Seq(S))
    PROVE  FlattenSeq(ss) \in Seq(S)
<1> DEFINE n == Len(ss)
<1>1. n \in Nat /\ \A i \in 1..n : ss[i] \in Seq(S)
  OBVIOUS
<1>2. CASE n = 0
  <2>1. FlattenSeq(ss) = ss /\ ss = <<>>
    BY <1>2 DEF FlattenSeq
  <2> QED
    BY <2>1
<1>3. CASE n # 0
  <2>1. n > 0
    BY <1>1, <1>3
  <2>2. PICK fl : /\ fl[1] = ss[1]
                  /\ \A i \in 2..n : fl[i] = fl[i - 1] \o ss[i]
                  /\ FlattenSeq(ss) = fl[n]
    BY <1>1, <2>1, FlattenBySteps
  <2> DEFINE Bad == {i \in 1..n : fl[i] \notin Seq(S)}
  <2>3. Bad = {}
    <3> SUFFICES ASSUME Bad # {} PROVE FALSE
      OBVIOUS
    <3>1. Bad \subseteq Nat
      BY <1>1
    <3>2. PICK i \in Bad : \A j \in Bad : i <= j
      <4> HIDE DEF Bad
      <4> QED
        BY <3>1, FirstExists
    <3>3. i \in 1..n /\ fl[i] \notin Seq(S)
      OBVIOUS
    <3>4. CASE i = 1
      BY <1>1, <2>2, <3>3, <3>4
    <3>5. CASE i # 1
      <4>1. i \in 2..n /\ i - 1 \in 1..n /\ ~(i <= i - 1)
        BY <1>1, <3>3, <3>5
      <4>2. fl[i - 1] \in Seq(S)
        BY <3>2, <4>1
      <4>3. fl[i] = fl[i - 1] \o ss[i]
        BY <2>2, <4>1
      <4> QED
        BY <1>1, <3>3, <4>2, <4>3, Concatenated
    <3> QED
      BY <3>4, <3>5
  <2>4. n \in 1..n
    BY <1>1, <2>1
  <2> QED
    BY <2>2, <2>3, <2>4
<1> QED
  BY <1>2, <1>3
===============================================================================
