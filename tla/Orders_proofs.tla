---------------------------- MODULE Orders_proofs ----------------------------
(***************************************************************************)
(* Induction over the natural numbers, and what a ranking is: the only     *)
(* sequence that has every element of the set and respects the order.      *)
(***************************************************************************)
EXTENDS Orders, FiniteSetTheorems, FunctionTheorems, SequenceTheorems, TLAPS

(***************************************************************************)
(* Every nonempty set of natural numbers has a least element ...           *)
(***************************************************************************)
LEMMA LeastNatural ==
    ASSUME NEW U, U \subseteq Nat, U # {}
    PROVE  \E x \in U : \A y \in U : x <= y
<1> DEFINE R == OpToRel(<, Nat)
<1>1. IsWellFoundedOn(R, Nat)
  BY NatLessThanWellFounded
<1>2. \A x, y \in Nat : <<x, y>> \in R <=> x < y
  BY DEF OpToRel
<1> HIDE DEF R
<1>3. PICK x \in U : \A y \in U : ~ (<<y, x>> \in R)
  BY <1>1, WFMin
<1>4. \A y \in U : x \in Nat /\ y \in Nat /\ ~ (y < x)
  BY <1>2, <1>3
<1> QED BY <1>4

(***************************************************************************)
(* ... and so a set that has 0 and with n also n + 1 has them all.         *)
(***************************************************************************)
LEMMA Induction ==
    ASSUME NEW P, 0 \in P, \A n \in Nat : n \in P => n + 1 \in P
    PROVE  \A n \in Nat : n \in P
<1> DEFINE U == {n \in Nat : n \notin P}
<1> SUFFICES ASSUME U # {} PROVE FALSE
  OBVIOUS
<1>1. PICK m \in U : \A y \in U : m <= y
  BY LeastNatural, U \subseteq Nat
<1>2. m \in Nat \ {0}
  BY <1>1
<1>3. m - 1 \in Nat /\ ~ (m <= m - 1)
  BY <1>2
<1>4. m - 1 \in P
  BY <1>1, <1>3
<1>5. (m - 1) + 1 = m
  BY <1>2
<1> QED BY <1>1, <1>3, <1>4, <1>5

(***************************************************************************)
(* Counting what precedes an element numbers the elements from 0.          *)
(***************************************************************************)
LEMMA RanksNumberTheSet ==
    ASSUME NEW S, IsFiniteSet(S), NEW order, IsStrictTotalOrder(S, order)
    PROVE  /\ \A x \in S : Rank(S, order, x) \in 0 .. (Cardinality(S) - 1)
           /\ \A x, y \in S : Rank(S, order, x) < Rank(S, order, y) <=> <<x, y>> \in order
           /\ \A x, y \in S : Rank(S, order, x) = Rank(S, order, y) => x = y
           /\ \A n \in 0 .. (Cardinality(S) - 1) : \E x \in S : Rank(S, order, x) = n
<1> DEFINE Below(x) == {y \in S : <<y, x>> \in order}
           rank     == [x \in S |-> Rank(S, order, x)]
<1>1. \A x \in S : rank[x] = Cardinality(Below(x))
  BY DEF Rank
<1> HIDE DEF rank
<1>2. Cardinality(S) \in Nat
  BY FS_CardinalityType
<1>3. ASSUME NEW x \in S
      PROVE  rank[x] \in 0 .. (Cardinality(S) - 1)
  <2>1. x \notin Below(x)
    BY DEF IsStrictTotalOrder
  <2>2. Below(x) \in SUBSET (S \ {x})
    BY <2>1
  <2>3. IsFiniteSet(S \ {x}) /\ Cardinality(S \ {x}) = Cardinality(S) - 1
    BY FS_RemoveElement
  <2>4. IsFiniteSet(Below(x)) /\ Cardinality(Below(x)) <= Cardinality(S \ {x})
    BY <2>2, <2>3, FS_Subset
  <2>5. Cardinality(Below(x)) \in Nat
    BY <2>4, FS_CardinalityType
  <2> QED BY <1>1, <1>2, <2>3, <2>4, <2>5
<1>4. ASSUME NEW x \in S, NEW y \in S, <<x, y>> \in order
      PROVE  rank[x] < rank[y]
  <2>1. x \notin Below(x) /\ Below(x) \cup {x} \in SUBSET Below(y)
    BY <1>4 DEF IsStrictTotalOrder
  <2>2. IsFiniteSet(Below(x)) /\ IsFiniteSet(Below(y))
    BY FS_Subset
  <2>3. Cardinality(Below(x) \cup {x}) = Cardinality(Below(x)) + 1
    BY <2>1, <2>2, FS_AddElement
  <2>4. Cardinality(Below(x) \cup {x}) <= Cardinality(Below(y))
    BY <2>1, <2>2, FS_Subset
  <2>5. Cardinality(Below(x)) \in Nat /\ Cardinality(Below(y)) \in Nat
    BY <2>2, FS_CardinalityType
  <2> QED BY <1>1, <2>3, <2>4, <2>5
<1>5. rank \in [S -> 0 .. (Cardinality(S) - 1)]
  BY <1>3 DEF rank
<1>6. \A x \in S : rank[x] \in Int
  BY <1>3
<1>7. ASSUME NEW x \in S, NEW y \in S, rank[x] < rank[y]
      PROVE  <<x, y>> \in order
  <2>1. x # y
    BY <1>6, <1>7
  <2>2. ~ (<<y, x>> \in order)
    BY <1>4, <1>6, <1>7
  <2> QED BY <2>1, <2>2 DEF IsStrictTotalOrder
<1>8. ASSUME NEW x \in S, NEW y \in S, rank[x] = rank[y]
      PROVE  x = y
  <2>1. ~ (<<x, y>> \in order) /\ ~ (<<y, x>> \in order)
    BY <1>4, <1>6, <1>8
  <2> QED BY <2>1 DEF IsStrictTotalOrder
<1>9. rank \in Injection(S, 0 .. (Cardinality(S) - 1))
  BY <1>5, <1>8, Fun_IsInj
<1>10. /\ IsFiniteSet(0 .. (Cardinality(S) - 1))
       /\ Cardinality(0 .. (Cardinality(S) - 1)) = Cardinality(S)
  <2>1. 0 \in Int /\ Cardinality(S) - 1 \in Int
    BY <1>2
  <2>2. Cardinality(0 .. (Cardinality(S) - 1))
          = IF 0 > Cardinality(S) - 1 THEN 0 ELSE Cardinality(S) - 1 - 0 + 1
    BY <2>1, FS_Interval
  <2>3. IsFiniteSet(0 .. (Cardinality(S) - 1))
    BY <2>1, FS_Interval
  <2> QED BY <1>2, <2>2, <2>3
<1>11. rank \in Surjection(S, 0 .. (Cardinality(S) - 1))
  BY <1>9, <1>10, FS_Injection
<1>12. \A n \in 0 .. (Cardinality(S) - 1) : \E x \in S : rank[x] = n
  BY <1>11 DEF Surjection
<1>13. \A x, y \in S : rank[x] < rank[y] <=> <<x, y>> \in order
  BY <1>4, <1>7
<1>14. \A x, y \in S : rank[x] = rank[y] => x = y
  BY <1>8
<1>15. \A x \in S : rank[x] = Rank(S, order, x)
  BY DEF rank
<1> QED BY <1>3, <1>12, <1>13, <1>14, <1>15

(***************************************************************************)
(* A ranking has every element of the set once, and respects the order.    *)
(***************************************************************************)
LEMMA RankingFacts ==
    ASSUME NEW S, IsFiniteSet(S), NEW order, IsStrictTotalOrder(S, order)
    PROVE  /\ Cardinality(S) \in Nat
           /\ Len(Ranking(S, order)) = Cardinality(S)
           /\ Enumerates(Ranking(S, order), S, order)
<1> DEFINE size    == Cardinality(S)
           rank(x) == Rank(S, order, x)
           f       == Ranking(S, order)
<1>1. /\ \A x \in S : rank(x) \in 0 .. (size - 1)
      /\ \A x, y \in S : rank(x) < rank(y) <=> <<x, y>> \in order
      /\ \A x, y \in S : rank(x) = rank(y) => x = y
      /\ \A n \in 0 .. (size - 1) : \E x \in S : rank(x) = n
  BY RanksNumberTheSet
<1>2. size \in Nat
  BY FS_CardinalityType
<1>3. f = [n \in 1 .. size |-> CHOOSE x \in S : rank(x) = n - 1]
  BY DEF Ranking
<1> HIDE DEF rank, f, size
<1>4. ASSUME NEW n \in 1 .. size
      PROVE  f[n] \in S /\ rank(f[n]) = n - 1
  <2>1. n - 1 \in 0 .. (size - 1)
    BY <1>2
  <2>2. \E x \in S : rank(x) = n - 1
    BY <1>1, <2>1
  <2>3. f[n] = CHOOSE x \in S : rank(x) = n - 1
    BY <1>3
  <2> QED BY <2>2, <2>3
<1>5. f \in [1 .. size -> S]
  BY <1>3, <1>4
<1>6. f \in Seq(S) /\ Len(f) = size
  BY <1>2, <1>5
<1>7. ASSUME NEW x \in S
      PROVE  \E n \in 1 .. size : f[n] = x
  <2>1. rank(x) \in 0 .. (size - 1)
    BY <1>1
  <2>2. rank(x) + 1 \in 1 .. size /\ (rank(x) + 1) - 1 = rank(x)
    BY <1>2, <2>1
  <2>3. f[rank(x) + 1] = x
    BY <1>1, <1>4, <2>2
  <2> QED BY <2>2, <2>3
<1>8. ASSUME NEW m \in 1 .. size, NEW n \in 1 .. size
      PROVE  m < n <=> <<f[m], f[n]>> \in order
  <2>1. rank(f[m]) = m - 1 /\ rank(f[n]) = n - 1 /\ f[m] \in S /\ f[n] \in S
    BY <1>4
  <2>2. m < n <=> m - 1 < n - 1
    OBVIOUS
  <2> QED BY <1>1, <2>1, <2>2
<1>9. Enumerates(f, S, order)
  BY <1>6, <1>7, <1>8 DEF Enumerates
<1> QED BY <1>2, <1>6, <1>9 DEF f, size

(***************************************************************************)
(* The order of the elements is that of their places.                      *)
(***************************************************************************)
LEMMA EnumerationFacts ==
    ASSUME NEW S, NEW order, IsStrictTotalOrder(S, order),
           NEW f, Enumerates(f, S, order)
    PROVE  /\ Len(f) \in Nat
           /\ f \in [1 .. Len(f) -> S]
           /\ \A x \in S : \E n \in 1 .. Len(f) : f[n] = x
           /\ \A a, b \in 1 .. Len(f) : a < b <=> <<f[a], f[b]>> \in order
<1>1. /\ Len(f) \in Nat
      /\ f \in [1 .. Len(f) -> S]
      /\ \A x \in S : \E n \in 1 .. Len(f) : f[n] = x
      /\ \A a, b \in 1 .. Len(f) : a < b => <<f[a], f[b]>> \in order
  BY DEF Enumerates
<1>2. ASSUME NEW a \in 1 .. Len(f), NEW b \in 1 .. Len(f), <<f[a], f[b]>> \in order
      PROVE  a < b
  <2>1. f[a] \in S /\ f[b] \in S
    BY <1>1
  <2>2. a # b
    BY <1>2, <2>1 DEF IsStrictTotalOrder
  <2>3. ~ (<<f[b], f[a]>> \in order)
    BY <1>2, <2>1 DEF IsStrictTotalOrder
  <2>4. ~ (b < a)
    BY <1>1, <2>3
  <2> QED BY <1>1, <2>2, <2>4
<1> QED BY <1>1, <1>2

(***************************************************************************)
(* A sequence that has every element and respects the order is the         *)
(* ranking.                                                                *)
(***************************************************************************)
THEOREM RankingIsUnique ==
    ASSUME NEW S, IsFiniteSet(S), NEW order, IsStrictTotalOrder(S, order),
           NEW f, Enumerates(f, S, order)
    PROVE  Len(f) = Cardinality(S) /\ f = Ranking(S, order)
<1> DEFINE below(x) == {y \in S : <<y, x>> \in order}
           m        == Len(f)
<1>0. /\ m \in Nat /\ f \in [1 .. m -> S]
      /\ \A x \in S : \E n \in 1 .. m : f[n] = x
      /\ \A a, b \in 1 .. m : a < b => <<f[a], f[b]>> \in order
  BY DEF Enumerates
<1> HIDE DEF m
<1>1. \A x, y \in S : Rank(S, order, x) = Rank(S, order, y) => x = y
  BY RanksNumberTheSet
<1>2. ASSUME NEW a \in 1 .. m, NEW b \in 1 .. m, f[a] = f[b]
      PROVE  a = b
  <2>1. ~ (a < b) /\ ~ (b < a)
    BY <1>0, <1>2 DEF IsStrictTotalOrder
  <2> QED BY <2>1
<1>3. f \in Bijection(1 .. m, S)
  BY <1>0, <1>2, Fun_IsBij
<1>4. Cardinality(S) = m
  BY <1>0, <1>3, FS_CountingElements, Fun_ExistsBij
<1>5. ASSUME NEW n \in 1 .. m
      PROVE  Cardinality(below(f[n])) = n - 1
  <2>1. ASSUME NEW k \in 1 .. (n - 1)
        PROVE  f[k] \in below(f[n])
    BY <1>0
  <2>2. ASSUME NEW y \in below(f[n])
        PROVE  \E k \in 1 .. (n - 1) : f[k] = y
    <3>1. PICK k \in 1 .. m : f[k] = y
      BY <1>0
    <3>2. k # n
      BY <3>1 DEF IsStrictTotalOrder
    <3>3. ~ (n < k)
      <4> SUFFICES ASSUME n < k PROVE FALSE
        OBVIOUS
      <4>1. <<f[n], f[k]>> \in order /\ <<f[k], f[n]>> \in order
        BY <1>0, <3>1
      <4>2. <<f[n], f[n]>> \in order
        BY <1>0, <4>1 DEF IsStrictTotalOrder
      <4> QED BY <1>0, <4>2 DEF IsStrictTotalOrder
    <3>4. k \in 1 .. (n - 1)
      BY <1>0, <3>2, <3>3
    <3> QED BY <3>1, <3>4
  <2> DEFINE g == [k \in 1 .. (n - 1) |-> f[k]]
  <2>3. g \in [1 .. (n - 1) -> below(f[n])]
    BY <2>1
  <2>4. \A a, b \in 1 .. (n - 1) : g[a] = g[b] => a = b
    BY <1>0, <1>2
  <2>5. \A y \in below(f[n]) : \E k \in 1 .. (n - 1) : g[k] = y
    BY <2>2
  <2> HIDE DEF g
  <2>6. g \in Bijection(1 .. (n - 1), below(f[n]))
    BY <2>3, <2>4, <2>5, Fun_IsBij
  <2>7. n - 1 \in Nat
    BY <1>0
  <2> QED BY <2>6, <2>7, FS_CountingElements, Fun_ExistsBij
<1>6. Ranking(S, order) = [n \in 1 .. m |-> CHOOSE x \in S : Rank(S, order, x) = n - 1]
  BY <1>4 DEF Ranking
<1>7. ASSUME NEW n \in 1 .. m
      PROVE  f[n] = CHOOSE x \in S : Rank(S, order, x) = n - 1
  <2>1. f[n] \in S /\ Rank(S, order, f[n]) = n - 1
    BY <1>0, <1>5 DEF Rank
  <2>2. \A x \in S : Rank(S, order, x) = n - 1 => x = f[n]
    BY <1>1, <2>1
  <2> QED BY <2>1, <2>2
<1> QED BY <1>0, <1>4, <1>6, <1>7 DEF m

(***************************************************************************)
(* A map between two sets that respects their orders carries one ranking   *)
(* to the other.                                                           *)
(***************************************************************************)
LEMMA RankingOfImage ==
    ASSUME NEW S, IsFiniteSet(S), NEW order, IsStrictTotalOrder(S, order),
           NEW T, IsFiniteSet(T), NEW other, IsStrictTotalOrder(T, other),
           NEW h \in [S -> T], \A y \in T : \E x \in S : h[x] = y,
           \A x, y \in S : <<x, y>> \in order => <<h[x], h[y]>> \in other
    PROVE  /\ Cardinality(T) = Cardinality(S)
           /\ Ranking(T, other) = [n \in 1 .. Cardinality(S) |-> h[Ranking(S, order)[n]]]
<1> DEFINE m == Cardinality(S)
           r == Ranking(S, order)
           f == [n \in 1 .. m |-> h[r[n]]]
<1>0. m \in Nat /\ Len(r) = m /\ Enumerates(r, S, order)
  BY RankingFacts
<1> HIDE DEF m, r
<1>1. /\ m \in Nat
      /\ r \in [1 .. m -> S]
      /\ \A x \in S : \E n \in 1 .. m : r[n] = x
      /\ \A a, b \in 1 .. m : a < b <=> <<r[a], r[b]>> \in order
  BY <1>0, EnumerationFacts
<1>2. f \in [1 .. m -> T]
  BY <1>1
<1>3. \A y \in T : \E n \in 1 .. m : f[n] = y
  BY <1>1
<1>4. \A a, b \in 1 .. m : a < b => <<f[a], f[b]>> \in other
  BY <1>1
<1> HIDE DEF f
<1>5. f \in Seq(T) /\ Len(f) = m
  BY <1>1, <1>2
<1>6. Enumerates(f, T, other)
  BY <1>3, <1>4, <1>5 DEF Enumerates
<1>7. Cardinality(T) = m /\ f = Ranking(T, other)
  BY <1>5, <1>6, RankingIsUnique
<1> QED BY <1>7 DEF f, m, r

(***************************************************************************)
(* Where all of S comes before all of T, the ranking of both is the one    *)
(* ranking followed by the other.                                          *)
(***************************************************************************)
LEMMA RankingOfUnion ==
    ASSUME NEW U, IsFiniteSet(U), NEW order, IsStrictTotalOrder(U, order),
           NEW S, NEW T, IsCut(U, S, T, order)
    PROVE  /\ Cardinality(U) = Cardinality(S) + Cardinality(T)
           /\ Ranking(U, order) = Ranking(S, order) \o Ranking(T, order)
<1> DEFINE m == Cardinality(S)
           n == Cardinality(T)
           r == Ranking(S, order)
           q == Ranking(T, order)
           f == r \o q
<1>1. S \in SUBSET U /\ T \in SUBSET U /\ U = S \cup T
  BY DEF IsCut
<1>2. /\ IsFiniteSet(S) /\ IsFiniteSet(T)
      /\ IsStrictTotalOrder(S, order) /\ IsStrictTotalOrder(T, order)
  BY <1>1, FS_Subset DEF IsStrictTotalOrder
<1>3. /\ m \in Nat /\ Len(r) = m /\ Enumerates(r, S, order)
      /\ n \in Nat /\ Len(q) = n /\ Enumerates(q, T, order)
  BY <1>2, RankingFacts
<1> HIDE DEF m, n, r, q
<1>4. /\ r \in [1 .. m -> S] /\ r \in Seq(S)
      /\ \A x \in S : \E a \in 1 .. m : r[a] = x
      /\ \A a, b \in 1 .. m : a < b => <<r[a], r[b]>> \in order
  BY <1>3 DEF Enumerates
<1>5. /\ q \in [1 .. n -> T] /\ q \in Seq(T)
      /\ \A x \in T : \E a \in 1 .. n : q[a] = x
      /\ \A a, b \in 1 .. n : a < b => <<q[a], q[b]>> \in order
  BY <1>3 DEF Enumerates
<1>6. r \in Seq(U) /\ q \in Seq(U)
  BY <1>1, <1>4, <1>5
<1>7. /\ f \in Seq(U)
      /\ Len(f) = Len(r) + Len(q)
      /\ \A a \in 1 .. (Len(r) + Len(q)) :
            f[a] = IF a <= Len(r) THEN r[a] ELSE q[a - Len(r)]
  BY <1>6, ConcatProperties
<1> HIDE DEF f
<1>8. /\ Len(f) = m + n
      /\ \A a \in 1 .. m : f[a] = r[a]
      /\ \A a \in (m + 1) .. (m + n) : f[a] = q[a - m]
  BY <1>3, <1>7
<1>9. ASSUME NEW x \in U
      PROVE  \E a \in 1 .. (m + n) : f[a] = x
  <2>1. CASE x \in S
    <3>1. PICK a \in 1 .. m : r[a] = x
      BY <1>4, <2>1
    <3>2. a \in 1 .. (m + n)
      BY <1>3
    <3> QED BY <1>8, <3>1, <3>2
  <2>2. CASE x \in T
    <3>1. PICK a \in 1 .. n : q[a] = x
      BY <1>5, <2>2
    <3>2. m + a \in (m + 1) .. (m + n) /\ m + a \in 1 .. (m + n) /\ (m + a) - m = a
      BY <1>3
    <3> QED BY <1>8, <3>1, <3>2
  <2> QED BY <1>1, <2>1, <2>2
<1>10. ASSUME NEW a \in 1 .. (m + n), NEW b \in 1 .. (m + n), a < b
       PROVE  <<f[a], f[b]>> \in order
  <2>1. CASE b <= m
    <3>1. a \in 1 .. m /\ b \in 1 .. m
      BY <1>3, <1>10, <2>1
    <3> QED BY <1>4, <1>8, <1>10, <3>1
  <2>2. CASE a <= m /\ m < b
    <3>1. a \in 1 .. m /\ b \in (m + 1) .. (m + n) /\ b - m \in 1 .. n
      BY <1>3, <2>2
    <3>2. f[a] \in S /\ f[b] \in T
      BY <1>4, <1>5, <1>8, <3>1
    <3> QED BY <3>2 DEF IsCut
  <2>3. CASE m < a
    <3>1. /\ a \in (m + 1) .. (m + n) /\ b \in (m + 1) .. (m + n)
          /\ a - m \in 1 .. n /\ b - m \in 1 .. n /\ a - m < b - m
      BY <1>3, <1>10, <2>3
    <3> QED BY <1>5, <1>8, <3>1
  <2> QED BY <1>3, <1>10, <2>1, <2>2, <2>3
<1>11. Enumerates(f, U, order)
  BY <1>7, <1>8, <1>9, <1>10 DEF Enumerates
<1>12. Cardinality(U) = m + n /\ f = Ranking(U, order)
  BY <1>8, <1>11, RankingIsUnique
<1> QED BY <1>12 DEF f, m, n, r, q

(***************************************************************************)
(* The order of the integers, and of pairs of them.                        *)
(***************************************************************************)
LEMMA LessThanIsTotal ==
    ASSUME NEW S, S \subseteq Int
    PROVE  /\ IsStrictTotalOrder(S, LessThan)
           /\ \A x, y \in S : <<x, y>> \in LessThan <=> x < y
<1>1. \A x, y \in S : <<x, y>> \in LessThan <=> x < y
  BY DEF LessThan
<1>2. \A x \in S : x \in Int
  OBVIOUS
<1> QED BY <1>1, <1>2 DEF IsStrictTotalOrder

LEMMA LexicalOrderIsTotal ==
    ASSUME NEW S, S \subseteq Int \X Int
    PROVE  /\ IsStrictTotalOrder(S, LexicalOrder)
           /\ \A x, y \in S : <<x, y>> \in LexicalOrder <=> PairBefore(x, y)
<1>1. \A x, y \in S : <<x, y>> \in LexicalOrder <=> PairBefore(x, y)
  BY DEF LexicalOrder
<1>2. \A x \in S : x[1] \in Int /\ x[2] \in Int /\ x = <<x[1], x[2]>>
  OBVIOUS
<1>3. \A x \in S : ~ PairBefore(x, x)
  BY <1>2 DEF PairBefore
<1>4. \A x, y, z \in S : PairBefore(x, y) /\ PairBefore(y, z) => PairBefore(x, z)
  BY <1>2 DEF PairBefore
<1>5. \A x, y \in S : x = y \/ PairBefore(x, y) \/ PairBefore(y, x)
  <2> SUFFICES ASSUME NEW x \in S, NEW y \in S, ~ PairBefore(x, y), ~ PairBefore(y, x)
               PROVE  x = y
    OBVIOUS
  <2>1. x[1] = y[1] /\ x[2] = y[2]
    BY <1>2 DEF PairBefore
  <2> QED BY <1>2, <2>1
<1> QED BY <1>1, <1>3, <1>4, <1>5 DEF IsStrictTotalOrder

(***************************************************************************)
(* A set of integers in ascending order.                                   *)
(***************************************************************************)
LEMMA AscendingFacts ==
    ASSUME NEW S \in SUBSET Int, IsFiniteSet(S)
    PROVE  /\ Cardinality(S) \in Nat
           /\ Len(Ascending(S)) = Cardinality(S)
           /\ Enumerates(Ascending(S), S, LessThan)
<1>1. IsStrictTotalOrder(S, LessThan)
  BY LessThanIsTotal
<1> QED BY <1>1, RankingFacts DEF Ascending

LEMMA AscendingIsUnique ==
    ASSUME NEW S \in SUBSET Int, IsFiniteSet(S), NEW f, Enumerates(f, S, LessThan)
    PROVE  Len(f) = Cardinality(S) /\ f = Ascending(S)
<1>1. IsStrictTotalOrder(S, LessThan)
  BY LessThanIsTotal
<1> QED BY <1>1, RankingIsUnique DEF Ascending

LEMMA AscendingOrder ==
    ASSUME NEW S \in SUBSET Int, NEW f, Enumerates(f, S, LessThan)
    PROVE  /\ Len(f) \in Nat
           /\ f \in [1 .. Len(f) -> S]
           /\ \A x \in S : \E n \in 1 .. Len(f) : f[n] = x
           /\ \A a, b \in 1 .. Len(f) : a < b <=> f[a] < f[b]
<1>1. /\ IsStrictTotalOrder(S, LessThan)
      /\ \A x, y \in S : <<x, y>> \in LessThan <=> x < y
  BY LessThanIsTotal
<1>2. /\ Len(f) \in Nat
      /\ f \in [1 .. Len(f) -> S]
      /\ \A x \in S : \E n \in 1 .. Len(f) : f[n] = x
      /\ \A a, b \in 1 .. Len(f) : a < b <=> <<f[a], f[b]>> \in LessThan
  BY <1>1, EnumerationFacts
<1> QED BY <1>1, <1>2

LEMMA AscendingOfUnion ==
    ASSUME NEW U \in SUBSET Int, IsFiniteSet(U), NEW S, NEW T, IsCut(U, S, T, LessThan)
    PROVE  /\ Cardinality(U) = Cardinality(S) + Cardinality(T)
           /\ Ascending(U) = Ascending(S) \o Ascending(T)
<1>1. IsStrictTotalOrder(U, LessThan)
  BY LessThanIsTotal
<1> QED BY <1>1, RankingOfUnion DEF Ascending

LEMMA AscendingInterval ==
    ASSUME NEW n \in Nat
    PROVE  Cardinality(1 .. n) = n /\ Ascending(1 .. n) = [k \in 1 .. n |-> k]
<1> DEFINE f == [k \in 1 .. n |-> k]
           S == 1 .. n
<1>1. IsFiniteSet(S) /\ S \in SUBSET Int
  BY FS_Interval
<1>2. f \in Seq(S) /\ Len(f) = n
  OBVIOUS
<1>3. Enumerates(f, S, LessThan)
  BY <1>2 DEF Enumerates, LessThan
<1> HIDE DEF f, S
<1>4. Len(f) = Cardinality(S) /\ f = Ascending(S)
  BY <1>1, <1>3, AscendingIsUnique
<1> QED BY <1>2, <1>4 DEF f, S

(***************************************************************************)
(* The elements of a sequence at the places in a set.                      *)
(***************************************************************************)
LEMMA PlacesFacts ==
    ASSUME NEW n \in Nat, NEW S \in SUBSET (1 .. n)
    PROVE  /\ IsFiniteSet(S)
           /\ S \in SUBSET Int
           /\ Cardinality(S) \in Nat
           /\ Len(Ascending(S)) = Cardinality(S)
           /\ Enumerates(Ascending(S), S, LessThan)
<1>1. IsFiniteSet(1 .. n) /\ S \in SUBSET Int
  BY FS_Interval
<1>2. IsFiniteSet(S)
  BY <1>1, FS_Subset
<1> QED BY <1>1, <1>2, AscendingFacts

LEMMA PlacesInOrder ==
    ASSUME NEW n \in Nat, NEW S \in SUBSET (1 .. n)
    PROVE  /\ Len(Ascending(S)) \in Nat
           /\ Ascending(S) \in [1 .. Len(Ascending(S)) -> S]
           /\ \A x \in S : \E k \in 1 .. Len(Ascending(S)) : Ascending(S)[k] = x
           /\ \A a, b \in 1 .. Len(Ascending(S)) :
                 a < b <=> Ascending(S)[a] < Ascending(S)[b]
<1>1. S \in SUBSET Int /\ Enumerates(Ascending(S), S, LessThan)
  BY PlacesFacts
<1> QED
  BY <1>1, AscendingOrder

LEMMA PickedFacts ==
    ASSUME NEW T, NEW seq \in Seq(T), NEW S \in SUBSET (1 .. Len(seq))
    PROVE  /\ Cardinality(S) \in Nat
           /\ Picked(seq, S) \in Seq(T)
           /\ Len(Picked(seq, S)) = Cardinality(S)
           /\ Ascending(S) \in [1 .. Cardinality(S) -> S]
           /\ \A n \in 1 .. Cardinality(S) : Picked(seq, S)[n] = seq[Ascending(S)[n]]
           /\ \A x \in S : \E n \in 1 .. Cardinality(S) : Ascending(S)[n] = x
           /\ \A a, b \in 1 .. Cardinality(S) :
                 a < b <=> Ascending(S)[a] < Ascending(S)[b]
<1> DEFINE m == Cardinality(S)
           f == Ascending(S)
<1>0. Len(seq) \in Nat
  OBVIOUS
<1>1. /\ S \in SUBSET Int /\ m \in Nat
      /\ Len(f) = m /\ Enumerates(f, S, LessThan)
  BY <1>0, PlacesFacts
<1>2. Picked(seq, S) = [n \in 1 .. m |-> seq[f[n]]]
  BY DEF Picked
<1> HIDE DEF m, f
<1>3. /\ f \in [1 .. m -> S]
      /\ \A x \in S : \E n \in 1 .. m : f[n] = x
      /\ \A a, b \in 1 .. m : a < b <=> f[a] < f[b]
  BY <1>1, AscendingOrder
<1>4. ASSUME NEW n \in 1 .. m PROVE seq[f[n]] \in T
  <2>1. f[n] \in 1 .. Len(seq)
    BY <1>3
  <2> QED BY <2>1
<1>5. Picked(seq, S) \in Seq(T) /\ Len(Picked(seq, S)) = m
  BY <1>1, <1>2, <1>4
<1> QED BY <1>1, <1>2, <1>3, <1>5 DEF m, f

LEMMA PickedOfUnion ==
    ASSUME NEW T, NEW seq \in Seq(T), NEW V \in SUBSET (1 .. Len(seq)),
           NEW S, NEW U, IsCut(V, S, U, LessThan)
    PROVE  Picked(seq, V) = Picked(seq, S) \o Picked(seq, U)
<1> DEFINE m  == Cardinality(S)
           n  == Cardinality(U)
           f  == Ascending(S)
           g  == Ascending(U)
           fg == Ascending(V)
<1>1. /\ Len(seq) \in Nat
      /\ S \in SUBSET (1 .. Len(seq)) /\ U \in SUBSET (1 .. Len(seq))
      /\ S \in SUBSET V /\ U \in SUBSET V
  BY DEF IsCut
<1>2. /\ m \in Nat /\ Len(f) = m /\ Enumerates(f, S, LessThan)
      /\ n \in Nat /\ Len(g) = n /\ Enumerates(g, U, LessThan)
  BY <1>1, PlacesFacts
<1>3. Cardinality(V) = m + n /\ fg = f \o g
  <2>1. V \in SUBSET Int /\ IsFiniteSet(V)
    BY <1>1, PlacesFacts
  <2> QED BY <2>1, AscendingOfUnion
<1>4. /\ Picked(seq, S) = [k \in 1 .. m |-> seq[f[k]]]
      /\ Picked(seq, U) = [k \in 1 .. n |-> seq[g[k]]]
      /\ Picked(seq, V) = [k \in 1 .. (m + n) |-> seq[fg[k]]]
  BY <1>3 DEF Picked
<1>5. /\ Picked(seq, S) \in Seq(T) /\ Len(Picked(seq, S)) = m
      /\ Picked(seq, U) \in Seq(T) /\ Len(Picked(seq, U)) = n
  BY <1>1, PickedFacts
<1> HIDE DEF m, n, f, g, fg
<1>6. f \in Seq(V) /\ g \in Seq(V)
  <2>1. f \in Seq(S) /\ g \in Seq(U)
    BY <1>2 DEF Enumerates
  <2> QED BY <1>1, <2>1, SeqMonotonic
<1>7. \A k \in 1 .. (m + n) : fg[k] = IF k <= m THEN f[k] ELSE g[k - m]
  BY <1>2, <1>3, <1>6, ConcatProperties
<1> DEFINE both == Picked(seq, S) \o Picked(seq, U)
<1>8. /\ both \in Seq(T)
      /\ Len(both) = m + n
      /\ \A k \in 1 .. (m + n) :
            both[k] = IF k <= m THEN Picked(seq, S)[k] ELSE Picked(seq, U)[k - m]
  BY <1>5, ConcatProperties
<1> HIDE DEF both
<1>9. /\ \A k \in 1 .. m : Picked(seq, S)[k] = seq[f[k]]
      /\ \A k \in 1 .. n : Picked(seq, U)[k] = seq[g[k]]
  BY <1>4
<1>10. ASSUME NEW k \in 1 .. (m + n)
       PROVE  both[k] = seq[fg[k]]
  <2>1. CASE k <= m
    <3>1. k \in 1 .. m
      BY <1>2, <2>1
    <3>2. both[k] = Picked(seq, S)[k] /\ fg[k] = f[k]
      BY <1>7, <1>8, <2>1
    <3> QED BY <1>9, <3>1, <3>2
  <2>2. CASE ~ (k <= m)
    <3>1. k - m \in 1 .. n
      BY <1>2, <2>2
    <3>2. both[k] = Picked(seq, U)[k - m] /\ fg[k] = g[k - m]
      BY <1>7, <1>8, <2>2
    <3> QED BY <1>9, <3>1, <3>2
  <2> QED BY <2>1, <2>2
<1>11. both = [k \in 1 .. (m + n) |-> seq[fg[k]]]
  <2>1. both \in [1 .. (m + n) -> T]
    BY <1>8, LenProperties
  <2> QED BY <1>10, <2>1
<1> QED BY <1>4, <1>11 DEF both

(* The k-th element in ascending order is the k-th by count.               *)
LEMMA PlaceCounts ==
    ASSUME NEW n \in Nat, NEW S \in SUBSET (1 .. n), NEW k \in 1 .. Cardinality(S)
    PROVE  Cardinality({y \in S : y <= Ascending(S)[k]}) = k
<1> DEFINE x  == Ascending(S)[k]
           lo == {y \in S : y <= x}
           hi == {y \in S : ~ (y <= x)}
           c  == Cardinality(lo)
<1>1. /\ IsFiniteSet(S) /\ S \in SUBSET Int
      /\ Cardinality(S) \in Nat /\ Len(Ascending(S)) = Cardinality(S)
  BY PlacesFacts
<1>2. /\ Ascending(S) \in [1 .. Len(Ascending(S)) -> S]
      /\ \A a, b \in 1 .. Len(Ascending(S)) : a < b <=> Ascending(S)[a] < Ascending(S)[b]
  BY PlacesInOrder
<1>3. x \in S
  BY <1>1, <1>2
<1>4. lo \in SUBSET (1 .. n)
  OBVIOUS
<1>5. /\ c \in Nat /\ Len(Ascending(lo)) = c
  BY <1>4, PlacesFacts
<1>6. /\ Ascending(lo) \in [1 .. Len(Ascending(lo)) -> lo]
      /\ \A z \in lo : \E j \in 1 .. Len(Ascending(lo)) : Ascending(lo)[j] = z
  BY <1>4, PlacesInOrder
<1> HIDE DEF x
<1>7. IsCut(S, lo, hi, LessThan)
  BY <1>1, <1>3 DEF IsCut, LessThan
<1>8. hi \in SUBSET (1 .. n)
  OBVIOUS
<1>9. Cardinality(hi) \in Nat /\ Len(Ascending(hi)) = Cardinality(hi)
  BY <1>8, PlacesFacts
<1>10. Ascending(hi) \in [1 .. Len(Ascending(hi)) -> hi]
  BY <1>8, PlacesInOrder
<1>11. x \in lo /\ \A y \in lo : y <= x
  BY <1>1, <1>3
<1> HIDE DEF lo, hi, c
<1>12. /\ Ascending(S) = Ascending(lo) \o Ascending(hi)
       /\ Cardinality(S) = Cardinality(lo) + Cardinality(hi)
  BY <1>1, <1>7, AscendingOfUnion
<1>13. Ascending(lo) \in Seq(lo) /\ Ascending(hi) \in Seq(hi)
  BY <1>5, <1>6, <1>9, <1>10
<1>14. \A j \in 1 .. c : Ascending(S)[j] = Ascending(lo)[j]
  BY <1>5, <1>12, <1>13
<1>15. PICK j \in 1 .. c : Ascending(lo)[j] = x
  BY <1>5, <1>6, <1>11
<1>16. c <= Cardinality(S)
  BY <1>5, <1>9, <1>12 DEF c
<1>17. Ascending(S)[j] = Ascending(S)[k]
  BY <1>14, <1>15 DEF x
<1>18. j \in 1 .. Len(Ascending(S)) /\ k \in 1 .. Len(Ascending(S))
  BY <1>1, <1>5, <1>16
<1>19. ~ (Ascending(S)[j] < Ascending(S)[k]) /\ ~ (Ascending(S)[k] < Ascending(S)[j])
  BY <1>1, <1>2, <1>17, <1>18
<1>20. j = k
  BY <1>1, <1>2, <1>18, <1>19
<1>21. ~ (k < c)
  <2> SUFFICES ASSUME k < c PROVE FALSE
    OBVIOUS
  <2>1. k + 1 \in 1 .. c /\ k + 1 \in 1 .. Len(Ascending(S)) /\ k < k + 1
    BY <1>1, <1>5, <1>16
  <2>2. Ascending(S)[k] < Ascending(S)[k + 1]
    BY <1>2, <1>18, <2>1
  <2>3. Ascending(S)[k + 1] \in lo
    BY <1>5, <1>6, <1>14, <2>1
  <2>4. Ascending(S)[k + 1] <= x /\ x \in Int /\ Ascending(S)[k + 1] \in Int
    BY <1>1, <1>2, <1>3, <1>11, <2>1, <2>3
  <2> QED
    BY <2>2, <2>4 DEF x
<1>22. k = c
  BY <1>5, <1>20, <1>21
<1> QED
  BY <1>22 DEF c, lo, x
==============================================================================
