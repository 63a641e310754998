--------------------------- MODULE SortingProofs ---------------------------
(***************************************************************************)
(* What Sort and AtPositions return, for sequences of any length.  A       *)
(* finite set that is totally ordered is enumerated by counting: the rank  *)
(* of an element is a number from 1 to the size of the set, two elements   *)
(* have two ranks, and so every number is a rank.                          *)
(***************************************************************************)
EXTENDS Sorting, Functions, FiniteSetTheorems, TLAPS

\* R is a total order on S.
Orders(R, S) ==
  /\ \A x \in S : <<x, x>> \in R
  /\ \A x, y \in S : <<x, y>> \in R \/ <<y, x>> \in R
  /\ \A x, y \in S : <<x, y>> \in R /\ <<y, x>> \in R => x = y
  /\ \A x, y, z \in S : <<x, y>> \in R /\ <<y, z>> \in R => <<x, z>> \in R

Below(R, S, x) == {y \in S : <<y, x>> \in R}
Rank(R, S, x)  == Cardinality(Below(R, S, x))

LEMMA RankRange ==
  ASSUME NEW S, IsFiniteSet(S), NEW R, Orders(R, S), NEW x \in S
  PROVE  Rank(R, S, x) \in 1 .. Cardinality(S) /\ IsFiniteSet(Below(R, S, x))
<1>1. Below(R, S, x) \in SUBSET S /\ x \in Below(R, S, x)
  BY DEF Below, Orders
<1>2. /\ IsFiniteSet(Below(R, S, x))
      /\ Cardinality(Below(R, S, x)) <= Cardinality(S)
  BY <1>1, FS_Subset
<1>3. Cardinality(Below(R, S, x)) \in Nat /\ Cardinality(S) \in Nat
  BY <1>2, FS_CardinalityType
<1>4. Cardinality(Below(R, S, x)) # 0
  BY <1>1, <1>2, FS_EmptySet
<1> QED
  BY <1>2, <1>3, <1>4 DEF Rank

LEMMA RankGrows ==
  ASSUME NEW S, IsFiniteSet(S), NEW R, Orders(R, S),
         NEW x \in S, NEW y \in S, <<x, y>> \in R, x # y
  PROVE  Rank(R, S, x) < Rank(R, S, y)
<1>1. Below(R, S, x) \in SUBSET Below(R, S, y)
  BY DEF Below, Orders
<1>2. y \in Below(R, S, y) /\ y \notin Below(R, S, x)
  BY DEF Below, Orders
<1>3. IsFiniteSet(Below(R, S, y)) /\ Rank(R, S, x) \in Nat /\ Rank(R, S, y) \in Nat
  BY RankRange
<1>4. Rank(R, S, x) <= Rank(R, S, y) /\ Rank(R, S, x) # Rank(R, S, y)
  BY <1>1, <1>2, <1>3, FS_Subset DEF Rank
<1> QED
  BY <1>3, <1>4

LEMMA Interval ==
  ASSUME NEW n \in Nat
  PROVE  IsFiniteSet(1 .. n) /\ Cardinality(1 .. n) = n
BY FS_Interval

\* A finite ordered set is enumerated, in order and without repetition.
LEMMA Enumeration ==
  ASSUME NEW S, IsFiniteSet(S), NEW R, Orders(R, S),
         NEW f,
         \A r \in 1 .. Cardinality(S) :
           (\E x \in S : Rank(R, S, x) = r)
             => f[r] \in S /\ Rank(R, S, f[r]) = r
  PROVE  /\ Cardinality(S) \in Nat
         /\ \A i \in 1 .. Cardinality(S) : f[i] \in S
         /\ \A x \in S : \E i \in 1 .. Cardinality(S) : f[i] = x
         /\ \A i, j \in 1 .. Cardinality(S) : i < j =>
              f[i] # f[j] /\ <<f[i], f[j]>> \in R
<1> DEFINE n == Cardinality(S)
           rank == [x \in S |-> Rank(R, S, x)]
<1>1. n \in Nat /\ IsFiniteSet(1 .. n) /\ Cardinality(1 .. n) = n
  <2>1. n \in Nat
    BY FS_CardinalityType
  <2> QED
    BY <2>1, Interval
<1>2. rank \in Injection(S, 1 .. n)
  <2>1. rank \in [S -> 1 .. n]
    BY RankRange
  <2>2. \A x, y \in S : rank[x] = rank[y] => x = y
    <3> SUFFICES ASSUME NEW x \in S, NEW y \in S, rank[x] = rank[y], x # y
                 PROVE  FALSE
      OBVIOUS
    <3>1. Rank(R, S, x) \in Nat /\ Rank(R, S, y) \in Nat
      BY RankRange
    <3>2. <<x, y>> \in R \/ <<y, x>> \in R
      BY DEF Orders
    <3> QED
      BY <3>1, <3>2, RankGrows
  <2> QED
    BY <2>1, <2>2 DEF Injection, IsInjective
<1>3. rank \in Surjection(S, 1 .. n)
  <2> HIDE DEF rank, n
  <2> QED
    BY <1>1, <1>2, FS_Injection DEF n
<1>4. \A r \in 1 .. n : \E x \in S : Rank(R, S, x) = r
  BY <1>3 DEF Surjection
<1>5. \A r \in 1 .. n : f[r] \in S /\ Rank(R, S, f[r]) = r
  BY <1>4
<1>6. ASSUME NEW x \in S PROVE \E i \in 1 .. n : f[i] = x
  <2>1. Rank(R, S, x) \in 1 .. n
    BY RankRange
  <2>2. f[Rank(R, S, x)] \in S /\ Rank(R, S, f[Rank(R, S, x)]) = Rank(R, S, x)
    BY <1>5, <2>1
  <2>3. f[Rank(R, S, x)] = x
    BY <1>2, <2>2 DEF Injection, IsInjective
  <2> QED
    BY <2>1, <2>3
<1>7. ASSUME NEW i \in 1 .. n, NEW j \in 1 .. n, i < j
      PROVE  f[i] # f[j] /\ <<f[i], f[j]>> \in R
  <2>1. f[i] # f[j]
    BY <1>5, <1>7, <1>1
  <2>2. CASE <<f[j], f[i]>> \in R
    <3>1. Rank(R, S, f[j]) < Rank(R, S, f[i])
      BY <1>5, <2>1, <2>2, RankGrows
    <3> QED
      BY <1>1, <1>5, <1>7, <3>1
  <2> QED
    BY <1>5, <2>1, <2>2 DEF Orders
<1> QED
  BY <1>1, <1>5, <1>6, <1>7

\* at lists the positions P in order, and t has the elements of s there.
Selects(at, s, P, t) ==
  /\ at \in [1 .. Cardinality(P) -> P]
  /\ t = [r \in 1 .. Cardinality(P) |-> s[at[r]]]
  /\ \A i \in P : \E r \in 1 .. Cardinality(P) : at[r] = i
  /\ \A q, r \in 1 .. Cardinality(P) : q < r => at[q] < at[r]

\* Positions are kept in order, and all of them.
LEMMA AtPositionsKeeps ==
  ASSUME NEW s, NEW n \in Nat, NEW P \in SUBSET (1 .. n)
  PROVE  /\ Cardinality(P) \in Nat
         /\ \E at : Selects(at, s, P, AtPositions(s, P))
<1> DEFINE R == {x \in P \X P : x[1] <= x[2]}
           NotAfter(i, j) == i <= j
           f == InOrder(P, NotAfter)
           N == 1 .. Cardinality(P)
           at == [r \in N |-> f[r]]
<1>1. IsFiniteSet(P)
  <2>1. IsFiniteSet(1 .. n)
    BY Interval
  <2> QED
    BY <2>1, FS_Subset
<1>2. \A i, j \in P : <<i, j>> \in R <=> i <= j
  OBVIOUS
<1>3. P \subseteq Int
  OBVIOUS
<1>4. ASSUME NEW r \in N, \E x \in P : Rank(R, P, x) = r
      PROVE  f[r] \in P /\ Rank(R, P, f[r]) = r
  <2>1. \A x \in P : {y \in P : NotAfter(y, x)} = Below(R, P, x)
    BY <1>2 DEF Below
  <2>2. f[r] = CHOOSE x \in P : Cardinality({y \in P : NotAfter(y, x)}) = r
    BY DEF InOrder
  <2> HIDE DEF f, R, NotAfter
  <2> QED
    BY <1>4, <2>1, <2>2 DEF Rank
<1>5. AtPositions(s, P) = [r \in N |-> s[at[r]]]
  BY DEF AtPositions
<1> HIDE DEF f, R
<1>6. Orders(R, P)
  BY <1>2, <1>3 DEF Orders
<1>7. /\ Cardinality(P) \in Nat
      /\ \A i \in N : f[i] \in P
      /\ \A x \in P : \E i \in N : f[i] = x
      /\ \A i, j \in N : i < j => f[i] # f[j] /\ <<f[i], f[j]>> \in R
  BY <1>1, <1>4, <1>6, Enumeration
<1>8. at \in [N -> P] /\ \A i \in P : \E r \in N : at[r] = i
  BY <1>7
<1>9. ASSUME NEW q \in N, NEW r \in N, q < r PROVE at[q] < at[r]
  <2>1. f[q] \in P /\ f[r] \in P /\ f[q] # f[r] /\ <<f[q], f[r]>> \in R
    BY <1>7, <1>9
  <2>2. f[q] <= f[r] /\ f[q] \in Int /\ f[r] \in Int
    BY <1>2, <1>3, <2>1
  <2>3. f[q] < f[r]
    BY <2>1, <2>2
  <2> QED
    BY <2>3
<1> HIDE DEF at
<1>10. Selects(at, s, P, AtPositions(s, P))
  BY <1>5, <1>8, <1>9 DEF Selects
<1> QED
  BY <1>7, <1>10

\* p is a permutation of positions that takes s to t.
Permutes(p, s, t) ==
  /\ p \in [1 .. Len(s) -> 1 .. Len(s)]
  /\ \A i \in 1 .. Len(s) : t[i] = s[p[i]]
  /\ \A i, j \in 1 .. Len(s) : p[i] = p[j] => i = j
  /\ \A i \in 1 .. Len(s) : \E j \in 1 .. Len(s) : p[j] = i

\* Sorting permutes, and the result does not decrease.
LEMMA SortSorts ==
  ASSUME NEW s \in Seq(Int)
  PROVE  /\ Sort(s) \in Seq(Int) /\ Len(Sort(s)) = Len(s)
         /\ \A i, j \in 1 .. Len(s) : i <= j => Sort(s)[i] <= Sort(s)[j]
         /\ \E p : Permutes(p, s, Sort(s))
<1> DEFINE D == 1 .. Len(s)
           NotAfter(i, j) == s[i] < s[j] \/ (s[i] = s[j] /\ i <= j)
           R == {x \in D \X D : NotAfter(x[1], x[2])}
           f == InOrder(D, NotAfter)
           p == [r \in D |-> f[r]]
<1>1. Len(s) \in Nat /\ D = DOMAIN s /\ (\A i \in D : s[i] \in Int) /\ D \subseteq Int
  OBVIOUS
<1>2. IsFiniteSet(D) /\ Cardinality(D) = Len(s)
  BY <1>1, Interval
<1>3. \A i, j \in D : <<i, j>> \in R <=> NotAfter(i, j)
  OBVIOUS
<1>4. ASSUME NEW r \in D, \E x \in D : Rank(R, D, x) = r
      PROVE  f[r] \in D /\ Rank(R, D, f[r]) = r
  <2>1. \A x \in D : {y \in D : NotAfter(y, x)} = Below(R, D, x)
    BY <1>3 DEF Below
  <2>2. f[r] = CHOOSE x \in D : Cardinality({y \in D : NotAfter(y, x)}) = r
    <3>1. f = [q \in 1 .. Cardinality(D) |->
                 CHOOSE x \in D : Cardinality({y \in D : NotAfter(y, x)}) = q]
      BY DEF InOrder
    <3> QED
      BY <1>2, <3>1
  <2> HIDE DEF f, R, NotAfter, D
  <2> QED
    BY <1>4, <2>1, <2>2 DEF Rank
<1>5. Sort(s) = [r \in D |-> s[p[r]]]
  BY <1>1, <1>2 DEF Sort
<1>6. Orders(R, D)
  <2>1. /\ \A i \in D : NotAfter(i, i)
        /\ \A i, j \in D : NotAfter(i, j) \/ NotAfter(j, i)
        /\ \A i, j \in D : NotAfter(i, j) /\ NotAfter(j, i) => i = j
        /\ \A i, j, k \in D : NotAfter(i, j) /\ NotAfter(j, k) => NotAfter(i, k)
    BY <1>1
  <2> HIDE DEF R, NotAfter, D
  <2> QED
    BY <1>3, <2>1 DEF Orders
<1>7. /\ \A i \in D : f[i] \in D
      /\ \A x \in D : \E i \in D : f[i] = x
      /\ \A i, j \in D : i < j => f[i] # f[j] /\ <<f[i], f[j]>> \in R
  <2>1. D = 1 .. Cardinality(D)
    BY <1>2
  <2> DEFINE N == 1 .. Cardinality(D)
  <2> HIDE DEF f, R, NotAfter, D
  <2>2. \A r \in N : (\E x \in D : Rank(R, D, x) = r)
                       => f[r] \in D /\ Rank(R, D, f[r]) = r
    BY <1>4, <2>1
  <2>3. /\ \A i \in N : f[i] \in D
        /\ \A x \in D : \E i \in N : f[i] = x
        /\ \A i, j \in N : i < j => f[i] # f[j] /\ <<f[i], f[j]>> \in R
    BY <1>2, <1>6, <2>2, Enumeration
  <2> QED
    BY <2>1, <2>3
<1> HIDE DEF f, R
<1>8. /\ p \in [D -> D]
      /\ \A x \in D : \E i \in D : p[i] = x
  BY <1>7
<1>9. ASSUME NEW i \in D, NEW j \in D, p[i] = p[j] PROVE i = j
  <2>1. ~(i < j) /\ ~(j < i)
    <3> HIDE DEF D, NotAfter
    <3> QED BY <1>7, <1>9
  <2> QED
    BY <2>1
<1>10. ASSUME NEW i \in D, NEW j \in D, i <= j PROVE Sort(s)[i] <= Sort(s)[j]
  <2>1. s[p[i]] \in Int /\ s[p[j]] \in Int
    BY <1>1, <1>7
  <2>2. ASSUME i < j PROVE s[p[i]] <= s[p[j]]
    <3>1. p[i] \in D /\ p[j] \in D /\ <<p[i], p[j]>> \in R
      BY <1>7, <2>2
    <3>2. NotAfter(p[i], p[j])
      BY <1>3, <3>1
    <3> QED
      BY <2>1, <3>2
  <2>3. CASE i = j
    BY <1>5, <2>1, <2>3
  <2>4. CASE i < j
    BY <1>5, <2>2, <2>4
  <2> QED
    BY <1>10, <2>3, <2>4
<1>11. Sort(s) \in Seq(Int) /\ Len(Sort(s)) = Len(s)
  <2>1. \A i \in D : s[p[i]] \in Int
    BY <1>1, <1>7
  <2> QED
    BY <1>1, <1>5, <2>1
<1>12. \A i \in D : Sort(s)[i] = s[p[i]]
  BY <1>5
<1> HIDE DEF p
<1>13. Permutes(p, s, Sort(s))
  BY <1>8, <1>9, <1>12 DEF Permutes
<1> QED
  BY <1>10, <1>11, <1>13

\* At least k elements are no greater than the k-th of the sorted sequence.
LEMMA SortCounts ==
  ASSUME NEW s \in Seq(Int), NEW k \in 1 .. Len(s)
  PROVE  LET T == {i \in DOMAIN s : s[i] <= Sort(s)[k]}
         IN  Cardinality(T) \in Nat /\ Cardinality(T) >= k
<1> DEFINE T == {i \in DOMAIN s : s[i] <= Sort(s)[k]}
<1>0. Len(s) \in Nat /\ DOMAIN s = 1 .. Len(s) /\ k \in Nat
      /\ 1 .. k \subseteq 1 .. Len(s)
  OBVIOUS
<1>1. /\ \A i, j \in 1 .. Len(s) : i <= j => Sort(s)[i] <= Sort(s)[j]
      /\ \E p : Permutes(p, s, Sort(s))
  BY SortSorts
<1>2. PICK p : Permutes(p, s, Sort(s))
  BY <1>1
<1> DEFINE first == [j \in 1 .. k |-> p[j]]
<1>3. ASSUME NEW j \in 1 .. k PROVE p[j] \in T
  <2>1. j <= k /\ j \in 1 .. Len(s)
    BY <1>0
  <2>2. Sort(s)[j] <= Sort(s)[k]
    BY <1>1, <2>1
  <2> QED
    BY <1>0, <1>2, <2>1, <2>2 DEF Permutes
<1>4. first \in Injection(1 .. k, T)
  BY <1>0, <1>2, <1>3 DEF Injection, IsInjective, Permutes
<1>5. IsFiniteSet(T)
  <2>1. IsFiniteSet(1 .. Len(s)) /\ T \subseteq 1 .. Len(s)
    BY <1>0, Interval
  <2> QED
    BY <2>1, FS_Subset
<1>6. Cardinality(1 .. k) = k
  BY <1>0, Interval
<1> HIDE DEF first, T
<1>7. Cardinality(1 .. k) <= Cardinality(T)
  BY <1>4, <1>5, FS_Injection
<1>8. Cardinality(T) \in Nat
  BY <1>5, FS_CardinalityType
<1> QED
  BY <1>0, <1>6, <1>7, <1>8 DEF T

=============================================================================
