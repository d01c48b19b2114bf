--------------------------- MODULE Listing_proofs ---------------------------
(***************************************************************************)
(* What the lists of Listing hold: every element of the set, in its order.  *)
(* The argument is a count.  The number of elements that precede an element *)
(* grows along the order, so it maps S one to one into 0 .. |S| - 1, and    *)
(* then onto it: the CHOOSE of InOrder always finds its element.            *)
(***************************************************************************)
EXTENDS Listing, FiniteSetsExt, FiniteSetTheorems, TLAPS

(* R orders the elements of S strictly and totally.                        *)
Orders(R, S) ==
  /\ \A x \in S : <<x, x>> \notin R
  /\ \A x, y, z \in S : <<x, y>> \in R /\ <<y, z>> \in R => <<x, z>> \in R
  /\ \A x, y \in S : x # y => <<x, y>> \in R \/ <<y, x>> \in R

(* Fewer elements come before an earlier element, and some element of S    *)
(* (the element itself) never does.                                        *)
LEMMA RankGrows ==
  ASSUME NEW S, IsFiniteSet(S), NEW R, Orders(R, S)
  PROVE  /\ \A x \in S : Cardinality(Preceding(S, R, x)) \in 0 .. (Cardinality(S) - 1)
         /\ \A x, y \in S : <<x, y>> \in R =>
              Cardinality(Preceding(S, R, x)) < Cardinality(Preceding(S, R, y))
<1>1. Cardinality(S) \in Nat
  BY FS_CardinalityType
<1>2. ASSUME NEW T, T \in SUBSET S
      PROVE  /\ IsFiniteSet(T) /\ Cardinality(T) \in Nat
             /\ \A U \in SUBSET T : U # T =>
                  /\ Cardinality(U) \in Nat
                  /\ Cardinality(U) < Cardinality(T)
  <2>1. IsFiniteSet(T)
    BY <1>2, FS_Subset
  <2>2. Cardinality(T) \in Nat
    BY <2>1, FS_CardinalityType
  <2>3. ASSUME NEW U \in SUBSET T, U # T
        PROVE  Cardinality(U) \in Nat /\ Cardinality(U) < Cardinality(T)
    <3>1. IsFiniteSet(U) /\ Cardinality(U) <= Cardinality(T) /\ Cardinality(T) # Cardinality(U)
      BY <2>1, <2>3, FS_Subset
    <3>2. Cardinality(U) \in Nat
      BY <3>1, FS_CardinalityType
    <3>3. QED
      BY <2>2, <3>1, <3>2
  <2>4. QED
    BY <2>1, <2>2, <2>3
<1>3. ASSUME NEW x \in S PROVE Cardinality(Preceding(S, R, x)) \in 0 .. (Cardinality(S) - 1)
  <2>1. Preceding(S, R, x) \in SUBSET S /\ Preceding(S, R, x) # S
    BY DEF Preceding, Orders
  <2>2. Cardinality(Preceding(S, R, x)) \in Nat /\ Cardinality(Preceding(S, R, x)) < Cardinality(S)
    BY <1>2, <2>1
  <2>3. QED
    BY <1>1, <2>2
<1>4. ASSUME NEW x \in S, NEW y \in S, <<x, y>> \in R
      PROVE  Cardinality(Preceding(S, R, x)) < Cardinality(Preceding(S, R, y))
  <2>1. Preceding(S, R, y) \in SUBSET S
    BY DEF Preceding
  <2>2. Preceding(S, R, x) \in SUBSET Preceding(S, R, y)
    BY <1>4 DEF Preceding, Orders
  <2>3. x \in Preceding(S, R, y) /\ x \notin Preceding(S, R, x)
    BY <1>4 DEF Preceding, Orders
  <2>4. QED
    BY <1>2, <2>1, <2>2, <2>3
<1>5. QED
  BY <1>3, <1>4

(* The list of a finite set: every element is in it, in its order.         *)
LEMMA InOrderLists ==
  ASSUME NEW S, IsFiniteSet(S), NEW R, Orders(R, S)
  PROVE  /\ Cardinality(S) \in Nat
         /\ InOrder(S, R) \in [1 .. Cardinality(S) -> S]
         /\ \A x \in S : \E n \in 1 .. Cardinality(S) : InOrder(S, R)[n] = x
         /\ \A m, n \in 1 .. Cardinality(S) :
              m < n => <<InOrder(S, R)[m], InOrder(S, R)[n]>> \in R
<1> DEFINE N == Cardinality(S)
           rank == [x \in S |-> Cardinality(Preceding(S, R, x))]
           L == InOrder(S, R)
<1>1. N \in Nat
  BY FS_CardinalityType
<1>2. rank \in [S -> 0 .. (N - 1)]
  BY RankGrows
<1>3. \A x, y \in S : <<x, y>> \in R => rank[x] < rank[y]
  BY RankGrows
<1>4. \A x \in S : rank[x] \in Int
  BY <1>1, <1>2
<1>5. \A x, y \in S : rank[x] = rank[y] => x = y
  <2> SUFFICES ASSUME NEW x \in S, NEW y \in S, x # y PROVE rank[x] # rank[y]
    OBVIOUS
  <2>1. rank[x] < rank[y] \/ rank[y] < rank[x]
    BY <1>3 DEF Orders
  <2>2. QED
    BY <1>4, <2>1
<1>6. rank \in Injection(S, 0 .. (N - 1))
  BY <1>2, <1>5 DEF Injection, IsInjective
<1>7. IsFiniteSet(0 .. (N - 1)) /\ Cardinality(0 .. (N - 1)) = N
  BY <1>1, FS_Interval
<1>8. rank \in Surjection(S, 0 .. (N - 1))
  BY <1>6, <1>7, FS_Injection
<1>9. \A k \in 0 .. (N - 1) : \E x \in S : rank[x] = k
  BY <1>8 DEF Surjection
<1>10. \A n \in 1 .. N : L[n] = CHOOSE x \in S : rank[x] = n - 1
  BY DEF InOrder
<1>11. DOMAIN L = 1 .. N /\ L = [n \in 1 .. N |-> L[n]]
  BY DEF InOrder
<1> HIDE DEF rank, L, N
<1>12. ASSUME NEW n \in 1 .. N PROVE L[n] \in S /\ rank[L[n]] = n - 1
  <2>1. n - 1 \in 0 .. (N - 1)
    BY <1>1
  <2>2. \E x \in S : rank[x] = n - 1
    BY <1>9, <2>1
  <2>3. QED
    BY <1>10, <2>2
<1>13. ASSUME NEW x \in S PROVE \E n \in 1 .. N : L[n] = x
  <2>1. rank[x] + 1 \in 1 .. N /\ (rank[x] + 1) - 1 = rank[x]
    BY <1>1, <1>2
  <2>2. L[rank[x] + 1] \in S /\ rank[L[rank[x] + 1]] = rank[x]
    BY <1>12, <2>1
  <2>3. QED
    BY <1>5, <2>1, <2>2
<1>14. ASSUME NEW m \in 1 .. N, NEW n \in 1 .. N, m < n
       PROVE  <<L[m], L[n]>> \in R
  <2>1. L[m] \in S /\ L[n] \in S /\ rank[L[m]] = m - 1 /\ rank[L[n]] = n - 1
    BY <1>12
  <2>2. rank[L[m]] < rank[L[n]]
    BY <2>1, <1>14, <1>1
  <2>3. ~(rank[L[n]] < rank[L[m]]) /\ L[m] # L[n]
    BY <2>1, <2>2, <1>4
  <2>4. QED
    BY <1>3, <2>1, <2>3 DEF Orders
<1>15. L \in [1 .. N -> S]
  BY <1>11, <1>12
<1>16. QED
  BY <1>1, <1>13, <1>14, <1>15 DEF L, N

(* A set of numbers, listed.                                               *)
LEMMA AscendingLists ==
  ASSUME NEW S \in SUBSET Int, IsFiniteSet(S)
  PROVE  /\ Cardinality(S) \in Nat
         /\ Ascending(S) \in [1 .. Cardinality(S) -> S]
         /\ \A x \in S : \E n \in 1 .. Cardinality(S) : Ascending(S)[n] = x
         /\ \A m, n \in 1 .. Cardinality(S) : m < n => Ascending(S)[m] < Ascending(S)[n]
<1> DEFINE R == {p \in S \X S : p[1] < p[2]}
<1>1. \A x, y \in S : <<x, y>> \in R <=> x < y
  OBVIOUS
<1>2. Orders(R, S)
  BY <1>1 DEF Orders
<1>3. Ascending(S) = InOrder(S, R)
  BY DEF Ascending
<1> HIDE DEF R
<1>4. /\ Cardinality(S) \in Nat
      /\ InOrder(S, R) \in [1 .. Cardinality(S) -> S]
      /\ \A x \in S : \E n \in 1 .. Cardinality(S) : InOrder(S, R)[n] = x
      /\ \A m, n \in 1 .. Cardinality(S) :
           m < n => <<InOrder(S, R)[m], InOrder(S, R)[n]>> \in R
  BY <1>2, InOrderLists
<1>5. QED
  BY <1>1, <1>3, <1>4

(* A filter keeps the elements it is asked to keep, and no others.         *)
LEMMA KeepFilters ==
  ASSUME NEW s, NEW I \in SUBSET Int, IsFiniteSet(I)
  PROVE  /\ Cardinality(I) \in Nat
         /\ DOMAIN Keep(s, I) = 1 .. Cardinality(I)
         /\ \A n \in 1 .. Cardinality(I) : \E i \in I : Keep(s, I)[n] = s[i]
         /\ \A i \in I : \E n \in 1 .. Cardinality(I) : Keep(s, I)[n] = s[i]
BY AscendingLists DEF Keep

(* A finite set of numbers has a least and a greatest element.             *)
LEMMA FiniteExtremes ==
  ASSUME NEW S \in SUBSET Int, IsFiniteSet(S), S # {}
  PROVE  /\ Min(S) \in S /\ \A x \in S : Min(S) <= x
         /\ Max(S) \in S /\ \A x \in S : x <= Max(S)
<1> DEFINE N == Cardinality(S)
           L == Ascending(S)
<1>1. /\ N \in Nat /\ L \in [1 .. N -> S]
      /\ \A x \in S : \E n \in 1 .. N : L[n] = x
      /\ \A m, n \in 1 .. N : m < n => L[m] < L[n]
  BY AscendingLists
<1> HIDE DEF N, L
<1>2. N >= 1
  <2>1. PICK x \in S : TRUE
    OBVIOUS
  <2>2. PICK n \in 1 .. N : L[n] = x
    BY <1>1
  <2>3. QED
    BY <1>1
<1>3. L[1] \in S /\ L[N] \in S
  BY <1>1, <1>2
<1>4. ASSUME NEW x \in S PROVE L[1] <= x /\ x <= L[N]
  <2>1. PICK n \in 1 .. N : L[n] = x
    BY <1>1
  <2>2. (n = 1 \/ 1 < n) /\ (n = N \/ n < N)
    BY <1>1
  <2>3. (L[1] = x \/ L[1] < x) /\ (x = L[N] \/ x < L[N])
    BY <1>1, <1>2, <2>1, <2>2
  <2>4. L[1] \in Int /\ L[N] \in Int /\ x \in Int
    BY <1>3
  <2>5. QED
    BY <2>3, <2>4
<1>5. \E x \in S : \A y \in S : x <= y
  BY <1>3, <1>4
<1>6. \E x \in S : \A y \in S : x >= y
  BY <1>3, <1>4
<1>7. Min(S) \in S /\ \A y \in S : Min(S) <= y
  BY <1>5 DEF Min
<1>8. Max(S) \in S /\ \A y \in S : Max(S) >= y
  BY <1>6 DEF Max
<1>9. QED
  BY <1>7, <1>8

LEMMA MaxOfTwo == ASSUME NEW m \in Nat, NEW n \in Nat PROVE Max({m, n}) = IF m < n THEN n ELSE m
BY DEF Max

LEMMA MinOfTwo == ASSUME NEW m \in Nat, NEW n \in Nat PROVE Min({m, n}) = IF m < n THEN m ELSE n
BY DEF Min

(* Where the N elements of a concatenation come from: o[n] is the place of  *)
(* the n-th.                                                               *)
ComesFrom(parts, N, o) ==
  /\ DOMAIN Concat(parts) = 1 .. N
  /\ \A n \in 1 .. N : Concat(parts)[n] = parts[o[n][1]][o[n][2]]
  /\ \A i \in DOMAIN parts : \A j \in DOMAIN parts[i] : \E n \in 1 .. N : o[n] = <<i, j>>
  /\ \A m, n \in 1 .. N : m < n =>
       o[m][1] < o[n][1] \/ (o[m][1] = o[n][1] /\ o[m][2] < o[n][2])

(* A concatenation holds what stands in its parts, part after part.        *)
LEMMA ConcatLists ==
  ASSUME NEW k \in Nat, NEW parts, DOMAIN parts = 1 .. k,
         \A i \in 1 .. k : DOMAIN parts[i] \in SUBSET Int /\ IsFiniteSet(DOMAIN parts[i])
  PROVE  \E N \in Nat : \E o \in [1 .. N -> Places(parts)] : ComesFrom(parts, N, o)
<1> DEFINE S == Places(parts)
           R == Sooner(parts)
           N == Cardinality(S)
           o == InOrder(S, R)
<1>1. \A x \in S : /\ x = <<x[1], x[2]>> /\ x[1] \in 1 .. k
                   /\ x[2] \in DOMAIN parts[x[1]] /\ x[2] \in Int
  BY DEF Places
<1>2. \A i \in 1 .. k : \A j \in DOMAIN parts[i] : <<i, j>> \in S
  BY DEF Places
<1>3. \A x, y \in S : <<x, y>> \in R <=> x[1] < y[1] \/ (x[1] = y[1] /\ x[2] < y[2])
  BY DEF Sooner
<1>4. IsFiniteSet(S)
  <2> DEFINE f == [i \in 1 .. k |-> {i} \X DOMAIN parts[i]]
             T == {f[i] : i \in 1 .. k}
  <2>1. f \in Surjection(1 .. k, T)
    BY DEF Surjection
  <2>2. IsFiniteSet(1 .. k)
    BY FS_Interval
  <2>3. IsFiniteSet(T)
    BY <2>1, <2>2, FS_Surjection
  <2>4. ASSUME NEW t \in T PROVE IsFiniteSet(t)
    <3>1. PICK i \in 1 .. k : t = {i} \X DOMAIN parts[i]
      OBVIOUS
    <3>2. IsFiniteSet({i}) /\ IsFiniteSet(DOMAIN parts[i])
      BY FS_Singleton
    <3>3. QED
      BY <3>1, <3>2, FS_Product
  <2>5. IsFiniteSet(UNION T)
    BY <2>3, <2>4, FS_UNION
  <2>6. S = UNION T
    BY DEF Places
  <2>7. QED
    BY <2>5, <2>6
<1>5. Concat(parts) = [n \in DOMAIN o |-> parts[o[n][1]][o[n][2]]]
  BY DEF Concat
<1> HIDE DEF S, R, N, o
<1>6. Orders(R, S)
  <2>1. ASSUME NEW x \in S PROVE <<x, x>> \notin R
    BY <1>1, <1>3
  <2>2. ASSUME NEW x \in S, NEW y \in S, NEW z \in S, <<x, y>> \in R, <<y, z>> \in R
        PROVE  <<x, z>> \in R
    <3>1. {x[1], x[2], y[1], y[2], z[1], z[2]} \subseteq Int
      BY <1>1
    <3>2. /\ x[1] < y[1] \/ (x[1] = y[1] /\ x[2] < y[2])
          /\ y[1] < z[1] \/ (y[1] = z[1] /\ y[2] < z[2])
      BY <1>3, <2>2
    <3>3. x[1] < z[1] \/ (x[1] = z[1] /\ x[2] < z[2])
      BY <3>1, <3>2
    <3>4. QED
      BY <1>3, <3>3
  <2>3. ASSUME NEW x \in S, NEW y \in S, x # y PROVE <<x, y>> \in R \/ <<y, x>> \in R
    <3>1. {x[1], x[2], y[1], y[2]} \subseteq Int
      BY <1>1
    <3>2. x[1] # y[1] \/ x[2] # y[2]
      BY <1>1, <2>3
    <3>3. \/ x[1] < y[1] \/ (x[1] = y[1] /\ x[2] < y[2])
          \/ y[1] < x[1] \/ (y[1] = x[1] /\ y[2] < x[2])
      BY <3>1, <3>2
    <3>4. QED
      BY <1>3, <3>3
  <2>4. QED
    BY <2>1, <2>2, <2>3 DEF Orders
<1>7. /\ N \in Nat /\ o \in [1 .. N -> S]
      /\ \A x \in S : \E n \in 1 .. N : o[n] = x
      /\ \A m, n \in 1 .. N : m < n => <<o[m], o[n]>> \in R
  BY <1>4, <1>6, InOrderLists DEF N, o
<1>8. DOMAIN Concat(parts) = 1 .. N /\ \A n \in 1 .. N : Concat(parts)[n] = parts[o[n][1]][o[n][2]]
  BY <1>5, <1>7
<1>9. \A m, n \in 1 .. N : m < n => o[m][1] < o[n][1] \/ (o[m][1] = o[n][1] /\ o[m][2] < o[n][2])
  BY <1>3, <1>7
<1>10. \A i \in 1 .. k : \A j \in DOMAIN parts[i] : \E n \in 1 .. N : o[n] = <<i, j>>
  BY <1>2, <1>7
<1>11. ComesFrom(parts, N, o)
  BY <1>8, <1>9, <1>10 DEF ComesFrom
<1>12. QED
  BY <1>7, <1>11 DEF S
=============================================================================
