---------------------------- MODULE Chunk_proofs ----------------------------
(***************************************************************************)
(* The chunked snapshot holds exactly the fold of its entries, for any     *)
(* documents, sizes, targets and budgets (ChunkedFold).                    *)
(*                                                                         *)
(* The argument: a split cuts its documents where its starts are, and they *)
(* tile the ids; a mutation is routed to the one chunk that owns its id, so *)
(* rewriting chunk by chunk is applying all mutations at once and keeps the *)
(* chunks in id order; a facing merge joins two neighbors of which one is  *)
(* untouched.  Last write wins per document equals folding one by one.     *)
(***************************************************************************)
EXTENDS ChunkedFold, Listing_proofs

(* Rows: finitely many documents, each with a body.                        *)
Rows == UNION {[D -> Body] : D \in {E \in SUBSET DocId : IsFiniteSet(E)}}

(* The chunks of a sequence are not empty and follow each other in id      *)
(* order.                                                                  *)
InIdOrder(cs) ==
  /\ \A i \in DOMAIN cs : DOMAIN cs[i] # {}
  /\ \A i, j \in DOMAIN cs : i < j => \A x \in DOMAIN cs[i], y \in DOMAIN cs[j] : x < y

(* Together they hold the rows f.                                          *)
Holds(cs, f) ==
  /\ cs \in Seq(Rows) /\ f \in Rows
  /\ InIdOrder(cs)
  /\ \A x \in DOMAIN f : \E i \in DOMAIN cs : x \in DOMAIN cs[i]
  /\ \A i \in DOMAIN cs : \A x \in DOMAIN cs[i] : x \in DOMAIN f /\ cs[i][x] = f[x]

(* A pair that may merge is a pair of adjacent chunks.                     *)
Adjacent(pair, ds) ==
  pair.neighbor # 0 =>
    /\ pair.owner \in DOMAIN ds /\ pair.neighbor \in DOMAIN ds
    /\ pair.neighbor = pair.owner + 1 \/ pair.neighbor = pair.owner - 1

FoldOk ==
  /\ fold \in [phase : {"idle", "plan", "mint", "null", "oversize"}, count : Nat,
               pair : [owner : Nat, neighbor : Nat], loaded : SUBSET Nat, next : Nat]
  /\ fold.phase \in {"plan", "mint"} =>
       /\ fold.count <= Len(pending) /\ fold.next \in 1 .. (fold.count + 1)
       /\ fold.phase = "plan" => fold.next <= fold.count
       /\ Adjacent(fold.pair, chunks)
       /\ fold.pair.neighbor # 0 => fold.pair.neighbor \in fold.loaded
       /\ \A j \in 1 .. fold.count : Direct(Upto(pending, j), chunks) \subseteq fold.loaded

(* The reference states follow each other, one entry at a time.            *)
FoldedOneByOne ==
  /\ pending \in Seq(Mutation) /\ folded \in Seq(Rows) /\ Len(folded) = Len(pending) + 1
  /\ \A k \in 1 .. Len(pending) : folded[k + 1] = ApplyOne(folded[k], pending[k])

ChunkInv == Holds(chunks, folded[1]) /\ FoldedOneByOne /\ FoldOk

-----------------------------------------------------------------------------
LEMMA RowsFacts ==
  ASSUME NEW f \in Rows
  PROVE  /\ f \in [DOMAIN f -> Body] /\ DOMAIN f \in SUBSET DocId
         /\ DOMAIN f \in SUBSET Nat /\ DOMAIN f \in SUBSET Int /\ IsFiniteSet(DOMAIN f)
<1>1. PICK D \in SUBSET DocId : IsFiniteSet(D) /\ f \in [D -> Body]
  BY DEF Rows
<1>2. QED
  BY <1>1, DocIdAssumption

LEMMA RowsIntro ==
  ASSUME NEW D \in SUBSET DocId, IsFiniteSet(D), NEW f \in [D -> Body]
  PROVE  f \in Rows
BY DEF Rows

(* A part of some rows.                                                    *)
LEMMA RestrictRows ==
  ASSUME NEW f \in Rows, NEW D \in SUBSET DOMAIN f
  PROVE  /\ Restrict(f, D) \in Rows /\ DOMAIN Restrict(f, D) = D
         /\ \A x \in D : Restrict(f, D)[x] = f[x]
<1>1. /\ f \in [DOMAIN f -> Body] /\ DOMAIN f \in SUBSET DocId /\ IsFiniteSet(DOMAIN f)
  BY RowsFacts
<1>2. IsFiniteSet(D) /\ D \in SUBSET DocId
  BY <1>1, FS_Subset
<1>3. Restrict(f, D) \in [D -> Body]
  BY <1>1 DEF Restrict
<1>4. QED
  BY <1>2, <1>3, RowsIntro DEF Restrict

-----------------------------------------------------------------------------
(* The split                                                               *)

(* The k lowest documents are closed downwards.                            *)
LEMMA LowestIsLow ==
  ASSUME NEW docs \in Rows, NEW k \in Int, NEW i \in Lowest(docs, k),
         NEW j \in DOMAIN docs, j < i
  PROVE  j \in Lowest(docs, k)
<1> DEFINE D == DOMAIN docs
           A == {h \in D : h <= i}
           B == {h \in D : h <= j}
<1>1. D \in SUBSET Int /\ IsFiniteSet(D)
  BY RowsFacts
<1>2. i \in D /\ Cardinality(A) <= k
  BY DEF Lowest
<1>3. B \in SUBSET A
  BY <1>1, <1>2
<1>4. IsFiniteSet(A)
  BY <1>1, FS_Subset
<1>5. IsFiniteSet(B) /\ Cardinality(B) <= Cardinality(A)
  BY <1>3, <1>4, FS_Subset
<1>6. Cardinality(A) \in Nat /\ Cardinality(B) \in Nat
  BY <1>4, <1>5, FS_CardinalityType
<1> HIDE DEF A, D
<1>7. Cardinality(B) <= k
  BY <1>2, <1>5, <1>6
<1>8. QED
  BY <1>7 DEF Lowest, D

(* A chunk takes a lower part of the documents, and the first of them.     *)
LEMMA PrefixFacts ==
  ASSUME NEW docs \in Rows, DOMAIN docs # {}
  PROVE  /\ Prefix(docs) \in SUBSET DOMAIN docs
         /\ Min(DOMAIN docs) \in Prefix(docs)
         /\ \A i \in Prefix(docs), j \in DOMAIN docs : j < i => j \in Prefix(docs)
<1> DEFINE D == DOMAIN docs
           m == Min({TargetRows, Cardinality(D)})
           K == {k \in 1 .. m : k = 1 \/ ByteLength(Restrict(docs, Lowest(docs, k))) <= TargetBytes}
           k == Max(K)
           a == Min(D)
<1>1. D \in SUBSET Int /\ IsFiniteSet(D)
  BY RowsFacts
<1>2. Prefix(docs) = Lowest(docs, k)
  BY DEF Prefix
<1>3. Cardinality(D) \in Nat /\ Cardinality(D) # 0
  BY <1>1, FS_CardinalityType, FS_EmptySet
<1>4. m \in Nat /\ m >= 1
  BY <1>3, ChunkAssumption, MinOfTwo
<1>5. K \in SUBSET (1 .. m) /\ K \in SUBSET Int /\ 1 \in K
  BY <1>4
<1> HIDE DEF K, m
<1>6. IsFiniteSet(K)
  <2>1. IsFiniteSet(1 .. m)
    BY <1>4, FS_Interval
  <2>2. QED
    BY <1>5, <2>1, FS_Subset
<1>7. k \in K
  BY <1>5, <1>6, FiniteExtremes
<1> HIDE DEF k
<1>8. k \in Int /\ k >= 1
  <2>1. k \in 1 .. m
    BY <1>5, <1>7
  <2>2. QED
    BY <1>4, <2>1
<1>9. a \in D /\ \A x \in D : a <= x
  BY <1>1, FiniteExtremes
<1> HIDE DEF a
<1>10. {j \in D : j <= a} = {a}
  BY <1>1, <1>9
<1>11. Cardinality({j \in D : j <= a}) = 1
  BY <1>10, FS_Singleton
<1>12. a \in Lowest(docs, k)
  BY <1>8, <1>9, <1>11 DEF Lowest
<1>13. Lowest(docs, k) \in SUBSET DOMAIN docs
  BY DEF Lowest
<1>14. \A i \in Lowest(docs, k), j \in DOMAIN docs : j < i => j \in Lowest(docs, k)
  BY <1>8, LowestIsLow
<1>15. QED
  BY <1>2, <1>12, <1>13, <1>14 DEF a

(* The chunk that starts at h, and what it leaves.                         *)
LEMMA BiteFacts ==
  ASSUME NEW docs \in Rows, NEW h \in DOMAIN docs
  PROVE  LET rest == From(docs, h)
             bite == Prefix(rest)
         IN  /\ rest \in Rows /\ h \in bite
             /\ \A i \in bite : i \in DOMAIN docs /\ h <= i /\ rest[i] = docs[i] /\ i \in DOMAIN rest
             /\ \A i \in bite, j \in DOMAIN docs : h <= j /\ j < i => j \in bite
             /\ \A i : i \in Left(docs, h) <=> i \in DOMAIN docs /\ h <= i /\ i \notin bite
             /\ Left(docs, h) # {} =>
                  /\ Min(Left(docs, h)) \in Left(docs, h)
                  /\ \A i \in Left(docs, h) : Min(Left(docs, h)) <= i
<1> DEFINE D == {i \in DOMAIN docs : i >= h}
           rest == From(docs, h)
           bite == Prefix(rest)
<1>1. DOMAIN docs \in SUBSET Int /\ IsFiniteSet(DOMAIN docs) /\ h \in Int
  BY RowsFacts
<1>2. rest \in Rows /\ DOMAIN rest = D /\ \A x \in D : rest[x] = docs[x]
  BY RestrictRows DEF From
<1> HIDE DEF rest
<1>3. h \in D /\ \A i \in D : i \in DOMAIN docs /\ h <= i /\ i \in Int
  BY <1>1
<1>4. IsFiniteSet(D) /\ D \in SUBSET Int
  BY <1>1, FS_Subset
<1>5. Min(D) \in D /\ \A x \in D : Min(D) <= x
  BY <1>3, <1>4, FiniteExtremes
<1>6. Min(D) = h
  <2>1. Min(D) <= h /\ h <= Min(D) /\ Min(D) \in Int
    BY <1>3, <1>5
  <2>2. QED
    BY <2>1, <1>1
<1>7. /\ bite \in SUBSET D /\ h \in bite
      /\ \A i \in bite, j \in D : j < i => j \in bite
  BY <1>2, <1>3, <1>6, PrefixFacts
<1>8. Left(docs, h) = D \ bite
  BY <1>2 DEF Left, rest
<1> HIDE DEF bite
<1>9. \A i : i \in Left(docs, h) <=> i \in DOMAIN docs /\ h <= i /\ i \notin bite
  BY <1>1, <1>3, <1>8
<1>10. IsFiniteSet(Left(docs, h)) /\ Left(docs, h) \in SUBSET Int
  BY <1>4, <1>8, FS_Subset
<1>11. \A i \in bite : i \in DOMAIN docs /\ h <= i /\ rest[i] = docs[i] /\ i \in DOMAIN rest
  BY <1>2, <1>3, <1>7
<1>12. ASSUME NEW i \in bite, NEW j \in DOMAIN docs, h <= j, j < i PROVE j \in bite
  <2>1. j \in D
    BY <1>1, <1>12
  <2>2. QED
    BY <1>7, <1>12, <2>1
<1>13. Left(docs, h) # {} =>
         /\ Min(Left(docs, h)) \in Left(docs, h)
         /\ \A i \in Left(docs, h) : Min(Left(docs, h)) <= i
  BY <1>10, FiniteExtremes
<1>14. QED
  BY <1>2, <1>7, <1>9, <1>11, <1>12, <1>13 DEF rest, bite

(* The starts are the least set with the first id and what is left after   *)
(* each start.                                                             *)
LEMMA StartsFacts ==
  ASSUME NEW docs \in Rows, DOMAIN docs # {}
  PROVE  /\ Starts(docs) \in SUBSET DOMAIN docs
         /\ Min(DOMAIN docs) \in Starts(docs)
         /\ \A h \in Starts(docs) : Left(docs, h) # {} => Min(Left(docs, h)) \in Starts(docs)
         /\ \A H \in SUBSET DOMAIN docs :
              (/\ Min(DOMAIN docs) \in H
               /\ \A h \in H : Left(docs, h) # {} => Min(Left(docs, h)) \in H)
              => Starts(docs) \subseteq H
<1> DEFINE D == DOMAIN docs
           a == Min(D)
           Closed(H) == a \in H /\ \A h \in H : Left(docs, h) # {} => Min(Left(docs, h)) \in H
<1>1. Starts(docs) = {i \in D : \A H \in SUBSET D : Closed(H) => i \in H}
  BY DEF Starts, FirstId
<1>2. D \in SUBSET Int /\ IsFiniteSet(D)
  BY RowsFacts
<1>3. a \in D
  BY <1>2, FiniteExtremes
<1>4. ASSUME NEW h \in D, Left(docs, h) # {} PROVE Min(Left(docs, h)) \in D
  BY <1>4, BiteFacts
<1> HIDE DEF a
<1>5. a \in Starts(docs)
  BY <1>1, <1>3
<1>6. ASSUME NEW h \in Starts(docs), Left(docs, h) # {} PROVE Min(Left(docs, h)) \in Starts(docs)
  <2>1. h \in D /\ \A H \in SUBSET D : Closed(H) => h \in H
    BY <1>1
  <2>2. Min(Left(docs, h)) \in D
    BY <1>4, <1>6, <2>1
  <2>3. \A H \in SUBSET D : Closed(H) => Min(Left(docs, h)) \in H
    BY <1>6, <2>1
  <2>4. QED
    BY <1>1, <2>2, <2>3
<1>7. \A H \in SUBSET D : Closed(H) => Starts(docs) \subseteq H
  BY <1>1
<1>8. Starts(docs) \in SUBSET D
  BY <1>1
<1>9. QED
  BY <1>5, <1>6, <1>7, <1>8 DEF a

(* No chunk runs over the start of another: the least start inside another *)
(* chunk could be left out of the starts.                                  *)
LEMMA StartsAreApart ==
  ASSUME NEW docs \in Rows, DOMAIN docs # {},
         NEW h \in Starts(docs), NEW t \in Starts(docs), h < t
  PROVE  t \notin Prefix(From(docs, h))
<1> DEFINE D == DOMAIN docs
           S == Starts(docs)
           bite == [x \in D |-> Prefix(From(docs, x))]
           left == [x \in D |-> Left(docs, x)]
           Inside(x) == \E g \in S : g < x /\ x \in bite[g]
           V == {x \in S : Inside(x)}
<1>1. D \in SUBSET Int /\ IsFiniteSet(D)
  BY RowsFacts
<1>2. /\ S \in SUBSET D /\ Min(D) \in S
      /\ \A x \in S : left[x] # {} => Min(left[x]) \in S
      /\ \A H \in SUBSET D :
           (Min(D) \in H /\ \A x \in H : left[x] # {} => Min(left[x]) \in H) => S \subseteq H
  BY StartsFacts
<1>3. \A x \in D : \A i : i \in left[x] <=> i \in D /\ x <= i /\ i \notin bite[x]
  BY BiteFacts
<1>4. \A x \in D : left[x] # {} => Min(left[x]) \in left[x] /\ \A i \in left[x] : Min(left[x]) <= i
  BY BiteFacts
<1>5. \A x \in D : \A i \in bite[x], j \in D : x <= j /\ j < i => j \in bite[x]
  BY BiteFacts
<1>6. \A x \in D : Min(D) <= x
  BY <1>1, FiniteExtremes
<1>7. bite[h] = Prefix(From(docs, h))
  BY <1>2
<1> HIDE DEF S, bite, left, D
<1>8. SUFFICES ASSUME t \in bite[h] PROVE FALSE
  BY <1>7
<1>9. V \in SUBSET Int /\ IsFiniteSet(V) /\ V # {}
  <2>1. t \in V
    BY <1>8 DEF S
  <2>2. V \in SUBSET D
    BY <1>2
  <2>3. QED
    BY <1>1, <2>1, <2>2, FS_Subset
<1>10. PICK v \in V : \A x \in V : v <= x
  BY <1>9, FiniteExtremes
<1>11. PICK g \in S : g < v /\ v \in bite[g]
  OBVIOUS
<1>12. v \in S /\ v \in D /\ g \in D /\ v \in Int /\ g \in Int
  BY <1>1, <1>2
<1>13. ASSUME NEW x \in S, left[x] # {}, Min(left[x]) = v PROVE x = v
  <2>1. x \in D /\ x \in Int
    BY <1>1, <1>2
  <2>2. v \in left[x] /\ x <= v /\ v \notin bite[x]
    BY <1>3, <1>4, <1>13, <2>1
  <2>3. x # g
    BY <1>11, <2>2
  <2>4. CASE x < g
    <3>1. g \notin left[x]
      BY <1>4, <1>11, <1>12, <1>13, <2>1
    <3>2. g \in bite[x]
      BY <1>3, <1>12, <2>1, <2>4, <3>1
    <3>3. g \in V
      BY <2>4, <3>2
    <3>4. v <= g
      BY <1>10, <3>3
    <3>5. QED
      BY <1>11, <1>12, <3>4
  <2>5. CASE g < x /\ x < v
    <3>1. x \in bite[g]
      BY <1>5, <1>11, <1>12, <2>1, <2>5
    <3>2. x \in V
      BY <2>5, <3>1
    <3>3. v <= x
      BY <1>10, <3>2
    <3>4. QED
      BY <1>12, <2>1, <2>5, <3>3
  <2>6. QED
    BY <1>12, <2>1, <2>2, <2>3, <2>4, <2>5
<1>14. Min(D) \in S \ {v}
  <2>1. Min(D) <= g /\ Min(D) \in Int
    BY <1>1, <1>2, <1>6, <1>12
  <2>2. QED
    BY <1>2, <1>11, <1>12, <2>1
<1>15. \A x \in S \ {v} : left[x] # {} => Min(left[x]) \in S \ {v}
  BY <1>2, <1>13
<1>16. S \ {v} \in SUBSET D
  BY <1>2
<1>17. S \subseteq S \ {v}
  BY <1>2, <1>14, <1>15, <1>16
<1>18. QED
  BY <1>12, <1>17

(* Every document is in the chunk of the last start before it.             *)
LEMMA StartsCover ==
  ASSUME NEW docs \in Rows, NEW x \in DOMAIN docs
  PROVE  \E h \in Starts(docs) : x \in Prefix(From(docs, h))
<1> DEFINE D == DOMAIN docs
           S == {s \in Starts(docs) : s <= x}
           h == Max(S)
<1>1. D \in SUBSET Int /\ IsFiniteSet(D) /\ D # {}
  BY RowsFacts
<1>2. Starts(docs) \in SUBSET D /\ Min(D) \in Starts(docs)
  BY <1>1, StartsFacts
<1>3. Min(D) <= x
  BY <1>1, FiniteExtremes
<1>4. S \in SUBSET D /\ S \in SUBSET Int /\ S # {}
  BY <1>1, <1>2, <1>3
<1>5. IsFiniteSet(S)
  BY <1>1, <1>4, FS_Subset
<1>6. h \in S /\ \A s \in S : s <= h
  BY <1>4, <1>5, FiniteExtremes
<1> HIDE DEF h
<1>7. h \in Starts(docs) /\ h <= x /\ h \in D
  BY <1>4, <1>6
<1>8. CASE x \in Left(docs, h)
  <2> DEFINE n == Min(Left(docs, h))
  <2>1. n \in Left(docs, h) /\ n <= x
    BY <1>7, <1>8, BiteFacts
  <2>2. n \in Starts(docs)
    BY <1>1, <1>7, <1>8, StartsFacts
  <2> HIDE DEF n
  <2>3. n \in S
    BY <2>1, <2>2
  <2>4. n <= h /\ h <= n /\ n # h
    <3>1. h \in Prefix(From(docs, h)) /\ h <= n /\ n \notin Prefix(From(docs, h))
      BY <1>7, <2>1, BiteFacts
    <3>2. QED
      BY <1>6, <2>3, <3>1
  <2>5. n \in Int /\ h \in Int
    BY <1>4, <1>6, <2>3
  <2>6. QED
    BY <2>4, <2>5
<1>9. CASE x \notin Left(docs, h)
  <2>1. x \in Prefix(From(docs, h))
    BY <1>7, <1>9, BiteFacts
  <2>2. QED
    BY <1>7, <2>1
<1>10. QED
  BY <1>8, <1>9

(* A split keeps every document once, in id order.                         *)
LEMMA SplitHolds ==
  ASSUME NEW docs \in Rows PROVE Holds(Split(docs), docs)
<1> DEFINE D == DOMAIN docs
           S == Starts(docs)
           N == Cardinality(S)
           L == Ascending(S)
           C == [h \in D |-> Restrict(From(docs, h), Prefix(From(docs, h)))]
<1>1. D \in SUBSET Int /\ IsFiniteSet(D)
  BY RowsFacts
<1>2. S \in SUBSET D
  BY DEF Starts
<1>3. S \in SUBSET Int /\ IsFiniteSet(S)
  BY <1>1, <1>2, FS_Subset
<1>4. /\ N \in Nat /\ L \in [1 .. N -> S]
      /\ \A x \in S : \E n \in 1 .. N : L[n] = x
      /\ \A m, n \in 1 .. N : m < n => L[m] < L[n]
  BY <1>3, AscendingLists
<1>5. Split(docs) = [n \in 1 .. N |-> Restrict(From(docs, L[n]), Prefix(From(docs, L[n])))]
  BY DEF Split
<1> HIDE DEF L, N
<1>6. Split(docs) = [n \in 1 .. N |-> C[L[n]]]
  BY <1>2, <1>4, <1>5
<1>7. ASSUME NEW h \in D
      PROVE  /\ C[h] \in Rows /\ DOMAIN C[h] = Prefix(From(docs, h)) /\ h \in DOMAIN C[h]
             /\ \A x \in DOMAIN C[h] : x \in D /\ C[h][x] = docs[x]
             /\ \A x \in DOMAIN C[h], t \in D : h <= t /\ t < x => t \in DOMAIN C[h]
  <2> DEFINE rest == From(docs, h)
             bite == Prefix(rest)
  <2>1. /\ rest \in Rows /\ h \in bite
        /\ \A i \in bite : i \in DOMAIN docs /\ h <= i /\ rest[i] = docs[i] /\ i \in DOMAIN rest
        /\ \A i \in bite, j \in DOMAIN docs : h <= j /\ j < i => j \in bite
    BY BiteFacts
  <2>2. C[h] = Restrict(rest, bite)
    OBVIOUS
  <2> HIDE DEF rest, bite, C
  <2>3. /\ Restrict(rest, bite) \in Rows /\ DOMAIN Restrict(rest, bite) = bite
        /\ \A x \in bite : Restrict(rest, bite)[x] = rest[x]
    BY <2>1, RestrictRows
  <2>4. QED
    BY <2>1, <2>2, <2>3 DEF rest, bite
<1>8. ASSUME NEW h \in S, NEW t \in S, h < t, NEW x \in DOMAIN C[h], NEW y \in DOMAIN C[t]
      PROVE  x < y
  <2>1. h \in D /\ t \in D /\ t \notin DOMAIN C[h]
    BY <1>2, <1>7, <1>8, StartsAreApart
  <2>2. x \in D /\ x \in Int /\ h \in Int /\ t \in Int /\ y \in Int
    BY <1>1, <1>7, <2>1
  <2>3. ~(t < x) /\ t # x
    BY <1>7, <1>8, <2>1, <2>2
  <2>4. t <= y
    BY <1>7, <2>1, BiteFacts
  <2>5. QED
    BY <2>2, <2>3, <2>4
<1>9. ASSUME NEW x \in D PROVE \E h \in S : x \in DOMAIN C[h]
  <2>1. PICK h \in S : x \in Prefix(From(docs, h))
    BY StartsCover
  <2>2. QED
    BY <1>2, <1>7, <2>1
<1> HIDE DEF C, S
<1> DEFINE cs == Split(docs)
<1>10. cs \in Seq(Rows) /\ DOMAIN cs = 1 .. N /\ \A n \in 1 .. N : cs[n] = C[L[n]]
  <2>1. \A n \in 1 .. N : C[L[n]] \in Rows
    BY <1>2, <1>4, <1>7
  <2>2. cs \in [1 .. N -> Rows]
    BY <1>6, <2>1
  <2>3. QED
    BY <1>4, <1>6, <2>2
<1> HIDE DEF cs
<1>11. InIdOrder(cs)
  <2>1. ASSUME NEW n \in 1 .. N PROVE DOMAIN cs[n] # {}
    BY <1>2, <1>4, <1>7, <1>10
  <2>2. ASSUME NEW m \in 1 .. N, NEW n \in 1 .. N, m < n,
               NEW x \in DOMAIN cs[m], NEW y \in DOMAIN cs[n]
        PROVE  x < y
    <3>1. L[m] \in S /\ L[n] \in S /\ L[m] < L[n] /\ cs[m] = C[L[m]] /\ cs[n] = C[L[n]]
      BY <1>4, <1>10, <2>2
    <3>2. QED
      BY <1>8, <2>2, <3>1
  <2>3. QED
    BY <1>10, <2>1, <2>2 DEF InIdOrder
<1>12. ASSUME NEW x \in D PROVE \E n \in 1 .. N : x \in DOMAIN cs[n]
  <2>1. PICK h \in S : x \in DOMAIN C[h]
    BY <1>9
  <2>2. PICK n \in 1 .. N : L[n] = h
    BY <1>4
  <2>3. QED
    BY <1>10, <2>1, <2>2
<1>13. ASSUME NEW n \in 1 .. N, NEW x \in DOMAIN cs[n] PROVE x \in D /\ cs[n][x] = docs[x]
  BY <1>2, <1>4, <1>7, <1>10
<1>14. QED
  BY <1>10, <1>11, <1>12, <1>13 DEF Holds, cs

-----------------------------------------------------------------------------
(* Routing                                                                 *)

(* Chunks in id order, by their first and last ids.                        *)
LEMMA OrderFacts ==
  ASSUME NEW ds \in Seq(Rows), InIdOrder(ds)
  PROVE  /\ \A i \in DOMAIN ds :
              /\ FirstId(ds[i]) \in DOMAIN ds[i] /\ LastId(ds[i]) \in DOMAIN ds[i]
              /\ FirstId(ds[i]) \in Int /\ LastId(ds[i]) \in Int
              /\ \A x \in DOMAIN ds[i] : x \in Int /\ FirstId(ds[i]) <= x /\ x <= LastId(ds[i])
         /\ \A i, j \in DOMAIN ds : i < j => LastId(ds[i]) < FirstId(ds[j])
<1>1. ASSUME NEW i \in DOMAIN ds
      PROVE  /\ FirstId(ds[i]) \in DOMAIN ds[i] /\ LastId(ds[i]) \in DOMAIN ds[i]
             /\ DOMAIN ds[i] \in SUBSET Int
             /\ \A x \in DOMAIN ds[i] : FirstId(ds[i]) <= x /\ x <= LastId(ds[i])
  <2>1. ds[i] \in Rows /\ DOMAIN ds[i] # {}
    BY DEF InIdOrder
  <2>2. DOMAIN ds[i] \in SUBSET Int /\ IsFiniteSet(DOMAIN ds[i])
    BY <2>1, RowsFacts
  <2>3. QED
    BY <2>1, <2>2, FiniteExtremes DEF FirstId, LastId
<1>2. ASSUME NEW i \in DOMAIN ds, NEW j \in DOMAIN ds, i < j PROVE LastId(ds[i]) < FirstId(ds[j])
  BY <1>1, <1>2 DEF InIdOrder
<1>3. QED
  BY <1>1, <1>2

(* The ids chunk i is responsible for: from its first id to the first id   *)
(* of the next chunk, and everything below for the first chunk.            *)
Owns(ds, i, id) ==
  /\ i = 1 \/ FirstId(ds[i]) <= id
  /\ \A j \in DOMAIN ds : i < j => id < FirstId(ds[j])

LEMMA OwnedInOrder ==
  ASSUME NEW ds \in Seq(Rows), InIdOrder(ds), NEW i \in DOMAIN ds, NEW j \in DOMAIN ds, i < j,
         NEW x \in Int, NEW y \in Int, Owns(ds, i, x), Owns(ds, j, y)
  PROVE  x < y
<1>1. FirstId(ds[j]) \in Int /\ x < FirstId(ds[j])
  BY OrderFacts DEF Owns
<1>2. j # 1 /\ FirstId(ds[j]) <= y
  <2>1. i \in 1 .. Len(ds) /\ j \in 1 .. Len(ds) /\ Len(ds) \in Nat
    OBVIOUS
  <2>2. j # 1
    BY <2>1
  <2>3. QED
    BY <2>2 DEF Owns
<1>3. QED
  BY <1>1, <1>2

(* A chunk owns its own ids.                                               *)
LEMMA OwnsIts ==
  ASSUME NEW ds \in Seq(Rows), InIdOrder(ds), NEW i \in DOMAIN ds, NEW x \in DOMAIN ds[i]
  PROVE  Owns(ds, i, x)
<1>1. FirstId(ds[i]) <= x /\ x <= LastId(ds[i]) /\ x \in Int /\ LastId(ds[i]) \in Int
  BY OrderFacts
<1>2. ASSUME NEW j \in DOMAIN ds, i < j PROVE x < FirstId(ds[j])
  <2>1. LastId(ds[i]) < FirstId(ds[j]) /\ FirstId(ds[j]) \in Int
    BY <1>2, OrderFacts
  <2>2. QED
    BY <1>1, <2>1
<1>3. QED
  BY <1>1, <1>2 DEF Owns

(* Every mutation goes to the chunk that owns its id, or is a delete of a  *)
(* document that no chunk holds.                                           *)
LEMMA RouteFacts ==
  ASSUME NEW ds \in Seq(Rows), InIdOrder(ds), ds # <<>>, NEW mu, mu.id \in Int
  PROVE  /\ Route(mu, ds) \in 0 .. Len(ds)
         /\ mu.op # "D" => Route(mu, ds) # 0
         /\ Route(mu, ds) # 0 => Owns(ds, Route(mu, ds), mu.id)
         /\ \A i \in DOMAIN ds : mu.id \in DOMAIN ds[i] => Route(mu, ds) = i
<1> DEFINE id == mu.id
           n == Len(ds)
           after == {i \in DOMAIN ds : LastId(ds[i]) >= id}
           low == IF after = {} THEN n + 1 ELSE Min(after)
           hit == low <= n /\ FirstId(ds[low]) <= id
           r == Route(mu, ds)
<1>1. n \in Nat /\ n # 0 /\ DOMAIN ds = 1 .. n
  OBVIOUS
<1>2. /\ \A i \in 1 .. n : FirstId(ds[i]) \in Int /\ LastId(ds[i]) \in Int
                           /\ FirstId(ds[i]) <= LastId(ds[i])
      /\ \A i, j \in 1 .. n : i < j => LastId(ds[i]) < FirstId(ds[j])
  BY <1>1, OrderFacts
<1>3. /\ low \in 1 .. (n + 1)
      /\ low <= n => LastId(ds[low]) >= id
      /\ \A i \in 1 .. n : i < low => LastId(ds[i]) < id
  <2>1. CASE after = {}
    BY <1>1, <1>2, <2>1
  <2>2. CASE after # {}
    <3>1. after \in SUBSET (1 .. n) /\ after \in SUBSET Int
      BY <1>1
    <3>2. IsFiniteSet(1 .. n)
      BY <1>1, FS_Interval
    <3>3. IsFiniteSet(after)
      BY <3>1, <3>2, FS_Subset
    <3>4. Min(after) \in after /\ \A i \in after : Min(after) <= i
      BY <2>2, <3>1, <3>3, FiniteExtremes
    <3>5. low = Min(after)
      BY <2>2
    <3> HIDE DEF low
    <3>6. low \in 1 .. n /\ LastId(ds[low]) >= id
      BY <3>1, <3>4, <3>5
    <3>7. ASSUME NEW i \in 1 .. n, i < low PROVE LastId(ds[i]) < id
      <4>1. i \notin after
        <5> SUFFICES ASSUME i \in after PROVE FALSE
          OBVIOUS
        <5>1. low <= i
          BY <3>4, <3>5
        <5>2. QED
          BY <1>1, <3>6, <3>7, <5>1
      <4>2. ~(LastId(ds[i]) >= id)
        BY <1>1, <4>1
      <4>3. QED
        BY <1>2, <4>2
    <3>8. QED
      BY <1>1, <3>6, <3>7
  <2>3. QED
    BY <2>1, <2>2
<1>4. r = IF hit THEN low ELSE IF mu.op = "D" THEN 0 ELSE Max({1, low - 1})
  BY <1>1 DEF Route
<1> HIDE DEF low, after, r, n
<1>5. Max({1, low - 1}) = IF low = 1 THEN 1 ELSE low - 1
  <2>1. low - 1 \in Nat
    BY <1>1, <1>3
  <2>2. Max({1, low - 1}) = IF 1 < low - 1 THEN low - 1 ELSE 1
    BY <2>1, MaxOfTwo
  <2>3. QED
    BY <1>1, <1>3, <2>1, <2>2
<1>6. r \in 0 .. n /\ (mu.op # "D" => r # 0)
  BY <1>1, <1>3, <1>4, <1>5
<1>7. ASSUME r # 0 PROVE Owns(ds, r, id)
  <2>1. CASE hit
    <3>1. r = low /\ low \in 1 .. n /\ FirstId(ds[low]) <= id /\ id <= LastId(ds[low])
      BY <1>1, <1>3, <1>4, <2>1
    <3>2. ASSUME NEW j \in 1 .. n, r < j PROVE id < FirstId(ds[j])
      <4>1. LastId(ds[low]) < FirstId(ds[j])
        BY <1>2, <3>1, <3>2
      <4>2. LastId(ds[low]) \in Int /\ FirstId(ds[j]) \in Int /\ id \in Int
        BY <1>2, <3>1
      <4>3. QED
        BY <3>1, <4>1, <4>2
    <3>3. QED
      BY <1>1, <3>1, <3>2 DEF Owns
  <2>2. CASE ~hit /\ low = n + 1
    <3>1. r = n
      BY <1>1, <1>4, <1>5, <1>7, <2>2
    <3>2. LastId(ds[n]) < id /\ FirstId(ds[n]) <= LastId(ds[n]) /\ FirstId(ds[n]) \in Int
          /\ LastId(ds[n]) \in Int /\ id \in Int
      BY <1>1, <1>2, <1>3, <2>2
    <3>3. FirstId(ds[n]) <= id
      BY <3>2
    <3>4. QED
      BY <1>1, <3>1, <3>3 DEF Owns
  <2>3. CASE ~hit /\ low # n + 1
    <3>1. low \in 1 .. n
      BY <1>1, <1>3, <2>3
    <3>2. id < FirstId(ds[low])
      BY <1>1, <1>2, <2>3, <3>1
    <3>3. r = (IF low = 1 THEN 1 ELSE low - 1) /\ r \in 1 .. n
      BY <1>1, <1>4, <1>5, <1>7, <2>3, <3>1
    <3>4. ASSUME NEW j \in 1 .. n, r < j PROVE id < FirstId(ds[j])
      <4>1. low <= j
        BY <1>1, <3>1, <3>3, <3>4
      <4>2. CASE low = j
        BY <3>2, <4>2
      <4>3. CASE low < j
        <5>1. LastId(ds[low]) < FirstId(ds[j]) /\ FirstId(ds[low]) <= LastId(ds[low])
          BY <1>2, <3>1, <4>3
        <5>2. FirstId(ds[low]) \in Int /\ LastId(ds[low]) \in Int /\ FirstId(ds[j]) \in Int /\ id \in Int
          BY <1>2, <3>1
        <5>3. QED
          BY <3>2, <5>1, <5>2
      <4>4. QED
        BY <1>1, <3>1, <4>1, <4>2, <4>3
    <3>5. r = 1 \/ FirstId(ds[r]) <= id
      <4>1. CASE low = 1
        BY <3>3, <4>1
      <4>2. CASE low # 1
        <5>1. r < low /\ r \in 1 .. n
          BY <1>1, <3>1, <3>3, <4>2
        <5>2. LastId(ds[r]) < id /\ FirstId(ds[r]) <= LastId(ds[r])
          BY <1>2, <1>3, <5>1
        <5>3. FirstId(ds[r]) \in Int /\ LastId(ds[r]) \in Int /\ id \in Int
          BY <1>2, <5>1
        <5>4. QED
          BY <5>2, <5>3
      <4>3. QED
        BY <4>1, <4>2
    <3>6. QED
      BY <1>1, <3>4, <3>5 DEF Owns
  <2>4. QED
    BY <2>1, <2>2, <2>3
<1>8. ASSUME NEW i \in 1 .. n, id \in DOMAIN ds[i] PROVE r = i
  <2>1. FirstId(ds[i]) <= id /\ id <= LastId(ds[i])
    BY <1>1, <1>8, OrderFacts
  <2>2. FirstId(ds[i]) \in Int /\ LastId(ds[i]) \in Int /\ id \in Int
    BY <1>2
  <2>3. ~(i < low)
    BY <1>3, <2>1, <2>2
  <2>4. ~(low < i)
    <3> SUFFICES ASSUME low < i PROVE FALSE
      OBVIOUS
    <3>1. low \in 1 .. n
      BY <1>1, <1>3
    <3>2. LastId(ds[low]) < FirstId(ds[i]) /\ LastId(ds[low]) >= id /\ LastId(ds[low]) \in Int
      BY <1>1, <1>2, <1>3, <3>1
    <3>3. QED
      BY <2>1, <2>2, <3>2
  <2>5. low = i
    BY <1>1, <1>3, <2>3, <2>4
  <2>6. QED
    BY <1>1, <1>4, <2>1, <2>5
<1>9. QED
  BY <1>1, <1>6, <1>7, <1>8 DEF r, n

-----------------------------------------------------------------------------
(* Mutations applied to rows                                               *)

(* The last mutation of each document.                                     *)
Mutations ==
  {muts \in UNION {[D -> Mutation] : D \in {E \in SUBSET DocId : IsFiniteSet(E)}} :
     \A id \in DOMAIN muts : muts[id].id = id}

LEMMA MutationFacts ==
  ASSUME NEW mu \in Mutation
  PROVE  /\ mu.id \in DocId /\ mu.id \in Int
         /\ mu.op # "D" => mu.body \in Body
<1>1. mu.id \in DocId /\ (mu.op # "D" => mu.body \in Body)
  <2>1. CASE mu \in [op : {"put"}, id : DocId, body : Body]
    BY <2>1
  <2>2. CASE mu \in [op : {"D"}, id : DocId, body : {0}]
    BY <2>2
  <2>3. QED
    BY <2>1, <2>2 DEF Mutation
<1>2. mu.id \in Int
  <2>1. \A id \in DocId : id \in Int
    BY DocIdAssumption
  <2>2. QED
    BY <1>1, <2>1, Zenon
<1>3. QED
  BY <1>1, <1>2

LEMMA MutationsFacts ==
  ASSUME NEW muts \in Mutations
  PROVE  /\ DOMAIN muts \in SUBSET DocId /\ DOMAIN muts \in SUBSET Int /\ IsFiniteSet(DOMAIN muts)
         /\ \A id \in DOMAIN muts : muts[id] \in Mutation /\ muts[id].id = id
<1>1. PICK D \in SUBSET DocId : IsFiniteSet(D) /\ muts \in [D -> Mutation]
  BY DEF Mutations
<1>2. DOMAIN muts = D /\ \A id \in D : muts[id] \in Mutation
  BY <1>1
<1>3. \A id \in DOMAIN muts : muts[id].id = id
  BY DEF Mutations
<1>4. QED
  BY <1>1, <1>2, <1>3, DocIdAssumption

LEMMA MutationsIntro ==
  ASSUME NEW D \in SUBSET DocId, IsFiniteSet(D), NEW muts \in [D -> Mutation],
         \A id \in D : muts[id].id = id
  PROVE  muts \in Mutations
BY DEF Mutations

(* What Apply gives, row by row.                                           *)
LEMMA ApplyFacts ==
  ASSUME NEW rows \in Rows, NEW muts \in Mutations
  PROVE  /\ Apply(rows, muts) \in Rows
         /\ \A x : x \in DOMAIN Apply(rows, muts) <=>
              \/ x \in DOMAIN muts /\ muts[x].op # "D"
              \/ x \in DOMAIN rows /\ x \notin DOMAIN muts
         /\ \A x \in DOMAIN muts : muts[x].op # "D" => Apply(rows, muts)[x] = muts[x].body
         /\ \A x \in DOMAIN rows \ DOMAIN muts : Apply(rows, muts)[x] = rows[x]
<1> DEFINE gone == {id \in DOMAIN muts : muts[id].op = "D"}
           put  == DOMAIN muts \ gone
           D    == (DOMAIN rows \ gone) \cup put
           f    == [id \in D |-> IF id \in put THEN muts[id].body ELSE rows[id]]
<1>1. Apply(rows, muts) = f
  BY DEF Apply
<1>2. rows \in [DOMAIN rows -> Body] /\ DOMAIN rows \in SUBSET DocId /\ IsFiniteSet(DOMAIN rows)
  BY RowsFacts
<1>3. /\ DOMAIN muts \in SUBSET DocId /\ IsFiniteSet(DOMAIN muts)
      /\ \A id \in DOMAIN muts : muts[id] \in Mutation
  BY MutationsFacts
<1>4. \A id \in put : muts[id].body \in Body
  BY <1>3, MutationFacts
<1>5. D \in SUBSET DocId
  BY <1>2, <1>3
<1>6. IsFiniteSet(DOMAIN rows \cup DOMAIN muts)
  BY <1>2, <1>3, FS_Union
<1>7. IsFiniteSet(D)
  <2>1. D \in SUBSET (DOMAIN rows \cup DOMAIN muts)
    OBVIOUS
  <2>2. QED
    BY <1>6, <2>1, FS_Subset
<1>8. f \in [D -> Body]
  BY <1>2, <1>4
<1>9. f \in Rows
  BY <1>5, <1>7, <1>8, RowsIntro
<1>10. QED
  BY <1>1, <1>9

(* Rows that agree are the same rows.                                      *)
LEMMA SameRows ==
  ASSUME NEW f \in Rows, NEW g \in Rows,
         \A x : x \in DOMAIN f <=> x \in DOMAIN g,
         \A x \in DOMAIN f : f[x] = g[x]
  PROVE  f = g
<1>1. f \in [DOMAIN f -> Body] /\ g \in [DOMAIN g -> Body]
  BY RowsFacts
<1>2. DOMAIN f = DOMAIN g
  OBVIOUS
<1>3. QED
  BY <1>1, <1>2

(* What a sequence of chunks holds is determined by the chunks.            *)
LEMMA HoldsContents ==
  ASSUME NEW cs, NEW f, Holds(cs, f) PROVE Contents(cs) = f
<1>1. /\ cs \in Seq(Rows) /\ f \in Rows
      /\ \A x \in DOMAIN f : \E i \in DOMAIN cs : x \in DOMAIN cs[i]
      /\ \A i \in DOMAIN cs : \A x \in DOMAIN cs[i] : x \in DOMAIN f /\ cs[i][x] = f[x]
  BY DEF Holds
<1>2. f \in [DOMAIN f -> Body]
  BY <1>1, RowsFacts
<1> DEFINE D == UNION {DOMAIN cs[i] : i \in DOMAIN cs}
<1>3. D = DOMAIN f
  BY <1>1
<1>4. \A x \in D : cs[CHOOSE i \in DOMAIN cs : x \in DOMAIN cs[i]][x] = f[x]
  <2> TAKE x \in D
  <2> DEFINE i == CHOOSE i \in DOMAIN cs : x \in DOMAIN cs[i]
  <2>1. i \in DOMAIN cs /\ x \in DOMAIN cs[i]
    BY <1>1, <1>3
  <2> HIDE DEF i
  <2>2. cs[i][x] = f[x]
    BY <1>1, <2>1
  <2>3. QED
    BY <2>2 DEF i
<1>5. Contents(cs) = [x \in D |-> cs[CHOOSE i \in DOMAIN cs : x \in DOMAIN cs[i]][x]]
  BY DEF Contents
<1> HIDE DEF D
<1>6. Contents(cs) = [x \in D |-> f[x]]
  BY <1>4, <1>5
<1>7. QED
  BY <1>2, <1>3, <1>6

-----------------------------------------------------------------------------
(* Concatenation and merge                                                 *)

(* Parts that hold rows one after the other hold them together.            *)
LEMMA ConcatHolds ==
  ASSUME NEW k \in Nat, NEW parts, DOMAIN parts = 1 .. k,
         NEW g, NEW f \in Rows,
         \A i \in 1 .. k : Holds(parts[i], g[i]),
         \A i, j \in 1 .. k : i < j => \A x \in DOMAIN g[i], y \in DOMAIN g[j] : x < y,
         \A x \in DOMAIN f : \E i \in 1 .. k : x \in DOMAIN g[i],
         \A i \in 1 .. k : \A x \in DOMAIN g[i] : x \in DOMAIN f /\ g[i][x] = f[x]
  PROVE  Holds(Concat(parts), f)
<1> DEFINE cs == Concat(parts)
<1>1. \A i \in 1 .. k :
        /\ parts[i] \in Seq(Rows) /\ InIdOrder(parts[i])
        /\ \A x \in DOMAIN g[i] : \E j \in DOMAIN parts[i] : x \in DOMAIN parts[i][j]
        /\ \A j \in DOMAIN parts[i] : \A x \in DOMAIN parts[i][j] :
             x \in DOMAIN g[i] /\ parts[i][j][x] = g[i][x]
  BY DEF Holds
<1>2. ASSUME NEW i \in 1 .. k
      PROVE  DOMAIN parts[i] \in SUBSET Int /\ IsFiniteSet(DOMAIN parts[i])
  <2>1. DOMAIN parts[i] = 1 .. Len(parts[i]) /\ Len(parts[i]) \in Nat
    BY <1>1
  <2>2. QED
    BY <2>1, FS_Interval
<1>3. \A i \in 1 .. k : DOMAIN parts[i] \in SUBSET Int /\ IsFiniteSet(DOMAIN parts[i])
  BY <1>2
<1>4. PICK N \in Nat : \E o \in [1 .. N -> Places(parts)] : ComesFrom(parts, N, o)
  BY <1>3, ConcatLists
<1>5. PICK o \in [1 .. N -> Places(parts)] : ComesFrom(parts, N, o)
  BY <1>4
<1>6. /\ DOMAIN cs = 1 .. N
      /\ \A n \in 1 .. N : cs[n] = parts[o[n][1]][o[n][2]]
      /\ \A i \in 1 .. k : \A j \in DOMAIN parts[i] : \E n \in 1 .. N : o[n] = <<i, j>>
      /\ \A m, n \in 1 .. N : m < n =>
           o[m][1] < o[n][1] \/ (o[m][1] = o[n][1] /\ o[m][2] < o[n][2])
  BY <1>5 DEF ComesFrom
<1>7. \A n \in 1 .. N : o[n][1] \in 1 .. k /\ o[n][2] \in DOMAIN parts[o[n][1]]
  BY DEF Places
<1>8. cs = [n \in 1 .. N |-> cs[n]]
  BY <1>6 DEF Concat
<1> HIDE DEF cs
<1>9. ASSUME NEW n \in 1 .. N
      PROVE  /\ cs[n] \in Rows /\ DOMAIN cs[n] # {}
             /\ \A x \in DOMAIN cs[n] : x \in DOMAIN g[o[n][1]] /\ cs[n][x] = g[o[n][1]][x]
  <2> DEFINE i == o[n][1]
             j == o[n][2]
  <2>1. i \in 1 .. k /\ j \in DOMAIN parts[i] /\ cs[n] = parts[i][j]
    BY <1>6, <1>7
  <2> HIDE DEF i, j
  <2>2. parts[i] \in Seq(Rows)
    BY <1>1, <2>1
  <2>3. parts[i][j] \in Rows
    BY <2>1, <2>2
  <2>4. DOMAIN parts[i][j] # {}
    BY <1>1, <2>1 DEF InIdOrder
  <2>5. QED
    BY <1>1, <2>1, <2>3, <2>4 DEF i
<1>10. cs \in Seq(Rows)
  <2>1. cs \in [1 .. N -> Rows]
    BY <1>8, <1>9
  <2>2. QED
    BY <2>1
<1>11. ASSUME NEW m \in 1 .. N, NEW n \in 1 .. N, m < n,
             NEW x \in DOMAIN cs[m], NEW y \in DOMAIN cs[n]
      PROVE  x < y
  <2>1. /\ x \in DOMAIN g[o[m][1]] /\ y \in DOMAIN g[o[n][1]]
        /\ o[m][1] \in 1 .. k /\ o[n][1] \in 1 .. k
    BY <1>7, <1>9
  <2>2. CASE o[m][1] < o[n][1]
    BY <2>1, <2>2
  <2>3. CASE o[m][1] = o[n][1] /\ o[m][2] < o[n][2]
    <3> DEFINE i == o[m][1]
    <3>1. /\ i \in 1 .. k /\ o[m][2] \in DOMAIN parts[i] /\ o[n][2] \in DOMAIN parts[i]
          /\ x \in DOMAIN parts[i][o[m][2]] /\ y \in DOMAIN parts[i][o[n][2]]
      BY <1>6, <1>7, <1>11, <2>3
    <3>2. InIdOrder(parts[i])
      BY <1>1, <3>1
    <3>3. QED
      BY <2>3, <3>1, <3>2 DEF InIdOrder
  <2>4. QED
    BY <1>6, <1>11, <2>2, <2>3
<1>12. InIdOrder(cs)
  BY <1>6, <1>9, <1>11 DEF InIdOrder
<1>13. ASSUME NEW x \in DOMAIN f PROVE \E n \in DOMAIN cs : x \in DOMAIN cs[n]
  <2>1. PICK i \in 1 .. k : x \in DOMAIN g[i]
    OBVIOUS
  <2>2. PICK j \in DOMAIN parts[i] : x \in DOMAIN parts[i][j]
    BY <1>1, <2>1
  <2>3. PICK n \in 1 .. N : o[n] = <<i, j>>
    BY <1>6, <2>2
  <2>4. n \in DOMAIN cs /\ cs[n] = parts[i][j]
    BY <1>6, <2>3
  <2>5. QED
    BY <2>2, <2>4
<1>14. ASSUME NEW n \in DOMAIN cs, NEW x \in DOMAIN cs[n] PROVE x \in DOMAIN f /\ cs[n][x] = f[x]
  <2>1. n \in 1 .. N /\ o[n][1] \in 1 .. k
    BY <1>6, <1>7
  <2>2. x \in DOMAIN g[o[n][1]] /\ cs[n][x] = g[o[n][1]][x]
    BY <1>9, <2>1
  <2>3. QED
    BY <2>1, <2>2
<1>15. QED
  BY <1>10, <1>12, <1>13, <1>14 DEF Holds, cs

(* Two disjoint sets of rows, joined.                                      *)
LEMMA JoinedRows ==
  ASSUME NEW c \in Rows, NEW d \in Rows
  PROVE  /\ Joined(c, d) \in Rows /\ DOMAIN Joined(c, d) = DOMAIN c \cup DOMAIN d
         /\ \A x \in DOMAIN c : Joined(c, d)[x] = c[x]
         /\ \A x \in DOMAIN d \ DOMAIN c : Joined(c, d)[x] = d[x]
<1> DEFINE D == DOMAIN c \cup DOMAIN d
<1>1. /\ c \in [DOMAIN c -> Body] /\ DOMAIN c \in SUBSET DocId /\ IsFiniteSet(DOMAIN c)
      /\ d \in [DOMAIN d -> Body] /\ DOMAIN d \in SUBSET DocId /\ IsFiniteSet(DOMAIN d)
  BY RowsFacts
<1>2. IsFiniteSet(D) /\ D \in SUBSET DocId
  BY <1>1, FS_Union
<1>3. Joined(c, d) \in [D -> Body]
  BY <1>1 DEF Joined
<1>4. Joined(c, d) \in Rows
  BY <1>2, <1>3, RowsIntro
<1>5. QED
  BY <1>4 DEF Joined

(* A chunk that comes after (before) all others may join the last (first). *)
LEMMA MergeHolds ==
  ASSUME NEW cs, NEW f, Holds(cs, f), NEW c \in Rows, NEW k \in DOMAIN cs,
         \/ /\ k = Len(cs) /\ \A x \in DOMAIN f, y \in DOMAIN c : x < y
         \/ /\ k = 1 /\ \A x \in DOMAIN c, y \in DOMAIN f : x < y
  PROVE  Holds([cs EXCEPT ![k] = Joined(c, cs[k])], Joined(c, f))
<1> DEFINE j  == Joined(c, cs[k])
           es == [cs EXCEPT ![k] = j]
           g  == Joined(c, f)
<1>1. /\ cs \in Seq(Rows) /\ f \in Rows /\ InIdOrder(cs)
      /\ \A x \in DOMAIN f : \E i \in DOMAIN cs : x \in DOMAIN cs[i]
      /\ \A i \in DOMAIN cs : \A x \in DOMAIN cs[i] : x \in DOMAIN f /\ cs[i][x] = f[x]
  BY DEF Holds
<1>2. cs[k] \in Rows /\ DOMAIN cs = 1 .. Len(cs) /\ Len(cs) \in Nat
  BY <1>1
<1>3. /\ g \in Rows /\ DOMAIN g = DOMAIN c \cup DOMAIN f
      /\ \A x \in DOMAIN c : g[x] = c[x]
      /\ \A x \in DOMAIN f \ DOMAIN c : g[x] = f[x]
  BY <1>1, JoinedRows
<1>4. /\ j \in Rows /\ DOMAIN j = DOMAIN c \cup DOMAIN cs[k]
      /\ \A x \in DOMAIN c : j[x] = c[x]
      /\ \A x \in DOMAIN cs[k] \ DOMAIN c : j[x] = cs[k][x]
  BY <1>2, JoinedRows
<1> HIDE DEF j, g
<1>5. /\ es \in Seq(Rows) /\ DOMAIN es = DOMAIN cs /\ es[k] = j
      /\ \A i \in DOMAIN cs : i # k => es[i] = cs[i]
  BY <1>1, <1>4
<1> HIDE DEF es
<1>6. DOMAIN f \in SUBSET Int /\ DOMAIN c \in SUBSET Int
  BY <1>1, RowsFacts
<1>7. DOMAIN f \cap DOMAIN c = {}
  BY <1>6
<1>8. InIdOrder(es)
  <2>1. ASSUME NEW i \in DOMAIN es PROVE DOMAIN es[i] # {}
    BY <1>1, <1>4, <1>5 DEF InIdOrder
  <2>2. ASSUME NEW a \in DOMAIN es, NEW b \in DOMAIN es, a < b,
               NEW x \in DOMAIN es[a], NEW y \in DOMAIN es[b]
        PROVE  x < y
    <3>1. CASE x \in DOMAIN cs[a] /\ y \in DOMAIN cs[b]
      BY <1>1, <1>5, <2>2, <3>1 DEF InIdOrder
    <3>2. CASE x \notin DOMAIN cs[a]
      <4>1. a = k /\ x \in DOMAIN c
        BY <1>4, <1>5, <2>2, <3>2
      <4>2. b # k /\ y \in DOMAIN f
        BY <1>1, <1>2, <1>5, <2>2, <4>1
      <4>3. a # Len(cs)
        BY <1>2, <1>5, <2>2
      <4>4. QED
        BY <4>1, <4>2, <4>3
    <3>3. CASE y \notin DOMAIN cs[b]
      <4>1. b = k /\ y \in DOMAIN c
        BY <1>4, <1>5, <2>2, <3>3
      <4>2. a # k /\ x \in DOMAIN f
        BY <1>1, <1>2, <1>5, <2>2, <4>1
      <4>3. b # 1
        BY <1>2, <1>5, <2>2
      <4>4. QED
        BY <4>1, <4>2, <4>3
    <3>4. QED
      BY <3>1, <3>2, <3>3
  <2>3. QED
    BY <2>1, <2>2 DEF InIdOrder
<1>9. ASSUME NEW x \in DOMAIN g PROVE \E i \in DOMAIN es : x \in DOMAIN es[i]
  <2>1. CASE x \in DOMAIN c
    BY <1>4, <1>5, <2>1
  <2>2. CASE x \in DOMAIN f
    <3>1. PICK i \in DOMAIN cs : x \in DOMAIN cs[i]
      BY <1>1, <2>2
    <3>2. QED
      BY <1>4, <1>5, <3>1
  <2>3. QED
    BY <1>3, <2>1, <2>2
<1>10. ASSUME NEW i \in DOMAIN es, NEW x \in DOMAIN es[i] PROVE x \in DOMAIN g /\ es[i][x] = g[x]
  <2>1. CASE i = k /\ x \in DOMAIN c
    BY <1>3, <1>4, <1>5, <2>1
  <2>2. CASE i = k /\ x \notin DOMAIN c
    <3>1. x \in DOMAIN cs[k] /\ es[i][x] = cs[k][x]
      BY <1>4, <1>5, <1>10, <2>2
    <3>2. QED
      BY <1>1, <1>3, <2>2, <3>1
  <2>3. CASE i # k
    <3>1. i \in DOMAIN cs /\ es[i] = cs[i]
      BY <1>5, <2>3
    <3>2. x \in DOMAIN f /\ es[i][x] = f[x]
      BY <1>1, <1>10, <3>1
    <3>3. QED
      BY <1>3, <1>7, <3>2
  <2>4. QED
    BY <2>1, <2>2, <2>3
<1>11. QED
  BY <1>3, <1>5, <1>8, <1>9, <1>10 DEF Holds, es, g, j

-----------------------------------------------------------------------------
(* One evaluation                                                          *)

Own(muts, ds, i) == Restrict(muts, {id \in DOMAIN muts : Route(muts[id], ds) = i})

(* The rows of chunk i after its mutations, and the chunks it becomes      *)
(* before any merge.                                                       *)
Updated(muts, ds, i) == Apply(ds[i], Own(muts, ds, i))
Base(muts, ds, i) == IF Rewritten(muts, ds, i) THEN Group(muts, ds, i) ELSE <<ds[i]>>

LEMMA OwnFacts ==
  ASSUME NEW muts \in Mutations, NEW ds, NEW i
  PROVE  /\ Own(muts, ds, i) \in Mutations
         /\ \A x : x \in DOMAIN Own(muts, ds, i) <=> x \in DOMAIN muts /\ Route(muts[x], ds) = i
         /\ \A x \in DOMAIN Own(muts, ds, i) : Own(muts, ds, i)[x] = muts[x]
<1> DEFINE D == {id \in DOMAIN muts : Route(muts[id], ds) = i}
<1>1. Own(muts, ds, i) = [x \in D |-> muts[x]]
  BY DEF Own, Restrict
<1>2. /\ DOMAIN muts \in SUBSET DocId /\ IsFiniteSet(DOMAIN muts)
      /\ \A id \in DOMAIN muts : muts[id] \in Mutation /\ muts[id].id = id
  BY MutationsFacts
<1>3. D \in SUBSET DOMAIN muts
  OBVIOUS
<1>4. IsFiniteSet(D) /\ D \in SUBSET DocId
  BY <1>2, <1>3, FS_Subset
<1>5. [x \in D |-> muts[x]] \in [D -> Mutation] /\ \A id \in D : [x \in D |-> muts[x]][id].id = id
  BY <1>2, <1>3
<1>6. Own(muts, ds, i) \in Mutations
  <2> DEFINE own == [x \in D |-> muts[x]]
  <2>1. own \in [D -> Mutation] /\ \A id \in D : own[id].id = id
    BY <1>5
  <2> HIDE DEF own, D
  <2>2. own \in Mutations
    BY <1>4, <2>1, MutationsIntro
  <2>3. QED
    BY <1>1, <2>2 DEF own
<1>7. QED
  BY <1>1, <1>6

(* A single chunk holds its rows.                                          *)
LEMMA OneHolds ==
  ASSUME NEW c \in Rows, DOMAIN c # {} PROVE Holds(<<c>>, c)
<1>1. <<c>> \in Seq(Rows) /\ DOMAIN <<c>> = {1} /\ <<c>>[1] = c
  OBVIOUS
<1>2. InIdOrder(<<c>>)
  BY <1>1 DEF InIdOrder
<1>3. QED
  BY <1>1, <1>2 DEF Holds

LEMMA UpdatedFacts ==
  ASSUME NEW muts \in Mutations, NEW ds \in Seq(Rows), InIdOrder(ds), ds # <<>>,
         NEW i \in DOMAIN ds
  PROVE  /\ Updated(muts, ds, i) \in Rows
         /\ Holds(Base(muts, ds, i), Updated(muts, ds, i))
         /\ \A x \in DOMAIN Updated(muts, ds, i) : x \in Int /\ Owns(ds, i, x)
         /\ i \notin Direct(muts, ds) => Updated(muts, ds, i) = ds[i]
<1> DEFINE own == Own(muts, ds, i)
           new == Updated(muts, ds, i)
<1>1. /\ own \in Mutations
      /\ \A x : x \in DOMAIN own <=> x \in DOMAIN muts /\ Route(muts[x], ds) = i
      /\ \A x \in DOMAIN own : own[x] = muts[x]
  BY OwnFacts
<1>2. ds[i] \in Rows /\ DOMAIN ds[i] # {} /\ i \in 1 .. Len(ds) /\ Len(ds) \in Nat
  BY DEF InIdOrder
<1>3. new = Apply(ds[i], own)
  BY DEF Updated
<1> HIDE DEF own
<1>4. /\ new \in Rows
      /\ \A x : x \in DOMAIN new <=>
           \/ x \in DOMAIN own /\ own[x].op # "D"
           \/ x \in DOMAIN ds[i] /\ x \notin DOMAIN own
      /\ \A x \in DOMAIN ds[i] \ DOMAIN own : new[x] = ds[i][x]
  BY <1>1, <1>2, <1>3, ApplyFacts
<1>5. Group(muts, ds, i) = IF new = ds[i] THEN <<ds[i]>> ELSE Split(new)
  BY <1>3 DEF Group, own, Own
<1> HIDE DEF new
<1>6. ASSUME NEW x \in DOMAIN new PROVE x \in Int /\ Owns(ds, i, x)
  <2>1. x \in Int
    BY <1>4, RowsFacts
  <2>2. CASE x \in DOMAIN own
    <3>1. x \in DOMAIN muts /\ Route(muts[x], ds) = i /\ i # 0
      BY <1>1, <1>2, <2>2
    <3>2. muts[x].id = x
      BY <3>1, MutationsFacts
    <3>3. QED
      BY <2>1, <3>1, <3>2, RouteFacts
  <2>3. CASE x \notin DOMAIN own
    <3>1. x \in DOMAIN ds[i]
      BY <1>4, <2>3
    <3>2. QED
      BY <2>1, <3>1, OwnsIts
  <2>4. QED
    BY <2>2, <2>3
<1>7. ASSUME i \notin Direct(muts, ds) PROVE new = ds[i]
  <2>1. \A x : x \notin DOMAIN own
    BY <1>1, <1>2, <1>7 DEF Direct
  <2>2. /\ \A x : x \in DOMAIN new <=> x \in DOMAIN ds[i]
        /\ \A x \in DOMAIN new : new[x] = ds[i][x]
    BY <1>4, <2>1
  <2>3. QED
    BY <1>2, <1>4, <2>2, SameRows
<1>8. Holds(Base(muts, ds, i), new)
  <2>1. CASE new = ds[i]
    <3>1. Base(muts, ds, i) = <<ds[i]>>
      BY <1>5, <2>1 DEF Base, Rewritten
    <3>2. QED
      BY <1>2, <2>1, <3>1, OneHolds
  <2>2. CASE new # ds[i]
    <3>1. i \in Direct(muts, ds) /\ Group(muts, ds, i) = Split(new)
      BY <1>5, <1>7, <2>2
    <3>2. Base(muts, ds, i) = Split(new)
      BY <3>1 DEF Base, Rewritten
    <3>3. QED
      BY <1>4, <3>2, SplitHolds
  <2>3. QED
    BY <2>1, <2>2
<1>9. QED
  BY <1>4, <1>6, <1>7, <1>8 DEF new

(* Chunk by chunk the updated rows are the updated rows.                   *)
LEMMA UpdatedTogether ==
  ASSUME NEW muts \in Mutations, NEW ds, NEW rows, Holds(ds, rows), ds # <<>>
  PROVE  /\ Apply(rows, muts) \in Rows
         /\ \A x \in DOMAIN Apply(rows, muts) : \E i \in DOMAIN ds : x \in DOMAIN Updated(muts, ds, i)
         /\ \A i \in DOMAIN ds : \A x \in DOMAIN Updated(muts, ds, i) :
              x \in DOMAIN Apply(rows, muts) /\ Updated(muts, ds, i)[x] = Apply(rows, muts)[x]
<1> DEFINE f == Apply(rows, muts)
           own(i) == Own(muts, ds, i)
           new(i) == Updated(muts, ds, i)
<1>1. /\ ds \in Seq(Rows) /\ rows \in Rows /\ InIdOrder(ds)
      /\ \A x \in DOMAIN rows : \E i \in DOMAIN ds : x \in DOMAIN ds[i]
      /\ \A i \in DOMAIN ds : \A x \in DOMAIN ds[i] : x \in DOMAIN rows /\ ds[i][x] = rows[x]
  BY DEF Holds
<1>2. /\ f \in Rows
      /\ \A x : x \in DOMAIN f <=>
           \/ x \in DOMAIN muts /\ muts[x].op # "D"
           \/ x \in DOMAIN rows /\ x \notin DOMAIN muts
      /\ \A x \in DOMAIN muts : muts[x].op # "D" => f[x] = muts[x].body
      /\ \A x \in DOMAIN rows \ DOMAIN muts : f[x] = rows[x]
  BY <1>1, ApplyFacts
<1> HIDE DEF f
<1>3. ASSUME NEW i \in DOMAIN ds
      PROVE  /\ \A x : x \in DOMAIN own(i) <=> x \in DOMAIN muts /\ Route(muts[x], ds) = i
             /\ \A x : x \in DOMAIN new(i) <=>
                  \/ x \in DOMAIN own(i) /\ muts[x].op # "D"
                  \/ x \in DOMAIN ds[i] /\ x \notin DOMAIN own(i)
             /\ \A x \in DOMAIN own(i) : muts[x].op # "D" => new(i)[x] = muts[x].body
             /\ \A x \in DOMAIN ds[i] \ DOMAIN own(i) : new(i)[x] = ds[i][x]
  <2> DEFINE o == own(i)
  <2>1. /\ o \in Mutations
        /\ \A x : x \in DOMAIN o <=> x \in DOMAIN muts /\ Route(muts[x], ds) = i
        /\ \A x \in DOMAIN o : o[x] = muts[x]
    BY OwnFacts
  <2>2. ds[i] \in Rows
    BY <1>1
  <2>3. new(i) = Apply(ds[i], o)
    BY DEF Updated
  <2> HIDE DEF o
  <2>4. /\ \A x : x \in DOMAIN Apply(ds[i], o) <=>
             \/ x \in DOMAIN o /\ o[x].op # "D"
             \/ x \in DOMAIN ds[i] /\ x \notin DOMAIN o
        /\ \A x \in DOMAIN o : o[x].op # "D" => Apply(ds[i], o)[x] = o[x].body
        /\ \A x \in DOMAIN ds[i] \ DOMAIN o : Apply(ds[i], o)[x] = ds[i][x]
    BY <2>1, <2>2, ApplyFacts
  <2>5. o = own(i)
    BY DEF o
  <2> HIDE DEF own, new
  <2>6. QED
    BY <2>1, <2>3, <2>4, <2>5
<1>4. ASSUME NEW x \in DOMAIN muts
      PROVE  /\ muts[x].op # "D" => Route(muts[x], ds) \in DOMAIN ds
             /\ \A i \in DOMAIN ds : x \in DOMAIN ds[i] => Route(muts[x], ds) = i
  <2>1. muts[x].id = x /\ x \in Int
    BY MutationsFacts
  <2>2. /\ Route(muts[x], ds) \in 0 .. Len(ds)
        /\ muts[x].op # "D" => Route(muts[x], ds) # 0
        /\ \A i \in DOMAIN ds : x \in DOMAIN ds[i] => Route(muts[x], ds) = i
    BY <1>1, <2>1, RouteFacts
  <2>3. DOMAIN ds = 1 .. Len(ds) /\ Len(ds) \in Nat
    BY <1>1
  <2>4. muts[x].op # "D" => Route(muts[x], ds) \in 1 .. Len(ds)
    BY <2>2, <2>3
  <2>5. QED
    BY <2>2, <2>3, <2>4
<1> HIDE DEF own, new
<1>5. ASSUME NEW x \in DOMAIN f PROVE \E i \in DOMAIN ds : x \in DOMAIN new(i)
  <2>1. CASE x \in DOMAIN muts /\ muts[x].op # "D"
    <3>1. Route(muts[x], ds) \in DOMAIN ds
      BY <1>4, <2>1
    <3>2. x \in DOMAIN new(Route(muts[x], ds))
      BY <1>3, <2>1, <3>1
    <3>3. QED
      BY <3>1, <3>2
  <2>2. CASE x \in DOMAIN rows /\ x \notin DOMAIN muts
    <3>1. PICK i \in DOMAIN ds : x \in DOMAIN ds[i]
      BY <1>1, <2>2
    <3>2. QED
      BY <1>3, <2>2, <3>1
  <2>3. QED
    BY <1>2, <2>1, <2>2
<1>6. ASSUME NEW i \in DOMAIN ds, NEW x \in DOMAIN new(i)
      PROVE  x \in DOMAIN f /\ new(i)[x] = f[x]
  <2>1. CASE x \in DOMAIN own(i)
    BY <1>2, <1>3, <2>1
  <2>2. CASE x \notin DOMAIN own(i)
    <3>1. x \in DOMAIN ds[i] /\ new(i)[x] = ds[i][x]
      BY <1>3, <2>2
    <3>2. x \notin DOMAIN muts
      BY <1>3, <1>4, <2>2, <3>1
    <3>3. QED
      BY <1>1, <1>2, <3>1, <3>2
  <2>3. QED
    BY <2>1, <2>2
<1>7. QED
  BY <1>2, <1>5, <1>6 DEF f, new

LEMMA NoRows ==
  /\ <<>> \in Rows /\ DOMAIN <<>> = {}
  /\ \A f \in Rows : DOMAIN f = {} => f = <<>>
  /\ Holds(<<>>, <<>>)
<1>1. DOMAIN <<>> = {}
  OBVIOUS
<1>2. <<>> \in [{} -> Body]
  OBVIOUS
<1>3. <<>> \in Rows
  BY <1>2, FS_EmptySet, RowsIntro
<1>4. ASSUME NEW f \in Rows, DOMAIN f = {} PROVE f = <<>>
  BY <1>1, <1>3, <1>4, SameRows
<1>5. Holds(<<>>, <<>>)
  BY <1>1, <1>3 DEF Holds, InIdOrder
<1>6. QED
  BY <1>1, <1>3, <1>4, <1>5

(* The merge of a facing pair, in isolation: the owner's outputs and the   *)
(* untouched neighbor.                                                     *)
LEMMA FacingMerge ==
  ASSUME NEW muts \in Mutations, NEW ds \in Seq(Rows), InIdOrder(ds), ds # <<>>,
         NEW pair, Adjacent(pair, ds), MergeEligible(muts, ds, pair)
  PROVE  /\ pair.owner \in DOMAIN ds /\ pair.neighbor \in DOMAIN ds /\ pair.owner # pair.neighbor
         /\ pair.neighbor = pair.owner + 1 \/ pair.neighbor = pair.owner - 1
         /\ Updated(muts, ds, pair.neighbor) = ds[pair.neighbor]
         /\ Holds(Outputs(muts, ds, pair, pair.owner),
                  Joined(ds[pair.neighbor], Updated(muts, ds, pair.owner)))
<1> DEFINE o == pair.owner
           b == pair.neighbor
           out == Group(muts, ds, o)
           k == Facing(pair, out)
           new == Updated(muts, ds, o)
<1>1. /\ b # 0 /\ Rewritten(muts, ds, o) /\ out # <<>> /\ b \notin Direct(muts, ds)
  BY DEF MergeEligible, MergeCandidate, Underfull
<1>2. o \in DOMAIN ds /\ b \in DOMAIN ds /\ (b = o + 1 \/ b = o - 1)
  BY <1>1 DEF Adjacent
<1>3. DOMAIN ds = 1 .. Len(ds) /\ Len(ds) \in Nat /\ o \in Int /\ b \in Int
  BY <1>2
<1>4. o # b
  BY <1>2, <1>3
<1>5. /\ new \in Rows /\ Holds(out, new)
      /\ \A x \in DOMAIN new : x \in Int /\ Owns(ds, o, x)
  BY <1>1, <1>2, UpdatedFacts DEF Base
<1>6. Updated(muts, ds, b) = ds[b]
  BY <1>1, <1>2, UpdatedFacts
<1>7. ds[b] \in Rows /\ \A y \in DOMAIN ds[b] : y \in Int /\ Owns(ds, b, y)
  BY <1>2, <1>6, UpdatedFacts
<1>8. Outputs(muts, ds, pair, o) = [out EXCEPT ![k] = Joined(ds[b], out[k])]
  BY <1>1, <1>4 DEF Outputs, Combined
<1>9. out \in Seq(Rows) /\ DOMAIN out = 1 .. Len(out) /\ Len(out) \in Nat /\ Len(out) # 0
  <2>1. out \in Seq(Rows)
    BY <1>5 DEF Holds
  <2>2. QED
    BY <1>1, <2>1
<1>10. k = IF b > o THEN Len(out) ELSE 1
  BY DEF Facing
<1> HIDE DEF out, k, new
<1>11. k \in DOMAIN out
  BY <1>9, <1>10
<1>12. CASE b > o
  <2>1. ASSUME NEW x \in DOMAIN new, NEW y \in DOMAIN ds[b] PROVE x < y
    BY <1>2, <1>3, <1>5, <1>7, <1>12, OwnedInOrder
  <2>2. k = Len(out)
    BY <1>10, <1>12
  <2>3. Holds([out EXCEPT ![k] = Joined(ds[b], out[k])], Joined(ds[b], new))
    BY <1>5, <1>7, <1>11, <2>1, <2>2, MergeHolds
  <2>4. QED
    BY <1>2, <1>4, <1>6, <1>8, <2>3 DEF new
<1>13. CASE ~(b > o)
  <2>1. ASSUME NEW x \in DOMAIN ds[b], NEW y \in DOMAIN new PROVE x < y
    <3>1. b < o
      BY <1>3, <1>4, <1>13
    <3>2. QED
      BY <1>2, <1>5, <1>7, <3>1, OwnedInOrder
  <2>2. k = 1
    BY <1>10, <1>13
  <2>3. Holds([out EXCEPT ![k] = Joined(ds[b], out[k])], Joined(ds[b], new))
    BY <1>5, <1>7, <1>11, <2>1, <2>2, MergeHolds
  <2>4. QED
    BY <1>2, <1>4, <1>6, <1>8, <2>3 DEF new
<1>14. QED
  BY <1>12, <1>13

(* What the chunks of an evaluation hold.                                  *)
LEMMA MintHolds ==
  ASSUME NEW muts \in Mutations, NEW ds, NEW rows, Holds(ds, rows),
         NEW pair, Adjacent(pair, ds)
  PROVE  Holds(Mint(muts, ds, pair), Apply(rows, muts))
<1>1. ds \in Seq(Rows) /\ rows \in Rows /\ InIdOrder(ds)
  BY DEF Holds
<1>2. CASE ds = <<>>
  <2>1. rows = <<>>
    <3>1. DOMAIN rows = {}
      BY <1>2 DEF Holds
    <3>2. QED
      BY <1>1, <3>1, NoRows
  <2>2. Apply(<<>>, muts) \in Rows
    BY NoRows, ApplyFacts
  <2>3. QED
    BY <1>2, <2>1, <2>2, SplitHolds DEF Mint
<1>3. CASE ds # <<>>
  <2> DEFINE n == Len(ds)
             f == Apply(rows, muts)
             new == [i \in 1 .. n |-> Updated(muts, ds, i)]
             parts == [i \in 1 .. n |-> Outputs(muts, ds, pair, i)]
  <2>1. DOMAIN ds = 1 .. n /\ n \in Nat
    BY <1>1
  <2>2. Mint(muts, ds, pair) = Concat(parts)
    BY <1>3, <2>1 DEF Mint
  <2>3. /\ f \in Rows
        /\ \A x \in DOMAIN f : \E i \in 1 .. n : x \in DOMAIN new[i]
        /\ \A i \in 1 .. n : \A x \in DOMAIN new[i] : x \in DOMAIN f /\ new[i][x] = f[x]
    BY <1>3, <2>1, UpdatedTogether
  <2>4. ASSUME NEW i \in 1 .. n
        PROVE  /\ new[i] \in Rows /\ Holds(Base(muts, ds, i), new[i])
               /\ \A x \in DOMAIN new[i] : x \in Int /\ Owns(ds, i, x)
    BY <1>1, <1>3, <2>1, UpdatedFacts
  <2>5. ASSUME NEW i \in 1 .. n, NEW j \in 1 .. n, i < j,
               NEW x \in DOMAIN new[i], NEW y \in DOMAIN new[j]
        PROVE  x < y
    BY <1>1, <2>1, <2>4, <2>5, OwnedInOrder
  <2> HIDE DEF f, new
  <2>6. CASE ~MergeEligible(muts, ds, pair)
    <3>1. ASSUME NEW i \in 1 .. n PROVE Holds(parts[i], new[i])
      BY <2>4, <2>6 DEF Outputs, Base
    <3>2. DOMAIN parts = 1 .. n
      OBVIOUS
    <3> HIDE DEF parts, n
    <3>3. Holds(Concat(parts), f)
      BY <2>1, <2>3, <2>5, <3>1, <3>2, ConcatHolds
    <3>4. QED
      BY <2>2, <3>3 DEF f
  <2>7. CASE MergeEligible(muts, ds, pair)
    <3> DEFINE o == pair.owner
               b == pair.neighbor
               g == [i \in 1 .. n |-> IF i = b THEN <<>> ELSE IF i = o THEN Joined(ds[b], new[o])
                                      ELSE new[i]]
    <3>1. /\ o \in 1 .. n /\ b \in 1 .. n /\ o # b /\ (b = o + 1 \/ b = o - 1)
          /\ new[b] = ds[b] /\ Holds(parts[o], Joined(ds[b], new[o]))
      BY <1>1, <1>3, <2>1, <2>7, FacingMerge DEF new
    <3>2. /\ Joined(ds[b], new[o]) \in Rows
          /\ DOMAIN Joined(ds[b], new[o]) = DOMAIN new[b] \cup DOMAIN new[o]
          /\ \A x \in DOMAIN new[b] : Joined(ds[b], new[o])[x] = new[b][x]
          /\ \A x \in DOMAIN new[o] \ DOMAIN new[b] : Joined(ds[b], new[o])[x] = new[o][x]
      <4>1. new[b] \in Rows /\ new[o] \in Rows
        BY <2>4, <3>1
      <4>2. /\ Joined(new[b], new[o]) \in Rows
            /\ DOMAIN Joined(new[b], new[o]) = DOMAIN new[b] \cup DOMAIN new[o]
            /\ \A x \in DOMAIN new[b] : Joined(new[b], new[o])[x] = new[b][x]
            /\ \A x \in DOMAIN new[o] \ DOMAIN new[b] : Joined(new[b], new[o])[x] = new[o][x]
        BY <4>1, JoinedRows
      <4>3. QED
        BY <3>1, <4>2
    <3>3. parts[b] = <<>>
      BY <2>7, <3>1 DEF Outputs
    <3>4. ASSUME NEW i \in 1 .. n, i # o, i # b PROVE parts[i] = Base(muts, ds, i)
      BY <2>7, <3>4 DEF Outputs, Base
    <3>5. g[b] = <<>> /\ g[o] = Joined(ds[b], new[o])
          /\ \A i \in 1 .. n : i # o /\ i # b => g[i] = new[i]
      BY <3>1
    <3>6. DOMAIN parts = 1 .. n
      OBVIOUS
    <3> HIDE DEF parts, n, g, o, b
    <3>7. ASSUME NEW i \in 1 .. n PROVE Holds(parts[i], g[i])
      <4>1. CASE i = b
        BY <3>3, <3>5, <4>1, NoRows
      <4>2. CASE i = o
        BY <3>1, <3>5, <4>2
      <4>3. CASE i # o /\ i # b
        BY <2>4, <3>4, <3>5, <4>3
      <4>4. QED
        BY <4>1, <4>2, <4>3
    (* Each row of a part is a row of one updated chunk.                   *)
    <3>8. ASSUME NEW i \in 1 .. n, NEW x \in DOMAIN g[i]
          PROVE  /\ i # b
                 /\ \E j \in 1 .. n : /\ x \in DOMAIN new[j] /\ g[i][x] = new[j][x]
                                      /\ j = i \/ (i = o /\ j = b)
      <4>1. i # b
        BY <3>5, NoRows
      <4>2. CASE i = o /\ x \in DOMAIN new[b]
        BY <3>1, <3>2, <3>5, <4>1, <4>2
      <4>3. CASE i = o /\ x \notin DOMAIN new[b]
        BY <3>1, <3>2, <3>5, <4>1, <4>3
      <4>4. CASE i # o
        BY <3>5, <4>1, <4>4
      <4>5. QED
        BY <4>2, <4>3, <4>4
    <3>9. ASSUME NEW i \in 1 .. n, NEW j \in 1 .. n, i < j,
                 NEW x \in DOMAIN g[i], NEW y \in DOMAIN g[j]
          PROVE  x < y
      <4>1. PICK p \in 1 .. n : x \in DOMAIN new[p] /\ (p = i \/ (i = o /\ p = b))
        BY <3>8
      <4>2. PICK q \in 1 .. n : y \in DOMAIN new[q] /\ (q = j \/ (j = o /\ q = b))
        BY <3>8
      <4>3. i # b /\ j # b
        BY <3>8
      <4>4. p < q
        BY <2>1, <3>1, <3>9, <4>1, <4>2, <4>3
      <4>5. QED
        BY <2>5, <4>1, <4>2, <4>4
    <3>10. ASSUME NEW x \in DOMAIN f PROVE \E i \in 1 .. n : x \in DOMAIN g[i]
      <4>1. PICK i \in 1 .. n : x \in DOMAIN new[i]
        BY <2>3
      <4>2. CASE i = o \/ i = b
        BY <3>1, <3>2, <3>5, <4>1, <4>2
      <4>3. CASE i # o /\ i # b
        BY <3>5, <4>1, <4>3
      <4>4. QED
        BY <4>2, <4>3
    <3>11. ASSUME NEW i \in 1 .. n, NEW x \in DOMAIN g[i] PROVE x \in DOMAIN f /\ g[i][x] = f[x]
      BY <2>3, <3>8
    <3>12. Holds(Concat(parts), f)
      BY <2>1, <2>3, <3>6, <3>7, <3>9, <3>10, <3>11, ConcatHolds
    <3>13. QED
      BY <2>2, <3>12 DEF f
  <2>8. QED
    BY <2>6, <2>7
<1>4. QED
  BY <1>2, <1>3

-----------------------------------------------------------------------------
(* Last write wins per document, against one entry after the other         *)

(* The last entry of a document.                                           *)
IsLast(es, id, i) ==
  /\ i \in DOMAIN es /\ es[i].id = id
  /\ \A j \in DOMAIN es : i < j => es[j].id # id

LEMMA FinalFacts ==
  ASSUME NEW es \in Seq(Mutation)
  PROVE  /\ Final(es) \in Mutations
         /\ \A id : id \in DOMAIN Final(es) <=> \E i \in DOMAIN es : es[i].id = id
         /\ \A id \in DOMAIN Final(es) : \E i : IsLast(es, id, i) /\ Final(es)[id] = es[i]
<1> DEFINE n == Len(es)
           ids == {es[i].id : i \in DOMAIN es}
           at(id) == {i \in DOMAIN es : es[i].id = id}
           fin == Final(es)
<1>1. n \in Nat /\ DOMAIN es = 1 .. n /\ \A i \in 1 .. n : es[i] \in Mutation
  OBVIOUS
<1>2. fin = [id \in ids |-> es[Max(at(id))]]
  BY DEF Final
<1>3. IsFiniteSet(1 .. n)
  BY <1>1, FS_Interval
<1>4. IsFiniteSet(ids) /\ ids \in SUBSET DocId
  <2> DEFINE f == [i \in 1 .. n |-> es[i].id]
  <2>1. f \in Surjection(1 .. n, ids)
    BY <1>1 DEF Surjection
  <2>2. IsFiniteSet(ids)
    BY <1>3, <2>1, FS_Surjection
  <2>3. ids \in SUBSET DocId
    BY <1>1, MutationFacts
  <2>4. QED
    BY <2>2, <2>3
<1>5. ASSUME NEW id \in ids PROVE IsLast(es, id, Max(at(id)))
  <2>1. at(id) \in SUBSET (1 .. n) /\ at(id) \in SUBSET Int /\ at(id) # {}
    BY <1>1
  <2>2. IsFiniteSet(at(id))
    BY <1>3, <2>1, FS_Subset
  <2>3. Max(at(id)) \in at(id) /\ \A j \in at(id) : j <= Max(at(id))
    BY <2>1, <2>2, FiniteExtremes
  <2> DEFINE m == Max(at(id))
  <2>4. m \in 1 .. n /\ es[m].id = id
    BY <1>1, <2>3
  <2> HIDE DEF m
  <2>5. ASSUME NEW j \in DOMAIN es, m < j PROVE es[j].id # id
    <3> SUFFICES ASSUME es[j].id = id PROVE FALSE
      OBVIOUS
    <3>1. j <= m
      BY <2>3 DEF m
    <3>2. QED
      BY <1>1, <2>4, <2>5, <3>1
  <2>6. QED
    BY <1>1, <2>4, <2>5 DEF IsLast, m
<1> HIDE DEF at
<1>6. \A id \in ids : fin[id] = es[Max(at(id))] /\ fin[id] \in Mutation /\ fin[id].id = id
  BY <1>1, <1>2, <1>5 DEF IsLast
<1>7. DOMAIN fin = ids /\ fin \in [ids -> Mutation]
  BY <1>2, <1>6
<1>8. fin \in Mutations
  BY <1>4, <1>6, <1>7, MutationsIntro
<1>9. \A id : id \in ids <=> \E i \in DOMAIN es : es[i].id = id
  OBVIOUS
<1> HIDE DEF ids, fin
<1>10. \A id \in ids : \E i : IsLast(es, id, i) /\ fin[id] = es[i]
  BY <1>5, <1>6
<1>11. QED
  BY <1>7, <1>8, <1>9, <1>10 DEF fin

LEMMA SingleMutation ==
  ASSUME NEW mu \in Mutation
  PROVE  /\ [id \in {mu.id} |-> mu] \in Mutations
<1>1. {mu.id} \in SUBSET DocId
  BY MutationFacts
<1>2. IsFiniteSet({mu.id})
  BY FS_Singleton
<1>3. [id \in {mu.id} |-> mu] \in [{mu.id} -> Mutation]
  OBVIOUS
<1>4. \A id \in {mu.id} : [x \in {mu.id} |-> mu][id].id = id
  OBVIOUS
<1>5. QED
  BY <1>1, <1>2, <1>3, <1>4, MutationsIntro

(* One more entry.                                                         *)
LEMMA ApplyOneMore ==
  ASSUME NEW rows \in Rows, NEW es \in Seq(Mutation), NEW mu \in Mutation
  PROVE  Apply(rows, Final(Append(es, mu))) = ApplyOne(Apply(rows, Final(es)), mu)
<1> DEFINE n == Len(es)
           fs == Append(es, mu)
           F == Final(es)
           G == Final(fs)
           one == [id \in {mu.id} |-> mu]
           mid == Apply(rows, F)
<1>1. /\ n \in Nat /\ DOMAIN es = 1 .. n
      /\ fs \in Seq(Mutation) /\ DOMAIN fs = 1 .. (n + 1) /\ fs[n + 1] = mu
      /\ \A i \in 1 .. n : fs[i] = es[i]
  OBVIOUS
<1> HIDE DEF fs
<1>2. /\ F \in Mutations
      /\ \A id : id \in DOMAIN F <=> \E i \in DOMAIN es : es[i].id = id
      /\ \A id \in DOMAIN F : \E i : IsLast(es, id, i) /\ F[id] = es[i]
  BY FinalFacts
<1>3. /\ G \in Mutations
      /\ \A id : id \in DOMAIN G <=> \E i \in DOMAIN fs : fs[i].id = id
      /\ \A id \in DOMAIN G : \E i : IsLast(fs, id, i) /\ G[id] = fs[i]
  BY <1>1, FinalFacts
<1> HIDE DEF F, G
<1>4. \A id : id \in DOMAIN G <=> id = mu.id \/ id \in DOMAIN F
  <2>1. \A i : i \in 1 .. (n + 1) <=> i = n + 1 \/ i \in 1 .. n
    BY <1>1
  <2>2. QED
    BY <1>1, <1>2, <1>3, <2>1
<1>5. mu.id \in DOMAIN G /\ G[mu.id] = mu
  <2>1. mu.id \in DOMAIN G
    BY <1>4
  <2>2. PICK i : IsLast(fs, mu.id, i) /\ G[mu.id] = fs[i]
    BY <1>3, <2>1
  <2>3. i \in 1 .. (n + 1) /\ ~(i < n + 1)
    BY <1>1, <2>2 DEF IsLast
  <2>4. i = n + 1
    BY <1>1, <2>3
  <2>5. QED
    BY <1>1, <2>1, <2>2, <2>4
<1>6. ASSUME NEW id \in DOMAIN F, id # mu.id PROVE id \in DOMAIN G /\ G[id] = F[id]
  <2>1. id \in DOMAIN G
    BY <1>4
  <2>2. PICK i : IsLast(fs, id, i) /\ G[id] = fs[i]
    BY <1>3, <2>1
  <2>3. PICK j : IsLast(es, id, j) /\ F[id] = es[j]
    BY <1>2
  <2>4. i \in 1 .. (n + 1) /\ fs[i].id = id /\ \A m \in 1 .. (n + 1) : i < m => fs[m].id # id
    BY <1>1, <2>2 DEF IsLast
  <2>5. j \in 1 .. n /\ es[j].id = id /\ \A m \in 1 .. n : j < m => es[m].id # id
    BY <1>1, <2>3 DEF IsLast
  <2>6. i # n + 1
    BY <1>1, <1>6, <2>4
  <2>7. i \in 1 .. n /\ j \in 1 .. (n + 1)
    BY <1>1, <2>4, <2>5, <2>6
  <2>8. ~(i < j) /\ ~(j < i)
    BY <1>1, <2>4, <2>5, <2>7
  <2>9. i = j
    BY <1>1, <2>7, <2>8
  <2>10. QED
    BY <1>1, <2>1, <2>2, <2>3, <2>7, <2>9
<1>7. /\ one \in Mutations /\ \A x : x \in DOMAIN one <=> x = mu.id
      /\ one[mu.id] = mu
  BY SingleMutation
<1>8. ApplyOne(mid, mu) = Apply(mid, one)
  BY DEF ApplyOne
<1> HIDE DEF one
<1>9. /\ mid \in Rows
      /\ \A x : x \in DOMAIN mid <=>
           \/ x \in DOMAIN F /\ F[x].op # "D"
           \/ x \in DOMAIN rows /\ x \notin DOMAIN F
      /\ \A x \in DOMAIN F : F[x].op # "D" => mid[x] = F[x].body
      /\ \A x \in DOMAIN rows \ DOMAIN F : mid[x] = rows[x]
  BY <1>2, ApplyFacts
<1> HIDE DEF mid
<1> DEFINE a == Apply(mid, one)
           b == Apply(rows, G)
<1>10. /\ a \in Rows
       /\ \A x : x \in DOMAIN a <=>
            \/ x \in DOMAIN one /\ one[x].op # "D"
            \/ x \in DOMAIN mid /\ x \notin DOMAIN one
       /\ \A x \in DOMAIN one : one[x].op # "D" => a[x] = one[x].body
       /\ \A x \in DOMAIN mid \ DOMAIN one : a[x] = mid[x]
  BY <1>7, <1>9, ApplyFacts
<1>11. /\ b \in Rows
       /\ \A x : x \in DOMAIN b <=>
            \/ x \in DOMAIN G /\ G[x].op # "D"
            \/ x \in DOMAIN rows /\ x \notin DOMAIN G
       /\ \A x \in DOMAIN G : G[x].op # "D" => b[x] = G[x].body
       /\ \A x \in DOMAIN rows \ DOMAIN G : b[x] = rows[x]
  BY <1>3, ApplyFacts
<1> HIDE DEF a, b
<1>12. ASSUME NEW x PROVE (x \in DOMAIN a <=> x \in DOMAIN b) /\ (x \in DOMAIN b => a[x] = b[x])
  <2>1. CASE x = mu.id
    BY <1>5, <1>7, <1>10, <1>11, <2>1
  <2>2. CASE x # mu.id /\ x \in DOMAIN F
    <3>1. x \in DOMAIN G /\ G[x] = F[x] /\ x \notin DOMAIN one
      BY <1>6, <1>7, <2>2
    <3>2. QED
      BY <1>9, <1>10, <1>11, <2>2, <3>1
  <2>3. CASE x # mu.id /\ x \notin DOMAIN F
    <3>1. x \notin DOMAIN G /\ x \notin DOMAIN one
      BY <1>4, <1>7, <2>3
    <3>2. QED
      BY <1>9, <1>10, <1>11, <2>3, <3>1
  <2>4. QED
    BY <2>1, <2>2, <2>3
<1>13. a = b
  BY <1>10, <1>11, <1>12, SameRows
<1>14. QED
  BY <1>8, <1>13 DEF a, b, mid, F, G, fs

(* The state that one by one folding reaches after k entries is the state  *)
(* that applying the last mutation of each document of the prefix gives.   *)
LEMMA OneByOneIsApply ==
  ASSUME NEW es \in Seq(Mutation), NEW fs \in Seq(Rows), Len(fs) = Len(es) + 1,
         \A k \in 1 .. Len(es) : fs[k + 1] = ApplyOne(fs[k], es[k]),
         NEW k \in 0 .. Len(es)
  PROVE  Upto(es, k) \in Mutations /\ fs[k + 1] = Apply(fs[1], Upto(es, k))
<1> DEFINE n == Len(es)
           bad == {m \in 0 .. n : fs[m + 1] # Apply(fs[1], Upto(es, m))}
<1>1. n \in Nat /\ DOMAIN es = 1 .. n /\ fs[1] \in Rows
  OBVIOUS
<1>2. ASSUME NEW m \in 0 .. n PROVE SubSeq(es, 1, m) \in Seq(Mutation) /\ Upto(es, m) \in Mutations
  <2>1. SubSeq(es, 1, m) \in Seq(Mutation)
    BY <1>1
  <2>2. QED
    BY <2>1, FinalFacts DEF Upto
<1>3. Apply(fs[1], Upto(es, 0)) = fs[1]
  <2> DEFINE u == Upto(es, 0)
             a == Apply(fs[1], u)
             none == SubSeq(es, 1, 0)
  <2>1. none \in Seq(Mutation) /\ \A i : i \notin DOMAIN none
    <3>1. none \in Seq(Mutation) /\ Len(none) = 0
      BY <1>1
    <3>2. DOMAIN none = 1 .. 0
      BY <3>1
    <3>3. QED
      BY <3>1, <3>2
  <2>2. u = Final(none)
    BY DEF Upto
  <2> HIDE DEF none
  <2>3. u \in Mutations /\ \A x : x \notin DOMAIN u
    BY <2>1, <2>2, FinalFacts
  <2> HIDE DEF u
  <2>4. /\ a \in Rows
        /\ \A x : x \in DOMAIN a <=>
             \/ x \in DOMAIN u /\ u[x].op # "D"
             \/ x \in DOMAIN fs[1] /\ x \notin DOMAIN u
        /\ \A x \in DOMAIN fs[1] \ DOMAIN u : a[x] = fs[1][x]
    BY <1>1, <2>3, ApplyFacts
  <2> HIDE DEF a
  <2>5. /\ \A x : x \in DOMAIN a <=> x \in DOMAIN fs[1]
        /\ \A x \in DOMAIN a : a[x] = fs[1][x]
    BY <2>3, <2>4
  <2>6. a = fs[1]
    BY <1>1, <2>4, <2>5, SameRows
  <2>7. QED
    BY <2>6 DEF a, u
<1>4. ASSUME NEW m \in 1 .. n, fs[m] = Apply(fs[1], Upto(es, m - 1))
      PROVE  fs[m + 1] = Apply(fs[1], Upto(es, m))
  <2> DEFINE pre == SubSeq(es, 1, m - 1)
  <2>1. pre \in Seq(Mutation) /\ es[m] \in Mutation
    BY <1>1
  <2>2. Append(pre, es[m]) = SubSeq(es, 1, m)
    BY <1>1
  <2> HIDE DEF pre
  <2>3. Apply(fs[1], Final(Append(pre, es[m]))) = ApplyOne(Apply(fs[1], Final(pre)), es[m])
    BY <1>1, <2>1, ApplyOneMore
  <2>4. fs[m + 1] = ApplyOne(fs[m], es[m])
    OBVIOUS
  <2>5. Upto(es, m - 1) = Final(pre) /\ Upto(es, m) = Final(Append(pre, es[m]))
    BY <2>2 DEF Upto, pre
  <2>6. QED
    BY <1>4, <2>3, <2>4, <2>5
<1>5. bad = {}
  <2> SUFFICES ASSUME bad # {} PROVE FALSE
    OBVIOUS
  <2>1. bad \in SUBSET (0 .. n) /\ bad \in SUBSET Int
    BY <1>1
  <2>2. IsFiniteSet(0 .. n)
    BY <1>1, FS_Interval
  <2>3. IsFiniteSet(bad)
    BY <2>1, <2>2, FS_Subset
  <2>4. PICK m \in bad : \A l \in bad : m <= l
    BY <2>1, <2>3, FiniteExtremes
  <2>5. m \in 0 .. n /\ fs[m + 1] # Apply(fs[1], Upto(es, m))
    BY <2>4
  <2>6. m # 0
    BY <1>3, <2>5
  <2>7. m \in 1 .. n /\ m - 1 \in 0 .. n /\ (m - 1) + 1 = m /\ ~(m <= m - 1)
    BY <1>1, <2>5, <2>6
  <2>8. m - 1 \notin bad
    BY <2>4, <2>7
  <2>9. fs[m] = Apply(fs[1], Upto(es, m - 1))
    BY <2>7, <2>8
  <2>10. QED
    BY <1>4, <2>5, <2>7, <2>9
<1>6. QED
  BY <1>2, <1>5

-----------------------------------------------------------------------------
(* The first phase                                                         *)

LEMMA UptoFacts ==
  ASSUME NEW es \in Seq(Mutation), NEW j \in 0 .. Len(es)
  PROVE  Upto(es, j) \in Mutations
<1>1. SubSeq(es, 1, j) \in Seq(Mutation)
  OBVIOUS
<1>2. QED
  BY <1>1, FinalFacts DEF Upto

(* Only chunks are touched.                                                *)
LEMMA DirectFacts ==
  ASSUME NEW ds \in Seq(Rows), InIdOrder(ds), NEW muts \in Mutations
  PROVE  Direct(muts, ds) \in SUBSET DOMAIN ds /\ Direct(muts, ds) \in SUBSET Nat
<1>1. Len(ds) \in Nat /\ DOMAIN ds = 1 .. Len(ds)
  OBVIOUS
<1>2. ASSUME NEW id \in DOMAIN muts PROVE Route(muts[id], ds) \in 0 .. Len(ds)
  <2>1. CASE ds = <<>>
    BY <1>1, <2>1 DEF Route
  <2>2. CASE ds # <<>>
    <3>1. muts[id].id \in Int
      BY MutationsFacts, MutationFacts
    <3>2. QED
      BY <2>2, <3>1, RouteFacts
  <2>3. QED
    BY <2>1, <2>2
<1>3. \A r \in Direct(muts, ds) : r \in 0 .. Len(ds) /\ r # 0
  BY <1>2 DEF Direct
<1>4. QED
  BY <1>1, <1>3

(* The pair of a prefix is two adjacent chunks.                            *)
LEMMA PairFacts ==
  ASSUME NEW ds \in Seq(Rows), NEW direct \in SUBSET DOMAIN ds
  PROVE  Pair(direct, ds) \in [owner : Nat, neighbor : Nat] /\ Adjacent(Pair(direct, ds), ds)
<1>1. Len(ds) \in Nat /\ DOMAIN ds = 1 .. Len(ds)
  OBVIOUS
<1>2. CASE direct = {}
  BY <1>2 DEF Pair, NoPair, Adjacent
<1>3. CASE direct # {}
  <2> DEFINE o == Min(direct)
  <2>1. direct \in SUBSET Int
    BY <1>1
  <2>2. IsFiniteSet(1 .. Len(ds))
    BY <1>1, FS_Interval
  <2>3. IsFiniteSet(direct)
    BY <1>1, <2>2, FS_Subset
  <2>4. o \in direct
    BY <1>3, <2>1, <2>3, FiniteExtremes
  <2>5. o \in 1 .. Len(ds)
    BY <1>1, <2>4
  <2>6. Pair(direct, ds) = [owner |-> o, neighbor |-> IF o < Len(ds) THEN o + 1 ELSE o - 1]
    BY <1>3 DEF Pair
  <2> HIDE DEF o
  <2>7. QED
    BY <1>1, <2>5, <2>6 DEF Adjacent
<1>4. QED
  BY <1>2, <1>3

LEMMA LockedFacts ==
  ASSUME NEW ds \in Seq(Rows), InIdOrder(ds), NEW es \in Seq(Mutation), NEW m \in 0 .. Len(es)
  PROVE  /\ LockedPair(es, ds, m) \in [owner : Nat, neighbor : Nat]
         /\ Adjacent(LockedPair(es, ds, m), ds)
<1> DEFINE T == Touching(es, ds, m)
<1>1. Len(es) \in Nat /\ m \in Nat
  OBVIOUS
<1>2. CASE T = {}
  BY <1>2 DEF LockedPair, NoPair, Adjacent
<1>3. CASE T # {}
  <2> DEFINE j == Min(T)
  <2>1. T \in SUBSET (1 .. m) /\ T \in SUBSET Int
    BY <1>1 DEF Touching
  <2>2. IsFiniteSet(1 .. m)
    BY <1>1, FS_Interval
  <2>3. IsFiniteSet(T)
    BY <2>1, <2>2, FS_Subset
  <2>4. j \in T
    BY <1>3, <2>1, <2>3, FiniteExtremes
  <2>5. j \in 0 .. Len(es)
    BY <1>1, <2>1, <2>4
  <2>6. LockedPair(es, ds, m) = Pair(Direct(Upto(es, j), ds), ds)
    BY <1>3 DEF LockedPair
  <2> HIDE DEF j
  <2>7. Direct(Upto(es, j), ds) \in SUBSET DOMAIN ds
    BY <2>5, UptoFacts, DirectFacts
  <2>8. QED
    BY <2>6, <2>7, PairFacts
<1>4. QED
  BY <1>2, <1>3

(* How far the walk goes.                                                  *)
LEMMA WalkFacts ==
  ASSUME NEW es \in Seq(Mutation), NEW ds
  PROVE  CandidateCount(es, ds) \in 0 .. Len(es) /\ WalkEnd(es, ds) \in 0 .. Len(es)
<1> DEFINE N == {n \in 0 .. Len(es) : \A m \in 1 .. n : Admissible(es, ds, m)}
           c == CandidateCount(es, ds)
<1>1. Len(es) \in Nat
  OBVIOUS
<1>2. N \in SUBSET (0 .. Len(es)) /\ N \in SUBSET Int
  BY <1>1
<1>3. 0 \in N
  BY <1>1
<1>4. IsFiniteSet(0 .. Len(es))
  BY <1>1, FS_Interval
<1>5. IsFiniteSet(N)
  BY <1>2, <1>4, FS_Subset
<1>6. c = Max(N)
  BY DEF CandidateCount
<1> HIDE DEF N, c
<1>7. c \in N
  BY <1>2, <1>3, <1>5, <1>6, FiniteExtremes
<1>8. c \in 0 .. Len(es)
  BY <1>2, <1>7
<1>9. WalkEnd(es, ds) = IF c < Len(es) /\ Fits(es, ds, c + 1) THEN c + 1 ELSE c
  BY DEF WalkEnd, c
<1>10. WalkEnd(es, ds) \in 0 .. Len(es)
  BY <1>1, <1>8, <1>9
<1>11. QED
  BY <1>8, <1>10 DEF c

LEMMA FetchFacts ==
  ASSUME NEW ds \in Seq(Rows), InIdOrder(ds), NEW es \in Seq(Mutation), NEW m \in 0 .. Len(es),
         NEW locked \in [owner : Nat, neighbor : Nat]
  PROVE  /\ FetchSet(es, ds, m, locked) \in SUBSET Nat
         /\ locked.neighbor # 0 => locked.neighbor \in FetchSet(es, ds, m, locked)
         /\ \A j \in 1 .. m : Direct(Upto(es, j), ds) \subseteq FetchSet(es, ds, m, locked)
<1>1. Len(es) \in Nat /\ m \in Nat /\ locked.neighbor \in Nat
  OBVIOUS
<1>2. \A j \in 1 .. m : j \in 0 .. Len(es)
  BY <1>1
<1>3. \A j \in 1 .. m : Direct(Upto(es, j), ds) \in SUBSET Nat
  BY <1>2, UptoFacts, DirectFacts
<1> DEFINE b == locked.neighbor
           F == FetchSet(es, ds, m, locked)
<1>4. b \in Nat
  BY <1>1
<1>5. \A r : r \in F <=> (\E j \in 1 .. m : r \in Direct(Upto(es, j), ds)) \/ (r = b /\ r # 0)
  BY DEF FetchSet
<1> HIDE DEF F, b
<1>6. F \in SUBSET Nat /\ (b # 0 => b \in F)
  BY <1>3, <1>4, <1>5
<1>7. \A j \in 1 .. m : Direct(Upto(es, j), ds) \subseteq F
  BY <1>5
<1>8. QED
  BY <1>6, <1>7 DEF b, F

(* An evaluation of a candidate reads only what the first phase fetched.   *)
LEMMA ReadsAreFetched ==
  ASSUME NEW muts, NEW ds, NEW pair, NEW loaded, Direct(muts, ds) \subseteq loaded,
         pair.neighbor # 0 => pair.neighbor \in loaded
  PROVE  Reads(muts, ds, pair) \subseteq loaded
BY DEF Reads, MergeCandidate, Underfull

-----------------------------------------------------------------------------
(* The steps                                                               *)

LEMMA ChunkInvInit == ChunkInit => ChunkInv
<1> SUFFICES ASSUME ChunkInit PROVE ChunkInv
  OBVIOUS
<1>1. chunks = <<>> /\ folded = << <<>> >> /\ pending = <<>> /\ fold = NoFold
  BY DEF ChunkInit
<1>2. folded \in Seq(Rows) /\ Len(folded) = 1 /\ folded[1] = <<>>
  BY <1>1, NoRows
<1>3. pending \in Seq(Mutation) /\ Len(pending) = 0
  BY <1>1
<1>4. Holds(chunks, folded[1])
  BY <1>1, <1>2, NoRows
<1>5. FoldedOneByOne
  BY <1>2, <1>3 DEF FoldedOneByOne
<1>6. FoldOk
  BY <1>1 DEF FoldOk, NoFold, NoPair
<1>7. QED
  BY <1>4, <1>5, <1>6 DEF ChunkInv

LEMMA AppendEntryKeeps ==
  ASSUME ChunkInv, NEW mu \in Mutation, AppendEntry(mu) PROVE ChunkInv'
<1> DEFINE n == Len(pending)
           last == folded[Len(folded)]
           new == ApplyOne(last, mu)
<1>1. /\ fold.phase = "idle" /\ pending' = Append(pending, mu)
      /\ folded' = Append(folded, new) /\ chunks' = chunks /\ fold' = fold
  BY DEF AppendEntry
<1>2. /\ pending \in Seq(Mutation) /\ folded \in Seq(Rows) /\ Len(folded) = n + 1 /\ n \in Nat
      /\ \A k \in 1 .. n : folded[k + 1] = ApplyOne(folded[k], pending[k])
  BY DEF ChunkInv, FoldedOneByOne
<1>3. last \in Rows
  BY <1>2
<1> HIDE DEF last
<1>4. new \in Rows
  BY <1>3, SingleMutation, ApplyFacts DEF ApplyOne
<1>5. last = folded[n + 1]
  BY <1>2 DEF last
<1> HIDE DEF new
<1>6. /\ pending' \in Seq(Mutation) /\ Len(pending') = n + 1 /\ pending'[n + 1] = mu
      /\ \A k \in 1 .. n : pending'[k] = pending[k]
  BY <1>1, <1>2
<1>7. /\ folded' \in Seq(Rows) /\ Len(folded') = n + 2 /\ folded'[n + 2] = new
      /\ \A k \in 1 .. (n + 1) : folded'[k] = folded[k]
  BY <1>1, <1>2, <1>4
<1>8. ASSUME NEW k \in 1 .. (n + 1) PROVE folded'[k + 1] = ApplyOne(folded'[k], pending'[k])
  <2>1. CASE k = n + 1
    <3>1. folded'[k + 1] = new /\ folded'[k] = last /\ pending'[k] = mu
      BY <1>2, <1>5, <1>6, <1>7, <2>1
    <3>2. QED
      BY <3>1 DEF new
  <2>2. CASE k # n + 1
    <3>1. k \in 1 .. n /\ k \in 1 .. (n + 1) /\ k + 1 \in 1 .. (n + 1)
      BY <1>2, <2>2
    <3>2. QED
      BY <1>2, <1>6, <1>7, <3>1
  <2>3. QED
    BY <2>1, <2>2
<1>9. FoldedOneByOne'
  <2>1. Len(folded') = Len(pending') + 1
    BY <1>2, <1>6, <1>7
  <2>2. QED
    BY <1>6, <1>7, <1>8, <2>1 DEF FoldedOneByOne
<1>10. folded'[1] = folded[1]
  BY <1>2, <1>7
<1>11. Holds(chunks, folded[1])'
  BY <1>1, <1>10 DEF ChunkInv
<1>12. FoldOk'
  BY <1>1 DEF ChunkInv, FoldOk
<1>13. QED
  BY <1>9, <1>11, <1>12 DEF ChunkInv

LEMMA FoldRecord ==
  ASSUME NEW ph \in {"idle", "plan", "mint", "null", "oversize"}, NEW c \in Nat,
         NEW pr \in [owner : Nat, neighbor : Nat], NEW ld \in SUBSET Nat, NEW x \in Nat
  PROVE  [phase |-> ph, count |-> c, pair |-> pr, loaded |-> ld, next |-> x] \in
           [phase : {"idle", "plan", "mint", "null", "oversize"}, count : Nat,
            pair : [owner : Nat, neighbor : Nat], loaded : SUBSET Nat, next : Nat]
OBVIOUS

LEMMA PrefetchKeeps == ASSUME ChunkInv, Prefetch PROVE ChunkInv'
<1> DEFINE n == CandidateCount(pending, chunks)
           w == WalkEnd(pending, chunks)
           locked == LockedPair(pending, chunks, w)
           fetched == FetchSet(pending, chunks, n, locked)
<1>1. /\ fold' = [phase |-> IF n = 0 THEN "null" ELSE "plan", count |-> n, pair |-> locked,
                  loaded |-> fetched, next |-> 1]
      /\ chunks' = chunks /\ folded' = folded /\ pending' = pending
  BY DEF Prefetch
<1>2. pending \in Seq(Mutation) /\ chunks \in Seq(Rows) /\ InIdOrder(chunks) /\ Len(pending) \in Nat
  BY DEF ChunkInv, FoldedOneByOne, Holds
<1>3. n \in 0 .. Len(pending) /\ w \in 0 .. Len(pending)
  BY <1>2, WalkFacts
<1> HIDE DEF n, w
<1>4. locked \in [owner : Nat, neighbor : Nat] /\ Adjacent(locked, chunks)
  BY <1>2, <1>3, LockedFacts
<1> HIDE DEF locked
<1>5. /\ fetched \in SUBSET Nat
      /\ locked.neighbor # 0 => locked.neighbor \in fetched
      /\ \A j \in 1 .. n : Direct(Upto(pending, j), chunks) \subseteq fetched
  BY <1>2, <1>3, <1>4, FetchFacts
<1> HIDE DEF fetched
<1> DEFINE ph == IF n = 0 THEN "null" ELSE "plan"
<1>a. n \in Nat /\ ph \in {"idle", "plan", "mint", "null", "oversize"} /\ (n = 0 => ph = "null")
  BY <1>3
<1> HIDE DEF ph
<1>b. fold' = [phase |-> ph, count |-> n, pair |-> locked, loaded |-> fetched, next |-> 1]
  BY <1>1 DEF ph
<1>6. /\ fold'.phase = ph /\ fold'.count = n
      /\ fold'.pair = locked /\ fold'.loaded = fetched /\ fold'.next = 1
      /\ fold' \in [phase : {"idle", "plan", "mint", "null", "oversize"}, count : Nat,
                    pair : [owner : Nat, neighbor : Nat], loaded : SUBSET Nat, next : Nat]
  <2>1. fold' \in [phase : {"idle", "plan", "mint", "null", "oversize"}, count : Nat,
                   pair : [owner : Nat, neighbor : Nat], loaded : SUBSET Nat, next : Nat]
    BY <1>4, <1>5, <1>a, <1>b, FoldRecord
  <2>2. QED
    BY <1>b, <2>1
<1>7. FoldOk'
  <2>1. fold'.phase \in {"plan", "mint"} => n # 0
    BY <1>6, <1>a
  <2>2. n # 0 => 1 \in 1 .. (n + 1) /\ 1 <= n /\ n <= Len(pending)
    BY <1>2, <1>3
  <2>3. QED
    BY <1>1, <1>4, <1>5, <1>6, <2>1, <2>2 DEF FoldOk
<1>8. Holds(chunks, folded[1])'
  BY <1>1 DEF ChunkInv
<1>9. FoldedOneByOne'
  BY <1>1 DEF ChunkInv, FoldedOneByOne
<1>10. QED
  BY <1>7, <1>8, <1>9 DEF ChunkInv

LEMMA TryEndpointKeeps == ASSUME ChunkInv, TryEndpoint PROVE ChunkInv'
<1> DEFINE muts == Upto(pending, fold.next)
           Phase == {"idle", "plan", "mint", "null", "oversize"}
<1>1. fold.phase = "plan" /\ chunks' = chunks /\ folded' = folded /\ pending' = pending
  BY DEF TryEndpoint
<1>2. /\ fold \in [phase : Phase, count : Nat, pair : [owner : Nat, neighbor : Nat],
                   loaded : SUBSET Nat, next : Nat]
      /\ fold.count <= Len(pending) /\ fold.next \in 1 .. (fold.count + 1)
      /\ fold.next <= fold.count /\ Adjacent(fold.pair, chunks)
      /\ fold.pair.neighbor # 0 => fold.pair.neighbor \in fold.loaded
      /\ \A j \in 1 .. fold.count : Direct(Upto(pending, j), chunks) \subseteq fold.loaded
  BY <1>1 DEF ChunkInv, FoldOk
<1>3. fold.next \in Nat /\ fold.count \in Nat /\ fold.next \in 1 .. fold.count
  BY <1>2
<1>4. Reads(muts, chunks, fold.pair) \subseteq fold.loaded
  BY <1>2, <1>3, ReadsAreFetched
<1>5. \/ fold' = [fold EXCEPT !.phase = "oversize"]
      \/ fold' = [fold EXCEPT !.phase = IF fold.next = 1 THEN "null" ELSE "mint"]
      \/ fold' = [fold EXCEPT !.next = @ + 1,
                              !.phase = IF fold.next = fold.count THEN "mint" ELSE "plan"]
  BY <1>4 DEF TryEndpoint
<1>6. /\ fold' \in [phase : Phase, count : Nat, pair : [owner : Nat, neighbor : Nat],
                    loaded : SUBSET Nat, next : Nat]
      /\ fold'.count = fold.count /\ fold'.pair = fold.pair /\ fold'.loaded = fold.loaded
      /\ fold'.phase \in {"plan", "mint"} =>
           /\ fold'.next \in 1 .. (fold.count + 1)
           /\ fold'.phase = "plan" => fold'.next <= fold.count
  <2>1. CASE fold' = [fold EXCEPT !.phase = "oversize"]
    BY <1>2, <1>3, <2>1
  <2>2. CASE fold' = [fold EXCEPT !.phase = IF fold.next = 1 THEN "null" ELSE "mint"]
    BY <1>2, <1>3, <2>2
  <2>3. CASE fold' = [fold EXCEPT !.next = @ + 1,
                                  !.phase = IF fold.next = fold.count THEN "mint" ELSE "plan"]
    <3> DEFINE ph == IF fold.next = fold.count THEN "mint" ELSE "plan"
    <3>1. ph \in {"plan", "mint"} /\ (ph = "plan" => fold.next # fold.count)
      OBVIOUS
    <3>2. fold' = [fold EXCEPT !.next = fold.next + 1, !.phase = ph]
      BY <2>3
    <3> HIDE DEF ph
    <3>3. /\ fold'.count = fold.count /\ fold'.pair = fold.pair /\ fold'.loaded = fold.loaded
          /\ fold'.next = fold.next + 1 /\ fold'.phase = ph
          /\ fold' \in [phase : Phase, count : Nat, pair : [owner : Nat, neighbor : Nat],
                        loaded : SUBSET Nat, next : Nat]
      <4>1. fold.pair \in [owner : Nat, neighbor : Nat] /\ fold.loaded \in SUBSET Nat
        BY <1>2
      <4>2. fold' = [phase |-> ph, count |-> fold.count, pair |-> fold.pair,
                     loaded |-> fold.loaded, next |-> fold.next + 1]
        BY <1>2, <3>2
      <4>3. fold.next + 1 \in Nat /\ ph \in {"idle", "plan", "mint", "null", "oversize"}
        BY <1>3, <3>1
      <4>4. fold' \in [phase : Phase, count : Nat, pair : [owner : Nat, neighbor : Nat],
                       loaded : SUBSET Nat, next : Nat]
        BY <1>3, <4>1, <4>2, <4>3, FoldRecord
      <4>5. QED
        BY <4>2, <4>4
    <3>4. fold.next + 1 \in 1 .. (fold.count + 1) /\ (fold.next # fold.count => fold.next + 1 <= fold.count)
      BY <1>3
    <3>5. QED
      BY <3>1, <3>3, <3>4
  <2>4. QED
    BY <1>5, <2>1, <2>2, <2>3
<1>7. FoldOk'
  BY <1>1, <1>2, <1>6 DEF FoldOk
<1>8. Holds(chunks, folded[1])'
  BY <1>1 DEF ChunkInv
<1>9. FoldedOneByOne'
  BY <1>1 DEF ChunkInv, FoldedOneByOne
<1>10. QED
  BY <1>7, <1>8, <1>9 DEF ChunkInv

LEMMA NoFoldOk == ASSUME fold' = NoFold PROVE FoldOk'
BY DEF FoldOk, NoFold, NoPair

LEMMA SuffixFacts ==
  ASSUME NEW S, NEW s \in Seq(S), NEW x \in 1 .. (Len(s) + 1)
  PROVE  /\ SubSeq(s, x, Len(s)) \in Seq(S) /\ Len(SubSeq(s, x, Len(s))) = Len(s) - (x - 1)
         /\ \A j \in 1 .. (Len(s) - (x - 1)) : SubSeq(s, x, Len(s))[j] = s[j + (x - 1)]
<1> DEFINE n == Len(s)
           t == SubSeq(s, x, n)
           h == n - (x - 1)
<1>1. n \in Nat /\ DOMAIN s = 1 .. n /\ h \in Nat /\ x \in Int
  OBVIOUS
<1>2. t \in Seq(S)
  OBVIOUS
<1>3. Len(t) = h
  <2>1. CASE x = n + 1
    BY <1>1, <2>1
  <2>2. CASE x # n + 1
    BY <1>1, <2>2
  <2>3. QED
    BY <2>1, <2>2
<1>4. ASSUME NEW j \in 1 .. h PROVE t[j] = s[j + (x - 1)]
  <2>1. x # n + 1 /\ x <= n
    BY <1>1
  <2>2. t[j] = s[x + j - 1]
    BY <1>1, <2>1
  <2>3. x + j - 1 = j + (x - 1)
    BY <1>1
  <2>4. QED
    BY <2>2, <2>3
<1>5. QED
  BY <1>2, <1>3, <1>4

LEMMA PublishChunksKeeps == ASSUME ChunkInv, PublishChunks PROVE ChunkInv'
<1> DEFINE n == Len(pending)
           x == fold.next
           k == x - 1
           muts == Upto(pending, k)
<1>1. /\ fold.phase = "mint" /\ chunks' = Mint(Upto(pending, fold.next - 1), chunks, fold.pair)
      /\ folded' = SubSeq(folded, fold.next, Len(folded))
      /\ pending' = SubSeq(pending, fold.next, Len(pending)) /\ fold' = NoFold
  BY DEF PublishChunks
<1>2. /\ fold.count \in Nat /\ fold.next \in Nat /\ fold.count <= Len(pending)
      /\ fold.next \in 1 .. (fold.count + 1) /\ Adjacent(fold.pair, chunks)
  BY <1>1 DEF ChunkInv, FoldOk
<1>3. /\ pending \in Seq(Mutation) /\ folded \in Seq(Rows) /\ Len(folded) = n + 1 /\ n \in Nat
      /\ \A m \in 1 .. n : folded[m + 1] = ApplyOne(folded[m], pending[m])
  BY DEF ChunkInv, FoldedOneByOne
<1>4. x \in 1 .. (n + 1) /\ k \in 0 .. n /\ k + 1 = x
  BY <1>2, <1>3
<1>5. muts \in Mutations /\ folded[x] = Apply(folded[1], muts)
  BY <1>3, <1>4, OneByOneIsApply
<1>6. Holds(chunks, folded[1])
  BY DEF ChunkInv
<1> HIDE DEF muts
<1>7. Holds(Mint(muts, chunks, fold.pair), folded[x])
  BY <1>2, <1>5, <1>6, MintHolds
<1>8. chunks' = Mint(muts, chunks, fold.pair)
  BY <1>1 DEF muts
<1> DEFINE m == n - k
<1>9. m \in Nat /\ m = n - k /\ x = k + 1
  BY <1>3, <1>4
<1>10. /\ pending' \in Seq(Mutation) /\ Len(pending') = m
       /\ \A j \in 1 .. m : pending'[j] = pending[j + k]
  BY <1>1, <1>3, <1>4, SuffixFacts
<1>11. /\ folded' \in Seq(Rows) /\ Len(folded') = m + 1
       /\ \A j \in 1 .. (m + 1) : folded'[j] = folded[j + k]
  <2> DEFINE h == (n + 1) - k
  <2>1. x \in 1 .. (Len(folded) + 1) /\ h = Len(folded) - (x - 1)
    BY <1>3, <1>4
  <2>2. /\ folded' \in Seq(Rows) /\ Len(folded') = h
        /\ \A j \in 1 .. h : folded'[j] = folded[j + (x - 1)]
    BY <1>1, <1>3, <2>1, SuffixFacts
  <2>3. h = m + 1
    BY <1>3, <1>4
  <2>4. QED
    BY <2>2, <2>3
<1> HIDE DEF m, n, k, x
<1>12. ASSUME NEW j \in 1 .. m PROVE folded'[j + 1] = ApplyOne(folded'[j], pending'[j])
  <2>1. /\ j \in 1 .. (m + 1) /\ j + 1 \in 1 .. (m + 1) /\ j + k \in 1 .. n
        /\ (j + 1) + k = (j + k) + 1
    BY <1>3, <1>4, <1>9
  <2>2. folded'[j + 1] = folded[(j + k) + 1] /\ folded'[j] = folded[j + k] /\ pending'[j] = pending[j + k]
    BY <1>10, <1>11, <2>1
  <2>3. QED
    BY <1>3, <2>1, <2>2
<1>13. FoldedOneByOne'
  BY <1>10, <1>11, <1>12 DEF FoldedOneByOne
<1>14. folded'[1] = folded[x]
  <2>1. 1 \in 1 .. (m + 1) /\ 1 + k = x
    BY <1>4, <1>9
  <2>2. QED
    BY <1>11, <2>1
<1>15. Holds(chunks, folded[1])'
  BY <1>7, <1>8, <1>14
<1>16. QED
  BY <1>1, <1>13, <1>15, NoFoldOk DEF ChunkInv

LEMMA FoldNothingKeeps == ASSUME ChunkInv, FoldNothing PROVE ChunkInv'
<1>1. fold' = NoFold /\ chunks' = chunks /\ folded' = folded /\ pending' = pending
  BY DEF FoldNothing
<1>2. Holds(chunks, folded[1])'
  BY <1>1 DEF ChunkInv
<1>3. FoldedOneByOne'
  BY <1>1 DEF ChunkInv, FoldedOneByOne
<1>4. QED
  BY <1>1, <1>2, <1>3, NoFoldOk DEF ChunkInv

LEMMA ChunkInvNext == ASSUME ChunkInv, [ChunkNext]_chunkVars PROVE ChunkInv'
<1>1. CASE \E mu \in Mutation : AppendEntry(mu)
  BY <1>1, AppendEntryKeeps
<1>2. CASE Prefetch
  BY <1>2, PrefetchKeeps
<1>3. CASE TryEndpoint
  BY <1>3, TryEndpointKeeps
<1>4. CASE PublishChunks
  BY <1>4, PublishChunksKeeps
<1>5. CASE FoldNothing
  BY <1>5, FoldNothingKeeps
<1>6. CASE UNCHANGED chunkVars
  <2>1. fold' = fold /\ chunks' = chunks /\ folded' = folded /\ pending' = pending
    BY <1>6 DEF chunkVars
  <2>2. Holds(chunks, folded[1])'
    BY <2>1 DEF ChunkInv
  <2>3. FoldedOneByOne'
    BY <2>1 DEF ChunkInv, FoldedOneByOne
  <2>4. FoldOk'
    BY <2>1 DEF ChunkInv, FoldOk
  <2>5. QED
    BY <2>2, <2>3, <2>4 DEF ChunkInv
<1>7. QED
  BY <1>1, <1>2, <1>3, <1>4, <1>5, <1>6 DEF ChunkNext

LEMMA ChunkInvImplies == ASSUME ChunkInv PROVE ChunksAreFold
<1>1. Holds(chunks, folded[1]) /\ chunks \in Seq(Rows) /\ InIdOrder(chunks)
  BY DEF ChunkInv, Holds
<1>2. \A i \in DOMAIN chunks : DOMAIN chunks[i] # {}
  BY <1>1 DEF InIdOrder
<1>3. \A i, j \in DOMAIN chunks : i < j => LastId(chunks[i]) < FirstId(chunks[j])
  BY <1>1, OrderFacts
<1>4. Contents(chunks) = Head(folded)
  <2>1. Contents(chunks) = folded[1]
    BY <1>1, HoldsContents
  <2>2. QED
    BY <2>1 DEF ChunkInv, FoldedOneByOne
<1>5. fold.phase # "missing"
  BY DEF ChunkInv, FoldOk
<1>6. QED
  BY <1>2, <1>3, <1>4, <1>5 DEF ChunksAreFold

(* Whatever entries arrive and whatever the targets and budgets, after any *)
(* number of folds the chunks are in id order, none empty, and hold exactly *)
(* the rows that folding the published entries one by one gives; and no    *)
(* evaluation misses a chunk that the first phase did not fetch            *)
(* (prefetchChunkedFold, evaluateSnapshotChunks, applyFacingMerge).        *)
THEOREM ChunksHoldTheFold == ChunkSpec => []ChunksAreFold
<1>1. ChunkInit => ChunkInv
  BY ChunkInvInit
<1>2. ChunkInv /\ [ChunkNext]_chunkVars => ChunkInv'
  BY ChunkInvNext
<1>3. ChunkInv => ChunksAreFold
  BY ChunkInvImplies
<1>4. QED
  BY <1>1, <1>2, <1>3, PTL DEF ChunkSpec
=============================================================================
