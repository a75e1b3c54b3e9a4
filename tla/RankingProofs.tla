----------------------------- MODULE RankingProofs -----------------------------
(***************************************************************************)
(* Theorems about what a search finds and in which order, for any articles,*)
(* scores, limits and depths; about the excerpts cut from the articles it  *)
(* finds, for any texts and budgets; and about how an article is split,    *)
(* for any lines.                                                          *)
(***************************************************************************)
EXTENDS RankingInv, ExcerptsInv, SectionsInv, TLAPS, FiniteSetTheorems,
        WellFoundedInduction, NaturalsInduction

(***************************************************************************)
(* Lists.                                                                  *)
(***************************************************************************)
(* A function on 1..n is a sequence. *)
LEMMA ListIsSeq ==
  ASSUME NEW U, NEW n \in Nat, NEW s \in [1..n -> U]
  PROVE  /\ s \in Seq(U) /\ Len(s) = n /\ DOMAIN s = 1..n
         /\ \A e : e \in ToSet(s) <=> \E i \in 1..n : s[i] = e
<1>1. s \in Seq(U) /\ Len(s) = n
  OBVIOUS
<1> QED
  BY <1>1 DEF ToSet

(* A sequence is a function on its positions. *)
LEMMA SeqIsList ==
  ASSUME NEW U, NEW s \in Seq(U)
  PROVE  /\ Len(s) \in Nat /\ s \in [1..Len(s) -> U] /\ DOMAIN s = 1..Len(s)
         /\ \A e : e \in ToSet(s) <=> \E i \in 1..Len(s) : s[i] = e
<1>1. Len(s) \in Nat /\ s \in [1..Len(s) -> U] /\ DOMAIN s = 1..Len(s)
  OBVIOUS
<1> QED
  BY <1>1 DEF ToSet

(* A list that names a member of a finite set once for each of its members names them all. *)
LEMMA AllListed ==
  ASSUME NEW S, IsFiniteSet(S), NEW s \in [1..Cardinality(S) -> S],
         \A i, j \in DOMAIN s : i # j => s[i] # s[j]
  PROVE  \A d \in S : \E i \in DOMAIN s : s[i] = d
<1>1. Cardinality(S) \in Nat
  BY FS_CardinalityType
<1> SUFFICES ASSUME NEW d \in S, \A i \in DOMAIN s : s[i] # d
             PROVE  FALSE
  OBVIOUS
<1> DEFINE I == 1..Cardinality(S)   T == S \ {d}
<1>2. s \in [I -> T]
  OBVIOUS
<1>3. IsFiniteSet(T) /\ Cardinality(T) = Cardinality(S) - 1
  BY FS_RemoveElement
<1>4. IsFiniteSet(I) /\ Cardinality(I) = Cardinality(S)
  BY <1>1, FS_Interval
<1>5. Cardinality(T) < Cardinality(I)
  BY <1>1, <1>3, <1>4
<1> HIDE DEF I, T
<1>6. \E x, y \in I : x # y /\ s[x] = s[y]
  BY <1>2, <1>3, <1>4, <1>5, FS_PigeonHole
<1> QED
  BY <1>6 DEF I

(* A list without repetitions is no longer than the set has members, and has as many. *)
LEMMA ListLength ==
  ASSUME NEW S, IsFiniteSet(S), NEW n \in Nat, NEW s \in [1..n -> S],
         \A i, j \in DOMAIN s : i # j => s[i] # s[j]
  PROVE  n <= Cardinality(S) /\ IsFiniteSet(ToSet(s)) /\ Cardinality(ToSet(s)) = n
<1> DEFINE I == 1..n
<1>1. IsFiniteSet(I) /\ Cardinality(I) = n
  BY FS_Interval
<1>2. s \in Injection(I, S)
  BY DEF Injection, IsInjective
<1>3. n <= Cardinality(S)
  BY <1>1, <1>2, FS_Injection
<1>4. s \in Bijection(I, ToSet(s))
  BY DEF Bijection, Injection, Surjection, IsInjective, ToSet
<1>5. ExistsBijection(I, ToSet(s))
  BY <1>4 DEF ExistsBijection
<1>6. IsFiniteSet(ToSet(s)) /\ Cardinality(ToSet(s)) = Cardinality(I)
  BY <1>1, <1>5, FS_Bijection
<1> QED
  BY <1>1, <1>3, <1>6

(* What a sort by descending score leaves above a cut is the best there is (rankPositions). *)
LEMMA RankedBest ==
  ASSUME NEW D, IsFiniteSet(D), NEW scores \in [D -> Int], NEW n \in Nat, NEW s \in Ranked(scores, n)
  PROVE  /\ s \in [1..Len(s) -> D] /\ Len(s) \in Nat /\ Len(s) <= n /\ Len(s) <= Cardinality(D)
         /\ \A i, j \in DOMAIN s : i # j => s[i] # s[j]
         /\ \A i, j \in DOMAIN s : i < j => scores[s[i]] >= scores[s[j]]
         /\ \A d \in D : (\E i \in DOMAIN s : s[i] = d) \/ scores[d] <= 0
                         \/ (Len(s) >= n /\ \A i \in DOMAIN s : scores[s[i]] >= scores[d])
<1> DEFINE N == Cardinality(D)   P == Cardinality(Positive(scores))   m == Least(n, P)
<1>1. N \in Nat
  BY FS_CardinalityType
<1>2. IsFiniteSet(Positive(scores)) /\ P \in Nat /\ P <= N
  <2>1. Positive(scores) \in SUBSET D
    BY DEF Positive
  <2>2. IsFiniteSet(Positive(scores)) /\ P <= N
    BY <2>1, FS_Subset
  <2> QED
    BY <2>2, FS_CardinalityType
<1>3. PICK t \in Sorted(scores) : s = Cut(t, m)
  BY DEF Ranked
<1>4. /\ t \in [1..N -> D]
      /\ \A i, j \in DOMAIN t : i # j => t[i] # t[j]
      /\ \A i, j \in DOMAIN t : i < j => scores[t[i]] >= scores[t[j]]
  BY <1>3 DEF Sorted
<1>5. m \in Nat /\ m <= n /\ m <= P /\ m <= N /\ (m = n \/ m = P)
  BY <1>1, <1>2 DEF Least
<1> HIDE DEF N, P, m
<1>6. Len(t) = N /\ DOMAIN t = 1..N
  BY <1>1, <1>4, ListIsSeq
<1>7. Least(m, Len(t)) = m
  BY <1>1, <1>5, <1>6 DEF Least
<1>8. s = [i \in 1..m |-> t[i]]
  BY <1>3, <1>7 DEF Cut
<1>9. s \in [1..m -> D] /\ \A i \in 1..m : s[i] = t[i] /\ i \in 1..N
  BY <1>1, <1>4, <1>5, <1>8
<1>10. Len(s) = m /\ DOMAIN s = 1..m
  BY <1>5, <1>9, ListIsSeq
<1>11. \A i, j \in DOMAIN s : i # j => s[i] # s[j]
  BY <1>4, <1>6, <1>9, <1>10
<1>12. \A i, j \in DOMAIN s : i < j => scores[s[i]] >= scores[s[j]]
  BY <1>4, <1>6, <1>9, <1>10
<1>13. ASSUME NEW d \in D, \A i \in DOMAIN s : s[i] # d, scores[d] > 0
       PROVE  Len(s) >= n /\ \A i \in DOMAIN s : scores[s[i]] >= scores[d]
  <2>1. PICK j \in 1..N : t[j] = d
    BY <1>4, <1>6, AllListed DEF N
  <2>2. j > m
    BY <1>5, <1>9, <1>10, <1>13, <2>1
  <2>3. \A i \in 1..m : scores[s[i]] >= scores[d]
    BY <1>1, <1>4, <1>5, <1>6, <1>9, <2>1, <2>2
  <2>4. CASE m = n
    BY <1>5, <1>10, <2>3, <2>4
  <2>5. CASE m = P
    <3> DEFINE I == 1..j   u == [i \in I |-> t[i]]
    <3>1. \A i \in I : i \in 1..N /\ t[i] \in D /\ scores[t[i]] >= scores[d]
      <4> SUFFICES ASSUME NEW i \in I PROVE i \in 1..N /\ t[i] \in D /\ scores[t[i]] >= scores[d]
        OBVIOUS
      <4>1. i \in 1..N /\ t[i] \in D
        BY <1>1, <1>4, <2>1
      <4>2. CASE i = j
        BY <4>1, <4>2, <2>1
      <4>3. CASE i < j
        BY <4>1, <4>3, <2>1, <1>4, <1>6
      <4> QED
        BY <4>1, <4>2, <4>3
    <3>2. u \in [I -> Positive(scores)]
      BY <3>1, <1>13 DEF Positive
    <3>3. IsFiniteSet(I) /\ Cardinality(I) = j
      BY <2>1, <1>1, FS_Interval
    <3>4. Cardinality(Positive(scores)) < Cardinality(I)
      BY <2>2, <2>5, <3>3 DEF P
    <3>a. \A i \in I : u[i] = t[i]
      OBVIOUS
    <3> HIDE DEF I, u
    <3>5. \E x, y \in I : x # y /\ u[x] = u[y]
      BY ONLY <3>2, <3>3, <3>4, <1>2, FS_PigeonHole
    <3>6. PICK x \in I, y \in I : x # y /\ t[x] = t[y]
      BY <3>5, <3>a
    <3> QED
      BY <3>1, <3>6, <1>4, <1>6
  <2> QED
    BY <1>5, <2>4, <2>5
<1>14. \A d \in D : scores[d] \in Int
  OBVIOUS
<1> QED
  BY <1>1, <1>5, <1>9, <1>10, <1>11, <1>12, <1>13, <1>14 DEF N

(***************************************************************************)
(* The ranking.                                                            *)
(***************************************************************************)
(* Articles are finitely many, those of a query too. *)
LEMMA DocsFinite ==
  ASSUME NEW S \in SUBSET Doc
  PROVE  IsFiniteSet(S) /\ Cardinality(S) \in Nat /\ Cardinality(S) <= Cardinality(Doc) /\ Cardinality(Doc) \in Nat
BY DocsAssumption, FS_Subset, FS_CardinalityType

(* What scoreIndex ranks are the best of the docs that are kept. *)
LEMMA ScoredBest ==
  ASSUME RankTypes, NEW kept \in InOrder(KeptDocs), NEW n \in Int, NEW w \in ScoreIndex(kept, n)
  PROVE  /\ ListOf(w, KeptDocs) /\ w \in Seq(Doc) /\ Len(w) <= Cardinality(Doc)
         /\ \A i, j \in DOMAIN w : i < j => bm25[w[i]] >= bm25[w[j]]
         /\ \A d \in KeptDocs \ ToSet(w) :
               \/ bm25[d] <= 0
               \/ Len(w) >= (IF n > 1 THEN n ELSE 1) /\ \A e \in ToSet(w) : bm25[e] >= bm25[d]
<1> DEFINE N == Cardinality(KeptDocs)   D == 1..N   scores == Scores(kept)   m == IF n > 1 THEN n ELSE 1
<1>1. KeptDocs \in SUBSET Doc /\ KeptDocs \subseteq DOMAIN bm25
  BY DEF RankTypes, KeptDocs
<1>2. IsFiniteSet(KeptDocs) /\ N \in Nat /\ N <= Cardinality(Doc) /\ Cardinality(Doc) \in Nat
  BY <1>1, DocsFinite
<1>3. kept \in [D -> KeptDocs] /\ \A i, j \in D : i < j => kept[i] < kept[j]
  BY DEF InOrder
<1>4. IsFiniteSet(D) /\ Cardinality(D) = N
  BY <1>2, FS_Interval
<1>5. \A d \in Doc : d \in Nat
  BY DocsAssumption
<1>6. \A i, j \in D : i # j => kept[i] # kept[j]
  <2> SUFFICES ASSUME NEW i \in D, NEW j \in D, i # j PROVE kept[i] # kept[j]
    OBVIOUS
  <2>1. kept[i] \in Nat /\ kept[j] \in Nat
    BY <1>1, <1>3, <1>5
  <2>2. i < j \/ j < i
    BY <1>2
  <2> QED
    BY <1>3, <2>1, <2>2
<1>7. \A d \in KeptDocs : bm25[d] \in Int
  BY <1>1 DEF RankTypes
<1>8. scores \in [D -> Int] /\ \A i \in D : scores[i] = bm25[kept[i]]
  BY <1>3, <1>7 DEF Scores
<1>9. m \in Nat
  OBVIOUS
<1>10. PICK s \in RankPositions(scores, n) : w = [i \in DOMAIN s |-> kept[s[i]]]
  BY DEF ScoreIndex
<1>11. s \in Ranked(scores, m)
  BY <1>10 DEF RankPositions
<1> HIDE DEF N, D, scores, m
<1>12. /\ s \in [1..Len(s) -> D] /\ Len(s) \in Nat /\ Len(s) <= Cardinality(D)
       /\ \A i, j \in DOMAIN s : i # j => s[i] # s[j]
       /\ \A i, j \in DOMAIN s : i < j => scores[s[i]] >= scores[s[j]]
       /\ \A d \in D : (\E i \in DOMAIN s : s[i] = d) \/ scores[d] <= 0
                       \/ (Len(s) >= m /\ \A i \in DOMAIN s : scores[s[i]] >= scores[d])
  BY <1>4, <1>8, <1>9, <1>11, RankedBest
<1>13. DOMAIN s = 1..Len(s)
  BY <1>12
<1>14. w \in [1..Len(s) -> KeptDocs] /\ \A i \in 1..Len(s) : w[i] = kept[s[i]] /\ s[i] \in D
  BY <1>3, <1>10, <1>12, <1>13 DEF D
<1>15. /\ Len(w) = Len(s) /\ DOMAIN w = 1..Len(s)
       /\ \A e : e \in ToSet(w) <=> \E i \in 1..Len(s) : w[i] = e
  <2>1. PICK k \in Nat : k = Len(s)
    BY <1>12
  <2>2. w \in [1..k -> Doc]
    BY <1>1, <1>14, <2>1
  <2>3. w \in Seq(Doc) /\ Len(w) = k /\ DOMAIN w = 1..k
    BY <2>2, ListIsSeq
  <2>4. \A e : e \in ToSet(w) <=> \E i \in 1..k : w[i] = e
    BY <2>3 DEF ToSet
  <2> QED
    BY <2>1, <2>3, <2>4
<1>16. w \in [1..Len(s) -> Doc]
  BY <1>1, <1>14
<1>17. w \in Seq(Doc)
  BY <1>12, <1>16, ListIsSeq
<1>18. ListOf(w, KeptDocs)
  BY <1>6, <1>12, <1>13, <1>14, <1>15 DEF ListOf
<1>19. \A i, j \in DOMAIN w : i < j => bm25[w[i]] >= bm25[w[j]]
  BY <1>8, <1>12, <1>13, <1>14, <1>15
<1>20. Len(w) <= Cardinality(Doc)
  BY <1>2, <1>4, <1>12, <1>15 DEF N
<1>21. ASSUME NEW d \in KeptDocs \ ToSet(w)
       PROVE  bm25[d] <= 0 \/ (Len(w) >= m /\ \A e \in ToSet(w) : bm25[e] >= bm25[d])
  <2>1. PICK k \in D : kept[k] = d
    BY <1>2, <1>3, <1>6, AllListed DEF D, N
  <2>2. ~ \E i \in DOMAIN s : s[i] = k
    BY <1>13, <1>14, <1>15, <1>21, <2>1
  <2>3. scores[k] <= 0 \/ (Len(s) >= m /\ \A i \in DOMAIN s : scores[s[i]] >= scores[k])
    BY <1>12, <2>2
  <2>4. scores[k] = bm25[d] /\ \A i \in 1..Len(s) : scores[s[i]] = bm25[w[i]]
    BY <1>8, <1>14, <2>1
  <2> QED
    BY <1>13, <1>15, <2>3, <2>4
<1> QED
  BY <1>17, <1>18, <1>19, <1>20, <1>21 DEF m

(* The ranking by a vector is a list of rows. *)
LEMMA RowsAreDocs ==
  ASSUME RankTypes, NEW n \in Int, NEW v \in SimilarRows(n)
  PROVE  v \in Seq(Doc) /\ Len(v) <= Cardinality(Doc)
<1>1. cosine \in [Doc -> Int] /\ (IF n > 0 THEN n ELSE 0) \in Nat
  BY DEF RankTypes
<1>2. v \in Ranked(cosine, IF n > 0 THEN n ELSE 0)
  BY DEF SimilarRows
<1>3. v \in [1..Len(v) -> Doc] /\ Len(v) \in Nat /\ Len(v) <= Cardinality(Doc)
  BY <1>1, <1>2, DocsAssumption, RankedBest
<1> QED
  BY <1>3, ListIsSeq

(* A fused list is in the order of the fused weights, also when it is cut. *)
LEMMA FusedInOrder ==
  ASSUME NEW x \in Seq(Doc), NEW y \in Seq(Doc), NEW s \in Fuse(x, y), NEW n \in Int,
         NEW r, r = IF n > 0 THEN Cut(s, n) ELSE s
  PROVE  r \in Seq(Doc) /\ \A i, j \in DOMAIN r : i < j => Ahead(x, y, r[i], r[j])
<1> DEFINE all == ToSet(x) \cup ToSet(y)   N == Cardinality(all)
<1>1. all \in SUBSET Doc
  BY SeqIsList
<1>2. N \in Nat
  BY <1>1, DocsFinite
<1>3. s \in [1..N -> all] /\ \A i, j \in 1..N : i < j => Ahead(x, y, s[i], s[j])
  BY DEF Fuse
<1> HIDE DEF all, N
<1>4. s \in [1..N -> Doc]
  BY <1>1, <1>3
<1>5. s \in Seq(Doc) /\ Len(s) = N /\ DOMAIN s = 1..N
  BY <1>2, <1>4, ListIsSeq
<1>6. CASE n > 0
  <2> DEFINE m == Least(n, Len(s))
  <2>1. m \in Nat /\ m <= N
    BY <1>2, <1>5, <1>6 DEF Least
  <2>2. r = [i \in 1..m |-> s[i]]
    BY <1>6 DEF Cut
  <2> HIDE DEF m
  <2>3. r \in [1..m -> Doc] /\ \A i \in 1..m : r[i] = s[i] /\ i \in 1..N
    BY <1>2, <1>4, <2>1, <2>2
  <2>4. r \in Seq(Doc) /\ DOMAIN r = 1..m
    BY <2>1, <2>3, ListIsSeq
  <2> QED
    BY <1>3, <2>3, <2>4
<1>7. CASE ~ (n > 0)
  BY <1>3, <1>5, <1>7
<1> QED
  BY <1>6, <1>7

(* Of two whole parts of a number the one with the smaller divisor is greater. *)
LEMMA PartsFall ==
  ASSUME NEW u \in Nat \ {0}, NEW a \in Nat \ {0}, NEW b \in Nat \ {0}, u % a = 0, u % b = 0
  PROVE  u \div b \in Nat \ {0} /\ u \div a \in Nat \ {0} /\ (a < b => u \div a > u \div b)
<1> DEFINE p == u \div a   q == u \div b
<1>1. p \in Int /\ q \in Int /\ u = a * p /\ u = b * q
  OBVIOUS
<1> HIDE DEF p, q
<1>2. p > 0 /\ q > 0
  BY <1>1
<1>3. ASSUME a < b, p <= q PROVE FALSE
  <2>1. a * p <= a * q
    BY <1>1, <1>3
  <2>2. a * q < b * q
    BY <1>1, <1>2, <1>3
  <2> QED
    BY <1>1, <2>1, <2>2
<1> QED
  BY <1>1, <1>2, <1>3 DEF p, q

(* The rank of a member of a list is a place it is at. *)
LEMMA RankIsPlace ==
  ASSUME NEW s \in Seq(Doc), NEW d \in ToSet(s)
  PROVE  RankIn(s, d) \in 1..Len(s) /\ s[RankIn(s, d)] = d
<1>1. \E i \in DOMAIN s : s[i] = d
  BY SeqIsList
<1> QED
  BY <1>1, SeqIsList DEF RankIn

(* The weight of an article grows with its rank, and is least outside the list (rrfFuse). *)
LEMMA WeightsFall ==
  ASSUME NEW s \in Seq(Doc), Len(s) <= Cardinality(Doc), NEW c \in Doc, NEW d \in Doc
  PROVE  /\ Weight(s, c) \in Nat /\ Weight(s, d) \in Nat
         /\ Above(s, c, d) => Weight(s, c) > Weight(s, d)
         /\ ~ Above(s, d, c) => Weight(s, c) >= Weight(s, d)
<1>1. Cardinality(Doc) \in Nat /\ Len(s) \in Nat
  BY DocsFinite, SeqIsList
<1>2. ASSUME NEW e \in ToSet(s)
      PROVE  /\ RankIn(s, e) \in 1..Len(s) /\ RRF + RankIn(s, e) \in Nat \ {0}
             /\ Unit % (RRF + RankIn(s, e)) = 0
             /\ Weight(s, e) = Unit \div (RRF + RankIn(s, e)) /\ Weight(s, e) \in Nat \ {0}
  <2>1. RankIn(s, e) \in 1..Cardinality(Doc) /\ RankIn(s, e) \in 1..Len(s)
    BY <1>1, RankIsPlace
  <2>2. RRF + RankIn(s, e) \in Nat \ {0} /\ Unit % (RRF + RankIn(s, e)) = 0
    <3>1. PICK r \in 1..Cardinality(Doc) : r = RankIn(s, e)
      BY <2>1
    <3>2. Unit % (RRF + r) = 0
      BY UnitAssumption
    <3>3. RRF + r \in Nat \ {0}
      BY <1>1, <3>1, UnitAssumption
    <3> QED
      BY <3>1, <3>2, <3>3
  <2>3. Weight(s, e) = Unit \div (RRF + RankIn(s, e))
    BY DEF Weight
  <2>4. Unit \in Nat \ {0}
    BY UnitAssumption
  <2> QED
    BY <2>1, <2>2, <2>3, <2>4, PartsFall
<1>3. \A e : e \notin ToSet(s) => Weight(s, e) = 0
  BY DEF Weight
<1>4. ASSUME NEW e \in ToSet(s), NEW f \in ToSet(s), RankIn(s, e) < RankIn(s, f)
      PROVE  Weight(s, e) > Weight(s, f)
  <2>1. RRF + RankIn(s, e) < RRF + RankIn(s, f)
    BY <1>1, <1>2, <1>4, UnitAssumption
  <2>2. Unit \in Nat \ {0}
    BY UnitAssumption
  <2> QED
    BY <1>2, <2>1, <2>2, PartsFall
<1>5. Weight(s, c) \in Nat /\ Weight(s, d) \in Nat
  BY <1>2, <1>3
<1>6. Above(s, c, d) => Weight(s, c) > Weight(s, d)
  BY <1>2, <1>3, <1>4, <1>5 DEF Above
<1>7. ASSUME ~ Above(s, d, c) PROVE Weight(s, c) >= Weight(s, d)
  <2>1. CASE d \notin ToSet(s)
    BY <1>3, <1>5, <2>1
  <2>2. CASE d \in ToSet(s)
    <3>1. c \in ToSet(s) /\ ~ (RankIn(s, d) < RankIn(s, c))
      BY <1>7, <2>2 DEF Above
    <3>2. RankIn(s, c) < RankIn(s, d) \/ RankIn(s, c) = RankIn(s, d)
      BY <1>1, <1>2, <2>2, <3>1
    <3>3. CASE RankIn(s, c) < RankIn(s, d)
      BY <1>4, <1>5, <2>2, <3>1, <3>3
    <3>4. CASE RankIn(s, c) = RankIn(s, d)
      BY <1>2, <1>5, <2>2, <3>1, <3>4
    <3> QED
      BY <3>2, <3>3, <3>4
  <2> QED
    BY <2>1, <2>2
<1> QED
  BY <1>5, <1>6, <1>7

(***************************************************************************)
(* The invariant, one lemma for each action.                               *)
(***************************************************************************)
(* A query begins with nothing ranked. *)
LEMMA RankInitOK == RankInit => RankInv
<1> SUFFICES ASSUME RankInit PROVE RankInv
  OBVIOUS
<1>1. PICK m \in {"words", "vector", "hybrid"}, docs \in SUBSET Doc, n \in Limits :
        \E tags \in SUBSET docs : RankStart(m, docs, n, tags)
  BY DEF RankInit
<1>2. /\ mode = m /\ wiki = docs /\ limit = n /\ indexed = {}
      /\ byWords = <<>> /\ byVector = <<>> /\ ranking = <<>> /\ hits = <<>>
  BY <1>1 DEF RankStart
<1>3. phase = "index" /\ bm25 \in [wiki -> Points] /\ cosine \in [Doc -> Points]
  BY DEF RankInit
<1>4. limit \in Int /\ Points \subseteq Int
  BY <1>2, LimitsAssumption, DocsAssumption
<1>5. RankTypes
  <2>1. DOMAIN bm25 = wiki /\ bm25 \in [wiki -> Int] /\ cosine \in [Doc -> Int]
    BY <1>3, <1>4
  <2>2. wiki \subseteq Doc /\ mode \in {"words", "vector", "hybrid"}
    BY <1>2
  <2>3. /\ ranking \in Seq(Doc) /\ hits \in Seq(Doc)
        /\ byWords \in Seq(Doc) /\ byVector \in Seq(Doc)
    BY <1>2
  <2> QED
    BY <1>2, <1>3, <1>4, <2>1, <2>2, <2>3 DEF RankTypes
<1>6. Len(byWords) = 0 /\ Len(byVector) = 0 /\ DOMAIN hits = {}
  BY <1>2
<1>7. HitsInv
  BY <1>2, <1>3, <1>6 DEF HitsInv
<1>a. WordsInv
  BY <1>2, <1>3, <1>6 DEF WordsInv
<1>8. RanksInv
  BY <1>6, DocsFinite DEF RanksInv
<1> QED
  BY <1>5, <1>7, <1>a, <1>8 DEF RankInv

(* The index is made of the wiki as it is (FreshIndex). *)
LEMMA UseIndexOK == RankInv /\ UseIndex => RankInv'
<1> SUFFICES ASSUME RankInv, UseIndex PROVE RankInv'
  OBVIOUS
<1>1. RankTypes'
  BY DEF RankInv, RankTypes, UseIndex
<1>2. hits = <<>> /\ hits' = <<>> /\ DOMAIN hits' = {}
  BY DEF RankInv, HitsInv, UseIndex
<1>3. phase' \in {"rank", "vectors"} /\ mode' = mode
  BY DEF UseIndex
<1>4. HitsInv'
  BY <1>2, <1>3 DEF HitsInv
<1>5. WordsInv'
  BY DEF WordsInv, UseIndex
<1>6. RanksInv'
  BY DEF RankInv, RanksInv, UseIndex
<1> QED
  BY <1>1, <1>4, <1>5, <1>6 DEF RankInv

(* A deletion takes an article from the wiki and from nothing a query holds. *)
LEMMA DeleteDocOK == ASSUME NEW d \in Doc PROVE RankInv /\ DeleteDoc(d) => RankInv'
<1> SUFFICES ASSUME RankInv, DeleteDoc(d) PROVE RankInv'
  OBVIOUS
<1>1. /\ wiki' \subseteq wiki
      /\ UNCHANGED <<mode, limit, tagged, bm25, cosine, indexed, byWords, byVector, ranking, hits, phase>>
  BY DEF DeleteDoc
<1>2. RankTypes'
  BY <1>1 DEF RankInv, RankTypes
<1>3. HitsInv'
  <2>1. \A c, e : Precedes(c, e)' <=> Precedes(c, e)
    BY <1>1 DEF Precedes, Ahead, Fused, Weight, RankIn
  <2> QED
    BY <1>1, <2>1 DEF RankInv, HitsInv
<1>4. WordsInv'
  BY <1>1 DEF RankInv, WordsInv, ListOf
<1>5. RanksInv'
  BY <1>1 DEF RankInv, RanksInv
<1> QED
  BY <1>2, <1>3, <1>4, <1>5 DEF RankInv

(* The end of a query changes nothing. *)
LEMMA EndSearchOK == RankInv /\ EndSearch => RankInv'
<1> SUFFICES ASSUME RankInv, EndSearch PROVE RankInv'
  OBVIOUS
<1>1. /\ phase = "load" /\ phase' = "done" /\ ranking = <<>>
      /\ UNCHANGED <<wiki, mode, limit, tagged, bm25, cosine, indexed, byWords, byVector, ranking, hits>>
  BY DEF EndSearch
<1>2. RankTypes'
  BY <1>1 DEF RankInv, RankTypes
<1>3. HitsInv'
  <2>1. \A c, e : Precedes(c, e)' <=> Precedes(c, e)
    BY <1>1 DEF Precedes, Ahead, Fused, Weight, RankIn
  <2> QED
    BY <1>1, <2>1 DEF RankInv, HitsInv
<1>4. WordsInv'
  BY <1>1 DEF RankInv, WordsInv, ListOf
<1>5. RanksInv'
  BY <1>1 DEF RankInv, RanksInv
<1> QED
  BY <1>2, <1>3, <1>4, <1>5 DEF RankInv

(* The ranking by words is in order, and has the best (SearchScope, HybridSearch). *)
LEMMA RankByWordsOK == RankInv /\ RankByWords => RankInv'
<1> SUFFICES ASSUME RankInv, RankByWords PROVE RankInv'
  OBVIOUS
<1>1. /\ phase = "rank" /\ UNCHANGED <<wiki, mode, limit, tagged, bm25, cosine, indexed, byVector, hits>>
      /\ RankTypes /\ hits = <<>> /\ limit \in Int /\ mode \in {"words", "vector", "hybrid"}
  BY DEF RankByWords, RankInv, HitsInv, RankTypes
<1>2. PICK kept \in InOrder(KeptDocs) : byWords' \in ScoreIndex(kept, IF mode = "hybrid" THEN Depth ELSE limit)
  BY DEF RankByWords
<1>3. (IF mode = "hybrid" THEN Depth ELSE limit) \in Int
  BY <1>1, LimitsAssumption DEF Depth
<1>4. PICK n \in Int : n = IF mode = "hybrid" THEN Depth ELSE limit
  BY <1>3
<1>5. PICK w \in ScoreIndex(kept, n) : byWords' = w
  BY <1>2, <1>4
<1>6. /\ ListOf(w, KeptDocs) /\ w \in Seq(Doc) /\ Len(w) <= Cardinality(Doc)
      /\ \A i, j \in DOMAIN w : i < j => bm25[w[i]] >= bm25[w[j]]
      /\ \A d \in KeptDocs \ ToSet(w) :
            \/ bm25[d] <= 0
            \/ Len(w) >= (IF n > 1 THEN n ELSE 1) /\ \A e \in ToSet(w) : bm25[e] >= bm25[d]
  BY <1>1, ScoredBest
<1>7. /\ mode = "hybrid" => phase' = "vectors" /\ ranking' = <<>>
      /\ mode # "hybrid" => phase' = "load" /\ ranking' = w
  BY <1>5 DEF RankByWords
<1>8. RankTypes'
  <2>1. ranking' \in Seq(Doc) /\ phase' \in {"index", "rank", "vectors", "load", "done"}
    <3>1. CASE mode = "hybrid"
      BY <1>7, <3>1
    <3>2. CASE mode # "hybrid"
      BY <1>6, <1>7, <3>2
    <3> QED
      BY <3>1, <3>2
  <2>2. byWords' \in Seq(Doc) /\ hits' \in Seq(Doc)
    BY <1>5, <1>6, <1>1
  <2>3. /\ mode' = mode /\ limit' = limit /\ wiki' = wiki /\ indexed' = indexed
        /\ bm25' = bm25 /\ cosine' = cosine /\ byVector' = byVector
    BY <1>1
  <2> QED
    BY <1>1, <2>1, <2>2, <2>3 DEF RankTypes
<1>9. HitsInv'
  <2>1. hits' = <<>> /\ DOMAIN hits' = {}
    BY <1>1
  <2>2. CASE mode = "hybrid"
    BY <1>1, <1>7, <2>1, <2>2 DEF HitsInv
  <2>3. CASE mode = "words"
    <3>0. ranking' = w /\ mode' = "words" /\ bm25' = bm25
      BY <1>1, <1>7, <2>3
    <3>1. \A c, d : Precedes(c, d)' <=> bm25[c] >= bm25[d]
      BY <3>0 DEF Precedes
    <3>2. \A i, j \in DOMAIN w : i < j => Precedes(w[i], w[j])'
      BY <1>6, <3>1
    <3> QED
      BY <1>1, <1>7, <2>1, <2>3, <3>0, <3>2 DEF HitsInv
  <2>4. CASE mode = "vector"
    BY <1>1, <1>7, <2>1, <2>4 DEF HitsInv
  <2> QED
    BY <1>1, <2>2, <2>3, <2>4
<1>10. WordsInv'
  <2>1. CASE mode # "words"
    BY <1>1, <2>1 DEF WordsInv
  <2>2. CASE mode = "words"
    <3>1. n = limit /\ phase' = "load" /\ ranking' = w
      BY <1>4, <1>7, <2>2
    <3>2. KeptDocs = indexed \ tagged
      BY DEF KeptDocs
    <3>3. wiki \subseteq indexed
      BY <1>1, <2>2 DEF RankInv, WordsInv
    <3>4. ListOf(byWords, indexed \ tagged)'
      BY <1>1, <1>5, <1>6, <3>2 DEF ListOf
    <3>5. \A d \in indexed \ (tagged \cup ToSet(w)) :
             \/ bm25[d] <= 0
             \/ Len(w) >= (IF limit > 1 THEN limit ELSE 1) /\ \A e \in ToSet(w) : bm25[e] >= bm25[d]
      BY <1>6, <3>1, <3>2
    <3>6. ToSet(hits)' = {} /\ byWords' = w /\ ranking' = w
      BY <1>1, <1>5, <3>1 DEF ToSet
    <3>7. /\ mode' = "words" /\ phase' = "load" /\ wiki' \subseteq indexed'
          /\ ToSet(hits)' \cup ToSet(ranking)' \subseteq ToSet(byWords)'
          /\ ToSet(byWords)' \cap wiki' \subseteq ToSet(hits)' \cup ToSet(ranking)'
      BY <1>1, <2>2, <3>1, <3>3, <3>6
    <3> QED
      BY <1>1, <3>4, <3>5, <3>6, <3>7 DEF WordsInv
  <2> QED
    BY <2>1, <2>2
<1>11. RanksInv'
  BY <1>1, <1>5, <1>6 DEF RankInv, RanksInv
<1> QED
  BY <1>8, <1>9, <1>10, <1>11 DEF RankInv

(* The fused ranking is in the order of the weights (VectorSearch, HybridSearch). *)
LEMMA RankByVectorOK == RankInv /\ RankByVector => RankInv'
<1> SUFFICES ASSUME RankInv, RankByVector PROVE RankInv'
  OBVIOUS
<1>1. /\ phase = "vectors" /\ phase' = "load"
      /\ UNCHANGED <<wiki, mode, limit, tagged, bm25, cosine, indexed, byWords, hits>>
      /\ RankTypes /\ hits = <<>> /\ limit \in Int /\ byWords \in Seq(Doc)
      /\ mode \in {"vector", "hybrid"}
  BY DEF RankByVector, RankInv, HitsInv, WordsInv, RankTypes
<1>2. (IF mode = "hybrid" THEN Depth ELSE limit) \in Int
  BY <1>1, LimitsAssumption DEF Depth
<1>3. PICK n \in Int : n = IF mode = "hybrid" THEN Depth ELSE limit
  BY <1>2
<1>4. PICK v \in SimilarRows(n) : byVector' = v
  BY <1>3 DEF RankByVector
<1>5. v \in Seq(Doc) /\ Len(v) <= Cardinality(Doc)
  BY <1>1, RowsAreDocs
<1>6. CASE mode = "vector"
  <2>1. ranking' = v
    BY <1>4, <1>6 DEF RankByVector
  <2>2. RankTypes'
    BY <1>1, <1>4, <1>5, <2>1 DEF RankTypes
  <2>3. HitsInv' /\ WordsInv'
    BY <1>1, <1>6 DEF HitsInv, WordsInv
  <2>4. RanksInv'
    BY <1>1, <1>4, <1>5 DEF RankInv, RanksInv
  <2> QED
    BY <2>2, <2>3, <2>4 DEF RankInv
<1>7. CASE mode = "hybrid"
  <2>1. PICK s \in Fuse(byWords, v) : ranking' = IF limit > 0 THEN Cut(s, limit) ELSE s
    BY <1>4, <1>7 DEF RankByVector
  <2>2. PICK r : r = IF limit > 0 THEN Cut(s, limit) ELSE s
    OBVIOUS
  <2>3. r \in Seq(Doc) /\ \A i, j \in DOMAIN r : i < j => Ahead(byWords, v, r[i], r[j])
    BY <1>1, <1>5, <2>2, FusedInOrder
  <2>4. RankTypes'
    BY <1>1, <1>4, <1>5, <2>1, <2>2, <2>3 DEF RankTypes
  <2>5. ranking' = r /\ hits' = <<>> /\ DOMAIN hits' = {} /\ mode' = "hybrid"
    BY <1>1, <1>7, <2>1, <2>2
  <2>6. \A c, d : Precedes(c, d)' <=> Ahead(byWords, v, c, d)
    BY <1>1, <1>4, <2>5 DEF Precedes, Ahead, Fused, Weight, RankIn
  <2>7. HitsInv'
    BY <1>1, <2>3, <2>5, <2>6 DEF HitsInv
  <2>8. WordsInv'
    BY <2>5 DEF WordsInv
  <2>9. RanksInv'
    BY <1>1, <1>4, <1>5 DEF RankInv, RanksInv
  <2> QED
    BY <2>4, <2>7, <2>8, <2>9 DEF RankInv
<1> QED
  BY <1>1, <1>6, <1>7

(* What a list holds is what its head and its tail hold. *)
LEMMA HeadOrTail ==
  ASSUME NEW s \in Seq(Doc), s # <<>>
  PROVE  /\ Head(s) \in Doc /\ Tail(s) \in Seq(Doc) /\ DOMAIN Tail(s) = 1..(Len(s) - 1)
         /\ Head(s) = s[1] /\ 1 \in DOMAIN s
         /\ \A i \in DOMAIN Tail(s) : Tail(s)[i] = s[i + 1] /\ i + 1 \in DOMAIN s
         /\ \A e : e \in ToSet(s) <=> e = Head(s) \/ e \in ToSet(Tail(s))
<1>1. Len(s) \in Nat \ {0} /\ DOMAIN s = 1..Len(s)
  OBVIOUS
<1>2. /\ Head(s) \in Doc /\ Tail(s) \in Seq(Doc) /\ DOMAIN Tail(s) = 1..(Len(s) - 1) /\ Len(Tail(s)) = Len(s) - 1
      /\ Head(s) = s[1] /\ 1 \in DOMAIN s
      /\ \A i \in DOMAIN Tail(s) : Tail(s)[i] = s[i + 1] /\ i + 1 \in DOMAIN s
  BY <1>1
<1>3. \A e : e \in ToSet(s) <=> \E i \in 1..Len(s) : s[i] = e
  BY SeqIsList
<1>4. \A e : e \in ToSet(Tail(s)) <=> \E i \in 1..(Len(s) - 1) : Tail(s)[i] = e
  BY <1>2 DEF ToSet
<1>5. ASSUME NEW e \in ToSet(s), e # Head(s) PROVE e \in ToSet(Tail(s))
  <2>1. PICK i \in 1..Len(s) : s[i] = e
    BY <1>3
  <2>2. i # 1 /\ i - 1 \in 1..(Len(s) - 1)
    BY <1>1, <1>2, <1>5, <2>1
  <2>3. Tail(s)[i - 1] = s[(i - 1) + 1]
    BY <1>2, <2>2
  <2> QED
    BY <1>4, <2>1, <2>2, <2>3
<1>6. ASSUME NEW e \in ToSet(Tail(s)) PROVE e \in ToSet(s)
  <2>1. PICK i \in 1..(Len(s) - 1) : Tail(s)[i] = e
    BY <1>4
  <2>2. s[i + 1] = e /\ i + 1 \in 1..Len(s)
    BY <1>1, <1>2, <2>1
  <2> QED
    BY <1>3, <2>2
<1>7. Head(s) \in ToSet(s)
  BY <1>1, <1>2, <1>3
<1> QED
  BY <1>2, <1>5, <1>6, <1>7

(* What a list holds after an append. *)
LEMMA Appended ==
  ASSUME NEW s \in Seq(Doc), NEW d \in Doc
  PROVE  /\ Append(s, d) \in Seq(Doc) /\ DOMAIN Append(s, d) = 1..(Len(s) + 1) /\ DOMAIN s = 1..Len(s) /\ Len(s) \in Nat
         /\ \A i \in DOMAIN Append(s, d) : Append(s, d)[i] = IF i = Len(s) + 1 THEN d ELSE s[i]
         /\ \A e : e \in ToSet(Append(s, d)) <=> e \in ToSet(s) \/ e = d
<1>1. /\ Append(s, d) \in Seq(Doc) /\ DOMAIN Append(s, d) = 1..(Len(s) + 1) /\ DOMAIN s = 1..Len(s) /\ Len(s) \in Nat
      /\ \A i \in DOMAIN Append(s, d) : Append(s, d)[i] = IF i = Len(s) + 1 THEN d ELSE s[i]
  OBVIOUS
<1>2. \A e : e \in ToSet(s) <=> \E i \in 1..Len(s) : s[i] = e
  BY SeqIsList
<1>3. \A e : e \in ToSet(Append(s, d)) <=> \E i \in 1..(Len(s) + 1) : Append(s, d)[i] = e
  BY <1>1 DEF ToSet
<1> QED
  BY <1>1, <1>2, <1>3

(* A hit comes after all hits and before all that is left, and none that stays is lost (loadHits). *)
LEMMA LoadHitOK == RankInv /\ LoadHit => RankInv'
<1> SUFFICES ASSUME RankInv, LoadHit PROVE RankInv'
  OBVIOUS
<1>1. /\ phase = "load" /\ ranking # <<>> /\ ranking' = Tail(ranking)
      /\ UNCHANGED <<wiki, mode, limit, tagged, bm25, cosine, indexed, byWords, byVector, phase>>
      /\ RankTypes /\ ranking \in Seq(Doc) /\ hits \in Seq(Doc)
  BY DEF LoadHit, RankInv, RankTypes
<1>2. PICK d : d = Head(ranking)
  OBVIOUS
<1>3. /\ d \in Doc /\ ranking' \in Seq(Doc) /\ d = ranking[1] /\ 1 \in DOMAIN ranking
      /\ \A i \in DOMAIN ranking' : ranking'[i] = ranking[i + 1] /\ i + 1 \in DOMAIN ranking
      /\ \A e : e \in ToSet(ranking) <=> e = d \/ e \in ToSet(ranking')
      /\ DOMAIN ranking' \subseteq Nat \ {0}
  BY <1>1, <1>2, HeadOrTail
<1>4. hits' = IF d \in wiki /\ (mode = "vector" \/ d \in indexed) THEN Append(hits, d) ELSE hits
  BY <1>2 DEF LoadHit
<1>5. \A c, e : Precedes(c, e)' <=> Precedes(c, e)
  BY <1>1 DEF Precedes, Ahead, Fused, Weight, RankIn
<1>6. hits' \in Seq(Doc)
  BY <1>1, <1>3, <1>4, Appended
<1>7. RankTypes'
  BY <1>1, <1>3, <1>6 DEF RankTypes
<1>8. RanksInv'
  BY <1>1 DEF RankInv, RanksInv
<1>9. HitsInv'
  <2> SUFFICES ASSUME mode # "vector"
               PROVE  /\ \A i, j \in DOMAIN hits' : i < j => Precedes(hits'[i], hits'[j])
                      /\ \A i \in DOMAIN hits', j \in DOMAIN ranking' : Precedes(hits'[i], ranking'[j])
                      /\ \A i, j \in DOMAIN ranking' : i < j => Precedes(ranking'[i], ranking'[j])
    BY <1>1, <1>5 DEF HitsInv
  <2>1. /\ \A i, j \in DOMAIN hits : i < j => Precedes(hits[i], hits[j])
        /\ \A i \in DOMAIN hits, j \in DOMAIN ranking : Precedes(hits[i], ranking[j])
        /\ \A i, j \in DOMAIN ranking : i < j => Precedes(ranking[i], ranking[j])
    BY <1>1 DEF RankInv, HitsInv
  <2>2. \A i \in DOMAIN hits : Precedes(hits[i], d)
    BY <1>3, <2>1
  <2>3. \A j \in DOMAIN ranking' : Precedes(d, ranking'[j])
    BY <1>3, <2>1
  <2>4. \A i, j \in DOMAIN ranking' : i < j => Precedes(ranking'[i], ranking'[j])
    BY <1>3, <2>1
  <2>5. \A i \in DOMAIN hits, j \in DOMAIN ranking' : Precedes(hits[i], ranking'[j])
    BY <1>3, <2>1
  <2>6. CASE hits' = hits
    BY <2>1, <2>4, <2>5, <2>6
  <2>7. CASE hits' = Append(hits, d)
    <3>1. /\ DOMAIN hits' = 1..(Len(hits) + 1) /\ DOMAIN hits = 1..Len(hits) /\ Len(hits) \in Nat
          /\ \A i \in DOMAIN hits' : hits'[i] = IF i = Len(hits) + 1 THEN d ELSE hits[i]
      BY <1>1, <1>3, <2>7, Appended
    <3>2. \A i \in DOMAIN hits' : hits'[i] = d \/ (i \in DOMAIN hits /\ hits'[i] = hits[i])
      BY <3>1
    <3>3. \A i, j \in DOMAIN hits' : i < j => i \in DOMAIN hits /\ hits'[i] = hits[i]
      BY <3>1
    <3>4. \A i, j \in DOMAIN hits' : i < j => Precedes(hits'[i], hits'[j])
      BY <2>1, <2>2, <3>2, <3>3
    <3>5. \A i \in DOMAIN hits', j \in DOMAIN ranking' : Precedes(hits'[i], ranking'[j])
      BY <2>3, <2>5, <3>2
    <3> QED
      BY <2>4, <3>4, <3>5
  <2> QED
    BY <1>4, <2>6, <2>7
<1>10. WordsInv'
  <2> SUFFICES ASSUME mode = "words"
               PROVE  /\ ToSet(hits') \cup ToSet(ranking') \subseteq ToSet(byWords)
                      /\ ToSet(byWords) \cap wiki \subseteq ToSet(hits') \cup ToSet(ranking')
    BY <1>1 DEF RankInv, WordsInv, ListOf
  <2>1. /\ wiki \subseteq indexed
        /\ ToSet(hits) \cup ToSet(ranking) \subseteq ToSet(byWords)
        /\ ToSet(byWords) \cap wiki \subseteq ToSet(hits) \cup ToSet(ranking)
    BY <1>1 DEF RankInv, WordsInv
  <2>2. CASE d \in wiki
    <3>1. \A e : e \in ToSet(hits') <=> e \in ToSet(hits) \/ e = d
      BY <1>1, <1>3, <1>4, <2>1, <2>2, Appended
    <3> QED
      BY <1>3, <2>1, <3>1
  <2>3. CASE d \notin wiki
    BY <1>3, <1>4, <2>1, <2>3
  <2> QED
    BY <2>2, <2>3
<1> QED
  BY <1>7, <1>8, <1>9, <1>10 DEF RankInv

(* The invariant is inductive. *)
LEMMA RankInvHolds == RankInit /\ [][RankNext]_rankVars => []RankInv
<1>1. RankInit => RankInv
  BY RankInitOK
<1>2. RankInv /\ [RankNext]_rankVars => RankInv'
  <2> SUFFICES ASSUME RankInv, [RankNext]_rankVars PROVE RankInv'
    OBVIOUS
  <2>1. CASE UseIndex
    BY <2>1, UseIndexOK
  <2>2. CASE RankByWords
    BY <2>2, RankByWordsOK
  <2>3. CASE RankByVector
    BY <2>3, RankByVectorOK
  <2>4. CASE LoadHit
    BY <2>4, LoadHitOK
  <2>5. CASE EndSearch
    BY <2>5, EndSearchOK
  <2>6. ASSUME NEW d \in Doc, DeleteDoc(d) PROVE RankInv'
    BY <2>6, DeleteDocOK
  <2>7. CASE UNCHANGED rankVars
    <3>1. UNCHANGED <<wiki, mode, limit, tagged, bm25, cosine, indexed, byWords, byVector, ranking, hits, phase>>
      BY <2>7 DEF rankVars
    <3>2. \A c, e : Precedes(c, e)' <=> Precedes(c, e)
      BY <3>1 DEF Precedes, Ahead, Fused, Weight, RankIn
    <3>3. RankTypes' /\ RanksInv'
      BY <3>1 DEF RankInv, RankTypes, RanksInv
    <3>4. HitsInv'
      BY <3>1, <3>2 DEF RankInv, HitsInv
    <3>5. WordsInv'
      BY <3>1 DEF RankInv, WordsInv, ListOf
    <3> QED
      BY <3>3, <3>4, <3>5 DEF RankInv
  <2> QED
    BY <2>1, <2>2, <2>3, <2>4, <2>5, <2>6, <2>7 DEF RankNext
<1> QED
  BY <1>1, <1>2, PTL

(* BestAreFound: what a search by words leaves out does not match, is       *)
(* excluded, is gone, or has as many as the limit that are as good.         *)
THEOREM BestOfAll == RankInit /\ [][RankNext]_rankVars => []BestAreFound
<1>1. RankInv => BestAreFound
  <2> SUFFICES ASSUME RankInv, mode = "words", phase = "done"
               PROVE  /\ ToSet(hits) \cap tagged = {}
                      /\ \A i, j \in DOMAIN hits : i < j => bm25[hits[i]] >= bm25[hits[j]]
                      /\ \A d \in wiki \ (tagged \cup ToSet(hits)) :
                            \/ bm25[d] <= 0
                            \/ Cardinality({e \in ToSet(byWords) : bm25[e] >= bm25[d]})
                                  >= (IF limit > 1 THEN limit ELSE 1)
    BY DEF BestAreFound
  <2>1. /\ wiki \subseteq indexed /\ ranking = <<>>
        /\ ListOf(byWords, indexed \ tagged)
        /\ \A d \in indexed \ (tagged \cup ToSet(byWords)) :
              \/ bm25[d] <= 0
              \/ /\ Len(byWords) >= (IF limit > 1 THEN limit ELSE 1)
                 /\ \A e \in ToSet(byWords) : bm25[e] >= bm25[d]
        /\ ToSet(hits) \cup ToSet(ranking) \subseteq ToSet(byWords)
        /\ ToSet(byWords) \cap wiki \subseteq ToSet(hits) \cup ToSet(ranking)
    BY DEF RankInv, WordsInv
  <2>2. ToSet(ranking) = {}
    BY <2>1 DEF ToSet
  <2>3. /\ byWords \in Seq(Doc) /\ indexed \subseteq Doc
    BY DEF RankInv, RankTypes
  <2>4. Len(byWords) \in Nat /\ byWords \in [1..Len(byWords) -> Doc] /\ DOMAIN byWords = 1..Len(byWords)
        /\ \A e : e \in ToSet(byWords) <=> \E i \in 1..Len(byWords) : byWords[i] = e
    BY <2>3, SeqIsList
  <2>5. \A i \in 1..Len(byWords) : byWords[i] \in indexed \ tagged
    BY <2>1, <2>4 DEF ListOf
  <2>6. ToSet(hits) \cap tagged = {}
    BY <2>1, <2>4, <2>5
  <2>7. \A i, j \in DOMAIN hits : i < j => bm25[hits[i]] >= bm25[hits[j]]
    BY DEF RankInv, HitsInv, Precedes
  <2>8. ASSUME NEW d \in wiki \ (tagged \cup ToSet(hits)), ~ (bm25[d] <= 0)
        PROVE  Cardinality({e \in ToSet(byWords) : bm25[e] >= bm25[d]}) >= (IF limit > 1 THEN limit ELSE 1)
    <3>1. d \in indexed \ (tagged \cup ToSet(byWords))
      BY <2>1, <2>2
    <3>2. Len(byWords) >= (IF limit > 1 THEN limit ELSE 1) /\ \A e \in ToSet(byWords) : bm25[e] >= bm25[d]
      BY <2>1, <2>8, <3>1
    <3>3. {e \in ToSet(byWords) : bm25[e] >= bm25[d]} = ToSet(byWords)
      BY <3>2
    <3>4. PICK n \in Nat : n = Len(byWords)
      BY <2>4
    <3>5. byWords \in [1..n -> Doc] /\ \A i, j \in DOMAIN byWords : i # j => byWords[i] # byWords[j]
      BY <2>1, <2>4, <3>4 DEF ListOf
    <3>6. Cardinality(ToSet(byWords)) = n
      BY <3>5, DocsFinite, ListLength
    <3> QED
      BY <3>2, <3>3, <3>4, <3>6
  <2> QED
    BY <2>6, <2>7, <2>8
<1> QED
  BY <1>1, RankInvHolds, PTL

(* FusionIsMonotone: an article that neither ranking puts below another and *)
(* that one puts above it is found before it.                               *)
THEOREM FusionKeepsOrder == RankInit /\ [][RankNext]_rankVars => []FusionIsMonotone
<1>1. RankInv => FusionIsMonotone
  <2> SUFFICES ASSUME RankInv, mode = "hybrid", NEW i \in DOMAIN hits, NEW j \in DOMAIN hits,
                      Above(byWords, hits[i], hits[j]) \/ Above(byVector, hits[i], hits[j]),
                      ~ Above(byWords, hits[j], hits[i]), ~ Above(byVector, hits[j], hits[i]),
                      ~ (i < j)
               PROVE  FALSE
    BY DEF FusionIsMonotone
  <2>1. /\ byWords \in Seq(Doc) /\ Len(byWords) <= Cardinality(Doc)
        /\ byVector \in Seq(Doc) /\ Len(byVector) <= Cardinality(Doc)
        /\ hits \in Seq(Doc)
    BY DEF RankInv, RankTypes, RanksInv
  <2>2. PICK c \in Doc, d \in Doc : c = hits[i] /\ d = hits[j]
    BY <2>1
  <2>3. /\ Weight(byWords, c) \in Nat /\ Weight(byWords, d) \in Nat
        /\ Weight(byVector, c) \in Nat /\ Weight(byVector, d) \in Nat
        /\ Weight(byWords, c) >= Weight(byWords, d) /\ Weight(byVector, c) >= Weight(byVector, d)
        /\ Weight(byWords, c) > Weight(byWords, d) \/ Weight(byVector, c) > Weight(byVector, d)
    BY <2>1, <2>2, WeightsFall
  <2>4. Fused(byWords, byVector, c) > Fused(byWords, byVector, d)
    BY <2>3 DEF Fused
  <2>5. j < i
    <3>1. i # j
      BY <2>2, <2>3
    <3>2. i \in Nat /\ j \in Nat
      BY <2>1
    <3> QED
      BY <3>1, <3>2
  <2>6. Ahead(byWords, byVector, d, c)
    BY <2>2, <2>5 DEF RankInv, HitsInv, Precedes
  <2>7. Fused(byWords, byVector, c) \in Int /\ Fused(byWords, byVector, d) \in Int
    BY <2>3 DEF Fused
  <2> QED
    BY <2>4, <2>6, <2>7 DEF Ahead
<1> QED
  BY <1>1, RankInvHolds, PTL

(***************************************************************************)
(* Sums.                                                                   *)
(***************************************************************************)
(* What the places of a sum are. *)
LEMMA InPlaces ==
  ASSUME NEW f, NEW S
  PROVE  \A p : p \in PlacesOf(f, S) <=> \E x \in S : \E k \in 1..f[x] : p = <<x, k>>
BY DEF PlacesOf

(* A sum over a finite set is a natural number. *)
LEMMA SumIsNat ==
  ASSUME NEW S, IsFiniteSet(S), NEW f, \A x \in S : f[x] \in Nat
  PROVE  IsFiniteSet(PlacesOf(f, S)) /\ SumOf(f, S) \in Nat
<1> DEFINE Row(x) == {x} \X (1..f[x])
           T == {Row(x) : x \in S}
           g == [x \in S |-> Row(x)]
<1>1. \A x \in S : IsFiniteSet(Row(x))
  <2> SUFFICES ASSUME NEW x \in S PROVE IsFiniteSet({x} \X (1..f[x]))
    OBVIOUS
  <2>1. IsFiniteSet({x})
    BY FS_Singleton
  <2>2. IsFiniteSet(1..f[x])
    BY FS_Interval
  <2> QED
    BY <2>1, <2>2, FS_Product
<1>2. g \in Surjection(S, T)
  BY DEF Surjection
<1> HIDE DEF Row
<1>3. IsFiniteSet(T)
  <2> HIDE DEF T, g
  <2> QED
    BY <1>2, FS_Surjection
<1>4. \A R \in T : IsFiniteSet(R)
  BY <1>1
<1>5. IsFiniteSet(UNION T)
  <2> HIDE DEF T
  <2> QED
    BY <1>3, <1>4, FS_UNION
<1>6. PlacesOf(f, S) = UNION T
  BY DEF PlacesOf, Row
<1>7. IsFiniteSet(PlacesOf(f, S))
  BY <1>5, <1>6
<1>8. Cardinality(PlacesOf(f, S)) \in Nat
  BY <1>7, FS_CardinalityType
<1> QED
  BY <1>7, <1>8 DEF SumOf

(* The sum over nothing. *)
LEMMA SumOfNone ==
  ASSUME NEW f
  PROVE  SumOf(f, {}) = 0
BY FS_EmptySet DEF SumOf, PlacesOf

(* One more element adds what it counts. *)
LEMMA SumAdds ==
  ASSUME NEW S, IsFiniteSet(S), NEW e, e \notin S, NEW f, NEW g,
         \A x \in S : f[x] \in Nat /\ g[x] = f[x], g[e] \in Nat
  PROVE  SumOf(g, S \cup {e}) = SumOf(f, S) + g[e]
<1> DEFINE P == PlacesOf(f, S)
           R == {e} \X (1..g[e])
<1>1. PlacesOf(g, S \cup {e}) = P \cup R
  BY DEF PlacesOf
<1>2. P \cap R = {}
  BY InPlaces
<1>3. IsFiniteSet(P) /\ Cardinality(P) \in Nat
  BY SumIsNat DEF SumOf
<1>4. IsFiniteSet(1..g[e]) /\ Cardinality(1..g[e]) = g[e]
  BY FS_Interval
<1>5. IsFiniteSet({e}) /\ Cardinality({e}) = 1
  BY FS_Singleton
<1>6. IsFiniteSet(R) /\ Cardinality(R) = g[e]
  <2>1. IsFiniteSet(R) /\ Cardinality(R) = Cardinality({e}) * Cardinality(1..g[e])
    <3> DEFINE A == {e}   B == 1..g[e]
    <3>1. IsFiniteSet(A) /\ IsFiniteSet(B)
      BY <1>4, <1>5
    <3> HIDE DEF A, B
    <3>2. IsFiniteSet(A \X B) /\ Cardinality(A \X B) = Cardinality(A) * Cardinality(B)
      BY <3>1, FS_Product
    <3> QED
      BY <3>2 DEF A, B
  <2>2. Cardinality({e}) * Cardinality(1..g[e]) = 1 * g[e]
    BY <1>4, <1>5
  <2> QED
    BY <2>1, <2>2
<1>7. Cardinality(P \cap R) = 0
  BY <1>2, FS_EmptySet
<1> HIDE DEF P, R
<1>8. Cardinality(P \cup R) = Cardinality(P) + Cardinality(R) - Cardinality(P \cap R)
  BY <1>3, <1>6, FS_Union
<1>9. SumOf(g, S \cup {e}) = Cardinality(P \cup R)
  BY <1>1 DEF SumOf
<1>10. SumOf(f, S) = Cardinality(P)
  BY DEF SumOf, P
<1> QED
  BY <1>3, <1>6, <1>7, <1>8, <1>9, <1>10

(* A sum is at most another if what counts in it goes, one to one, to what *)
(* counts as much there.                                                   *)
LEMMA SumAtMost ==
  ASSUME NEW S, IsFiniteSet(S), NEW T, IsFiniteSet(T), NEW f, NEW g, NEW m,
         \A x \in S : f[x] \in Nat, \A y \in T : g[y] \in Nat,
         \A x \in S : f[x] > 0 => m[x] \in T /\ f[x] <= g[m[x]],
         \A x, y \in S : f[x] > 0 /\ f[y] > 0 /\ m[x] = m[y] => x = y
  PROVE  SumOf(f, S) <= SumOf(g, T)
<1> DEFINE P == PlacesOf(f, S)
           Q == PlacesOf(g, T)
           h == [p \in P |-> <<m[p[1]], p[2]>>]
<1>1. \A p \in P : p = <<p[1], p[2]>> /\ p[1] \in S /\ p[2] \in 1..f[p[1]]
  BY InPlaces
<1>2. \A p \in P : h[p] \in Q
  <2> SUFFICES ASSUME NEW p \in P PROVE h[p] \in Q
    OBVIOUS
  <2>1. p[1] \in S /\ p[2] \in 1..f[p[1]] /\ f[p[1]] > 0
    BY <1>1
  <2>2. m[p[1]] \in T /\ p[2] \in 1..g[m[p[1]]]
    BY <2>1
  <2> QED
    BY <2>2, InPlaces
<1>3. \A p, q \in P : h[p] = h[q] => p = q
  <2> SUFFICES ASSUME NEW p \in P, NEW q \in P, h[p] = h[q] PROVE p = q
    OBVIOUS
  <2>1. m[p[1]] = m[q[1]] /\ p[2] = q[2]
    OBVIOUS
  <2>2. p[1] \in S /\ q[1] \in S /\ f[p[1]] > 0 /\ f[q[1]] > 0
    BY <1>1
  <2>3. p[1] = q[1]
    BY <2>1, <2>2
  <2> QED
    BY <1>1, <2>1, <2>3
<1>4. h \in Injection(P, Q)
  BY <1>2, <1>3 DEF Injection, IsInjective
<1>5. IsFiniteSet(Q)
  BY SumIsNat
<1> HIDE DEF P, Q, h
<1>6. Cardinality(P) <= Cardinality(Q)
  BY <1>4, <1>5, FS_Injection
<1> QED
  BY <1>6 DEF SumOf, P, Q

(* What is added up in two parts. *)
LEMMA SumOfParts ==
  ASSUME NEW S, IsFiniteSet(S), NEW f, NEW g, NEW h,
         \A x \in S : f[x] \in Nat /\ g[x] \in Nat /\ h[x] = f[x] + g[x]
  PROVE  SumOf(h, S) <= SumOf(f, S) + SumOf(g, S)
<1> DEFINE A == PlacesOf(f, S)
           B == PlacesOf(h, S) \ A
           G == PlacesOf(g, S)
           i == [p \in B |-> <<p[1], p[2] - f[p[1]]>>]
<1>1. \A p \in B : p = <<p[1], p[2]>> /\ p[1] \in S /\ p[2] \in Nat /\ p[2] > f[p[1]] /\ p[2] <= h[p[1]]
  <2> SUFFICES ASSUME NEW p \in B
               PROVE  p = <<p[1], p[2]>> /\ p[1] \in S /\ p[2] \in Nat /\ p[2] > f[p[1]] /\ p[2] <= h[p[1]]
    OBVIOUS
  <2>1. PICK x \in S : \E k \in 1..h[x] : p = <<x, k>>
    BY InPlaces
  <2>2. PICK k \in 1..h[x] : p = <<x, k>>
    BY <2>1
  <2>3. ~(k \in 1..f[x])
    BY <2>2, InPlaces
  <2>4. k \in Nat /\ k > f[x] /\ k <= h[x]
    BY <2>3
  <2> QED
    BY <2>2, <2>4
<1>2. \A p \in B : i[p] \in G
  <2> SUFFICES ASSUME NEW p \in B PROVE <<p[1], p[2] - f[p[1]]>> \in G
    OBVIOUS
  <2>1. p[1] \in S /\ p[2] - f[p[1]] \in 1..g[p[1]]
    BY <1>1
  <2> QED
    BY <2>1, InPlaces
<1>3. \A p, q \in B : i[p] = i[q] => p = q
  <2> SUFFICES ASSUME NEW p \in B, NEW q \in B, i[p] = i[q] PROVE p = q
    OBVIOUS
  <2>1. p[1] = q[1] /\ p[2] - f[p[1]] = q[2] - f[q[1]]
    OBVIOUS
  <2>2. f[p[1]] \in Nat /\ p[2] \in Nat /\ q[2] \in Nat
    BY <1>1
  <2>3. p[2] = q[2]
    BY <2>1, <2>2
  <2> QED
    BY <1>1, <2>1, <2>3
<1>4. i \in Injection(B, G)
  BY <1>2, <1>3 DEF Injection, IsInjective
<1>5. /\ IsFiniteSet(A) /\ Cardinality(A) \in Nat
      /\ IsFiniteSet(G) /\ Cardinality(G) \in Nat
  BY SumIsNat DEF SumOf
<1>6. PlacesOf(h, S) \subseteq A \cup B
  OBVIOUS
<1>7. SumOf(f, S) = Cardinality(A) /\ SumOf(g, S) = Cardinality(G)
  BY DEF SumOf
<1> HIDE DEF A, B, G, i
<1>8. IsFiniteSet(B) /\ Cardinality(B) <= Cardinality(G)
  BY <1>4, <1>5, FS_Injection
<1>9. /\ IsFiniteSet(A \cup B)
      /\ Cardinality(A \cup B) = Cardinality(A) + Cardinality(B) - Cardinality(A \cap B)
  BY <1>5, <1>8, FS_Union
<1>10. IsFiniteSet(A \cap B)
  BY <1>5, FS_Intersection
<1>11. Cardinality(A \cap B) \in Nat /\ Cardinality(B) \in Nat /\ Cardinality(A \cup B) \in Nat
  BY <1>8, <1>9, <1>10, FS_CardinalityType
<1>12. Cardinality(PlacesOf(h, S)) <= Cardinality(A \cup B) /\ IsFiniteSet(PlacesOf(h, S))
  BY <1>6, <1>9, FS_Subset
<1>13. Cardinality(PlacesOf(h, S)) \in Nat
  BY <1>12, FS_CardinalityType
<1> QED
  BY <1>5, <1>7, <1>8, <1>9, <1>11, <1>12, <1>13 DEF SumOf

(***************************************************************************)
(* Trimmed texts.                                                          *)
(***************************************************************************)
(* The least of a set of numbers is one of them. *)
LEMMA LeastInSet ==
  ASSUME NEW S \in SUBSET Nat, S # {}
  PROVE  \E x \in S : \A y \in S : x <= y
<1>1. PICK x \in S : \A y \in S : ~ (<<y, x>> \in OpToRel(<, Nat))
  BY NatLessThanWellFounded, WFMin, Zenon
<1>2. \A y \in S : ~ (y < x)
  BY <1>1, Zenon DEF OpToRel
<1> QED
  BY <1>2

(* A set of numbers up to n has a largest one (Max). *)
LEMMA MaxUpTo ==
  ASSUME NEW n \in Nat, NEW S \in SUBSET (0..n), S # {}
  PROVE  Max(S) \in S /\ \A x \in S : Max(S) >= x
<1> DEFINE D == {n - x : x \in S}
<1>1. D \in SUBSET Nat /\ D # {}
  <2>1. \A x \in S : n - x \in Nat
    OBVIOUS
  <2>2. \E x \in S : n - x \in D
    OBVIOUS
  <2> QED
    BY <2>1, <2>2
<1>2. PICK d \in D : \A y \in D : d <= y
  <2> HIDE DEF D
  <2> QED
    BY <1>1, LeastInSet
<1>3. PICK m \in S : d = n - m
  OBVIOUS
<1>4. \A x \in S : m >= x
  <2> SUFFICES ASSUME NEW x \in S PROVE m >= x
    OBVIOUS
  <2>1. n - m <= n - x
    BY <1>2, <1>3
  <2> QED
    BY <2>1
<1> QED
  BY <1>4 DEF Max

(* The lesser of two numbers (Min). *)
LEMMA MinOfTwo ==
  ASSUME NEW a \in Int, NEW b \in Int
  PROVE  Min({a, b}) \in {a, b} /\ Min({a, b}) <= a /\ Min({a, b}) <= b
<1>1. \E x \in {a, b} : \A y \in {a, b} : x <= y
  <2>1. CASE a <= b
    BY <2>1
  <2>2. CASE b <= a
    BY <2>2
  <2> QED
    BY <2>1, <2>2
<1> QED
  BY <1>1 DEF Min

(* A text has a length. *)
LEMMA TextLenIsNat ==
  ASSUME NEW txt \in Seq(TextLine)
  PROVE  TextLen(txt) \in Nat
<1> DEFINE f == [i \in DOMAIN txt |-> txt[i].len]
<1>1. Len(txt) \in Nat /\ DOMAIN txt = 1..Len(txt)
  OBVIOUS
<1>2. IsFiniteSet(DOMAIN txt)
  BY <1>1, FS_Interval
<1>3. \A i \in DOMAIN txt : f[i] \in Nat
  <2>1. \A i \in DOMAIN txt : txt[i] \in TextLine
    OBVIOUS
  <2> QED
    BY <2>1 DEF TextLine
<1>4. SumOf(f, DOMAIN txt) \in Nat
  <2> HIDE DEF f
  <2> QED
    BY <1>2, <1>3, SumIsNat
<1>5. txt # <<>> => Len(txt) - 1 \in Nat
  BY <1>1
<1> QED
  BY <1>4, <1>5 DEF TextLen

(* Fewer lines are no longer. *)
LEMMA FewerLines ==
  ASSUME NEW txt \in Seq(TextLine), NEW k \in 1..Len(txt), NEW n \in k..Len(txt)
  PROVE  TextLen(SubSeq(txt, 1, k)) <= TextLen(SubSeq(txt, 1, n))
<1> DEFINE s == SubSeq(txt, 1, k)   t == SubSeq(txt, 1, n)
           f == [i \in DOMAIN s |-> s[i].len]   g == [i \in DOMAIN t |-> t[i].len]
           m == [i \in 1..k |-> i]
<1>1. /\ s \in Seq(TextLine) /\ Len(s) = k /\ DOMAIN s = 1..k
      /\ t \in Seq(TextLine) /\ Len(t) = n /\ DOMAIN t = 1..n
      /\ s # <<>> /\ t # <<>> /\ k \in Nat /\ n \in Nat /\ k <= n
  OBVIOUS
<1>2. \A i \in 1..k : s[i] = t[i]
  OBVIOUS
<1>3. (\A i \in 1..k : f[i] \in Nat) /\ (\A i \in 1..n : g[i] \in Nat)
  BY <1>1 DEF TextLine
<1>4. \A i \in 1..k : m[i] \in 1..n /\ f[i] <= g[m[i]]
  <2> SUFFICES ASSUME NEW i \in 1..k PROVE m[i] \in 1..n /\ f[i] <= g[m[i]]
    OBVIOUS
  <2>1. m[i] = i /\ i \in 1..n
    BY <1>1
  <2>2. f[i] = s[i].len /\ g[i] = t[i].len /\ f[i] \in Nat
    BY <1>1, <1>3, <2>1
  <2> QED
    BY <1>2, <2>1, <2>2
<1>5. \A i, j \in 1..k : m[i] = m[j] => i = j
  OBVIOUS
<1>6. IsFiniteSet(1..k) /\ IsFiniteSet(1..n)
  BY <1>1, FS_Interval
<1>7. SumOf(f, 1..k) <= SumOf(g, 1..n)
  <2> HIDE DEF f, g, m
  <2> QED
    BY <1>3, <1>4, <1>5, <1>6, SumAtMost
<1>8. SumOf(f, 1..k) \in Nat /\ SumOf(g, 1..n) \in Nat
  <2> HIDE DEF f, g
  <2> QED
    BY <1>3, <1>6, SumIsNat
<1>9. TextLen(s) = SumOf(f, 1..k) + (k - 1) /\ TextLen(t) = SumOf(g, 1..n) + (n - 1)
  <2> HIDE DEF s, t
  <2> QED
    BY <1>1 DEF TextLen
<1>10. TextLen(s) <= TextLen(t)
  <2> HIDE DEF s, t, f, g
  <2> QED
    BY <1>1, <1>7, <1>8, <1>9
<1> QED
  BY <1>10

(* The rows of a table that the first n lines end in. *)
LEMMA TableTailOK ==
  ASSUME NEW txt \in Seq(TextLine), NEW n \in 0..Len(txt)
  PROVE  /\ TableTail(txt, n) \in 0..n
         /\ TableTail(txt, n - TableTail(txt, n)) = 0
<1> DEFINE Ends(x) == {k \in 0..x : k = 0 \/ ~txt[k].row}
<1>1. \A x \in 0..n : Max(Ends(x)) \in Ends(x) /\ \A y \in Ends(x) : Max(Ends(x)) >= y
  <2> SUFFICES ASSUME NEW x \in 0..n
               PROVE  Max(Ends(x)) \in Ends(x) /\ \A y \in Ends(x) : Max(Ends(x)) >= y
    OBVIOUS
  <2>1. Ends(x) \in SUBSET (0..x) /\ 0 \in Ends(x) /\ x \in Nat
    OBVIOUS
  <2> HIDE DEF Ends
  <2> QED
    BY <2>1, MaxUpTo
<1> DEFINE e == Max(Ends(n))
<1>2. e \in Ends(n) /\ e \in 0..n
  BY <1>1
<1>3. TableTail(txt, n) = n - e /\ n - (n - e) = e
  BY <1>2 DEF TableTail
<1>4. e \in Ends(e)
  BY <1>2
<1>5. Max(Ends(e)) = e
  <2>1. Max(Ends(e)) \in 0..e /\ Max(Ends(e)) >= e
    BY <1>1, <1>2, <1>4
  <2> QED
    BY <1>2, <2>1
<1>6. TableTail(txt, e) = e - Max(Ends(e))
  BY DEF TableTail
<1> HIDE DEF e, Ends
<1>7. e - e = 0 /\ n - e \in 0..n
  BY <1>2
<1> QED
  BY <1>3, <1>5, <1>6, <1>7

(* The whole lines that are kept do not end in a table without rows, and   *)
(* leave room for the mark.                                                *)
LEMMA WholeOK ==
  ASSUME NEW txt \in Seq(TextLine), NEW room \in Int
  PROVE  /\ Whole(txt, room) \in 0..Len(txt)
         /\ TableTail(txt, Whole(txt, room)) \notin 1..2
         /\ Whole(txt, room) > 0
               => TextLen(SubSeq(txt, 1, Whole(txt, room))) <= room - Ellipsis - 1
<1> DEFINE K == {k \in 0..Len(txt) : k = 0 \/ TextLen(SubSeq(txt, 1, k)) <= room - Ellipsis - 1}
           n == Max(K)
           w == Whole(txt, room)
<1>1. Len(txt) \in Nat /\ K \in SUBSET (0..Len(txt)) /\ 0 \in K
  OBVIOUS
<1>2. n \in K
  <2> HIDE DEF K
  <2> QED
    BY <1>1, MaxUpTo
<1>3. n \in 0..Len(txt) /\ (n = 0 \/ TextLen(SubSeq(txt, 1, n)) <= room - Ellipsis - 1)
  BY <1>2
<1>4. w = IF TableTail(txt, n) \in 1..2 THEN n - TableTail(txt, n) ELSE n
  BY DEF Whole, KeptLines
<1> HIDE DEF n, w, K
<1>5. TableTail(txt, n) \in 0..n /\ TableTail(txt, n - TableTail(txt, n)) = 0
  BY <1>3, TableTailOK
<1>6. w \in 0..n /\ TableTail(txt, w) \notin 1..2
  BY <1>3, <1>4, <1>5
<1>7. ASSUME w > 0 PROVE TextLen(SubSeq(txt, 1, w)) <= room - Ellipsis - 1
  <2>1. w \in 1..Len(txt) /\ n \in w..Len(txt) /\ n # 0
    BY <1>3, <1>6, <1>7
  <2>2. TextLen(SubSeq(txt, 1, w)) <= TextLen(SubSeq(txt, 1, n))
    BY <2>1, FewerLines
  <2>3. SubSeq(txt, 1, w) \in Seq(TextLine) /\ SubSeq(txt, 1, n) \in Seq(TextLine)
    BY <2>1
  <2>4. TextLen(SubSeq(txt, 1, w)) \in Nat /\ TextLen(SubSeq(txt, 1, n)) \in Nat
    BY <2>3, TextLenIsNat
  <2> QED
    BY <1>3, <2>1, <2>2, <2>4, MarksAssumption
<1> QED
  BY <1>3, <1>6, <1>7 DEF w

(* What a unit is trimmed to fits its room, and keeps tables whole.        *)
LEMMA TrimmedOK ==
  ASSUME NEW txt \in Text, NEW room \in Int, NEW p \in Trimmed(txt, room)
  PROVE  /\ p.len \in Nat /\ p.len <= room
         /\ p.cut => p.rows \notin 1..2
<1> DEFINE n == Whole(txt, room)
<1>1. txt \in Seq(TextLine) /\ Len(txt) \in Nat /\ Len(txt) >= 1 /\ txt[1].len \in Nat
  <2>1. txt \in Seq(TextLine) /\ txt # <<>>
    BY DEF Text
  <2>2. Len(txt) \in Nat /\ Len(txt) >= 1
    BY <2>1
  <2>3. txt[1] \in TextLine
    BY <2>1, <2>2
  <2> QED
    BY <2>1, <2>2, <2>3 DEF TextLine
<1>2. n \in 0..Len(txt) /\ TableTail(txt, n) \notin 1..2
      /\ (n > 0 => TextLen(SubSeq(txt, 1, n)) <= room - Ellipsis - 1)
  BY <1>1, WholeOK
<1>3. Ellipsis \in Nat
  BY MarksAssumption
<1>4. CASE TextLen(txt) <= room
  <2>1. p = Piece(TextLen(txt), TableTail(txt, Len(txt)), FALSE)
    BY <1>4 DEF Trimmed
  <2>2. p.len = TextLen(txt) /\ p.cut = FALSE
    BY <2>1 DEF Piece
  <2> QED
    BY <1>1, <1>4, <2>2, TextLenIsNat
<1>5. CASE ~(TextLen(txt) <= room) /\ n > 0
  <2>1. p = Piece(TextLen(SubSeq(txt, 1, n)) + Ellipsis + 1, TableTail(txt, n), TRUE)
    BY <1>5 DEF Trimmed
  <2>2. p.len = TextLen(SubSeq(txt, 1, n)) + Ellipsis + 1 /\ p.rows = TableTail(txt, n)
    BY <2>1 DEF Piece
  <2>3. SubSeq(txt, 1, n) \in Seq(TextLine)
    BY <1>1, <1>2, <1>5
  <2>4. TextLen(SubSeq(txt, 1, n)) \in Nat
    BY <2>3, TextLenIsNat
  <2> QED
    BY <1>2, <1>3, <1>5, <2>2, <2>4
<1>6. CASE ~(TextLen(txt) <= room) /\ ~(n > 0)
  <2> DEFINE Cuts == {Piece(c + Ellipsis, 0, TRUE) : c \in 0..Min({txt[1].len, room - Ellipsis})}
  <2>0. Trimmed(txt, room) = IF txt[1].row \/ room <= Ellipsis THEN {} ELSE Cuts
    BY <1>6 DEF Trimmed
  <2>1. p \in Cuts
    <3> HIDE DEF Cuts
    <3> QED
      BY <2>0
  <2>2. PICK c \in 0..Min({txt[1].len, room - Ellipsis}) : p = Piece(c + Ellipsis, 0, TRUE)
    BY <2>1
  <2>3. p.len = c + Ellipsis /\ p.rows = 0
    BY <2>2 DEF Piece
  <2>4. room - Ellipsis \in Int
    BY <1>3
  <2>5. Min({txt[1].len, room - Ellipsis}) \in Int /\ Min({txt[1].len, room - Ellipsis}) <= room - Ellipsis
    <3> DEFINE a == txt[1].len   b == room - Ellipsis
    <3>1. a \in Int /\ b \in Int
      BY <1>1, <2>4
    <3> HIDE DEF a, b
    <3>2. Min({a, b}) \in {a, b} /\ Min({a, b}) <= b
      BY <3>1, MinOfTwo
    <3>3. Min({a, b}) \in Int /\ Min({a, b}) <= b
      BY <3>1, <3>2
    <3> QED
      BY <3>3 DEF a, b
  <2>6. c \in Nat /\ c <= room - Ellipsis
    BY <2>2, <2>4, <2>5
  <2> QED
    BY <1>3, <2>3, <2>6
<1> QED
  BY <1>4, <1>5, <1>6

(***************************************************************************)
(* What an excerpt takes when it is written.                               *)
(***************************************************************************)
(* The units of an article have headings and texts. *)
LEMMA UnitsOK ==
  ASSUME ExcerptTypes, rank \in DOMAIN ranked, NEW u, IsUnit(u)
  PROVE  /\ Heading(u) \in Nat /\ TextOf(u) \in Text /\ u.sec \in Nat /\ u.blk \in Nat
         /\ u.sec \in 0..Len(article.secs) /\ u.blk \in 0..Len(article.secs[u.sec].blocks)
         /\ Len(article.secs) \in Nat /\ Len(article.secs[u.sec].blocks) \in Nat
<1>1. article \in ArticleText
  BY DEF ExcerptTypes, article
<1>2. article.secs \in Seq(SectionText)
  BY <1>1 DEF ArticleText
<1>3. u.sec \in DOMAIN article.secs /\ u.blk \in {0} \cup DOMAIN article.secs[u.sec].blocks
  BY DEF IsUnit
<1>4. article.secs[u.sec] \in SectionText
  BY <1>2, <1>3
<1>5. /\ article.secs[u.sec].heading \in Nat /\ article.secs[u.sec].raw \in Text
      /\ article.secs[u.sec].blocks \in Seq(Text)
  BY <1>4 DEF SectionText
<1>6. u.blk # 0 => article.secs[u.sec].blocks[u.blk] \in Text
  BY <1>3, <1>5
<1>7. Heading(u) \in Nat /\ TextOf(u) \in Text
  BY <1>5, <1>6 DEF Heading, TextOf
<1>8. Len(article.secs) \in Nat /\ DOMAIN article.secs = 1..Len(article.secs)
  BY <1>2
<1>9. /\ Len(article.secs[u.sec].blocks) \in Nat
      /\ DOMAIN article.secs[u.sec].blocks = 1..Len(article.secs[u.sec].blocks)
  BY <1>5
<1> QED
  BY <1>3, <1>7, <1>8, <1>9

(* The head of an excerpt has a length, and so has the room it leaves. *)
LEMMA HeadLenIsNat ==
  ASSUME NEW a \in ArticleText, NEW b \in Int
  PROVE  HeadLen(a, b) \in Nat
BY DEF HeadLen, ArticleText

(* The units of pieces are told apart and in document order. *)
LEMMA OrderOfUnits ==
  ASSUME ExcerptTypes, rank \in DOMAIN ranked, \A u \in units : IsUnit(u), PiecesInv,
         NEW c \in chosen, NEW d \in chosen, c # d
  PROVE  Earlier(c.unit, d.unit) \/ Earlier(d.unit, c.unit)
<1>1. c.unit # d.unit /\ IsUnit(c.unit) /\ IsUnit(d.unit)
  BY DEF PiecesInv
<1>2. c.unit.sec \in Nat /\ c.unit.blk \in Nat /\ d.unit.sec \in Nat /\ d.unit.blk \in Nat
  BY <1>1, UnitsOK
<1>3. c.unit.sec # d.unit.sec \/ c.unit.blk # d.unit.blk
  BY <1>1 DEF IsUnit
<1> QED
  BY <1>2, <1>3 DEF Earlier

(* One piece is the first. *)
LEMMA FirstPiece ==
  ASSUME ExcerptTypes, rank \in DOMAIN ranked, \A u \in units : IsUnit(u), PiecesInv, chosen # {}
  PROVE  \E c \in chosen : Before(c) = {}
<1>1. \A c \in chosen : c.unit.sec \in Nat /\ c.unit.blk \in Nat
  BY UnitsOK DEF PiecesInv
<1> DEFINE Secs == {c.unit.sec : c \in chosen}
<1>2. Secs \in SUBSET Nat /\ Secs # {}
  BY <1>1
<1>3. PICK i \in Secs : \A j \in Secs : i <= j
  <2> HIDE DEF Secs
  <2> QED
    BY <1>2, LeastInSet
<1> DEFINE Blks == {c.unit.blk : c \in {d \in chosen : d.unit.sec = i}}
<1>4. Blks \in SUBSET Nat /\ Blks # {}
  BY <1>1
<1>5. PICK b \in Blks : \A j \in Blks : b <= j
  <2> HIDE DEF Blks
  <2> QED
    BY <1>4, LeastInSet
<1>6. PICK c \in chosen : c.unit.sec = i /\ c.unit.blk = b
  OBVIOUS
<1>7. \A d \in chosen : ~ Earlier(d.unit, c.unit)
  <2> SUFFICES ASSUME NEW d \in chosen, Earlier(d.unit, c.unit) PROVE FALSE
    OBVIOUS
  <2>1. i <= d.unit.sec
    BY <1>3
  <2>2. d.unit.sec = i /\ d.unit.blk < b
    BY <1>1, <1>6, <2>1 DEF Earlier
  <2>3. b <= d.unit.blk
    BY <1>5, <2>2
  <2> QED
    BY <1>1, <1>6, <2>2, <2>3
<1> QED
  BY <1>7 DEF Before

(* What is before a piece has a last one. *)
LEMMA LastBefore ==
  ASSUME ExcerptTypes, rank \in DOMAIN ranked, \A u \in units : IsUnit(u), PiecesInv,
         NEW c \in chosen, Before(c) # {}
  PROVE  Prev(c) \in Before(c) /\ \A e \in Before(c) \ {Prev(c)} : Earlier(e.unit, Prev(c).unit)
<1> DEFINE B == Before(c)
<1>0. B \subseteq chosen /\ \A d \in B : IsUnit(d.unit)
  BY DEF PiecesInv, Before
<1>1. \A d \in B : /\ d.unit.sec \in Nat /\ d.unit.blk \in Nat
                   /\ d.unit.sec \in 0..Len(article.secs) /\ Len(article.secs) \in Nat
                   /\ d.unit.blk \in 0..Len(article.secs[d.unit.sec].blocks)
                   /\ Len(article.secs[d.unit.sec].blocks) \in Nat
  BY <1>0, UnitsOK
<1> HIDE DEF B
<1> DEFINE Secs == {d.unit.sec : d \in B}
<1>2. Secs \in SUBSET (0..Len(article.secs)) /\ Secs # {} /\ Len(article.secs) \in Nat
  BY <1>1 DEF B
<1>3. PICK i \in Secs : \A j \in Secs : i >= j
  <2> HIDE DEF Secs
  <2> QED
    BY <1>2, MaxUpTo
<1> DEFINE Blks == {d.unit.blk : d \in {e \in B : e.unit.sec = i}}
<1>4. /\ Blks \in SUBSET (0..Len(article.secs[i].blocks)) /\ Blks # {}
      /\ Len(article.secs[i].blocks) \in Nat
  BY <1>1
<1>5. PICK b \in Blks : \A j \in Blks : b >= j
  <2> HIDE DEF Blks
  <2> QED
    BY <1>4, MaxUpTo
<1>6. PICK d \in B : d.unit.sec = i /\ d.unit.blk = b
  OBVIOUS
<1>7. \A e \in B \ {d} : Earlier(e.unit, d.unit)
  <2> SUFFICES ASSUME NEW e \in B \ {d}, ~ Earlier(e.unit, d.unit) PROVE FALSE
    OBVIOUS
  <2>1. Earlier(d.unit, e.unit)
    BY <1>0, OrderOfUnits
  <2>2. e.unit.sec <= i
    BY <1>3
  <2>3. e.unit.sec = i /\ b < e.unit.blk
    BY <1>1, <1>6, <2>1, <2>2 DEF Earlier
  <2>4. e.unit.blk <= b
    BY <1>5, <2>3
  <2> QED
    BY <1>1, <1>6, <2>3, <2>4
<1>8. \E x \in B : \A e \in B \ {x} : Earlier(e.unit, x.unit)
  BY <1>7
<1>9. Prev(c) = CHOOSE x \in B : \A e \in B \ {x} : Earlier(e.unit, x.unit)
  BY DEF Prev, B
<1> QED
  BY <1>8, <1>9 DEF B

(* The gap before a piece is at most a mark, and the heading before it is  *)
(* what its section counts.                                                *)
LEMMA PieceCosts ==
  ASSUME ExcerptTypes, rank \in DOMAIN ranked, \A u \in units : IsUnit(u), PiecesInv,
         NEW c \in chosen
  PROVE  /\ Gap(c) \in Nat /\ Gap(c) <= Skip /\ Intro(c) \in Nat
         /\ Before(c) = {} => Gap(c) = 0
         /\ Intro(c) > 0 => c.unit.sec \in Headed /\ Intro(c) <= HeadingShare(c.unit.sec)
<1>1. Skip \in Nat /\ Skip >= 2
  BY MarksAssumption
<1>2. c.unit \in units /\ IsUnit(c.unit)
  BY DEF PiecesInv
<1>3. Heading(c.unit) \in Nat /\ c.unit.blk \in Nat
  BY <1>2, UnitsOK
<1>4. Intro(c) \in Nat /\ Gap(c) \in Nat /\ Gap(c) <= Skip
  BY <1>1, <1>3 DEF Intro, Gap
<1>5. ASSUME Intro(c) > 0
      PROVE  c.unit.sec \in Headed /\ Intro(c) <= HeadingShare(c.unit.sec)
  <2>1. Heading(c.unit) # 0
    BY <1>5 DEF Intro
  <2>2. c.unit.blk > 0 /\ Heading(c.unit) = article.secs[c.unit.sec].heading
    BY <1>3, <2>1 DEF Heading
  <2>3. c.unit.sec \in Headed
    BY <2>2 DEF Headed, Taken
  <2>4. Intro(c) <= Heading(c.unit) + Skip
    BY <1>1, <1>3 DEF Intro
  <2>5. HeadingShare(c.unit.sec) = Heading(c.unit) + Skip
    BY <2>1, <2>2 DEF HeadingShare
  <2> QED
    BY <2>3, <2>4, <2>5
<1> QED
  BY <1>4, <1>5 DEF Gap

(* One piece of a section has its heading. *)
LEMMA OneIntro ==
  ASSUME ExcerptTypes, rank \in DOMAIN ranked, \A u \in units : IsUnit(u), PiecesInv,
         NEW c \in chosen, NEW d \in chosen, Intro(c) > 0, Intro(d) > 0, c.unit.sec = d.unit.sec
  PROVE  c = d
<1>1. \A x \in chosen : x.unit.sec \in Nat /\ x.unit.blk \in Nat
  BY UnitsOK DEF PiecesInv
<1>2. ASSUME NEW x \in chosen, NEW y \in chosen, Intro(y) > 0, x.unit.sec = y.unit.sec,
             Earlier(x.unit, y.unit)
      PROVE  FALSE
  <2>1. x \in Before(y)
    BY <1>2 DEF Before
  <2>2. Prev(y) \in Before(y) /\ \A e \in Before(y) \ {Prev(y)} : Earlier(e.unit, Prev(y).unit)
    BY <2>1, LastBefore
  <2>3. Prev(y) \in chosen /\ Earlier(Prev(y).unit, y.unit)
    BY <2>2 DEF Before
  <2>4. x = Prev(y) \/ Earlier(x.unit, Prev(y).unit)
    BY <2>1, <2>2
  <2>5. Prev(y).unit.sec = y.unit.sec
    BY <1>1, <1>2, <2>3, <2>4 DEF Earlier
  <2>6. Intro(y) = 0
    BY <2>1, <2>5 DEF Intro
  <2> QED
    BY <1>2, <2>6
<1> QED
  BY <1>2, OrderOfUnits

(* The sections that blocks were taken from are finitely many. *)
LEMMA HeadedFinite ==
  ASSUME ExcerptTypes, rank \in DOMAIN ranked, \A u \in units : IsUnit(u), PiecesInv
  PROVE  /\ IsFiniteSet(Headed)
         /\ \A i \in Headed : HeadingShare(i) \in Nat
<1>1. article \in ArticleText
  BY DEF ExcerptTypes, article
<1>2. article.secs \in Seq(SectionText)
  BY <1>1 DEF ArticleText
<1>3. Len(article.secs) \in Nat /\ DOMAIN article.secs = 1..Len(article.secs)
  BY <1>2
<1>4. Headed \subseteq DOMAIN article.secs
  <2>1. \A c \in chosen : c.unit.sec \in DOMAIN article.secs
    BY DEF PiecesInv, IsUnit
  <2> QED
    BY <2>1 DEF Headed, Taken
<1>5. IsFiniteSet(DOMAIN article.secs)
  <2>1. IsFiniteSet(1..Len(article.secs))
    BY <1>3, FS_Interval
  <2> QED
    BY <1>3, <2>1
<1>6. IsFiniteSet(Headed)
  BY <1>4, <1>5, FS_Subset
<1>7. \A i \in DOMAIN article.secs : article.secs[i].heading \in Nat
  <2>1. \A i \in DOMAIN article.secs : article.secs[i] \in SectionText
    BY <1>2
  <2> QED
    BY <2>1 DEF SectionText
<1>8. \A i \in Headed : HeadingShare(i) \in Nat
  BY <1>4, <1>7, MarksAssumption DEF HeadingShare
<1> QED
  BY <1>6, <1>8

(* The pieces as they are written take no more than what was counted. *)
LEMMA BodyFits ==
  ASSUME ExcerptTypes, rank \in DOMAIN ranked, \A u \in units : IsUnit(u), PiecesInv, CostInv
  PROVE  BodyLen \in Nat /\ BodyLen <= used
<1> DEFINE F == [c \in chosen |-> c.piece.len + Gap(c) + Intro(c)]
           A == [c \in chosen |-> c.piece.len + Gap(c)]
           N == [c \in chosen |-> Intro(c)]
           P == [c \in chosen |-> Share(c)]
           H == [i \in Headed |-> HeadingShare(i)]
           m == [c \in chosen |-> c.unit.sec]
<1>1. IsFiniteSet(chosen) /\ \A c \in chosen : c.piece.len \in Nat
  BY DEF PiecesInv
<1>2. Skip \in Nat
  BY MarksAssumption
<1>3. \A c \in chosen : /\ Gap(c) \in Nat /\ Gap(c) <= Skip /\ Intro(c) \in Nat
                        /\ Before(c) = {} => Gap(c) = 0
                        /\ Intro(c) > 0 => c.unit.sec \in Headed /\ Intro(c) <= HeadingShare(c.unit.sec)
  BY PieceCosts
<1>4. /\ \A c \in chosen : F[c] \in Nat /\ A[c] \in Nat /\ N[c] \in Nat /\ F[c] = A[c] + N[c]
      /\ \A c \in chosen : P[c] \in Nat /\ A[c] <= P[c]
      /\ \A c \in chosen : Before(c) = {} => A[c] + Skip = P[c]
  BY <1>1, <1>2, <1>3 DEF Share
<1>5. IsFiniteSet(Headed) /\ \A i \in Headed : H[i] \in Nat
  BY HeadedFinite
<1>6. \A c \in chosen : N[c] > 0 => m[c] \in Headed /\ N[c] <= H[m[c]]
  BY <1>3
<1>7. \A c, d \in chosen : N[c] > 0 /\ N[d] > 0 /\ m[c] = m[d] => c = d
  BY OneIntro
<1>8. BodyLen = SumOf(F, chosen)
  BY DEF BodyLen
<1>9. chosen # {} => used + Skip = SumOf(P, chosen) + SumOf(H, Headed)
  BY DEF CostInv
<1>10. chosen = {} => used = 0
  BY DEF CostInv
<1>11. used \in Int
  BY DEF CostInv
<1> HIDE DEF F, A, N, P, H, m
<1>12. BodyLen \in Nat
  BY <1>1, <1>4, <1>8, SumIsNat
<1>13. CASE chosen = {}
  BY <1>8, <1>10, <1>12, <1>13, SumOfNone
<1>14. CASE chosen # {}
  <2>1. SumOf(F, chosen) <= SumOf(A, chosen) + SumOf(N, chosen)
    BY <1>1, <1>4, SumOfParts
  <2>2. SumOf(N, chosen) <= SumOf(H, Headed)
    BY <1>1, <1>4, <1>5, <1>6, <1>7, SumAtMost
  <2>3. PICK f \in chosen : Before(f) = {}
    BY <1>14, FirstPiece
  <2> DEFINE R == chosen \ {f}   e == [c \in R |-> c]
  <2>4. IsFiniteSet(R) /\ f \notin R /\ chosen = R \cup {f}
    BY <1>1, FS_Subset
  <2>5. \A c \in R : A[c] \in Nat /\ P[c] \in Nat /\ e[c] \in R /\ A[c] <= P[e[c]]
    BY <1>4
  <2>6. \A c, d \in R : e[c] = e[d] => c = d
    OBVIOUS
  <2> HIDE DEF R, e
  <2>7. SumOf(A, R) <= SumOf(P, R)
    BY <2>4, <2>5, <2>6, SumAtMost
  <2>8. SumOf(A, chosen) = SumOf(A, R) + A[f]
    <3>1. A[f] \in Nat /\ \A c \in R : A[c] \in Nat /\ A[c] = A[c]
      BY <1>4, <2>5
    <3>2. SumOf(A, R \cup {f}) = SumOf(A, R) + A[f]
      BY <2>4, <3>1, SumAdds
    <3> QED
      BY <2>4, <3>2
  <2>9. SumOf(P, chosen) = SumOf(P, R) + P[f]
    <3>1. P[f] \in Nat /\ \A c \in R : P[c] \in Nat /\ P[c] = P[c]
      BY <1>4, <2>5
    <3>2. SumOf(P, R \cup {f}) = SumOf(P, R) + P[f]
      BY <2>4, <3>1, SumAdds
    <3> QED
      BY <2>4, <3>2
  <2>10. A[f] + Skip = P[f] /\ A[f] \in Nat /\ P[f] \in Nat
    BY <1>4, <2>3
  <2>11. SumOf(A, R) \in Nat /\ SumOf(P, R) \in Nat
    BY <2>4, <2>5, SumIsNat
  <2>12. SumOf(N, chosen) \in Nat /\ SumOf(H, Headed) \in Nat /\ SumOf(F, chosen) \in Nat
    BY <1>1, <1>4, <1>5, SumIsNat
  <2> QED
    BY <1>2, <1>8, <1>9, <1>11, <1>12, <1>14, <2>1, <2>2, <2>7, <2>8, <2>9, <2>10, <2>11, <2>12
<1> QED
  BY <1>12, <1>13, <1>14

(***************************************************************************)
(* The steps.                                                              *)
(***************************************************************************)
(* What is left for an article. *)
LEMMA BudgetOK ==
  ASSUME ExcerptTypes
  PROVE  /\ Total \in Int /\ Budget \in Int /\ Budget <= perArticle
         /\ (rank = 1 => Budget <= totalCap) /\ (rank # 1 => Budget <= totalCap - Total - Separator)
<1>1. Len(parts) \in Nat /\ (parts # <<>> => Len(parts) \in DOMAIN parts)
  <2>1. parts \in Seq([rank : DOMAIN ranked, len : Int, budget : Int, end : Int])
    BY DEF ExcerptTypes
  <2> QED
    BY <2>1
<1>2. \A i \in DOMAIN parts : parts[i].end \in Int
  <2> DEFINE R == [rank : DOMAIN ranked, len : Int, budget : Int, end : Int]
  <2>0. parts \in Seq(R)
    BY DEF ExcerptTypes
  <2>2. \A p \in R : p.end \in Int
    OBVIOUS
  <2> HIDE DEF R
  <2>1. \A i \in DOMAIN parts : parts[i] \in R
    BY <2>0
  <2> QED
    BY <2>1, <2>2
<1>3. Total \in Int
  BY <1>1, <1>2 DEF Total
<1> DEFINE left == IF rank = 1 THEN totalCap ELSE totalCap - Total - Separator
<1>4. perArticle \in Int /\ totalCap \in Int /\ Separator \in Nat
  BY MarksAssumption DEF ExcerptTypes
<1>5. left \in Int
  BY <1>3, <1>4
<1>6. Budget = Min({perArticle, left})
  BY DEF Budget
<1>7. Min({perArticle, left}) \in {perArticle, left} /\ Min({perArticle, left}) <= perArticle
      /\ Min({perArticle, left}) <= left
  <2> HIDE DEF left
  <2> QED
    BY <1>4, <1>5, MinOfTwo
<1>8. Budget \in Int /\ Budget <= perArticle /\ Budget <= left
  <2> HIDE DEF left
  <2> QED
    BY <1>4, <1>5, <1>6, <1>7
<1> QED
  BY <1>3, <1>8

(* The article in the works. *)
LEMMA ArticleOK ==
  ASSUME ExcerptTypes, rank \in DOMAIN ranked
  PROVE  /\ article \in ArticleText /\ article.secs \in Seq(SectionText)
         /\ article.title \in Nat /\ article.summary \in Nat /\ article.full \in Nat
<1>1. article \in ArticleText
  BY DEF ExcerptTypes, article
<1> QED
  BY <1>1 DEF ArticleText

(* A block within its budget ends within the total. *)
LEMMA EmitOK ==
  ASSUME ExcerptTypes, PartsInv, rank \in DOMAIN ranked, NEW len \in Int, Emit(len, Budget),
         (HasSummary(article, Budget) /\ HeadLen(article, Budget) > Budget) \/ len <= Budget
  PROVE  ExcerptInv'
<1> DEFINE e == (IF parts = <<>> THEN 0 ELSE Total + Separator) + len
           P == [rank |-> rank, len |-> len, budget |-> Budget, end |-> e]
           R == [rank : DOMAIN ranked, len : Int, budget : Int, end : Int]
<1>1. /\ ranked' = ranked /\ perArticle' = perArticle /\ totalCap' = totalCap
      /\ rank' = rank + 1 /\ stage' = "rank" /\ units' = {} /\ chosen' = {} /\ used' = 0
      /\ parts' = Append(parts, P)
  BY DEF Emit, request
<1>2. /\ Total \in Int /\ Budget \in Int /\ Budget <= perArticle
      /\ (rank = 1 => Budget <= totalCap) /\ (rank # 1 => Budget <= totalCap - Total - Separator)
  BY BudgetOK
<1>3. Separator \in Nat
  BY MarksAssumption
<1>4. e \in Int
  BY <1>2, <1>3
<1> HIDE DEF e
<1>5. P \in R
  BY <1>2, <1>4
<1>6. /\ P.rank = rank /\ P.len = len /\ P.budget = Budget /\ P.end = e
  OBVIOUS
<1>7. parts \in Seq(R) /\ Len(parts) \in Nat /\ Len(parts) < rank /\ rank \in Nat \ {0}
  BY DEF ExcerptTypes
<1> HIDE DEF P, R
<1>8. /\ parts' \in Seq(R) /\ Len(parts') = Len(parts) + 1
      /\ DOMAIN parts' = 1..(Len(parts) + 1) /\ DOMAIN parts = 1..Len(parts)
      /\ \A i \in DOMAIN parts : parts'[i] = parts[i]
      /\ parts'[Len(parts) + 1] = P
  BY <1>1, <1>5, <1>7
<1>9. ExcerptTypes'
  <2>1. Len(parts') < rank' /\ rank' \in Nat \ {0}
    BY <1>1, <1>7, <1>8
  <2>2. parts' \in Seq([rank : DOMAIN ranked', len : Int, budget : Int, end : Int])
    BY <1>1, <1>8 DEF R
  <2> QED
    BY <1>1, <2>1, <2>2 DEF ExcerptTypes
<1>10. rank = 1 => parts = <<>>
  BY <1>7
<1>11. len <= Budget => e <= totalCap
  <2>1. totalCap \in Nat
    BY DEF ExcerptTypes
  <2>2. CASE parts = <<>>
    <3>1. Total = 0 /\ e = len
      BY <2>2 DEF Total, e
    <3> QED
      BY <1>2, <1>3, <2>1, <3>1
  <2>3. CASE parts # <<>>
    <3>1. rank # 1 /\ e = Total + Separator + len
      BY <1>10, <2>3 DEF e
    <3> QED
      BY <1>2, <1>3, <2>1, <3>1
  <2> QED
    BY <2>2, <2>3
<1>12. (HasSummary(ranked[P.rank], P.budget) /\ HeadLen(ranked[P.rank], P.budget) > P.budget)
       \/ (P.len <= P.budget /\ P.end <= totalCap)
  BY <1>6, <1>11 DEF article
<1>13. PartsInv'
  <2> SUFFICES ASSUME NEW i \in DOMAIN parts'
               PROVE  /\ parts'[i].budget <= perArticle'
                      /\ Overlong(parts[i])' \/ (parts'[i].len <= parts'[i].budget /\ parts'[i].end <= totalCap')
    BY DEF PartsInv
  <2>1. CASE i \in DOMAIN parts
    BY <1>1, <1>8, <2>1 DEF PartsInv, Overlong
  <2>2. CASE i = Len(parts) + 1
    BY <1>1, <1>2, <1>6, <1>8, <1>12, <2>2 DEF Overlong
  <2> QED
    BY <1>7, <1>8, <2>1, <2>2
<1>14. WorkInv'
  BY <1>1 DEF WorkInv
<1> QED
  BY <1>9, <1>13, <1>14 DEF ExcerptInv

(* What is added fits, is counted in full and is new. *)
LEMMA AddOK ==
  ASSUME ExcerptTypes, WorkInv, stage # "rank", NEW u \in todo, NEW trim \in BOOLEAN,
         ranked' = ranked, rank' = rank, perArticle' = perArticle, totalCap' = totalCap,
         budget' = budget, units' = units, parts' = parts, stage' = stage,
         Add(u, trim), todo' \subseteq todo \ {u}
  PROVE  WorkInv'
<1>1. /\ rank \in DOMAIN ranked /\ budget = Budget /\ HeadLen(article, budget) < budget
      /\ \A v \in units : IsUnit(v)
      /\ todo \subseteq units \ Taken
      /\ PiecesInv /\ CostInv
  BY DEF WorkInv
<1>2. article' = article /\ avail' = avail /\ Budget' = Budget
  BY DEF article, avail, Budget, Total
<1>3. /\ rank' \in DOMAIN ranked' /\ budget' = Budget' /\ HeadLen(article', budget') < budget'
      /\ \A v \in units' : IsUnit(v)'
  BY <1>1, <1>2 DEF IsUnit
<1>4. u \in units /\ u \notin Taken /\ IsUnit(u)
  BY <1>1
<1>5. CASE Fits(u, trim) = {}
  <2>1. chosen' = chosen /\ used' = used
    BY <1>5 DEF Add
  <2>2. Taken' = Taken /\ Headed' = Headed
    BY <2>1 DEF Taken, Headed
  <2>3. PiecesInv'
    BY <1>1, <2>1 DEF PiecesInv
  <2>4. CostInv'
    BY <1>1, <1>2, <2>1, <2>2 DEF CostInv, HeadingShare, Share
  <2>5. todo' \subseteq units' \ Taken'
    BY <1>1, <2>2
  <2> QED
    BY <1>3, <2>3, <2>4, <2>5 DEF WorkInv
<1>6. CASE Fits(u, trim) # {}
  <2>1. PICK p \in Fits(u, trim) : /\ chosen' = chosen \cup {[unit |-> u, piece |-> p]}
                                   /\ used' = used + Overhead(u) + p.len
    BY <1>6 DEF Add
  <2> DEFINE n == [unit |-> u, piece |-> p]
             HS == IF u.sec \in Headed \/ Heading(u) = 0 THEN 0 ELSE Heading(u) + Skip
             first == IF chosen = {} THEN 0 ELSE Skip
             S == [c \in chosen |-> Share(c)]    T == [c \in chosen' |-> Share(c)]
             H == [i \in Headed |-> HeadingShare(i)]
  <2>2. /\ n.unit = u /\ n.piece = p /\ n = [unit |-> n.unit, piece |-> n.piece]
        /\ chosen' = chosen \cup {n} /\ n \notin chosen /\ (chosen' # {})
    BY <1>4, <2>1 DEF Taken
  <2>3. /\ Heading(u) \in Nat /\ TextOf(u) \in Text /\ u.sec \in Nat /\ u.blk \in Nat
    BY <1>1, <1>4, UnitsOK
  <2>4. Skip \in Nat
    BY MarksAssumption
  <2>5. avail \in Int /\ used \in Int
    <3>1. article \in ArticleText /\ budget \in Int
      BY <1>1, ArticleOK, BudgetOK
    <3>2. HeadLen(article, budget) \in Nat
      BY <3>1, HeadLenIsNat
    <3> QED
      BY <1>1, <3>1, <3>2 DEF avail, CostInv
  <2>6. Overhead(u) = first + HS /\ first \in Nat /\ HS \in Nat
    BY <2>3, <2>4 DEF Overhead
  <2>7. p \in Trimmed(TextOf(u), avail - used - Overhead(u)) /\ avail - used - Overhead(u) \in Int
    BY <2>5, <2>6 DEF Fits
  <2>8. p.len \in Nat /\ p.len <= avail - used - Overhead(u) /\ (p.cut => p.rows \notin 1..2)
    BY <2>3, <2>7, TrimmedOK
  <2>9. used' = used + first + HS + p.len /\ used' \in Int /\ used' <= avail
    BY <2>1, <2>5, <2>6, <2>8
  <2>10. IsFiniteSet(chosen) /\ \A c \in chosen : c.piece.len \in Nat
    BY <1>1 DEF PiecesInv
  <2>11. PiecesInv'
    <3>1. IsFiniteSet(chosen')
      BY <2>2, <2>10, FS_AddElement
    <3>2. \A c \in chosen' : /\ c = [unit |-> c.unit, piece |-> c.piece] /\ c.unit \in units
                             /\ c.piece.len \in Nat /\ (c.piece.cut => c.piece.rows \notin 1..2)
      BY <1>1, <1>4, <2>2, <2>8 DEF PiecesInv
    <3>3. \A c, d \in chosen' : c.unit = d.unit => c = d
      <4>1. \A c \in chosen : c.unit # u
        BY <1>4 DEF Taken
      <4> QED
        BY <1>1, <2>2, <4>1 DEF PiecesInv
    <3> QED
      BY <3>1, <3>2, <3>3 DEF PiecesInv
  <2>12. Taken' = Taken \cup {u}
    BY <2>2 DEF Taken
  <2>13. todo' \subseteq units' \ Taken'
    BY <1>1, <2>12
  <2>14. used + first = SumOf(S, chosen) + SumOf(H, Headed)
    <3>1. CASE chosen = {}
      <4>1. Headed = {}
        BY <3>1 DEF Headed, Taken
      <4>2. SumOf(S, {}) = 0 /\ SumOf(H, {}) = 0
        BY SumOfNone
      <4> QED
        BY <1>1, <3>1, <4>1, <4>2 DEF CostInv
    <3>2. CASE chosen # {}
      BY <1>1, <3>2 DEF CostInv
    <3> QED
      BY <3>1, <3>2
  <2>15. IsFiniteSet(Headed) /\ \A i \in Headed : HeadingShare(i) \in Nat
    BY <1>1, HeadedFinite
  <2>16. SumOf(T, chosen') = SumOf(S, chosen) + p.len + Skip
    <3>1. \A c \in chosen : S[c] \in Nat /\ T[c] = S[c]
      BY <2>2, <2>4, <2>10 DEF Share
    <3>2. T[n] = p.len + Skip /\ T[n] \in Nat
      BY <2>2, <2>4, <2>8 DEF Share
    <3> HIDE DEF S, T, n
    <3>3. SumOf(T, chosen \cup {n}) = SumOf(S, chosen) + T[n]
      <4>1. IsFiniteSet(chosen) /\ n \notin chosen
        BY <2>2, <2>10
      <4>2. T[n] \in Nat
        BY <3>2
      <4> QED
        BY <3>1, <4>1, <4>2, SumAdds
    <3>4. SumOf(S, chosen) \in Nat
      BY <2>10, <3>1, SumIsNat
    <3> QED
      BY <2>2, <2>4, <2>8, <3>2, <3>3, <3>4
  <2>17. SumOf([i \in Headed' |-> HeadingShare(i)], Headed') = SumOf(H, Headed) + HS
    <3>1. SumOf(H, Headed) \in Nat
      <4>1. \A i \in Headed : H[i] \in Nat
        BY <2>15
      <4> HIDE DEF H
      <4> QED
        BY <2>15, <4>1, SumIsNat
    <3>2. CASE u.blk = 0 \/ u.sec \in Headed
      <4>1. Headed' = Headed
        BY <2>3, <2>12, <3>2 DEF Headed
      <4>2. HS = 0
        BY <3>2 DEF Heading
      <4> QED
        BY <3>1, <4>1, <4>2
    <3>3. CASE ~(u.blk = 0 \/ u.sec \in Headed)
      <4> DEFINE G == [i \in Headed' |-> HeadingShare(i)]   s == u.sec
      <4>1. Headed' = Headed \cup {s}
        BY <2>3, <2>12, <3>3 DEF Headed
      <4>2. Heading(u) = article.secs[u.sec].heading
        BY <3>3 DEF Heading
      <4>3. HeadingShare(s) = HS
        BY <3>3, <4>2 DEF HeadingShare
      <4>4. G[s] = HS /\ G[s] \in Nat /\ \A i \in Headed : H[i] \in Nat /\ G[i] = H[i]
        BY <2>6, <2>15, <4>1, <4>3
      <4>5. s \notin Headed
        BY <3>3
      <4> HIDE DEF G, H, s, HS
      <4>6. SumOf(G, Headed \cup {s}) = SumOf(H, Headed) + G[s]
        BY <2>15, <4>4, <4>5, SumAdds
      <4> QED
        BY <4>1, <4>4, <4>6 DEF G
    <3> QED
      BY <3>2, <3>3
  <2>18. CostInv'
    <3> DEFINE G == [i \in Headed' |-> HeadingShare(i)]
    <3>1. [c \in chosen' |-> Share(c)'] = T /\ [i \in Headed' |-> HeadingShare(i)'] = G
      BY <1>2 DEF Share, HeadingShare
    <3>2. SumOf(S, chosen) \in Nat /\ SumOf(H, Headed) \in Nat
      <4>1. (\A i \in Headed : H[i] \in Nat) /\ \A c \in chosen : S[c] \in Nat
        BY <2>4, <2>10, <2>15 DEF Share
      <4> HIDE DEF H, S
      <4> QED
        BY <2>10, <2>15, <4>1, SumIsNat
    <3> HIDE DEF S, T, H, G, first, HS
    <3>3. used' + Skip = SumOf(T, chosen') + SumOf(G, Headed')
      BY <2>4, <2>5, <2>6, <2>8, <2>9, <2>14, <2>16, <2>17, <3>2 DEF G
    <3>4. used' + Skip = SumOf([c \in chosen' |-> Share(c)'], chosen')
                         + SumOf([i \in Headed' |-> HeadingShare(i)'], Headed')
      BY <3>1, <3>3
    <3> QED
      BY <1>2, <2>2, <2>9, <3>4 DEF CostInv
  <2> QED
    BY <1>3, <2>11, <2>13, <2>18 DEF WorkInv
<1> QED
  BY <1>5, <1>6

(* A query starts with nothing chosen. *)
LEMMA ExcerptInitOK ==
  ASSUME ExcerptInit
  PROVE  ExcerptInv
<1>1. PICK n \in 0..MaxRanked : \E results \in [1..n -> Articles], limits \in Budgets :
               ExcerptStart(results, limits)
  BY DEF ExcerptInit
<1>2. PICK results \in [1..n -> Articles], limits \in Budgets : ExcerptStart(results, limits)
  BY <1>1
<1>3. n \in Nat /\ Articles \subseteq ArticleText
  BY <1>1, ArticlesAssumption
<1>4. results \in Seq(ArticleText)
  <2> HIDE DEF ArticleText
  <2>1. results \in [1..n -> ArticleText]
    BY <1>2, <1>3
  <2> QED
    BY <1>3, <2>1
<1>5. limits[1] \in Nat /\ limits[2] \in Nat
  BY <1>2, BudgetsAssumption
<1>6. ExcerptTypes
  <2>1. ranked \in Seq(ArticleText) /\ perArticle \in Nat /\ totalCap \in Nat
    BY <1>2, <1>4, <1>5 DEF ExcerptStart
  <2>2. rank = 1 /\ stage = "rank" /\ parts = <<>>
    BY <1>2 DEF ExcerptStart
  <2> QED
    BY <2>1, <2>2 DEF ExcerptTypes
<1>7. PartsInv /\ WorkInv
  BY <1>2 DEF ExcerptStart, PartsInv, WorkInv
<1> QED
  BY <1>6, <1>7 DEF ExcerptInv

(* The types are kept while an article is worked on. *)
LEMMA SameTypes ==
  ASSUME ExcerptTypes, PartsInv, UNCHANGED <<request, rank, parts>>,
         stage' \in {"rank", "choose", "fill", "head"}
  PROVE  ExcerptTypes' /\ PartsInv'
<1>1. ranked' = ranked /\ perArticle' = perArticle /\ totalCap' = totalCap /\ rank' = rank /\ parts' = parts
  BY DEF request
<1> QED
  BY <1>1 DEF ExcerptTypes, PartsInv, Overlong

(* Passing over articles. *)
LEMMA SkipArticleOK ==
  ASSUME ExcerptInv, SkipArticle
  PROVE  ExcerptInv'
<1>1. /\ ranked' = ranked /\ perArticle' = perArticle /\ totalCap' = totalCap /\ parts' = parts
      /\ units' = units /\ chosen' = chosen /\ used' = used /\ stage' = stage
  BY DEF SkipArticle, request
<1>2. stage = "rank" /\ rank \in 2..Len(ranked) /\ rank' \in {Len(ranked) + 1, rank + 1}
  BY DEF SkipArticle
<1>3. ranked \in Seq(ArticleText) /\ rank \in Nat /\ Len(parts) < rank /\ Len(parts) \in Nat
  BY DEF ExcerptInv, ExcerptTypes
<1>4. rank' \in Nat \ {0} /\ Len(parts') < rank'
  <2>1. Len(ranked) \in Nat
    BY <1>3
  <2> QED
    BY <1>1, <1>2, <1>3, <2>1
<1>5. ExcerptTypes'
  BY <1>1, <1>4 DEF ExcerptInv, ExcerptTypes
<1>6. PartsInv'
  BY <1>1 DEF ExcerptInv, PartsInv, Overlong
<1>7. WorkInv'
  BY <1>1, <1>2 DEF ExcerptInv, WorkInv
<1> QED
  BY <1>5, <1>6, <1>7 DEF ExcerptInv

(* Articles that need no excerpt. *)
LEMMA EmitsOK ==
  ASSUME ExcerptInv, EmitWhole \/ EmitTitle \/ EmitHead
  PROVE  ExcerptInv'
<1>1. ExcerptTypes /\ PartsInv
  BY DEF ExcerptInv
<1>2. rank \in DOMAIN ranked
  BY DEF EmitWhole, EmitTitle, EmitHead, Excerpted, Admitted
<1>3. article \in ArticleText /\ article.title \in Nat /\ article.full \in Nat
  BY <1>1, <1>2, ArticleOK
<1>4. Budget \in Int
  BY <1>1, BudgetOK
<1>5. CASE EmitWhole
  <2>1. article.full <= Budget /\ Emit(article.full, Budget)
    BY <1>5 DEF EmitWhole
  <2>2. article.full \in Int
    BY <1>3
  <2> QED
    BY <1>1, <1>2, <2>1, <2>2, EmitOK
<1>6. CASE EmitTitle
  <2>1. PICK len \in IF article.title <= Budget THEN {article.title} ELSE 1..Budget : Emit(len, Budget)
    BY <1>6 DEF EmitTitle
  <2>2. len \in Int /\ len <= Budget
    BY <1>3, <1>4
  <2> QED
    BY <1>1, <1>2, <2>1, <2>2, EmitOK
<1>7. CASE EmitHead
  <2> DEFINE h == HeadLen(article, Budget)
  <2>1. article.title + 1 < Budget /\ Emit(h - 2, Budget)
    BY <1>7 DEF EmitHead, Excerpted
  <2>2. h \in Nat
    BY <1>3, <1>4, HeadLenIsNat
  <2>3. HasSummary(article, Budget) \/ h = article.title + 2
    BY <1>3 DEF HeadLen
  <2>4. (HasSummary(article, Budget) /\ h > Budget) \/ h - 2 <= Budget
    <3>1. CASE h > Budget
      BY <1>3, <1>4, <2>1, <2>3, <3>1
    <3>2. CASE ~(h > Budget)
      <4> HIDE DEF h
      <4> QED
        BY <1>4, <2>2, <3>2
    <3> QED
      BY <3>1, <3>2
  <2>5. h - 2 \in Int
    BY <2>2
  <2> QED
    BY <1>1, <1>2, <2>1, <2>4, <2>5, EmitOK
<1> QED
  BY <1>5, <1>6, <1>7

(* An excerpt is started with the units of its article. *)
LEMMA StartExcerptOK ==
  ASSUME ExcerptInv, StartExcerpt
  PROVE  ExcerptInv'
<1>1. ExcerptTypes /\ PartsInv /\ WorkInv
  BY DEF ExcerptInv
<1>2. /\ rank \in DOMAIN ranked /\ stage = "rank" /\ HeadLen(article, Budget) < Budget
      /\ chosen = {} /\ used = 0
  <2>1. Admitted /\ ~NoBody
    BY DEF StartExcerpt, Excerpted
  <2>2. rank \in DOMAIN ranked /\ stage = "rank"
    BY <2>1 DEF Admitted
  <2>3. article \in ArticleText /\ Budget \in Int
    BY <1>1, <2>2, ArticleOK, BudgetOK
  <2>4. HeadLen(article, Budget) \in Nat
    BY <2>3, HeadLenIsNat
  <2>5. HeadLen(article, Budget) < Budget
    BY <2>1, <2>3, <2>4 DEF NoBody
  <2> QED
    BY <1>1, <2>2, <2>5 DEF WorkInv
<1>3. /\ ranked' = ranked /\ perArticle' = perArticle /\ totalCap' = totalCap
      /\ rank' = rank /\ parts' = parts /\ chosen' = chosen /\ used' = used
      /\ budget' = Budget /\ units' = UnitsIn(Budget - HeadLen(article, Budget))
      /\ todo' \subseteq units' /\ stage' \in {"choose", "head"}
  BY DEF StartExcerpt, request
<1>4. ExcerptTypes' /\ PartsInv'
  BY <1>1, <1>3, SameTypes DEF request
<1>5. article' = article /\ Budget' = Budget
  BY <1>3 DEF article, Budget, Total
<1>6. \A u \in units' : IsUnit(u)
  <2> SUFFICES ASSUME NEW i \in DOMAIN article.secs, NEW room, NEW u \in UnitsOf(i, room)
               PROVE  IsUnit(u)
    BY <1>3 DEF UnitsIn
  <2>1. u = [sec |-> i, blk |-> 0] \/ \E j \in DOMAIN article.secs[i].blocks : u = [sec |-> i, blk |-> j]
    BY DEF UnitsOf
  <2> QED
    BY <2>1 DEF IsUnit
<1>7. \A u \in units' : IsUnit(u)'
  BY <1>5, <1>6 DEF IsUnit
<1>8. PiecesInv'
  <2>1. IsFiniteSet({})
    BY FS_EmptySet
  <2> QED
    BY <1>2, <1>3, <2>1 DEF PiecesInv
<1>9. CostInv'
  <2>1. HeadLen(article, Budget) \in Nat /\ Budget \in Int
    BY <1>1, <1>2, ArticleOK, BudgetOK, HeadLenIsNat
  <2>2. avail' = Budget - HeadLen(article, Budget)
    BY <1>3, <1>5 DEF avail
  <2> QED
    BY <1>2, <1>3, <2>1, <2>2 DEF CostInv
<1>10. Taken' = {}
  BY <1>2, <1>3 DEF Taken
<1>11. WorkInv'
  BY <1>2, <1>3, <1>5, <1>7, <1>8, <1>9, <1>10 DEF WorkInv
<1> QED
  BY <1>4, <1>11 DEF ExcerptInv

(* Units are tried, and what is taken of them fits. *)
LEMMA TriesOK ==
  ASSUME ExcerptInv, TryBest \/ TryRest \/ TryHead
  PROVE  ExcerptInv'
<1>1. ExcerptTypes /\ PartsInv /\ WorkInv
  BY DEF ExcerptInv
<1>2. /\ stage # "rank"
      /\ \E u \in todo : \E trim \in BOOLEAN : Add(u, trim) /\ todo' \subseteq todo \ {u}
  <2>1. CASE TryBest
    <3>1. (chosen = {}) \in BOOLEAN
      OBVIOUS
    <3> QED
      BY <2>1, <3>1 DEF TryBest
  <2>2. CASE TryRest
    BY <2>2 DEF TryRest
  <2>3. CASE TryHead
    <3>1. PICK u \in todo : Add(u, TRUE) /\ (todo' = todo \ {u} \/ todo' = {})
      BY <2>3 DEF TryHead
    <3>2. todo' \subseteq todo \ {u}
      BY <3>1
    <3> QED
      BY <2>3, <3>1, <3>2 DEF TryHead
  <2> QED
    BY <2>1, <2>2, <2>3
<1>3. PICK u \in todo, trim \in BOOLEAN : Add(u, trim) /\ todo' \subseteq todo \ {u}
  BY <1>2
<1>4. UNCHANGED <<request, rank, budget, units, stage, parts>>
  BY DEF TryBest, TryRest, TryHead
<1>5. /\ ranked' = ranked /\ rank' = rank /\ perArticle' = perArticle /\ totalCap' = totalCap
      /\ budget' = budget /\ units' = units /\ parts' = parts /\ stage' = stage
  BY <1>4 DEF request
<1>6. WorkInv'
  BY <1>1, <1>2, <1>3, <1>5, AddOK
<1>7. stage' \in {"rank", "choose", "fill", "head"}
  BY <1>1, <1>5 DEF ExcerptTypes
<1>8. ExcerptTypes' /\ PartsInv'
  BY <1>1, <1>4, <1>7, SameTypes
<1> QED
  BY <1>6, <1>8 DEF ExcerptInv

(* The units that are left are tried next. *)
LEMMA StartFillOK ==
  ASSUME ExcerptInv, StartFill
  PROVE  ExcerptInv'
<1>1. ExcerptTypes /\ PartsInv /\ WorkInv
  BY DEF ExcerptInv
<1>2. /\ ranked' = ranked /\ rank' = rank /\ perArticle' = perArticle /\ totalCap' = totalCap
      /\ budget' = budget /\ units' = units /\ parts' = parts /\ chosen' = chosen /\ used' = used
      /\ stage = "choose" /\ stage' = "fill" /\ todo' \subseteq units \ Taken
  BY DEF StartFill, request
<1>3. ExcerptTypes' /\ PartsInv'
  BY <1>1, <1>2, SameTypes DEF request
<1>4. article' = article /\ avail' = avail /\ Budget' = Budget /\ Taken' = Taken /\ Headed' = Headed
  BY <1>2 DEF article, avail, Budget, Total, Taken, Headed
<1>5. /\ rank \in DOMAIN ranked /\ budget = Budget /\ HeadLen(article, budget) < budget
      /\ (\A u \in units : IsUnit(u)) /\ PiecesInv /\ CostInv
  BY <1>1, <1>2 DEF WorkInv
<1>6. PiecesInv'
  BY <1>2, <1>5 DEF PiecesInv
<1>7. CostInv'
  BY <1>2, <1>4, <1>5 DEF CostInv, Share, HeadingShare
<1>8. \A u \in units' : IsUnit(u)'
  BY <1>2, <1>4, <1>5 DEF IsUnit
<1>9. WorkInv'
  BY <1>2, <1>4, <1>5, <1>6, <1>7, <1>8 DEF WorkInv
<1> QED
  BY <1>3, <1>9 DEF ExcerptInv

(* An excerpt is written. *)
LEMMA WriteOK ==
  ASSUME ExcerptInv, Write
  PROVE  ExcerptInv'
<1>1. ExcerptTypes /\ PartsInv /\ WorkInv
  BY DEF ExcerptInv
<1>2. /\ rank \in DOMAIN ranked /\ budget = Budget /\ HeadLen(article, budget) < budget
      /\ (\A u \in units : IsUnit(u)) /\ PiecesInv /\ CostInv
  BY <1>1 DEF WorkInv, Write
<1> DEFINE h == HeadLen(article, budget)
           len == IF chosen = {} THEN h - 2 ELSE Min({h + BodyLen, budget})
<1>3. article \in ArticleText /\ budget \in Int
  BY <1>1, <1>2, ArticleOK, BudgetOK
<1>4. h \in Nat /\ BodyLen \in Nat
  BY <1>1, <1>2, <1>3, HeadLenIsNat, BodyFits
<1>5. len \in Int /\ len <= budget
  <2> DEFINE a == h + BodyLen
  <2>1. a \in Int
    BY <1>4
  <2>2. Min({a, budget}) \in {a, budget} /\ Min({a, budget}) <= budget
    <3> HIDE DEF a
    <3> QED
      BY <1>3, <2>1, MinOfTwo
  <2>3. h - 2 \in Int /\ h - 2 <= budget
    <3> HIDE DEF h
    <3>1. h < budget
      BY <1>2 DEF h
    <3> QED
      BY <1>3, <1>4, <3>1
  <2>4. Min({a, budget}) \in Int
    <3> HIDE DEF a
    <3> QED
      BY <1>3, <2>1, <2>2
  <2> QED
    BY <2>2, <2>3, <2>4
<1>6. Emit(len, Budget)
  BY <1>2 DEF Write
<1> HIDE DEF len
<1> QED
  BY <1>1, <1>2, <1>5, <1>6, EmitOK

(* The invariant is inductive. *)
LEMMA ExcerptStepOK ==
  ASSUME ExcerptInv, [ExcerptNext]_excerptVars
  PROVE  ExcerptInv'
<1>1. CASE SkipArticle
  BY <1>1, SkipArticleOK
<1>2. CASE EmitWhole \/ EmitTitle \/ EmitHead
  BY <1>2, EmitsOK
<1>3. CASE StartExcerpt
  BY <1>3, StartExcerptOK
<1>4. CASE TryBest \/ TryRest \/ TryHead
  BY <1>4, TriesOK
<1>5. CASE StartFill
  BY <1>5, StartFillOK
<1>6. CASE Write
  BY <1>6, WriteOK
<1>7. CASE UNCHANGED excerptVars
  <2>1. /\ ranked' = ranked /\ rank' = rank /\ perArticle' = perArticle /\ totalCap' = totalCap
        /\ budget' = budget /\ units' = units /\ parts' = parts /\ chosen' = chosen /\ used' = used
        /\ stage' = stage /\ todo' = todo
    BY <1>7 DEF excerptVars, request
  <2>2. article' = article /\ avail' = avail /\ Budget' = Budget /\ Taken' = Taken /\ Headed' = Headed
    BY <2>1 DEF article, avail, Budget, Total, Taken, Headed
  <2>3. ExcerptTypes' /\ PartsInv'
    BY <2>1 DEF ExcerptInv, ExcerptTypes, PartsInv, Overlong
  <2>4. PiecesInv = PiecesInv'
    BY <2>1 DEF PiecesInv
  <2>5. CostInv = CostInv'
    BY <2>1, <2>2 DEF CostInv, Share, HeadingShare
  <2>6. WorkInv'
    BY <2>1, <2>2, <2>4, <2>5 DEF ExcerptInv, WorkInv, IsUnit
  <2> QED
    BY <2>3, <2>6 DEF ExcerptInv
<1> QED
  BY <1>1, <1>2, <1>3, <1>4, <1>5, <1>6, <1>7 DEF ExcerptNext

(* The invariant says that excerpts are sound. *)
LEMMA SoundFromInv ==
  ASSUME ExcerptInv
  PROVE  ExcerptsAreSound
<1>1. ExcerptTypes /\ PartsInv /\ WorkInv
  BY DEF ExcerptInv
<1>2. CostBoundsHold /\ TablesKeepARow
  <2>1. CASE stage = "rank"
    <3>1. chosen = {} /\ used = 0 /\ units = {}
      BY <1>1, <2>1 DEF WorkInv
    <3>2. BodyLen = 0
      <4> DEFINE F == [c \in chosen |-> c.piece.len + Gap(c) + Intro(c)]
      <4>1. SumOf(F, {}) = 0
        BY SumOfNone
      <4> QED
        BY <3>1, <4>1 DEF BodyLen
    <3> QED
      BY <3>1, <3>2 DEF CostBoundsHold, TablesKeepARow
  <2>2. CASE stage # "rank"
    <3>1. /\ rank \in DOMAIN ranked /\ (\A u \in units : IsUnit(u)) /\ PiecesInv /\ CostInv
      BY <1>1, <2>2 DEF WorkInv
    <3>2. BodyLen <= used
      BY <1>1, <3>1, BodyFits
    <3> QED
      BY <3>1, <3>2 DEF CostBoundsHold, TablesKeepARow, CostInv, PiecesInv
  <2> QED
    BY <2>1, <2>2
<1>3. ContextFits
  <2> SUFFICES ASSUME \A i \in DOMAIN parts : ~Overlong(parts[i])
               PROVE  /\ \A i \in DOMAIN parts : parts[i].len <= Min({parts[i].budget, perArticle})
                      /\ Total <= totalCap
    BY DEF ContextFits
  <2> DEFINE R == [rank : DOMAIN ranked, len : Int, budget : Int, end : Int]
  <2>1. parts \in Seq(R) /\ perArticle \in Nat /\ totalCap \in Nat
    BY <1>1 DEF ExcerptTypes
  <2>2. \A i \in DOMAIN parts : /\ parts[i].budget <= perArticle
                               /\ parts[i].len <= parts[i].budget /\ parts[i].end <= totalCap
    BY <1>1 DEF PartsInv
  <2>3. \A p \in R : p.len \in Int /\ p.budget \in Int
    OBVIOUS
  <2> HIDE DEF R
  <2>4. \A i \in DOMAIN parts : parts[i] \in R
    BY <2>1
  <2>5. ASSUME NEW i \in DOMAIN parts PROVE parts[i].len <= Min({parts[i].budget, perArticle})
    <3> DEFINE b == parts[i].budget
    <3>1. b \in Int /\ parts[i].len \in Int /\ b <= perArticle /\ parts[i].len <= b /\ perArticle \in Int
      BY <2>1, <2>2, <2>3, <2>4
    <3> HIDE DEF b
    <3>2. Min({b, perArticle}) \in {b, perArticle}
      BY <3>1, MinOfTwo
    <3> QED
      BY <3>1, <3>2 DEF b
  <2>6. Total <= totalCap
    <3>1. parts # <<>> => Len(parts) \in DOMAIN parts
      BY <2>1
    <3> QED
      BY <2>1, <2>2, <3>1 DEF Total
  <2> QED
    BY <2>5, <2>6
<1> QED
  BY <1>2, <1>3 DEF ExcerptsAreSound

(* Whatever the articles, the query and the budgets: what has been chosen  *)
(* of an article fits its budget as it will be written, the context is     *)
(* within the per-article and the total budget, and no table is left       *)
(* without rows (contextExcerpt, buildContext, contextTrimBlock).          *)
THEOREM ExcerptsSound == ExcerptInit /\ [][ExcerptNext]_excerptVars => []ExcerptsAreSound
<1>1. ExcerptInit => ExcerptInv
  BY ExcerptInitOK
<1>2. ExcerptInv /\ [ExcerptNext]_excerptVars => ExcerptInv'
  BY ExcerptStepOK
<1>3. ExcerptInv => ExcerptsAreSound
  BY SoundFromInv
<1> QED
  BY <1>1, <1>2, <1>3, PTL

(***************************************************************************)
(* Blocks of lines.                                                        *)
(***************************************************************************)
(* Lines put after lines that are before them. *)
LEMMA Joined ==
  ASSUME NEW p \in Seq(Nat), NEW q \in Seq(Nat), Ascending(p), Ascending(q),
         AllBefore(ToSet(p), ToSet(q))
  PROVE  p \o q \in Seq(Nat) /\ Ascending(p \o q) /\ ToSet(p \o q) = ToSet(p) \cup ToSet(q)
<1> DEFINE r == p \o q   a == Len(p)   b == Len(q)
<1>1. a \in Nat /\ b \in Nat /\ DOMAIN p = 1..a /\ DOMAIN q = 1..b
  OBVIOUS
<1>2. /\ r \in Seq(Nat) /\ DOMAIN r = 1..(a + b)
      /\ \A i \in 1..a : r[i] = p[i]
      /\ \A i \in 1..b : r[a + i] = q[i]
  OBVIOUS
<1>3. \A i \in 1..(a + b) : i \in 1..a \/ (i > a /\ i - a \in 1..b /\ r[i] = q[i - a])
  <2> SUFFICES ASSUME NEW i \in 1..(a + b), ~(i \in 1..a) PROVE i > a /\ i - a \in 1..b /\ r[i] = q[i - a]
    OBVIOUS
  <2>1. i > a /\ i - a \in 1..b /\ a + (i - a) = i
    BY <1>1
  <2> QED
    BY <1>2, <2>1
<1>4. (\A i \in 1..a : p[i] \in ToSet(p)) /\ (\A i \in 1..b : q[i] \in ToSet(q))
  BY <1>1, SeqIsList
<1> HIDE DEF r, a, b
<1>5. Ascending(r)
  <2> SUFFICES ASSUME NEW i \in 1..(a + b), NEW j \in 1..(a + b), i < j PROVE r[i] < r[j]
    BY <1>2 DEF Ascending
  <2>1. CASE i \in 1..a /\ j \in 1..a
    BY <1>1, <1>2, <2>1 DEF Ascending
  <2>2. CASE i \in 1..a /\ ~(j \in 1..a)
    BY <1>2, <1>3, <1>4, <2>2 DEF AllBefore
  <2>3. CASE ~(i \in 1..a)
    <3>1. ~(j \in 1..a)
      BY <1>1, <2>3
    <3>2. i - a \in 1..b /\ j - a \in 1..b /\ r[i] = q[i - a] /\ r[j] = q[j - a] /\ i - a < j - a
      BY <1>1, <1>3, <2>3, <3>1
    <3> QED
      BY <1>1, <3>2 DEF Ascending
  <2> QED
    BY <2>1, <2>2, <2>3
<1>6. ToSet(r) = ToSet(p) \cup ToSet(q)
  <2>1. ASSUME NEW e \in ToSet(r) PROVE e \in ToSet(p) \cup ToSet(q)
    <3>1. PICK i \in DOMAIN r : e = r[i]
      BY DEF ToSet
    <3>2. CASE i \in 1..a
      BY <1>2, <1>4, <3>1, <3>2
    <3>3. CASE ~(i \in 1..a)
      BY <1>2, <1>3, <1>4, <3>1, <3>3
    <3> QED
      BY <3>2, <3>3
  <2>2. ASSUME NEW e \in ToSet(p) PROVE e \in ToSet(r)
    <3>1. PICK i \in 1..a : e = p[i]
      BY <1>1, <2>2 DEF ToSet
    <3>2. i \in DOMAIN r /\ r[i] = e
      BY <1>1, <1>2, <3>1
    <3> QED
      BY <3>2 DEF ToSet
  <2>3. ASSUME NEW e \in ToSet(q) PROVE e \in ToSet(r)
    <3>1. PICK i \in 1..b : e = q[i]
      BY <1>1, <2>3 DEF ToSet
    <3>2. a + i \in DOMAIN r /\ r[a + i] = e
      BY <1>1, <1>2, <3>1
    <3> QED
      BY <3>2 DEF ToSet
  <2> QED
    BY <2>1, <2>2, <2>3
<1> QED
  BY <1>2, <1>5, <1>6 DEF r

(* One line put after lines that are before it. *)
LEMMA LineAdded ==
  ASSUME NEW p \in Seq(Nat), Ascending(p), NEW l \in Nat, \A x \in ToSet(p) : x < l
  PROVE  Append(p, l) \in Seq(Nat) /\ Ascending(Append(p, l)) /\ ToSet(Append(p, l)) = ToSet(p) \cup {l}
<1> DEFINE q == <<l>>
<1>1. q \in Seq(Nat) /\ ToSet(q) = {l} /\ Ascending(q) /\ Append(p, l) = p \o q
  BY DEF ToSet, Ascending
<1>2. AllBefore(ToSet(p), ToSet(q))
  BY <1>1 DEF AllBefore
<1> HIDE DEF q
<1> QED
  BY <1>1, <1>2, Joined

(* What ending a block does: the lines of cur are in the last one. *)
LEMMA EndBlockOK ==
  ASSUME NEW s \in Split, SplitInv(s)
  PROVE  /\ EndBlock(s) \in Split /\ EndBlock(s).cur = <<>> /\ EndBlock(s).fence = s.fence
         /\ BlocksInOrder(EndBlock(s).blocks)
         /\ LinesIn(EndBlock(s).blocks) = LinesIn(s.blocks) \cup ToSet(s.cur)
         /\ \A j \in DOMAIN s.blocks : \E k \in DOMAIN EndBlock(s).blocks :
                ToSet(s.blocks[j]) \subseteq ToSet(EndBlock(s).blocks[k])
         /\ s.cur # <<>> => \E k \in DOMAIN EndBlock(s).blocks :
                ToSet(s.cur) \subseteq ToSet(EndBlock(s).blocks[k])
<1> DEFINE t == EndBlock(s)   bs == s.blocks   c == s.cur   n == Len(bs)
<1>1. s = [blocks |-> bs, cur |-> c, fence |-> s.fence] /\ bs \in Seq(Seq(Nat)) /\ c \in Seq(Nat) /\ s.fence \in BOOLEAN
  BY DEF Split, Blocks
<1>2. n \in Nat /\ DOMAIN bs = 1..n /\ \A j \in 1..n : bs[j] \in Seq(Nat)
  BY <1>1
<1>3. BlocksInOrder(bs) /\ Ascending(c) /\ AllBefore(LinesIn(bs), ToSet(c))
  BY DEF SplitInv
<1>4. CASE c = <<>>
  <2>1. t = s
    BY <1>4 DEF EndBlock
  <2>2. ToSet(c) = {}
    BY <1>4 DEF ToSet
  <2> QED
    BY <1>1, <1>3, <1>4, <2>1, <2>2
<1>5. CASE c # <<>> /\ bs # <<>> /\ Is(c[1], "item") /\ Is(Last(bs)[1], "item")
  <2> DEFINE m == bs[n] \o c   ms == [bs EXCEPT ![n] = m]
  <2>1. t = [s EXCEPT !.blocks = ms, !.cur = <<>>]
    BY <1>5 DEF EndBlock
  <2>2. n \in 1..n
    BY <1>1, <1>2, <1>5
  <2>3. ToSet(bs[n]) \subseteq LinesIn(bs)
    BY <1>2, <2>2 DEF LinesIn
  <2>4. AllBefore(ToSet(bs[n]), ToSet(c))
    BY <1>3, <2>3 DEF AllBefore
  <2>5. m \in Seq(Nat) /\ Ascending(m) /\ ToSet(m) = ToSet(bs[n]) \cup ToSet(c)
    <3>1. bs[n] \in Seq(Nat) /\ Ascending(bs[n])
      BY <1>2, <1>3, <2>2 DEF BlocksInOrder
    <3> QED
      BY <1>1, <1>3, <2>4, <3>1, Joined
  <2> HIDE DEF m
  <2>6. /\ ms \in Seq(Seq(Nat)) /\ DOMAIN ms = 1..n /\ ms[n] = m
        /\ \A j \in 1..n : j # n => ms[j] = bs[j]
    BY <1>1, <1>2, <2>2, <2>5
  <2>7. t = [blocks |-> ms, cur |-> <<>>, fence |-> s.fence]
    BY <1>1, <2>1
  <2> HIDE DEF ms, t, bs, c, n
  <2>8. t \in Split /\ t.blocks = ms /\ t.cur = <<>> /\ t.fence = s.fence
    <3>1. <<>> \in Seq(Nat)
      OBVIOUS
    <3> QED
      BY <1>1, <2>6, <2>7, <3>1 DEF Split, Blocks
  <2>9. BlocksInOrder(ms)
    <3>1. ASSUME NEW j \in 1..n PROVE Ascending(ms[j])
      BY <1>2, <1>3, <2>5, <2>6 DEF BlocksInOrder
    <3>2. ASSUME NEW j \in 1..n, NEW k \in 1..n, j < k PROVE AllBefore(ToSet(ms[j]), ToSet(ms[k]))
      <4>1. j # n /\ ms[j] = bs[j]
        BY <1>2, <2>6, <3>2
      <4>2. AllBefore(ToSet(bs[j]), ToSet(bs[k]))
        BY <1>2, <1>3, <3>2 DEF BlocksInOrder
      <4>3. CASE k = n
        <5>1. ToSet(bs[j]) \subseteq LinesIn(bs)
          BY <1>2 DEF LinesIn
        <5>2. AllBefore(ToSet(bs[j]), ToSet(c))
          BY <1>3, <5>1 DEF AllBefore
        <5> QED
          BY <2>5, <2>6, <4>1, <4>2, <4>3, <5>2 DEF AllBefore
      <4>4. CASE k # n
        BY <2>6, <4>1, <4>2, <4>4
      <4> QED
        BY <4>3, <4>4
    <3> QED
      BY <2>6, <3>1, <3>2 DEF BlocksInOrder
  <2>10. LinesIn(ms) = LinesIn(bs) \cup ToSet(c)
    <3>1. \A j \in 1..n : ToSet(ms[j]) = ToSet(bs[j]) \cup (IF j = n THEN ToSet(c) ELSE {})
      BY <2>5, <2>6
    <3> QED
      BY <1>2, <2>2, <2>6, <3>1 DEF LinesIn
  <2>11. \A j \in 1..n : ToSet(bs[j]) \subseteq ToSet(ms[j])
    BY <2>5, <2>6
  <2>12. ToSet(c) \subseteq ToSet(ms[n])
    BY <2>5, <2>6
  <2> QED
    BY <1>2, <2>2, <2>6, <2>8, <2>9, <2>10, <2>11, <2>12 DEF t, bs, c
<1>6. CASE c # <<>> /\ ~(bs # <<>> /\ Is(c[1], "item") /\ Is(Last(bs)[1], "item"))
  <2> DEFINE ms == Append(bs, c)
  <2>1. t = [s EXCEPT !.blocks = ms, !.cur = <<>>]
    BY <1>6 DEF EndBlock
  <2>2. t = [blocks |-> ms, cur |-> <<>>, fence |-> s.fence]
    BY <1>1, <2>1
  <2>3. /\ ms \in Seq(Seq(Nat)) /\ DOMAIN ms = 1..(n + 1) /\ ms[n + 1] = c
        /\ \A j \in 1..n : ms[j] = bs[j]
    BY <1>1, <1>2
  <2> HIDE DEF ms, t, bs, c, n
  <2>4. t \in Split /\ t.blocks = ms /\ t.cur = <<>> /\ t.fence = s.fence
    <3>1. <<>> \in Seq(Nat)
      OBVIOUS
    <3> QED
      BY <1>1, <2>2, <2>3, <3>1 DEF Split, Blocks
  <2>5. \A j \in 1..(n + 1) : j \in 1..n \/ j = n + 1
    BY <1>2
  <2>6. \A j \in 1..n : j \in 1..(n + 1) /\ j < n + 1
    BY <1>2
  <2>7. n + 1 \in 1..(n + 1) /\ ~(n + 1 \in 1..n)
    BY <1>2
  <2>8. BlocksInOrder(ms)
    <3>1. ASSUME NEW j \in 1..(n + 1) PROVE Ascending(ms[j])
      BY <1>2, <1>3, <2>3, <2>5 DEF BlocksInOrder
    <3>2. ASSUME NEW j \in 1..(n + 1), NEW k \in 1..(n + 1), j < k PROVE AllBefore(ToSet(ms[j]), ToSet(ms[k]))
      <4>1. j \in 1..n /\ ms[j] = bs[j]
        BY <1>2, <2>3, <3>2
      <4>2. CASE k \in 1..n
        BY <1>2, <1>3, <2>3, <3>2, <4>1, <4>2 DEF BlocksInOrder
      <4>3. CASE k = n + 1
        <5>1. ToSet(bs[j]) \subseteq LinesIn(bs)
          BY <1>2, <4>1 DEF LinesIn
        <5>2. ms[k] = c
          BY <2>3, <4>3
        <5> QED
          BY <1>3, <4>1, <5>1, <5>2 DEF AllBefore
      <4> QED
        BY <2>5, <4>2, <4>3
    <3> QED
      BY <2>3, <3>1, <3>2 DEF BlocksInOrder
  <2>9. LinesIn(ms) = LinesIn(bs) \cup ToSet(c)
    <3>1. \A j \in 1..n : ToSet(ms[j]) = ToSet(bs[j])
      BY <2>3
    <3>2. ToSet(ms[n + 1]) = ToSet(c)
      BY <2>3
    <3> QED
      BY <1>2, <2>3, <2>5, <2>6, <2>7, <3>1, <3>2 DEF LinesIn
  <2>10. \A j \in 1..n : j \in DOMAIN ms /\ ToSet(bs[j]) \subseteq ToSet(ms[j])
    BY <2>3, <2>6
  <2>11. n + 1 \in DOMAIN ms /\ ToSet(c) \subseteq ToSet(ms[n + 1])
    BY <2>3, <2>7
  <2> QED
    BY <1>2, <2>4, <2>8, <2>9, <2>10, <2>11 DEF t, bs, c
<1> QED
  BY <1>4, <1>5, <1>6

(***************************************************************************)
(* Lines read.                                                             *)
(***************************************************************************)
(* The next line leaves the others where they are. *)
LEMMA NextLine ==
  ASSUME SectionTypes, NEW k \in Kind, lines' = Append(lines, k)
  PROVE  /\ Len(lines) \in Nat /\ DOMAIN lines = 1..Len(lines)
         /\ lines' \in Seq(Kind) /\ Len(lines') = Len(lines) + 1 /\ DOMAIN lines' = 1..(Len(lines) + 1)
         /\ \A i \in 1..Len(lines) : lines'[i] = lines[i]
         /\ lines'[Len(lines) + 1] = k
         /\ \A i \in 1..(Len(lines) + 1) : i \in 1..Len(lines) \/ i = Len(lines) + 1
<1>1. lines \in Seq(Kind)
  BY DEF SectionTypes
<1> HIDE DEF Kind
<1> QED
  BY <1>1

(* The fences up to a line are finitely many. *)
LEMMA FencesCounted ==
  ASSUME NEW n \in Nat
  PROVE  IsFiniteSet(FencesUpTo(n)) /\ Cardinality(FencesUpTo(n)) \in Nat
<1>1. IsFiniteSet(1..n)
  BY FS_Interval
<1>2. IsFiniteSet(FencesUpTo(n))
  BY <1>1, FS_Subset DEF FencesUpTo
<1> QED
  BY <1>2, FS_CardinalityType

(* The next line is counted if it is a fence. *)
LEMMA FencesGrow ==
  ASSUME SectionTypes, NEW k \in Kind, lines' = Append(lines, k)
  PROVE  /\ \A i \in 1..Len(lines) : FencesUpTo(i)' = FencesUpTo(i)
         /\ Cardinality(FencesUpTo(Len(lines))) \in Nat
         /\ Cardinality(FencesUpTo(Len(lines)))' =
               Cardinality(FencesUpTo(Len(lines))) + (IF k = "fence" THEN 1 ELSE 0)
<1> DEFINE n == Len(lines)   A == FencesUpTo(n)
<1>1. /\ n \in Nat /\ Len(lines') = n + 1 /\ lines'[n + 1] = k
      /\ \A i \in 1..n : lines'[i] = lines[i]
      /\ \A i \in 1..(n + 1) : i \in 1..n \/ i = n + 1
  BY NextLine
<1>2. ASSUME NEW i \in 1..n PROVE FencesUpTo(i)' = FencesUpTo(i)
  <2>1. \A l \in 1..i : l \in 1..n
    BY <1>1
  <2> QED
    BY <1>1, <2>1 DEF FencesUpTo, Is
<1>3. FencesUpTo(Len(lines))' = {l \in 1..(n + 1) : lines'[l] = "fence"}
  BY <1>1 DEF FencesUpTo, Is
<1>4. A = {l \in 1..n : lines[l] = "fence"}
  BY DEF FencesUpTo, Is
<1>5. IsFiniteSet(A) /\ Cardinality(A) \in Nat
  BY <1>1, FencesCounted
<1>6. n + 1 \notin A /\ (\A i \in 1..n : i \in 1..(n + 1)) /\ n + 1 \in 1..(n + 1)
  BY <1>1, <1>4
<1> DEFINE B == FencesUpTo(Len(lines))'
<1>7. B = IF k = "fence" THEN A \cup {n + 1} ELSE A
  BY <1>1, <1>3, <1>4, <1>6
<1> HIDE DEF n, A, B
<1>8. Cardinality(A \cup {n + 1}) = Cardinality(A) + 1
  BY <1>5, <1>6, FS_AddElement
<1>9. Cardinality(B) = Cardinality(A) + (IF k = "fence" THEN 1 ELSE 0)
  BY <1>5, <1>7, <1>8
<1>10. (Cardinality(FencesUpTo(Len(lines))))' = Cardinality(B)
  BY DEF B
<1> QED
  BY <1>2, <1>5, <1>9, <1>10 DEF n, A

(* A section that is complete has all that was read of it, in order. *)
LEMMA FlushOK ==
  ASSUME SectionTypes, ReadInv
  PROVE  /\ Flush \in Seq(Section) /\ SecsInOrder(Flush) /\ SecLines(Flush) \subseteq DOMAIN lines
         /\ {l \in DOMAIN lines : NotBlank(l)} \subseteq SecLines(Flush)
         /\ \A f \in Fences : \E i \in DOMAIN Flush : WholeIn(f, Flush[i].blocks)
<1> DEFINE n == Len(lines)   m == Len(secs)   e == EndBlock(split)
<1>1. /\ n \in Nat /\ DOMAIN lines = 1..n /\ heading \in Nat /\ heading <= n
      /\ split \in Split /\ secs \in Seq(Section) /\ m \in Nat /\ DOMAIN secs = 1..m
  BY DEF SectionTypes
<1>2. /\ SecsInOrder(secs) /\ SplitInv(split)
      /\ \A l \in SecLines(secs) : l \in 1..heading - 1
      /\ \A l \in LinesIn(split.blocks) \cup ToSet(split.cur) : l \in heading + 1..n
      /\ {l \in DOMAIN lines : NotBlank(l)} \subseteq SecLines(secs) \cup OpenLines
      /\ \A f \in Fences : \/ \E i \in DOMAIN secs : WholeIn(f, secs[i].blocks)
                           \/ WholeIn(f, split.blocks) \/ f[1]..f[2] \subseteq ToSet(split.cur)
  BY DEF ReadInv, PlacesInv, Held
<1>3. \A f \in Fences : f[1] \in f[1]..f[2] /\ f[1] \in DOMAIN lines /\ NotBlank(f[1])
  <2> SUFFICES ASSUME NEW f \in Fences PROVE f[1] \in f[1]..f[2] /\ f[1] \in DOMAIN lines /\ NotBlank(f[1])
    OBVIOUS
  <2>1. f[1] \in 1..n /\ f[2] \in 1..n /\ f[1] < f[2] /\ lines[f[1]] = "fence"
    BY <1>1 DEF Fences, Is
  <2> QED
    BY <1>1, <2>1 DEF NotBlank, Is
<1>4. CASE ~(heading # 0 \/ \E l \in DOMAIN lines : NotBlank(l))
  <2>1. Flush = secs /\ {l \in DOMAIN lines : NotBlank(l)} = {} /\ Fences = {}
    BY <1>3, <1>4 DEF Flush
  <2>2. SecLines(secs) \subseteq DOMAIN lines
    BY <1>1, <1>2
  <2> QED
    BY <1>1, <1>2, <2>1, <2>2
<1>5. CASE heading # 0 \/ \E l \in DOMAIN lines : NotBlank(l)
  <2> DEFINE r == [heading |-> heading, blocks |-> e.blocks]   S == Append(secs, r)
  <2>1. Flush = S
    BY <1>5 DEF Flush
  <2>2. /\ e \in Split /\ BlocksInOrder(e.blocks)
        /\ LinesIn(e.blocks) = LinesIn(split.blocks) \cup ToSet(split.cur)
        /\ \A j \in DOMAIN split.blocks : \E k \in DOMAIN e.blocks :
               ToSet(split.blocks[j]) \subseteq ToSet(e.blocks[k])
        /\ split.cur # <<>> => \E k \in DOMAIN e.blocks : ToSet(split.cur) \subseteq ToSet(e.blocks[k])
    BY <1>1, <1>2, EndBlockOK
  <2>3. r.heading = heading /\ r.blocks = e.blocks /\ r \in Section
    BY <1>1, <2>2 DEF Split, Section
  <2> HIDE DEF e, r
  <2>4. /\ S \in Seq(Section) /\ DOMAIN S = 1..(m + 1) /\ S[m + 1] = r
        /\ \A i \in 1..m : S[i] = secs[i]
    <3> HIDE DEF Section
    <3> QED
      BY <1>1, <2>3
  <2>5. /\ \A i \in 1..(m + 1) : i \in 1..m \/ i = m + 1
        /\ \A i \in 1..m : i \in 1..(m + 1)
        /\ m + 1 \in 1..(m + 1)
    BY <1>1
  <2>6. LinesOf(r) = OpenLines
    BY <2>2, <2>3 DEF LinesOf, OpenLines, Held
  <2> HIDE DEF S
  <2>7. SecLines(S) = SecLines(secs) \cup OpenLines
    BY <1>1, <2>4, <2>5, <2>6 DEF SecLines
  <2>8. \A l \in OpenLines : l \in heading..n /\ l \in 1..n
    BY <1>1, <1>2 DEF OpenLines, Held
  <2>9. SecLines(S) \subseteq 1..n
    BY <1>1, <1>2, <2>7, <2>8
  <2>10. SecsInOrder(S)
    <3>1. \A i \in 1..m : BlocksInOrder(S[i].blocks) /\ AllBefore({S[i].heading}, LinesIn(S[i].blocks))
      BY <1>1, <1>2, <2>4 DEF SecsInOrder
    <3>2. AllBefore({heading}, LinesIn(e.blocks))
      BY <1>1, <1>2, <2>2 DEF AllBefore
    <3>3. BlocksInOrder(S[m + 1].blocks) /\ AllBefore({S[m + 1].heading}, LinesIn(S[m + 1].blocks))
      BY <2>2, <2>3, <2>4, <3>2
    <3>4. ASSUME NEW i \in 1..(m + 1), NEW j \in 1..(m + 1), i < j
          PROVE  AllBefore(LinesOf(S[i]), LinesOf(S[j]))
      <4>1. i \in 1..m
        BY <1>1, <3>4
      <4>2. CASE j \in 1..m
        BY <1>1, <1>2, <2>4, <3>4, <4>1, <4>2 DEF SecsInOrder
      <4>3. CASE j = m + 1
        <5>1. \A l \in LinesOf(S[i]) : l \in 1..heading - 1
          BY <1>1, <1>2, <2>4, <4>1 DEF SecLines
        <5>2. LinesOf(S[j]) = OpenLines
          BY <2>4, <2>6, <4>3
        <5> QED
          BY <1>1, <2>8, <5>1, <5>2 DEF AllBefore
      <4> QED
        BY <2>5, <4>2, <4>3
    <3> QED
      BY <2>4, <2>5, <3>1, <3>3, <3>4 DEF SecsInOrder
  <2>11. ASSUME NEW f \in Fences PROVE \E i \in DOMAIN S : WholeIn(f, S[i].blocks)
    <3>1. CASE \E i \in DOMAIN secs : WholeIn(f, secs[i].blocks)
      BY <1>1, <2>4, <2>5, <3>1
    <3>2. CASE WholeIn(f, split.blocks) \/ f[1]..f[2] \subseteq ToSet(split.cur)
      <4>1. WholeIn(f, e.blocks)
        <5>1. CASE WholeIn(f, split.blocks)
          BY <2>2, <5>1 DEF WholeIn
        <5>2. CASE f[1]..f[2] \subseteq ToSet(split.cur)
          <6>1. f[1] \in ToSet(split.cur)
            BY <1>3, <5>2
          <6>2. split.cur # <<>>
            BY <6>1 DEF ToSet
          <6> QED
            BY <2>2, <5>2, <6>2 DEF WholeIn
        <5> QED
          BY <3>2, <5>1, <5>2
      <4> QED
        BY <2>3, <2>4, <2>5, <4>1
    <3> QED
      BY <1>2, <3>1, <3>2
  <2> QED
    BY <1>1, <1>2, <2>1, <2>4, <2>7, <2>9, <2>10, <2>11
<1> QED
  BY <1>4, <1>5

(* Reading starts with nothing. *)
LEMMA SectionsInitOK ==
  ASSUME SectionsInit
  PROVE  SectionsInv
<1>1. /\ lines = <<>> /\ heading = 0 /\ split = Unsplit /\ inFence = FALSE
      /\ secs = <<>> /\ parsed = FALSE
  BY DEF SectionsInit
<1>2. SectionTypes
  <2>0. \A U : <<>> \in Seq(U)
    OBVIOUS
  <2>1. <<>> \in Seq(Nat) /\ <<>> \in Seq(Seq(Nat)) /\ <<>> \in Seq(Kind) /\ <<>> \in Seq(Section)
    BY <2>0, Zenon
  <2>2. split \in Split
    BY <1>1, <2>1 DEF Split, Unsplit, Blocks
  <2>3. heading \in Nat /\ heading <= Len(lines)
    BY <1>1
  <2>4. lines \in Seq(Kind) /\ secs \in Seq(Section)
    BY <1>1, <2>1
  <2> QED
    BY <1>1, <2>2, <2>3, <2>4 DEF SectionTypes
<1>3. LinesIn(split.blocks) = {} /\ ToSet(split.cur) = {} /\ SecLines(secs) = {} /\ DOMAIN lines = {}
      /\ DOMAIN split.blocks = {} /\ DOMAIN split.cur = {} /\ DOMAIN secs = {}
  BY <1>1 DEF Unsplit, LinesIn, ToSet, SecLines
<1>4. SecsInOrder(secs) /\ SplitInv(split) /\ PlacesInv
  BY <1>3 DEF SecsInOrder, SplitInv, PlacesInv, Held, BlocksInOrder, Ascending, AllBefore
<1>5. OpenFence
  <2>1. FencesUpTo(Len(lines)) = {}
    BY <1>1 DEF FencesUpTo
  <2>2. Cardinality({}) = 0
    BY FS_EmptySet
  <2>3. 0 % 2 # 1
    OBVIOUS
  <2>4. Cardinality(FencesUpTo(Len(lines))) % 2 # 1
    BY <2>1, <2>2, <2>3
  <2>5. split.fence = FALSE /\ inFence = FALSE
    BY <1>1 DEF Unsplit
  <2> QED
    BY <2>4, <2>5 DEF OpenFence
<1>6. Fences = {}
  BY <1>3 DEF Fences
<1>7. ReadInv
  BY <1>3, <1>4, <1>5, <1>6 DEF ReadInv
<1> QED
  BY <1>1, <1>2, <1>7 DEF SectionsInv

(* The end is reached. *)
LEMMA ReadEndOK ==
  ASSUME SectionsInv, ReadEnd
  PROVE  SectionsInv'
<1>1. SectionTypes /\ ReadInv
  BY DEF SectionsInv, ReadEnd
<1>2. /\ secs' = Flush /\ parsed' = TRUE /\ lines' = lines /\ heading' = heading
      /\ split' = split /\ inFence' = inFence
  BY DEF ReadEnd
<1>3. /\ Flush \in Seq(Section) /\ SecsInOrder(Flush) /\ SecLines(Flush) \subseteq DOMAIN lines
      /\ {l \in DOMAIN lines : NotBlank(l)} \subseteq SecLines(Flush)
      /\ \A f \in Fences : \E i \in DOMAIN Flush : WholeIn(f, Flush[i].blocks)
  BY <1>1, FlushOK
<1>4. SectionTypes'
  BY <1>1, <1>2, <1>3 DEF SectionTypes
<1>5. Fences' = Fences /\ \A l : NotBlank(l)' = NotBlank(l)
  BY <1>2 DEF Fences, Is, NotBlank, FencesUpTo
<1>6. LinesKept'
  BY <1>2, <1>3, <1>5 DEF LinesKept
<1>7. FencesAreWhole'
  BY <1>2, <1>3, <1>5 DEF FencesAreWhole
<1> QED
  BY <1>2, <1>4, <1>6, <1>7 DEF SectionsInv, ArticlesAreSplitWhole

(* A heading closes the section before it and opens its own. *)
LEMMA ReadHeadingOK ==
  ASSUME SectionsInv, ReadHeading
  PROVE  SectionsInv'
<1> DEFINE n == Len(lines)
<1>1. SectionTypes /\ ReadInv /\ "heading" \in Kind
  BY DEF SectionsInv, ReadHeading, Kind
<1>2. /\ secs' = Flush /\ parsed' = parsed /\ lines' = Append(lines, "heading") /\ heading' = n + 1
      /\ split' = Unsplit /\ inFence' = inFence /\ inFence = FALSE /\ parsed = FALSE
  BY DEF ReadHeading, SectionTypes
<1>3. /\ Flush \in Seq(Section) /\ SecsInOrder(Flush) /\ SecLines(Flush) \subseteq DOMAIN lines
      /\ {l \in DOMAIN lines : NotBlank(l)} \subseteq SecLines(Flush)
      /\ \A f \in Fences : \E i \in DOMAIN Flush : WholeIn(f, Flush[i].blocks)
  BY <1>1, FlushOK
<1>4. /\ n \in Nat /\ DOMAIN lines = 1..n
      /\ lines' \in Seq(Kind) /\ Len(lines') = n + 1 /\ DOMAIN lines' = 1..(n + 1)
      /\ \A i \in 1..n : lines'[i] = lines[i]
      /\ lines'[n + 1] = "heading"
      /\ \A i \in 1..(n + 1) : i \in 1..n \/ i = n + 1
  BY <1>1, <1>2, NextLine
<1>5. /\ \A i \in 1..n : FencesUpTo(i)' = FencesUpTo(i)
      /\ Cardinality(FencesUpTo(n)) \in Nat
      /\ (Cardinality(FencesUpTo(Len(lines))))' = Cardinality(FencesUpTo(n)) + 0
  BY <1>1, <1>2, FencesGrow
<1>6. SectionTypes'
  <2>0. \A U : <<>> \in Seq(U)
    OBVIOUS
  <2>1. <<>> \in Seq(Nat) /\ <<>> \in Seq(Seq(Nat))
    BY <2>0, Zenon
  <2>2. split' \in Split
    BY <1>2, <2>1 DEF Split, Unsplit, Blocks
  <2> HIDE DEF n
  <2>3. heading' \in Nat /\ heading' <= Len(lines')
    BY <1>2, <1>4
  <2> QED
    BY <1>1, <1>2, <1>3, <1>4, <2>2, <2>3 DEF SectionTypes
<1>7. /\ LinesIn(split'.blocks) = {} /\ ToSet(split'.cur) = {}
      /\ DOMAIN split'.blocks = {} /\ DOMAIN split'.cur = {} /\ split'.fence = FALSE
  BY <1>2 DEF Unsplit, LinesIn, ToSet
<1>8. SecsInOrder(secs)' /\ SplitInv(split)'
  BY <1>2, <1>3, <1>7 DEF SplitInv, BlocksInOrder, Ascending, AllBefore, SecsInOrder
<1> HIDE DEF n
<1>9. PlacesInv'
  <2>1. \A l \in SecLines(secs') : l \in 1..n
    BY <1>2, <1>3, <1>4
  <2>2. n = heading' - 1
    BY <1>2, <1>4
  <2> QED
    BY <1>7, <2>1, <2>2 DEF PlacesInv, Held
<1>10. OpenFence'
  <2>1. inFence <=> Cardinality(FencesUpTo(n)) % 2 = 1
    BY <1>1 DEF ReadInv, OpenFence, n
  <2>2. (Cardinality(FencesUpTo(Len(lines))))' = Cardinality(FencesUpTo(n))
    BY <1>5
  <2>3. (Cardinality(FencesUpTo(Len(lines))))' % 2 # 1
    BY <1>2, <2>1, <2>2
  <2>4. split'.fence = inFence' /\ inFence' = FALSE
    BY <1>2, <1>7
  <2> QED
    BY <2>3, <2>4 DEF OpenFence
<1>11. {l \in DOMAIN lines : NotBlank(l)}' \subseteq SecLines(secs') \cup OpenLines'
  <2>1. n + 1 \in OpenLines'
    BY <1>2, <1>4 DEF OpenLines
  <2>2. \A l \in 1..n : NotBlank(l)' => l \in SecLines(secs')
    BY <1>2, <1>3, <1>4 DEF NotBlank, Is
  <2> QED
    BY <1>4, <2>1, <2>2
<1>12. \A f \in Fences' : \E i \in DOMAIN secs' : WholeIn(f, secs'[i].blocks)
  <2>1. ASSUME NEW f \in Fences' PROVE f \in Fences
    <3>1. /\ f \in (1..(n + 1)) \X (1..(n + 1)) /\ f[1] < f[2] /\ lines'[f[1]] = "fence" /\ lines'[f[2]] = "fence"
          /\ Cardinality(FencesUpTo(f[1])') % 2 = 1
          /\ \A l \in f[1] + 1..f[2] - 1 : lines'[l] # "fence"
      BY <1>4, <2>1 DEF Fences, Is
    <3>2. f[1] \in 1..n /\ f[2] \in 1..n
      BY <1>4, <3>1
    <3>3. FencesUpTo(f[1])' = FencesUpTo(f[1])
      BY <1>5, <3>2
    <3>4. \A l \in f[1] + 1..f[2] - 1 : l \in 1..n
      BY <1>4, <3>2
    <3>5. f \in (DOMAIN lines) \X (DOMAIN lines)
      BY <1>4, <3>1, <3>2
    <3> QED
      BY <1>4, <3>1, <3>2, <3>3, <3>4, <3>5 DEF Fences, Is
  <2> QED
    BY <1>2, <1>3, <2>1
<1>13. ReadInv'
  BY <1>8, <1>9, <1>10, <1>11, <1>12 DEF ReadInv
<1> QED
  BY <1>2, <1>6, <1>13 DEF SectionsInv

(* A line is kept, unless it is blank and in no fence: then a block ends. *)
LEMMA TakeLineOK ==
  ASSUME NEW s \in Split, SplitInv(s), NEW line \in Nat, NEW kind \in Kind,
         \A x \in Held(s) : x < line
  PROVE  Took(s, line, kind, TakeLine(s, line, kind))
<1> DEFINE t == TakeLine(s, line, kind)
           fence == IF kind = "fence" THEN ~s.fence ELSE s.fence   u == [s EXCEPT !.fence = fence]
<1> SUFFICES Took(s, line, kind, t)
  OBVIOUS
<1>1. /\ s = [blocks |-> s.blocks, cur |-> s.cur, fence |-> s.fence]
      /\ s.blocks \in Blocks /\ s.cur \in Seq(Nat) /\ s.fence \in BOOLEAN
  BY DEF Split
<1>2. fence \in BOOLEAN
  BY <1>1
<1>3. t = IF fence \/ kind # "blank" THEN [u EXCEPT !.cur = Append(@, line)] ELSE EndBlock(u)
  BY DEF TakeLine
<1> HIDE DEF fence, t
<1>4. u = [blocks |-> s.blocks, cur |-> s.cur, fence |-> fence] /\ u \in Split
  BY <1>1, <1>2 DEF Split
<1>5. SplitInv(u) /\ u.blocks = s.blocks /\ u.cur = s.cur /\ u.fence = fence
  BY <1>4 DEF SplitInv
<1>6. CASE fence \/ kind # "blank"
  <2> DEFINE c == Append(s.cur, line)
  <2>1. c \in Seq(Nat) /\ Ascending(c) /\ ToSet(c) = ToSet(s.cur) \cup {line}
    <3>1. Ascending(s.cur) /\ \A x \in ToSet(s.cur) : x < line
      BY DEF SplitInv, Held
    <3> QED
      BY <1>1, <3>1, LineAdded
  <2>2. t = [blocks |-> s.blocks, cur |-> c, fence |-> fence]
    BY <1>3, <1>4, <1>6
  <2> HIDE DEF c
  <2>3. t \in Split /\ t.blocks = s.blocks /\ t.cur = c /\ t.fence = fence
    BY <1>1, <1>2, <2>1, <2>2 DEF Split
  <2>4. AllBefore(LinesIn(s.blocks), ToSet(c))
    BY <2>1 DEF SplitInv, AllBefore, Held
  <2>5. SplitInv(t)
    BY <2>1, <2>3, <2>4 DEF SplitInv
  <2>6. \A j \in DOMAIN s.blocks : \E i \in DOMAIN t.blocks : ToSet(s.blocks[j]) \subseteq ToSet(t.blocks[i])
    BY <2>3
  <2>7. Kept(kind, t)
    BY <1>6, <2>3 DEF Kept
  <2>8. Held(t) = Held(s) \cup {line}
    BY <2>1, <2>3 DEF Held
  <2>9. ToSet(t.cur) = ToSet(s.cur) \cup {line} /\ ToSet(s.cur) \subseteq ToSet(t.cur)
    BY <2>1, <2>3
  <2>10. t.fence = IF kind = "fence" THEN ~s.fence ELSE s.fence
    BY <2>3 DEF fence
  <2> QED
    BY <2>3, <2>5, <2>6, <2>7, <2>8, <2>9, <2>10 DEF Took
<1>7. CASE ~(fence \/ kind # "blank")
  <2>1. t = EndBlock(u)
    BY <1>3, <1>7
  <2>2. /\ t \in Split /\ t.cur = <<>> /\ t.fence = fence
        /\ BlocksInOrder(t.blocks)
        /\ LinesIn(t.blocks) = LinesIn(s.blocks) \cup ToSet(s.cur)
        /\ \A j \in DOMAIN s.blocks : \E i \in DOMAIN t.blocks : ToSet(s.blocks[j]) \subseteq ToSet(t.blocks[i])
        /\ s.cur # <<>> => \E i \in DOMAIN t.blocks : ToSet(s.cur) \subseteq ToSet(t.blocks[i])
    <3> HIDE DEF u
    <3> QED
      BY <1>4, <1>5, <2>1, EndBlockOK
  <2>3. ToSet(t.cur) = {} /\ DOMAIN t.cur = {}
    BY <2>2 DEF ToSet
  <2>4. SplitInv(t)
    BY <2>2, <2>3 DEF SplitInv, Ascending, AllBefore
  <2>5. LinesIn(t.blocks) \cup ToSet(t.cur) = LinesIn(s.blocks) \cup ToSet(s.cur)
    BY <2>2, <2>3
  <2>6. ~(t.fence \/ kind # "blank")
    BY <1>7, <2>2
  <2>7. ~Kept(kind, t)
    BY <2>6 DEF Kept
  <2>8. Held(t) = Held(s)
    BY <2>5 DEF Held
  <2>9. t.fence = IF kind = "fence" THEN ~s.fence ELSE s.fence
    BY <2>2 DEF fence
  <2> QED
    BY <2>2, <2>4, <2>7, <2>8, <2>9 DEF Took
<1> QED
  BY <1>6, <1>7

(* A fence that the next line closes was open up to it. *)
LEMMA ClosedFence ==
  ASSUME SectionTypes, OpenFence, NEW k \in Kind, lines' = Append(lines, k),
         NEW f \in Fences', f[2] = Len(lines) + 1
  PROVE  k = "fence" /\ f[1]..Len(lines) \subseteq ToSet(split.cur)
<1> DEFINE n == Len(lines)
<1>1. /\ n \in Nat /\ DOMAIN lines = 1..n
      /\ lines' \in Seq(Kind) /\ Len(lines') = n + 1 /\ DOMAIN lines' = 1..(n + 1)
      /\ \A i \in 1..n : lines'[i] = lines[i]
      /\ lines'[n + 1] = k
  BY NextLine
<1>2. /\ f[1] \in 1..(n + 1) /\ f[1] < n + 1 /\ lines'[f[1]] = "fence" /\ lines'[n + 1] = "fence"
      /\ Cardinality(FencesUpTo(f[1])') % 2 = 1
      /\ \A l \in f[1] + 1..(n + 1) - 1 : lines'[l] # "fence"
  BY <1>1 DEF Fences, Is
<1> DEFINE g == f[1]
<1>3. g \in 1..n /\ lines[g] = "fence" /\ \A l \in g + 1..n : lines[l] # "fence"
  <2>1. g \in 1..n
    BY <1>1, <1>2
  <2>2. \A l \in g + 1..n : l \in 1..n /\ l \in g + 1..(n + 1) - 1
    BY <1>1, <2>1
  <2> QED
    BY <1>1, <1>2, <2>1, <2>2
<1>4. FencesUpTo(g)' = FencesUpTo(g)
  BY <1>3, FencesGrow
<1>5. FencesUpTo(n) = FencesUpTo(g)
  <2>1. \A l \in 1..n : l \in 1..g \/ l \in g + 1..n
    BY <1>1, <1>3
  <2>2. \A l \in 1..g : l \in 1..n
    BY <1>1, <1>3
  <2> QED
    BY <1>3, <2>1, <2>2 DEF FencesUpTo, Is
<1>6. Cardinality(FencesUpTo(n)) % 2 = 1
  BY <1>2, <1>4, <1>5
<1>7. inFence
  BY <1>6 DEF OpenFence
<1>8. PICK o \in 1..n : lines[o] = "fence" /\ (\A l \in o + 1..n : lines[l] # "fence") /\ o..n \subseteq ToSet(split.cur)
  BY <1>1, <1>7 DEF OpenFence, Is
<1>9. o = g
  <2>1. ~(o \in g + 1..n) /\ ~(g \in o + 1..n)
    BY <1>3, <1>8
  <2> QED
    BY <1>1, <1>3, <1>8, <2>1
<1> QED
  BY <1>1, <1>2, <1>8, <1>9

(* A line of the open section. *)
LEMMA ReadLineOK ==
  ASSUME SectionsInv, NEW k \in Kind, ReadLine(k)
  PROVE  SectionsInv'
<1> DEFINE n == Len(lines)
<1>1. SectionTypes /\ ReadInv
  BY DEF SectionsInv, ReadLine
<1>2. /\ secs' = secs /\ parsed' = parsed /\ lines' = Append(lines, k) /\ heading' = heading
      /\ split' = TakeLine(split, n + 1, k) /\ parsed = FALSE
      /\ inFence' = IF k = "fence" THEN ~inFence ELSE inFence
  BY <1>1 DEF ReadLine, SectionTypes
<1>3. /\ n \in Nat /\ DOMAIN lines = 1..n
      /\ lines' \in Seq(Kind) /\ Len(lines') = n + 1 /\ DOMAIN lines' = 1..(n + 1)
      /\ \A i \in 1..n : lines'[i] = lines[i]
      /\ lines'[n + 1] = k
      /\ \A i \in 1..(n + 1) : i \in 1..n \/ i = n + 1
  BY <1>1, <1>2, NextLine
<1>4. /\ \A i \in 1..n : FencesUpTo(i)' = FencesUpTo(i)
      /\ Cardinality(FencesUpTo(n)) \in Nat
      /\ (Cardinality(FencesUpTo(Len(lines))))' = Cardinality(FencesUpTo(n)) + (IF k = "fence" THEN 1 ELSE 0)
  BY <1>1, <1>2, FencesGrow
<1>5. /\ split \in Split /\ heading \in Nat /\ heading <= n /\ secs \in Seq(Section)
      /\ inFence \in BOOLEAN /\ parsed \in BOOLEAN
  BY <1>1 DEF SectionTypes
<1>6. /\ SecsInOrder(secs) /\ SplitInv(split) /\ OpenFence
      /\ \A l \in SecLines(secs) : l \in 1..heading - 1
      /\ \A l \in Held(split) : l \in heading + 1..n
      /\ {l \in DOMAIN lines : NotBlank(l)} \subseteq SecLines(secs) \cup OpenLines
      /\ \A f \in Fences : \/ \E i \in DOMAIN secs : WholeIn(f, secs[i].blocks)
                           \/ WholeIn(f, split.blocks) \/ f[1]..f[2] \subseteq ToSet(split.cur)
  BY <1>1 DEF ReadInv, PlacesInv
<1> HIDE DEF n
<1>15. Took(split, n + 1, k, split')
  <2>1. n + 1 \in Nat /\ \A x \in Held(split) : x < n + 1
    BY <1>3, <1>5, <1>6
  <2> QED
    BY <1>2, <1>5, <1>6, <2>1, TakeLineOK
<1> DEFINE kept == Kept(k, split')
<1>7. /\ split' \in Split /\ SplitInv(split')
      /\ split'.fence = IF k = "fence" THEN ~split.fence ELSE split.fence
      /\ Held(split') = Held(split) \cup (IF kept THEN {n + 1} ELSE {})
      /\ kept => ToSet(split'.cur) = ToSet(split.cur) \cup {n + 1}
      /\ \A j \in DOMAIN split.blocks : \E i \in DOMAIN split'.blocks :
            ToSet(split.blocks[j]) \subseteq ToSet(split'.blocks[i])
      /\ split.cur # <<>> => \/ ToSet(split.cur) \subseteq ToSet(split'.cur)
                             \/ \E i \in DOMAIN split'.blocks : ToSet(split.cur) \subseteq ToSet(split'.blocks[i])
  BY <1>15 DEF Took
<1>16. k # "blank" \/ split'.fence => kept
  BY DEF Kept
<1> HIDE DEF kept
<1>8. SectionTypes'
  <2>1. heading' \in Nat /\ heading' <= Len(lines')
    BY <1>2, <1>3, <1>5
  <2>2. inFence' \in BOOLEAN /\ parsed' \in BOOLEAN
    BY <1>2, <1>5
  <2> QED
    BY <1>2, <1>3, <1>5, <1>7, <2>1, <2>2 DEF SectionTypes
<1>9. SecsInOrder(secs)' /\ SplitInv(split)'
  BY <1>2, <1>6, <1>7 DEF SplitInv
<1>10. PlacesInv'
  <2>1. \A l \in Held(split') : l \in heading + 1..(n + 1)
    BY <1>3, <1>5, <1>6, <1>7
  <2> QED
    BY <1>2, <1>3, <1>6, <2>1 DEF PlacesInv
<1>11. {l \in DOMAIN lines : NotBlank(l)}' \subseteq SecLines(secs') \cup OpenLines'
  <2>1. \A l \in 1..n : NotBlank(l)' => l \in SecLines(secs) \cup OpenLines
    BY <1>3, <1>6 DEF NotBlank, Is
  <2>2. OpenLines \subseteq OpenLines'
    BY <1>2, <1>7 DEF OpenLines
  <2>3. k # "blank" => n + 1 \in OpenLines'
    BY <1>7, <1>16 DEF OpenLines
  <2>4. \A l \in 1..(n + 1) : NotBlank(l)' => l \in SecLines(secs) \cup OpenLines'
    <3>1. \A l \in 1..(n + 1) : NotBlank(l)' => lines'[l] # "blank"
      BY DEF NotBlank, Is
    <3> QED
      BY <1>3, <2>1, <2>2, <2>3, <3>1
  <2> QED
    BY <1>2, <1>3, <2>4
<1>12. OpenFence'
  <2>1. (inFence <=> Cardinality(FencesUpTo(n)) % 2 = 1) /\ split.fence = inFence
    BY <1>6 DEF OpenFence, n
  <2>2. split'.fence = inFence'
    BY <1>2, <1>7, <2>1
  <2>3. inFence' <=> (Cardinality(FencesUpTo(Len(lines))))' % 2 = 1
    <3> DEFINE a == Cardinality(FencesUpTo(n))   b == (Cardinality(FencesUpTo(Len(lines))))'
    <3>1. a \in Nat /\ b = a + (IF k = "fence" THEN 1 ELSE 0) /\ (inFence <=> a % 2 = 1)
      BY <1>4, <2>1
    <3> HIDE DEF a, b
    <3>2. (a + 1) % 2 = 1 <=> ~(a % 2 = 1)
      BY <3>1
    <3>3. CASE k = "fence"
      <4>1. b = a + 1 /\ inFence' = ~inFence
        BY <1>2, <3>1, <3>3
      <4> QED
        BY <1>5, <3>1, <3>2, <4>1 DEF b
    <3>4. CASE k # "fence"
      <4>1. b = a /\ inFence' = inFence
        BY <1>2, <3>1, <3>4
      <4> QED
        BY <3>1, <4>1 DEF b
    <3> QED
      BY <3>3, <3>4
  <2>4. ASSUME inFence'
        PROVE  \E o \in 1..(n + 1) : /\ lines'[o] = "fence" /\ \A l \in o + 1..(n + 1) : lines'[l] # "fence"
                                     /\ o..(n + 1) \subseteq ToSet(split'.cur)
    <3>1. ToSet(split'.cur) = ToSet(split.cur) \cup {n + 1}
      BY <1>7, <1>16, <2>2, <2>4
    <3>2. CASE k = "fence"
      <4>1. (n + 1)..(n + 1) = {n + 1} /\ n + 1 + 1..(n + 1) = {} /\ n + 1 \in 1..(n + 1)
        BY <1>3
      <4> QED
        BY <1>3, <3>1, <3>2, <4>1
    <3>3. CASE k # "fence"
      <4>1. PICK o \in 1..n : lines[o] = "fence" /\ (\A l \in o + 1..n : lines[l] # "fence")
                              /\ o..n \subseteq ToSet(split.cur)
        BY <1>2, <1>3, <1>6, <2>4, <3>3 DEF OpenFence, Is, n
      <4>2. o \in 1..(n + 1) /\ lines'[o] = "fence"
        BY <1>3, <4>1
      <4>3. \A l \in o + 1..(n + 1) : l = n + 1 \/ (l \in o + 1..n /\ l \in 1..n)
        BY <1>3
      <4>4. \A l \in o..(n + 1) : l = n + 1 \/ l \in o..n
        BY <1>3
      <4> QED
        BY <1>3, <3>1, <3>3, <4>1, <4>2, <4>3, <4>4
    <3> QED
      BY <3>2, <3>3
  <2> QED
    BY <1>3, <2>2, <2>3, <2>4 DEF OpenFence, Is
<1>13. ASSUME NEW f \in Fences'
       PROVE  \/ \E i \in DOMAIN secs : WholeIn(f, secs[i].blocks)
              \/ WholeIn(f, split'.blocks) \/ f[1]..f[2] \subseteq ToSet(split'.cur)
  <2>1. /\ f \in (1..(n + 1)) \X (1..(n + 1)) /\ f[1] < f[2] /\ lines'[f[1]] = "fence" /\ lines'[f[2]] = "fence"
        /\ Cardinality(FencesUpTo(f[1])') % 2 = 1
        /\ \A l \in f[1] + 1..f[2] - 1 : lines'[l] # "fence"
    BY <1>3, <1>13 DEF Fences, Is
  <2>2. CASE f[2] = n + 1
    <3>1. k = "fence" /\ f[1]..n \subseteq ToSet(split.cur)
      BY <1>1, <1>2, <1>6, <1>13, <2>2, ClosedFence DEF n
    <3>2. ToSet(split'.cur) = ToSet(split.cur) \cup {n + 1}
      BY <1>7, <1>16, <3>1
    <3>3. \A l \in f[1]..f[2] : l \in f[1]..n \/ l = n + 1
      BY <1>3, <2>1, <2>2
    <3> QED
      BY <3>1, <3>2, <3>3
  <2>3. CASE f[2] # n + 1
    <3>2. f[1] \in 1..n /\ f[2] \in 1..n
      BY <1>3, <2>1, <2>3
    <3>3. FencesUpTo(f[1])' = FencesUpTo(f[1])
      BY <1>4, <3>2
    <3>4. \A l \in f[1] + 1..f[2] - 1 : l \in 1..n
      BY <1>3, <3>2
    <3>5. f \in (DOMAIN lines) \X (DOMAIN lines)
      BY <1>3, <2>1, <3>2
    <3>6. f \in Fences
      BY <1>3, <2>1, <3>2, <3>3, <3>4, <3>5 DEF Fences, Is
    <3>7. CASE WholeIn(f, split.blocks)
      BY <1>7, <3>7 DEF WholeIn
    <3>8. CASE f[1]..f[2] \subseteq ToSet(split.cur)
      <4>1. f[1] \in f[1]..f[2]
        BY <2>1, <3>2
      <4>2. split.cur # <<>>
        BY <3>8, <4>1 DEF ToSet
      <4> QED
        BY <1>7, <3>8, <4>2 DEF WholeIn
    <3> QED
      BY <1>6, <3>6, <3>7, <3>8
  <2> QED
    BY <2>2, <2>3
<1>14. ReadInv'
  BY <1>2, <1>9, <1>10, <1>11, <1>12, <1>13 DEF ReadInv
<1> QED
  BY <1>2, <1>8, <1>14 DEF SectionsInv

(* The invariant is inductive. *)
LEMMA SectionsStepOK ==
  ASSUME SectionsInv, [SectionsNext]_sectionVars
  PROVE  SectionsInv'
<1>1. CASE ReadHeading
  BY <1>1, ReadHeadingOK
<1>2. CASE ReadEnd
  BY <1>2, ReadEndOK
<1>3. CASE \E k \in Kind : ReadLine(k)
  BY <1>3, ReadLineOK
<1>4. CASE UNCHANGED sectionVars
  <2>1. /\ lines' = lines /\ heading' = heading /\ split' = split /\ inFence' = inFence
        /\ secs' = secs /\ parsed' = parsed
    BY <1>4 DEF sectionVars
  <2>2. SectionTypes = SectionTypes' /\ Fences' = Fences /\ OpenFence' = OpenFence /\ OpenLines' = OpenLines
    BY <2>1 DEF SectionTypes, Fences, FencesUpTo, Is, OpenFence, OpenLines
  <2>3. {l \in DOMAIN lines : NotBlank(l)}' = {l \in DOMAIN lines : NotBlank(l)}
    BY <2>1 DEF NotBlank, Is
  <2>4. ReadInv' = ReadInv
    BY <2>1, <2>2, <2>3 DEF ReadInv, PlacesInv
  <2>5. ArticlesAreSplitWhole' = ArticlesAreSplitWhole
    BY <2>1, <2>2, <2>3 DEF ArticlesAreSplitWhole, LinesKept, FencesAreWhole
  <2> QED
    BY <2>1, <2>2, <2>4, <2>5 DEF SectionsInv
<1> QED
  BY <1>1, <1>2, <1>3, <1>4 DEF SectionsNext

(* Whatever the lines of an article: its sections have its lines, the      *)
(* blank ones aside, each once and in order, and no code fence is broken   *)
(* (parseContextSections, splitContextBlocks).                             *)
THEOREM ArticlesSplitWhole == SectionsInit /\ [][SectionsNext]_sectionVars => []ArticlesAreSplitWhole
<1>1. SectionsInit => SectionsInv
  BY SectionsInitOK
<1>2. SectionsInv /\ [SectionsNext]_sectionVars => SectionsInv'
  BY SectionsStepOK
<1>3. SectionsInv => ArticlesAreSplitWhole
  BY DEF SectionsInv, ArticlesAreSplitWhole, LinesKept, FencesAreWhole
<1> QED
  BY <1>1, <1>2, <1>3, PTL
=============================================================================
