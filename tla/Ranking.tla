------------------------------- MODULE Ranking -------------------------------
(***************************************************************************)
(* The three ways to search a scope: by words (SearchScope), by a query    *)
(* vector (VectorSearch), and by both with reciprocal rank fusion          *)
(* (HybridSearch) (search/scope.go, search/vector.go, search/bm25.go).     *)
(*                                                                         *)
(* Articles are numbered in the order of their ids.  What an article       *)
(* scores is any number; ties fall anywhere, as with sort.Slice.           *)
(***************************************************************************)
EXTENDS Integers, FiniteSets, SequencesExt, Orders

CONSTANTS Doc,       \* articles, a set of numbers
          Points,    \* what BM25 or the cosine may come to, 0 for no match
          Limits,    \* the limits a caller may give, 0 and less as well
          RRF,       \* rrfK
          Unit,      \* what the weights of fused ranks are counted in: see Weight
          MinDepth,  \* the least depth of the lists that are fused
          MaxDeleted \* bound: indexed articles deleted while a query ranks them

ASSUME DocsAssumption   == IsFiniteSet(Doc) /\ Doc \subseteq Nat /\ Points \subseteq Int /\ 0 \in Points
ASSUME LimitsAssumption == Limits \subseteq Int /\ MinDepth \in Nat
(* 1 / (k + rank + 1) is a whole number of units for every rank.           *)
ASSUME UnitAssumption   == /\ RRF \in Nat /\ Unit \in Nat \ {0}
                           /\ \A i \in 1..Cardinality(Doc) : Unit % (RRF + i) = 0

VARIABLES wiki,              \* the articles on disk
          mode, limit,       \* the query
          tagged,            \* the articles that --exclude-tags excludes
          bm25, cosine,      \* the scores of articles, and of the rows of the vector index
          indexed,           \* the docs of the index the query uses
          byWords, byVector, \* the lists that were ranked
          ranking, hits,     \* what is still to be loaded, and what was
          phase

rankVars == <<wiki, mode, limit, tagged, bm25, cosine, indexed, byWords, byVector, ranking, hits, phase>>
-----------------------------------------------------------------------------
(* The orders a sort by descending score may leave.                        *)
Sorted(scores) == {s \in [1..Cardinality(DOMAIN scores) -> DOMAIN scores] :
                     /\ \A i, j \in DOMAIN s : i # j => s[i] # s[j]
                     /\ \A i, j \in DOMAIN s : i < j => scores[s[i]] >= scores[s[j]]}

Least(m, n) == IF m <= n THEN m ELSE n
Cut(s, n)   == [i \in 1..Least(n, Len(s)) |-> s[i]]

(* Cut at the first score that is not positive, and at a limit.            *)
Positive(scores)  == {d \in DOMAIN scores : scores[d] > 0}
Ranked(scores, n) == {Cut(s, Least(n, Cardinality(Positive(scores)))) : s \in Sorted(scores)}

(* rankPositions finds one even if the limit is 0 or less, Index.Search    *)
(* then finds nothing.                                                     *)
RankPositions(scores, n) == Ranked(scores, IF n > 1 THEN n ELSE 1)
SimilarRows(n)           == Ranked(cosine, IF n > 0 THEN n ELSE 0)

(* keptDocs.  scoreIndex ranks their positions in the order of the index,  *)
(* kept, and maps them back to docs.                                       *)
KeptDocs == indexed \ tagged
Scores(kept) == [k \in DOMAIN kept |-> bm25[kept[k]]]

(* Mutant of ScoreIndex: positions are taken for docs. *)
ScoreIndexUnmapped(kept, n) ==
    LET all == CHOOSE k \in InOrder(indexed) : TRUE
    IN  {[i \in DOMAIN s |-> all[s[i]]] : s \in RankPositions(Scores(kept), n)}

ScoreIndex(kept, n) == {[i \in DOMAIN s |-> kept[s[i]]] : s \in RankPositions(Scores(kept), n)}

Depth == IF 4 * limit > MinDepth THEN 4 * limit ELSE MinDepth

RankIn(s, d) == CHOOSE i \in DOMAIN s : s[i] = d

(* Mutant of Weight: an article that is not in a list is -1 in it. *)
WeightMissing(s, d) == IF d \in ToSet(s) THEN Unit \div (RRF + RankIn(s, d)) ELSE Unit \div RRF

(* 1 / (k + rank + 1), where ranks begin with 0.                           *)
Weight(s, d) == IF d \in ToSet(s) THEN Unit \div (RRF + RankIn(s, d)) ELSE 0

(* rrfFuse: by the sum of the weights, then by id.                         *)
Fused(x, y, d)     == Weight(x, d) + Weight(y, d)
Ahead(x, y, c, d) == Fused(x, y, c) > Fused(x, y, d) \/ (Fused(x, y, c) = Fused(x, y, d) /\ c < d)
Fuse(x, y) ==
    LET all == ToSet(x) \cup ToSet(y)
    IN  {s \in [1..Cardinality(all) -> all] : \A i, j \in DOMAIN s : i < j => Ahead(x, y, s[i], s[j])}
-----------------------------------------------------------------------------
RankStart(m, docs, n, tags) ==
    /\ mode = m /\ wiki = docs /\ limit = n /\ tagged = tags
    /\ indexed = {} /\ byWords = <<>> /\ byVector = <<>> /\ ranking = <<>> /\ hits = <<>>

RankInit == /\ \E m \in {"words", "vector", "hybrid"}, docs \in SUBSET Doc, n \in Limits :
                   \E tags \in IF m = "words" THEN SUBSET docs ELSE {{}} : RankStart(m, docs, n, tags)
            /\ bm25 \in [wiki -> Points] /\ cosine \in [Doc -> Points]
            /\ mode = "words" => cosine = [d \in Doc |-> 0]
            /\ mode = "vector" => bm25 = [d \in wiki |-> 0]
            /\ phase = "index"
RankIdle == RankStart("none", {}, 0, {}) /\ bm25 = <<>> /\ cosine = <<>> /\ phase = "done"

(* Another process deletes an article; its vector may stay.  Before the    *)
(* index is read that is a query of a smaller wiki.                        *)
DeleteDoc(d) ==
    /\ phase \in {"rank", "vectors", "load"} /\ d \in wiki
    /\ Cardinality(indexed \ wiki) < MaxDeleted
    /\ wiki' = wiki \ {d}
    /\ UNCHANGED <<mode, limit, tagged, bm25, cosine, indexed, byWords, byVector, ranking, hits, phase>>

(* FreshIndex describes the wiki as it is: SearchIndex.                    *)
UseIndex ==
    /\ phase = "index"
    /\ indexed' = IF mode = "vector" THEN {} ELSE wiki
    /\ phase' = IF mode = "vector" THEN "vectors" ELSE "rank"
    /\ UNCHANGED <<wiki, mode, limit, tagged, bm25, cosine, byWords, byVector, ranking, hits>>

RankByWords ==
    /\ phase = "rank"
    /\ \E kept \in InOrder(KeptDocs) :
           byWords' \in ScoreIndex(kept, IF mode = "hybrid" THEN Depth ELSE limit)
    /\ IF mode = "hybrid" THEN phase' = "vectors" /\ ranking' = <<>>
                          ELSE phase' = "load" /\ ranking' = byWords'
    /\ UNCHANGED <<wiki, mode, limit, tagged, bm25, cosine, indexed, byVector, hits>>

(* The rows of deleted articles are ranked, and counted, with the others.  *)
RankByVector ==
    /\ phase = "vectors"
    /\ byVector' \in SimilarRows(IF mode = "hybrid" THEN Depth ELSE limit)
    /\ ranking' \in IF mode = "vector" THEN {byVector'}
                    ELSE {IF limit > 0 THEN Cut(s, limit) ELSE s : s \in Fuse(byWords, byVector')}
    /\ phase' = "load"
    /\ UNCHANGED <<wiki, mode, limit, tagged, bm25, cosine, indexed, byWords, hits>>

(* loadHits: an article the index does not hold, or that is gone since,    *)
(* is skipped.                                                             *)
LoadHit ==
    /\ phase = "load" /\ ranking # <<>>
    /\ LET d == Head(ranking)
       IN  hits' = IF d \in wiki /\ (mode = "vector" \/ d \in indexed) THEN Append(hits, d) ELSE hits
    /\ ranking' = Tail(ranking)
    /\ UNCHANGED <<wiki, mode, limit, tagged, bm25, cosine, indexed, byWords, byVector, phase>>

EndSearch == /\ phase = "load" /\ ranking = <<>>
             /\ phase' = "done"
             /\ UNCHANGED <<wiki, mode, limit, tagged, bm25, cosine, indexed, byWords, byVector, ranking, hits>>

RankNext == UseIndex \/ RankByWords \/ RankByVector \/ LoadHit \/ EndSearch \/ \E d \in Doc : DeleteDoc(d)
-----------------------------------------------------------------------------
(* "cut at the first non-positive score and after limit entries"           *)
(* (bm25.go:221), over "the tag-filtered slice" (scope.go:141): an article *)
(* that has stayed is missing from the results only if it does not match,  *)
(* is excluded, or limit others are as good; and what is found is in order.*)
BestAreFound ==
    mode = "words" /\ phase = "done" =>
        /\ ToSet(hits) \cap tagged = {}
        /\ \A i, j \in DOMAIN hits : i < j => bm25[hits[i]] >= bm25[hits[j]]
        /\ \A d \in wiki \ (tagged \cup ToSet(hits)) :
               \/ bm25[d] <= 0
               \/ Cardinality({e \in ToSet(byWords) : bm25[e] >= bm25[d]}) >= (IF limit > 1 THEN limit ELSE 1)

(* Fusion respects the two rankings: an article that neither ranks below   *)
(* another, and one ranks above it, is found before it.                    *)
Above(s, c, d) == c \in ToSet(s) /\ (d \in ToSet(s) => RankIn(s, c) < RankIn(s, d))
FusionIsMonotone ==
    mode = "hybrid" => \A i, j \in DOMAIN hits :
        LET c == hits[i]   d == hits[j]
        IN  /\ Above(byWords, c, d) \/ Above(byVector, c, d)
            /\ ~Above(byWords, d, c) /\ ~Above(byVector, d, c)
            => i < j
=============================================================================
