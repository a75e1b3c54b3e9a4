------------------------------ MODULE RankingInv -------------------------------
(***************************************************************************)
(* The invariant behind what a query finds: see RankingProofs.             *)
(***************************************************************************)
EXTENDS Ranking

(* A list of members of a set, each once.                                  *)
ListOf(s, S) == s \in [1..Len(s) -> S] /\ \A i, j \in DOMAIN s : i # j => s[i] # s[j]

RankTypes ==
    /\ mode \in {"words", "vector", "hybrid"} /\ limit \in Int
    /\ wiki \subseteq DOMAIN bm25 /\ indexed \subseteq DOMAIN bm25 /\ DOMAIN bm25 \subseteq Doc
    /\ bm25 \in [DOMAIN bm25 -> Int] /\ cosine \in [Doc -> Int]
    /\ ranking \in Seq(Doc) /\ hits \in Seq(Doc) /\ byWords \in Seq(Doc) /\ byVector \in Seq(Doc)
    /\ phase \in {"index", "rank", "vectors", "load", "done"}

(* The orders that searches list in.                                       *)
Precedes(c, d) == IF mode = "words" THEN bm25[c] >= bm25[d] ELSE Ahead(byWords, byVector, c, d)

(* Hits are in the order of the ranking and before what is left of it.     *)
HitsInv ==
    /\ phase \in {"index", "rank", "vectors"} => hits = <<>>
    /\ mode # "vector" =>
          /\ \A i, j \in DOMAIN hits : i < j => Precedes(hits[i], hits[j])
          /\ phase \in {"load", "done"} =>
                /\ \A i \in DOMAIN hits, j \in DOMAIN ranking : Precedes(hits[i], ranking[j])
                /\ \A i, j \in DOMAIN ranking : i < j => Precedes(ranking[i], ranking[j])

(* What was ranked by words has the best, and what stays of it is loaded.  *)
WordsInv ==
    mode = "words" =>
        /\ phase # "vectors"
        /\ phase # "index" => wiki \subseteq indexed
        /\ phase \in {"load", "done"} =>
              /\ ListOf(byWords, indexed \ tagged)
              /\ \A d \in indexed \ (tagged \cup ToSet(byWords)) :
                    \/ bm25[d] <= 0
                    \/ /\ Len(byWords) >= (IF limit > 1 THEN limit ELSE 1)
                       /\ \A e \in ToSet(byWords) : bm25[e] >= bm25[d]
              /\ ToSet(hits) \cup ToSet(ranking) \subseteq ToSet(byWords)
              /\ ToSet(byWords) \cap wiki \subseteq ToSet(hits) \cup ToSet(ranking)
        /\ phase = "done" => ranking = <<>>

(* Ranks are among those that Unit is made for.                            *)
RanksInv == Len(byWords) <= Cardinality(Doc) /\ Len(byVector) <= Cardinality(Doc)

RankInv == RankTypes /\ HitsInv /\ WordsInv /\ RanksInv
=============================================================================
