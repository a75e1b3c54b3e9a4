----------------------------- MODULE ExcerptsInv ------------------------------
(***************************************************************************)
(* The invariant behind what an excerpt takes: see RankingProofs.          *)
(***************************************************************************)
EXTENDS Excerpts

ExcerptTypes ==
    /\ ranked \in Seq(ArticleText) /\ perArticle \in Nat /\ totalCap \in Nat
    /\ rank \in Nat \ {0} /\ stage \in {"rank", "choose", "fill", "head"}
    /\ parts \in Seq([rank : DOMAIN ranked, len : Int, budget : Int, end : Int])
    /\ Len(parts) < rank

(* What was written fits, the exception aside.                             *)
PartsInv == \A i \in DOMAIN parts :
                /\ parts[i].budget <= perArticle
                /\ Overlong(parts[i]) \/ (parts[i].len <= parts[i].budget /\ parts[i].end <= totalCap)

IsUnit(u) == /\ u = [sec |-> u.sec, blk |-> u.blk]
             /\ u.sec \in DOMAIN article.secs /\ u.blk \in {0} \cup DOMAIN article.secs[u.sec].blocks

(* Each unit is tried once, and what was taken of it keeps tables whole.   *)
PiecesInv ==
    /\ IsFiniteSet(chosen)
    /\ \A c \in chosen : /\ c = [unit |-> c.unit, piece |-> c.piece] /\ c.unit \in units
                         /\ c.piece.len \in Nat
                         /\ c.piece.cut => c.piece.rows \notin 1..2
    /\ \A c, d \in chosen : c.unit = d.unit => c = d

(* used counts, in whatever order, each piece with a mark, but for the     *)
(* first, and once the heading of each section that blocks come from.      *)
Share(c)        == c.piece.len + Skip
HeadingShare(i) == IF article.secs[i].heading = 0 THEN 0 ELSE article.secs[i].heading + Skip
CostInv ==
    /\ used \in Int /\ used <= avail
    /\ IF chosen = {} THEN used = 0
       ELSE used + Skip = SumOf([c \in chosen |-> Share(c)], chosen)
                          + SumOf([i \in Headed |-> HeadingShare(i)], Headed)

WorkInv ==
    IF stage = "rank" THEN units = {} /\ chosen = {} /\ used = 0
    ELSE /\ rank \in DOMAIN ranked /\ budget = Budget /\ HeadLen(article, budget) < budget
         /\ \A u \in units : IsUnit(u)
         /\ todo \subseteq units \ Taken
         /\ PiecesInv
         /\ CostInv

ExcerptInv == ExcerptTypes /\ PartsInv /\ WorkInv
=============================================================================
