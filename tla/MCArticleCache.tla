--------------------------- MODULE MCArticleCache ---------------------------
(* Instances of ArticleCache.  The two texts are as long as each other.    *)
EXTENDS ArticleCache, TLC

MCSize == [b \in Bytes |-> CASE b = Blank -> 0 [] b = Bad -> 2 [] OTHER -> 1]

Symmetric == Permutations(Id) \cup Permutations(Text)
=============================================================================
