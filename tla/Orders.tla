------------------------------- MODULE Orders --------------------------------
(***************************************************************************)
(* The order in which kb walks what it keeps: a listing is in the order of *)
(* its file names, an index in that of its docs (store/store.go).          *)
(***************************************************************************)
EXTENDS Naturals, FiniteSets

(* The members of a set of numbers, each once, the least first.            *)
InOrder(S) == {k \in [1..Cardinality(S) -> S] : \A i, j \in DOMAIN k : i < j => k[i] < k[j]}
=============================================================================
