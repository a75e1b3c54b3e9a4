-------------------------------- MODULE Sums --------------------------------
(***************************************************************************)
(* The sum of natural numbers as a count: what f gives to x is that many   *)
(* places of x.  No recursion is needed, so that proofs can use it.        *)
(***************************************************************************)
EXTENDS Naturals, FiniteSets

PlacesOf(f, S) == UNION {{x} \X (1..f[x]) : x \in S}
SumOf(f, S)    == Cardinality(PlacesOf(f, S))
=============================================================================
