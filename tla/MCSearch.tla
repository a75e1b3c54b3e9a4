------------------------------ MODULE MCSearch ------------------------------
(* Instances of SearchIndex for TLC. *)
EXTENDS SearchIndexInv, TLC

(* The two texts an article may have are as long as each other. *)
MCSize == [b \in Text \cup {Bad, Blank} |-> IF b = Blank THEN 0 ELSE IF b = Bad THEN 2 ELSE 1]

Symmetric == Permutations(Id) \cup Permutations(Text)
=============================================================================
