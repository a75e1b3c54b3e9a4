----------------------------- MODULE MCVectors ------------------------------
(* Instances of VectorStore.                                               *)
EXTENDS VectorStoreInv, TLC

Symmetric == Permutations(Id)
=============================================================================
