----------------------------- MODULE VectorMap ------------------------------
(***************************************************************************)
(* What a scope's vector index promises, however it is stored: a map from  *)
(* article ids to vectors, which changes one entry at a time.              *)
(*                                                                         *)
(* An older kb, which knows vectors.json only, may replace the map:        *)
(* `foreign` counts how often it has.  `intact` says that no vector write  *)
(* has overlapped with one it does not know of.  Once two have, nothing is *)
(* promised: there is no lock (store/vectors.go).                          *)
(***************************************************************************)
EXTENDS Naturals

CONSTANTS Id, Vec, None

VARIABLES stored, foreign, intact

vars == <<stored, foreign, intact>>

Maps == [Id -> Vec \cup {None}]

Init == /\ stored \in Maps
        /\ foreign = 0
        /\ intact = TRUE

(* A vector is attached to an article, or goes with it.                    *)
Put(i, v) == /\ stored' = [stored EXCEPT ![i] = v]
             /\ UNCHANGED <<foreign, intact>>

Drop(i) == /\ stored' = [stored EXCEPT ![i] = None]
           /\ UNCHANGED <<foreign, intact>>

(* An older kb writes its vectors.json.                                    *)
Replace == /\ stored' \in Maps
           /\ foreign' = foreign + 1
           /\ UNCHANGED intact

(* Two vector writes have overlapped.                                      *)
Overlap == /\ stored' \in Maps
           /\ intact' = FALSE
           /\ UNCHANGED foreign

Next == \/ \E i \in Id, v \in Vec : Put(i, v)
        \/ \E i \in Id : Drop(i)
        \/ Replace
        \/ Overlap

Spec == Init /\ [][Next]_vars
=============================================================================
