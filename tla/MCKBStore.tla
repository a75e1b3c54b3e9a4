----------------------------- MODULE MCKBStore ------------------------------
(***************************************************************************)
(* Instances of KBStore in which every title can collide.  Slug 10 is      *)
(* disambiguated first to 11 and 12, the same for all sources, and last to *)
(* 12 + s, the source's own; slug 11 to 20 + s, the source's own at once.  *)
(* Ids 30 and 31 are the ones a glossary file declares.                    *)
(***************************************************************************)
EXTENDS KBStoreInv, TLC

MCAlt == [x \in Id \X Source \X (1..3) |->
            IF x[1] = 10 THEN IF x[3] = 3 THEN 12 + x[2] ELSE 10 + x[3]
            ELSE IF x[1] = 11 THEN 20 + x[2] ELSE x[1]]

ASSUME DistinctAssumption == DistinctIds

NoText == {}

(* Two code files, a label and a text without a source. *)
CodeId      == (10..15) \cup (21..23)
CodeFront   == [c \in Content |-> [id |-> None, ver |-> 1]]
CodeCanHold == {<<1, "a">>, <<1, "b">>, <<2, "c">>}
CodeText    == {<<3, "a">>, <<3, "b">>, <<NoSource, "a">>}

(* One code file and a label, for two processes. *)
OverId      == (10..15) \cup {21, 23}
OverFront   == CodeFront
OverCanHold == {<<1, "a">>, <<1, "b">>}
OverText    == {<<3, "a">>}
OverSymmetry == Permutations(Proc)

(* A code file and a glossary file: g and h declare ids, u does not parse. *)
GlossId      == (10..14) \cup {21, 22, 30, 31}
GlossFront   == [c \in Content |-> [id  |-> CASE c = "g" -> 30 [] c = "h" -> 31 [] OTHER -> None,
                                    ver |-> IF c = "g" THEN 5 ELSE 1]]
GlossCanHold == {<<1, "a">>, <<2, "g">>, <<2, "h">>, <<2, "u">>}

(* The tree is read in one step, when a command starts, so an edit in the  *)
(* middle of a command commutes with the rest of it, and one after the     *)
(* last command is never read: explore the edits before commands only.     *)
EditBetweenCommands == tree' # tree => Quiet /\ commands < MaxCommands
=============================================================================
