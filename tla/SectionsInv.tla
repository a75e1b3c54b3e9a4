----------------------------- MODULE SectionsInv ------------------------------
(***************************************************************************)
(* The invariant behind how an article is split: see RankingProofs.        *)
(***************************************************************************)
EXTENDS Sections

Blocks  == Seq(Seq(Nat))
Split   == [blocks : Blocks, cur : Seq(Nat), fence : BOOLEAN]
Section == [heading : Nat, blocks : Blocks]

SectionTypes ==
    /\ lines \in Seq(Kind) /\ heading \in Nat /\ heading <= Len(lines)
    /\ split \in Split /\ secs \in Seq(Section)
    /\ inFence \in BOOLEAN /\ parsed \in BOOLEAN

Held(s) == LinesIn(s.blocks) \cup ToSet(s.cur)

(* The open section has lines after its heading, the others before it.     *)
SplitInv(s) == BlocksInOrder(s.blocks) /\ Ascending(s.cur) /\ AllBefore(LinesIn(s.blocks), ToSet(s.cur))
PlacesInv ==
    /\ \A l \in SecLines(secs) : l \in 1..heading - 1
    /\ \A l \in Held(split) : l \in heading + 1..Len(lines)

(* How a line of a kind changes the open section: from s to t.             *)
Kept(kind, t) == t.fence \/ kind # "blank"
Took(s, line, kind, t) ==
    /\ t \in Split /\ SplitInv(t)
    /\ t.fence = IF kind = "fence" THEN ~s.fence ELSE s.fence
    /\ Held(t) = Held(s) \cup (IF Kept(kind, t) THEN {line} ELSE {})
    /\ Kept(kind, t) => ToSet(t.cur) = ToSet(s.cur) \cup {line}
    /\ \A j \in DOMAIN s.blocks : \E i \in DOMAIN t.blocks :
          ToSet(s.blocks[j]) \subseteq ToSet(t.blocks[i])
    /\ s.cur # <<>> => \/ ToSet(s.cur) \subseteq ToSet(t.cur)
                       \/ \E i \in DOMAIN t.blocks : ToSet(s.cur) \subseteq ToSet(t.blocks[i])

OpenLines == ({heading} \ {0}) \cup Held(split)

(* A fence is open after an odd number of them, and its lines are in cur.  *)
OpenFence ==
    /\ split.fence = inFence
    /\ inFence <=> Cardinality(FencesUpTo(Len(lines))) % 2 = 1
    /\ inFence => \E o \in DOMAIN lines : /\ Is(o, "fence") /\ \A l \in o + 1..Len(lines) : ~Is(l, "fence")
                                          /\ o..Len(lines) \subseteq ToSet(split.cur)

ReadInv ==
    /\ SecsInOrder(secs) /\ SplitInv(split) /\ PlacesInv /\ OpenFence
    /\ {l \in DOMAIN lines : NotBlank(l)} \subseteq SecLines(secs) \cup OpenLines
    /\ \A f \in Fences : \/ \E i \in DOMAIN secs : WholeIn(f, secs[i].blocks)
                         \/ WholeIn(f, split.blocks) \/ f[1]..f[2] \subseteq ToSet(split.cur)

SectionsInv == SectionTypes /\ (IF parsed THEN ArticlesAreSplitWhole ELSE ReadInv)
=============================================================================
