------------------------------ MODULE Sections ------------------------------
(***************************************************************************)
(* How the excerpts see an article: sections that start at its headings,   *)
(* and blocks of lines in them (parseContextSections, splitContextBlocks   *)
(* in search/context.go).  A line is known by what it looks like.          *)
(*                                                                         *)
(* The code collects the lines of a section and then splits them; nothing  *)
(* else reads them, and here they are split as they are read.              *)
(***************************************************************************)
EXTENDS Naturals, FiniteSets, SequencesExt

CONSTANT MaxArticleLines  \* bound: lines of an article

ASSUME LinesAssumption == MaxArticleLines \in Nat

Kind == {"text", "blank", "heading", "fence", "item", "row"}

VARIABLES lines,    \* the article, as far as it has been read
          heading,  \* the line of the open section's heading, 0 for none
          split,    \* the blocks of the open section, the last one in cur
          inFence,  \* whether a code fence is open
          secs,     \* the sections that are complete
          parsed    \* whether the end was reached

sectionVars == <<lines, heading, split, inFence, secs, parsed>>
-----------------------------------------------------------------------------
Is(line, kind) == lines[line] = kind
NotBlank(line) == ~Is(line, "blank")

(* splitContextBlocks.  end: the lines of cur become a block; an item that *)
(* follows a list goes on with it.                                         *)
Unsplit == [blocks |-> <<>>, cur |-> <<>>, fence |-> FALSE]

EndBlock(s) ==
    IF s.cur = <<>> THEN s
    ELSE IF s.blocks # <<>> /\ Is(s.cur[1], "item") /\ Is(Last(s.blocks)[1], "item")
    THEN [s EXCEPT !.blocks = [s.blocks EXCEPT ![Len(s.blocks)] = @ \o s.cur], !.cur = <<>>]
    ELSE [s EXCEPT !.blocks = Append(@, s.cur), !.cur = <<>>]

(* Mutant of TakeLine: a blank line ends a block in a fence, too. *)
TakeLineBlind(s, line, kind) ==
    IF kind # "blank" THEN [s EXCEPT !.cur = Append(@, line)] ELSE EndBlock(s)

TakeLine(s, line, kind) ==
    LET fence == IF kind = "fence" THEN ~s.fence ELSE s.fence
        t     == [s EXCEPT !.fence = fence]
    IN  IF fence \/ kind # "blank" THEN [t EXCEPT !.cur = Append(@, line)] ELSE EndBlock(t)

(* flush: the open section is complete, unless there is nothing in it.     *)
Flush == IF heading # 0 \/ \E l \in DOMAIN lines : NotBlank(l)
         THEN Append(secs, [heading |-> heading, blocks |-> EndBlock(split).blocks])
         ELSE secs

SectionsInit == /\ lines = <<>> /\ heading = 0 /\ split = Unsplit /\ inFence = FALSE
                /\ secs = <<>> /\ parsed = FALSE

SectionsIdle == /\ lines = <<>> /\ heading = 0 /\ split = Unsplit /\ inFence = FALSE
                /\ secs = <<>> /\ parsed = TRUE

ReadHeading ==
    /\ ~parsed /\ ~inFence /\ Len(lines) < MaxArticleLines
    /\ lines' = Append(lines, "heading")
    /\ secs' = Flush
    /\ heading' = Len(lines) + 1 /\ split' = Unsplit
    /\ UNCHANGED <<inFence, parsed>>

ReadLine(k) ==
    /\ ~parsed /\ Len(lines) < MaxArticleLines
    /\ k = "heading" => inFence
    /\ lines' = Append(lines, k)
    /\ inFence' = IF k = "fence" THEN ~inFence ELSE inFence
    /\ split' = TakeLine(split, Len(lines) + 1, k)
    /\ UNCHANGED <<heading, secs, parsed>>

ReadEnd ==
    /\ ~parsed
    /\ secs' = Flush /\ parsed' = TRUE
    /\ UNCHANGED <<lines, heading, split, inFence>>

SectionsNext == ReadHeading \/ ReadEnd \/ \E k \in Kind : ReadLine(k)
-----------------------------------------------------------------------------
(* The lines of blocks, of a section and of sections.                      *)
LinesIn(blocks) == UNION {ToSet(blocks[j]) : j \in DOMAIN blocks}
LinesOf(s)      == ({s.heading} \ {0}) \cup LinesIn(s.blocks)
SecLines(S)     == UNION {LinesOf(S[i]) : i \in DOMAIN S}

AllBefore(L, M)  == \A l \in L, m \in M : l < m
Ascending(block) == \A k, m \in DOMAIN block : k < m => block[k] < block[m]
BlocksInOrder(blocks) ==
    /\ \A j \in DOMAIN blocks : Ascending(blocks[j])
    /\ \A j, k \in DOMAIN blocks : j < k => AllBefore(ToSet(blocks[j]), ToSet(blocks[k]))
SecsInOrder(S) ==
    /\ \A i \in DOMAIN S : BlocksInOrder(S[i].blocks) /\ AllBefore({S[i].heading}, LinesIn(S[i].blocks))
    /\ \A i, j \in DOMAIN S : i < j => AllBefore(LinesOf(S[i]), LinesOf(S[j]))

(* Nothing of an article is left out and nothing moves: its sections have  *)
(* its lines, the blank ones aside, each once and in order.                *)
LinesKept ==
    parsed => /\ SecLines(secs) \subseteq DOMAIN lines
              /\ {l \in DOMAIN lines : NotBlank(l)} \subseteq SecLines(secs)
              /\ SecsInOrder(secs)

(* "tables, lists and code fences atomic" (context.go:105): a fence is in  *)
(* one block, with the blank lines and the headings of the code.           *)
FencesUpTo(n) == {l \in 1..n : Is(l, "fence")}
Fences == {f \in (DOMAIN lines) \X (DOMAIN lines) :
             /\ f[1] < f[2] /\ Is(f[1], "fence") /\ Is(f[2], "fence")
             /\ Cardinality(FencesUpTo(f[1])) % 2 = 1
             /\ \A l \in f[1] + 1..f[2] - 1 : ~Is(l, "fence")}
WholeIn(f, blocks) == \E j \in DOMAIN blocks : f[1]..f[2] \subseteq ToSet(blocks[j])
FencesAreWhole ==
    parsed => \A f \in Fences : \E i \in DOMAIN secs : WholeIn(f, secs[i].blocks)

(* Splitting an article neither loses nor breaks anything.                 *)
ArticlesAreSplitWhole == LinesKept /\ FencesAreWhole
=============================================================================
