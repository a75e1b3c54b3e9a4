------------------------------ MODULE Excerpts ------------------------------
(***************************************************************************)
(* kb search --context: each ranked article is put in whole if it fits the *)
(* budget, else as an excerpt made of the sections and blocks that match   *)
(* the query best (search/context.go).                                     *)
(*                                                                         *)
(* Text is known by its length in bytes.  What a unit scores, and where a  *)
(* line is cut, depends on its words: any score and any cut is possible.   *)
(***************************************************************************)
EXTENDS Integers, FiniteSets, SequencesExt, FiniteSetsExt, Sums

CONSTANTS Articles,    \* the articles search may rank
          Budgets,     \* pairs <<perArticle, totalCap>>
          Score,       \* the scores of a unit, 0 for no match
          Skip,        \* len(contextSkip): marks what an excerpt leaves out
          Separator,   \* len(contextSeparator): between two articles
          Ellipsis,    \* len("..."), what a cut leaves
          MinExcerpt,  \* minContextExcerpt
          MaxRanked    \* bound: the articles ranked

(* An article has a title, a summary, its full length and sections.  A     *)
(* section has a heading (0 for none), its whole text and its blocks.  A   *)
(* text is its lines, of which some are the rows of a table.               *)
TextLine    == [len : Nat, row : BOOLEAN]
Text        == Seq(TextLine) \ {<<>>}
SectionText == [heading : Nat, raw : Text, blocks : Seq(Text)]
ArticleText == [title : Nat, summary : Nat, full : Nat, secs : Seq(SectionText)]

ASSUME ArticlesAssumption == Articles \subseteq ArticleText /\ MaxRanked \in Nat /\ Score \subseteq Nat
ASSUME MarksAssumption    == {Separator, Ellipsis, MinExcerpt} \subseteq Nat /\ Skip \in Nat /\ Skip >= 2
(* flagInt takes a positive number or falls back to the default.           *)
ASSUME BudgetsAssumption  == Budgets \subseteq (Nat \ {0}) \X (Nat \ {0})

VARIABLES ranked, perArticle, totalCap,  \* the query's results and limits
          rank,                          \* the article in the works
          budget, units, score,          \* its budget, its units and what they score
          chosen, used,                  \* the pieces taken, and what they cost
          todo,                          \* the units still to be tried
          stage,                         \* "rank", "choose", "fill", "head" or "write"
          parts                          \* the blocks of context built so far

request    == <<ranked, perArticle, totalCap>>
excerptVars == <<request, rank, budget, units, score, chosen, used, todo, stage, parts>>
-----------------------------------------------------------------------------
(* Lines are joined by a byte.                                             *)
TextLen(lines) == SumOf([i \in DOMAIN lines |-> lines[i].len], DOMAIN lines)
                  + (IF lines = <<>> THEN 0 ELSE Len(lines) - 1)

(* The summary is part of the head if it takes at most a quarter.          *)
HasSummary(a, b) == a.summary > 0 /\ a.summary + 1 <= b \div 4
HeadLen(a, b) == a.title + 1 + (IF HasSummary(a, b) THEN a.summary + 1 ELSE 0) + 1

article == ranked[rank]
avail   == budget - HeadLen(article, budget)

(* Units: a section (block 0) if it can fit at all, else each block of it. *)
UnitsOf(i, room) ==
    IF TextLen(article.secs[i].raw) <= room \/ article.secs[i].blocks = <<>>
    THEN {[sec |-> i, blk |-> 0]}
    ELSE {[sec |-> i, blk |-> j] : j \in DOMAIN article.secs[i].blocks}
UnitsIn(room) == UNION {UnitsOf(i, room) : i \in DOMAIN article.secs}

TextOf(u)  == IF u.blk = 0 THEN article.secs[u.sec].raw ELSE article.secs[u.sec].blocks[u.blk]
Heading(u) == IF u.blk = 0 THEN 0 ELSE article.secs[u.sec].heading

(* Document order, and whether nothing is between two units.               *)
Earlier(u, v)  == u.sec < v.sec \/ (u.sec = v.sec /\ u.blk < v.blk)
Adjacent(u, v) == \/ v.sec = u.sec /\ v.blk = u.blk + 1
                  \/ /\ v.sec = u.sec + 1 /\ v.blk <= 1
                     /\ u.blk \in {0, Len(article.secs[u.sec].blocks)}
-----------------------------------------------------------------------------
(* contextTrimBlock: the longest run of whole lines that leaves room for a *)
(* mark, without a table that has lost all of its rows; failing that, a    *)
(* part of the first line.                                                 *)
TableTail(lines, n) == n - Max({k \in 0..n : k = 0 \/ ~lines[k].row})

KeptLines(lines, room) == Max({k \in 0..Len(lines) :
                            k = 0 \/ TextLen(SubSeq(lines, 1, k)) <= room - Ellipsis - 1})

Whole(lines, room) ==
    LET n == KeptLines(lines, room)
    IN  IF TableTail(lines, n) \in 1..2 THEN n - TableTail(lines, n) ELSE n

(* The pieces a unit may be trimmed to: {} if there is no room for any.    *)
Piece(len, rows, cut) == [len |-> len, rows |-> rows, cut |-> cut]
Trimmed(lines, room) ==
    LET n == Whole(lines, room)
    IN  IF TextLen(lines) <= room
            THEN {Piece(TextLen(lines), TableTail(lines, Len(lines)), FALSE)}
        ELSE IF n > 0
            THEN {Piece(TextLen(SubSeq(lines, 1, n)) + Ellipsis + 1, TableTail(lines, n), TRUE)}
        ELSE IF lines[1].row \/ room <= Ellipsis THEN {}
        ELSE {Piece(c + Ellipsis, 0, TRUE) : c \in 0..Min({lines[1].len, room - Ellipsis})}

Taken  == {c.unit : c \in chosen}
Headed == {u.sec : u \in {v \in Taken : v.blk > 0}}

(* An upper bound of what a unit costs beside its text.                    *)
Overhead(u) == (IF chosen = {} THEN 0 ELSE Skip)
               + (IF u.sec \in Headed \/ Heading(u) = 0 THEN 0 ELSE Heading(u) + Skip)

(* add: what may be emitted of unit u; with trim a part of it will do.     *)
Fits(u, trim) == {p \in Trimmed(TextOf(u), avail - used - Overhead(u)) : ~p.cut \/ trim}

Add(u, trim) ==
    IF Fits(u, trim) = {}
    THEN UNCHANGED <<chosen, used>>
    ELSE \E p \in Fits(u, trim) :
            /\ chosen' = chosen \cup {[unit |-> u, piece |-> p]}
            /\ used' = used + Overhead(u) + p.len

(* What the pieces take in document order, with a blank line or a mark     *)
(* between two, and the heading before the first block of a section.       *)
Before(c) == {d \in chosen : Earlier(d.unit, c.unit)}
Prev(c)   == CHOOSE d \in Before(c) : \A e \in Before(c) \ {d} : Earlier(e.unit, d.unit)

Gap(c)  == IF Before(c) = {} THEN 0 ELSE IF Adjacent(Prev(c).unit, c.unit) THEN 2 ELSE Skip
Intro(c) == IF Heading(c.unit) = 0 \/ (Before(c) # {} /\ Prev(c).unit.sec = c.unit.sec) THEN 0
            ELSE Heading(c.unit) + (IF c.unit.blk = 1 THEN 2 ELSE Skip)
BodyLen == SumOf([c \in chosen |-> c.piece.len + Gap(c) + Intro(c)], chosen)
-----------------------------------------------------------------------------
(* Where the context built so far ends, separators counted.                *)
Total == IF parts = <<>> THEN 0 ELSE parts[Len(parts)].end

(* Mutant of Budget: the separator is not counted against the total. *)
BudgetNoSeparator ==
    Min({perArticle, totalCap - Total})

Budget ==
    Min({perArticle, IF rank = 1 THEN totalCap ELSE totalCap - Total - Separator})

ExcerptStart(results, limits) ==
    /\ ranked = results /\ perArticle = limits[1] /\ totalCap = limits[2]
    /\ rank = 1 /\ budget = 0 /\ units = {} /\ score = <<>>
    /\ chosen = {} /\ used = 0 /\ todo = {} /\ stage = "rank" /\ parts = <<>>

ExcerptInit == \E n \in 0..MaxRanked : \E results \in [1..n -> Articles], limits \in Budgets :
                   ExcerptStart(results, limits)
ExcerptIdle == ExcerptStart(<<>>, <<0, 0>>)

(* The block of the article is done.                                       *)
Emit(len, b) ==
    /\ parts' = Append(parts, [rank |-> rank, len |-> len, budget |-> b,
                               end |-> (IF parts = <<>> THEN 0 ELSE Total + Separator) + len])
    /\ rank' = rank + 1 /\ stage' = "rank"
    /\ budget' = 0 /\ units' = {} /\ score' = <<>> /\ chosen' = {} /\ used' = 0 /\ todo' = {}
    /\ UNCHANGED request

(* Once nothing is left of the total the other results are not looked at;  *)
(* if little is left, only an article that fits whole is.                  *)
SkipArticle ==
    /\ stage = "rank" /\ rank \in 2..Len(ranked)
    /\ \/ Budget <= 0 /\ rank' = Len(ranked) + 1
       \/ /\ Budget > 0 /\ Budget < MinExcerpt /\ article.full > Budget
          /\ rank' = rank + 1
    /\ UNCHANGED <<request, budget, units, score, chosen, used, todo, stage, parts>>

Admitted ==
    /\ stage = "rank" /\ rank \in DOMAIN ranked
    /\ rank = 1 \/ (Budget > 0 /\ (Budget >= MinExcerpt \/ article.full <= Budget))

(* Articles that need no excerpt: whole, no more than a part of its title, *)
(* or no more than its title and summary.                                  *)
EmitWhole == Admitted /\ article.full <= Budget /\ Emit(article.full, Budget)
EmitTitle == /\ Admitted /\ article.full > Budget /\ article.title + 1 >= Budget
             /\ \E len \in IF article.title <= Budget THEN {article.title} ELSE 1..Budget :
                    Emit(len, Budget)
Excerpted == Admitted /\ article.full > Budget /\ article.title + 1 < Budget
NoBody    == article.secs = <<>> \/ HeadLen(article, Budget) >= Budget
EmitHead  == Excerpted /\ NoBody /\ Emit(HeadLen(article, Budget) - 2, Budget)

(* The units that match are tried; if none does, all of them are.          *)
StartExcerpt ==
    /\ Excerpted /\ ~NoBody
    /\ budget' = Budget
    /\ units' = UnitsIn(Budget - HeadLen(article, Budget))
    /\ score' \in [units' -> Score]
    /\ todo' = IF \E u \in units' : score'[u] > 0 THEN {u \in units' : score'[u] > 0} ELSE units'
    /\ stage' = IF \E u \in units' : score'[u] > 0 THEN "choose" ELSE "head"
    /\ UNCHANGED <<request, rank, chosen, used, parts>>

(* From the best to the worst, in document order if they are as good.      *)
(* Only the best unit may be cut to fit.                                   *)
TryBest ==
    /\ stage = "choose"
    /\ \E u \in todo :
          /\ \A v \in todo \ {u} : score[u] > score[v] \/ (score[u] = score[v] /\ Earlier(u, v))
          /\ Add(u, chosen = {})
          /\ todo' = todo \ {u}
    /\ UNCHANGED <<request, rank, budget, units, score, stage, parts>>

(* Then the other blocks of the sections that blocks were taken from.      *)
StartFill ==
    /\ stage = "choose" /\ todo = {}
    /\ todo' = {u \in units \ Taken : u.blk > 0 /\ u.sec \in Headed}
    /\ stage' = "fill"
    /\ UNCHANGED <<request, rank, budget, units, score, chosen, used, parts>>

IsNext(u) == u \in todo /\ \A v \in todo \ {u} : Earlier(u, v)

TryRest ==
    /\ stage = "fill"
    /\ \E u \in todo : IsNext(u) /\ Add(u, TRUE) /\ todo' = todo \ {u}
    /\ UNCHANGED <<request, rank, budget, units, score, stage, parts>>

(* Nothing matches: the article's head, up to the first unit that is cut.  *)
TryHead ==
    /\ stage = "head"
    /\ \E u \in todo :
          /\ IsNext(u) /\ Add(u, TRUE)
          /\ todo' = IF \E p \in Fits(u, TRUE) : ~p.cut THEN todo \ {u} ELSE {}
    /\ UNCHANGED <<request, rank, budget, units, score, stage, parts>>

(* The pieces are written in document order; a text over budget would be   *)
(* cut once more.                                                          *)
Write ==
    /\ stage \in {"fill", "head"} /\ todo = {}
    /\ Emit(IF chosen = {} THEN HeadLen(article, budget) - 2
            ELSE Min({HeadLen(article, budget) + BodyLen, budget}), budget)

ExcerptNext == \/ SkipArticle \/ EmitWhole \/ EmitTitle \/ EmitHead
               \/ StartExcerpt \/ TryBest \/ StartFill \/ TryRest \/ TryHead \/ Write
-----------------------------------------------------------------------------
(* "defensive: the cost bounds above should prevent this" (context.go:251):*)
(* what has been chosen fits the budget as it will be written.             *)
CostBoundsHold == BodyLen <= used /\ (units # {} => used <= avail)

(* "within the per-article and total budgets" (context.go:67): so is the   *)
(* context.  The summary counts a quarter of the budget whatever the title *)
(* has left of it: a title that leaves less is the exception.              *)
Overlong(p) == HasSummary(ranked[p.rank], p.budget) /\ HeadLen(ranked[p.rank], p.budget) > p.budget

ContextFits ==
    (\A i \in DOMAIN parts : ~Overlong(parts[i])) =>
        /\ \A i \in DOMAIN parts : parts[i].len <= Min({parts[i].budget, perArticle})
        /\ Total <= totalCap

(* "a table is kept only with its header, separator and at least one row"  *)
(* (context.go:422): what is cut does not end in less of a table.          *)
TablesKeepARow == \A c \in chosen : c.piece.cut => c.piece.rows \notin 1..2

(* An excerpt is what its budget lets it be, and is cut where it may be.   *)
ExcerptsAreSound == CostBoundsHold /\ ContextFits /\ TablesKeepARow
=============================================================================
