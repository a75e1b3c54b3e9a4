----------------------------- MODULE MCLibrary ------------------------------
(***************************************************************************)
(* The parts of kb that share no state but the wiki they read, one at a    *)
(* time: a behaviour is one conversation ingested, one context cut, one    *)
(* article parsed, one session served, one query ranked, one lint applied  *)
(* or one glossary built, with the variables of the others at rest.  Their *)
(* steps do not interfere, so to interleave them would show no more.       *)
(***************************************************************************)
EXTENDS Conversations, Excerpts, Sections, McpServer, Ranking, Categories, GlossaryCheck

CONSTANTS e1, e2, e3, s1, s2, a1, a2

vars == <<convVars, excerptVars, sectionVars, serverVars, rankVars, lintVars, glossaryVars>>

Ingests  == ConvInit /\ ExcerptIdle /\ SectionsIdle /\ ServerIdle /\ RankIdle /\ LintIdle /\ GlossaryIdle
Excerpt  == ConvIdle /\ ExcerptInit /\ SectionsIdle /\ ServerIdle /\ RankIdle /\ LintIdle /\ GlossaryIdle
Parses   == ConvIdle /\ ExcerptIdle /\ SectionsInit /\ ServerIdle /\ RankIdle /\ LintIdle /\ GlossaryIdle
Serves   == ConvIdle /\ ExcerptIdle /\ SectionsIdle /\ ServerInit /\ RankIdle /\ LintIdle /\ GlossaryIdle
Ranks    == ConvIdle /\ ExcerptIdle /\ SectionsIdle /\ ServerIdle /\ RankInit /\ LintIdle /\ GlossaryIdle
Lints    == ConvIdle /\ ExcerptIdle /\ SectionsIdle /\ ServerIdle /\ RankIdle /\ LintInit /\ GlossaryIdle
Glossary == ConvIdle /\ ExcerptIdle /\ SectionsIdle /\ ServerIdle /\ RankIdle /\ LintIdle /\ GlossaryInit

LibraryInit == Ingests \/ Excerpt \/ Parses \/ Serves \/ Ranks \/ Lints \/ Glossary

LibraryNext ==
    \/ ConvNext     /\ UNCHANGED <<excerptVars, sectionVars, serverVars, rankVars, lintVars, glossaryVars>>
    \/ ExcerptNext  /\ UNCHANGED <<convVars, sectionVars, serverVars, rankVars, lintVars, glossaryVars>>
    \/ SectionsNext /\ UNCHANGED <<convVars, excerptVars, serverVars, rankVars, lintVars, glossaryVars>>
    \/ ServerNext   /\ UNCHANGED <<convVars, excerptVars, sectionVars, rankVars, lintVars, glossaryVars>>
    \/ RankNext     /\ UNCHANGED <<convVars, excerptVars, sectionVars, serverVars, lintVars, glossaryVars>>
    \/ LintNext     /\ UNCHANGED <<convVars, excerptVars, sectionVars, serverVars, rankVars, glossaryVars>>
    \/ GlossaryNext /\ UNCHANGED <<convVars, excerptVars, sectionVars, serverVars, rankVars, lintVars>>

Spec == LibraryInit /\ [][LibraryNext]_vars

(* A conversation alone, for the run that asks about its decisions.        *)
ConvSpec == Ingests /\ [][ConvNext /\ UNCHANGED <<excerptVars, sectionVars, serverVars, rankVars,
                                                  lintVars, glossaryVars>>]_vars
-----------------------------------------------------------------------------
(* Two names reduce to one id, as "acme corp" and "acme-corp" do.          *)
MCSlug == [e \in {e1, e2, e3} |-> IF e = e3 THEN s2 ELSE s1]

(* Articles: one that always fits, one with a table and an empty section,  *)
(* one with a long title and a block that has to be cut.                   *)
L(n) == [len |-> n, row |-> FALSE]
R(n) == [len |-> n, row |-> TRUE]
Blank == <<L(0)>>
Joined(texts) == FoldLeft(LAMBDA x, y : IF x = <<>> THEN y ELSE x \o Blank \o y, <<>>, texts)
Section(h, b) == [heading |-> h, blocks |-> b,
                  raw |-> Joined((IF h = 0 THEN <<>> ELSE <<<<L(h)>>>>) \o b)]
Composed(title, summary, sections) ==
    [title |-> title, summary |-> summary, secs |-> sections,
     full |-> title + 1 + TextLen(Joined([i \in DOMAIN sections |-> sections[i].raw]))]
Short == Composed(3, 0, <<Section(0, <<<<L(4)>>>>)>>)
Long  == Composed(3, 2, <<Section(0, <<<<L(4)>>>>),
                          Section(4, <<<<L(6), L(3)>>, <<R(3), R(3), R(3), R(3)>>, <<L(2)>>>>),
                          Section(3, <<>>)>>)
Wide  == Composed(8, 3, <<Section(3, <<<<L(5)>>, <<L(9)>>>>), Section(2, <<<<L(7), R(2), R(2), R(2)>>>>)>>)
MCArticles == {Short, Long, Wide}
MCBudgets  == {9, 12, 18, 24, 32} \X {20, 30, 44}

(* Lines a client sends; two scopes, or one named twice.                   *)
Line(m, id, tool, in, ex) == [method |-> m, id |-> id, tool |-> tool, scopes |-> in, exclude |-> ex]
MCMessages ==
    {Line(m, TRUE, "none", <<>>, FALSE) : m \in {"blank", "too long", "garbled", "initialize", "initialized", "other"}}
    \cup {Line("ping", FALSE, "none", <<>>, FALSE), Line("tools/call", FALSE, "kb_show", <<s1>>, FALSE)}
    \cup {Line("tools/call", TRUE, t, <<s1>>, FALSE) :
             t \in {"bad params", "unknown", "kb_show", "kb_glossary", "kb_stats", "kb_list"}}
    \cup {Line("tools/call", TRUE, "kb_search", in, ex) : in \in {<<s1, s2>>, <<s1, s1>>}, ex \in BOOLEAN}
MCTagged == {<<s1, a1>>, <<s2, a2>>}

(* Labels 1 to 3 are forms of one category, 4 and 5 of another.            *)
MCKey   == [l \in 1..5 |-> IF l <= 3 THEN 1 ELSE 2]
MCLists == {<<>>, <<1>>, <<2>>, <<3>>, <<2, 1>>, <<1, 3>>, <<4, 2>>, <<5>>}

(* Glossary sources: two terms, with and without spaces around an alias,   *)
(* a reference, an id of their own, or no frontmatter.                     *)
Word(w, s) == [word |-> w, spaced |-> s]
Source(id, ok, own, term, also, see, x, y) ==
    [base |-> id, parses |-> ok, declared |-> own, term |-> term, aliases |-> also, related |-> see,
     first |-> x, rest |-> y]
MCFiles ==
    {Source(id, TRUE, 0, t, also, <<>>, x, 1) :
        id \in {1, 2}, t \in {NoName, Word("f", FALSE)}, also \in {<<>>, <<Word("f", TRUE), Word("g", FALSE)>>},
        x \in {1, 2}}
    \cup {Source(2, TRUE, own, Word("g", FALSE), <<Word("f", FALSE)>>, <<Word("f", FALSE)>>, 1, 2) : own \in {0, 3}}
    \cup {Source(3, TRUE, 0, Word("g", FALSE), <<>>, <<Word("f", TRUE)>>, 1, 1),
          Source(1, FALSE, 0, NoName, <<>>, <<>>, 1, 1)}
=============================================================================
