--------------------------- MODULE GlossaryCheck ----------------------------
(***************************************************************************)
(* The checks of the domain glossary: what kb build reads from its files,  *)
(* what kb glossary show finds, what kb glossary validate reports and the  *)
(* contradiction scan of both (glossary/glossary.go,                       *)
(* contradiction/contradiction.go).                                        *)
(*                                                                         *)
(* A name is known by its lower-cased word and by whether it has spaces    *)
(* around it; a definition by its first sentence and the rest of it.       *)
(***************************************************************************)
EXTENDS Naturals, FiniteSets, SequencesExt, Orders

CONSTANTS EntryId,   \* ids of glossary articles, numbers in their order
          Files,     \* glossary sources: see File
          MaxBuilt   \* bound: sources a build reads

NoWord == "(empty)"
NoName == [word |-> NoWord, spaced |-> FALSE]

(* A source: the id its name gives it, whether its frontmatter parses, the *)
(* id declared there (0 for none), and what it says.                       *)
File == [base : EntryId, parses : BOOLEAN, declared : EntryId \cup {0}, term : [word : STRING, spaced : BOOLEAN],
         aliases : Seq([word : STRING, spaced : BOOLEAN]), related : Seq([word : STRING, spaced : BOOLEAN]),
         first : Nat, rest : Nat]

ASSUME FilesAssumption == EntryId \subseteq Nat /\ Files \subseteq File

VARIABLES entry,     \* the glossary articles of the scope, by id
          fresh,     \* the entries this build has saved, in order
          scanned    \* whether it has come to its scan

glossaryVars == <<entry, fresh, scanned>>
Entries == DOMAIN entry
-----------------------------------------------------------------------------
(* ParseSource                                                             *)
IdOf(f) == IF f.declared # 0 THEN f.declared ELSE f.base
ParseSource(f) == [id |-> IdOf(f), term |-> f.term, aliases |-> f.aliases, related |-> f.related,
                   first |-> f.first, rest |-> f.rest]

(* A source that does not parse is kept as it is: an entry without a name. *)
Fallback(f) == [id |-> f.base, term |-> NoName, aliases |-> <<>>, related |-> <<>>,
                first |-> f.first, rest |-> f.rest]
Built(f) == IF f.parses THEN ParseSource(f) ELSE Fallback(f)

NamesOf(e) == <<e.term>> \o e.aliases
AliasesOf(i) == ToSet(entry[i].aliases) \ {NoName}

(* Lookup (Show): the first article with the term or an alias, in the order of ids; *)
(* only what is asked for is trimmed.                                      *)
Matches(i, word) == [word |-> word, spaced |-> FALSE] \in ToSet(NamesOf(entry[i]))
Lookup(word) == {i \in Entries : Matches(i, word) /\ \A j \in Entries : Matches(j, word) => i <= j}

(* Validate: two articles with one term, or with one alias; an alias that  *)
(* is the term of another; a reference to a name nobody has.               *)
TermOwners(n) == {i \in Entries : n # NoName /\ entry[i].term = n}
FirstOf(s)    == {i \in s : \A j \in s : i <= j}

DuplicateTerms   == {d \in Entries \X Entries :
                       d[1] \in FirstOf(TermOwners(entry[d[2]].term)) /\ d[1] # d[2]}
DuplicateAliases == {d \in Entries \X Entries :
                       d[1] < d[2] /\ AliasesOf(d[1]) \cap AliasesOf(d[2]) # {}}

(* Mutant of Collisions: only looks at the articles before. *)
CollisionsBefore ==
    {d \in Entries \X Entries :
        d[2] < d[1] /\ \E n \in AliasesOf(d[1]) : d[2] \in FirstOf(TermOwners(n))}

Collisions == {d \in Entries \X Entries :
                 d[1] # d[2] /\ \E n \in AliasesOf(d[1]) : d[2] \in FirstOf(TermOwners(n))}

Known    == UNION {ToSet(NamesOf(entry[i])) : i \in Entries}
Dangling == {i \in Entries : ~ (ToSet(entry[i].related) \subseteq Known \cup {NoName})}
-----------------------------------------------------------------------------
(* Detect.  definitionKey: strict compares the first sentence.             *)
DefinitionKey(c, mode) == IF mode = "loose" THEN <<c.first, c.rest>> ELSE <<c.first>>

Claims(c, word) == word # NoWord /\ \E n \in ToSet(NamesOf(c)) : n.word = word

(* Mutant of Members: a source counts as often as it comes. *)
MembersTwice(cands, word) == {k \in DOMAIN cands : Claims(cands[k], word)}

(* The candidates that claim a word, as term or alias, with spaces or      *)
(* without, by their places: each source once, as it comes first.          *)
Members(cands, word) ==
    {k \in DOMAIN cands : /\ Claims(cands[k], word)
                          /\ \A j \in 1..k - 1 : Claims(cands[j], word) => cands[j].id # cands[k].id}

Words == {n.word : n \in UNION {ToSet(NamesOf(f)) : f \in Files}} \ {NoWord}
Detect(cands, mode) ==
    {[word |-> w, sources |-> {cands[k].id : k \in Members(cands, w)}, count |-> Cardinality(Members(cands, w))] :
        w \in {v \in Words : \E k, l \in Members(cands, v) :
                                 DefinitionKey(cands[k], mode) # DefinitionKey(cands[l], mode)}}

(* CandidatesFromArticles, of the listing: all of kb glossary validate, and *)
(* what a build has after those it compiled.                               *)
Listings == {[i \in DOMAIN k |-> entry[k[i]]] : k \in InOrder(Entries)}
BuildCandidates(listing) == fresh \o listing

Clean == /\ DuplicateTerms = {} /\ DuplicateAliases = {} /\ Collisions = {} /\ Dangling = {}
         /\ \A listing \in Listings : Detect(listing, "strict") = {}
-----------------------------------------------------------------------------
GlossaryInit == entry = [i \in {} |-> NoName] /\ fresh = <<>> /\ scanned = FALSE
GlossaryIdle == entry = [i \in {} |-> NoName] /\ fresh = <<>> /\ scanned = TRUE

(* A build saves what its glossary sources say; a second source with the   *)
(* same id overwrites the first.  Only an entry without a name makes way   *)
(* for one that was saved before it.  (What a source leaves behind under   *)
(* an older id is retired: see KBStore.)                                   *)
SaveEntry(f) ==
    LET e == Built(f) IN
    /\ ~scanned /\ Len(fresh) < MaxBuilt
    /\ ~f.parses => \A k \in DOMAIN fresh : fresh[k].id # e.id
    /\ entry' = [i \in Entries \cup {e.id} |-> IF i = e.id THEN e ELSE entry[i]]
    /\ fresh' = Append(fresh, e)
    /\ UNCHANGED scanned

Scan == ~scanned /\ scanned' = TRUE /\ UNCHANGED <<entry, fresh>>

(* The next build finds what this one has left.                            *)
BuildAgain == scanned /\ fresh # <<>> /\ fresh' = <<>> /\ scanned' = FALSE /\ UNCHANGED entry

GlossaryNext == Scan \/ BuildAgain \/ \E f \in Files : SaveEntry(f)
-----------------------------------------------------------------------------
(* "An empty slice + nil error means the glossary is clean"                *)
(* (glossary.go:199): then a name leads to one article, and a reference    *)
(* that kb glossary show can spell leads to some article.                  *)
CleanNamesResolve ==
    Clean => /\ \A w \in Words : Cardinality({i \in Entries : Matches(i, w)}) <= 1
             /\ \A i \in Entries : \A n \in ToSet(entry[i].related) \ {NoName} :
                    ~n.spaced => Lookup(n.word) # {}

(* "The per-results pass is thus redundant with allArticles for the        *)
(* distinct-id case" (cmd_build.go:301): then what a build reports is what *)
(* "kb glossary validate re-lists" (cmd_build.go:346).  When two sources   *)
(* of one build share an id, the pass is no no-op: the overwritten         *)
(* definition, seen first, stands for the article in the comparison.       *)
DistinctIds == \A k, l \in DOMAIN fresh : k # l => fresh[k].id # fresh[l].id

BuildReportsWhatValidateDoes ==
    scanned /\ DistinctIds => \A mode \in {"strict", "loose"}, listing \in Listings :
                                  Detect(BuildCandidates(listing), mode) = Detect(listing, mode)
=============================================================================
