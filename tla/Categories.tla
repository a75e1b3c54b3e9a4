----------------------------- MODULE Categories -----------------------------
(***************************************************************************)
(* kb lint --normalize-categories --apply: labels that differ only by      *)
(* case, spaces or punctuation are rewritten to the one used most, article *)
(* by article (lint/categories.go, cli/cmd_lint.go).  A save may fail,     *)
(* of an article or of index.json, and the command may die and be run      *)
(* again.                                                                  *)
(***************************************************************************)
EXTENDS Naturals, SequencesExt, FiniteSets, Orders

CONSTANTS Art,           \* articles: numbers, in the order of a listing
          Label,         \* category labels: numbers, shorter and cleaner ones first
          Key,           \* Key[l]: NormalizeCategory(l), 0 for a label without a letter
          CategoryLists, \* the categories an article may have
          MaxRuns,       \* bound: times the command is run
          MaxFailures    \* bound: saves that fail

ASSUME LabelsAssumption == /\ IsFiniteSet(Art) /\ Art \subseteq Nat /\ IsFiniteSet(Label) /\ Label \subseteq Nat
                           /\ Key \in [Label -> Nat] /\ CategoryLists \subseteq Seq(Label)

VARIABLES cats,      \* the categories of the articles on disk
          catIndex,  \* those index.json was built from
          copy,      \* the command's listing
          canonical, \* its choice for each cluster
          pending,   \* the articles it has still to look at
          rewrote,   \* whether it has saved any
          lint,      \* "idle", "rewrite" or "save"
          outcome,   \* of the last run: "clean", "failed" (to save an article),
                     \* "noIndex" (to save index.json) or "died"
          promised,  \* history: the choices of the first run
          behind,    \* history: a run saved an article but not index.json after
                     \* it, and no run has saved that since
          runs, failures

lintVars == <<cats, catIndex, copy, canonical, pending, rewrote, lint, outcome,
              promised, behind, runs, failures>>
-----------------------------------------------------------------------------
(* ClusterCategories: how often each label of a key is used; a cluster is  *)
(* noisy if it has several.                                                *)
Uses(c, l)      == Cardinality(UNION {{a} \X {i \in DOMAIN c[a] : c[a][i] = l} : a \in Art})
Variants(c, k)  == {l \in Label : Key[l] = k /\ \E a \in Art : l \in ToSet(c[a])}
NoisyKeys(c)    == {k \in {Key[l] : l \in Label} \ {0} : Cardinality(Variants(c, k)) > 1}

(* Mutant of PickCanonical: sorts by ascending count. *)
PickCanonicalRarest(c, k) ==
    CHOOSE l \in Variants(c, k) : \A m \in Variants(c, k) :
        Uses(c, l) < Uses(c, m) \/ (Uses(c, l) = Uses(c, m) /\ l <= m)

(* PickCanonical: the most used, then the shortest and cleanest.           *)
PickCanonical(c, k) ==
    CHOOSE l \in Variants(c, k) : \A m \in Variants(c, k) :
        Uses(c, l) > Uses(c, m) \/ (Uses(c, l) = Uses(c, m) /\ l <= m)

(* buildRewriteMap                                                         *)
Replacement(l) == IF Key[l] \in DOMAIN canonical THEN canonical[Key[l]] ELSE l

(* Two labels may collapse into one: it stays where it came first.         *)
Rewritten(s) ==
    LET r     == [i \in DOMAIN s |-> Replacement(s[i])]
        first == {i \in DOMAIN s : \A j \in 1..i - 1 : r[j] # r[i]}
    IN  {[i \in DOMAIN k |-> r[k[i]]] : k \in InOrder(first)}

Nothing == [a \in {} |-> <<>>]

LintStart(c) ==
    /\ cats = c /\ catIndex = c /\ copy = Nothing /\ canonical = Nothing /\ pending = {}
    /\ rewrote = FALSE /\ lint = "idle" /\ outcome = "clean" /\ promised = Nothing
    /\ behind = FALSE /\ failures = 0
LintInit == \E c \in [Art -> CategoryLists] : LintStart(c) /\ runs = 0
LintIdle == LintStart([a \in Art |-> <<>>]) /\ runs = MaxRuns

(* A run that finds no label in two forms says so and returns: it saves    *)
(* nothing, index.json neither.                                            *)
FindNoVariants ==
    /\ lint = "idle" /\ runs < MaxRuns
    /\ NoisyKeys(cats) = {}
    /\ runs' = runs + 1 /\ rewrote' = FALSE /\ outcome' = "clean"
    /\ UNCHANGED <<cats, catIndex, copy, canonical, pending, lint, promised, behind, failures>>

(* Any other goes on to rewrite, and with --json every one does.           *)
BeginLint ==
    /\ lint = "idle" /\ runs < MaxRuns
    /\ copy' = cats
    /\ canonical' = [k \in NoisyKeys(cats) |-> PickCanonical(cats, k)]
    /\ promised' = IF runs = 0 THEN canonical' ELSE promised
    /\ pending' = Art /\ rewrote' = FALSE /\ outcome' = "clean"
    /\ lint' = "rewrite" /\ runs' = runs + 1
    /\ UNCHANGED <<cats, catIndex, behind, failures>>

(* ApplyCanonical: an article is saved if its categories change, as it was *)
(* when it was listed; if that fails the command goes on.                  *)
Rewrite(a) ==
    /\ lint = "rewrite" /\ a \in pending /\ \A b \in pending : a <= b
    /\ pending' = pending \ {a}
    /\ \E s \in Rewritten(copy[a]) :
          \/ s = copy[a] /\ UNCHANGED <<cats, copy, rewrote, outcome, failures>>
          \/ /\ s # copy[a] /\ copy' = [copy EXCEPT ![a] = s]
             /\ \/ cats' = [cats EXCEPT ![a] = s] /\ rewrote' = TRUE /\ UNCHANGED <<outcome, failures>>
                \/ /\ failures < MaxFailures /\ failures' = failures + 1
                   /\ outcome' = "failed" /\ UNCHANGED <<cats, rewrote>>
    /\ UNCHANGED <<catIndex, canonical, lint, promised, behind, runs>>

(* Mutant of ListAgain: the index is rebuilt from the articles in memory. *)
ListAgainNot ==
    /\ lint = "rewrite" /\ pending = {}
    /\ lint' = IF rewrote THEN "save" ELSE "idle"
    /\ UNCHANGED <<cats, catIndex, copy, canonical, pending, rewrote, outcome, promised, behind, runs, failures>>

(* If one was saved, index.json is rebuilt from a new listing.             *)
ListAgain ==
    /\ lint = "rewrite" /\ pending = {}
    /\ lint' = IF rewrote THEN "save" ELSE "idle"
    /\ copy' = IF rewrote THEN cats ELSE copy
    /\ UNCHANGED <<cats, catIndex, canonical, pending, rewrote, outcome, promised, behind, runs, failures>>

SaveCategories ==
    /\ lint = "save"
    /\ catIndex' = copy /\ behind' = FALSE /\ lint' = "idle"
    /\ UNCHANGED <<cats, copy, canonical, pending, rewrote, outcome, promised, runs, failures>>

(* SaveIndex fails: a warning.                                             *)
IndexFails ==
    /\ lint = "save" /\ failures < MaxFailures
    /\ failures' = failures + 1 /\ outcome' = "noIndex" /\ behind' = TRUE /\ lint' = "idle"
    /\ UNCHANGED <<cats, catIndex, copy, canonical, pending, rewrote, promised, runs>>

LintDies ==
    /\ lint # "idle" /\ lint' = "idle"
    /\ outcome' = "died" /\ behind' = (behind \/ rewrote)
    /\ UNCHANGED <<cats, catIndex, copy, canonical, pending, rewrote, promised, runs, failures>>

LintNext == \/ FindNoVariants \/ BeginLint \/ ListAgain \/ SaveCategories \/ IndexFails \/ LintDies
            \/ \E a \in Art : Rewrite(a)
-----------------------------------------------------------------------------
(* What --apply is for: a run that neither failed nor died itself leaves   *)
(* no label in two forms, whatever runs failed or died before it.          *)
NoVariantsLeft ==
    lint = "idle" /\ runs > 0 /\ outcome = "clean" => NoisyKeys(cats) = {}

(* A run that saved an article and ended in order leaves index.json with   *)
(* the categories of all articles, those it could not save and those of a  *)
(* run that died before it included; one that saves nothing leaves it as   *)
(* it was.  So it is behind from a run that saved an article and then died *)
(* or could not save the index until another run saves both: a run that    *)
(* finds nothing to rewrite does not rebuild it, and ends clean with an    *)
(* index that is behind.                                                   *)
IndexHasCategories ==
    lint = "idle" =>
        /\ rewrote /\ outcome \in {"clean", "failed"} => catIndex = cats
        /\ ~behind => catIndex = cats

(* A run that repeats one that died finishes what that had begun: a        *)
(* cluster that is left over is rewritten to the same label.  (If no       *)
(* article has a label twice: a label counts as often as it is listed, not *)
(* by "article count" (categories.go:43), and a rewrite drops repetitions, *)
(* so that what was used most may not be so afterwards.)                   *)
RerunAgrees ==
    lint = "rewrite" =>
        \A k \in DOMAIN canonical \cap DOMAIN promised : canonical[k] = promised[k]

(* A run does what it is for in the articles, and in the index as far as   *)
(* IndexHasCategories says.                                                *)
RunIsComplete == NoVariantsLeft /\ IndexHasCategories
=============================================================================
