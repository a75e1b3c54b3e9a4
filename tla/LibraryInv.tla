----------------------------- MODULE LibraryInv -----------------------------
(***************************************************************************)
(* The invariants behind what the parts of the library promise, for each   *)
(* part by itself: see LibraryProofs.                                      *)
(***************************************************************************)
EXTENDS Conversations, McpServer, GlossaryCheck, Categories

(***************************************************************************)
(* The server.                                                             *)
(***************************************************************************)
Listing == Seq(Scope \X Name)
Call    == [tool : Tools, scopes : Seq(Scope), exclude : BOOLEAN,
            step : {"start", "rank", "define", "count"},
            todo : Seq(Scope) \cup Listing, listed : Listing, owners : Seq(Scope)]

(* A tool call in the works is the last line's.  kb_search keeps the       *)
(* scopes it still has to list, and beside each article its scope.         *)
CallOK(c) ==
    /\ c \in Call
    /\ now > 0 /\ received[now].method = "tools/call" /\ received[now].id
    /\ received[now].tool = c.tool
    /\ c.tool # "kb_search" => Len(c.scopes) = 1
    /\ c.step = "define" => c.tool = "kb_glossary" /\ c.todo \in Listing
    /\ c.step = "count" => c.tool = "kb_stats"
    /\ c.tool = "kb_search" => /\ c.todo \in Seq(Scope)
                               /\ Len(c.owners) = Len(c.listed)
                               /\ \A i \in 1..Len(c.listed) : c.owners[i] = c.listed[i][1]

CallInv == call = NoCall \/ CallOK(call)

ServerTypes ==
    /\ stored \in SUBSET (Scope \X Name) /\ concept \in SUBSET (Scope \X Name)
    /\ received \in Seq(Messages)
    /\ answers \in Seq(ToSet(answers)) /\ \A k \in DOMAIN answers : answers[k].to \in 0..now

ServerInv == ServerTypes /\ CallInv /\ AnsweredInOrder /\ ResultsKeepTheirScope

(***************************************************************************)
(* The conversation.                                                       *)
(***************************************************************************)
(* Clusters are numbered as they start.  A cluster whose passes have ended *)
(* shares no name with any other turn; no set that shares none parts any   *)
(* cluster.  While a pass has added no turn, none it has looked at shares  *)
(* a name with the cluster in the making.                                  *)
Newest == Cardinality(Clusters)

ClusterTypes ==
    /\ messages \in Seq(Utterance) /\ cluster \in [Turns -> Nat] /\ Clusters = 1..Newest
    /\ visit \in 0..Cardinality(Turns) + 1 /\ grew \in BOOLEAN

Undivided ==
    \A S \in SUBSET Turns : Apart(S) => \A c \in Clusters : TurnsOf(c) \subseteq S \/ TurnsOf(c) \cap S = {}

EndedApart == \A c \in Clusters : visit = 0 \/ c # Newest => Apart(TurnsOf(c))

PassInv ==
    visit # 0 => /\ Newest > 0
                 /\ shared = UNION {Names(t) : t \in TurnsOf(Newest)}
                 /\ ~grew => \A t \in Turns : t < visit /\ cluster[t] = 0 => shared \cap Names(t) = {}

AllClustered == ingested # "clustering" => visit = 0 /\ Unassigned = {}

ClusterInv == ClusterTypes /\ Undivided /\ EndedApart /\ PassInv /\ AllClustered

SizeAt(a) == Cardinality(convWiki[a].turns)

(* A turn's cluster is still to be saved, or an article no larger than it  *)
(* has an id of its; every article is that of a cluster, under one of its  *)
(* ids, and no smaller than those that are still to be saved.              *)
SavedInv ==
    /\ ingested \in {"clustering", "saving", "done"}
    /\ ingested = "clustering" => DOMAIN convWiki = {}
    /\ ingested = "done" => DOMAIN label = {}
    /\ ingested # "clustering" =>
          /\ \A c \in DOMAIN label : c \in Clusters /\ label[c] \in Labels(c)
          /\ \A t \in Turns :
                \/ cluster[t] \in DOMAIN label
                \/ \E a \in IdsOf(t) \cap DOMAIN convWiki : SizeAt(a) <= Cardinality(TurnsOf(cluster[t]))
          /\ \A a \in DOMAIN convWiki, c \in DOMAIN label : Cardinality(TurnsOf(c)) <= SizeAt(a)
    /\ \A a \in DOMAIN convWiki : \E t \in Turns : a \in IdsOf(t) /\ convWiki[a] = Article(cluster[t])

ConvInv == ClusterInv /\ SavedInv /\ format \in Format

(***************************************************************************)
(* The glossary.                                                           *)
(***************************************************************************)
(* An entry says what some source says.                                    *)
EntriesInv ==
    \A i \in Entries : i \in EntryId /\ \E f \in Files : entry[i] = Built(f)

(* An article has the id it is found by.  What a build has saved is there, *)
(* as it was saved if no two of its sources share an id.                   *)
BuildInv ==
    /\ IsFiniteSet(Entries) /\ \A i \in Entries : entry[i].id = i
    /\ fresh \in Seq({Built(f) : f \in Files})
    /\ \A k \in DOMAIN fresh : fresh[k].id \in Entries /\ (DistinctIds => entry[fresh[k].id] = fresh[k])

(***************************************************************************)
(* The categories.                                                         *)
(***************************************************************************)
LintTypes ==
    /\ cats \in [Art -> Seq(Label)] /\ pending \subseteq Art
    /\ runs \in Nat /\ failures \in Nat /\ rewrote \in BOOLEAN /\ behind \in BOOLEAN
    /\ lint \in {"idle", "rewrite", "save"} /\ outcome \in {"clean", "failed", "noIndex", "died"}
    /\ lint # "idle" => outcome \in {"clean", "failed"}

(* A run has the articles it has not looked at as they are, and all of     *)
(* them unless a save failed.  What it has looked at has its choices only; *)
(* no other key has several labels.                                        *)
RewriteInv ==
    lint = "rewrite" =>
        /\ copy \in [Art -> Seq(Label)] /\ canonical \in [DOMAIN canonical -> Label]
        /\ \A k \in DOMAIN canonical : Key[canonical[k]] = k
        /\ \A a \in Art : a \in pending \/ outcome = "clean" => copy[a] = cats[a]
        /\ \A a \in Art \ pending : \A l \in ToSet(copy[a]) :
              Key[l] \in DOMAIN canonical => l = canonical[Key[l]]
        /\ NoisyKeys(cats) \subseteq DOMAIN canonical

(* Until a run saves an article index.json is what it was; then it is      *)
(* built from a listing of what is on disk, failed saves included.         *)
CatIndexInv ==
    /\ runs = 0 => lint = "idle" /\ catIndex = cats
    /\ lint = "rewrite" /\ ~rewrote /\ ~behind => catIndex = cats
    /\ lint = "save" => rewrote /\ copy = cats /\ (outcome = "clean" => NoisyKeys(cats) = {})

LintInv == LintTypes /\ RewriteInv /\ CatIndexInv /\ RunIsComplete

(* The label of a key that a run settles on.                               *)
Best(c, k, l) ==
    /\ l \in Variants(c, k)
    /\ \A m \in Variants(c, k) : Uses(c, l) > Uses(c, m) \/ (Uses(c, l) = Uses(c, m) /\ l <= m)

NoRepeats(s) == \A i, j \in DOMAIN s : i # j => s[i] # s[j]

(* What the first run settled on stays the best while lists are rewritten. *)
PromiseInv ==
    /\ runs = 0 => DOMAIN promised = {}
    /\ \A a \in Art : NoRepeats(cats[a])
    /\ \A k \in DOMAIN promised : Best(cats, k, promised[k])
=============================================================================
