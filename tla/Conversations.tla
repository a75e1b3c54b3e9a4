--------------------------- MODULE Conversations ----------------------------
(***************************************************************************)
(* kb convo ingest: a transcript becomes turns, the turns that share       *)
(* entities become clusters, each cluster one article (convo/convo.go,     *)
(* cli/cmd_convo.go).                                                      *)
(*                                                                         *)
(* A message is known by the entities it names, and by whether its user    *)
(* decides something in it.  One that has no role or no content is no turn.*)
(***************************************************************************)
EXTENDS Naturals, Sequences, FiniteSets

CONSTANTS Entity,      \* what messages may name
          Slug,        \* Slug[e]: the id a label is reduced to
          Format,      \* the formats of the transcripts
          MaxMessages  \* bound: messages of a transcript

Utterance == [turn : {TRUE}, names : SUBSET Entity, decides : BOOLEAN]
             \cup {[turn |-> FALSE, names |-> {}, decides |-> FALSE]}

VARIABLES format, messages,  \* the transcript
          cluster,           \* assigned: the cluster of each turn, 0 while it has none
          shared,            \* clusterEntities: the names of the cluster in the making
          visit,             \* the next turn the pass looks at, 0 between clusters
          grew,              \* whether the pass has added a turn
          label,             \* the label of each cluster
          convWiki,          \* the articles saved, by the id of the cluster
          ingested           \* how far the command is

transcript == <<format, messages>>
convVars   == <<transcript, cluster, shared, visit, grew, label, convWiki, ingested>>
-----------------------------------------------------------------------------
(* ParseTranscript.  Turn.Index counts the messages of a JSON transcript,  *)
(* skipped ones too, and the turns of a plain text.                        *)
TurnsUpTo(k) == {j \in 1..k : messages[j].turn}
Turns        == 1..Cardinality(TurnsUpTo(Len(messages)))
MessageOf(t) == CHOOSE k \in 1..Len(messages) : messages[k].turn /\ Cardinality(TurnsUpTo(k)) = t
Names(t)     == messages[MessageOf(t)].names

IndexOf(t) == IF format = "plain" THEN t ELSE MessageOf(t)

(* ExtractDecisions: what the turns of the user decide, by Turn.Index.     *)
Decisions == {t \in Turns : messages[MessageOf(t)].decides}
DecisionsAt(index) == {t \in Decisions : IndexOf(t) = index}

NoClusters == [t \in {} |-> 0]

ConvStart(m) ==
    /\ messages = m
    /\ cluster = [t \in Turns |-> 0]
    /\ shared = {} /\ visit = 0 /\ grew = FALSE
    /\ label = NoClusters /\ convWiki = NoClusters
    /\ ingested = "clustering"

ConvInit ==
    /\ format \in Format
    /\ \E n \in 1..MaxMessages : \E m \in [1..n -> Utterance] :
           /\ ConvStart(m)
           /\ \E k \in 1..n : m[k].turn   \* else no recognized format

ConvIdle ==
    /\ format = "none" /\ messages = <<>> /\ cluster = NoClusters /\ label = NoClusters
    /\ shared = {} /\ visit = 0 /\ grew = FALSE /\ convWiki = NoClusters /\ ingested = "no"
-----------------------------------------------------------------------------
(* ClusterTopics: the first turn without a cluster starts one ...          *)
Unassigned == {t \in Turns : cluster[t] = 0}
Clusters   == {cluster[t] : t \in Turns} \ {0}

StartCluster ==
    /\ ingested = "clustering" /\ visit = 0 /\ Unassigned # {}
    /\ LET i == CHOOSE t \in Unassigned : \A u \in Unassigned : t <= u
       IN  /\ cluster' = [cluster EXCEPT ![i] = Cardinality(Clusters) + 1]
           /\ shared' = Names(i)
    /\ visit' = 1 /\ grew' = FALSE
    /\ UNCHANGED <<transcript, label, convWiki, ingested>>

Joins == cluster[visit] = 0 /\ shared \cap Names(visit) # {}

(* Mutant of Visit: the names of a turn that joins are not the cluster's. *)
VisitNarrow ==
    /\ ingested = "clustering" /\ visit \in Turns
    /\ cluster' = IF Joins THEN [cluster EXCEPT ![visit] = Cardinality(Clusters)] ELSE cluster
    /\ grew' = (grew \/ Joins)
    /\ visit' = visit + 1
    /\ UNCHANGED <<transcript, shared, label, convWiki, ingested>>

(* ... passes over the turns take in those that share a name with it ...   *)
Visit ==
    /\ ingested = "clustering" /\ visit \in Turns
    /\ cluster' = IF Joins THEN [cluster EXCEPT ![visit] = Cardinality(Clusters)] ELSE cluster
    /\ shared' = IF Joins THEN shared \cup Names(visit) ELSE shared
    /\ grew' = (grew \/ Joins)
    /\ visit' = visit + 1
    /\ UNCHANGED <<transcript, label, convWiki, ingested>>

(* ... until one has taken in none.                                        *)
EndPass ==
    /\ ingested = "clustering" /\ visit = Cardinality(Turns) + 1
    /\ visit' = IF grew THEN 1 ELSE 0
    /\ grew' = FALSE
    /\ UNCHANGED <<transcript, cluster, shared, label, convWiki, ingested>>

TurnsOf(c) == {t \in Turns : cluster[t] = c}
Frequency(c, e) == Cardinality({t \in TurnsOf(c) : e \in Names(t)})

(* A label is one of the most frequent names: the sort of a map's entries  *)
(* by frequency leaves ties to chance.  A turn that names nothing is a     *)
(* topic of its own.                                                       *)
Labels(c) ==
    LET named == UNION {Names(t) : t \in TurnsOf(c)}
    IN  IF named = {} THEN {c}
        ELSE {e \in named : \A d \in named : Frequency(c, d) <= Frequency(c, e)}

LabelClusters ==
    /\ ingested = "clustering" /\ visit = 0 /\ Unassigned = {}
    /\ label' \in {l \in [Clusters -> Entity \cup Clusters] : \A c \in Clusters : l[c] \in Labels(c)}
    /\ ingested' = "saving"
    /\ UNCHANGED <<transcript, cluster, shared, visit, grew, convWiki>>

IdOfLabel(l) == IF l \in Entity THEN Slug[l] ELSE l
ArticleOf(c) == IdOfLabel(label[c])

(* Mutant of Article: turns are counted from zero, indices from one. *)
ArticleShifted(c) == [turns |-> TurnsOf(c),
                      decided |-> UNION {DecisionsAt(t + 1) : t \in TurnsOf(c)}]

(* GenerateArticles looks the decisions of a turn up by its position.      *)
Article(c) == [turns |-> TurnsOf(c), decided |-> UNION {DecisionsAt(t) : t \in TurnsOf(c)}]

(* Mutant of SaveConversation: an article that exists is left alone. *)
SaveConversationNew(c) ==
    /\ ingested = "saving" /\ c \in DOMAIN label
    /\ label' = [d \in DOMAIN label \ {c} |-> label[d]]
    /\ \A d \in DOMAIN label : Cardinality(TurnsOf(d)) <= Cardinality(TurnsOf(c))
    /\ convWiki' = [a \in DOMAIN convWiki \cup {ArticleOf(c)} |->
                      IF a \in DOMAIN convWiki THEN convWiki[a] ELSE Article(c)]
    /\ UNCHANGED <<transcript, cluster, shared, visit, grew, ingested>>

(* Larger clusters are saved first, without the registry: under its id an  *)
(* article replaces any other.                                             *)
SaveConversation(c) ==
    /\ ingested = "saving" /\ c \in DOMAIN label
    /\ \A d \in DOMAIN label : Cardinality(TurnsOf(d)) <= Cardinality(TurnsOf(c))
    /\ label' = [d \in DOMAIN label \ {c} |-> label[d]]
    /\ convWiki' = [a \in DOMAIN convWiki \cup {ArticleOf(c)} |->
                      IF a = ArticleOf(c) THEN Article(c) ELSE convWiki[a]]
    /\ UNCHANGED <<transcript, cluster, shared, visit, grew, ingested>>

EndIngest ==
    /\ ingested = "saving" /\ label = NoClusters
    /\ ingested' = "done"
    /\ UNCHANGED <<transcript, cluster, shared, visit, grew, label, convWiki>>

ConvNext == \/ StartCluster \/ Visit \/ EndPass \/ LabelClusters \/ EndIngest
            \/ \E c \in DOMAIN label : SaveConversation(c)
-----------------------------------------------------------------------------
(* Turns belong together exactly if a chain of shared names connects them: *)
(* if nothing parts them, no set of turns whose names no other turn has.   *)
Apart(S)        == \A t \in S, u \in Turns \ S : Names(t) \cap Names(u) = {}
Connected(t, u) == \A S \in SUBSET Turns : Apart(S) => (t \in S <=> u \in S)

ClustersAreChains ==
    ingested \in {"saving", "done"} =>
        \A t, u \in Turns : cluster[t] = cluster[u] <=> Connected(t, u)

(* Nothing else that was said is lost: when the command is done an article *)
(* has each turn, unless a topic whose label reduces to the same id has    *)
(* taken the file, and that is none that more was said about.              *)
IdsOf(t) == {IdOfLabel(l) : l \in Labels(cluster[t])}
Displaced(t) ==
    \E u \in Turns, a \in IdsOf(t) \cap DOMAIN convWiki :
        /\ cluster[u] # cluster[t] /\ a \in IdsOf(u) /\ convWiki[a].turns = TurnsOf(cluster[u])
        /\ Cardinality(TurnsOf(cluster[u])) <= Cardinality(TurnsOf(cluster[t]))

EveryTurnIsKept ==
    ingested = "done" =>
        \A t \in Turns : Displaced(t) \/ \E a \in DOMAIN convWiki : t \in convWiki[a].turns

(* "Extracted decisions for this cluster" (convo.go:592): an article lists *)
(* what its turns decide.                                                  *)
DecisionsFollowTurns ==
    \A a \in DOMAIN convWiki : convWiki[a].decided = Decisions \cap convWiki[a].turns
=============================================================================
