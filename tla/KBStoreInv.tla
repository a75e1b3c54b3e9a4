----------------------------- MODULE KBStoreInv -----------------------------
(***************************************************************************)
(* Why articles of different sources keep out of each other's way, and why *)
(* the files of a scope agree with each other: the conditions on ids and   *)
(* labels, and the inductive invariants that the files, the registry and   *)
(* the work in progress of every process satisfy.                          *)
(***************************************************************************)
EXTENDS KBStore

(* The ids that only source s may ever hold: its last disambiguations and, *)
(* for a glossary file, the ids it may declare.                            *)
Own(s) ==
  {Candidate(i, s, 3) : i \in Slug} \cup
  {Front[c].id : c \in {d \in Content : /\ s \in Glossary /\ <<s, d>> \in CanHold
                                        /\ Front[d].id # None}}

(* The ids s may hold: those a title can lead to, and its own.             *)
May(s) == {i \in Id : \E j \in Slug, k \in 0..3 : i = Candidate(j, s, k)} \cup Own(s)

(* The hash of a source is in no id but its own, and no two glossary files *)
(* declare the same id, nor one that a title can lead to.                  *)
DistinctIds ==
  \A s \in Source : /\ Own(s) \cap Slug = {}
                    /\ \A t \in Source \ {s} : Own(s) \cap May(t) = {}

(* Every article of an accept payload names its source. *)
AllSourced == NoSource \notin HandFed

(* An article that may stand under id i. *)
Rightful(i, art) ==
  IF art.src = NoSource THEN i \in Slug \/ (art.kind = "torn" /\ art.raw = {})
  ELSE i \in May(art.src)

TreeHeld == \A s \in TreeSource : tree[s] # None => <<s, tree[s]>> \in CanHold

OfferedSourced == \A j \in offered : j.src \in Source

WikiRightful == \A i \in Id : wiki[i] # None => Rightful(i, wiki[i])

JobsHeld(p) == cmd[p] = "build" => \A j \in jobs[p] : <<j.src, j.c>> \in CanHold

ItemsRightful(p) ==
  \A r \in todo[p] : IF r.fixed THEN r.src \in Source /\ r.id \in Own(r.src)
                     ELSE r.id \in Slug

(* An idle process has no work; only three commands write new articles. *)
Phase(p) ==
  /\ pc[p] = "idle" => cmd[p] = "none" /\ jobs[p] = {} /\ todo[p] = {}
  /\ pc[p] = "compile" => cmd[p] \in {"build", "ingest"}

(* Only ingest works with labels, and it works on one text. *)
OneLabel(p) ==
  /\ \A r \in todo[p] : r.label \/ r.src = NoSource => cmd[p] = "ingest"
  /\ cmd[p] = "ingest" =>
       /\ \A j, k \in jobs[p] : j = k
       /\ \A q, r \in todo[p] : q = r
       /\ jobs[p] = {} \/ todo[p] = {}
       /\ pc[p] = "save" /\ todo[p] # {} => reg[p].retired = {}

(* A build writes at most one article for a file, and only a build writes  *)
(* declared ids.                                                           *)
OncePerSource(p) ==
  /\ cmd[p] = "build" =>
       /\ \A j, k \in jobs[p] : j.src = k.src => j = k
       /\ \A j \in jobs[p], r \in todo[p] : j.src # r.src
       /\ \A q, r \in todo[p] : q.src = r.src => q = r
  /\ \A r \in todo[p] : r.fixed =>
       /\ cmd[p] = "build"
       /\ pc[p] = "save" => \A i \in reg[p].retired : reg[p].owner[i] # r.src

TargetsRightful(p) == \A t \in targets[p] : t.art # None => Rightful(t.id, t.art)

(* What recompile has loaded is what it will replace. *)
TargetsMatch(p) ==
  pc[p] = "recompile" =>
    /\ \A t \in targets[p] : t.art # None /\ (alone => wiki[t.id] = t.art)
    /\ \A t, u \in targets[p] : t.id = u.id => t = u

(* A line of a registry names the owner of its id, until an ingest has     *)
(* given its only id to a text without a source.                           *)
Lines(r) == \A e \in r.entries : r.owner[e.id] = e.src

LinesOwned(p) ==
  \/ cmd[p] = "ingest" /\ pc[p] # "compile" /\ todo[p] = {}
  \/ Lines(reg[p])

(* A retired id stays owned by a source that holds another one. *)
RegistryOK(r) ==
  /\ \A i \in Id : r.owner[i] \in Source => i \in May(r.owner[i])
  /\ \A e \in r.entries : e.id \notin r.retired
  /\ \A i \in r.retired : \E e \in r.entries : r.owner[i] = e.src

RegistryMatches(p) ==
  pc[p] = "save" /\ alone =>
    \A i \in Id : reg[p].owner[i] = IF wiki[i] = None THEN None ELSE wiki[i].src

Solo == alone => \A p, q \in Proc : pc[p] # "idle" /\ pc[q] # "idle" => p = q

ProcOK(p) ==
  /\ Phase(p) /\ JobsHeld(p) /\ ItemsRightful(p) /\ OneLabel(p) /\ OncePerSource(p)
  /\ TargetsRightful(p) /\ TargetsMatch(p)
  /\ LinesOwned(p) /\ RegistryOK(reg[p]) /\ RegistryMatches(p)

(* The inductive invariant behind RetiredStayFree and NoForeignOverwrite:  *)
(* whatever is on disk or in the memory of a process stands under an id    *)
(* that its source may hold, and a registry agrees with the disk for as    *)
(* long as its command runs alone.                                         *)
IdentityInv ==
  /\ TreeHeld /\ OfferedSourced /\ WikiRightful /\ Solo
  /\ \A p \in Proc : ProcOK(p)

-----------------------------------------------------------------------------
(* The index and the embeddings, whatever the ids.                         *)

(* Commands that overlap put every file under suspicion. *)
Overlapped == ~ alone => suspect = Files

Deleting == {"dropRaws", "unlink", "delIndex", "delCache", "delVecs"}

DeletesOne(p) == pc[p] \in Deleting => \A t, u \in targets[p] : t = u

LoneInv == Solo /\ Overlapped /\ \A p \in Proc : DeletesOne(p)

(* The ids whose article p has removed and whose embedding it has not yet. *)
Doomed(p) ==
  {i \in Id : \/ pc[p] = "retireVecs" /\ i \in reg[p].retired
              \/ pc[p] \in {"delIndex", "delCache", "delVecs"} /\ \E t \in targets[p] : t.id = i}

(* The inductive invariant behind VectorsHaveArticles. *)
VectorsInv ==
  "vecs" \notin suspect =>
    \A i \in vecs : wiki[i] # None \/ \E p \in Proc : i \in Doomed(p)

Listed(i) == IF wiki[i] = None THEN 0 ELSE wiki[i].ver

(* The phases in which the index still, or again, lists the wiki. *)
Unwritten == {"idle", "compile", "dropRaws", "unlink", "delCache", "delVecs"}

(* The index p is about to write: the wiki's, or that of the wiki without  *)
(* the article p deletes.                                                  *)
ListingOK(p) ==
  /\ pc[p] = "index" /\ alone => \A i \in Id : listing[p][i] = Listed(i)
  /\ pc[p] \in {"dropRaws", "unlink", "delIndex"} /\ "index" \notin suspect =>
       \A t \in targets[p], i \in Id :
         listing[p][i] = IF i = t.id THEN 0 ELSE Listed(i)
  /\ pc[p] = "delIndex" /\ "index" \notin suspect => \E t \in targets[p] : wiki[t.id] = None

(* The inductive invariant behind IndexMatchesWiki. *)
IndexInv ==
  /\ \A p \in Proc : ListingOK(p)
  /\ "index" \notin suspect /\ (\A p \in Proc : pc[p] \in Unwritten) =>
       \A i \in Id : index[i] = Listed(i)

-----------------------------------------------------------------------------
(* The hash cache and the articles it stands for.                          *)

(* Texts from outside the tree, ingested or accepted without a hash, are   *)
(* labelled, and their labels are not paths of its files.                  *)
OutsideLabelled ==
  /\ HandFed \cap (TreeSource \cup {NoSource}) = {}
  /\ \A x \in Text : x[1] \notin TreeSource \cup {NoSource}

(* The registry knows every article of a source that it has not retired.   *)
Complete(r) ==
  \A i \in Id : r.owner[i] \in Source /\ i \notin r.retired =>
    \E e \in r.entries : e.id = i /\ e.src = r.owner[i]

Publishing == {"save", "retire", "retireVecs", "saveCache"}

(* Work is done before what depends on it, by the commands that have any.  *)
Stage(p) ==
  /\ pc[p] # "compile" => jobs[p] = {}
  /\ pc[p] \notin {"compile", "save"} => todo[p] = {}
  /\ pc[p] \in Publishing => cmd[p] \in {"build", "accept", "ingest"}
  /\ pc[p] = "saveCache" => cmd[p] # "ingest"
  /\ pc[p] = "recompile" => cmd[p] = "recompile"
  /\ \A r \in todo[p] : r.fixed => r.hash # None

(* What p is still going to remove. *)
Leaving(p) == IF pc[p] \in {"save", "retire"} THEN reg[p].retired ELSE {}

(* The articles of source s in a wiki w.                                   *)
Of(w, s) == {i \in Id : w[i] # None /\ w[i].src = s}

(* Every source that a build or an accept has changed in its copy of the   *)
(* cache holds one article that stays.                                     *)
SoleArticle(p) ==
  cmd[p] \in {"build", "accept"} /\ alone =>
    /\ pc[p] = "compile" => snap[p] = cache
    /\ pc[p] \in Publishing =>
         \A s \in Source : snap[p][s] # cache[s] =>
           Of(wiki, s) \ Leaving(p) = {snap[p][s].id}

(* The inductive invariant behind OneArticlePerSource, beside IdentityInv. *)
SoleInv == \A p \in Proc : Complete(reg[p]) /\ Stage(p) /\ SoleArticle(p)

(* Cache k stands for exactly the articles of the tree in a wiki w without *)
(* the articles gone: a file has the one that k names, compiled from the   *)
(* content k names, or none.                                               *)
Exact(w, k, gone) ==
  \A s \in Source :
    /\ k[s] # None => /\ s \in TreeSource
                      /\ Of(w, s) \ gone = {k[s].id}
                      /\ w[k[s].id].raw = {k[s].hash}
    /\ k[s] = None /\ s \in TreeSource => Of(w, s) \subseteq gone

OfferedTree == \A j \in offered : j.src \in TreeSource

(* What is compiled for a file of the tree carries the hash of its content. *)
WorkTracked(p) ==
  /\ \A j \in jobs[p] : j.src # NoSource /\ (cmd[p] = "build" <=> j.src \in TreeSource)
  /\ \A r \in todo[p] :
       IF r.src \in TreeSource
       THEN r.hash # None /\ r.raw = {r.hash} /\ cmd[p] # "ingest"
       ELSE r.hash = None /\ r.src # NoSource /\ cmd[p] # "build"

(* The cache as it will be once p has published its own copy. *)
Draft(p) == IF cmd[p] = "ingest" THEN cache ELSE snap[p]

Unsettled == Publishing \cup {"delIndex", "delCache"}

CacheAt(p) ==
  /\ pc[p] \in Publishing => Exact(wiki, Draft(p), Leaving(p))
  /\ pc[p] \in {"delIndex", "delCache"} =>
       \A t \in targets[p] : Exact(wiki, CacheWithout(t.id), {})
  /\ pc[p] = "compile" /\ cmd[p] = "build" => snap[p] = cache

(* What a build will have covered when its work is done. *)
Covering(p) ==
  cmd[p] = "build" =>
    /\ \A j \in jobs[p] : j.c = seen[p][j.src]
    /\ \A r \in todo[p] : r.hash = seen[p][r.src]
    /\ \A s \in TreeSource : seen[p][s] # None =>
         \/ \E j \in jobs[p] : j.src = s
         \/ \E r \in todo[p] : r.src = s
         \/ LET k == IF pc[p] \in {"list", "index"} THEN cache ELSE snap[p]
            IN  k[s] # None /\ k[s].hash = seen[p][s]

(* The inductive invariant behind CacheNamesArticle and BuildCoversTree,   *)
(* beside IdentityInv and SoleInv.                                         *)
CacheInv ==
  /\ OfferedTree
  /\ \A p \in Proc : WorkTracked(p)
  /\ "cache" \notin suspect =>
       /\ \A p \in Proc : CacheAt(p) /\ Covering(p)
       /\ (\A p \in Proc : pc[p] \notin Unsettled) => Exact(wiki, cache, {})
=============================================================================
