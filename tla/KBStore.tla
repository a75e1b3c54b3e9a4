------------------------------ MODULE KBStore -------------------------------
(***************************************************************************)
(* One scope of the knowledge base on disk, and the commands that write it:*)
(* build, prepare, accept, ingest, delete, recompile, clear and vector     *)
(* attachment (internal/cli, internal/store).  A command is a process that *)
(* reads the scope and writes it back file by file, with no lock; every    *)
(* write to a file is an action, so commands of two processes interleave   *)
(* and a command can die between two writes or in the middle of one.       *)
(***************************************************************************)
EXTENDS ArticleIds

CONSTANTS
  Proc,         \* kb processes
  TreeSource,   \* relative paths of the files of the source tree
  Glossary,     \* those whose directory is named glossary
  CanHold,      \* pairs <<s, c>>: file s may hold content c
  Front,        \* Front[c]: id and version a glossary file declares, id None if unparsable
  Slug,         \* ids that the title an LLM or a caller chooses may propose
  Text,         \* pairs <<l, c>>: content c may be ingested under SourcePath l
  HandFed,      \* SourcePaths an accept payload names although prepare never emitted them
  Menu,         \* bound: which commands, and whether crashes, the instance explores
  MaxCommands   \* bound: commands started

ASSUME TreeAssumption  == TreeSource \subseteq Source /\ TreeSource \subseteq Nat
ASSUME GlossAssumption == Glossary \subseteq TreeSource
ASSUME HoldAssumption  == CanHold \subseteq TreeSource \X Content
ASSUME FrontAssumption == Front \in [Content -> [id : Id \cup {None}, ver : Nat \ {0}]]
ASSUME SlugAssumption  == Slug \subseteq Id
ASSUME TextAssumption  == Text \subseteq Owner \X Content /\ HandFed \subseteq Owner
ASSUME BoundAssumption == MaxCommands \in Nat

VARIABLES
  tree,      \* the source tree: content of every file, None if it does not exist
  wiki,      \* wiki/<id>.md
  cache,     \* cache/hashes.json: per source the hash last compiled and its article
  index,     \* index.json: version of every article it lists, 0 if it does not list it
  raws,      \* raw/<hash>.json
  vecs,      \* ids with an embedding
  offered,   \* items prepare has handed out
  commands,  \* commands started so far
  pc, cmd,   \* where each process is, and in which command
  jobs,      \* files still to compile
  todo,      \* compiled articles still to be given an id and saved
  targets,   \* articles loaded by recompile or by delete
  reg,       \* the command's IDRegistry
  snap,      \* the command's copy of the cache
  listing,   \* the index the command is about to write
  seen,      \* history: contents the build's scan read and has not failed to compile
  alone,     \* history: no two of the commands now running have overlapped
  suspect    \* history: files that a crash or an overlap may have left behind the others

disk  == <<wiki, cache, index, raws, vecs>>
outer == <<tree, offered>>
past  == <<commands, alone, suspect>>
local == <<pc, cmd, jobs, todo, targets, reg, snap, listing, seen>>
vars  == <<tree, wiki, cache, index, raws, vecs, offered, commands, pc, cmd, jobs,
           todo, targets, reg, snap, listing, seen, alone, suspect>>

Kind    == {"compiled", "glossary", "torn"}
Article == [src : Owner, raw : SUBSET Content, ver : Nat, kind : Kind]
Cached  == [hash : Content, id : Id]
Job     == [src : Owner, c : Content]
Item    == [src : Owner, raw : SUBSET Content, hash : Content \cup {None}, id : Id,
            ver : Nat, kind : Kind, fixed : BOOLEAN, label : BOOLEAN]
Target  == [id : Id, art : Article \cup {None}]

ASSUME NoneAssumption == None \notin Article \cup Cached \cup Content \cup Id

Files   == {"cache", "index", "vecs"}
NoFile  == [s \in TreeSource |-> None]
NoCache == [s \in Source |-> None]
NoIndex == [i \in Id |-> 0]

(* What a reader finds after a write of an article was cut short: no       *)
(* closed frontmatter, so a plain text without source, at version 1.       *)
TornArticle == [src |-> NoSource, raw |-> {}, ver |-> 1, kind |-> "torn"]

TypeOK ==
  /\ tree \in [TreeSource -> Content \cup {None}]
  /\ wiki \in [Id -> Article \cup {None}]
  /\ cache \in [Source -> Cached \cup {None}]
  /\ index \in [Id -> Nat]
  /\ raws \subseteq Content
  /\ vecs \subseteq Id
  /\ offered \subseteq Job
  /\ commands \in 0..MaxCommands
  /\ pc \in [Proc -> {"idle", "compile", "save", "retire", "retireVecs", "saveCache",
                      "list", "index", "recompile", "dropRaws", "unlink", "delIndex",
                      "delCache", "delVecs"}]
  /\ cmd \in [Proc -> {"none", "build", "accept", "ingest", "recompile", "delete"}]
  /\ jobs \in [Proc -> SUBSET Job]
  /\ todo \in [Proc -> SUBSET Item]
  /\ targets \in [Proc -> SUBSET Target]
  /\ reg \in [Proc -> Registry]
  /\ snap \in [Proc -> [Source -> Cached \cup {None}]]
  /\ listing \in [Proc -> [Id -> Nat]]
  /\ seen \in [Proc -> [TreeSource -> Content \cup {None}]]
  /\ alone \in BOOLEAN
  /\ suspect \subseteq Files

Init ==
  /\ tree = NoFile
  /\ wiki = [i \in Id |-> None]
  /\ cache = NoCache
  /\ index = NoIndex
  /\ raws = {}
  /\ vecs = {}
  /\ offered = {}
  /\ commands = 0
  /\ pc = [p \in Proc |-> "idle"]
  /\ cmd = [p \in Proc |-> "none"]
  /\ jobs = [p \in Proc |-> {}]
  /\ todo = [p \in Proc |-> {}]
  /\ targets = [p \in Proc |-> {}]
  /\ reg = [p \in Proc |-> EmptyRegistry]
  /\ snap = [p \in Proc |-> NoCache]
  /\ listing = [p \in Proc |-> NoIndex]
  /\ seen = [p \in Proc |-> NoFile]
  /\ alone = TRUE
  /\ suspect = {}

-----------------------------------------------------------------------------
(* The developer creates, edits or removes a source file. *)
Edit(s, c) ==
  /\ c = None \/ <<s, c>> \in CanHold
  /\ tree[s] # c
  /\ tree' = [tree EXCEPT ![s] = c]
  /\ UNCHANGED <<disk, offered, past, local>>

Busy == \E p \in Proc : pc[p] # "idle"

(* A command is called; the budget counts it.  Nothing keeps it from       *)
(* running while another one does; left are the files suspect otherwise.   *)
Call(p, c, left) ==
  /\ pc[p] = "idle"
  /\ c \in Menu /\ commands < MaxCommands
  /\ commands' = commands + 1
  /\ alone'    = ~ Busy
  /\ suspect'  = IF Busy THEN Files ELSE left

Start(p, c, at) ==
  /\ Call(p, c, suspect)
  /\ pc'  = [pc EXCEPT ![p] = at]
  /\ cmd' = [cmd EXCEPT ![p] = c]

Step(p, from, to) ==
  /\ pc[p] = from
  /\ pc' = [pc EXCEPT ![p] = to]
  /\ UNCHANGED <<cmd, past>>

(* The process is gone and with it everything it had in memory. *)
Exit(p) ==
  /\ pc'      = [pc EXCEPT ![p] = "idle"]
  /\ cmd'     = [cmd EXCEPT ![p] = "none"]
  /\ jobs'    = [jobs EXCEPT ![p] = {}]
  /\ todo'    = [todo EXCEPT ![p] = {}]
  /\ targets' = [targets EXCEPT ![p] = {}]
  /\ reg'     = [reg EXCEPT ![p] = EmptyRegistry]
  /\ snap'    = [snap EXCEPT ![p] = NoCache]
  /\ listing' = [listing EXCEPT ![p] = NoIndex]
  /\ seen'    = [seen EXCEPT ![p] = NoFile]
  /\ UNCHANGED <<commands, alone>>

(* Files whose content the hash cache does not name. *)
Pending(c) ==
  {[src |-> s, c |-> tree[s]] :
     s \in {t \in TreeSource : /\ tree[t] # None
                               /\ c[t] = None \/ c[t].hash # tree[t]}}

-----------------------------------------------------------------------------
(* kb build, scan: an empty tree is a fatal error before anything is read. *)
(* --since, like a failed compile, only takes files out of the job list.   *)
BuildScan(p) ==
  /\ tree # NoFile
  /\ Start(p, "build", "compile")
  /\ snap' = [snap EXCEPT ![p] = cache]
  /\ seen' = [seen EXCEPT ![p] = tree]
  /\ jobs' = [jobs EXCEPT ![p] = Pending(cache)]
  /\ UNCHANGED <<disk, outer, todo, targets, reg, listing>>

(* kb ingest reads one text under the caller's label. *)
Ingest(p, l, c) ==
  /\ <<l, c>> \in Text
  /\ Start(p, "ingest", "compile")
  /\ jobs' = [jobs EXCEPT ![p] = {[src |-> l, c |-> c]}]
  /\ UNCHANGED <<disk, outer, todo, targets, reg, snap, listing, seen>>

(* What compiling job j can yield.  A glossary file is parsed, not         *)
(* compiled; one that does not parse is kept whole under its file name.    *)
Outcomes(p, j) ==
  LET item(id, ver, kind, fixed) ==
        [src |-> j.src, raw |-> {j.c}, id |-> id, ver |-> ver, kind |-> kind,
         fixed |-> fixed,
         hash  |-> IF cmd[p] = "build" THEN j.c ELSE None,
         label |-> cmd[p] = "ingest"]
  IN  IF cmd[p] = "build" /\ j.src \in Glossary
      THEN IF Front[j.c].id # None
           THEN {item(Front[j.c].id, Front[j.c].ver, "glossary", TRUE)}
           ELSE {item(i, 1, "glossary", FALSE) : i \in Slug}
      ELSE {item(i, 1, "compiled", FALSE) : i \in Slug}

(* One worker: the raw doc is written first, whatever the compiler does.   *)
Compile(p, j) ==
  /\ pc[p] = "compile" /\ j \in jobs[p]
  /\ \E item \in Outcomes(p, j) : todo' = [todo EXCEPT ![p] = @ \cup {item}]
  /\ raws' = raws \cup {j.c}
  /\ jobs' = [jobs EXCEPT ![p] = @ \ {j}]
  /\ UNCHANGED <<wiki, cache, index, vecs, outer, past, pc, cmd, targets, reg, snap,
                 listing, seen>>

(* build: no article, no cache entry, the other files go on. *)
CompileFails(p, j) ==
  /\ pc[p] = "compile" /\ cmd[p] = "build" /\ j \in jobs[p]
  /\ j.src \notin Glossary
  /\ raws' = raws \cup {j.c}
  /\ jobs' = [jobs EXCEPT ![p] = @ \ {j}]
  /\ seen' = [seen EXCEPT ![p][j.src] = None]
  /\ UNCHANGED <<wiki, cache, index, vecs, outer, past, pc, cmd, todo, targets, reg,
                 snap, listing>>

(* ingest: an error; the raw doc stays. *)
IngestFails(p, j) ==
  /\ pc[p] = "compile" /\ cmd[p] = "ingest" /\ j \in jobs[p]
  /\ raws' = raws \cup {j.c}
  /\ Exit(p)
  /\ UNCHANGED <<wiki, cache, index, vecs, outer, suspect>>

(* The registry is read from disk only when every compile has ended. *)
LoadIds(p) ==
  /\ jobs[p] = {}
  /\ Step(p, "compile", "save")
  /\ reg' = [reg EXCEPT ![p] = LoadRegistry(wiki)]
  /\ UNCHANGED <<disk, outer, jobs, todo, targets, snap, listing, seen>>

(* kb prepare saves the raw docs of the pending files and hands them out.  *)
Prepare(p) ==
  LET items == Pending(cache)
  IN  /\ tree # NoFile
      /\ Call(p, "prepare", suspect)
      /\ raws' = raws \cup {j.c : j \in items}
      /\ offered' = offered \cup items
      /\ UNCHANGED <<tree, wiki, cache, index, vecs, local>>

(* One article of an accept payload: compiled by an agent for an item that *)
(* prepare handed out, or written by hand without a hash.                  *)
Handed ==
  {[src |-> j.src, raw |-> {j.c}, id |-> i, ver |-> 1, kind |-> "compiled",
    hash |-> j.c, fixed |-> FALSE, label |-> FALSE] : j \in offered, i \in Slug}
    \cup
  {[src |-> s, raw |-> {c}, id |-> i, ver |-> 1, kind |-> "compiled",
    hash |-> None, fixed |-> FALSE, label |-> FALSE] :
      s \in HandFed, c \in Content, i \in Slug}

(* kb accept of one or two articles: cache and registry are read at once.  *)
Accept(p, a, b) ==
  /\ Start(p, "accept", "save")
  /\ snap' = [snap EXCEPT ![p] = cache]
  /\ reg'  = [reg EXCEPT ![p] = LoadRegistry(wiki)]
  /\ todo' = [todo EXCEPT ![p] = {a, b}]
  /\ UNCHANGED <<disk, outer, jobs, targets, listing, seen>>

(* build saves in a fixed order, explicit glossary ids first; accept takes *)
(* the payload's order, which is the caller's.                             *)
NextUp(p, r) ==
  /\ r \in todo[p]
  /\ cmd[p] = "build" =>
       \A q \in todo[p] : \/ r.fixed /\ ~ q.fixed
                          \/ r.fixed = q.fixed /\ r.src <= q.src

(* The id, version and registry the write of r ends up with.  A glossary   *)
(* entry keeps the version of its frontmatter on a first write.            *)
Resolve(p, r) ==
  IF r.fixed
  THEN LET claim == ClaimFixed(reg[p], r.id, r.src, r.raw)
       IN  [claim EXCEPT !.ver = IF Has(reg[p], r.id) THEN @ ELSE r.ver]
  ELSE Claim(reg[p], r.id, r.src, r.raw, r.label)

EntryFor(r, id) == [hash |-> r.hash, id |-> id]

(* SaveArticle, then the command's copy of the cache. *)
Save(p, r) ==
  LET claim == Resolve(p, r)
  IN  /\ pc[p] = "save" /\ NextUp(p, r)
      /\ wiki' = [wiki EXCEPT ![claim.id] =
                    [src |-> r.src, raw |-> r.raw, ver |-> claim.ver, kind |-> r.kind]]
      /\ reg' = [reg EXCEPT ![p] = claim.reg]
      /\ snap' = IF r.src = NoSource \/ r.hash = None THEN snap
                 ELSE [snap EXCEPT ![p][r.src] = EntryFor(r, claim.id)]
      /\ todo' = [todo EXCEPT ![p] = @ \ {r}]
      /\ UNCHANGED <<cache, index, raws, vecs, outer, past, pc, cmd, jobs, targets,
                     listing, seen>>

Saved(p) ==
  /\ todo[p] = {}
  /\ Step(p, "save", "retire")
  /\ UNCHANGED <<disk, outer, jobs, todo, targets, reg, snap, listing, seen>>

(* Mutants: nothing is removed. *)
WikiKept(ids) == wiki

VecsKept(ids) == vecs

WikiWithout(ids) == [i \in Id |-> IF i \in ids THEN None ELSE wiki[i]]

VecsWithout(ids) == vecs \ ids

(* IDRegistry.Retire: the files of the stale twins, then their vectors.    *)
Retire(p) ==
  /\ Step(p, "retire", "retireVecs")
  /\ wiki' = WikiWithout(reg[p].retired)
  /\ UNCHANGED <<cache, index, raws, vecs, outer, jobs, todo, targets, reg, snap, listing,
                 seen>>

RetireVecs(p) ==
  /\ Step(p, "retireVecs", IF cmd[p] = "ingest" THEN "list" ELSE "saveCache")
  /\ vecs' = VecsWithout(reg[p].retired)
  /\ UNCHANGED <<wiki, cache, index, raws, outer, jobs, todo, targets, reg, snap, listing,
                 seen>>

(* The whole file is replaced by the command's copy. *)
SaveCache(p) ==
  /\ Step(p, "saveCache", "list")
  /\ cache' = snap[p]
  /\ UNCHANGED <<wiki, index, raws, vecs, outer, jobs, todo, targets, reg, snap, listing,
                 seen>>

Listing(p) == [i \in Id |-> IF wiki[i] = None THEN 0 ELSE wiki[i].ver]

(* ListArticles and RebuildIndex *)
List(p) ==
  /\ Step(p, "list", "index")
  /\ listing' = [listing EXCEPT ![p] = Listing(p)]
  /\ UNCHANGED <<disk, outer, jobs, todo, targets, reg, snap, seen>>

(* SaveIndex ends build, accept, ingest and recompile. *)
SaveIndex(p) ==
  /\ pc[p] = "index"
  /\ index' = listing[p]
  /\ Exit(p)
  /\ suspect' = IF alone THEN suspect \ {"index"} ELSE suspect
  /\ UNCHANGED <<wiki, cache, raws, vecs, outer>>

-----------------------------------------------------------------------------
(* kb recompile loads its targets before it compiles the first of them. *)
RecompileLoad(p, ids) ==
  /\ \A i \in ids : wiki[i] # None
  /\ Start(p, "recompile", "recompile")
  /\ targets' = [targets EXCEPT ![p] = {[id |-> i, art |-> wiki[i]] : i \in ids}]
  /\ UNCHANGED <<disk, outer, jobs, todo, reg, snap, listing, seen>>

(* The id, source and raw docs are those of the loaded article; the kind   *)
(* is not carried over.                                                    *)
Recompiled(art) == [art EXCEPT !.ver = @ + 1, !.kind = "compiled"]

(* In the order of their ids. *)
NextTarget(p, t) == t \in targets[p] /\ \A u \in targets[p] : t.id <= u.id

RecompileOne(p, t) ==
  /\ pc[p] = "recompile" /\ NextTarget(p, t)
  /\ t.art.raw \cap raws # {}
  /\ wiki' = [wiki EXCEPT ![t.id] = Recompiled(t.art)]
  /\ targets' = [targets EXCEPT ![p] = @ \ {t}]
  /\ UNCHANGED <<cache, index, raws, vecs, outer, past, pc, cmd, jobs, todo, reg,
                 snap, listing, seen>>

(* No raw doc is left to compile from, or the compiler fails. *)
RecompileSkips(p, t) ==
  /\ pc[p] = "recompile" /\ NextTarget(p, t)
  /\ targets' = [targets EXCEPT ![p] = @ \ {t}]
  /\ UNCHANGED <<disk, outer, past, pc, cmd, jobs, todo, reg, snap, listing, seen>>

RecompileEnds(p) ==
  /\ targets[p] = {}
  /\ Step(p, "recompile", "list")
  /\ UNCHANGED <<disk, outer, jobs, todo, targets, reg, snap, listing, seen>>

-----------------------------------------------------------------------------
(* kb delete of id i: the article and the index are read first.  Deleting  *)
(* an id that nothing mentions changes nothing.                            *)
CacheNames(i) == \E s \in Source : cache[s] # None /\ cache[s].id = i

(* Mutants: the id is not taken out. *)
IndexKept(i) == index

CacheKept(i) == cache

IndexWithout(i) == [index EXCEPT ![i] = 0]

CacheWithout(i) == [s \in Source |-> IF cache[s] # None /\ cache[s].id = i THEN None
                                     ELSE cache[s]]

Mentioned(i) == wiki[i] # None \/ index[i] # 0 \/ i \in vecs \/ CacheNames(i)

DeleteLoad(p, i) ==
  /\ Mentioned(i)
  /\ Start(p, "delete", "dropRaws")
  /\ targets' = [targets EXCEPT ![p] = {[id |-> i, art |-> wiki[i]]}]
  /\ listing' = [listing EXCEPT ![p] = IndexWithout(i)]
  /\ UNCHANGED <<disk, outer, jobs, todo, reg, snap, seen>>

(* The raw docs of the article go first, shared or not. *)
DropRaws(p, t) ==
  /\ t \in targets[p]
  /\ Step(p, "dropRaws", "unlink")
  /\ raws' = IF t.art = None THEN raws ELSE raws \ t.art.raw
  /\ UNCHANGED <<wiki, cache, index, vecs, outer, jobs, todo, targets, reg, snap, listing,
                 seen>>

Unlink(p, t) ==
  /\ t \in targets[p]
  /\ Step(p, "unlink", "delIndex")
  /\ wiki' = WikiWithout({t.id})
  /\ UNCHANGED <<cache, index, raws, vecs, outer, jobs, todo, targets, reg, snap, listing,
                 seen>>

DeleteIndex(p) ==
  /\ Step(p, "delIndex", "delCache")
  /\ index' = listing[p]
  /\ UNCHANGED <<wiki, cache, raws, vecs, outer, jobs, todo, targets, reg, snap, listing,
                 seen>>

(* The cache is read only now; every entry that names the id goes. *)
DeleteCache(p, t) ==
  /\ t \in targets[p]
  /\ Step(p, "delCache", "delVecs")
  /\ cache' = CacheWithout(t.id)
  /\ UNCHANGED <<wiki, index, raws, vecs, outer, jobs, todo, targets, reg, snap, listing,
                 seen>>

DeleteVecs(p, t) ==
  /\ pc[p] = "delVecs" /\ t \in targets[p]
  /\ vecs' = VecsWithout({t.id})
  /\ Exit(p)
  /\ UNCHANGED <<wiki, cache, index, raws, outer, suspect>>

-----------------------------------------------------------------------------
(* kb ingest --vec attaches an embedding to an article that exists. *)
AttachVector(p, i) ==
  /\ Call(p, "vector", suspect)
  /\ wiki[i] # None
  /\ vecs' = vecs \cup {i}
  /\ UNCHANGED <<wiki, cache, index, raws, outer, local>>

(* Mutant: the hash cache is kept. *)
ClearKeepsCache(p) ==
  /\ Call(p, "clear", {})
  /\ wiki' = [i \in Id |-> None]
  /\ index' = NoIndex
  /\ raws' = {}
  /\ vecs' = {}
  /\ UNCHANGED <<cache, outer, local>>

(* kb clear *)
Clear(p) ==
  /\ Call(p, "clear", {})
  /\ wiki' = [i \in Id |-> None]
  /\ cache' = NoCache
  /\ index' = NoIndex
  /\ raws' = {}
  /\ vecs' = {}
  /\ UNCHANGED <<outer, local>>

-----------------------------------------------------------------------------
(* The process dies between two writes. *)
Crash(p) ==
  /\ "crash" \in Menu
  /\ pc[p] # "idle"
  /\ Exit(p)
  /\ suspect' = Files
  /\ UNCHANGED <<disk, outer>>

(* The process dies inside os.WriteFile, which has truncated the file: an  *)
(* article, the cache, the index or a raw doc.  A reader takes a broken    *)
(* cache or index for an empty one, a broken raw doc for a missing one.    *)
CrashInWrite(p) ==
  /\ "crash" \in Menu
  /\ \/ \E r \in todo[p] :
          /\ pc[p] = "save" /\ NextUp(p, r)
          /\ wiki' = [wiki EXCEPT ![Resolve(p, r).id] = TornArticle]
          /\ UNCHANGED <<cache, index, raws>>
     \/ \E t \in targets[p] :
          /\ pc[p] = "recompile" /\ NextTarget(p, t) /\ t.art.raw \cap raws # {}
          /\ wiki' = [wiki EXCEPT ![t.id] = TornArticle]
          /\ UNCHANGED <<cache, index, raws>>
     \/ \E j \in jobs[p] :
          /\ pc[p] = "compile"
          /\ raws' = raws \ {j.c}
          /\ UNCHANGED <<wiki, cache, index>>
     \/ /\ \/ pc[p] = "saveCache"
           \/ pc[p] = "delCache" /\ \E t \in targets[p] : CacheNames(t.id)
        /\ cache' = NoCache
        /\ UNCHANGED <<wiki, index, raws>>
     \/ /\ pc[p] \in {"index", "delIndex"}
        /\ index' = NoIndex
        /\ UNCHANGED <<wiki, cache, raws>>
  /\ Exit(p)
  /\ suspect' = Files
  /\ UNCHANGED <<vecs, outer>>

-----------------------------------------------------------------------------
Build(p)  == \/ BuildScan(p)
             \/ \E j \in jobs[p] : Compile(p, j) \/ CompileFails(p, j) \/ IngestFails(p, j)
             \/ LoadIds(p)
Write(p)  == \/ \E r \in todo[p] : Save(p, r)
             \/ Saved(p) \/ Retire(p) \/ RetireVecs(p) \/ SaveCache(p) \/ List(p) \/ SaveIndex(p)
Redo(p)   == \/ \E ids \in {{i} : i \in Id} \cup {{i \in Id : wiki[i] # None}} :
                  RecompileLoad(p, ids)
             \/ \E t \in targets[p] : RecompileOne(p, t) \/ RecompileSkips(p, t)
             \/ RecompileEnds(p)
Delete(p) == \/ \E i \in Id : DeleteLoad(p, i)
             \/ \E t \in targets[p] : \/ DropRaws(p, t) \/ Unlink(p, t)
                                      \/ DeleteCache(p, t) \/ DeleteVecs(p, t)
             \/ DeleteIndex(p)

Command(p) == \/ Build(p) \/ Write(p) \/ Redo(p) \/ Delete(p)
              \/ \E l \in Owner, c \in Content : Ingest(p, l, c)
              \/ \E a, b \in Handed : Accept(p, a, b)
              \/ Prepare(p) \/ Clear(p)
              \/ \E i \in Id : AttachVector(p, i)

Next == \/ \E s \in TreeSource, c \in Content \cup {None} : Edit(s, c)
        \/ \E p \in Proc : Command(p) \/ Crash(p) \/ CrashInWrite(p)

Spec == Init /\ [][Next]_vars

-----------------------------------------------------------------------------
Quiet == \A p \in Proc : pc[p] = "idle"

ArticlesOf(s) == {i \in Id : wiki[i] # None /\ wiki[i].src = s}

(* Nothing but a sourceless article ever overwrites the article of another *)
(* source, or a sourceless one, whatever titles they are given             *)
(* (IDRegistry); only the remains of a cut-short write may be replaced.    *)
NoForeignOverwrite ==
  [][\A i \in Id :
       (alone /\ wiki[i] # None /\ wiki'[i] # None /\ wiki'[i].src # wiki[i].src)
         => wiki'[i].src = NoSource \/ wiki[i].kind = "torn"]_vars

(* An id whose file Retire is about to delete is claimed by nobody, neither *)
(* by a source nor by an article without one: the command does not delete  *)
(* what it has just written (retireTwins).                                 *)
RetiredStayFree ==
  \A p \in Proc : \A i \in reg[p].retired :
    /\ reg[p].owner[i] # NoSource
    /\ \A e \in reg[p].entries : e.id # i

(* When build or accept is about to publish the cache, every source it has *)
(* compiled has exactly one article, the one the cache will name: the      *)
(* twins that a new title, a crash or an ingest left behind are gone.      *)
OneArticlePerSource ==
  \A p \in Proc : (pc[p] = "saveCache" /\ alone) =>
    \A s \in Source : snap[p][s] # cache[s] => ArticlesOf(s) = {snap[p][s].id}

(* Between commands, unless one was interrupted or two overlapped, a       *)
(* cached hash stands for an article of that source compiled from that     *)
(* content: what build skips is really there.                              *)
CacheNamesArticle ==
  (Quiet /\ "cache" \notin suspect) =>
    \A s \in Source : cache[s] # None =>
      LET art == wiki[cache[s].id]
      IN  art # None /\ art.src = s /\ art.raw = {cache[s].hash}

(* Between commands the index lists the articles on disk, at their         *)
(* versions; after a crash or an overlap, any build, accept, ingest or     *)
(* recompile that runs to its end alone makes it so again.                 *)
IndexMatchesWiki ==
  (Quiet /\ "index" \notin suspect) =>
    \A i \in Id : index[i] = IF wiki[i] = None THEN 0 ELSE wiki[i].ver

(* Between commands no embedding outlives its article, so none can be      *)
(* taken over by a later article of the same id (Retire, delete).          *)
VectorsHaveArticles ==
  (Quiet /\ "vecs" \notin suspect) => \A i \in vecs : wiki[i] # None

(* A build that has saved its cache has one up-to-date article for every   *)
(* file it scanned and did not fail to compile, skipped files included.    *)
BuildCoversTree ==
  \A p \in Proc :
    (pc[p] = "list" /\ cmd[p] = "build" /\ alone /\ "cache" \notin suspect) =>
      \A s \in TreeSource : seen[p][s] # None =>
        \E i \in Id : ArticlesOf(s) = {i} /\ wiki[i].raw = {seen[p][s]}

(* The article of a file in a glossary directory is "a hand-curated        *)
(* definition that round-trips through the wiki without LLM rewriting"     *)
(* (model.go:45), whatever commands are run on the scope.                  *)
GlossaryStaysVerbatim ==
  \A i \in Id : (wiki[i] # None /\ wiki[i].src \in Glossary) => wiki[i].kind = "glossary"

(* Commands find the scope as others have left it: with twins, changed     *)
(* ids, cut-short writes or another command in their midst; what they      *)
(* leave agrees with itself.                                               *)
ScopeIsConsistent ==
  OneArticlePerSource /\ BuildCoversTree /\ IndexMatchesWiki /\ VectorsHaveArticles
=============================================================================
