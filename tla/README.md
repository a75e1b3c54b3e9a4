# kb-go in TLA+

kb-go (`src/`) keeps a knowledge base of compiled articles on disk. Every command is
a short-lived process that reads one *scope* (a directory below `~/.knowledge-base`),
works for anything between milliseconds and minutes, and writes the scope back file
by file. There is no lock, no transaction and no daemon that owns the data, several
commands may run at once, and any of them may be killed. What keeps the scope
together is the order of the writes, what each command reads when, and the rules by
which articles get their ids. That is what this project models, checks with TLC and,
where it matters most, proves with TLAPS.

## 1. Inventory of the system

| component | source | state it keeps | operations |
|---|---|---|---|
| article identity | `store/store.go:130-305` | in a command's memory: `IDRegistry` (owner of every id, lines per source, retired ids) | `LoadIDRegistry`, `Has`, `Claim`, `ClaimFixed`, `retireTwins`, `Retire` |
| scope files | `store/store.go`, `model/model.go` | `wiki/<id>.md`, `raw/<hash>.json`, `cache/hashes.json`, `index.json` | load, save, list, `RebuildIndex`, `kb clear` |
| build | `cli/cmd_build.go`, `cli/scan.go` | job list, results, copies of cache and registry | scan, compile in a worker pool, claim, save, retire, cache, index, contradiction scan |
| agent path | `cli/cmd_prepare.go`, `cli/cmd_accept.go` | raw docs; the payload is outside | hand out pending files; take back compiled articles |
| ingest | `cli/cmd_ingest.go` | one text under a caller's label | compile and save; attach a vector |
| delete | `cli/cmd_delete.go` | an article and the index read at its start | raw docs, article, index, cache, vectors, in this order |
| recompile | `cli/cmd_recompile.go` | articles loaded at its start | compile again from raw docs, rewrite in place |
| vector index files | `store/vectors.go`, `vector/` | `vectors.bin`, a legacy `vectors.json` | load with migration, save, attach, remove |
| search index | `search/fresh.go`, `index.go`, `scope.go` | `cache/search_index.bin`: stamps of wiki files and postings | writers save, searches prove fresh, heal, settle |
| index codec | `search/indexfile.go` | - | encode, decode, postings of one term |
| ranking | `search/scope.go`, `bm25.go`, `vector.go`, `context.go`, `tokenstream.go`, `porter.go` | - | BM25, tag masks, rank fusion, excerpts |
| MCP server | `mcp/mcp.go` | `articleCache`: parsed articles with stamps, decoded indexes | tool calls, each re-checks the disk |
| watch | `cli/watch.go` | queue of events, debounce timer | initial build, file events, rebuilds |
| compilers | `compile/` | - | the Anthropic API, a shell command |
| glossary | `glossary/` | - | parse a glossary file, list, show, validate |
| contradiction scan | `contradiction/` | - | group definitions, report disagreements |
| lint, categories | `lint/`, `cli/cmd_lint.go` | - | checks; category clusters, rewriting articles |
| conversations | `convo/`, `cli/cmd_convo.go` | articles saved without a registry | chunk and save a session |
| export, graph | `export/`, `cli/cmd_graph.go` | - | markdown, JSON, concept graph |
| parsers, text helpers | `parse/`, `textutil/` | - | regular expressions over source text |
| command line | `cli/` (rest), `main.go` | - | dispatch, flags, read-only output |

**How they interact.** The commands never call one another; they meet in the files of
a scope. The wiki is the truth; `index.json`, the search index and the MCP cache are
derived from it; the hash cache decides what build and prepare skip; raw docs are what
recompile compiles from; vectors are keyed by article id. Within a command everything
is sequential except build's worker pool, whose results are sorted before they are
claimed, so its interleavings reach the scope only through the raw docs it writes.

**What is hard.** (1) A command reads early and writes late: the hash cache is read
before the compiles and replaced as a whole after them. (2) A command can die between
any two writes and inside one; the next command has to live with what it finds.
(3) Ids are chosen from titles that a language model invents, so any two articles may
want the same one, and a source may come back under another title. (4) Glossary files
declare their ids. (5) Texts without a path share one empty source. (6) Derived files
carry time stamps that can lie within a clock tick. PROJECT.json lists these as
hazards, each at the line where it bites.

**What makes each component correct.**
- *Identity*: two sources never overwrite each other; a source has one article; what is
  retired is not claimed again before it is deleted; versions go up by one.
- *Scope files*: between commands the index lists the wiki, the cache names articles
  that exist and were compiled from that hash, vectors have articles.
- *Build*: when the cache is published, every file scanned has one up-to-date article.
- *Glossary*: what was written by hand stays verbatim (it does not: section 3) and keeps its id.
- *Vector files*: they are a map from ids to vectors, whatever the two files look like; a
  migration never loses a vector that a writer has saved.
- *Search index, MCP cache*: no answer from before a write that had ended when the
  question was asked.
- *Worker pool, watch*: every job ends; a change is followed by a rebuild.
- *Server*: every request is answered once, in order; a result says what scope it is of.
- *Ranking*: what is left out is worse than what is found; a context keeps its budget, its
  tables and its fences.
- *Conversations*: every turn is in an article, with what was decided in it.
- *Categories*: no label in two forms, also if it takes several runs; an index that has the labels.
- *Glossary checks*: what passes them resolves; build and validate report the same.

## 2. Modules

| module | models | built on |
|---|---|---|
| `ArticleIds` | `IDRegistry`: pure operators from a registry to a registry | - |
| `KBStore` | a scope, the commands, crashes; the properties | `ArticleIds` |
| `KBStoreInv` | the conditions on ids and labels, and the inductive invariants | `KBStore` |
| `MCKBStore` | instances for TLC | `KBStoreInv` |
| `KBStoreProofs` | types, `IdentityInv` and what follows from it, the agreement of the files of a scope | `KBStoreInv` |
| `WikiFiles` | wiki files under a coarse clock, written in two halves | - |
| `WikiFilesProofs` | lemmas on files and times | `WikiFiles` |
| `SearchIndex` | the search index, commands that save it, searches; the properties | `WikiFiles` |
| `SearchIndexInv` | the inductive invariants of the three properties | `SearchIndex` |
| `SearchIndexProofs` | types, the invariant, the three properties | `SearchIndexInv`, `WikiFilesProofs` |
| `MCSearch` | instances for TLC | `SearchIndexInv` |
| `ArticleCache` | the parsed articles a server keeps, beside writers; the properties | `WikiFiles` |
| `ArticleCacheProofs` | types, that answers are current and the cache settles | `ArticleCache`, `WikiFilesProofs` |
| `MCArticleCache` | instances for TLC | `ArticleCache` |
| `VectorMap` | what a vector index promises: a map | - |
| `VectorStore` | the two vector files, their readers, migrations and writers; the refinement | `VectorMap` |
| `VectorStoreInv` | the inductive invariant behind the refinement | `VectorStore` |
| `VectorStoreProofs` | types, `LoadIsExact` and the refinement | `VectorStoreInv` |
| `MCVectors` | instances for TLC | `VectorStoreInv` |
| `BuildPool` | a build's scan, reads, worker pool and save | - |
| `Watch` | `kb watch`: events, queue, timer, rebuilds; liveness | `BuildPool` |
| `WatchInv` | the inductive invariant of both | `Watch` |
| `WatchProofs` | types, that a pool is never stuck, that a loop at rest has built all it heard of | `WatchInv` |
| `Orders` | sets of numbers in order | - |
| `McpServer` | the JSON-RPC loop and the tools, over a wiki that changes | `Orders` |
| `Ranking` | search by words, by a vector and by both | `Orders` |
| `RankingInv` | the inductive invariant of what a query finds | `Ranking` |
| `Sums` | the sum of a family of numbers, as a count | - |
| `Excerpts`, `ExcerptsInv` | a context cut to its budgets; its inductive invariant | `Sums` |
| `Sections`, `SectionsInv` | how an article is split into sections and blocks; its inductive invariant | - |
| `RankingProofs` | what a query finds and in which order, what a context takes of it, how an article is split | `RankingInv`, `ExcerptsInv`, `SectionsInv` |
| `Conversations` | `kb convo ingest` | - |
| `Categories` | `kb lint --normalize-categories --apply` | `Orders` |
| `GlossaryCheck` | glossary validation, lookup and the contradiction scan | `Orders` |
| `MCLibrary` | an instance of the seven modules above | all seven |
| `LibraryInv` | inductive invariants of four of them | `Conversations`, `McpServer`, `GlossaryCheck`, `Categories` |
| `LibraryProofs` | what those four promise | `LibraryInv` |

### ArticleIds

A registry is a record: `owner` (who holds an id, `NoSource` for an article without a
path, `None` for nobody), `ver`, `entries` (the lines of `bySource`) and `retired`.
`Claim` and `ClaimFixed` return the id, the version and the next registry, and are
composed like the Go code of `Held` (the loop over `bySource`), `Keep`, `RetireTwins`,
`Disambiguate` and `Record`.

Ids are numbers in the order of the code's strings (`sort.Strings` picks the least held
id). Ids that differ only in case are one id: the owner map of the code is keyed by the
lower-cased id, and on the file systems that fold case they are one file. `Alt` is
`disambiguatedID`: the id that 8, 16 and 64 hex digits of the source's hash make of a
title; nothing is assumed of it, so candidates of different sources may collide.

### KBStore

One variable per kind of file (`wiki`, `cache`, `index`, `raws`, `vecs`), the source tree
(`tree`), what prepare has handed out (`offered`), and per process its place (`pc`,
`cmd`) and its memory (`jobs`, `todo`, `targets`, `reg`, `snap`, `listing`, `seen`).
An article keeps its source, the raw docs it was compiled from, its version and its
kind; a content stands for a file's bytes, their hash and the raw doc id cut from it.
Every write of a file is an action; a read belongs to the action after which the code
first uses it from memory. So:

| code | actions |
|---|---|
| `runBuild` | `BuildScan` (cache and tree read), `Compile`/`CompileFails` per job in any order, `LoadIds`, `Save` per result in the code's order, `Saved`, `Retire`, `RetireVecs`, `SaveCache`, `List`, `SaveIndex` |
| `ingestText` | `Ingest`, `Compile`/`IngestFails`, `LoadIds`, `Save`, ..., without a cache |
| `cmdPrepare`, `cmdAccept` | `Prepare`; `Accept` (cache and registry read at once), `Save`, ... |
| `cmdRecompile` | `RecompileLoad`, `RecompileOne`/`RecompileSkips` in id order, `RecompileEnds`, `List`, `SaveIndex` |
| `cmdDelete` | `DeleteLoad` (article and index), `DropRaws`, `Unlink`, `DeleteIndex`, `DeleteCache` (cache read here), `DeleteVecs` |
| `AttachVector`, `cmdClear` | one action each |
| a kill | `Crash` between writes, `CrashInWrite` inside `os.WriteFile`, which truncates first: a torn article still parses (no source, version 1), a torn cache or index reads as empty, a torn raw doc as missing |

What a compiler answers is not modelled: it fails, or proposes any title of `Slug`.
A file of a glossary directory is parsed instead (`Front`): it declares an id and a
version, or does not parse and is kept under its file name.

Two history variables say when a property may be claimed at all. `alone` is true while
no two of the running commands have overlapped. `suspect` holds the derived files that
a crash or an overlap may have left behind: a crash and an overlapping start put all
three in it, a command that runs alone and rewrites the index takes `index` out, `clear`
takes all out. The code promises nothing while commands overlap (it has no lock), and
the properties that need it say so; `RetiredStayFree`, `IdentityInv` and the repair of
the index are claimed without it.

### WikiFiles and SearchIndex

`KBStore` treats a wiki file as an atomic thing and leaves the search index out;
`SearchIndex` looks at the same files through a stat and a read. `WikiFiles` has the
clock (`now`), the files with bytes and a modification time, and `pen`, the file a process
has truncated and not filled yet. The file system keeps times in grains (`Grain`), and
`racyWindow` (`Window`) is at least a grain, which is what the constant's comment in
`fresh.go` says it is for. A file whose frontmatter does not parse (`Bad`) is no article,
a blank one is: `ParseArticle` takes any text without a frontmatter.

| code | actions |
|---|---|
| `os.WriteFile` | `BeginWrite` (truncates), `EndWrite` |
| `Retire`, `cmdDelete` | `Delete`, then `RemoveIndex` if it is delete |
| `ListArticles` + `BuildIndex` + `SaveIndex` of a command | `BeginListing`, `ListOne` per file in any order, `BuildIndex` (clock and `ReadDir` of `stampDocs`), `StampEntry` or `StatRacy` and `HashRacy` per file, `StampsTaken`, `Vouch` per file without an article, `SaveIndex` |
| `freshIndex` | `BeginSearch` (clock, `ReadDir`), `CheckEntry` and `Rehash` per file, `RejectMissing` or `AcceptFresh` (settles and saves), `LoadIndex`, then `StampEntry`..., `ListOne`..., `Heal` or `HealNothing` |
| `articleCache.search` | `Answer` keeps the index a server has used, `HealNothing` and `SearchNothing` drop it |
| a kill | `Crash`, which leaves a truncated file blank |

Every stat, read and rename is an action, so all of them interleave with the writers'.
An index maps an id to the article it indexed and to its stamp; postings, words and ranks
follow from the article and are left out. `call` also keeps history for the properties:
what a file has held since a search began (`seen`), whether anyone wrote (`calm`), and
which files others have written since a command began to list (`dirty`, from which
`SaveIndex` notes `raced` in the index it publishes).

### ArticleCache

The same files, seen by `kb serve`: `articleCache.list` takes the time, lists `wiki/`,
stats each entry, keeps those it trusts, stamps and reads the others, drops what it has
not seen and puts its answer together again if anything has changed.

| code (`mcp/mcp.go`) | actions |
|---|---|
| `list` up to `ReadDir` | `BeginList`, then `ReadDir` or `ReadNoDir` (`kb clear`) |
| the loop over the entries | `Keep`, `Skip` (gone), or `Stamp` and `ReadFile` |
| after the loop | `Assemble`; `Answer` hands it to `mcpList`, `mcpStats` or a search of several scopes |

The history `seen` collects what each file has been since a call began. Here a file may be
given, within a grain, bytes that it has had before (`Rewrites`): the cache keeps no hashes,
so nothing depends on it.

### VectorMap and VectorStore

`VectorStore` has the two files (`bin`, `json`), each with what it holds and a stamp, and a
process per call. `LoadVectors` is `StatBin`, `ReadBin`, `StatJson`, `Decode`, then
`publishMigration` with its guard and its recheck (`GuardJson`, `GuardBin`, `Link` or
`NoLink`, `Recheck`, `RenameMigrated`); `AttachVector`, delete and `Retire` continue with
`Use`, and `SaveVectors` is `StampJson`, `Save`, `RemoveJson`. Each may fail or die. A scope may
come from an older kb, or have a version-1 `vectors.bin` without a source stamp, made
before or after the JSON. `OlderKb` writes the JSON, the only file it knows.

`VectorMap` is what the commands rely on. Under the mapping `stored <- Stored` (what a load
that nobody disturbs returns), every step of `VectorStore` is a step of the map or none: a
migration, a crash, a leftover file change nothing, `Save` changes one entry. The map has two
steps that promise nothing: `Replace`, for an older kb, and `Overlap`, for a write that
overlaps another (there is no lock) and for a migration that a write overtakes after its
guard. `overtaken` and `stale` note exactly those, no more: every other interleaving is
covered by the refinement.

### BuildPool and Watch

`KBStore` lets a compile end in any order and says nothing of who waits. `BuildPool` has
the goroutines: `StartJobs`, and per job `Acquire` (a token of the semaphore), `Compiled` or
`CompileFails`, `Release`; `SaveResults` once all have left. The tree may change at any moment,
so what was read, what is saved and what is cached can differ. `Watch` puts `cmdWatch` around
it: `Start` and `Open` (no events before the watcher exists), `Edit` by anybody, which fills
the bounded queue or overflows it, `HandleEvent`, the timer (`Expire`) and `Rebuild`. The loop
takes no event while it builds.

`Fairness` is weak, of each of these actions but the edits and the choice between `Compiled`
and `CompileFails`: goroutines that can run are run, the timer runs out (its
runtime sends the tick), a compile ends because of its timeout, and Go's `select` takes what
is ready. Nobody has to edit anything. `Build` as a whole is fair rather than every goroutine:
its steps are finitely many per build, so it cannot favour one for ever.

### The library: McpServer, Ranking, Excerpts, Sections, Conversations, Categories, GlossaryCheck

These parts share no state but the wiki they read, and none waits for another. Each
is a module with its own variables, `...Init`, `...Idle` and `...Next`, and `MCLibrary` runs one
of them per behaviour, with the others at rest: to interleave them would multiply states and
show nothing more.

- `McpServer`: `ReceiveLine` takes one message of any kind (blank, too long, garbled, a
  notification, a request, a call of each tool); a call of several scopes lists them one by
  one, while articles come and go, excludes by tag, ranks, and answers.
- `Ranking`: `UseIndex`, `RankByWords`, `RankByVector`, `LoadHit`; articles may be deleted
  in between. Scores are any numbers; ties fall anywhere, as with `sort.Slice`. The weights of
  fused ranks, `1 / (k + rank + 1)`, are counted in units of which each is a whole number
  (`Unit`, a common multiple of the denominators; `UnitAssumption`), so that sums are exact where the code's floats round.
- `Excerpts`: `searchContextBlocks` and `contextExcerpt` with their budgets; units are tried by
  score (`TryBest`), then filled up (`TryRest`), or the head is taken (`TryHead`). Text is known by
  its length in bytes, a unit by its section and block (block 0 for a section that is tried whole);
  what is taken is a set, which the code sorts by place before it writes. Lengths are added up by
  `SumOf`, which counts places instead of recurring.
- `Sections`: `parseContextSections` and `splitContextBlocks`, a line per step. The code collects a
  section's lines and splits them when the section ends; nothing else reads them in between, so here
  `split` is the splitter's state (blocks, the block in the making, its own fence flag) after
  the lines that are read. That this flag agrees with the one of `parseContextSections` is proved, not assumed.
- `Conversations`: `Visit` and `EndPass` are the passes of `ClusterTopics`; `SaveConversation`
  saves the larger clusters first, under ids that labels of other clusters may reduce to.
- `Categories`: a run that finds no variants returns (`FindNoVariants`), unless it is to print JSON;
  else `BeginLint` lists and clusters, `Rewrite` saves one article or fails to,
  `ListAgain`, `SaveCategories` and `IndexFails` rebuild the index, `LintDies` ends it between any two
  of these. `outcome` is that of the last run alone; the counter `failures` is a bound and in no property.
- `GlossaryCheck`: a build saves entries (`SaveEntry`); the checks are operators over them.

### The properties

Of a scope:

- `NoForeignOverwrite` (action): an article is only replaced by one of its own source,
  by one without a source (documented as "legacy slug-only behavior"), or if it is the
  rest of a cut-short write.
- `RetiredStayFree`: an id queued for deletion is held by nobody else.
- `OneArticlePerSource`: when the cache is published, every source compiled by this
  command has one article, the one the cache will name.
- `BuildCoversTree`: then every file scanned, skipped or compiled, has one article, of
  its content.
- `CacheNamesArticle`, `IndexMatchesWiki`, `VectorsHaveArticles`: the derived files agree
  with the wiki between commands.
- `ScopeIsConsistent`: the four of them that must survive changed declared ids and
  overlapping commands, as one: `OneArticlePerSource`, `BuildCoversTree`, `IndexMatchesWiki`,
  `VectorsHaveArticles`.
- `GlossaryStaysVerbatim`: hand-written definitions stay. `kb recompile` breaks it (section 3).
- `TypeOK`, and `IdentityInv`, the inductive invariant of section 4.

And of the search index:

- `SearchSeesWiki`: for every article, a search ranks what its file said at some moment of
  that search. A write that ended before the search began is never missed.
- `FreshIsExact`: no file looks fresh to an index, saved or kept, that holds something else
  for it, within whatever grain it is written.
- `SearchHeals`: a search that nobody disturbs leaves an index that the next one accepts,
  without a hash for a file that is old enough.
- `SearchInv`: the inductive invariant of section 4: a stamp can only be met again
  by bytes it does not stand for if its time is the present grain, and then it has a hash.

The first two except an article that another process writes while a command is between
listing it and stamping it (`raced`), and a file that is blank because its writer is at
work or was killed. The first exception is a divergence (below). The second is what
truncating a file means, and one search later it is gone.

Of the other parts:

- `AnswerIsCurrent`: what a server answers of an article is what its file was at some
  moment of the call. `TrustedIsExact`: an entry that is served without a read is what its
  file holds. `CacheSettles`: a call leaves every file that was old enough when it
  began trusted, whatever is written meanwhile.
- `VectorsAreMap`: the refinement above. `LoadIsExact`: a load returns the stored vectors,
  however many others are migrating them.
- `BuildEnds`, `ChangesAreBuilt`: every build ends, for which every token must come back; a
  change that gave an event is followed by a build of what the file holds. `SomeJobMoves`, `RestIsBuilt`:
  what of this must hold at every moment, whatever the scheduler does.
- `AnsweredInOrder`, `ResultsKeepTheirScope`: requests and answers correspond one to one;
  a result of a search of several scopes names its own scope.
- `BestAreFound`, `FusionIsMonotone`: an article is left out for a reason; a fused ranking
  contradicts neither of the two it is made of where these agree.
- `ExcerptsAreSound` (`CostBoundsHold`, `ContextFits`, `TablesKeepARow`): the bounds an excerpt
  is chosen by are bounds; budgets hold; a table that is cut keeps a row.
  `ArticlesAreSplitWhole` (`LinesKept`, `FencesAreWhole`): splitting an article loses no line and
  cuts no fence.
- `ClustersAreChains`, `EveryTurnIsKept`, `DecisionsFollowTurns`: clusters are the
  connected components (two turns are `Connected` if no set of turns that shares no name with
  the rest, `Apart`, parts them); a turn is lost only with its topic, and only to a topic that
  is no larger and whose label reduces to the same id; an article lists what its turns decide.
- `RunIsComplete`: a run that neither failed nor died itself leaves no label in two forms, whatever
  runs failed or died before it (`NoVariantsLeft`). A run that saved an article and ended in order leaves
  an index with what is on disk, and one that saved none leaves it as it was: it is behind only
  from a run that saved an article and not the index until one that saves both (`IndexHasCategories`).
  `RerunAgrees`: runs that repeat one that failed or died choose the same labels.
- `CleanNamesResolve`, `BuildReportsWhatValidateDoes`: of the glossary checks.

## 3. Runs

All instances use two slugs that can collide, 10 and 11. Slug 10 is disambiguated to 11,
then 12, the same for all sources, then to the source's own id; slug 11 to the source's
own id at once. So every length of disambiguation happens, and one candidate is itself
a slug another title proposes. Two contents of a file let it change and change
back (in `kb_upkeep` it is the glossary file that changes: its three contents declare one id, another one
with another version, and none); a third source is only needed for a label.

| run | commands (bound) | states | question |
|---|---|---|---|
| `kb_ingest` | build, ingest, accept by hand (3) | 427 k | every candidate of a disambiguation, labels, texts without a source |
| `kb_upkeep` | build, prepare, accept, delete, recompile, vector, clear, crashes (3), of a code file and a glossary file | 1.16 M | do the four stores agree; stale payloads, changed declared ids and unparsable entries, twins after a crash, files that build skips |
| `kb_overlap` | build, ingest, delete by two processes (3) | 323 k (up to symmetry) | every interleaving of two commands, and a third |

`MaxCommands` bounds the commands started, `Menu` says which kinds an instance has.
Three commands are what the deepest scenarios need: one leaves an article, a second
leaves a twin, a changed id or a half-done write, the third must cope, and the
articles of two builds and an ingest are enough for the last candidate of a disambiguation.
A payload of accept has one or two articles, and a
build one or two files, which is where two claims of one command meet. In the runs of
a single process the source tree changes only between commands
(`EditBetweenCommands`): a command reads the tree in one step, its first, and nothing
else reads it, so an edit in the middle of a command commutes with its other steps, and one after
the last command is not read at all. `kb_overlap` has no such constraint. In `kb_overlap` no vector is
made, so of `ScopeIsConsistent` the part on vectors says nothing there; `kb_upkeep` has them. Deadlock is not checked: when the commands of the
bound are used up and the tree is at rest, nothing is left to do.

The runs of the search index:

| run | instance (bound) | states | question |
|---|---|---|---|
| `search_server` | two files, a writer that never indexes, a server (2 searches, 3 writes, times 0 and 1) | 1.0 M | is a kept or saved index ever trusted wrongly; files that appear and vanish while others are checked |
| `search_indexed` | one file, two writers, one indexes what both write and may die, the other searches (2 searches, 2 writes, times 0 to 2 in grains of 2) | 1.5 M | stamps, settling and hashes beside commands that save the index; `SearchInv`, with the race that it excepts |

Two texts of the same length are enough for any confusion of two contents; grains and
a window of two ticks, and times 0 to 2, give a stamp every age the window distinguishes; the second search is the
one that meets what the first has left; of two files one can vanish while the other keeps
the search from stopping early. A writer may write and index as
often as the writes last. The constant `Rewrites` says whether a file can be given, within one
grain, bytes it has had in that grain before. The runs say no, because a stamp and a hash
cannot tell such a file from one that was never touched: a search that has hashed a file
and then lists it while it is truncated would index a blank article, and the same bytes,
written again within the tick, would make that index look fresh.

The runs of the other parts:

| run | instance (bound) | states | question |
|---|---|---|---|
| `article_cache` | two files, a writer that may die, a server (2 calls, 3 writes, times 0 to 3 in grains of 2) | 1.1 M | truncated, vanished and same-stamp files during and between calls |
| `vectors` | a writer and a reader of two ids (3 calls, one write of an older kb) | 1.2 M (up to symmetry) | the refinement; every interleaving of two loads that migrate, of a load and a write, of a write and an older kb, with a crash anywhere |
| `watch` | two files, two contents, one token, room for two events (3 edits) | 250 k | two jobs for one token; a change before the watcher, during a build, during the debounce, beyond the queue |
| `library` | one behaviour per part (bounds below) | 1.09 M | the questions of the seven modules above |

Three calls to the vectors are two that interleave at every step and one that meets what they
have left. Three edits change a file while its change is being built, and another file, and
fill the queue. In `library`: transcripts of three messages over three entities, two of which
reduce to one id; up to two (`MaxRanked`) of three articles, one of which fits, one with a table, one with a long title,
under 15 pairs of budgets; articles of up to six lines; two lines from a client and one
change of the wiki beneath them; three docs with three possible scores and limits of 0 and
2, one of them deleted during a query; three articles with eight lists of five labels, three runs, one failed save
(a run that fails or dies, one that finishes its work, or cannot, and a clean one); two
glossary sources of 18. These bounds are on
inputs, each of which is handled alone, and are large enough for every branch of the code to be
taken (no action or disjunct is left unreached); the interplay of more would repeat it.
`CHECK_DEADLOCK FALSE` is in every configuration: at its bounds, an instance stops.

Only `Watch` states fairness (section 2). All other properties are of safety, and a
command may stop anywhere.

### What the code does against its comments

Each of these runs checks one property, which quotes what the repository says, and TLC
finds a behaviour of the code that breaks it.

| run | property | behaviour |
|---|---|---|
| `watch_list_pattern` | `ChangesAreBuilt` | the build takes `--pattern "*.go,*.py"` as two globs, the watcher matches events against it as one: no change is ever rebuilt |
| `kb_glossary_recompile` | `GlossaryStaysVerbatim` | "a hand-curated definition that round-trips through the wiki without LLM rewriting" (`model.go:45`): `kb recompile` compiles it like any article, and the new article takes over id, version, source and docs (`cmd_recompile.go:72`), so that it is no glossary article any more |
| `convo_json` | `DecisionsFollowTurns` | a JSON transcript with a message that is no turn (a tool's, an empty one): decisions after it are listed under another cluster, or none |

The modules show more, which the passing runs except or leave out, as said at each property:

- *Declared ids.* `ClaimFixed` does not look at owners: a glossary file can take the id of a
  code file's article and overwrite it (`store.go:247`, against `store.go:138`), and an id that one file has given up
  and another declares in the same build is written and then deleted by `Retire` (against
  `store.go:252`). A code file whose article a glossary entry has just taken over is
  compiled over the entry in the same build, because `Held` still lists the id. So the
  runs keep to declared ids that no title proposes and no two glossary files share
  (`DistinctIds`, which TLC evaluates as an assumption of `MCKBStore`).
- *Glossary entries* are compiled, and lose their kind, also on the agent path: prepare hands out the
  files of a glossary directory with the others. In `kb_upkeep` they are, and a build of a changed
  file parses it again; the stores agree all the same.
- *Accept*: a payload that retires a twin and then carries an article without a source under the
  twin's id loses that article to `Retire`.
- *Search index*: a command lists an article, another process writes it, the command stamps
  it (`search/index.go:163`): the index holds the old words and looks fresh until the file
  changes again (`raced`).
- *Vectors*: two writes that overlap may undo one another (`Overlap`).
- *Watch*: changes between the initial build and the making of the watcher, in directories made
  later or beyond the queue give no event (`missed`); a rebuild that finds no files ends
  `kb watch`, because `scanDir`'s caller is `fatal`.
- *Server*: `notifications/initialized` with an id is a request and is not answered; a line
  that is JSON but no request is answered without its id; a line over 16 MB ends the server.
- *Excerpts*: the summary counts a quarter of the budget whatever the title has left of it, so a
  long title with a summary can exceed the budget (the exception in `ContextFits`).
- *Fusion*: the vectors of deleted articles take places among the `topK`, so fewer hits
  may come back than there are articles.
- *Conversations*: labels that reduce to one id, or agree in the 60 characters an id is
  cut to, share a file, and the last one saved has it; ties among labels follow Go's map order, so that the same
  file ingested twice may leave two sets of articles, which the content hash of the session
  (`convo.go:182`: "idempotent") does not prevent. The "general" cluster is never reached.
- *Categories*: a run rewrites articles as it listed them, over what others have saved since. If it dies
  after its last save, or cannot save `index.json`, the next one finds nothing to rewrite and returns
  (`cmd_lint.go:124`): a clean run, with an index that is behind (`IndexHasCategories`). What `categories.go:43` calls
  "article count" counts a label as often as articles list it: an article that has a label twice can make a
  second run choose another label than the first, since the rewrite drops the repetition (`RerunAgrees`).
- *Contradictions*: when two sources of a build share an id, the pass over the results is not the
  no-op `cmd_build.go:300-309` describes: the overwritten definition, seen first, stands for the
  article. "loose" compares whole definitions and finds more than "strict", not
  fewer (`contradiction.go:18`).
- *Build*: the error of `SaveArticle` is dropped and the cache entry written: after a full disk the
  file counts as compiled.

## 4. Proofs

`KBStoreProofs` proves `TypeCorrect`: `Spec => []TypeOK`. It rests on lemmas about the
registry's operators (`MinInSet`: the least held id is one of them; `DisambiguateResult`:
disambiguation ends at a candidate that is open or at the last one) and on
`TargetsLoaded`: recompile's targets are articles, without which the record it writes
back has no type.

It also proves, under two conditions on the constants,

- `IdentityHolds`: `Spec => []IdentityInv`,
- `RetiredFree`: `Spec => []RetiredStayFree`,
- `NoOverwrite`: `Spec => NoForeignOverwrite`.

The conditions: `DistinctIds`, the ids that only one source may hold (`Own`: the title
with 64 hex digits of its hash, the ids a glossary file declares) are neither slugs nor
ids that another source may hold; `AllSourced`, every article of an accept payload
names its source. Neither can be dropped: see declared ids and accept at the end of section 3. Nothing is assumed of the shorter disambiguations, of the
number of processes, of how they overlap, or of where they die.

*Why an inductive invariant.* Neither property is inductive. That a claimed id is not a
retired one needs, for the last and unchecked candidate, that no other source can own
it, hence that whoever owns an id may hold it (`May`), on disk, in every registry and
in every command's pending work. For the checked candidates it needs that an owner of a
retired id has another line, which `Claim` would have found (`RegistryOK`, `Lines`), and
for a label, which only looks at lines that share a raw doc, that an ingest has retired
nothing before its only claim (`OneLabel`). For declared ids it needs that a build saves
at most one article per file (`OncePerSource`). `NoOverwrite` adds that a registry agrees
with the disk for as long as its command has run alone (`RegistryMatches`, `Solo`), and
that recompile's targets do (`TargetsMatch`). The proof has one lemma per kind of claim,
each concluding `ClaimOK`; `SaveStep` uses it; the other steps are carried by lemmas on
what a step does to the process that takes it and to the others (`BusyStep`, `CallStep`,
`PhaseStep`, `ExitStep`, `StartStep`).

It proves, too, that the files of a scope agree with each other:

| theorem | property | condition |
|---|---|---|
| `VectorsAgree` | `VectorsHaveArticles` | none |
| `IndexAgrees` | `IndexMatchesWiki` | none |
| `OneArticle` | `OneArticlePerSource` | `DistinctIds`, `AllSourced` |
| `CachedIsThere` | `CacheNamesArticle` | `DistinctIds`, `OutsideLabelled` |
| `BuildCovers` | `BuildCoversTree` | `DistinctIds`, `OutsideLabelled` |
| `ScopeAgrees` | `ScopeIsConsistent` | `DistinctIds`, `OutsideLabelled` |

`OutsideLabelled` says that a text from outside the tree, ingested or accepted by hand, has a
label, which is no path of a file in the tree. Without it an ingest under a file's path takes
that file's article over and leaves its cache entry, which `CacheNamesArticle` rightly
calls wrong: the code has no other way to tell such a text from the file. Without a source,
a text is written over whatever article has its slug. All configurations of section 3 satisfy the conditions of the properties they
check but `kb_ingest`, whose texts include one without a source and which does not check these.

*Why inductive invariants.* The properties speak of moments at which no command runs,
or one is about to publish. Between those, the files disagree in ways that the process at work
knows. `VectorsInv`: an embedding without an article is of an id that somebody has removed and
whose embedding he is yet to remove (`Doomed`). `IndexInv`: what a command has listed is
the wiki for as long as it runs alone; a delete, which read the index at its start, holds that of
the wiki without its article (`ListingOK`). Both rest on `LoneInv`: a process that is
alone is the only one at work, and an overlap suspects every file. `SoleInv`: the registry in
memory knows each article that its source has and that is not retired (`Complete`), so
the claim that retires twins retires all; each source whose entry differs from the cache's has one
article that stays (`SoleArticle`). `CacheInv` is the strongest: the copy of the cache that a
command is going to publish is at every step `Exact` for the wiki without what that command will
remove. For this an accept of an old payload is no exception, as it stores the older hash together
with the older text, and neither is a build that skips files: what it skips is exact already
(`Covering`).
Each proof has a lemma per kind of command, over what a step leaves alone (`Moves`).

`SearchIndexProofs` proves of the search index

- `SearchTypes`: `Spec => []TypeOK`, without any condition;
- `SearchInvariant`: `Spec => []SearchInv` and `FreshExact`: `Spec => []FreshIsExact`, if
  `~Rewrites`: no file is given, within one grain, bytes it has had in that grain. Without
  that the property is false (section 3), as it is for the code: a time, a size and a
  hash cannot tell such a file from one that nobody has touched.

They hold for any number of processes, servers and files, for any sizes, for any grain
that the window covers (`GrainAssumption`), and wherever a process is killed.

*Why an inductive invariant.* `FreshIsExact` speaks of the indexes in use, at one moment. A
write may make a file look fresh again to an index that holds something else, unless the
entry is `Ready`: its time is past, or it has a hash, of bytes that the file is not given
again. An entry becomes `Ready` because a stat that is not racy is of a past grain
(`NotRacy`, where the window must cover the grain), and because a file that is hashed
after a racy stat is not older than that stat (`HashInv`). An index in the making need
not be exact yet: what is known of it depends on whether it is stamped before it is listed
(a search, `BuildInv`) or after (a command, `CommandInv`, where the second reading of
`Vouch` is needed and the others' writes are excepted). An entry without a stamp must
have no article, or a deletion would make it look fresh. A search that settles an index
drops hashes, which is right only because it has seen each entry match (`CheckInv`) late
enough after its time.

The proof has three parts: what a tick and a write do to an entry, an index and another
process's call (`ReadyKept`, `ExactKept`, `VerifiedKept`, `CallKept`); that any other step
keeps the invariant if it does so for its own call and for the indexes it makes
(`Quiet`); and one lemma for every kind of step that shows just that.

It adds `SearchSees`: `Spec => []SearchSeesWiki`, under the same condition. An
index that is accepted is a set of verdicts given at different moments, so exactness at one
moment is not enough. `SeenInv` says of each file that the search has been told of all it has
been since the search began; that what has been checked or listed so far is one of these;
that a file whose stat matched, and whose hash is compared a step later, still has that
stat or is gone or has been blank meanwhile; and that a file its `ReadDir` lacks was missing at
one moment of it. For the blank, `PenInv`: whoever rewrites a file has truncated it first.

And it proves `SearchHealed`: `Spec => []SearchHeals`, without any condition: also a file that is
given old bytes again is healed by a search that nobody disturbs. `HealInv` says what a search knows
of a wiki that has been still since it began: what it has checked looks fresh; what it has stamped
looks fresh and has a hash only if it is racy (`Stamped`), also after the index is settled, where
a hash goes because the search has begun a window after the file was written; and the
index it answers from is the saved one, or the one it has kept.

`ArticleCacheProofs` proves of the articles a server keeps

- `CacheTypes`: `Spec => []TypeOK`,
- `TrustedExact`: `Spec => []TrustedIsExact`,
- `AnswersCurrent`: `Spec => []AnswerIsCurrent`,
- `CacheIsSettled`: `Spec => []CacheSettles`,

without a condition on what is written, for any number of servers, writers, files and calls, and
for any grain that the window covers.

*Why an inductive invariant.* A trusted entry must not only be right now but stay so
when its file is written: `Lasting` says that its time is past, so that no file will be given it
again. It becomes so because the stat precedes the read and because a call that does not find
the stat racy has begun a whole window after it (`NotRacy`); that the call's time is no later than the clock is the
rest of `TrustInv`. An answer is put together at the end of a call from entries of
different moments, some of them older than the call: `AnswerInv` says of each file what the call may
conclude of it so far (kept or read: the entry is one of `seen`; met and not usable: nothing is one
of `seen`), and that the answer of an earlier call is still the entries unless this one
has changed one. `SettleInv`, for the last, says of each file that is old enough for a call that, once
met, its entry is trusted, and that a stat taken of it is still its own; a file written since is no longer
old enough, as the clock is not behind the call. The proof treats writers, removals, kills and the clock as one kind of step
(`Outside`), and each step of a server on its own.

`WikiFilesProofs` has what both proofs need of files and times.

`VectorStoreProofs` proves of the vector files

- `VectorTypes`: `Spec => []TypeOK`,
- `LoadExact`: `Spec => []LoadIsExact`,
- `VectorsImplementMap`: `Spec => VectorsAreMap`, the refinement,

for any processes, writers, ids, vectors and calls, from the assumptions that `None` is no file,
vector or number and that no two versions of a file share a stamp (the model's clock).

*Why an inductive invariant.* Each step but a write's rename must leave `Stored` alone, and
whether it does depends on what a process has read long before. `Noted` carries stats forward:
if `vectors.bin` still has the stamp a process has noted, it is what that process has read, and
does not account for the JSON; if `vectors.json` still has, it is what was decoded. So a
migration that passes its guard (`Ready`) is of the JSON that is stored (`Migration`). A version-1
file has no source stamp, so what it accounts for depends on its own stat: that such a file is
never written is what saves the call that stats it and reads it in two steps. `Loading` says what an
undisturbed call is on its way to return. The removal of the JSON is the hardest: it changes
nothing only if `vectors.bin` accounts for it (`Settled`) and if nobody who has read before can still
publish or decode it; `Aware` says that whoever has not been written over knows the new
`vectors.bin`, and whoever is past its guard counts as overtaken. `NewBin` and `Published`
hold what a rename and a link share; `LocalStep` reduces all other steps to their own process.

`LibraryProofs` proves, of any behaviour that starts in the module's initial states and takes its
steps,

| theorem | module | property | condition |
|---|---|---|---|
| `EveryLineIsAnswered` | `McpServer` | `AnsweredInOrder` | none |
| `ResultsAreScoped` | `McpServer` | `ResultsKeepTheirScope` | none |
| `TopicsAreChains` | `Conversations` | `ClustersAreChains` | none |
| `TurnsAreKept` | `Conversations` | `EveryTurnIsKept` | none |
| `DecisionsFollow` | `Conversations` | `DecisionsFollowTurns` | plain transcripts |
| `CleanGlossary` | `GlossaryCheck` | `CleanNamesResolve` | none |
| `BuildReports` | `GlossaryCheck` | `BuildReportsWhatValidateDoes` | none |
| `LintCompletes` | `Categories` | `RunIsComplete` | none |
| `RerunsAgree` | `Categories` | `RerunAgrees` | no article lists a label twice |

for any clients, wikis, transcripts, glossaries and labels, from the assumptions that scopes, names, articles and
labels are finitely many, that messages and sources are of their types, and that ids are numbers. A JSON
transcript is what `DecisionsFollow` must exclude: run `convo_json` shows why. A repeated label is what
`RerunsAgree` must (section 3).

*Why inductive invariants.* An answer is written one or more steps after its line is
read, and a call of several scopes reads a wiki that changes under it. `ServerInv`: a call in the
works is the last line's, which is the only one without an answer; while it lists
scopes, it keeps beside each article the scope it was listed in, and what it excludes it
excludes from both (`CallOK`). `ClusterInv`: that a cluster is a connected component is said with sets
and not with chains, whose lengths would need an induction. No set that shares no name with the
rest parts a cluster (`Undivided`), because each turn joins by a name it shares; a cluster whose
passes have ended shares no name with the rest (`EndedApart`), because a pass that has added no turn
has seen every one (`PassInv`, where a turn seen early in a pass that adds another later counts only
in the next). `SavedInv`: a turn's cluster is still to be saved, or there is an article under one of
its ids that is no larger, since what is still to be saved never is larger than what has been. `EntriesInv`: what a scope's glossary says, some source says. `BuildInv`: what a build has
compiled is there, as it was saved unless a later source took its id; so putting it before a listing adds no candidate
but of articles that are listed (`MembersAreArticles`). `LintInv`: a run has the articles it has not looked at as they are on
disk, those it has looked at have its choices only, and no key has two labels that it had not
clustered (`RewriteInv`); so a run whose saves have not failed leaves none, whatever it was begun with. Until it
has saved an article the index is as it was, and from then on the run ends with an index built from a new listing, or is known not to
(`CatIndexInv`). `PromiseInv`: what the first run has chosen stays the best label of its key while lists are rewritten
(`BestStays`), because articles come to use it and none comes to use another.

`WatchProofs` proves of a build and of `kb watch`

| theorem | property | condition |
|---|---|---|
| `WatchIsInvariant` | `IInv` | none |
| `WatchKeepsTypes` | `TypeOK` | none |
| `PoolIsNeverStuck` | `SomeJobMoves` | none |
| `ChangesAreBuiltAtRest` | `RestIsBuilt` | `--pattern` is one glob |

for any finite tree, any contents, any number of tokens and any size of the queue. The last two say
without fairness what the liveness properties `BuildEnds` and `ChangesAreBuilt` rest on: while a build has
jobs, one of them compiles, has a token to give back, or finds one to take; and when the loop has no event,
no timer and no build, each file whose last change gave an event is gone, or was built or failed as it is.
The condition of the last is the divergence that run `watch_list_pattern` shows.

*Why an inductive invariant.* A job that waits finds a token only if those that are taken will come back:
`PoolInv` says that `sem` is the number of goroutines that hold one (`Holding`), none of which waits.
What `RestIsBuilt` says at rest is false while work is in progress, so `ChangesInv` follows a change through it:
either it is `Expected`, in the queue or by the timer, or the build at work is going to read the file,
has read it as it is, or has found it in the cache (`Handled`). The critical steps are an edit during a
build, which leaves the queue to remember it, and the end of a build, which drops what `Handled` knew:
there, `PoolInv` says that each job has left an article or an error of what was read.

`RankingProofs` proves of a query, from the assumptions that there are finitely many articles and that `Unit` is what it
must be,

- `BestOfAll`: `BestAreFound`,
- `FusionKeepsOrder`: `FusionIsMonotone`,

for any scores, limits, tags and depth, whatever is deleted meanwhile. Of the context that is made of its hits,

- `ExcerptsSound`: `ExcerptsAreSound`,

for any articles, scores, positive budgets and separators, from the assumption that the mark between two pieces
(`contextSkip`) has two bytes or more; and of an article that is split,

- `ArticlesSplitWhole`: `ArticlesAreSplitWhole`,

for articles of any lines and any length.

*Why an inductive invariant.* Hits are loaded one by one, and some are gone: `HitsInv` says that what has been
loaded is in the order of the ranking (`Precedes`) and before what is still to be loaded. `WordsInv` says what
is missing from the ranking, and that of what was ranked only the deleted is not loaded. Positions are turned into docs
and back (`ScoreIndex`), which is right because those that are kept are all in `kept`, each once. That fusion
is monotone rests on the weights: an article that is above another in a list weighs more there (`WeightsFall`).

The code never measures an excerpt: it adds up what each piece it takes will cost, in the order of the
scores, and later writes the pieces in the order of the text, with a mark only where something is left
out. `CostInv` says of that counter what does not depend on any order: it is the length of each
piece with a mark, but for the first, and once the heading of each section that blocks come from. That
this bounds what is written (`BodyFits`) follows because a body has no more gaps than pieces, and
a heading is written once per section, before its first piece. `PiecesInv` says that no unit is taken twice, and
that of a table that was cut a row is left beside its head. `PartsInv` carries the budgets of the articles that are
written already to the total, with the exception `Overlong` (section 3). The sums of lengths are cardinalities (`Sums`),
since about a sum by recursion nothing could be proved here.

Of an article that is half read, `SectionsInv` says where its lines are: those of the complete sections lie before
the open one's heading, those of the open section after it, in the order of the text, and only blank lines are nowhere
(`PlacesInv`, `SplitInv`). A fence is open if and only if there have been an odd number of them, and then all its lines so far are
in the block in the making (`OpenFence`), which neither a blank line nor a heading ends. `Took` is
what a line does to the open section: every block stays inside one block, so a fence that was whole stays whole.

The inductive invariants of the `...Inv` modules have been checked by TLC, on the instances of section 3
(`CacheInv` on all but `kb_ingest`), before they were proved.

### What is only model-checked

- *Liveness*: `BuildEnds`, `ChangesAreBuilt`. Fairness and ENABLED are out of this
  prover's reach.
  What these two need besides fairness is proved (`PoolIsNeverStuck`, `ChangesAreBuiltAtRest`).

Every other property of a passing run is a theorem, under the conditions above.

## 5. What is abstracted, and what is left out

- Titles, texts, hashes and times are members of small sets. The index keeps the version
  of an article for its whole line. Concepts, categories, summaries and word counts are
  left out: no property here is about them.
- A write that fails other than by a crash (a full disk, a permission), and a file that
  cannot be read, are not modelled in `KBStore`; they are in `VectorStore`, `Categories` and `BuildPool` (a compile).
- A kill inside a write of `kb lint` (a torn article or index) is not in `Categories`; what such a file does to
  the next command is in `KBStore`.
- `kb clear` is one step; the code removes a directory tree.
- `--since` only takes files out of a build's job list, which `CompileFails` covers for
  the files it leaves out; its path handling is not modelled.
- Wiki files: one process writes a file at a time, readers and the file system share one
  clock (as `mcp.go` says of its own window), a read of a file is one step.
- The search index file is replaced as a whole. `writeFileAtomic` writes in place where a
  rename is refused; a torn file fails its checksum and counts as none. `kb clear` is, for
  the index, deletes followed by `RemoveIndex`. `HealIndex` has no caller outside tests.
- In `KBStore` vector files are a set of ids, in `VectorStore` a map; the bytes of `vectors.bin`
  and their checksum, dimensions and the cosine are left out. Two versions of a vector file never have the
  same size and time.
- The library: scores are any numbers, text is known by its length or its kind of line,
  names by what they reduce to. BM25, tokenizing and stemming, the regular
  expressions that find entities and decisions, YAML and JSON parsing are not modelled.

### Not modelled

- *Index file codec* (`search/indexfile.go`): a byte format behind a checksum, which `SearchIndex`
  takes as whole or none. A model of its varints would be the code again.
- *Compilers*: external programs and HTTP; `KBStore` and `BuildPool` take from them that a compile fails or
  proposes any title, and ends.
- *Exports and graphs*: read-only; one pass over the articles that prints.
- *Parsers, text helpers*: regular expressions over source text, without state.
- *Command line*: dispatch, flags and output. *`lint.Structural`*: one pass over the articles
  that prints a list. *`--since`*'s path handling, argument checks and schemas of the MCP tools.

## 6. Plan

Done: everything in section 2. What is left, in this order:

1. An abstract specification of search, in which one reads the wiki at one moment per file,
   implemented by `SearchIndex`, and the same for `ArticleCache`.
2. Failing writes in `KBStore`, with the dropped error of `SaveArticle`.
3. Conversations and categories as commands of `KBStore`, where they would meet the others'
   copies of the index.
4. The concept graph's choice of edges (`export/graph.go`) as a pure algorithm.
5. Proofs: that a call of the server and a build's save refine these abstract specifications, once they are stated.
