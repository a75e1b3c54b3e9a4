----------------------------- MODULE SearchIndex -----------------------------
(***************************************************************************)
(* The search index of one scope (internal/search: index.go, fresh.go,     *)
(* scope.go): cache/search_index.bin, the commands that write articles and *)
(* then the index, and the searches that prove an index fresh against the  *)
(* wiki files, or build another, and rank from it.  Every stat, read and   *)
(* rename is an action, so that all of these interleave.                   *)
(***************************************************************************)
EXTENDS WikiFiles

CONSTANTS
  Searcher,  \* processes that search
  Server,    \* those that keep the decoded index between searches (kb serve)
  Indexer,   \* writers whose commands index what they have written
  Mortal,    \* bound: processes that may be killed
  MaxSearches \* bound: searches begun

ASSUME SearcherAssumption == Searcher \subseteq Proc /\ Server \subseteq Searcher
ASSUME IndexerAssumption  == Indexer \subseteq Writer
ASSUME MortalAssumption   == Mortal \subseteq Proc /\ MaxSearches \in Nat

VARIABLES
  disk,   \* cache/search_index.bin, None if there is none
  kept,   \* the decoded index a server keeps
  call,   \* what each process is doing
  begun   \* history: searches begun so far

vars == <<now, wiki, pen, held, writes, disk, kept, call, begun>>

(* A stamp is what is known of a file when it was indexed; hash is None unless it was racy.
   An index has, per id, the article it indexed (None: none) and the stamp it vouches for it
   with.  A file that does not parse has a stamp and no article; an article whose file could
   not be stamped has the stamp Unknown, which no file matches.  raced is history: the articles that others have
   written between a command's listing of them and its stamping of their files. *)
Stamp   == [mtime : Nat, size : Nat \cup {-1}, hash : Bytes \cup {None}]
Unknown == [mtime |-> 0, size |-> -1, hash |-> None]
Stamps  == [Id -> Stamp \cup {None}]
Docs    == [Id -> Text \cup {Blank, None}]
Index   == [doc : Docs, stamp : Stamps, raced : SUBSET Id]

ASSUME NoIndexAssumption == None \notin Stamp /\ None \notin Index

NoDocs   == [i \in Id |-> None]
NoStamps == [i \in Id |-> None]
NoIndex  == [doc |-> NoDocs, stamp |-> NoStamps, raced |-> {}]

Entries(ix) == {i \in Id : ix.stamp[i] # None}

(* pc: where the process is; at: its time.Now(), taken before its ReadDir; files: that
   ReadDir; todo: entries still to visit; stat: the entry it has stat'ed and not yet hashed;
   ix: the index in hand; from: where that came from.
   History: seen, what each file has held since the search began; calm, nothing has been
   written since the search began; dirty, files written since a command began to list them. *)
Call ==
  [job : {"none", "search", "command"},
   pc : {"idle", "load", "check", "rehash", "stamp", "hash", "list", "vouch",
         "answer", "write", "unindex"},
   at : Nat, files : SUBSET Id, todo : SUBSET Id, stat : Id \cup {None},
   ix : Index, from : {"none", "kept", "disk", "built"},
   seen : [Id -> SUBSET (Text \cup {Blank, None})], calm : BOOLEAN, dirty : SUBSET Id]

Idle ==
  [job |-> "none", pc |-> "idle", at |-> 0, files |-> {}, todo |-> {}, stat |-> None,
   ix |-> NoIndex, from |-> "none", seen |-> [i \in Id |-> {}], calm |-> FALSE, dirty |-> {}]

TypeOK ==
  /\ FilesTypeOK
  /\ disk \in Index \cup {None}
  /\ kept \in [Proc -> Index \cup {None}]
  /\ call \in [Proc -> Call]
  /\ begun \in Nat

Init ==
  /\ FilesInit
  /\ disk = None
  /\ kept = [p \in Proc |-> None]
  /\ call = [p \in Proc |-> Idle]
  /\ begun = 0

Goes(p, c)  == call' = [call EXCEPT ![p] = c]
At(p, pc)   == call[p].pc = pc
Pending(p, pc, i) == At(p, pc) /\ i \in call[p].todo

Clock == Tick /\ UNCHANGED <<disk, kept, call, begun>>

(***************************************************************************)
(* Commands that write articles: SaveArticle and os.Remove.                *)
(***************************************************************************)
(* What the other calls learn when file i becomes f: history only. *)
Told(q, i, f) ==
  CASE call[q].job = "search"  -> [call[q] EXCEPT !.seen[i] = @ \cup {Parsed(f)}, !.calm = FALSE]
    [] call[q].job = "command" /\ call[q].pc \in {"list", "stamp", "hash", "vouch"} ->
         [call[q] EXCEPT !.dirty = @ \cup {i}]
    [] OTHER -> call[q]
Writes(p, i, c) == call' = [q \in Proc |-> IF q = p THEN c ELSE Told(q, i, wiki'[i])]

BeginWrite(p, i) ==
  /\ At(p, "idle")
  /\ Truncate(p, i)
  /\ Writes(p, i, [Idle EXCEPT !.job = "command", !.pc = "write"])
  /\ UNCHANGED <<disk, kept, begun>>

EndWrite(p, i, b) ==
  /\ At(p, "write")
  /\ Fill(p, i, b)
  /\ Writes(p, i, Idle)
  /\ UNCHANGED <<disk, kept, begun>>

(* os.Remove, by Retire or by delete, which removes the search index too. *)
Delete(p, i) ==
  /\ At(p, "idle")
  /\ Remove(p, i)
  /\ \/ Writes(p, i, Idle)
     \/ Writes(p, i, [Idle EXCEPT !.job = "command", !.pc = "unindex"])
  /\ UNCHANGED <<disk, kept, begun>>

(* The index file is replaced or removed: history of the searches in progress. *)
Replaces(p, ix, c) ==
  /\ disk' = ix
  /\ call' = [q \in Proc |-> IF q = p THEN c
                             ELSE IF call[q].job = "search" THEN [call[q] EXCEPT !.calm = FALSE]
                             ELSE call[q]]

RemoveIndex(p) ==
  /\ At(p, "unindex")
  /\ Replaces(p, None, Idle)
  /\ UNCHANGED <<files, kept, begun>>

(* A command that has written its articles, any number of them, lists them all and indexes
   them; one that is not an Indexer leaves the index alone (convo ingest, lint
   --normalize-categories). *)
BeginListing(p) ==
  /\ p \in Indexer
  /\ At(p, "idle")
  /\ Goes(p, [Idle EXCEPT !.job = "command", !.pc = "list", !.todo = Files])
  /\ UNCHANGED <<files, disk, kept, begun>>

(***************************************************************************)
(* Stamping: snapshotWiki, by a search over its ReadDir before it lists    *)
(* the articles, and stampDocs, by a command after it has listed them.     *)
(***************************************************************************)
Keep(c, i, s) == [c EXCEPT !.ix.stamp[i] = s, !.todo = @ \ {i}, !.stat = None, !.pc = "stamp"]

Stat(f) == [mtime |-> f.mtime, size |-> Size[f.bytes], hash |-> None]

StampEntry(p, i) ==
  /\ Pending(p, "stamp", i)
  /\ wiki[i] # None => ~Racy(wiki[i].mtime, call[p].at)
  /\ Goes(p, Keep(call[p], i, IF wiki[i] = None THEN Unknown ELSE Stat(wiki[i])))
  /\ UNCHANGED <<files, disk, kept, begun>>

StatRacy(p, i) ==
  /\ Pending(p, "stamp", i)
  /\ wiki[i] # None
  /\ Racy(wiki[i].mtime, call[p].at)
  /\ Goes(p, [call[p] EXCEPT !.pc = "hash", !.stat = i, !.ix.stamp[i] = Stat(wiki[i])])
  /\ UNCHANGED <<files, disk, kept, begun>>

HashRacy(p) ==
  /\ At(p, "hash")
  /\ LET i == call[p].stat
         s == call[p].ix.stamp[i]
     IN  Goes(p, Keep(call[p], i, IF wiki[i] = None THEN Unknown
                                  ELSE [s EXCEPT !.hash = wiki[i].bytes]))
  /\ UNCHANGED <<files, disk, kept, begun>>

(* assignStamps: an article that appeared after the snapshot has no stamp to vouch for it. *)
Assign(ix) ==
  [ix EXCEPT !.stamp = [i \in Id |-> IF ix.doc[i] # None /\ ix.stamp[i] = None THEN Unknown
                                     ELSE ix.stamp[i]]]

StampsTaken(p) ==
  /\ At(p, "stamp")
  /\ call[p].todo = {}
  /\ \/ /\ call[p].job = "search"
        /\ Goes(p, [call[p] EXCEPT !.pc = "list", !.todo = Files])
     \/ /\ call[p].job = "command"
        /\ LET ix == Assign(call[p].ix)
           IN  Goes(p, [call[p] EXCEPT !.pc = "vouch", !.ix = ix,
                                       !.todo = {i \in Entries(ix) : ix.doc[i] = None}])
  /\ UNCHANGED <<files, disk, kept, begun>>

(* Mutant of Vouch: every file without an article is recorded as one that does not parse. *)
VouchKeeps(p, i) ==
  /\ Pending(p, "vouch", i)
  /\ Goes(p, [call[p] EXCEPT !.todo = @ \ {i}])
  /\ UNCHANGED <<files, disk, kept, begun>>

(* stampDocs records a file without an article only if it does not parse. *)
Vouch(p, i) ==
  /\ Pending(p, "vouch", i)
  /\ Goes(p, [call[p] EXCEPT !.todo = @ \ {i},
                             !.ix.stamp[i] = IF Parsed(wiki[i]) # None THEN None ELSE @])
  /\ UNCHANGED <<files, disk, kept, begun>>

(* SaveIndex by a command: a temporary file renamed over the index. *)
SaveIndex(p) ==
  /\ At(p, "vouch")
  /\ call[p].todo = {}
  /\ LET ix == call[p].ix
     IN  Replaces(p, [ix EXCEPT !.raced = {i \in call[p].dirty : ix.doc[i] # None}], Idle)
  /\ UNCHANGED <<files, kept, begun>>

(***************************************************************************)
(* store.ListArticles, read file by file.                                  *)
(***************************************************************************)
ListOne(p, i) ==
  /\ Pending(p, "list", i)
  /\ Goes(p, [call[p] EXCEPT !.todo = @ \ {i}, !.ix.doc[i] = Parsed(wiki[i])])
  /\ UNCHANGED <<files, disk, kept, begun>>

Listed(p) == At(p, "list") /\ call[p].todo = {}

(* stampDocs: the command stamps the files only now. *)
BuildIndex(p) ==
  /\ Listed(p)
  /\ call[p].job = "command"
  /\ Goes(p, [call[p] EXCEPT !.pc = "stamp", !.at = now, !.files = Files, !.todo = Files])
  /\ UNCHANGED <<files, disk, kept, begun>>

(* A search has stamped them before: it saves the index it has built and ranks from it. *)
Heal(p) ==
  /\ Listed(p)
  /\ call[p].job = "search"
  /\ call[p].ix.doc # NoDocs
  /\ LET ix == Assign(call[p].ix)
     IN  Replaces(p, ix, [call[p] EXCEPT !.pc = "answer", !.ix = ix, !.from = "built"])
  /\ UNCHANGED <<files, kept, begun>>

(* Nothing to index: no answer, nothing kept, nothing written. *)
Forget(p) == kept' = [kept EXCEPT ![p] = None]

HealNothing(p) ==
  /\ Listed(p)
  /\ call[p].job = "search"
  /\ call[p].ix.doc = NoDocs
  /\ Goes(p, Idle)
  /\ Forget(p)
  /\ UNCHANGED <<files, disk, begun>>

(***************************************************************************)
(* freshIndex: try the kept index, then the saved one, then build one.     *)
(***************************************************************************)
Counts == begun < MaxSearches /\ begun' = begun + 1

BeginSearch(p) ==
  /\ p \in Searcher
  /\ At(p, "idle")
  /\ Counts
  /\ Files # {}
  /\ Goes(p, [Idle EXCEPT !.job = "search", !.at = now, !.files = Files, !.todo = Files,
                          !.pc = IF kept[p] = None THEN "load" ELSE "check",
                          !.ix = IF kept[p] = None THEN NoIndex ELSE kept[p],
                          !.from = "kept",
                          !.seen = [i \in Id |-> {Parsed(wiki[i])}], !.calm = TRUE])
  /\ UNCHANGED <<files, disk, kept>>

SearchNothing(p) ==
  /\ p \in Searcher
  /\ At(p, "idle")
  /\ Files = {}
  /\ kept[p] # None
  /\ Forget(p)
  /\ UNCHANGED <<files, disk, call, begun>>

Build(c) == [c EXCEPT !.pc = "stamp", !.ix = NoIndex, !.todo = c.files, !.stat = None]

LoadIndex(p) ==
  /\ At(p, "load")
  /\ Goes(p, IF disk = None THEN Build(call[p])
             ELSE [call[p] EXCEPT !.pc = "check", !.ix = disk, !.from = "disk", !.todo = call[p].files])
  /\ UNCHANGED <<files, disk, kept, begun>>

(* sameStamp, up to the hash. *)
SameStat(i, s) ==
  /\ s # None
  /\ wiki[i] # None
  /\ wiki[i].mtime = s.mtime
  /\ Size[wiki[i].bytes] = s.size

Candidate(p, i) == call[p].ix.stamp[i]
Passed(p, i) == Goes(p, [call[p] EXCEPT !.pc = "check", !.todo = @ \ {i}, !.stat = None])
Reject(p) ==
  Goes(p, IF call[p].from = "kept" THEN [call[p] EXCEPT !.pc = "load", !.stat = None]
                                   ELSE Build(call[p]))

CheckEntry(p, i) ==
  /\ Pending(p, "check", i)
  /\ \/ ~SameStat(i, Candidate(p, i)) /\ Reject(p)
     \/ /\ SameStat(i, Candidate(p, i))
        /\ IF Candidate(p, i).hash = None THEN Passed(p, i)
           ELSE Goes(p, [call[p] EXCEPT !.pc = "rehash", !.stat = i])
  /\ UNCHANGED <<files, disk, kept, begun>>

Rehash(p) ==
  /\ At(p, "rehash")
  /\ LET i == call[p].stat
     IN  IF wiki[i] # None /\ wiki[i].bytes = Candidate(p, i).hash THEN Passed(p, i) ELSE Reject(p)
  /\ UNCHANGED <<files, disk, kept, begun>>

RejectMissing(p) ==
  /\ At(p, "check")
  /\ call[p].todo = {}
  /\ ~(Entries(call[p].ix) \subseteq call[p].files)
  /\ Reject(p)
  /\ UNCHANGED <<files, disk, kept, begun>>

(* Mutants of Settled: no hash is dropped, or every hash is. *)
SettledNever(ix, at) == ix
SettledAlways(ix, at) ==
  [ix EXCEPT !.stamp = [i \in Id |->
     IF ix.stamp[i] # None THEN [ix.stamp[i] EXCEPT !.hash = None] ELSE None]]

(* settleStamps: a racy stamp that has been verified late enough needs its hash no more. *)
Settled(ix, at) ==
  [ix EXCEPT !.stamp = [i \in Id |->
     IF ix.stamp[i] # None /\ ~Racy(ix.stamp[i].mtime, at)
     THEN [ix.stamp[i] EXCEPT !.hash = None] ELSE ix.stamp[i]]]

(* Mutant of AcceptFresh: the entries that have no file are not counted. *)
AcceptUncounted(p) ==
  /\ At(p, "check")
  /\ call[p].todo = {}
  /\ LET ix == Settled(call[p].ix, call[p].at)
     IN  Replaces(p, ix, [call[p] EXCEPT !.pc = "answer", !.ix = ix])
  /\ UNCHANGED <<files, kept, begun>>

(* The candidate is fresh; an index that has settled is saved again. *)
AcceptFresh(p) ==
  /\ At(p, "check")
  /\ call[p].todo = {}
  /\ Entries(call[p].ix) \subseteq call[p].files
  /\ LET ix == Settled(call[p].ix, call[p].at)
         c  == [call[p] EXCEPT !.pc = "answer", !.ix = ix]
     IN  IF ix = call[p].ix THEN Goes(p, c) /\ UNCHANGED disk ELSE Replaces(p, ix, c)
  /\ UNCHANGED <<files, kept, begun>>

(* SearchScope has ranked from the index and loaded the hits; a server keeps the index. *)
Answer(p) ==
  /\ At(p, "answer")
  /\ kept' = IF p \in Server THEN [kept EXCEPT ![p] = call[p].ix] ELSE kept
  /\ Goes(p, Idle)
  /\ UNCHANGED <<files, disk, begun>>

(* A process is killed. *)
Crash(p) ==
  /\ p \in Mortal
  /\ ~At(p, "idle") \/ kept[p] # None
  /\ Drop(p)
  /\ Goes(p, Idle)
  /\ Forget(p)
  /\ UNCHANGED <<disk, begun>>

Command(p) ==
  \/ \E i \in Id : BeginWrite(p, i) \/ Delete(p, i) \/ Vouch(p, i)
  \/ \E i \in Id, b \in Text \cup {Bad} : EndWrite(p, i, b)
  \/ RemoveIndex(p) \/ BeginListing(p) \/ BuildIndex(p) \/ SaveIndex(p)

Search(p) ==
  \/ BeginSearch(p) \/ SearchNothing(p) \/ LoadIndex(p) \/ Rehash(p) \/ RejectMissing(p)
  \/ AcceptFresh(p) \/ Heal(p) \/ HealNothing(p) \/ Answer(p)
  \/ \E i \in Id : CheckEntry(p, i)

Both(p) ==
  \/ \E i \in Id : StampEntry(p, i) \/ StatRacy(p, i) \/ ListOne(p, i)
  \/ HashRacy(p) \/ StampsTaken(p)

Next == Clock \/ \E p \in Proc : Command(p) \/ Search(p) \/ Both(p) \/ Crash(p)

Spec == Init /\ [][Next]_vars

(***************************************************************************)
(* Properties.                                                             *)
(***************************************************************************)
(* One file as an index would be checked against it now. *)
LooksFresh(ix, i) ==
  IF wiki[i] = None THEN ix.stamp[i] = None
  ELSE SameStat(i, ix.stamp[i]) /\ ix.stamp[i].hash \in {None, wiki[i].bytes}

(* The indexes a search may answer from, now or later. *)
InUse == ({disk} \cup {kept[p] : p \in Proc}
          \cup {call[p].ix : p \in {q \in Proc : call[q].pc \in {"check", "rehash", "answer"}}}) \ {None}

(* No file looks fresh to an index that holds something else for it: whatever is written,
   deleted or killed between the stats, the reads and the renames of a search or a command,
   and within whatever grain of the clock.  Excepted are articles that others wrote while a
   command was between listing and stamping them, and a file that is blank because its
   writer is at work or died. *)
FreshIsExact ==
  \A ix \in InUse : \A i \in Id \ ix.raced :
    LooksFresh(ix, i) => ix.doc[i] = Parsed(wiki[i]) \/ Parsed(wiki[i]) = Blank

(* A search ranks, for every article, what its file said at some moment of that search,
   unless the file was blank, because it was being rewritten, at some moment of it; what was
   written or deleted before the search began is never missed. *)
SearchSeesWiki ==
  \A p \in Proc : At(p, "answer") =>
    \A i \in Id \ call[p].ix.raced :
      call[p].ix.doc[i] \in call[p].seen[i] \/ Blank \in call[p].seen[i]

(* A search during which nobody writes leaves behind an index that the next one accepts, and
   that holds no hash to verify again once every file has settled. *)
SearchHeals ==
  \A p \in Proc : At(p, "answer") /\ call[p].calm =>
    /\ \A i \in Id : LooksFresh(call[p].ix, i)
    /\ call[p].from # "kept" => disk = call[p].ix
    /\ \A i \in Files : call[p].ix.stamp[i].hash # None => Racy(wiki[i].mtime, call[p].at)
=============================================================================
