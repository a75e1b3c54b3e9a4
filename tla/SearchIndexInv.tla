--------------------------- MODULE SearchIndexInv ---------------------------
(***************************************************************************)
(* The inductive invariant behind FreshIsExact: why no step can make a     *)
(* file look fresh to an index that holds something else for it.           *)
(***************************************************************************)
EXTENDS SearchIndex

(* No file is given the time t any more. *)
Old(t) == t < Coarse(now)

(* A stamp of file i that no later write can make match again: its time is past, or it has
   a hash, of bytes that the file has had in this grain and is not given again. *)
Ready(i, s) ==
  s # None /\ s.size # -1 =>
    s.mtime <= Coarse(now) /\ (Old(s.mtime) \/ s.hash \in held[i] \cup {Blank})

Exact(ix, i) == LooksFresh(ix, i) => ix.doc[i] = Parsed(wiki[i]) \/ Parsed(wiki[i]) = Blank

Safe(ix, i) ==
  /\ Ready(i, ix.stamp[i])
  /\ ix.stamp[i] = None => ix.doc[i] = None
  /\ i \in ix.raced \/ Exact(ix, i)

FilesInv ==
  \A i \in Files :
    /\ wiki[i].mtime <= Coarse(now)
    /\ Old(wiki[i].mtime) \/ wiki[i].bytes \in held[i] \cup {Blank}

(* A process has stat'ed a file, and has a stamp to go with it, while it is about to read it,
   and only then; a file that is about to be hashed is not older than that stat. *)
StatInv(c) ==
  IF c.pc \in {"hash", "rehash"} THEN c.stat # None /\ c.ix.stamp[c.stat] # None
  ELSE c.stat = None

HashInv(c) ==
  c.pc = "hash" =>
    LET s == c.ix.stamp[c.stat]
    IN  s.mtime <= Coarse(now) /\ (c.stat \in Files => s.mtime <= wiki[c.stat].mtime)

(* A search stamps, then lists. *)
BuildInv(c) ==
  c.job = "search" =>
    /\ c.pc \in {"stamp", "hash"} => c.ix.doc = NoDocs
    /\ c.pc \in {"stamp", "hash", "list"} =>
         c.ix.raced = {} /\ \A i \in Id : i # c.stat => Ready(i, c.ix.stamp[i])
    /\ c.pc = "list" =>
         \A i \in Id \ c.todo : c.ix.stamp[i] # None => Exact(c.ix, i)

(* A command lists, stamps, and reads again what it has stamped and not listed. *)
CommandInv(c) ==
  c.job = "command" =>
    /\ c.pc = "list" =>
         /\ c.ix.stamp = NoStamps
         /\ \A i \in Id \ (c.todo \cup c.dirty) : c.ix.doc[i] = Parsed(wiki[i])
    /\ c.pc \in {"stamp", "hash", "vouch"} =>
         /\ \A i \in Id : i # c.stat => Ready(i, c.ix.stamp[i])
         /\ \A i \in Id \ c.dirty : c.ix.doc[i] = Parsed(wiki[i])
    /\ c.pc = "vouch" =>
         /\ \A i \in c.todo : c.ix.doc[i] = None
         /\ \A i \in Id : c.ix.stamp[i] = None => c.ix.doc[i] = None
         /\ \A i \in Id \ c.todo : c.ix.doc[i] = None => Exact(c.ix, i)

(* What a search has verified is still so, or will never look so again. *)
CheckInv(c) ==
  c.pc \in {"check", "rehash"} =>
    \A i \in c.files \ c.todo :
      SameStat(i, c.ix.stamp[i]) /\ ~Racy(c.ix.stamp[i].mtime, c.at) => LooksFresh(c.ix, i)

(* Which job is where. *)
Where(c) ==
  /\ c.at <= now
  /\ c.pc \in {"load", "check", "rehash", "answer"} => c.job = "search"
  /\ c.pc \in {"vouch", "write", "unindex"} => c.job = "command"
  /\ c.pc \in {"stamp", "hash", "list"} => c.job \in {"search", "command"}
  /\ c.pc = "idle" => c.job = "none"

CallInv(c) == StatInv(c) /\ HashInv(c) /\ BuildInv(c) /\ CommandInv(c) /\ CheckInv(c) /\ Where(c)

TypeInv == TypeOK /\ \A p \in Proc : StatInv(call[p])

SearchInv ==
  /\ FilesInv
  /\ \A ix \in InUse : \A i \in Id : Safe(ix, i)
  /\ \A p \in Proc : CallInv(call[p])

(***************************************************************************)
(* The inductive invariant behind SearchSeesWiki: why every article that a *)
(* search ranks was there at some moment of it.                            *)
(***************************************************************************)
(* A file that is being written is blank, and one process writes it. *)
PenInv ==
  \A p \in Proc : pen[p] # None =>
    /\ wiki[pen[p]] # None /\ wiki[pen[p]].bytes = Blank
    /\ \A q \in Proc \ {p} : pen[q] # pen[p]

(* Article i of the index in hand is what the file was at some moment of this search, unless
   the file was blank at one. *)
Seen(c, i) == c.ix.doc[i] \in c.seen[i] \/ Blank \in c.seen[i]

(* Every file is what it was at some moment of the search, and one that its ReadDir lacks was
   missing; what it has checked or listed it has seen; and a file whose stat it has checked
   and whose hash it is about to check has that stat, is gone, or has been blank since. *)
SeenInv(c) ==
  c.job = "search" =>
    /\ \A i \in Id : Parsed(wiki[i]) \in c.seen[i]
    /\ \A i \in Id \ c.files : None \in c.seen[i]
    /\ c.pc \in {"check", "rehash"} =>
         \A i \in c.files \ (c.todo \cup c.ix.raced) : Seen(c, i)
    /\ c.pc = "rehash" =>
         \/ SameStat(c.stat, c.ix.stamp[c.stat])
         \/ wiki[c.stat] = None
         \/ Blank \in c.seen[c.stat]
    /\ c.pc = "list" => \A i \in Id \ c.todo : Seen(c, i)
    /\ c.pc = "answer" => \A i \in Id \ c.ix.raced : Seen(c, i)

SearchSeenInv == PenInv /\ \A p \in Proc : SeenInv(call[p])

(***************************************************************************)
(* The inductive invariant behind SearchHeals: what a search knows of a    *)
(* wiki that nobody writes while it runs.                                  *)
(***************************************************************************)
(* The entry of file i is accepted by the next search, and has a hash only if it is racy. *)
Stamped(c, i) ==
  /\ LooksFresh(c.ix, i)
  /\ i \in Files /\ c.ix.stamp[i].hash # None => Racy(wiki[i].mtime, c.at)

(* Who answers searches.  Beside an index file ix, while nobody writes: what is known while a
   candidate is checked, while an index is built, and when the search answers. *)
HealInv(c, ix) ==
  /\ c.pc \in {"load", "check", "rehash", "answer"} => c.job = "search"
  /\ c.job = "search" /\ c.calm =>
       /\ c.files = Files
       /\ c.pc \in {"check", "rehash"} =>
            /\ \A i \in c.files \ c.todo : LooksFresh(c.ix, i)
            /\ c.from # "kept" => ix = c.ix
       /\ c.pc = "rehash" => SameStat(c.stat, c.ix.stamp[c.stat])
       /\ c.pc \in {"stamp", "hash"} =>
            c.todo \subseteq Files /\ \A i \in Id \ c.todo : Stamped(c, i)
       /\ c.pc = "hash" =>
            SameStat(c.stat, c.ix.stamp[c.stat]) /\ Racy(c.ix.stamp[c.stat].mtime, c.at)
       /\ c.pc \in {"stamp", "hash", "list"} => \A i \in Id \ Files : c.ix.doc[i] = None
       /\ c.pc \in {"list", "answer"} => \A i \in Id : Stamped(c, i)
       /\ c.pc = "answer" /\ c.from # "kept" => ix = c.ix

SearchHealInv == \A p \in Proc : HealInv(call[p], disk)
=============================================================================
