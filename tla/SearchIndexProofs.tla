-------------------------- MODULE SearchIndexProofs --------------------------
(***************************************************************************)
(* Types of the search index, why an index that looks fresh is exact, that *)
(* a search answers from what the files were while it ran, and that it     *)
(* leaves the index that the next search needs.                            *)
(***************************************************************************)
EXTENDS SearchIndexInv, WikiFilesProofs

(***************************************************************************)
(* Types.                                                                  *)
(***************************************************************************)
(* What is read off a stat is a stamp. *)
LEMMA StatType ==
  ASSUME NEW f \in File
  PROVE  Stat(f) \in Stamp
BY SizeAssumption DEF Stat, File, Stamp, Bytes

(* The operators on an index return an index. *)
LEMMA IndexTypes ==
  /\ NoIndex \in Index
  /\ \A ix \in Index : Assign(ix) \in Index
  /\ \A ix \in Index, at \in Nat : Settled(ix, at) \in Index
<1>1. Unknown \in Stamp
  BY DEF Unknown, Stamp
<1>2. NoIndex \in Index
  BY DEF NoIndex, Index, NoDocs, NoStamps, Docs, Stamps
<1>3. ASSUME NEW ix \in Index PROVE Assign(ix) \in Index
  BY <1>1 DEF Assign, Index, Stamps
<1>4. ASSUME NEW ix \in Index, NEW at \in Nat PROVE Settled(ix, at) \in Index
  <2>1. \A s \in Stamp : [s EXCEPT !.hash = None] \in Stamp
    BY DEF Stamp
  <2> QED BY <2>1 DEF Settled, Index, Stamps
<1> QED BY <1>2, <1>3, <1>4

(* A step of one process leaves the others' calls. *)
LEMMA GoesType ==
  ASSUME TypeOK, NEW p \in Proc, NEW c \in Call, Goes(p, c)
  PROVE  call' \in [Proc -> Call]
BY DEF TypeOK, Goes

(* An idle process has a call like any other. *)
LEMMA IdleType == Idle \in Call
BY IndexTypes DEF Idle, Call

(* A search that gives a candidate up goes on to the next one or builds an index. *)
LEMMA BuildType ==
  ASSUME NEW c \in Call
  PROVE  Build(c) \in Call
BY IndexTypes DEF Build, Call

(* So does one that has passed an entry or rejected a candidate. *)
LEMMA MovesType ==
  ASSUME TypeOK, NEW p \in Proc, NEW i, Passed(p, i) \/ Reject(p)
  PROVE  call' \in [Proc -> Call]
<1>1. call[p] \in Call
  BY DEF TypeOK
<1>2. [call[p] EXCEPT !.pc = "check", !.todo = @ \ {i}, !.stat = None] \in Call
  BY <1>1 DEF Call
<1>3. [call[p] EXCEPT !.pc = "load", !.stat = None] \in Call /\ Build(call[p]) \in Call
  BY <1>1, BuildType DEF Call
<1> QED BY <1>2, <1>3, GoesType DEF Passed, Reject

(* A call that goes over its files has one of these forms. *)
LEMMA CallTypes ==
  ASSUME NEW c \in Call, NEW i \in Id
  PROVE  /\ [c EXCEPT !.calm = FALSE] \in Call
         /\ [c EXCEPT !.dirty = @ \cup {i}] \in Call
         /\ \A d \in Text \cup {Blank, None} : [c EXCEPT !.ix.doc[i] = d, !.todo = @ \ {i}] \in Call
         /\ \A s \in Stamp \cup {None} : [c EXCEPT !.ix.stamp[i] = s] \in Call
         /\ \A s \in Stamp : Keep(c, i, s) \in Call
<1>2. [c EXCEPT !.calm = FALSE] \in Call
  BY DEF Call
<1>3. [c EXCEPT !.dirty = @ \cup {i}] \in Call
  BY DEF Call
<1>4. ASSUME NEW d \in Text \cup {Blank, None}
      PROVE [c EXCEPT !.ix.doc[i] = d, !.todo = @ \ {i}] \in Call
  BY DEF Call, Index, Docs
<1>5. ASSUME NEW s \in Stamp \cup {None}
      PROVE [c EXCEPT !.ix.stamp[i] = s] \in Call
  BY DEF Call, Index, Stamps
<1>6. ASSUME NEW s \in Stamp PROVE Keep(c, i, s) \in Call
  BY DEF Keep, Call, Index, Stamps
<1> QED BY <1>2, <1>3, <1>4, <1>5, <1>6

(* What the others are told of a written file is history of the right type. *)
LEMMA WritesType ==
  ASSUME TypeOK, FilesTypeOK', NEW p \in Proc, NEW i \in Id, NEW c \in Call, Writes(p, i, c)
  PROVE  call' \in [Proc -> Call]
<1>1. Parsed(wiki'[i]) \in Text \cup {Blank, None}
  BY ParsedType DEF FilesTypeOK
<1>2. ASSUME NEW q \in Proc PROVE Told(q, i, wiki'[i]) \in Call
  <2>1. call[q] \in Call
    BY DEF TypeOK
  <2>2. [call[q] EXCEPT !.seen[i] = @ \cup {Parsed(wiki'[i])}, !.calm = FALSE] \in Call
    BY <1>1, <2>1 DEF Call
  <2> QED BY <2>1, <2>2, CallTypes DEF Told
<1> QED BY <1>2 DEF Writes

(* The index file holds an index or nothing. *)
LEMMA ReplacesType ==
  ASSUME TypeOK, NEW p \in Proc, NEW ix \in Index \cup {None}, NEW c \in Call, Replaces(p, ix, c)
  PROVE  disk' \in Index \cup {None} /\ call' \in [Proc -> Call]
<1>1. \A q \in Proc : [call[q] EXCEPT !.calm = FALSE] \in Call
  BY DEF TypeOK, Call
<1> QED BY <1>1 DEF TypeOK, Replaces

(* Commands. *)
LEMMA CommandType ==
  ASSUME TypeOK, NEW p \in Proc, Command(p)
  PROVE  TypeOK'
<1> USE DEF TypeOK
<1>0. call[p] \in Call /\ Idle \in Call
  BY IdleType
<1>1. ASSUME NEW i \in Id, BeginWrite(p, i) PROVE TypeOK'
  <2>1. FilesTypeOK'
    BY <1>1, FilesType DEF BeginWrite
  <2>2. [Idle EXCEPT !.job = "command", !.pc = "write"] \in Call
    BY <1>0 DEF Call
  <2> QED BY <1>1, <2>1, <2>2, WritesType DEF BeginWrite
<1>2. ASSUME NEW i \in Id, NEW b \in Text \cup {Bad}, EndWrite(p, i, b) PROVE TypeOK'
  <2>1. FilesTypeOK'
    BY <1>2, FilesType DEF EndWrite
  <2> QED BY <1>0, <1>2, <2>1, WritesType DEF EndWrite
<1>3. ASSUME NEW i \in Id, Delete(p, i) PROVE TypeOK'
  <2>1. FilesTypeOK'
    BY <1>3, FilesType DEF Delete
  <2>2. [Idle EXCEPT !.job = "command", !.pc = "unindex"] \in Call
    BY <1>0 DEF Call
  <2> QED BY <1>0, <1>3, <2>1, <2>2, WritesType DEF Delete
<1>4. CASE RemoveIndex(p)
  BY <1>0, <1>4, ReplacesType DEF RemoveIndex, files, FilesTypeOK
<1>5. CASE BeginListing(p)
  <2>1. [Idle EXCEPT !.job = "command", !.pc = "list", !.todo = Files] \in Call
    BY <1>0 DEF Call, Files
  <2> QED BY <1>5, <2>1, GoesType DEF BeginListing, files, FilesTypeOK
<1>6. CASE BuildIndex(p)
  <2>1. [call[p] EXCEPT !.pc = "stamp", !.at = now, !.files = Files, !.todo = Files] \in Call
    BY <1>0 DEF Call, Files, FilesTypeOK
  <2> QED BY <1>6, <2>1, GoesType DEF BuildIndex, files, FilesTypeOK
<1>7. ASSUME NEW i \in Id, Vouch(p, i) PROVE TypeOK'
  <2>1. call[p].ix.stamp[i] \in Stamp \cup {None}
    BY <1>0 DEF Call, Index, Stamps
  <2>2. [call[p] EXCEPT !.todo = @ \ {i},
                        !.ix.stamp[i] = IF Parsed(wiki[i]) # None THEN None ELSE @] \in Call
    BY <1>0, <2>1 DEF Call, Index, Stamps
  <2> QED BY <1>7, <2>2, GoesType DEF Vouch, files, FilesTypeOK
<1>8. CASE SaveIndex(p)
  <2> DEFINE ix == [call[p].ix EXCEPT !.raced = {i \in call[p].dirty : call[p].ix.doc[i] # None}]
  <2>1. ix \in Index
    BY <1>0 DEF Call, Index
  <2>2. Replaces(p, ix, Idle)
    BY <1>8 DEF SaveIndex
  <2> QED BY <1>0, <1>8, <2>1, <2>2, ReplacesType DEF SaveIndex, files, FilesTypeOK
<1> QED BY <1>1, <1>2, <1>3, <1>4, <1>5, <1>6, <1>7, <1>8 DEF Command

(* Steps that commands and searches share. *)
LEMMA BothType ==
  ASSUME TypeInv, NEW p \in Proc, Both(p)
  PROVE  TypeOK'
<1> USE DEF TypeOK, TypeInv
<1>0. call[p] \in Call
  OBVIOUS
<1>1. ASSUME NEW i \in Id, StampEntry(p, i) PROVE TypeOK'
  <2>1. (IF wiki[i] = None THEN Unknown ELSE Stat(wiki[i])) \in Stamp
    BY StatType DEF FilesTypeOK, Unknown, Stamp
  <2> QED BY <1>0, <1>1, <2>1, CallTypes, GoesType DEF StampEntry, files, FilesTypeOK
<1>2. ASSUME NEW i \in Id, StatRacy(p, i) PROVE TypeOK'
  <2>1. Stat(wiki[i]) \in Stamp
    BY <1>2, StatType DEF FilesTypeOK, StatRacy
  <2>2. [call[p] EXCEPT !.pc = "hash", !.stat = i, !.ix.stamp[i] = Stat(wiki[i])] \in Call
    BY <1>0, <2>1 DEF Call, Index, Stamps
  <2> QED BY <1>2, <2>2, GoesType DEF StatRacy, files, FilesTypeOK
<1>3. ASSUME NEW i \in Id, ListOne(p, i) PROVE TypeOK'
  <2>1. Parsed(wiki[i]) \in Text \cup {Blank, None}
    BY ParsedType DEF FilesTypeOK
  <2>2. [call[p] EXCEPT !.todo = @ \ {i}, !.ix.doc[i] = Parsed(wiki[i])] \in Call
    BY <1>0, <2>1 DEF Call, Index, Docs
  <2> QED BY <1>3, <2>2, GoesType DEF ListOne, files, FilesTypeOK
<1>4. CASE HashRacy(p)
  <2> DEFINE i == call[p].stat
             s == IF wiki[i] = None THEN Unknown
                  ELSE [call[p].ix.stamp[i] EXCEPT !.hash = wiki[i].bytes]
  <2>1. i \in Id /\ call[p].ix.stamp[i] \in Stamp
    BY <1>0, <1>4 DEF HashRacy, At, StatInv, Call, Index, Stamps
  <2>2. s \in Stamp
    BY <2>1 DEF FilesTypeOK, File, Unknown, Stamp
  <2>3. Goes(p, Keep(call[p], i, s))
    BY <1>4 DEF HashRacy
  <2> QED BY <1>0, <1>4, <2>1, <2>2, <2>3, CallTypes, GoesType DEF HashRacy, files, FilesTypeOK
<1>5. CASE StampsTaken(p)
  <2>1. [call[p] EXCEPT !.pc = "list", !.todo = Files] \in Call
    BY <1>0 DEF Call, Files
  <2>2. \A ix \in Index : [call[p] EXCEPT !.pc = "vouch", !.ix = ix,
                                  !.todo = {i \in Entries(ix) : ix.doc[i] = None}] \in Call
    BY <1>0 DEF Call, Entries
  <2>3. Assign(call[p].ix) \in Index
    BY <1>0, IndexTypes DEF Call
  <2> QED BY <1>5, <2>1, <2>2, <2>3, GoesType DEF StampsTaken, files, FilesTypeOK
<1> QED BY <1>1, <1>2, <1>3, <1>4, <1>5 DEF Both

(* Searches. *)
LEMMA SearchType ==
  ASSUME TypeInv, NEW p \in Proc, Search(p)
  PROVE  TypeOK'
<1> USE DEF TypeOK, TypeInv
<1>0. call[p] \in Call /\ Idle \in Call
  BY IdleType
<1>1. CASE BeginSearch(p)
  <2> DEFINE c == [Idle EXCEPT !.job = "search", !.at = now, !.files = Files, !.todo = Files,
                          !.pc = IF kept[p] = None THEN "load" ELSE "check",
                          !.ix = IF kept[p] = None THEN NoIndex ELSE kept[p],
                          !.from = "kept",
                          !.seen = [i \in Id |-> {Parsed(wiki[i])}], !.calm = TRUE]
  <2>1. \A i \in Id : Parsed(wiki[i]) \in Text \cup {Blank, None}
    BY ParsedType DEF FilesTypeOK
  <2>2. [i \in Id |-> {Parsed(wiki[i])}] \in [Id -> SUBSET (Text \cup {Blank, None})]
    BY <2>1
  <2>3. (IF kept[p] = None THEN NoIndex ELSE kept[p]) \in Index
    BY IndexTypes
  <2>4. c \in Call
    BY <1>0, <2>2, <2>3 DEF Call, Files, FilesTypeOK
  <2>5. Goes(p, c)
    BY <1>1 DEF BeginSearch
  <2> QED BY <1>1, <2>4, <2>5, GoesType DEF BeginSearch, Counts, files, FilesTypeOK
<1>2. CASE SearchNothing(p)
  BY <1>2 DEF SearchNothing, Forget, files, FilesTypeOK
<1>3. CASE LoadIndex(p)
  <2>1. Build(call[p]) \in Call
    BY <1>0, BuildType
  <2>2. disk # None => [call[p] EXCEPT !.pc = "check", !.ix = disk, !.from = "disk",
                                       !.todo = call[p].files] \in Call
    BY <1>0 DEF Call
  <2> QED BY <1>3, <2>1, <2>2, GoesType DEF LoadIndex, files, FilesTypeOK
<1>4. ASSUME NEW i \in Id, CheckEntry(p, i) PROVE TypeOK'
  <2>1. [call[p] EXCEPT !.pc = "rehash", !.stat = i] \in Call
    BY <1>0 DEF Call
  <2> QED BY <1>4, <2>1, GoesType, MovesType DEF CheckEntry, files, FilesTypeOK
<1>5. CASE Rehash(p)
  BY <1>5, MovesType DEF Rehash, files, FilesTypeOK
<1>6. CASE RejectMissing(p)
  BY <1>6, MovesType DEF RejectMissing, files, FilesTypeOK
<1>7. CASE AcceptFresh(p)
  <2> DEFINE ix == Settled(call[p].ix, call[p].at)
             c  == [call[p] EXCEPT !.pc = "answer", !.ix = ix]
  <2>1. ix \in Index
    BY <1>0, IndexTypes DEF Call
  <2>2. c \in Call
    BY <1>0, <2>1 DEF Call
  <2>3. (Goes(p, c) /\ UNCHANGED disk) \/ Replaces(p, ix, c)
    BY <1>7 DEF AcceptFresh
  <2> HIDE DEF ix, c
  <2> QED BY <1>7, <2>1, <2>2, <2>3, GoesType, ReplacesType DEF AcceptFresh, files, FilesTypeOK
<1>8. CASE Heal(p)
  <2> DEFINE ix == Assign(call[p].ix)
             c  == [call[p] EXCEPT !.pc = "answer", !.ix = ix, !.from = "built"]
  <2>1. ix \in Index
    BY <1>0, IndexTypes DEF Call
  <2>2. c \in Call
    BY <1>0, <2>1 DEF Call
  <2>3. Replaces(p, ix, c)
    BY <1>8 DEF Heal
  <2> HIDE DEF ix, c
  <2> QED BY <1>8, <2>1, <2>2, <2>3, ReplacesType DEF Heal, files, FilesTypeOK
<1>9. CASE HealNothing(p)
  BY <1>0, <1>9, GoesType DEF HealNothing, Forget, files, FilesTypeOK
<1>10. CASE Answer(p)
  <2>1. call[p].ix \in Index
    BY <1>0 DEF Call
  <2> QED BY <1>0, <1>10, <2>1, GoesType DEF Answer, files, FilesTypeOK
<1> QED BY <1>1, <1>2, <1>3, <1>4, <1>5, <1>6, <1>7, <1>8, <1>9, <1>10 DEF Search

(* What a step leaves of another process's call: all but its history. *)
Same(c, d) ==
  /\ d.job = c.job /\ d.pc = c.pc /\ d.at = c.at /\ d.files = c.files /\ d.todo = c.todo
  /\ d.stat = c.stat /\ d.ix = c.ix /\ d.from = c.from
  /\ c.dirty \subseteq d.dirty

(* Every step of a process is a step of its call and leaves the others theirs. *)
LEMMA Others ==
  ASSUME TypeOK, NEW p \in Proc, NEW c,
         \/ Goes(p, c)
         \/ UNCHANGED call
         \/ \E ix : Replaces(p, ix, c)
         \/ \E i \in Id : Writes(p, i, c)
  PROVE  \A q \in Proc \ {p} : Same(call[q], call'[q])
<1> SUFFICES ASSUME NEW q \in Proc \ {p}
             PROVE  Same(call[q], call'[q])
  OBVIOUS
<1>0. call[q] \in Call /\ call \in [Proc -> Call]
  BY DEF TypeOK
<1>1. CASE Goes(p, c) \/ UNCHANGED call
  BY <1>0, <1>1 DEF Goes, Same
<1>2. ASSUME NEW ix, Replaces(p, ix, c) PROVE Same(call[q], call'[q])
  BY <1>0, <1>2 DEF Replaces, Same, Call
<1>3. ASSUME NEW i \in Id, Writes(p, i, c) PROVE Same(call[q], call'[q])
  <2>1. call'[q] = Told(q, i, wiki'[i])
    BY <1>3 DEF Writes
  <2> QED BY <1>0, <2>1 DEF Told, Same, Call
<1> QED BY <1>1, <1>2, <1>3

(* A step that process p takes. *)
Step(p) == Command(p) \/ Search(p) \/ Both(p) \/ Crash(p)

(* So no step of a process is a step of another's call. *)
LEMMA OthersStay ==
  ASSUME TypeOK, NEW p \in Proc, Step(p)
  PROVE  \A q \in Proc \ {p} : Same(call[q], call'[q])
<1>1. \A c : Goes(p, c) => \A q \in Proc \ {p} : Same(call[q], call'[q])
  BY Others
<1>2. \A c : \A ix : Replaces(p, ix, c) => \A q \in Proc \ {p} : Same(call[q], call'[q])
  BY Others
<1>3. \A c : \A i \in Id : Writes(p, i, c) => \A q \in Proc \ {p} : Same(call[q], call'[q])
  BY Others
<1>4. UNCHANGED call => \A q \in Proc \ {p} : Same(call[q], call'[q])
  BY Others
<1>5. CASE Command(p)
  BY <1>1, <1>2, <1>3, <1>5 DEF Command, BeginWrite, EndWrite, Delete, RemoveIndex,
     BeginListing, BuildIndex, Vouch, SaveIndex
<1>6. CASE Search(p)
  BY <1>1, <1>2, <1>4, <1>6 DEF Search, BeginSearch, SearchNothing, LoadIndex, CheckEntry, Rehash,
     RejectMissing, AcceptFresh, Heal, HealNothing, Answer, Passed, Reject
<1>7. CASE Both(p)
  BY <1>1, <1>7 DEF Both, StampEntry, StatRacy, ListOne, HashRacy, StampsTaken
<1>8. CASE Crash(p)
  BY <1>1, <1>8 DEF Crash
<1> QED BY <1>5, <1>6, <1>7, <1>8 DEF Step

(* A stamp goes with the file that a process has stat'ed. *)
LEMMA StatKept ==
  ASSUME TypeInv, NEW p \in Proc, Step(p)
  PROVE  \A q \in Proc : StatInv(call'[q])
<1> USE DEF TypeInv
<1>1. SUFFICES StatInv(call'[p])
  BY OthersStay DEF Same, StatInv
<1>2. call \in [Proc -> Call] /\ call[p] \in Call /\ StatInv(call[p])
  BY DEF TypeOK
<1>3. StatInv(Idle)
  BY DEF Idle, StatInv
<1>4. /\ \A c : StatInv(c) /\ Goes(p, c) => StatInv(call'[p])
      /\ \A c, ix : StatInv(c) /\ Replaces(p, ix, c) => StatInv(call'[p])
      /\ \A c : \A i \in Id : StatInv(c) /\ Writes(p, i, c) => StatInv(call'[p])
  BY <1>2 DEF Goes, Replaces, Writes
<1>5. CASE Command(p)
  <2>1. ASSUME NEW i \in Id, BeginWrite(p, i) \/ Delete(p, i) PROVE StatInv(call'[p])
    <3>1. StatInv([Idle EXCEPT !.job = "command", !.pc = "write"])
          /\ StatInv([Idle EXCEPT !.job = "command", !.pc = "unindex"])
      BY DEF Idle, StatInv
    <3> QED BY <1>3, <1>4, <2>1, <3>1 DEF BeginWrite, Delete
  <2>2. CASE (\E i \in Id, b \in Text \cup {Bad} : EndWrite(p, i, b)) \/ RemoveIndex(p) \/ SaveIndex(p)
    BY <1>3, <1>4, <2>2 DEF EndWrite, RemoveIndex, SaveIndex
  <2>3. CASE BeginListing(p)
    <3>1. StatInv([Idle EXCEPT !.job = "command", !.pc = "list", !.todo = Files])
      BY DEF Idle, StatInv
    <3> QED BY <1>4, <2>3, <3>1 DEF BeginListing
  <2>4. CASE BuildIndex(p)
    BY <1>2, <2>4 DEF BuildIndex, Goes, Listed, At, StatInv, Call
  <2>5. ASSUME NEW i \in Id, Vouch(p, i) PROVE StatInv(call'[p])
    <3>1. \A s : StatInv([call[p] EXCEPT !.todo = @ \ {i}, !.ix.stamp[i] = s])
      BY <1>2, <2>5 DEF Vouch, Pending, At, StatInv, Call
    <3> QED BY <1>4, <2>5, <3>1 DEF Vouch
  <2> QED BY <1>5, <2>1, <2>2, <2>3, <2>4, <2>5 DEF Command
<1>6. CASE Search(p)
  <2>1. CASE BeginSearch(p)
    <3>1. \A pc \in {"load", "check"} : \A ix, s :
            StatInv([Idle EXCEPT !.job = "search", !.at = now, !.files = Files, !.todo = Files,
                                 !.pc = pc, !.ix = ix, !.from = "kept", !.seen = s, !.calm = TRUE])
      BY DEF Idle, StatInv
    <3>2. (IF kept[p] = None THEN "load" ELSE "check") \in {"load", "check"}
      OBVIOUS
    <3> QED BY <1>4, <2>1, <3>1, <3>2 DEF BeginSearch
  <2>2. CASE SearchNothing(p)
    BY <1>2, <2>2 DEF SearchNothing
  <2>3. StatInv(Build(call[p]))
    BY <1>2 DEF Build, StatInv, Call
  <2>4. Reject(p) => StatInv(call'[p])
    <3>1. StatInv([call[p] EXCEPT !.pc = "load", !.stat = None])
      BY <1>2 DEF StatInv, Call
    <3> QED BY <1>4, <2>3, <3>1 DEF Reject
  <2>5. ASSUME NEW i, Passed(p, i) PROVE StatInv(call'[p])
    BY <1>2, <2>5 DEF Passed, Goes, StatInv, Call
  <2>6. CASE LoadIndex(p)
    <3>1. At(p, "load") => StatInv([call[p] EXCEPT !.pc = "check", !.ix = disk, !.from = "disk",
                                                   !.todo = call[p].files])
      BY <1>2 DEF At, StatInv, Call
    <3> QED BY <1>4, <2>3, <2>6, <3>1 DEF LoadIndex
  <2>7. ASSUME NEW i \in Id, CheckEntry(p, i) PROVE StatInv(call'[p])
    <3>1. CASE Goes(p, [call[p] EXCEPT !.pc = "rehash", !.stat = i])
               /\ SameStat(i, Candidate(p, i))
      BY <1>2, <3>1, BytesAssumption DEF Goes, StatInv, Call, SameStat, Candidate
    <3> QED BY <2>4, <2>5, <2>7, <3>1 DEF CheckEntry
  <2>8. CASE Rehash(p) \/ RejectMissing(p)
    BY <2>4, <2>5, <2>8 DEF Rehash, RejectMissing
  <2>9. CASE AcceptFresh(p)
    <3>1. \A ix : StatInv([call[p] EXCEPT !.pc = "answer", !.ix = ix])
      BY <1>2, <2>9 DEF AcceptFresh, At, StatInv, Call
    <3> QED BY <1>4, <2>9, <3>1 DEF AcceptFresh
  <2>10. CASE Heal(p)
    <3>1. \A ix : StatInv([call[p] EXCEPT !.pc = "answer", !.ix = ix, !.from = "built"])
      BY <1>2, <2>10 DEF Heal, Listed, At, StatInv, Call
    <3> QED BY <1>4, <2>10, <3>1 DEF Heal
  <2>11. CASE HealNothing(p) \/ Answer(p)
    BY <1>3, <1>4, <2>11 DEF HealNothing, Answer
  <2> QED BY <1>6, <2>1, <2>2, <2>6, <2>7, <2>8, <2>9, <2>10, <2>11 DEF Search
<1>7. CASE Both(p)
  <2>1. \A i, s : StatInv(Keep(call[p], i, s))
    BY <1>2 DEF Keep, StatInv, Call
  <2>2. CASE HashRacy(p) \/ \E i \in Id : StampEntry(p, i)
    BY <1>4, <2>1, <2>2 DEF HashRacy, StampEntry
  <2>3. ASSUME NEW i \in Id, StatRacy(p, i) PROVE StatInv(call'[p])
    <3>1. Stat(wiki[i]) # None /\ i # None
      BY <2>3, StatType, NoIndexAssumption, BytesAssumption DEF StatRacy, TypeOK, FilesTypeOK
    <3> QED BY <1>2, <2>3, <3>1 DEF StatRacy, Goes, StatInv, Call, Index, Stamps
  <2>4. CASE StampsTaken(p)
    <3>1. \A ix, t : StatInv([call[p] EXCEPT !.pc = "vouch", !.ix = ix, !.todo = t])
                    /\ StatInv([call[p] EXCEPT !.pc = "list", !.todo = t])
      BY <1>2, <2>4 DEF StampsTaken, At, StatInv, Call
    <3> QED BY <1>4, <2>4, <3>1 DEF StampsTaken
  <2>5. ASSUME NEW i \in Id, ListOne(p, i) PROVE StatInv(call'[p])
    <3>1. \A t, d : StatInv([call[p] EXCEPT !.todo = t, !.ix.doc[i] = d])
      BY <1>2, <2>5 DEF ListOne, Pending, At, StatInv, Call
    <3> QED BY <1>4, <2>5, <3>1 DEF ListOne
  <2> QED BY <1>7, <2>2, <2>3, <2>4, <2>5 DEF Both
<1>8. CASE Crash(p)
  BY <1>3, <1>4, <1>8 DEF Crash
<1> QED BY <1>5, <1>6, <1>7, <1>8 DEF Step

(* TypeOK with the place of each stat is inductive: every step reads or writes a file, a
   stamp or an index of its type. *)
LEMMA TypeStep ==
  ASSUME TypeInv, [Next]_vars
  PROVE  TypeInv'
<1> USE DEF TypeInv
<1>1. CASE Clock
  <2>1. FilesTypeOK'
    BY <1>1, FilesType DEF Clock, TypeOK
  <2> QED BY <1>1, <2>1 DEF Clock, TypeOK, StatInv
<1>2. ASSUME NEW p \in Proc, Step(p) PROVE TypeInv'
  <2>1. TypeOK'
    <3>1. CASE Crash(p)
      <4>1. FilesTypeOK'
        BY <3>1, FilesType DEF Crash, TypeOK
      <4>2. call' \in [Proc -> Call]
        BY <3>1, IdleType, GoesType DEF Crash
      <4> QED BY <3>1, <4>1, <4>2 DEF Crash, Forget, TypeOK
    <3> QED BY <1>2, <3>1, CommandType, SearchType, BothType DEF Step
  <2>2. \A q \in Proc : StatInv(call'[q])
    BY <1>2, StatKept
  <2> QED BY <2>1, <2>2 DEF StatInv
<1>3. CASE UNCHANGED vars
  BY <1>3 DEF vars, TypeOK, FilesTypeOK, StatInv
<1> QED BY <1>1, <1>2, <1>3 DEF Next, Step

(* It holds before anything has happened. *)
LEMMA TypeInit ==
  ASSUME Init
  PROVE  TypeInv
<1>1. FilesTypeOK
  BY DEF Init, FilesInit, FilesTypeOK
<1>2. StatInv(Idle)
  BY DEF StatInv, Idle
<1> QED BY <1>1, <1>2, IdleType DEF Init, TypeInv, TypeOK

(* Files, indexes and calls always have their types, whatever the processes do. *)
THEOREM SearchTypes == Spec => []TypeOK
<1>1. TypeInv => TypeOK
  BY DEF TypeInv
<1> QED BY <1>1, TypeInit, TypeStep, PTL DEF Spec

(***************************************************************************)
(* What the clock and the writers do to a stamp and to an index.           *)
(***************************************************************************)
(* A modification that is not racy is of a grain that has passed. *)
LEMMA NotRacy ==
  ASSUME now \in Nat, NEW t \in Nat, NEW at \in Nat, at <= now, ~Racy(t, at)
  PROVE  Old(t) /\ t <= Coarse(now)
BY GrainAssumption, CoarseType DEF Racy, Old

(* The files stay while the clock moves on, or one of them is written or removed. *)
Passes ==
  /\ wiki' = wiki
  /\ now <= now'
  /\ \/ held' = held /\ Coarse(now) <= Coarse(now')
     \/ Coarse(now) < Coarse(now')

Touches(i) ==
  /\ now' = now
  /\ \A j \in Id \ {i} : wiki'[j] = wiki[j] /\ held'[j] = held[j]
  /\ held[i] \subseteq held'[i]
  /\ wiki'[i] # None =>
       /\ wiki'[i].mtime = Coarse(now)
       /\ wiki'[i].bytes = Blank \/ wiki'[i].bytes \in held'[i] \ held[i]

(* The clock moves on. *)
LEMMA TickPasses ==
  ASSUME FilesTypeOK, Tick
  PROVE  Passes
<1>1. now \in Nat /\ now' = now + 1 /\ wiki' = wiki
  BY DEF FilesTypeOK, Tick
<1>2. Coarse(now) \in Nat /\ Coarse(now + 1) \in Nat /\ Coarse(now) <= Coarse(now + 1)
  BY <1>1, CoarseType, CoarseStep
<1>3. Coarse(now + 1) = Coarse(now) => held' = held
  BY DEF Tick
<1>4. Coarse(now') = Coarse(now + 1)
  BY <1>1
<1> QED BY <1>1, <1>2, <1>3, <1>4 DEF Passes

(* A write truncates, fills or removes one file, and never with bytes of this grain. *)
LEMMA WriteTouches ==
  ASSUME FilesTypeOK, ~Rewrites, NEW p \in Proc, NEW i \in Id, NEW b \in Text \cup {Bad},
         Truncate(p, i) \/ Fill(p, i, b) \/ Remove(p, i)
  PROVE  Touches(i)
BY DEF FilesTypeOK, Truncate, Fill, Remove, Touches

(* A file is never given a time before that of a stamp, nor the bytes of its hash twice. *)
LEMMA ReadyKept ==
  ASSUME FilesTypeOK, FilesTypeOK', Passes \/ \E j \in Id : Touches(j),
         NEW i \in Id, NEW s \in Stamp \cup {None}, Ready(i, s)
  PROVE  Ready(i, s)'
<1>1. Coarse(now) \in Nat /\ Coarse(now') \in Nat
  BY CoarseType DEF FilesTypeOK
<1>2. CASE Passes
  <2>1. s # None => s.mtime \in Nat
    BY DEF Stamp
  <2> QED BY <1>1, <1>2, <2>1 DEF Passes, Ready, Old
<1>3. ASSUME NEW j \in Id, Touches(j) PROVE Ready(i, s)'
  BY <1>1, <1>3 DEF Touches, Ready, Old
<1> QED BY <1>2, <1>3

(* A file has a time that has come, and if that is the present grain its bytes are in held. *)
LEMMA FilesKept ==
  ASSUME FilesTypeOK, FilesTypeOK', FilesInv, Passes \/ \E j \in Id : Touches(j)
  PROVE  FilesInv'
<1>1. Coarse(now) \in Nat /\ Coarse(now') \in Nat
  BY CoarseType DEF FilesTypeOK
<1>2. \A i \in Files : wiki[i].mtime \in Nat
  BY DEF FilesTypeOK, Files, File
<1>3. CASE Passes
  BY <1>1, <1>2, <1>3 DEF Passes, FilesInv, Files, Old
<1>4. ASSUME NEW j \in Id, Touches(j) PROVE FilesInv'
  BY <1>1, <1>2, <1>4 DEF Touches, FilesInv, Files, Old
<1> QED BY <1>3, <1>4

(* What holds for a file's entry goes on to hold, or never looks fresh again. *)
LEMMA ExactKept ==
  ASSUME FilesTypeOK, FilesTypeOK', Passes \/ \E j \in Id : Touches(j),
         NEW ix \in Index, NEW i \in Id, Ready(i, ix.stamp[i]), Exact(ix, i),
         ix.stamp[i] = None => wiki[i] = None \/ ix.doc[i] = None
  PROVE  Exact(ix, i)'
<1> DEFINE s == ix.stamp[i]
<1>1. now \in Nat /\ Coarse(now) \in Nat /\ Parsed(None) = None
  BY CoarseType DEF FilesTypeOK, Parsed
<1>2. CASE wiki'[i] = wiki[i]
  BY <1>2 DEF Exact, LooksFresh, SameStat
<1>3. ASSUME NEW j \in Id, Touches(j), wiki'[i] # wiki[i] PROVE Exact(ix, i)'
  <2>1. i = j
    BY <1>3 DEF Touches
  <2>2. CASE wiki'[i] = None
    BY <1>1, <2>2 DEF Exact, LooksFresh, SameStat
  <2>3. CASE wiki'[i] # None /\ wiki'[i].bytes = Blank
    BY <2>3, BytesAssumption DEF Exact, Parsed
  <2>4. CASE wiki'[i] # None /\ wiki'[i].bytes \in held'[i] \ held[i] /\ wiki'[i].bytes # Blank
    <3>1. SUFFICES ASSUME LooksFresh(ix, i)' PROVE FALSE
      BY DEF Exact
    <3>2. wiki'[i].bytes \in Bytes /\ wiki'[i].bytes # None
      BY <2>4, BytesAssumption DEF FilesTypeOK, File, Bytes
    <3>3. s # None /\ s.mtime = Coarse(now) /\ s.size = Size[wiki'[i].bytes]
          /\ s.hash \in {None, wiki'[i].bytes}
      BY <1>3, <2>1, <2>4, <3>1 DEF LooksFresh, SameStat, Touches
    <3>4. s.size # -1
      BY <3>2, <3>3, SizeAssumption DEF Bytes
    <3>5. s.hash \in held[i] \cup {Blank}
      BY <1>1, <3>3, <3>4 DEF Ready, Old
    <3>6. None \notin held[i] \cup {Blank}
      BY BytesAssumption DEF FilesTypeOK, Bytes
    <3> QED BY <2>4, <3>3, <3>5, <3>6
  <2> QED BY <1>3, <2>1, <2>2, <2>3, <2>4 DEF Touches
<1> QED BY <1>2, <1>3 DEF Passes

(* A file that has been verified late enough after its time has been verified for good. *)
LEMMA VerifiedKept ==
  ASSUME FilesTypeOK, Passes \/ \E j \in Id : Touches(j),
         NEW ix \in Index, NEW i \in Id, NEW at \in Nat, at <= now,
         SameStat(i, ix.stamp[i]) /\ ~Racy(ix.stamp[i].mtime, at) => LooksFresh(ix, i)
  PROVE  (SameStat(i, ix.stamp[i]) /\ ~Racy(ix.stamp[i].mtime, at) => LooksFresh(ix, i))'
<1>1. CASE wiki'[i] = wiki[i]
  BY <1>1 DEF LooksFresh, SameStat, Racy
<1>2. ASSUME NEW j \in Id, Touches(j), wiki'[i] # wiki[i],
             SameStat(i, ix.stamp[i])', ~Racy(ix.stamp[i].mtime, at)
      PROVE  FALSE
  <2>1. ix.stamp[i] \in Stamp /\ ix.stamp[i].mtime = Coarse(now)
    BY <1>2 DEF Touches, SameStat, Index, Stamps
  <2>2. Old(ix.stamp[i].mtime)
    BY <1>2, <2>1, NotRacy DEF FilesTypeOK, Stamp
  <2> QED BY <2>1, <2>2, CoarseType DEF Old, FilesTypeOK
<1> QED BY <1>1, <1>2 DEF Passes, Racy

(* The invariant of a call that does not move survives a step of another process. *)
LEMMA CallKept ==
  ASSUME TypeInv, TypeOK', FilesInv, NEW q \in Proc, CallInv(call[q]), Same(call[q], call'[q]),
         \/ Passes
         \/ \E j \in Id :
              /\ Touches(j)
              /\ call[q].pc \in {"list", "stamp", "hash", "vouch"} /\ call[q].job = "command"
                   => j \in call'[q].dirty
  PROVE  CallInv(call[q])'
<1> DEFINE c == call[q]
           d == call'[q]
<1>0. /\ c \in Call /\ d \in Call /\ FilesTypeOK /\ FilesTypeOK'
      /\ d.job = c.job /\ d.pc = c.pc /\ d.at = c.at /\ d.files = c.files /\ d.todo = c.todo
      /\ d.stat = c.stat /\ d.ix = c.ix /\ c.dirty \subseteq d.dirty
      /\ (Passes \/ \E j \in Id : Touches(j))
  BY DEF TypeInv, TypeOK, Same
<1>1. c.ix \in Index /\ c.at \in Nat /\ c.ix.stamp \in Stamps
  BY <1>0 DEF Call, Index
<1>2. \A i \in Id : Ready(i, c.ix.stamp[i]) => Ready(i, c.ix.stamp[i])'
  <2> SUFFICES ASSUME NEW i \in Id, Ready(i, c.ix.stamp[i]) PROVE Ready(i, c.ix.stamp[i])'
    OBVIOUS
  <2>1. \A s \in Stamp \cup {None} : Ready(i, s) => Ready(i, s)'
    BY <1>0, ReadyKept
  <2>2. c.ix.stamp[i] \in Stamp \cup {None}
    BY <1>1 DEF Stamps
  <2> QED BY <1>0, <2>1, <2>2 DEF Ready, Old
<1>3. ASSUME NEW i \in Id, Ready(i, c.ix.stamp[i]), Exact(c.ix, i),
             c.ix.stamp[i] = None => wiki[i] = None \/ c.ix.doc[i] = None
      PROVE  Exact(c.ix, i)'
  <2>1. \A ix \in Index :
          Ready(i, ix.stamp[i]) /\ Exact(ix, i)
            /\ (ix.stamp[i] = None => wiki[i] = None \/ ix.doc[i] = None) => Exact(ix, i)'
    BY <1>0, ExactKept
  <2> QED BY <1>0, <1>1, <1>3, <2>1 DEF Exact, LooksFresh, SameStat
<1>4. ASSUME NEW i \in Id, wiki'[i] # wiki[i],
             c.pc \in {"list", "stamp", "hash", "vouch"}, c.job = "command"
      PROVE  i \in d.dirty
  BY <1>4 DEF Touches, Passes
<1>5. StatInv(c)'
  BY <1>0 DEF CallInv, StatInv
<1>6. HashInv(c)'
  <2> SUFFICES ASSUME c.pc = "hash"
               PROVE  c.ix.stamp[c.stat].mtime <= Coarse(now')
                      /\ (wiki'[c.stat] # None => c.ix.stamp[c.stat].mtime <= wiki'[c.stat].mtime)
    BY <1>0 DEF HashInv, Files
  <2>1. c.stat \in Id /\ c.ix.stamp[c.stat] \in Stamp
    BY <1>0, <1>1 DEF CallInv, StatInv, Call, Stamps
  <2>2. c.ix.stamp[c.stat].mtime \in Nat /\ Coarse(now) \in Nat /\ Coarse(now') \in Nat
    BY <1>0, <2>1, CoarseType DEF Stamp, FilesTypeOK
  <2>3. c.ix.stamp[c.stat].mtime <= Coarse(now)
        /\ (wiki[c.stat] # None => c.ix.stamp[c.stat].mtime <= wiki[c.stat].mtime)
    BY <2>1 DEF CallInv, HashInv, Files
  <2>4. Coarse(now) <= Coarse(now')
    BY <1>0, <2>2 DEF Passes, Touches
  <2>5. wiki'[c.stat] = wiki[c.stat] \/ (wiki'[c.stat] # None => wiki'[c.stat].mtime = Coarse(now))
    BY <1>0, <2>1 DEF Passes, Touches
  <2> QED BY <2>2, <2>3, <2>4, <2>5
<1>7. BuildInv(c)'
  <2>1. CASE c.job = "search" /\ c.pc = "list"
    <3>1. \A i \in Id \ c.todo : c.ix.stamp[i] # None => Exact(c.ix, i)'
      <4> SUFFICES ASSUME NEW i \in Id \ c.todo, c.ix.stamp[i] # None PROVE Exact(c.ix, i)'
        OBVIOUS
      <4>1. Exact(c.ix, i) /\ Ready(i, c.ix.stamp[i])
        BY <2>1, BytesAssumption DEF CallInv, BuildInv, StatInv
      <4> QED BY <1>3, <4>1
    <3> QED BY <1>0, <1>2, <2>1, <3>1 DEF CallInv, BuildInv
  <2>2. CASE c.job = "search" /\ c.pc \in {"stamp", "hash"}
    BY <1>0, <1>2, <2>2 DEF CallInv, BuildInv
  <2> QED BY <1>0, <2>1, <2>2 DEF BuildInv
<1>8. CommandInv(c)'
  <2>1. CASE c.job = "command" /\ c.pc = "list"
    BY <1>0, <1>4, <2>1 DEF CallInv, CommandInv
  <2>2. CASE c.job = "command" /\ c.pc \in {"stamp", "hash"}
    BY <1>0, <1>2, <1>4, <2>2 DEF CallInv, CommandInv
  <2>3. CASE c.job = "command" /\ c.pc = "vouch"
    <3>1. \A i \in Id \ c.todo : c.ix.doc[i] = None => Exact(c.ix, i)'
      <4> SUFFICES ASSUME NEW i \in Id \ c.todo, c.ix.doc[i] = None PROVE Exact(c.ix, i)'
        OBVIOUS
      <4>1. Exact(c.ix, i) /\ Ready(i, c.ix.stamp[i])
        BY <2>3, BytesAssumption DEF CallInv, CommandInv, StatInv
      <4> QED BY <1>3, <4>1
    <3> QED BY <1>0, <1>2, <1>4, <2>3, <3>1 DEF CallInv, CommandInv
  <2> QED BY <1>0, <2>1, <2>2, <2>3 DEF CommandInv
<1>9. CheckInv(c)'
  <2>1. ASSUME c.pc \in {"check", "rehash"}, NEW i \in c.files \ c.todo
        PROVE  (SameStat(i, c.ix.stamp[i]) /\ ~Racy(c.ix.stamp[i].mtime, c.at) => LooksFresh(c.ix, i))'
    <3>1. i \in Id /\ c.at <= now
      BY <1>0 DEF Call, CallInv, Where
    <3>2. SameStat(i, c.ix.stamp[i]) /\ ~Racy(c.ix.stamp[i].mtime, c.at) => LooksFresh(c.ix, i)
      BY <2>1 DEF CallInv, CheckInv
    <3>3. \A ix \in Index, at \in Nat :
            at <= now /\ (SameStat(i, ix.stamp[i]) /\ ~Racy(ix.stamp[i].mtime, at) => LooksFresh(ix, i))
            => (SameStat(i, ix.stamp[i]) /\ ~Racy(ix.stamp[i].mtime, at) => LooksFresh(ix, i))'
      BY <1>0, <3>1, VerifiedKept
    <3> QED BY <1>0, <1>1, <3>1, <3>2, <3>3 DEF SameStat, LooksFresh, Racy
  <2> QED BY <1>0, <2>1 DEF CheckInv
<1>10. Where(c)'
  BY <1>0 DEF CallInv, Where, Passes, Touches, FilesTypeOK, Call
<1> QED BY <1>5, <1>6, <1>7, <1>8, <1>9, <1>10 DEF CallInv

(* An index stays safe whatever happens to the files. *)
LEMMA SafeKept ==
  ASSUME FilesTypeOK, FilesTypeOK', Passes \/ \E j \in Id : Touches(j),
         NEW ix \in Index, NEW i \in Id, Safe(ix, i)
  PROVE  Safe(ix, i)'
<1>1. ix.stamp[i] \in Stamp \cup {None}
  BY DEF Index, Stamps
<1>2. Ready(i, ix.stamp[i])'
  <2>1. \A s \in Stamp \cup {None} : Ready(i, s) => Ready(i, s)'
    BY ReadyKept
  <2> QED BY <1>1, <2>1 DEF Safe, Ready, Old
<1>3. i \in ix.raced \/ Exact(ix, i)'
  BY ExactKept DEF Safe
<1> QED BY <1>2, <1>3 DEF Safe

(***************************************************************************)
(* Steps that leave the files.                                             *)
(***************************************************************************)
(* The clock and the files stay. *)
Still == now' = now /\ wiki' = wiki /\ held' = held

(* The indexes in use come from those that were, and from those that p has made. *)
LEMMA InUseStep ==
  ASSUME TypeOK, TypeOK', NEW p \in Proc, \A q \in Proc \ {p} : Same(call[q], call'[q]), NEW N,
         disk' \in InUse \cup N \cup {None},
         \A q \in Proc : kept'[q] \in InUse \cup N \cup {None},
         call'[p].pc \in {"check", "rehash", "answer"} => call'[p].ix \in InUse \cup N
  PROVE  InUse' \subseteq InUse \cup N
<1>1. \A q \in Proc \ {p} : call'[q].pc \in {"check", "rehash", "answer"} =>
        call'[q].ix \in InUse \cup {None}
  BY DEF Same, InUse
<1>2. \A x \in InUse' : \/ x = disk'
                        \/ \E q \in Proc : x = kept'[q]
                        \/ \E q \in Proc : call'[q].pc \in {"check", "rehash", "answer"}
                                            /\ x = call'[q].ix
  BY DEF InUse
<1>3. None \notin InUse'
  BY DEF InUse
<1> QED BY <1>1, <1>2, <1>3

(* What was in use is a candidate for being in use. *)
LEMMA InUseHas ==
  ASSUME TypeOK
  PROVE  /\ disk \in InUse \cup {None}
         /\ \A q \in Proc : kept[q] \in InUse \cup {None}
         /\ \A q \in Proc : call[q].pc \in {"check", "rehash", "answer"} => call[q].ix \in InUse
         /\ InUse \subseteq Index
BY NoIndexAssumption DEF TypeOK, InUse, Call

(* While the files stay, what is so of a call or an index that a step makes is so after it. *)
LEMMA CallStill ==
  ASSUME Still, NEW p \in Proc, CallInv(call'[p])
  PROVE  CallInv(call[p])'
<1>1. StatInv(call[p])' /\ HashInv(call[p])'
  BY DEF Still, CallInv, StatInv, HashInv, Files
<1>2. BuildInv(call[p])'
  BY DEF Still, CallInv, BuildInv, Ready, Old, Exact, LooksFresh, SameStat
<1>3. CommandInv(call[p])'
  BY DEF Still, CallInv, CommandInv, Ready, Old, Exact, LooksFresh, SameStat
<1>4. CheckInv(call[p])'
  BY DEF Still, CallInv, CheckInv, LooksFresh, SameStat
<1>5. Where(call[p])'
  BY DEF Still, CallInv, Where
<1> QED BY <1>1, <1>2, <1>3, <1>4, <1>5 DEF CallInv

(* So a step that leaves the files keeps the invariant if it does for its own call and for
   the indexes it makes. *)
LEMMA Quiet ==
  ASSUME TypeInv, TypeOK', SearchInv, NEW p \in Proc, Step(p), Still,
         NEW c, call'[p] = c, CallInv(c),
         NEW N, \A ix \in N : \A i \in Id : Safe(ix, i),
         disk' \in InUse \cup N \cup {None},
         \A q \in Proc : kept'[q] \in InUse \cup N \cup {None},
         c.pc \in {"check", "rehash", "answer"} => c.ix \in InUse \cup N
  PROVE  SearchInv'
<1>1. \A q \in Proc \ {p} : Same(call[q], call'[q])
  BY OthersStay DEF TypeInv
<1>2. InUse' \subseteq InUse \cup N
  BY <1>1, InUseStep DEF TypeInv
<1>3. Passes
  BY CoarseType DEF Still, Passes, TypeInv, TypeOK, FilesTypeOK
<1>4. FilesInv'
  BY <1>3, FilesKept DEF TypeInv, TypeOK, SearchInv
<1>5. (\A ix \in InUse : \A i \in Id : Safe(ix, i))'
  <2>1. \A ix \in InUse' : \A i \in Id : Safe(ix, i)
    BY <1>2 DEF SearchInv
  <2> QED BY <2>1 DEF Still, Safe, Ready, Old, Exact, LooksFresh, SameStat
<1>6. ASSUME NEW q \in Proc \ {p} PROVE CallInv(call[q])'
  BY <1>1, <1>3, CallKept DEF SearchInv
<1>7. CallInv(call[p])'
  BY CallStill
<1> QED BY <1>4, <1>5, <1>6, <1>7 DEF SearchInv

(* In particular if it makes no index. *)
LEMMA QuietOld ==
  ASSUME TypeInv, TypeOK', SearchInv, NEW p \in Proc, Step(p), Still,
         NEW c, call'[p] = c, CallInv(c),
         disk' \in InUse \cup {None},
         \A q \in Proc : kept'[q] \in InUse \cup {None},
         c.pc \in {"check", "rehash", "answer"} => c.ix \in InUse
  PROVE  SearchInv'
<1> DEFINE N == {}
<1>1. /\ \A ix \in N : \A i \in Id : Safe(ix, i)
      /\ disk' \in InUse \cup N \cup {None}
      /\ \A q \in Proc : kept'[q] \in InUse \cup N \cup {None}
      /\ c.pc \in {"check", "rehash", "answer"} => c.ix \in InUse \cup N
  OBVIOUS
<1> HIDE DEF N
<1> QED BY <1>1, Quiet

(* A process that is idle, writes one file, or removes the index holds nothing. *)
LEMMA IdleInv ==
  ASSUME TypeOK
  PROVE  /\ CallInv(Idle)
         /\ \A pc \in {"write", "unindex"} : CallInv([Idle EXCEPT !.job = "command", !.pc = pc])
BY DEF TypeOK, FilesTypeOK, Idle, CallInv, StatInv, HashInv, BuildInv, CommandInv, CheckInv, Where

(* A call that has just verified nothing, and an index without entries. *)
LEMMA BuildHolds ==
  ASSUME TypeInv, NEW p \in Proc, CallInv(call[p]), call[p].job = "search"
  PROVE  CallInv(Build(call[p]))
<1>1. call[p] \in Call
  BY DEF TypeInv, TypeOK
<1>2. \A i \in Id : Ready(i, NoStamps[i])
  BY DEF Ready, NoStamps
<1> QED BY <1>1, <1>2 DEF Build, NoIndex, Call, CallInv, StatInv, HashInv, BuildInv,
        CommandInv, CheckInv, Where

(* A candidate is given up: nothing is in hand until another is read or built. *)
LEMMA RejectHolds ==
  ASSUME TypeInv, TypeOK', SearchInv, NEW p \in Proc, Step(p), Still, call[p].job = "search",
         Reject(p), UNCHANGED <<disk, kept>>
  PROVE  SearchInv'
<1> DEFINE c == IF call[p].from = "kept" THEN [call[p] EXCEPT !.pc = "load", !.stat = None]
                                         ELSE Build(call[p])
<1>1. call[p] \in Call /\ call \in [Proc -> Call] /\ CallInv(call[p])
  BY DEF TypeInv, TypeOK, SearchInv
<1>2. CallInv([call[p] EXCEPT !.pc = "load", !.stat = None])
  BY <1>1 DEF Call, CallInv, StatInv, HashInv, BuildInv, CommandInv, CheckInv, Where
<1>3. CallInv(c) /\ c.pc \in {"load", "stamp"}
  BY <1>1, <1>2, BuildHolds DEF Build, Call
<1>4. call'[p] = c
  BY <1>1 DEF Reject, Goes
<1> HIDE DEF c
<1> QED BY <1>3, <1>4, QuietOld, InUseHas DEF TypeInv

(* An entry is passed over after it has been seen to match. *)
LEMMA PassedHolds ==
  ASSUME TypeInv, TypeOK', SearchInv, NEW p \in Proc, Step(p), Still,
         call[p].pc \in {"check", "rehash"}, NEW i \in Id, Passed(p, i), UNCHANGED <<disk, kept>>,
         SameStat(i, call[p].ix.stamp[i]) => LooksFresh(call[p].ix, i)
  PROVE  SearchInv'
<1> DEFINE c == [call[p] EXCEPT !.pc = "check", !.todo = @ \ {i}, !.stat = None]
<1>1. call[p] \in Call /\ call \in [Proc -> Call] /\ CallInv(call[p])
  BY DEF TypeInv, TypeOK, SearchInv
<1>2. CallInv(c)
  BY <1>1 DEF Call, CallInv, StatInv, HashInv, BuildInv, CommandInv, CheckInv, Where
<1>3. c.ix \in InUse
  BY <1>1, InUseHas DEF TypeInv, Call
<1>4. call'[p] = c
  BY <1>1 DEF Passed, Goes
<1> HIDE DEF c
<1> QED BY <1>2, <1>3, <1>4, QuietOld, InUseHas DEF TypeInv

(* A search begins, and reads an index. *)
LEMMA BeginHolds ==
  ASSUME TypeInv, TypeOK', SearchInv, NEW p \in Proc, Step(p), BeginSearch(p) \/ LoadIndex(p)
  PROVE  SearchInv'
<1>1. call[p] \in Call /\ call \in [Proc -> Call] /\ CallInv(call[p])
  BY DEF TypeInv, TypeOK, SearchInv
<1>2. CASE BeginSearch(p)
  <2> DEFINE c == [Idle EXCEPT !.job = "search", !.at = now, !.files = Files, !.todo = Files,
                          !.pc = IF kept[p] = None THEN "load" ELSE "check",
                          !.ix = IF kept[p] = None THEN NoIndex ELSE kept[p],
                          !.from = "kept",
                          !.seen = [i \in Id |-> {Parsed(wiki[i])}], !.calm = TRUE]
  <2>1. CallInv(c)
    BY DEF TypeInv, TypeOK, FilesTypeOK, Idle, CallInv, StatInv, HashInv, BuildInv, CommandInv,
       CheckInv, Where
  <2>2. c.pc = "check" => c.ix = kept[p] /\ kept[p] # None
    BY DEF Idle
  <2>3. c.pc \in {"load", "check"}
    BY DEF Idle
  <2>4. call'[p] = c
    BY <1>1, <1>2 DEF BeginSearch, Goes
  <2>5. Still /\ UNCHANGED <<disk, kept>>
    BY <1>2 DEF BeginSearch, files, Still
  <2> HIDE DEF c
  <2> QED BY <2>1, <2>2, <2>3, <2>4, <2>5, QuietOld, InUseHas DEF TypeInv
<1>3. CASE LoadIndex(p)
  <2> DEFINE c == IF disk = None THEN Build(call[p])
                  ELSE [call[p] EXCEPT !.pc = "check", !.ix = disk, !.from = "disk",
                                       !.todo = call[p].files]
  <2>1. call[p].job = "search" /\ call[p].pc = "load"
    BY <1>1, <1>3 DEF LoadIndex, At, CallInv, Where
  <2>2. disk # None => CallInv([call[p] EXCEPT !.pc = "check", !.ix = disk, !.from = "disk",
                                               !.todo = call[p].files])
    BY <1>1, <2>1 DEF Call, CallInv, StatInv, HashInv, BuildInv, CommandInv, CheckInv, Where
  <2>3. CallInv(c)
    BY <1>1, <2>1, <2>2, BuildHolds
  <2>4. c.pc \in {"check", "rehash", "answer"} => c.ix = disk /\ disk # None
    BY <1>1 DEF Build, Call
  <2>5. call'[p] = c
    BY <1>1, <1>3 DEF LoadIndex, Goes
  <2>6. Still /\ UNCHANGED <<disk, kept>>
    BY <1>3 DEF LoadIndex, files, Still
  <2> HIDE DEF c
  <2> QED BY <2>3, <2>4, <2>5, <2>6, QuietOld, InUseHas DEF TypeInv
<1> QED BY <1>2, <1>3

(* It verifies that index entry by entry. *)
LEMMA CheckHolds ==
  ASSUME TypeInv, TypeOK', SearchInv, NEW p \in Proc, Step(p),
         (\E i \in Id : CheckEntry(p, i)) \/ Rehash(p) \/ RejectMissing(p)
  PROVE  SearchInv'
<1>1. call[p] \in Call /\ call \in [Proc -> Call] /\ CallInv(call[p])
  BY DEF TypeInv, TypeOK, SearchInv
<1>2. call[p].pc \in {"check", "rehash"} /\ call[p].job = "search" /\ Still
      /\ UNCHANGED <<disk, kept>>
  BY <1>1 DEF CheckEntry, Rehash, RejectMissing, Pending, At, CallInv, Where, files, Still
<1>3. Reject(p) => SearchInv'
  BY <1>2, RejectHolds
<1>4. ASSUME NEW i \in Id, CheckEntry(p, i) PROVE SearchInv'
  <2>1. CASE Candidate(p, i).hash = None /\ Passed(p, i)
    <3>1. SameStat(i, call[p].ix.stamp[i]) => LooksFresh(call[p].ix, i)
      BY <2>1 DEF Candidate, SameStat, LooksFresh
    <3> QED BY <1>2, <2>1, <3>1, PassedHolds
  <2>2. CASE Goes(p, [call[p] EXCEPT !.pc = "rehash", !.stat = i]) /\ SameStat(i, Candidate(p, i))
             /\ At(p, "check")
    <3> DEFINE c == [call[p] EXCEPT !.pc = "rehash", !.stat = i]
    <3>1. CallInv(c)
      BY <1>1, <2>2, BytesAssumption DEF At, Call, Candidate, SameStat, CallInv, StatInv, HashInv,
         BuildInv, CommandInv, CheckInv, Where
    <3>2. c.ix \in InUse
      BY <1>1, <1>2, InUseHas DEF TypeInv, Call
    <3>3. call'[p] = c
      BY <1>1, <2>2 DEF Goes
    <3> HIDE DEF c
    <3> QED BY <1>2, <3>1, <3>2, <3>3, QuietOld, InUseHas DEF TypeInv
  <2> QED BY <1>3, <1>4, <2>1, <2>2 DEF CheckEntry, Pending
<1>5. CASE Rehash(p)
  <2> DEFINE i == call[p].stat
  <2>1. i \in Id
    BY <1>1, <1>5 DEF Rehash, At, CallInv, StatInv, Call
  <2>2. CASE wiki[i] # None /\ wiki[i].bytes = Candidate(p, i).hash /\ Passed(p, i)
    <3>1. SameStat(i, call[p].ix.stamp[i]) => LooksFresh(call[p].ix, i)
      BY <2>2 DEF Candidate, SameStat, LooksFresh
    <3> QED BY <1>2, <2>1, <2>2, <3>1, PassedHolds
  <2> QED BY <1>3, <1>5, <2>2 DEF Rehash
<1>6. CASE RejectMissing(p)
  BY <1>3, <1>6 DEF RejectMissing
<1> QED BY <1>4, <1>5, <1>6

(* What is verified and not racy needs its hash no more: its time is past. *)
LEMMA SettledSafe ==
  ASSUME FilesTypeOK, NEW ix \in Index, NEW at \in Nat, at <= now, NEW i \in Id, Safe(ix, i),
         SameStat(i, ix.stamp[i]) /\ ~Racy(ix.stamp[i].mtime, at) => LooksFresh(ix, i)
  PROVE  Safe(Settled(ix, at), i)
<1> DEFINE s == ix.stamp[i]
           new == Settled(ix, at)
<1>1. s \in Stamp \cup {None} /\ new.doc = ix.doc /\ new.raced = ix.raced
  BY DEF Settled, Index, Stamps
<1>2. new.stamp[i] = IF s # None /\ ~Racy(s.mtime, at) THEN [s EXCEPT !.hash = None] ELSE s
  BY DEF Settled, Index, Stamps
<1>3. CASE ~(s # None /\ ~Racy(s.mtime, at))
  BY <1>1, <1>2, <1>3 DEF Safe, Exact, LooksFresh
<1>4. CASE s # None /\ ~Racy(s.mtime, at)
  <2>1. s \in Stamp /\ [s EXCEPT !.hash = None] \in Stamp
    BY <1>1, <1>4 DEF Stamp
  <2>2. Old(s.mtime) /\ s.mtime <= Coarse(now)
    BY <1>4, <2>1, NotRacy DEF Stamp, FilesTypeOK
  <2>3. new.stamp[i] # None /\ new.stamp[i].mtime = s.mtime /\ new.stamp[i].size = s.size
    BY <1>2, <1>4, <2>1, NoIndexAssumption DEF Stamp
  <2>4. LooksFresh(new, i) => LooksFresh(ix, i)
    BY <1>4, <2>3 DEF LooksFresh, SameStat
  <2>5. Ready(i, new.stamp[i])
    BY <2>2, <2>3 DEF Ready
  <2>6. i \in new.raced \/ Exact(new, i)
    BY <1>1, <2>4 DEF Safe, Exact
  <2> QED BY <2>3, <2>5, <2>6 DEF Safe
<1> QED BY <1>3, <1>4

(* A search ends its check, or the building of its index, with an index that is safe. *)
LEMMA AcceptHolds ==
  ASSUME TypeInv, TypeOK', SearchInv, NEW p \in Proc, Step(p), AcceptFresh(p)
  PROVE  SearchInv'
<1> DEFINE d  == call[p]
           ix == Settled(d.ix, d.at)
           c  == [d EXCEPT !.pc = "answer", !.ix = ix]
<1>1. d \in Call /\ call \in [Proc -> Call] /\ CallInv(d)
  BY DEF TypeInv, TypeOK, SearchInv
<1>2. d.pc = "check" /\ d.job = "search" /\ d.todo = {} /\ Entries(d.ix) \subseteq d.files
  BY <1>1 DEF AcceptFresh, At, CallInv, Where
<1>3. d.ix \in InUse /\ d.ix \in Index /\ d.at \in Nat /\ d.at <= now
  BY <1>1, <1>2, InUseHas DEF TypeInv, Call, CallInv, Where
<1>4. ASSUME NEW i \in Id PROVE Safe(ix, i)
  <2>1. SameStat(i, d.ix.stamp[i]) => i \in Entries(d.ix)
    BY DEF SameStat, Entries
  <2>2. SameStat(i, d.ix.stamp[i]) /\ ~Racy(d.ix.stamp[i].mtime, d.at) => LooksFresh(d.ix, i)
    BY <1>1, <1>2, <2>1 DEF CallInv, CheckInv
  <2> QED BY <1>3, <2>2, SettledSafe DEF SearchInv, TypeInv, TypeOK
<1> HIDE DEF ix
<1>5. CallInv(c)
  BY <1>1, <1>2 DEF Call, CallInv, StatInv, HashInv, BuildInv, CommandInv, CheckInv, Where
<1>6. call'[p] = c /\ disk' \in {disk, ix} /\ kept' = kept /\ Still
  BY <1>1 DEF AcceptFresh, Goes, Replaces, files, Still, ix
<1>7. c.ix = ix
  BY <1>1 DEF Call
<1> DEFINE N == {ix}
<1>8. /\ \A x \in N : \A i \in Id : Safe(x, i)
      /\ disk' \in InUse \cup N \cup {None}
      /\ \A q \in Proc : kept'[q] \in InUse \cup N \cup {None}
      /\ c.pc \in {"check", "rehash", "answer"} => c.ix \in InUse \cup N
  BY <1>4, <1>6, <1>7, InUseHas DEF TypeInv
<1> HIDE DEF c, N
<1> QED BY <1>5, <1>6, <1>8, Quiet

(* An index that was stamped before it was listed is safe where it is complete. *)
LEMMA HealHolds ==
  ASSUME TypeInv, TypeOK', SearchInv, NEW p \in Proc, Step(p), Heal(p)
  PROVE  SearchInv'
<1> DEFINE d  == call[p]
           ix == Assign(d.ix)
           c  == [d EXCEPT !.pc = "answer", !.ix = ix, !.from = "built"]
<1>1. d \in Call /\ call \in [Proc -> Call] /\ CallInv(d) /\ d.ix \in Index
  BY DEF TypeInv, TypeOK, SearchInv, Call
<1>2. d.pc = "list" /\ d.job = "search" /\ d.todo = {} /\ d.stat = None
  BY <1>1 DEF Heal, Listed, At, CallInv, StatInv
<1>3. \A i \in Id : Ready(i, d.ix.stamp[i]) /\ (d.ix.stamp[i] # None => Exact(d.ix, i))
  BY <1>1, <1>2, BytesAssumption DEF CallInv, BuildInv
<1>4. ASSUME NEW i \in Id PROVE Safe(ix, i)
  <2>1. ix.doc = d.ix.doc /\ ix.stamp[i] = IF d.ix.doc[i] # None /\ d.ix.stamp[i] = None
                                          THEN Unknown ELSE d.ix.stamp[i]
    BY <1>1 DEF Assign, Index
  <2>2. CASE d.ix.stamp[i] # None
    BY <1>3, <2>1, <2>2 DEF Safe, Exact, LooksFresh
  <2>3. CASE d.ix.stamp[i] = None /\ d.ix.doc[i] = None
    BY <1>3, <2>1, <2>3 DEF Safe, Exact, LooksFresh, SameStat, Parsed
  <2>4. CASE d.ix.stamp[i] = None /\ d.ix.doc[i] # None
    <3>1. Unknown # None
      BY NoIndexAssumption DEF Unknown, Stamp
    <3>2. wiki[i] # None => Size[wiki[i].bytes] \in Nat
      BY SizeAssumption DEF TypeInv, TypeOK, FilesTypeOK, File, Bytes
    <3> QED BY <2>1, <2>4, <3>1, <3>2 DEF Safe, Ready, Exact, LooksFresh, SameStat, Unknown
  <2> QED BY <2>2, <2>3, <2>4
<1> HIDE DEF ix
<1>5. CallInv(c)
  BY <1>1, <1>2 DEF Call, CallInv, StatInv, HashInv, BuildInv, CommandInv, CheckInv, Where
<1>6. call'[p] = c /\ disk' = ix /\ kept' = kept /\ Still
  BY <1>1 DEF Heal, Replaces, files, Still, ix
<1>7. c.ix = ix
  BY <1>1 DEF Call
<1> DEFINE N == {ix}
<1>8. /\ \A x \in N : \A i \in Id : Safe(x, i)
      /\ disk' \in InUse \cup N \cup {None}
      /\ \A q \in Proc : kept'[q] \in InUse \cup N \cup {None}
      /\ c.pc \in {"check", "rehash", "answer"} => c.ix \in InUse \cup N
  BY <1>4, <1>6, <1>7, InUseHas DEF TypeInv
<1> HIDE DEF c, N
<1> QED BY <1>5, <1>6, <1>8, Quiet

(* Steps that put no index into use. *)
LEMMA ForgetHolds ==
  ASSUME TypeInv, TypeOK', SearchInv, NEW p \in Proc, Step(p),
         SearchNothing(p) \/ HealNothing(p) \/ Answer(p) \/ Crash(p) \/ RemoveIndex(p)
  PROVE  SearchInv'
<1> USE DEF TypeInv
<1>1. call \in [Proc -> Call] /\ CallInv(call[p]) /\ CallInv(Idle) /\ Idle.pc = "idle"
      /\ kept \in [Proc -> Index \cup {None}]
  BY IdleInv DEF TypeOK, SearchInv, Idle
<1>2. CASE SearchNothing(p)
  <2>1. Still /\ UNCHANGED <<call, disk>> /\ \A q \in Proc : kept'[q] \in {kept[q], None}
    BY <1>1, <1>2 DEF SearchNothing, Forget, files, Still
  <2> QED BY <1>1, <2>1, QuietOld, InUseHas
<1>3. CASE HealNothing(p) \/ Crash(p)
  <2>1. Still /\ UNCHANGED disk /\ call'[p] = Idle /\ \A q \in Proc : kept'[q] \in {kept[q], None}
    BY <1>1, <1>3 DEF HealNothing, Crash, Drop, Goes, Forget, files, Still
  <2> QED BY <1>1, <2>1, QuietOld, InUseHas
<1>4. CASE Answer(p)
  <2>1. Still /\ UNCHANGED disk /\ call'[p] = Idle
        /\ \A q \in Proc : kept'[q] \in {kept[q], call[p].ix}
    BY <1>1, <1>4 DEF Answer, Goes, files, Still
  <2>2. call[p].ix \in InUse
    BY <1>4, InUseHas DEF Answer, At
  <2> QED BY <1>1, <2>1, <2>2, QuietOld, InUseHas
<1>5. CASE RemoveIndex(p)
  <2>1. Still /\ disk' = None /\ UNCHANGED kept /\ call'[p] = Idle
    BY <1>1, <1>5 DEF RemoveIndex, Replaces, files, Still
  <2> QED BY <1>1, <2>1, QuietOld, InUseHas
<1> QED BY <1>2, <1>3, <1>4, <1>5

(* An entry is stamped by one stat, if it is not racy ... *)
LEMMA KeepHolds ==
  ASSUME TypeInv, NEW p \in Proc, CallInv(call[p]), call[p].pc \in {"stamp", "hash"},
         NEW i \in Id, call[p].stat \in {i, None}, NEW s \in Stamp, Ready(i, s)
  PROVE  CallInv(Keep(call[p], i, s))
<1> DEFINE d == call[p]
           c == Keep(d, i, s)
<1>1. d \in Call /\ d.ix \in Index
  BY DEF TypeInv, TypeOK, Call
<1>2. /\ c.job = d.job /\ c.pc = "stamp" /\ c.stat = None /\ c.at = d.at /\ c.dirty = d.dirty
      /\ c.ix.doc = d.ix.doc /\ c.ix.raced = d.ix.raced
      /\ \A j \in Id : c.ix.stamp[j] = IF j = i THEN s ELSE d.ix.stamp[j]
  BY <1>1 DEF Keep, Call, Index, Stamps
<1> HIDE DEF c
<1>3. StatInv(c) /\ HashInv(c) /\ CheckInv(c) /\ Where(c)
  BY <1>2 DEF CallInv, StatInv, HashInv, CheckInv, Where
<1>4. d.job \in {"search", "command"} => \A j \in Id : Ready(j, c.ix.stamp[j])
  BY <1>2, BytesAssumption DEF CallInv, BuildInv, CommandInv
<1>5. BuildInv(c)
  BY <1>2, <1>4 DEF CallInv, BuildInv
<1>6. CommandInv(c)
  BY <1>2, <1>4 DEF CallInv, CommandInv
<1>7. CallInv(c)
  BY <1>3, <1>5, <1>6 DEF CallInv
<1> QED BY <1>7 DEF c

(* ... or by a stat, which the file's time cannot fall behind, and a read. *)
LEMMA StampHolds ==
  ASSUME TypeInv, TypeOK', SearchInv, NEW p \in Proc, Step(p),
         (\E i \in Id : StampEntry(p, i) \/ StatRacy(p, i)) \/ HashRacy(p)
  PROVE  SearchInv'
<1> DEFINE d == call[p]
<1>1. /\ d \in Call /\ call \in [Proc -> Call] /\ CallInv(d) /\ d.ix \in Index
      /\ now \in Nat /\ Coarse(now) \in Nat
      /\ \A i \in Id : wiki[i] # None => wiki[i] \in File /\ Stat(wiki[i]) \in Stamp
  BY StatType, CoarseType DEF TypeInv, TypeOK, FilesTypeOK, SearchInv, Call
<1>2. Unknown \in Stamp /\ \A i \in Id : Ready(i, Unknown)
  BY DEF Unknown, Stamp, Ready
<1>3. ASSUME NEW i \in Id, NEW s \in Stamp, Ready(i, s), Goes(p, Keep(d, i, s)),
             d.pc \in {"stamp", "hash"}, d.stat \in {i, None}, Still, UNCHANGED <<disk, kept>>
      PROVE  SearchInv'
  <2> DEFINE c == Keep(d, i, s)
  <2>1. CallInv(c)
    BY <1>1, <1>3, KeepHolds
  <2>2. call'[p] = c
    BY <1>1, <1>3 DEF Goes
  <2>3. c.pc = "stamp"
    BY <1>1 DEF Keep, Call
  <2> HIDE DEF c
  <2> QED BY <1>3, <2>1, <2>2, <2>3, QuietOld, InUseHas DEF TypeInv
<1>4. ASSUME NEW i \in Id, StampEntry(p, i) PROVE SearchInv'
  <2> DEFINE s == IF wiki[i] = None THEN Unknown ELSE Stat(wiki[i])
  <2>1. d.pc = "stamp" /\ d.stat = None /\ d.at <= now /\ d.at \in Nat
    BY <1>1, <1>4 DEF StampEntry, Pending, At, CallInv, StatInv, Where, Call
  <2>2. s \in Stamp
    BY <1>1, <1>2
  <2>3. Ready(i, s)
    <3>1. CASE wiki[i] # None
      <4>1. ~Racy(wiki[i].mtime, d.at) /\ wiki[i].mtime \in Nat
        BY <1>1, <1>4, <3>1 DEF StampEntry, File
      <4>2. Old(wiki[i].mtime) /\ wiki[i].mtime <= Coarse(now)
        BY <1>1, <2>1, <4>1, NotRacy
      <4> QED BY <3>1, <4>2 DEF Ready, Stat
    <3> QED BY <1>2, <3>1
  <2>4. Goes(p, Keep(d, i, s)) /\ Still /\ UNCHANGED <<disk, kept>>
    BY <1>4 DEF StampEntry, files, Still
  <2> HIDE DEF s
  <2> QED BY <1>3, <2>1, <2>2, <2>3, <2>4
<1>5. ASSUME NEW i \in Id, StatRacy(p, i) PROVE SearchInv'
  <2> DEFINE s == Stat(wiki[i])
             c == [d EXCEPT !.pc = "hash", !.stat = i, !.ix.stamp[i] = s]
  <2>1. d.pc = "stamp" /\ d.stat = None /\ wiki[i] # None /\ i # None
    BY <1>1, <1>5, BytesAssumption DEF StatRacy, Pending, At, CallInv, StatInv
  <2>2. s \in Stamp /\ s # None /\ s.mtime = wiki[i].mtime /\ wiki[i].mtime \in Nat
    BY <1>1, <2>1, NoIndexAssumption DEF Stat, File
  <2>3. s.mtime <= Coarse(now)
    BY <2>1, <2>2 DEF SearchInv, FilesInv, Files
  <2> HIDE DEF s
  <2>4. /\ c.job = d.job /\ c.pc = "hash" /\ c.stat = i /\ c.at = d.at /\ c.dirty = d.dirty
        /\ c.ix.doc = d.ix.doc /\ c.ix.raced = d.ix.raced
        /\ \A j \in Id : c.ix.stamp[j] = IF j = i THEN s ELSE d.ix.stamp[j]
    BY <1>1 DEF Call, Index, Stamps
  <2>5. call'[p] = c /\ Still /\ UNCHANGED <<disk, kept>>
    BY <1>1, <1>5 DEF StatRacy, Goes, files, Still, s
  <2> HIDE DEF c
  <2>6. StatInv(c) /\ HashInv(c) /\ CheckInv(c) /\ Where(c)
    BY <1>1, <2>1, <2>2, <2>3, <2>4 DEF CallInv, StatInv, HashInv, CheckInv, Where
  <2>7. d.job \in {"search", "command"} => \A j \in Id : j # i => Ready(j, c.ix.stamp[j])
    BY <1>1, <2>1, <2>4, BytesAssumption DEF CallInv, BuildInv, CommandInv
  <2>8. BuildInv(c) /\ CommandInv(c)
    BY <1>1, <2>1, <2>4, <2>7 DEF CallInv, BuildInv, CommandInv
  <2>9. CallInv(c)
    BY <2>6, <2>8 DEF CallInv
  <2> QED BY <2>4, <2>5, <2>9, QuietOld, InUseHas DEF TypeInv
<1>6. CASE HashRacy(p)
  <2> DEFINE i == d.stat
             t == d.ix.stamp[i]
             s == IF wiki[i] = None THEN Unknown ELSE [t EXCEPT !.hash = wiki[i].bytes]
  <2>1. d.pc = "hash" /\ i \in Id /\ t \in Stamp
    BY <1>1, <1>6 DEF HashRacy, At, CallInv, StatInv, Call, Index, Stamps
  <2>2. s \in Stamp
    BY <1>1, <1>2, <2>1 DEF Stamp, File
  <2>3. Ready(i, s)
    <3>1. CASE wiki[i] # None
      <4>1. t.mtime <= Coarse(now) /\ t.mtime <= wiki[i].mtime /\ t.mtime \in Nat
            /\ wiki[i].mtime \in Nat
        BY <1>1, <2>1, <3>1 DEF CallInv, HashInv, Files, Stamp, File
      <4>2. Old(wiki[i].mtime) \/ wiki[i].bytes \in held[i] \cup {Blank}
        BY <2>1, <3>1 DEF SearchInv, FilesInv, Files
      <4>3. s.mtime = t.mtime /\ s.hash = wiki[i].bytes
        BY <2>1, <3>1 DEF Stamp
      <4> HIDE DEF s, t, i
      <4> QED BY <1>1, <4>1, <4>2, <4>3 DEF Ready, Old
    <3> QED BY <1>2, <2>1, <3>1
  <2>4. Goes(p, Keep(d, i, s)) /\ Still /\ UNCHANGED <<disk, kept>>
    BY <1>6 DEF HashRacy, files, Still
  <2> HIDE DEF s
  <2> QED BY <1>3, <2>1, <2>2, <2>3, <2>4
<1> QED BY <1>4, <1>5, <1>6

(* Reading the articles, one by one, before or after their files are stamped. *)
LEMMA ListHolds ==
  ASSUME TypeInv, TypeOK', SearchInv, NEW p \in Proc, Step(p), NEW i \in Id, ListOne(p, i)
  PROVE  SearchInv'
<1> DEFINE d == call[p]
           c == [d EXCEPT !.todo = @ \ {i}, !.ix.doc[i] = Parsed(wiki[i])]
<1>1. d \in Call /\ call \in [Proc -> Call] /\ CallInv(d) /\ d.ix \in Index
  BY DEF TypeInv, TypeOK, SearchInv, Call
<1>2. d.pc = "list" /\ d.stat = None
  BY <1>1 DEF ListOne, Pending, At, CallInv, StatInv
<1>3. /\ c.job = d.job /\ c.pc = "list" /\ c.stat = None /\ c.at = d.at /\ c.dirty = d.dirty
      /\ c.todo = d.todo \ {i} /\ c.ix.stamp = d.ix.stamp /\ c.ix.raced = d.ix.raced
      /\ \A j \in Id : c.ix.doc[j] = IF j = i THEN Parsed(wiki[i]) ELSE d.ix.doc[j]
  BY <1>1, <1>2 DEF Call, Index, Docs
<1>4. call'[p] = c /\ Still /\ UNCHANGED <<disk, kept>>
  BY <1>1 DEF ListOne, Goes, files, Still
<1> HIDE DEF c
<1>5. StatInv(c) /\ HashInv(c) /\ CheckInv(c) /\ Where(c)
  BY <1>1, <1>2, <1>3 DEF CallInv, StatInv, HashInv, CheckInv, Where
<1>6. BuildInv(c)
  <2>1. ASSUME d.job = "search", NEW j \in Id \ c.todo, c.ix.stamp[j] # None PROVE Exact(c.ix, j)
    <3>1. CASE j = i
      BY <1>3, <3>1 DEF Exact
    <3>2. CASE j # i
      <4>1. Exact(d.ix, j)
        BY <1>1, <1>2, <1>3, <2>1, <3>2 DEF CallInv, BuildInv
      <4> QED BY <1>3, <3>2, <4>1 DEF Exact, LooksFresh
    <3> QED BY <3>1, <3>2
  <2> QED BY <1>1, <1>2, <1>3, <2>1 DEF CallInv, BuildInv
<1>7. CommandInv(c)
  BY <1>1, <1>2, <1>3 DEF CallInv, CommandInv
<1>8. CallInv(c)
  BY <1>5, <1>6, <1>7 DEF CallInv
<1> QED BY <1>3, <1>4, <1>8, QuietOld, InUseHas DEF TypeInv

(* A command begins to list, and begins to stamp what it has listed. *)
LEMMA ListingHolds ==
  ASSUME TypeInv, TypeOK', SearchInv, NEW p \in Proc, Step(p), BeginListing(p) \/ BuildIndex(p)
  PROVE  SearchInv'
<1> DEFINE d == call[p]
<1>1. d \in Call /\ call \in [Proc -> Call] /\ CallInv(d) /\ now \in Nat
  BY DEF TypeInv, TypeOK, FilesTypeOK, SearchInv
<1>2. \A i \in Id \ Files : Parsed(wiki[i]) = None
  BY DEF Files, Parsed
<1>3. CASE BeginListing(p)
  <2> DEFINE c == [Idle EXCEPT !.job = "command", !.pc = "list", !.todo = Files]
  <2>1. CallInv(c)
    BY <1>1, <1>2 DEF Idle, NoIndex, NoDocs, CallInv, StatInv, HashInv, BuildInv, CommandInv,
       CheckInv, Where
  <2>2. call'[p] = c /\ Still /\ UNCHANGED <<disk, kept>> /\ c.pc = "list"
    BY <1>1, <1>3 DEF BeginListing, Goes, files, Still, Idle
  <2> HIDE DEF c
  <2> QED BY <2>1, <2>2, QuietOld, InUseHas DEF TypeInv
<1>4. CASE BuildIndex(p)
  <2> DEFINE c == [d EXCEPT !.pc = "stamp", !.at = now, !.files = Files, !.todo = Files]
  <2>1. d.job = "command" /\ d.pc = "list" /\ d.todo = {} /\ d.stat = None
    BY <1>1, <1>4 DEF BuildIndex, Listed, At, CallInv, StatInv
  <2>2. \A i \in Id : Ready(i, NoStamps[i])
    BY DEF Ready, NoStamps
  <2>3. CallInv(c)
    BY <1>1, <2>1, <2>2 DEF Call, CallInv, StatInv, HashInv, BuildInv, CommandInv, CheckInv, Where
  <2>4. call'[p] = c /\ Still /\ UNCHANGED <<disk, kept>> /\ c.pc = "stamp"
    BY <1>1, <1>4 DEF BuildIndex, Goes, files, Still, Call
  <2> HIDE DEF c
  <2> QED BY <2>3, <2>4, QuietOld, InUseHas DEF TypeInv
<1> QED BY <1>3, <1>4

(* The stamps are taken: a search goes on to list, a command to vouch. *)
LEMMA TakenHolds ==
  ASSUME TypeInv, TypeOK', SearchInv, NEW p \in Proc, Step(p), StampsTaken(p)
  PROVE  SearchInv'
<1> DEFINE d == call[p]
<1>1. d \in Call /\ call \in [Proc -> Call] /\ CallInv(d) /\ d.ix \in Index
  BY DEF TypeInv, TypeOK, SearchInv, Call
<1>2. d.pc = "stamp" /\ d.stat = None /\ Still /\ UNCHANGED <<disk, kept>>
  BY <1>1 DEF StampsTaken, At, CallInv, StatInv, files, Still
<1>3. d.job \in {"search", "command"} => \A i \in Id : Ready(i, d.ix.stamp[i])
  BY <1>1, <1>2, BytesAssumption DEF CallInv, BuildInv, CommandInv
<1>4. \A ix, i : i \in Id \ Files => (LooksFresh(ix, i) <=> ix.stamp[i] = None)
  BY DEF Files, LooksFresh
<1>5. CASE d.job = "search"
  <2> DEFINE c == [d EXCEPT !.pc = "list", !.todo = Files]
  <2>1. CallInv(c)
    BY <1>1, <1>2, <1>3, <1>4, <1>5 DEF Call, CallInv, StatInv, HashInv, BuildInv, CommandInv,
       CheckInv, Where, Exact
  <2>2. call'[p] = c /\ c.pc = "list"
    BY <1>1, <1>5 DEF StampsTaken, Goes, Call
  <2> HIDE DEF c
  <2> QED BY <1>2, <2>1, <2>2, QuietOld, InUseHas DEF TypeInv
<1>6. CASE d.job = "command"
  <2> DEFINE ix == Assign(d.ix)
             t  == {i \in Entries(ix) : ix.doc[i] = None}
             c  == [d EXCEPT !.pc = "vouch", !.ix = ix, !.todo = t]
  <2>1. /\ ix.doc = d.ix.doc
        /\ \A i \in Id : ix.stamp[i] = IF d.ix.doc[i] # None /\ d.ix.stamp[i] = None
                                       THEN Unknown ELSE d.ix.stamp[i]
    BY <1>1 DEF Assign, Index
  <2>2. \A i \in Id : i \in t <=> ix.stamp[i] # None /\ ix.doc[i] = None
    BY DEF Entries
  <2>3. call'[p] = c
    BY <1>1, <1>6 DEF StampsTaken, Goes
  <2>4. Unknown # None /\ \A i \in Id : Ready(i, Unknown)
    BY NoIndexAssumption DEF Unknown, Ready, Stamp
  <2>5. \A i \in Id : Ready(i, ix.stamp[i])
    BY <1>3, <1>6, <2>1, <2>4
  <2>6. \A i \in Id : ix.stamp[i] = None => ix.doc[i] = None
    BY <2>1, <2>4
  <2>7. \A i \in Id \ t : ix.doc[i] = None => Exact(ix, i)
    BY <2>2 DEF Exact, LooksFresh, SameStat, Parsed
  <2>8. t \subseteq Id /\ \A i \in t : ix.doc[i] = None
    BY DEF Entries
  <2> HIDE DEF ix, t
  <2>9. /\ c.job = "command" /\ c.pc = "vouch" /\ c.stat = None /\ c.at = d.at
        /\ c.dirty = d.dirty /\ c.todo = t /\ c.ix = ix
    BY <1>1, <1>2, <1>6 DEF Call
  <2> HIDE DEF c
  <2>10. CommandInv(c)
    BY <1>1, <1>2, <1>6, <2>1, <2>5, <2>6, <2>7, <2>8, <2>9 DEF CallInv, CommandInv
  <2>11. CallInv(c)
    BY <1>1, <2>9, <2>10 DEF CallInv, StatInv, HashInv, BuildInv, CheckInv, Where
  <2> QED BY <1>2, <2>3, <2>9, <2>11, QuietOld, InUseHas DEF TypeInv
<1> QED BY <1>5, <1>6 DEF StampsTaken

(* A command reads again what it has stamped and not listed, and saves its index. *)
LEMMA VouchHolds ==
  ASSUME TypeInv, TypeOK', SearchInv, NEW p \in Proc, Step(p), NEW i \in Id, Vouch(p, i)
  PROVE  SearchInv'
<1> DEFINE d == call[p]
           s == IF Parsed(wiki[i]) # None THEN None ELSE d.ix.stamp[i]
           c == [d EXCEPT !.todo = @ \ {i}, !.ix.stamp[i] = s]
<1>1. d \in Call /\ call \in [Proc -> Call] /\ CallInv(d) /\ d.ix \in Index
  BY DEF TypeInv, TypeOK, SearchInv, Call
<1>2. d.pc = "vouch" /\ d.stat = None /\ i \in d.todo /\ d.job = "command"
  BY <1>1 DEF Vouch, Pending, At, CallInv, StatInv, Where
<1>3. call'[p] = c /\ Still /\ UNCHANGED <<disk, kept>>
  BY <1>1 DEF Vouch, Goes, files, Still, Call, Index
<1>4. Ready(i, s)
  BY <1>1, <1>2, BytesAssumption DEF CallInv, CommandInv, Ready
<1>5. d.ix.doc[i] = None
  BY <1>1, <1>2 DEF CallInv, CommandInv
<1>6. s = None \/ Parsed(wiki[i]) = None
  OBVIOUS
<1>7. wiki[i] = None => Parsed(wiki[i]) = None
  BY DEF Parsed
<1> HIDE DEF s
<1>8. /\ c.job = "command" /\ c.pc = "vouch" /\ c.stat = None /\ c.at = d.at
      /\ c.dirty = d.dirty /\ c.todo = d.todo \ {i} /\ c.ix.doc = d.ix.doc
      /\ \A j \in Id : c.ix.stamp[j] = IF j = i THEN s ELSE d.ix.stamp[j]
  BY <1>1, <1>2 DEF Call, Index, Stamps
<1> HIDE DEF c
<1>9. CommandInv(c)
  <2>1. \A j \in Id : Ready(j, c.ix.stamp[j])
    BY <1>1, <1>2, <1>4, <1>8, BytesAssumption DEF CallInv, CommandInv
  <2>2. \A j \in Id : c.ix.stamp[j] = None => c.ix.doc[j] = None
    BY <1>1, <1>2, <1>5, <1>8 DEF CallInv, CommandInv
  <2>3. ASSUME NEW j \in Id \ c.todo, c.ix.doc[j] = None PROVE Exact(c.ix, j)
    <3>1. CASE j = i
      BY <1>6, <1>7, <1>8, <2>3, <3>1 DEF Exact, LooksFresh, SameStat
    <3>2. CASE j # i
      <4>1. Exact(d.ix, j)
        BY <1>1, <1>2, <1>8, <2>3, <3>2 DEF CallInv, CommandInv
      <4> QED BY <1>8, <3>2, <4>1 DEF Exact, LooksFresh
    <3> QED BY <3>1, <3>2
  <2> QED BY <1>1, <1>2, <1>8, <2>1, <2>2, <2>3 DEF CallInv, CommandInv
<1>10. CallInv(c)
  BY <1>1, <1>8, <1>9 DEF CallInv, StatInv, HashInv, BuildInv, CheckInv, Where
<1> QED BY <1>3, <1>8, <1>10, QuietOld, InUseHas DEF TypeInv

(* The index is exact but for the articles that others wrote meanwhile, and says which. *)
LEMMA SaveHolds ==
  ASSUME TypeInv, TypeOK', SearchInv, NEW p \in Proc, Step(p), SaveIndex(p)
  PROVE  SearchInv'
<1> DEFINE d  == call[p]
           r  == {i \in d.dirty : d.ix.doc[i] # None}
           ix == [d.ix EXCEPT !.raced = r]
<1>1. d \in Call /\ call \in [Proc -> Call] /\ CallInv(d) /\ d.ix \in Index
  BY DEF TypeInv, TypeOK, SearchInv, Call
<1>2. d.pc = "vouch" /\ d.stat = None /\ d.todo = {} /\ d.job = "command"
  BY <1>1 DEF SaveIndex, At, CallInv, StatInv, Where
<1>3. ix.doc = d.ix.doc /\ ix.stamp = d.ix.stamp /\ ix.raced = r
  BY <1>1 DEF Index
<1>4. call'[p] = Idle /\ disk' = ix /\ kept' = kept /\ Still
  BY <1>1 DEF SaveIndex, Replaces, files, Still
<1> HIDE DEF ix
<1>5. ASSUME NEW i \in Id PROVE Safe(ix, i)
  <2>1. Ready(i, d.ix.stamp[i]) /\ (d.ix.stamp[i] = None => d.ix.doc[i] = None)
        /\ (d.ix.doc[i] = None => Exact(d.ix, i)) /\ (i \notin d.dirty => d.ix.doc[i] = Parsed(wiki[i]))
    BY <1>1, <1>2, BytesAssumption DEF CallInv, CommandInv
  <2> QED BY <1>3, <2>1 DEF Safe, Exact, LooksFresh
<1> DEFINE N == {ix}
<1>6. /\ \A x \in N : \A i \in Id : Safe(x, i)
      /\ disk' \in InUse \cup N \cup {None}
      /\ \A q \in Proc : kept'[q] \in InUse \cup N \cup {None}
  BY <1>4, <1>5, InUseHas DEF TypeInv
<1>7. CallInv(Idle) /\ Idle.pc = "idle"
  BY IdleInv DEF Idle, TypeInv
<1> HIDE DEF N
<1> QED BY <1>4, <1>6, <1>7, Quiet

(***************************************************************************)
(* The invariant.                                                          *)
(***************************************************************************)
(* A file is written or removed, or the clock moves on: no index is made. *)
LEMMA WriteHolds ==
  ASSUME ~Rewrites, TypeInv, TypeOK', SearchInv, NEW p \in Proc, Step(p), NEW i \in Id,
         \/ BeginWrite(p, i)
         \/ Delete(p, i)
         \/ \E b \in Text \cup {Bad} : EndWrite(p, i, b)
  PROVE  SearchInv'
<1> USE DEF TypeInv, TypeOK
<1>1. Touches(i) /\ UNCHANGED <<disk, kept>>
  BY WriteTouches DEF BeginWrite, Delete, EndWrite
<1>2. \A q \in Proc \ {p} : Same(call[q], call'[q])
  BY OthersStay
<1>3. FilesInv'
  BY <1>1, FilesKept DEF SearchInv
<1>4. PICK c : Writes(p, i, c) /\ CallInv(c) /\ c.pc \in {"idle", "write", "unindex"} /\ c.at = 0
  <2>1. Idle.pc = "idle" /\ Idle.at = 0
        /\ \A pc \in {"write", "unindex"} :
             [Idle EXCEPT !.job = "command", !.pc = pc].pc = pc
             /\ [Idle EXCEPT !.job = "command", !.pc = pc].at = 0
    BY DEF Idle
  <2> QED BY <2>1, IdleInv DEF BeginWrite, Delete, EndWrite
<1>5. call'[p] = c
  BY <1>4 DEF Writes
<1>6. CallInv(call[p])'
  <2>1. now' = now /\ now \in Nat
    BY <1>1 DEF Touches, FilesTypeOK
  <2> QED BY <1>4, <1>5, <2>1 DEF CallInv, StatInv, HashInv, BuildInv, CommandInv, CheckInv, Where
<1>7. ASSUME NEW q \in Proc \ {p} PROVE CallInv(call[q])'
  <2>1. call[q].pc \in {"list", "stamp", "hash", "vouch"} /\ call[q].job = "command"
          => i \in call'[q].dirty
    <3>1. call'[q] = Told(q, i, wiki'[i]) /\ call[q] \in Call
      BY <1>4 DEF Writes
    <3> QED BY <3>1 DEF Told, Call
  <2> QED BY <1>1, <1>2, <1>3, <2>1, CallKept DEF SearchInv
<1>8. InUse' \subseteq InUse
  <2> DEFINE N == {}
  <2>1. disk' \in InUse \cup N \cup {None} /\ (\A q \in Proc : kept'[q] \in InUse \cup N \cup {None})
    BY <1>1, InUseHas
  <2>2. ~(call'[p].pc \in {"check", "rehash", "answer"})
    BY <1>4, <1>5
  <2>3. InUse' \subseteq InUse \cup N
    <3> HIDE DEF N
    <3> QED BY <1>2, <2>1, <2>2, InUseStep
  <2> QED BY <2>3
<1>9. (\A ix \in InUse : \A j \in Id : Safe(ix, j))'
  <2>1. \A ix \in Index : \A j \in Id : Safe(ix, j) => Safe(ix, j)'
    BY <1>1, SafeKept
  <2> QED BY <1>8, <2>1, InUseHas DEF SearchInv, Safe, Ready, Old, Exact, LooksFresh, SameStat
<1> QED BY <1>3, <1>6, <1>7, <1>9 DEF SearchInv

(* A tick makes stamps older and files no different. *)
LEMMA ClockHolds ==
  ASSUME TypeInv, TypeOK', SearchInv, Clock
  PROVE  SearchInv'
<1> USE DEF TypeInv, TypeOK
<1>1. Passes /\ UNCHANGED <<disk, kept, call>>
  BY TickPasses DEF Clock
<1>2. FilesInv'
  BY <1>1, FilesKept DEF SearchInv
<1>3. ASSUME NEW q \in Proc PROVE CallInv(call[q])'
  <2>1. Same(call[q], call'[q])
    BY <1>1 DEF Same
  <2> QED BY <1>1, <1>2, <2>1, CallKept DEF SearchInv
<1>4. (\A ix \in InUse : \A j \in Id : Safe(ix, j))'
  <2>1. \A ix \in Index : \A j \in Id : Safe(ix, j) => Safe(ix, j)'
    BY <1>1, SafeKept
  <2>2. InUse' = InUse
    BY <1>1 DEF InUse
  <2> QED BY <2>1, <2>2, InUseHas DEF SearchInv, Safe, Ready, Old, Exact, LooksFresh, SameStat
<1> QED BY <1>2, <1>3, <1>4 DEF SearchInv

(* Every step keeps the invariant. *)
LEMMA InvStep ==
  ASSUME ~Rewrites, TypeInv, SearchInv, [Next]_vars
  PROVE  SearchInv'
<1>1. TypeInv' /\ TypeOK'
  BY TypeStep DEF TypeInv
<1>2. CASE Clock
  BY <1>1, <1>2, ClockHolds
<1>3. ASSUME NEW p \in Proc, Step(p) PROVE SearchInv'
  <2>1. CASE Command(p)
    BY <1>1, <1>3, <2>1, WriteHolds, VouchHolds, ForgetHolds, ListingHolds, SaveHolds DEF Command
  <2>2. CASE Search(p)
    BY <1>1, <1>3, <2>2, BeginHolds, CheckHolds, AcceptHolds, HealHolds, ForgetHolds DEF Search
  <2>3. CASE Both(p)
    BY <1>1, <1>3, <2>3, StampHolds, ListHolds, TakenHolds DEF Both
  <2> QED BY <1>1, <1>3, <2>1, <2>2, <2>3, ForgetHolds DEF Step
<1>4. CASE UNCHANGED vars
  <2>1. Still /\ UNCHANGED <<call, disk, kept>>
    BY <1>4 DEF vars, Still
  <2>2. \A q \in Proc : CallInv(call[q])'
    BY <2>1, CallStill DEF SearchInv
  <2>3. FilesInv'
    BY <2>1 DEF Still, SearchInv, FilesInv, Files, Old
  <2>4. InUse' = InUse
    BY <2>1 DEF InUse
  <2>5. (\A ix \in InUse : \A i \in Id : Safe(ix, i))'
    BY <2>1, <2>4 DEF SearchInv, Still, Safe, Ready, Old, Exact, LooksFresh, SameStat
  <2> QED BY <2>2, <2>3, <2>5 DEF SearchInv
<1> QED BY <1>2, <1>3, <1>4 DEF Next, Step

(* At the start no index exists. *)
LEMMA InvInit ==
  ASSUME Init
  PROVE  SearchInv
<1>1. TypeOK
  BY TypeInit DEF TypeInv
<1>2. FilesInv
  BY DEF Init, FilesInit, FilesInv, Files
<1>3. InUse = {}
  BY DEF Init, InUse, Idle
<1> QED BY <1>1, <1>2, <1>3, IdleInv DEF Init, SearchInv

(* What every index in use knows of every file is safe, and what every process is about to
   make of its own index will be, if no file is given the same bytes twice in a grain. *)
THEOREM SearchInvariant ==
  ASSUME ~Rewrites
  PROVE  Spec => []SearchInv
<1>1. Init => TypeInv /\ SearchInv
  BY TypeInit, InvInit
<1>2. TypeInv /\ SearchInv /\ [Next]_vars => (TypeInv /\ SearchInv)'
  BY TypeStep, InvStep
<1> QED BY <1>1, <1>2, PTL DEF Spec

(* No index that a search may answer from takes a file for the one it indexed when it is
   not: for any processes, files, clock and grain not coarser than the racy window. *)
THEOREM FreshExact ==
  ASSUME ~Rewrites
  PROVE  Spec => []FreshIsExact
<1>1. SearchInv => FreshIsExact
  BY DEF SearchInv, FreshIsExact, Safe, Exact
<1> QED BY <1>1, SearchInvariant, PTL


(***************************************************************************)
(* The files, and the pens of those who write them.                        *)
(***************************************************************************)
(* The steps that process p writes or removes file i with. *)
WriteStep(p, i) ==
  BeginWrite(p, i) \/ Delete(p, i) \/ \E b \in Text \cup {Bad} : EndWrite(p, i, b)

(* Every other step leaves the files; only a death changes a pen. *)
LEMMA FilesStay ==
  ASSUME NEW p \in Proc, Step(p), \A i \in Id : ~WriteStep(p, i)
  PROVE  wiki' = wiki /\ (pen' = pen \/ pen' = [pen EXCEPT ![p] = None])
<1>1. CASE Command(p)
  BY <1>1 DEF Command, WriteStep, RemoveIndex, BeginListing, BuildIndex, Vouch, SaveIndex, files
<1>2. CASE Search(p)
  BY <1>2 DEF Search, BeginSearch, SearchNothing, LoadIndex, CheckEntry, Rehash, RejectMissing,
     AcceptFresh, Heal, HealNothing, Answer, files
<1>3. CASE Both(p)
  BY <1>3 DEF Both, StampEntry, StatRacy, ListOne, HashRacy, StampsTaken, files
<1>4. CASE Crash(p)
  BY <1>4 DEF Crash, Drop
<1> QED BY <1>1, <1>2, <1>3, <1>4 DEF Step

(* A file is truncated when nobody writes it, and removed likewise. *)
LEMMA PenStep ==
  ASSUME TypeOK, PenInv, [Next]_vars
  PROVE  PenInv'
<1> USE DEF TypeOK, FilesTypeOK, PenInv
<1>1. ASSUME NEW p \in Proc, NEW i \in Id, Truncate(p, i) PROVE PenInv'
  <2> DEFINE f == [bytes |-> Blank, mtime |-> Coarse(now)]
  <2>1. f # None /\ f.bytes = Blank
    BY CoarseType, NoneAssumption DEF File, Bytes
  <2>2. /\ wiki' = [wiki EXCEPT ![i] = f] /\ pen' = [pen EXCEPT ![p] = i]
        /\ \A q \in Proc : pen[q] # i
    BY <1>1 DEF Truncate, Free
  <2> HIDE DEF f
  <2> QED BY <2>1, <2>2
<1>2. ASSUME NEW p \in Proc, NEW i \in Id, NEW b \in Text \cup {Bad}, Fill(p, i, b) PROVE PenInv'
  BY <1>2, BytesAssumption DEF Fill
<1>3. ASSUME NEW p \in Proc, NEW i \in Id, Remove(p, i) PROVE PenInv'
  BY <1>3 DEF Remove, Free
<1>4. ASSUME NEW p \in Proc, wiki' = wiki, pen' = pen \/ pen' = [pen EXCEPT ![p] = None]
      PROVE  PenInv'
  BY <1>4
<1>5. CASE Clock \/ UNCHANGED vars
  BY <1>5 DEF Clock, Tick, vars
<1>6. ASSUME NEW p \in Proc, Step(p) PROVE PenInv'
  <2>1. CASE \E i \in Id : WriteStep(p, i)
    BY <1>1, <1>2, <1>3, <2>1 DEF WriteStep, BeginWrite, Delete, EndWrite
  <2>2. CASE \A i \in Id : ~WriteStep(p, i)
    BY <1>4, <1>6, <2>2, FilesStay
  <2> QED BY <2>1, <2>2
<1> QED BY <1>5, <1>6 DEF Next, Step

(***************************************************************************)
(* What other processes do to a search in progress.                        *)
(***************************************************************************)
(* A call stays what it is but for its history, and so does what it has seen. *)
LEMMA Unhurt ==
  ASSUME NEW c, NEW d, SeenInv(c), Same(c, d), d.seen = c.seen
  PROVE  SeenInv(d)
BY DEF SeenInv, Same, Seen

(* The same files. *)
LEMMA SameSeen ==
  ASSUME wiki' = wiki, NEW p \in Proc, SeenInv(call'[p])
  PROVE  SeenInv(call[p])'
BY DEF SeenInv, Seen, SameStat

(* An index that is saved or removed, or nothing at all, hurts no search. *)
LEMMA OwnStep ==
  ASSUME TypeOK, wiki' = wiki, \A q \in Proc : SeenInv(call[q]), NEW p \in Proc, NEW c, SeenInv(c),
         Goes(p, c) \/ \E ix : Replaces(p, ix, c)
  PROVE  \A q \in Proc : SeenInv(call[q])'
<1>0. call \in [Proc -> Call]
  BY DEF TypeOK
<1>1. ASSUME NEW q \in Proc \ {p} PROVE SeenInv(call'[q])
  <2>1. Same(call[q], call'[q])
    BY Others
  <2>2. call'[q].seen = call[q].seen
    BY <1>0 DEF Goes, Replaces, Call
  <2> QED BY <2>1, <2>2, Unhurt
<1>2. call'[p] = c
  BY <1>0 DEF Goes, Replaces
<1> QED BY <1>1, <1>2, SameSeen

(* A search learns of every write what the file is now: it is blank, or     *)
(* gone, or has been blank before.                                          *)
LEMMA WriteSeen ==
  ASSUME TypeInv, TypeOK', PenInv, \A q \in Proc : SeenInv(call[q]), NEW p \in Proc, NEW i \in Id,
         WriteStep(p, i)
  PROVE  \A q \in Proc : SeenInv(call[q])'
<1>0. /\ call \in [Proc -> Call] /\ wiki \in [Id -> File \cup {None}]
      /\ wiki' \in [Id -> File \cup {None}] /\ pen \in [Proc -> Id \cup {None}]
  BY DEF TypeInv, TypeOK, FilesTypeOK
<1>1. PICK c : Writes(p, i, c) /\ c.job # "search"
  <2>1. /\ Idle.job # "search"
        /\ \A pc \in {"write", "unindex"} :
             [Idle EXCEPT !.job = "command", !.pc = pc].job # "search"
    BY DEF Idle
  <2> QED BY <2>1 DEF WriteStep, BeginWrite, Delete, EndWrite
<1>2. /\ \A j \in Id \ {i} : wiki'[j] = wiki[j]
      /\ \/ wiki'[i] = None \/ Parsed(wiki'[i]) = Blank
         \/ Parsed(wiki[i]) = Blank
  <2>1. CASE BeginWrite(p, i)
    BY <1>0, <2>1, BytesAssumption, NoneAssumption DEF BeginWrite, Truncate, Parsed, File, Bytes
  <2>2. CASE Delete(p, i)
    BY <1>0, <2>2 DEF Delete, Remove
  <2>3. ASSUME NEW b \in Text \cup {Bad}, EndWrite(p, i, b)
        PROVE  Parsed(wiki[i]) = Blank /\ \A j \in Id \ {i} : wiki'[j] = wiki[j]
    <3>1. pen[p] = i /\ i # None
      BY <2>3, BytesAssumption DEF EndWrite, Fill
    <3>2. Parsed(wiki[i]) = Blank
      BY <3>1, BytesAssumption DEF PenInv, Parsed
    <3> QED BY <1>0, <2>3, <3>2 DEF EndWrite, Fill
  <2> QED BY <2>1, <2>2, <2>3 DEF WriteStep
<1>3. ASSUME NEW q \in Proc \ {p} PROVE SeenInv(call[q])'
  <2> DEFINE d == call[q]
  <2>1. Same(d, d') /\ d' = Told(q, i, wiki'[i]) /\ d \in Call
    BY <1>0, <1>1, Others DEF TypeInv, Writes
  <2>2. CASE d.job # "search"
    BY <2>1, <2>2 DEF SeenInv, Same
  <2>3. CASE d.job = "search"
    <3>1. /\ \A j \in Id : d.seen[j] \subseteq d'.seen[j]
          /\ Parsed(wiki'[i]) \in d'.seen[i]
      <4> DEFINE x == Parsed(wiki'[i])
      <4>1. d' = [d EXCEPT !.seen[i] = d.seen[i] \cup {x}, !.calm = FALSE]
        BY <2>1, <2>3 DEF Told
      <4>2. d.seen \in [Id -> SUBSET (Text \cup {Blank, None})] /\ d \in Call
        BY <2>1 DEF Call
      <4> HIDE DEF d, x
      <4>3. d'.seen = [d.seen EXCEPT ![i] = d.seen[i] \cup {x}]
        BY <4>1, <4>2 DEF Call
      <4>4. \A j \in Id : d'.seen[j] = IF j = i THEN d.seen[i] \cup {x} ELSE d.seen[j]
        BY <4>2, <4>3
      <4> QED BY <4>4 DEF x
    <3>2. SeenInv(d)
      OBVIOUS
    <3>3. \A j \in Id : Parsed(wiki'[j]) \in d'.seen[j]
      BY <1>2, <2>3, <3>1, <3>2 DEF SeenInv
    <3>4. \A j \in Id : Seen(d, j) => Seen(d', j)
      BY <2>1, <3>1 DEF Seen, Same
    <3>5. wiki'[i] = None \/ Blank \in d'.seen[i]
      BY <1>2, <2>3, <3>1, <3>2 DEF SeenInv
    <3>6. d.pc = "rehash" => d.stat \in Id
      BY <2>1 DEF TypeInv, StatInv, Call
    <3>7. d.pc = "rehash" => \/ SameStat(d.stat, d.ix.stamp[d.stat])'
                             \/ wiki'[d.stat] = None \/ Blank \in d'.seen[d.stat]
      <4>1. CASE d.stat = i
        BY <3>5, <4>1
      <4>2. CASE d.stat # i
        BY <1>2, <2>1, <2>3, <3>1, <3>2, <3>6, <4>2 DEF Same, SeenInv, SameStat
      <4> QED BY <4>1, <4>2
    <3> HIDE DEF d
    <3>8. /\ d'.pc = d.pc /\ d'.files = d.files /\ d'.todo = d.todo /\ d'.stat = d.stat
          /\ d'.ix = d.ix
      BY <2>1 DEF Same
    <3>9. \A j \in Id \ d.files : None \in d'.seen[j]
      BY <2>3, <3>1, <3>2 DEF SeenInv
    <3>10. /\ d.pc \in {"check", "rehash"} =>
                \A j \in d.files \ (d.todo \cup d.ix.raced) : Seen(d', j)
           /\ d.pc = "list" => \A j \in Id \ d.todo : Seen(d', j)
           /\ d.pc = "answer" => \A j \in Id \ d.ix.raced : Seen(d', j)
      BY <2>1, <2>3, <3>2, <3>4 DEF SeenInv, Call
    <3>11. SeenInv(d)'
      BY <3>3, <3>7, <3>8, <3>9, <3>10 DEF SeenInv, Seen, SameStat
    <3> QED BY <3>11 DEF d
  <2> QED BY <2>2, <2>3
<1>4. SeenInv(call[p])'
  BY <1>0, <1>1 DEF Writes, SeenInv
<1> QED BY <1>3, <1>4

(***************************************************************************)
(* The steps of a search.                                                  *)
(***************************************************************************)
(* What is known of a search in progress. *)
LEMMA Known ==
  ASSUME TypeInv, SearchInv, NEW p \in Proc, SeenInv(call[p])
  PROVE  /\ call \in [Proc -> Call] /\ call[p] \in Call /\ call[p].ix \in Index
         /\ CallInv(call[p])
         /\ call[p].pc \in {"check", "rehash", "answer"} => \A i \in Id : Safe(call[p].ix, i)
<1>1. TypeOK /\ CallInv(call[p])
  BY DEF TypeInv, SearchInv
<1> QED BY <1>1, InUseHas DEF SearchInv, TypeOK, Call

(* It begins with nothing checked; and so it does with another candidate, or none. *)
LEMMA BuildSeen ==
  ASSUME TypeOK, NEW p \in Proc, SeenInv(call[p]), call[p].job = "search"
  PROVE  /\ SeenInv(Build(call[p]))
         /\ SeenInv([call[p] EXCEPT !.pc = "load", !.stat = None])
         /\ \A ix \in Index : SeenInv([call[p] EXCEPT !.pc = "check", !.ix = ix, !.from = "disk",
                                                     !.todo = call[p].files])
<1>1. call[p] \in Call
  BY DEF TypeOK
<1> QED BY <1>1 DEF SeenInv, Build, Call

LEMMA BeginSeen ==
  ASSUME TypeInv, SearchInv, NEW p \in Proc, \A q \in Proc : SeenInv(call[q]),
         BeginSearch(p) \/ LoadIndex(p)
  PROVE  \A q \in Proc : SeenInv(call[q])'
<1>1. TypeOK /\ Idle \in Call /\ CallInv(call[p])
  BY IdleType DEF TypeInv, SearchInv
<1>2. CASE BeginSearch(p)
  <2> DEFINE ix == IF kept[p] = None THEN NoIndex ELSE kept[p]
             pc == IF kept[p] = None THEN "load" ELSE "check"
             sn == [i \in Id |-> {Parsed(wiki[i])}]
             c == [Idle EXCEPT !.job = "search", !.at = now, !.files = Files, !.todo = Files,
                               !.pc = pc, !.ix = ix, !.from = "kept", !.seen = sn, !.calm = TRUE]
  <2>1. /\ c.job = "search" /\ c.files = Files /\ c.todo = Files /\ c.pc \in {"load", "check"}
        /\ c.seen = sn
    BY DEF Idle
  <2>2. \A i \in Id : Parsed(wiki[i]) \in sn[i] /\ (i \notin Files => None \in sn[i])
    BY DEF Files, Parsed
  <2>3. Goes(p, c) /\ wiki' = wiki
    BY <1>2 DEF BeginSearch, files
  <2> HIDE DEF c, sn
  <2>4. SeenInv(c)
    BY <2>1, <2>2 DEF SeenInv
  <2> QED BY <1>1, <2>3, <2>4, OwnStep
<1>3. CASE LoadIndex(p)
  <2>1. call[p].job = "search" /\ wiki' = wiki /\ SeenInv(call[p])
    BY <1>1, <1>3 DEF LoadIndex, At, CallInv, Where, files
  <2>2. disk # None => disk \in Index
    BY <1>1 DEF TypeOK
  <2>3. PICK c : Goes(p, c) /\ SeenInv(c)
    BY <1>1, <1>3, <2>1, <2>2, BuildSeen DEF LoadIndex
  <2> QED BY <1>1, <2>1, <2>3, OwnStep
<1> QED BY <1>2, <1>3

(* A file that looks fresh to a safe index is, or is blank. *)
LEMMA FreshSeen ==
  ASSUME NEW p \in Proc, NEW i \in Id, call[p].job = "search", SeenInv(call[p]),
         Safe(call[p].ix, i), i \notin call[p].ix.raced, LooksFresh(call[p].ix, i)
  PROVE  Seen(call[p], i)
BY DEF Safe, Exact, Seen, SeenInv

(* An entry is checked, or hashed: it is what the file is, or there was a blank meanwhile. *)
LEMMA PassedSeen ==
  ASSUME TypeInv, SearchInv, NEW p \in Proc, \A q \in Proc : SeenInv(call[q]), wiki' = wiki,
         call[p].job = "search", call[p].pc \in {"check", "rehash"}, NEW i \in Id, Passed(p, i),
         LooksFresh(call[p].ix, i) \/ Blank \in call[p].seen[i]
  PROVE  \A q \in Proc : SeenInv(call[q])'
<1> DEFINE d == call[p]
           c == [d EXCEPT !.pc = "check", !.todo = @ \ {i}, !.stat = None]
<1>1. d \in Call /\ SeenInv(d) /\ Safe(d.ix, i) /\ TypeOK
  BY Known DEF TypeInv
<1>2. i \notin d.ix.raced => Seen(d, i)
  BY <1>1, FreshSeen DEF Seen
<1>3. /\ c.job = "search" /\ c.pc = "check" /\ c.todo = d.todo \ {i} /\ c.files = d.files
      /\ c.ix = d.ix /\ c.seen = d.seen
  BY <1>1 DEF Call
<1>4. Goes(p, c)
  BY DEF Passed
<1> HIDE DEF c
<1>5. SeenInv(c)
  BY <1>1, <1>2, <1>3 DEF SeenInv, Seen
<1> QED BY <1>1, <1>4, <1>5, OwnStep

LEMMA RejectSeen ==
  ASSUME TypeInv, NEW p \in Proc, \A q \in Proc : SeenInv(call[q]), wiki' = wiki,
         call[p].job = "search", Reject(p)
  PROVE  \A q \in Proc : SeenInv(call[q])'
<1>1. TypeOK
  BY DEF TypeInv
<1>2. PICK c : Goes(p, c) /\ SeenInv(c)
  BY <1>1, BuildSeen DEF Reject
<1> QED BY <1>1, <1>2, OwnStep

LEMMA CheckSeen ==
  ASSUME TypeInv, SearchInv, NEW p \in Proc, \A q \in Proc : SeenInv(call[q]),
         (\E i \in Id : CheckEntry(p, i)) \/ Rehash(p) \/ RejectMissing(p)
  PROVE  \A q \in Proc : SeenInv(call[q])'
<1> DEFINE d == call[p]
<1>1. /\ TypeOK /\ d \in Call /\ SeenInv(d) /\ CallInv(d)
      /\ d.pc \in {"check", "rehash"} /\ d.job = "search" /\ wiki' = wiki
  BY Known DEF TypeInv, CheckEntry, Pending, Rehash, RejectMissing, At, CallInv, Where, files
<1>2. CASE Reject(p)
  BY <1>1, <1>2, RejectSeen
<1>3. ASSUME NEW i \in Id, CheckEntry(p, i), ~Reject(p) PROVE \A q \in Proc : SeenInv(call[q])'
  <2>1. SameStat(i, d.ix.stamp[i])
    BY <1>3 DEF CheckEntry, Candidate
  <2>2. CASE d.ix.stamp[i].hash = None
    <3>1. Passed(p, i)
      BY <1>3, <2>1, <2>2 DEF CheckEntry, Candidate
    <3>2. LooksFresh(d.ix, i)
      BY <2>1, <2>2 DEF LooksFresh, SameStat
    <3> QED BY <1>1, <3>1, <3>2, PassedSeen
  <2>3. CASE d.ix.stamp[i].hash # None
    <3> DEFINE c == [d EXCEPT !.pc = "rehash", !.stat = i]
    <3>1. Goes(p, c)
      BY <1>3, <2>1, <2>3 DEF CheckEntry, Candidate
    <3>2. d.pc = "check"
      BY <1>3 DEF CheckEntry, Pending, At
    <3>3. /\ c.job = "search" /\ c.pc = "rehash" /\ c.stat = i /\ c.todo = d.todo
          /\ c.files = d.files /\ c.ix = d.ix /\ c.seen = d.seen
      BY <1>1 DEF Call
    <3> HIDE DEF c
    <3>4. SeenInv(c)
      BY <1>1, <2>1, <3>2, <3>3 DEF SeenInv, Seen
    <3> QED BY <1>1, <3>1, <3>4, OwnStep
  <2> QED BY <2>2, <2>3
<1>4. CASE Rehash(p) /\ ~Reject(p)
  <2> DEFINE i == d.stat
  <2>1. d.pc = "rehash" /\ i \in Id
    BY <1>1, <1>4 DEF Rehash, At, TypeInv, StatInv, Call
  <2>2. Passed(p, i) /\ wiki[i] # None /\ wiki[i].bytes = d.ix.stamp[i].hash
    BY <1>4 DEF Rehash, Candidate
  <2>3. SameStat(i, d.ix.stamp[i]) \/ Blank \in d.seen[i]
    BY <1>1, <2>1, <2>2 DEF SeenInv
  <2>4. LooksFresh(d.ix, i) \/ Blank \in d.seen[i]
    BY <2>2, <2>3 DEF LooksFresh
  <2> QED BY <1>1, <2>1, <2>2, <2>4, PassedSeen
<1> QED BY <1>2, <1>3, <1>4 DEF RejectMissing

(* A candidate is fresh: what it has for a missing file is nothing. *)
LEMMA AcceptSeen ==
  ASSUME TypeInv, SearchInv, NEW p \in Proc, \A q \in Proc : SeenInv(call[q]), AcceptFresh(p)
  PROVE  \A q \in Proc : SeenInv(call[q])'
<1> DEFINE d  == call[p]
           ix == Settled(d.ix, d.at)
           c  == [d EXCEPT !.pc = "answer", !.ix = ix]
<1>1. /\ TypeOK /\ d \in Call /\ d.ix \in Index /\ SeenInv(d) /\ CallInv(d)
      /\ d.pc = "check" /\ d.job = "search" /\ wiki' = wiki
      /\ d.todo = {} /\ Entries(d.ix) \subseteq d.files
      /\ \A i \in Id : Safe(d.ix, i)
  BY Known DEF TypeInv, AcceptFresh, At, CallInv, Where, files
<1>2. ix.doc = d.ix.doc /\ ix.raced = d.ix.raced
  BY <1>1 DEF Settled, Index
<1>3. Goes(p, c) \/ \E x : Replaces(p, x, c)
  BY DEF AcceptFresh
<1> HIDE DEF ix
<1>4. c.job = "search" /\ c.pc = "answer" /\ c.files = d.files /\ c.ix = ix /\ c.seen = d.seen
  BY <1>1 DEF Call
<1> HIDE DEF c
<1>5. ASSUME NEW i \in Id \ d.ix.raced PROVE Seen(d, i)
  <2>1. CASE i \in d.files
    BY <1>1, <1>5, <2>1 DEF SeenInv
  <2>2. CASE i \notin d.files
    <3>1. d.ix.stamp[i] = None
      BY <1>1, <2>2 DEF Entries
    <3>2. d.ix.doc[i] = None
      BY <1>1, <3>1 DEF Safe
    <3> QED BY <1>1, <2>2, <3>2 DEF SeenInv, Seen
  <2> QED BY <2>1, <2>2
<1>6. SeenInv(c)
  BY <1>1, <1>2, <1>4, <1>5 DEF SeenInv, Seen
<1> QED BY <1>1, <1>3, <1>6, OwnStep

(* An index that a search builds has for every file what it was when it was listed. *)
LEMMA BuiltSeen ==
  ASSUME TypeInv, SearchInv, NEW p \in Proc, \A q \in Proc : SeenInv(call[q]),
         \/ \E i \in Id : StampEntry(p, i) \/ StatRacy(p, i) \/ ListOne(p, i)
         \/ HashRacy(p) \/ StampsTaken(p) \/ Heal(p)
  PROVE  \A q \in Proc : SeenInv(call[q])'
<1> DEFINE d == call[p]
<1>1. TypeOK /\ d \in Call /\ d.ix \in Index /\ SeenInv(d) /\ CallInv(d)
  BY Known DEF TypeInv
<1>2. wiki' = wiki
  BY DEF StampEntry, StatRacy, ListOne, HashRacy, StampsTaken, Heal, files
<1>3. SUFFICES \E c : SeenInv(c) /\ (Goes(p, c) \/ \E x : Replaces(p, x, c))
  BY <1>1, <1>2, OwnStep
<1>4. ASSUME NEW i \in Id, NEW s PROVE SeenInv(Keep(d, i, s))
  BY <1>1 DEF Keep, SeenInv, Call
<1>5. CASE \E i \in Id : StampEntry(p, i)
  BY <1>4, <1>5 DEF StampEntry
<1>6. CASE HashRacy(p)
  <2>1. d.stat \in Id
    BY <1>1, <1>6 DEF HashRacy, At, TypeInv, StatInv, Call
  <2> QED BY <1>4, <1>6, <2>1 DEF HashRacy
<1>7. ASSUME NEW i \in Id, StatRacy(p, i) PROVE \E c : SeenInv(c) /\ Goes(p, c)
  <2> DEFINE c == [d EXCEPT !.pc = "hash", !.stat = i, !.ix.stamp[i] = Stat(wiki[i])]
  <2>1. c.job = d.job /\ c.pc = "hash" /\ c.files = d.files /\ c.seen = d.seen
    BY <1>1 DEF Call
  <2>2. Goes(p, c)
    BY <1>7 DEF StatRacy
  <2> HIDE DEF c
  <2>3. SeenInv(c)
    BY <1>1, <2>1 DEF SeenInv
  <2> QED BY <2>2, <2>3
<1>8. ASSUME NEW i \in Id, ListOne(p, i) PROVE \E c : SeenInv(c) /\ Goes(p, c)
  <2> DEFINE c == [d EXCEPT !.todo = @ \ {i}, !.ix.doc[i] = Parsed(wiki[i])]
  <2>1. /\ c.job = d.job /\ c.pc = "list" /\ c.files = d.files /\ c.seen = d.seen
        /\ c.todo = d.todo \ {i} /\ d.pc = "list"
        /\ \A j \in Id : c.ix.doc[j] = IF j = i THEN Parsed(wiki[i]) ELSE d.ix.doc[j]
    BY <1>1, <1>8 DEF Call, Index, Docs, ListOne, Pending, At
  <2>2. Goes(p, c)
    BY <1>8 DEF ListOne
  <2> HIDE DEF c
  <2>3. SeenInv(c)
    BY <1>1, <2>1 DEF SeenInv, Seen
  <2> QED BY <2>2, <2>3
<1>9. CASE StampsTaken(p)
  <2>1. CASE d.job = "search"
    <3> DEFINE c == [d EXCEPT !.pc = "list", !.todo = Files]
    <3>1. /\ c.job = "search" /\ c.pc = "list" /\ c.files = d.files /\ c.seen = d.seen
          /\ c.todo = Files /\ c.ix = d.ix
      BY <1>1, <2>1 DEF Call
    <3>2. Goes(p, c)
      BY <1>9, <2>1 DEF StampsTaken
    <3>3. \A i \in Id : d.ix.doc[i] = None
      BY <1>1, <1>9, <2>1 DEF StampsTaken, At, CallInv, BuildInv, NoDocs
    <3>4. \A i \in Id \ Files : Parsed(wiki[i]) = None
      BY DEF Files, Parsed
    <3> HIDE DEF c
    <3>5. SeenInv(c)
      BY <1>1, <2>1, <3>1, <3>3, <3>4 DEF SeenInv, Seen
    <3> QED BY <3>2, <3>5
  <2>2. CASE d.job = "command"
    <3> DEFINE ix == Assign(d.ix)
               c  == [d EXCEPT !.pc = "vouch", !.ix = ix,
                               !.todo = {i \in Entries(ix) : ix.doc[i] = None}]
    <3>1. Goes(p, c)
      BY <1>9, <2>2 DEF StampsTaken
    <3>2. c.job = "command"
      BY <1>1, <2>2 DEF Call
    <3> QED BY <3>1, <3>2 DEF SeenInv
  <2> QED BY <1>9, <2>1, <2>2 DEF StampsTaken
<1>10. CASE Heal(p)
  <2> DEFINE ix == Assign(d.ix)
             c  == [d EXCEPT !.pc = "answer", !.ix = ix, !.from = "built"]
  <2>1. ix.doc = d.ix.doc
    BY <1>1 DEF Assign, Index
  <2>2. \E x : Replaces(p, x, c)
    BY <1>10 DEF Heal
  <2>3. d.job = "search" /\ d.pc = "list" /\ d.todo = {}
    BY <1>10 DEF Heal, Listed, At
  <2> HIDE DEF ix
  <2>4. c.job = "search" /\ c.pc = "answer" /\ c.files = d.files /\ c.seen = d.seen /\ c.ix = ix
    BY <1>1, <2>3 DEF Call
  <2> HIDE DEF c
  <2>5. SeenInv(c)
    BY <1>1, <2>1, <2>3, <2>4 DEF SeenInv, Seen
  <2> QED BY <2>2, <2>5
<1> QED BY <1>4, <1>5, <1>6, <1>7, <1>8, <1>9, <1>10

(* A call ends, or is not a search. *)
LEMMA OtherSeen ==
  ASSUME TypeInv, SearchInv, NEW p \in Proc, \A q \in Proc : SeenInv(call[q]),
         \/ RemoveIndex(p) \/ BeginListing(p) \/ BuildIndex(p) \/ SaveIndex(p)
         \/ \E i \in Id : Vouch(p, i)
         \/ SearchNothing(p) \/ HealNothing(p) \/ Answer(p) \/ Crash(p)
  PROVE  \A q \in Proc : SeenInv(call[q])'
<1> DEFINE d == call[p]
<1>1. TypeOK /\ d \in Call /\ CallInv(d) /\ SeenInv(Idle)
  BY Known DEF TypeInv, SeenInv, Idle
<1>2. wiki' = wiki
  BY DEF RemoveIndex, BeginListing, BuildIndex, SaveIndex, Vouch, SearchNothing, HealNothing,
     Answer, Crash, Drop, files
<1>3. CASE RemoveIndex(p) \/ SaveIndex(p) \/ HealNothing(p) \/ Answer(p) \/ Crash(p)
  <2>1. Goes(p, Idle) \/ \E x : Replaces(p, x, Idle)
    BY <1>3 DEF RemoveIndex, SaveIndex, HealNothing, Answer, Crash
  <2> QED BY <1>1, <1>2, <2>1, OwnStep
<1>4. CASE SearchNothing(p)
  BY <1>2, <1>4 DEF SearchNothing, SeenInv, Seen, SameStat
<1>5. CASE BeginListing(p) \/ BuildIndex(p) \/ \E i \in Id : Vouch(p, i)
  <2>1. PICK c : Goes(p, c) /\ c.job = "command"
    <3>1. CASE BeginListing(p)
      <4>1. [Idle EXCEPT !.job = "command", !.pc = "list", !.todo = Files].job = "command"
        BY DEF Idle
      <4> QED BY <3>1, <4>1 DEF BeginListing
    <3>2. CASE BuildIndex(p)
      <4>1. d.job = "command" => [d EXCEPT !.pc = "stamp", !.at = now, !.files = Files,
                                           !.todo = Files].job = "command"
        BY <1>1 DEF Call
      <4> QED BY <3>2, <4>1 DEF BuildIndex
    <3>3. ASSUME NEW i \in Id, Vouch(p, i) PROVE \E c : Goes(p, c) /\ c.job = "command"
      <4> DEFINE s == IF Parsed(wiki[i]) # None THEN None ELSE d.ix.stamp[i]
                 c == [d EXCEPT !.todo = @ \ {i}, !.ix.stamp[i] = s]
      <4>1. d.job = "command"
        BY <1>1, <3>3 DEF Vouch, Pending, At, CallInv, Where
      <4>2. Goes(p, c)
        BY <3>3 DEF Vouch
      <4>3. c.job = "command"
        BY <1>1, <4>1 DEF Call
      <4> QED BY <4>2, <4>3
    <3> QED BY <1>5, <3>1, <3>2, <3>3
  <2>2. SeenInv(c)
    BY <2>1 DEF SeenInv
  <2> QED BY <1>1, <1>2, <2>1, <2>2, OwnStep
<1> QED BY <1>3, <1>4, <1>5

(***************************************************************************)
(* The invariant.                                                          *)
(***************************************************************************)
(* Every step keeps what searches have seen. *)
LEMMA SeenStep ==
  ASSUME TypeInv, SearchInv, SearchSeenInv, [Next]_vars
  PROVE  SearchSeenInv'
<1>1. TypeOK /\ TypeOK' /\ PenInv /\ \A q \in Proc : SeenInv(call[q])
  BY TypeStep DEF TypeInv, SearchSeenInv
<1>2. PenInv'
  BY <1>1, PenStep
<1>3. CASE Clock \/ UNCHANGED vars
  <2>1. wiki' = wiki /\ call' = call
    BY <1>3 DEF Clock, Tick, vars
  <2> QED BY <1>1, <1>2, <2>1 DEF SearchSeenInv, SeenInv, Seen, SameStat
<1>4. ASSUME NEW p \in Proc, Step(p) PROVE \A q \in Proc : SeenInv(call[q])'
  <2>1. CASE \E i \in Id : WriteStep(p, i)
    BY <1>1, <2>1, WriteSeen
  <2>2. CASE Command(p) /\ ~\E i \in Id : WriteStep(p, i)
    BY <1>1, <2>2, OtherSeen DEF Command, WriteStep
  <2>3. CASE Search(p)
    BY <1>1, <2>3, BeginSeen, CheckSeen, AcceptSeen, BuiltSeen, OtherSeen DEF Search
  <2>4. CASE Both(p)
    BY <1>1, <2>4, BuiltSeen DEF Both
  <2>5. CASE Crash(p)
    BY <1>1, <2>5, OtherSeen
  <2> QED BY <1>4, <2>1, <2>2, <2>3, <2>4, <2>5 DEF Step
<1> QED BY <1>2, <1>3, <1>4 DEF Next, Step, SearchSeenInv

(* At the start nobody searches or writes. *)
LEMMA SeenInit ==
  ASSUME Init
  PROVE  SearchSeenInv
BY DEF Init, FilesInit, SearchSeenInv, PenInv, SeenInv, Idle

(* What a search ranks for an article is what its file said at some moment of that search,   *)
(* unless it was blank at one: for any searches, servers, commands, files, kills, and any    *)
(* grain that the racy window covers. *)
THEOREM SearchSees ==
  ASSUME ~Rewrites
  PROVE  Spec => []SearchSeesWiki
<1>1. Init => TypeInv /\ SearchInv /\ SearchSeenInv
  BY TypeInit, InvInit, SeenInit
<1>2. TypeInv /\ SearchInv /\ SearchSeenInv /\ [Next]_vars => (TypeInv /\ SearchInv /\ SearchSeenInv)'
  BY TypeStep, InvStep, SeenStep
<1>3. TypeInv /\ SearchInv /\ SearchSeenInv => SearchSeesWiki
  BY DEF SearchSeesWiki, SearchSeenInv, SeenInv, Seen, SearchInv, CallInv, Where, At
<1> QED BY <1>1, <1>2, <1>3, PTL DEF Spec

(***************************************************************************)
(* What a search leaves behind.                                            *)
(***************************************************************************)
(* The same files. *)
LEMMA SameHeals ==
  ASSUME wiki' = wiki, NEW p \in Proc, HealInv(call'[p], disk')
  PROVE  HealInv(call[p], disk)'
BY DEF HealInv, Stamped, LooksFresh, SameStat, Files

(* A search that others disturb, by a write or a new index, is no longer calm; all else that *)
(* they do leaves the files, the index and the call. *)
LEMMA OwnHeals ==
  ASSUME TypeOK, wiki' = wiki, SearchHealInv, NEW p \in Proc, NEW c, HealInv(c, disk'),
         (Goes(p, c) /\ disk' = disk) \/ \E ix : Replaces(p, ix, c)
  PROVE  SearchHealInv'
<1>0. call \in [Proc -> Call]
  BY DEF TypeOK
<1>1. ASSUME NEW q \in Proc \ {p} PROVE HealInv(call'[q], disk')
  <2>1. CASE Goes(p, c) /\ disk' = disk
    BY <1>0, <2>1 DEF Goes, SearchHealInv
  <2>2. ASSUME NEW ix, Replaces(p, ix, c) PROVE HealInv(call'[q], disk')
    <3>1. /\ call'[q].job # "search" \/ call'[q].calm = FALSE
          /\ call'[q].job = call[q].job /\ call'[q].pc = call[q].pc
      BY <1>0, <2>2 DEF Replaces, Call
    <3> QED BY <3>1 DEF HealInv, SearchHealInv
  <2> QED BY <2>1, <2>2
<1>2. call'[p] = c
  BY <1>0 DEF Goes, Replaces
<1> QED BY <1>1, <1>2, SameHeals DEF SearchHealInv

(* Nobody is calm when a file is written. *)
LEMMA WriteHeals ==
  ASSUME TypeOK, SearchHealInv, NEW p \in Proc, NEW i \in Id, WriteStep(p, i)
  PROVE  SearchHealInv'
<1>0. call \in [Proc -> Call]
  BY DEF TypeOK
<1>1. PICK c : Writes(p, i, c) /\ c.job # "search" /\ c.pc \in {"idle", "write", "unindex"}
  <2>1. /\ Idle.job # "search" /\ Idle.pc = "idle"
        /\ \A pc \in {"write", "unindex"} :
             LET c == [Idle EXCEPT !.job = "command", !.pc = pc]
             IN  c.job # "search" /\ c.pc = pc
    BY DEF Idle
  <2> QED BY <2>1 DEF WriteStep, BeginWrite, Delete, EndWrite
<1>2. ASSUME NEW q \in Proc \ {p}
      PROVE  /\ call'[q].job # "search" \/ call'[q].calm = FALSE
             /\ call'[q].job = call[q].job /\ call'[q].pc = call[q].pc
  BY <1>0, <1>1 DEF Writes, Told, Call
<1>3. call'[p] = c
  BY <1>1 DEF Writes
<1> QED BY <1>1, <1>2, <1>3 DEF SearchHealInv, HealInv

(* A candidate is checked from its first entry, and an index is built from none. *)
LEMMA BuildHeals ==
  ASSUME NEW d \in Call, d.job = "search", HealInv(d, disk)
  PROVE  /\ HealInv(Build(d), disk)
         /\ HealInv([d EXCEPT !.pc = "load", !.stat = None], disk)
         /\ HealInv([d EXCEPT !.pc = "check", !.ix = disk, !.from = "disk", !.todo = d.files], disk)
<1>1. HealInv(Build(d), disk)
  <2> DEFINE c == Build(d)
  <2>1. /\ c.job = d.job /\ c.calm = d.calm /\ c.files = d.files /\ c.pc = "stamp"
        /\ c.todo = d.files /\ c.ix = NoIndex
    BY DEF Build, Call
  <2>2. NoIndex.doc = NoDocs /\ NoIndex.stamp = NoStamps
    BY DEF NoIndex
  <2>3. \A i \in Id : NoDocs[i] = None /\ NoStamps[i] = None
    BY DEF NoDocs, NoStamps
  <2> HIDE DEF c
  <2>4. \A i \in Id \ Files : Stamped(c, i)
    BY <2>1, <2>2, <2>3 DEF Stamped, LooksFresh, Files
  <2>5. d.job = "search" /\ d.calm => d.files = Files
    BY DEF HealInv
  <2>6. \A i \in Id \ Files : c.ix.doc[i] = None
    BY <2>1, <2>2, <2>3
  <2>7. HealInv(c, disk)
    BY <2>1, <2>4, <2>5, <2>6 DEF HealInv
  <2> QED BY <2>7 DEF c
<1>2. HealInv([d EXCEPT !.pc = "load", !.stat = None], disk)
  BY DEF HealInv, Call
<1>3. HealInv([d EXCEPT !.pc = "check", !.ix = disk, !.from = "disk", !.todo = d.files], disk)
  BY DEF HealInv, Call
<1> QED BY <1>1, <1>2, <1>3

LEMMA RejectHeals ==
  ASSUME TypeOK, wiki' = wiki, disk' = disk, SearchHealInv, NEW p \in Proc,
         call[p].pc \in {"check", "rehash"}, Reject(p)
  PROVE  SearchHealInv'
<1>1. call[p] \in Call /\ HealInv(call[p], disk) /\ call[p].job = "search"
  BY DEF TypeOK, SearchHealInv, HealInv
<1>2. PICK c : Goes(p, c) /\ HealInv(c, disk)
  BY <1>1, BuildHeals DEF Reject
<1> QED BY <1>2, OwnHeals

LEMMA BeginHeals ==
  ASSUME TypeOK, SearchHealInv, NEW p \in Proc, BeginSearch(p) \/ LoadIndex(p)
  PROVE  SearchHealInv'
<1>1. call[p] \in Call /\ HealInv(call[p], disk) /\ wiki' = wiki /\ disk' = disk
  BY DEF TypeOK, SearchHealInv, BeginSearch, LoadIndex, files
<1>2. CASE BeginSearch(p)
  <2> DEFINE ix == IF kept[p] = None THEN NoIndex ELSE kept[p]
             pc == IF kept[p] = None THEN "load" ELSE "check"
             sn == [i \in Id |-> {Parsed(wiki[i])}]
             c == [Idle EXCEPT !.job = "search", !.at = now, !.files = Files, !.todo = Files,
                               !.pc = pc, !.ix = ix, !.from = "kept", !.seen = sn, !.calm = TRUE]
  <2>1. c.job = "search" /\ c.files = Files /\ c.todo = Files /\ c.pc \in {"load", "check"} /\ c.from = "kept"
    BY DEF Idle
  <2>2. Goes(p, c)
    BY <1>2 DEF BeginSearch
  <2> HIDE DEF c
  <2>3. HealInv(c, disk)
    BY <2>1 DEF HealInv
  <2> QED BY <1>1, <2>2, <2>3, OwnHeals
<1>3. CASE LoadIndex(p)
  <2>1. call[p].job = "search"
    BY <1>1, <1>3 DEF LoadIndex, At, HealInv
  <2>2. PICK c : Goes(p, c) /\ HealInv(c, disk)
    BY <1>1, <1>3, <2>1, BuildHeals DEF LoadIndex
  <2> QED BY <1>1, <2>2, OwnHeals
<1> QED BY <1>2, <1>3

(* An entry has passed: it looks fresh, and will as long as nobody writes. *)
LEMMA PassedHeals ==
  ASSUME TypeOK, wiki' = wiki, disk' = disk, SearchHealInv, NEW p \in Proc,
         call[p].pc \in {"check", "rehash"}, NEW i \in Id, Passed(p, i),
         call[p].job = "search" /\ call[p].calm => LooksFresh(call[p].ix, i)
  PROVE  SearchHealInv'
<1> DEFINE d == call[p]
           c == [d EXCEPT !.pc = "check", !.todo = @ \ {i}, !.stat = None]
<1>1. d \in Call /\ HealInv(d, disk)
  BY DEF TypeOK, SearchHealInv
<1>2. /\ c.job = d.job /\ c.calm = d.calm /\ c.pc = "check" /\ c.todo = d.todo \ {i}
      /\ c.files = d.files /\ c.ix = d.ix /\ c.from = d.from
  BY <1>1 DEF Call
<1>3. Goes(p, c)
  BY DEF Passed
<1> HIDE DEF c
<1>4. HealInv(c, disk)
  BY <1>1, <1>2 DEF HealInv
<1> QED BY <1>3, <1>4, OwnHeals

LEMMA CheckHeals ==
  ASSUME TypeInv, SearchHealInv, NEW p \in Proc,
         (\E i \in Id : CheckEntry(p, i)) \/ Rehash(p) \/ RejectMissing(p)
  PROVE  SearchHealInv'
<1> DEFINE d == call[p]
<1>1. /\ TypeOK /\ d \in Call /\ HealInv(d, disk) /\ d.pc \in {"check", "rehash"}
      /\ wiki' = wiki /\ disk' = disk
  BY DEF TypeInv, TypeOK, SearchHealInv, CheckEntry, Pending, Rehash, RejectMissing, At, files
<1>2. CASE Reject(p)
  BY <1>1, <1>2, RejectHeals
<1>3. ASSUME NEW i \in Id, CheckEntry(p, i), ~Reject(p) PROVE SearchHealInv'
  <2>1. SameStat(i, d.ix.stamp[i])
    BY <1>3 DEF CheckEntry, Candidate
  <2>2. CASE d.ix.stamp[i].hash = None
    <3>1. Passed(p, i)
      BY <1>3, <2>1, <2>2 DEF CheckEntry, Candidate
    <3>2. LooksFresh(d.ix, i)
      BY <2>1, <2>2 DEF LooksFresh, SameStat
    <3> QED BY <1>1, <3>1, <3>2, PassedHeals
  <2>3. CASE d.ix.stamp[i].hash # None
    <3> DEFINE c == [d EXCEPT !.pc = "rehash", !.stat = i]
    <3>1. Goes(p, c)
      BY <1>3, <2>1, <2>3 DEF CheckEntry, Candidate
    <3>2. /\ c.job = d.job /\ c.calm = d.calm /\ c.pc = "rehash" /\ c.stat = i
          /\ c.todo = d.todo /\ c.files = d.files /\ c.ix = d.ix /\ c.from = d.from
      BY <1>1 DEF Call
    <3> HIDE DEF c
    <3>3. HealInv(c, disk)
      BY <1>1, <2>1, <3>2 DEF HealInv
    <3> QED BY <1>1, <3>1, <3>3, OwnHeals
  <2> QED BY <2>2, <2>3
<1>4. CASE Rehash(p) /\ ~Reject(p)
  <2> DEFINE i == d.stat
  <2>1. d.pc = "rehash" /\ i \in Id
    BY <1>1, <1>4 DEF Rehash, At, TypeInv, StatInv, Call
  <2>2. Passed(p, i) /\ wiki[i] # None /\ wiki[i].bytes = d.ix.stamp[i].hash
    BY <1>4 DEF Rehash, Candidate
  <2>3. d.job = "search" /\ d.calm => LooksFresh(d.ix, i)
    BY <1>1, <2>1, <2>2 DEF HealInv, LooksFresh
  <2> QED BY <1>1, <2>1, <2>2, <2>3, PassedHeals
<1> QED BY <1>2, <1>3, <1>4 DEF RejectMissing

(* A hash that has settled is dropped, and the index saved if one was. *)
LEMMA AcceptHeals ==
  ASSUME TypeOK, SearchHealInv, NEW p \in Proc, AcceptFresh(p)
  PROVE  SearchHealInv'
<1> DEFINE d  == call[p]
           ix == Settled(d.ix, d.at)
           c  == [d EXCEPT !.pc = "answer", !.ix = ix]
<1>1. /\ d \in Call /\ d.ix \in Index /\ HealInv(d, disk) /\ d.pc = "check" /\ wiki' = wiki
      /\ d.todo = {} /\ Entries(d.ix) \subseteq d.files
  BY DEF TypeOK, SearchHealInv, AcceptFresh, At, Call, files
<1>2. \/ ix = d.ix /\ Goes(p, c) /\ disk' = disk
      \/ Replaces(p, ix, c) /\ disk' = ix
  BY DEF AcceptFresh, Replaces
<1>3. ASSUME NEW i \in Id
      PROVE  ix.stamp[i] = IF d.ix.stamp[i] # None /\ ~Racy(d.ix.stamp[i].mtime, d.at)
                           THEN [d.ix.stamp[i] EXCEPT !.hash = None] ELSE d.ix.stamp[i]
  BY <1>1 DEF Settled, Index
<1> HIDE DEF ix
<1>4. c.job = d.job /\ c.calm = d.calm /\ c.files = d.files /\ c.pc = "answer" /\ c.ix = ix
      /\ c.from = d.from /\ c.at = d.at
  BY <1>1 DEF Call
<1> HIDE DEF c
<1>5. ASSUME d.job = "search", d.calm, NEW i \in Id PROVE Stamped(c, i)
  <2> DEFINE s == d.ix.stamp[i]
  <2>1. s \in Stamp \cup {None}
    BY <1>1 DEF Index, Stamps
  <2>2. CASE i \in Files
    <3>1. LooksFresh(d.ix, i) /\ wiki[i] # None
      BY <1>1, <1>5, <2>2 DEF HealInv, Files
    <3>2. SameStat(i, s) /\ s \in Stamp /\ s.mtime = wiki[i].mtime
      BY <2>1, <3>1 DEF LooksFresh, SameStat
    <3>3. CASE ~Racy(s.mtime, d.at)
      <4> DEFINE t == [s EXCEPT !.hash = None]
      <4>1. ix.stamp[i] = t
        BY <1>3, <3>2, <3>3, NoIndexAssumption
      <4>2. t \in Stamp /\ t.mtime = s.mtime /\ t.size = s.size /\ t.hash = None
        BY <3>2 DEF Stamp
      <4> HIDE DEF t
      <4> QED BY <1>4, <3>1, <3>2, <4>1, <4>2, NoIndexAssumption DEF Stamped, LooksFresh, SameStat
    <3>4. CASE Racy(s.mtime, d.at)
      <4>1. ix.stamp[i] = s
        BY <1>3, <3>4
      <4> QED BY <1>4, <3>1, <3>2, <3>4, <4>1 DEF Stamped, LooksFresh, SameStat
    <3> QED BY <3>3, <3>4
  <2>3. CASE i \notin Files
    <3>1. d.ix.stamp[i] = None
      BY <1>1, <1>5, <2>3 DEF HealInv, Entries
    <3>2. ix.stamp[i] = None
      BY <1>3, <3>1
    <3> QED BY <1>4, <2>3, <3>2 DEF Stamped, LooksFresh, Files
  <2> QED BY <2>2, <2>3
<1>6. HealInv(c, disk')
  BY <1>1, <1>2, <1>4, <1>5 DEF HealInv
<1> QED BY <1>1, <1>2, <1>6, OwnHeals

(* Stamps of files that nobody writes are the files', and have a hash if they are racy; what *)
(* is listed is there, so that every article has its stamp. *)
LEMMA StampHeals ==
  ASSUME TypeInv, SearchHealInv, NEW p \in Proc,
         \/ \E i \in Id : StampEntry(p, i) \/ StatRacy(p, i) \/ ListOne(p, i)
         \/ HashRacy(p) \/ StampsTaken(p) \/ Heal(p)
  PROVE  SearchHealInv'
<1> DEFINE d == call[p]
<1>1. /\ TypeOK /\ d \in Call /\ d.ix \in Index /\ HealInv(d, disk)
      /\ wiki \in [Id -> File \cup {None}]
  BY DEF TypeInv, TypeOK, FilesTypeOK, SearchHealInv, Call
<1>2. wiki' = wiki
  BY DEF StampEntry, StatRacy, ListOne, HashRacy, StampsTaken, Heal, files
<1>3. ASSUME NEW c, HealInv(c, disk'), (Goes(p, c) /\ disk' = disk) \/ \E ix : Replaces(p, ix, c)
      PROVE  SearchHealInv'
  BY <1>1, <1>2, <1>3, OwnHeals
<1>4. ASSUME NEW i \in Id, NEW s \in Stamp, Goes(p, Keep(d, i, s)), disk' = disk,
             d.pc \in {"stamp", "hash"},
             d.job = "search" /\ d.calm =>
               SameStat(i, s) /\ s.hash \in {None, wiki[i].bytes}
               /\ (s.hash # None => Racy(s.mtime, d.at))
      PROVE  SearchHealInv'
  <2> DEFINE c == Keep(d, i, s)
  <2>1. /\ c.job = d.job /\ c.calm = d.calm /\ c.files = d.files /\ c.pc = "stamp"
        /\ c.todo = d.todo \ {i} /\ c.at = d.at /\ c.ix.doc = d.ix.doc
        /\ \A j \in Id : c.ix.stamp[j] = IF j = i THEN s ELSE d.ix.stamp[j]
    BY <1>1 DEF Keep, Call, Index, Stamps
  <2> HIDE DEF c
  <2>2. ASSUME d.job = "search", d.calm, NEW j \in Id \ c.todo PROVE Stamped(c, j)
    <3>1. CASE j = i
      BY <1>4, <2>1, <2>2, <3>1 DEF Stamped, LooksFresh, SameStat
    <3>2. CASE j # i
      <4>1. Stamped(d, j)
        BY <1>1, <1>4, <2>1, <2>2, <3>2 DEF HealInv
      <4> QED BY <2>1, <3>2, <4>1 DEF Stamped, LooksFresh
    <3> QED BY <3>1, <3>2
  <2>3. HealInv(c, disk)
    BY <1>1, <1>4, <2>1, <2>2 DEF HealInv
  <2> QED BY <1>3, <1>4, <2>3 DEF c
<1>5. ASSUME NEW i \in Id, StampEntry(p, i) PROVE SearchHealInv'
  <2> DEFINE s == IF wiki[i] = None THEN Unknown ELSE Stat(wiki[i])
  <2>1. /\ Goes(p, Keep(d, i, s)) /\ disk' = disk /\ d.pc = "stamp" /\ i \in d.todo
    BY <1>5 DEF StampEntry, Pending, At
  <2>2. s \in Stamp
    BY <1>1, StatType DEF Unknown, Stamp
  <2>3. d.job = "search" /\ d.calm =>
          SameStat(i, s) /\ s.hash \in {None, wiki[i].bytes}
          /\ (s.hash # None => Racy(s.mtime, d.at))
    <3>1. d.job = "search" /\ d.calm => wiki[i] # None
      BY <1>1, <2>1 DEF HealInv, Files
    <3>2. wiki[i] # None => SameStat(i, s) /\ s.hash = None
      BY <2>2, NoIndexAssumption DEF SameStat, Stat
    <3> QED BY <3>1, <3>2
  <2> HIDE DEF s
  <2> QED BY <1>4, <2>1, <2>2, <2>3
<1>6. ASSUME NEW i \in Id, StatRacy(p, i) PROVE SearchHealInv'
  <2> DEFINE s == Stat(wiki[i])
             c == [d EXCEPT !.pc = "hash", !.stat = i, !.ix.stamp[i] = s]
  <2>1. /\ Goes(p, c) /\ disk' = disk /\ d.pc = "stamp" /\ i \in d.todo /\ wiki[i] # None
        /\ Racy(wiki[i].mtime, d.at)
    BY <1>6 DEF StatRacy, Pending, At
  <2>2. s \in Stamp /\ SameStat(i, s) /\ s.mtime = wiki[i].mtime
    BY <1>1, <2>1, StatType, NoIndexAssumption DEF SameStat, Stat
  <2> HIDE DEF s
  <2>3. /\ c.job = d.job /\ c.calm = d.calm /\ c.files = d.files /\ c.pc = "hash"
        /\ c.stat = i /\ c.todo = d.todo /\ c.at = d.at /\ c.ix.doc = d.ix.doc
        /\ \A j \in Id : c.ix.stamp[j] = IF j = i THEN s ELSE d.ix.stamp[j]
    BY <1>1 DEF Call, Index, Stamps
  <2> HIDE DEF c
  <2>4. ASSUME d.job = "search", d.calm, NEW j \in Id \ c.todo PROVE Stamped(c, j)
    <3>1. Stamped(d, j)
      BY <1>1, <2>1, <2>3, <2>4 DEF HealInv
    <3> QED BY <2>1, <2>3, <2>4, <3>1 DEF Stamped, LooksFresh
  <2>5. HealInv(c, disk)
    BY <1>1, <2>1, <2>2, <2>3, <2>4 DEF HealInv
  <2> QED BY <1>3, <2>1, <2>5
<1>7. CASE HashRacy(p)
  <2> DEFINE i == d.stat
             t == d.ix.stamp[i]
             s == IF wiki[i] = None THEN Unknown ELSE [t EXCEPT !.hash = wiki[i].bytes]
  <2>1. Goes(p, Keep(d, i, s)) /\ disk' = disk /\ d.pc = "hash"
    BY <1>7 DEF HashRacy, At
  <2>2. i \in Id /\ t \in Stamp
    BY <1>1, <2>1 DEF TypeInv, StatInv, Call, Index, Stamps
  <2>3. s \in Stamp /\ (wiki[i] # None => s.mtime = t.mtime /\ s.size = t.size /\ s.hash = wiki[i].bytes)
    BY <1>1, <2>2 DEF Unknown, Stamp, File
  <2>4. d.job = "search" /\ d.calm => SameStat(i, t) /\ Racy(t.mtime, d.at)
    BY <1>1, <2>1 DEF HealInv
  <2> HIDE DEF i, t, s
  <2>5. d.job = "search" /\ d.calm =>
          SameStat(i, s) /\ s.hash \in {None, wiki[i].bytes}
          /\ (s.hash # None => Racy(s.mtime, d.at))
    BY <2>3, <2>4, NoIndexAssumption DEF SameStat
  <2> QED BY <1>4, <2>1, <2>2, <2>3, <2>5
<1>8. ASSUME NEW i \in Id, ListOne(p, i) PROVE SearchHealInv'
  <2> DEFINE c == [d EXCEPT !.todo = @ \ {i}, !.ix.doc[i] = Parsed(wiki[i])]
  <2>1. /\ c.job = d.job /\ c.calm = d.calm /\ c.files = d.files /\ c.pc = "list" /\ c.at = d.at
        /\ d.pc = "list" /\ c.ix.stamp = d.ix.stamp
        /\ \A j \in Id : c.ix.doc[j] = IF j = i THEN Parsed(wiki[i]) ELSE d.ix.doc[j]
    BY <1>1, <1>8 DEF Call, Index, Docs, ListOne, Pending, At
  <2>2. Goes(p, c) /\ disk' = disk
    BY <1>8 DEF ListOne
  <2> HIDE DEF c
  <2>3. \A j \in Id \ Files : Parsed(wiki[j]) = None
    BY DEF Files, Parsed
  <2>4. HealInv(c, disk)
    BY <1>1, <2>1, <2>3 DEF HealInv, Stamped, LooksFresh
  <2> QED BY <1>3, <2>2, <2>4
<1>9. CASE StampsTaken(p)
  <2>1. CASE d.job = "search"
    <3> DEFINE c == [d EXCEPT !.pc = "list", !.todo = Files]
    <3>1. /\ c.job = d.job /\ c.calm = d.calm /\ c.files = d.files /\ c.pc = "list"
          /\ c.ix = d.ix /\ c.at = d.at
      BY <1>1 DEF Call
    <3>2. Goes(p, c) /\ disk' = disk /\ d.pc = "stamp" /\ d.todo = {}
      BY <1>9, <2>1 DEF StampsTaken, At
    <3> HIDE DEF c
    <3>3. HealInv(c, disk)
      BY <1>1, <3>1, <3>2 DEF HealInv, Stamped
    <3> QED BY <1>3, <3>2, <3>3
  <2>2. CASE d.job = "command"
    <3> DEFINE ix == Assign(d.ix)
               c  == [d EXCEPT !.pc = "vouch", !.ix = ix,
                               !.todo = {i \in Entries(ix) : ix.doc[i] = None}]
    <3>1. Goes(p, c) /\ disk' = disk
      BY <1>9, <2>2 DEF StampsTaken
    <3>2. c.job = "command" /\ c.pc = "vouch"
      BY <1>1, <2>2 DEF Call
    <3> HIDE DEF c
    <3>3. HealInv(c, disk)
      BY <3>2 DEF HealInv
    <3> QED BY <1>3, <3>1, <3>3
  <2> QED BY <1>9, <2>1, <2>2 DEF StampsTaken
<1>10. CASE Heal(p)
  <2> DEFINE ix == Assign(d.ix)
             c  == [d EXCEPT !.pc = "answer", !.ix = ix, !.from = "built"]
  <2>1. d.job = "search" /\ d.pc = "list" /\ Replaces(p, ix, c) /\ disk' = ix
    BY <1>10 DEF Heal, Listed, At, Replaces
  <2>2. \A i \in Id : ix.stamp[i] = IF d.ix.doc[i] # None /\ d.ix.stamp[i] = None THEN Unknown
                                    ELSE d.ix.stamp[i]
    BY <1>1 DEF Assign, Index
  <2> HIDE DEF ix
  <2>3. /\ c.job = d.job /\ c.calm = d.calm /\ c.files = d.files /\ c.pc = "answer"
        /\ c.ix = ix /\ c.at = d.at
    BY <1>1 DEF Call
  <2> HIDE DEF c
  <2>4. ASSUME d.calm, NEW i \in Id PROVE Stamped(c, i)
    <3>1. Stamped(d, i) /\ (i \notin Files => d.ix.doc[i] = None)
      BY <1>1, <2>1, <2>4 DEF HealInv
    <3>2. i \in Files => d.ix.stamp[i] # None
      BY <3>1 DEF Stamped, LooksFresh, SameStat, Files
    <3>3. ix.stamp[i] = d.ix.stamp[i]
      BY <2>2, <3>1, <3>2
    <3> QED BY <2>3, <3>1, <3>3 DEF Stamped, LooksFresh
  <2>5. HealInv(c, disk')
    BY <1>1, <2>1, <2>3, <2>4 DEF HealInv
  <2> QED BY <1>3, <2>1, <2>5
<1> QED BY <1>5, <1>6, <1>7, <1>8, <1>9, <1>10

(* A call ends, or is not a search. *)
LEMMA OtherHeals ==
  ASSUME TypeInv, SearchHealInv, NEW p \in Proc,
         \/ RemoveIndex(p) \/ BeginListing(p) \/ BuildIndex(p) \/ SaveIndex(p)
         \/ \E i \in Id : Vouch(p, i)
         \/ SearchNothing(p) \/ HealNothing(p) \/ Answer(p) \/ Crash(p)
  PROVE  SearchHealInv'
<1> DEFINE d == call[p]
<1>1. TypeOK /\ d \in Call /\ HealInv(d, disk)
  BY DEF TypeInv, TypeOK, SearchHealInv
<1>2. wiki' = wiki
  BY DEF RemoveIndex, BeginListing, BuildIndex, SaveIndex, Vouch, SearchNothing, HealNothing,
     Answer, Crash, Drop, files
<1>3. CASE RemoveIndex(p) \/ SaveIndex(p) \/ HealNothing(p) \/ Answer(p) \/ Crash(p)
  <2>1. (Goes(p, Idle) /\ disk' = disk) \/ \E x : Replaces(p, x, Idle)
    BY <1>3 DEF RemoveIndex, SaveIndex, HealNothing, Answer, Crash
  <2>2. HealInv(Idle, disk')
    BY DEF HealInv, Idle
  <2> QED BY <1>1, <1>2, <2>1, <2>2, OwnHeals
<1>4. CASE SearchNothing(p)
  BY <1>2, <1>4, SameHeals DEF SearchNothing, SearchHealInv
<1>5. CASE BeginListing(p)
  <2> DEFINE c == [Idle EXCEPT !.job = "command", !.pc = "list", !.todo = Files]
  <2>1. c.job = "command" /\ c.pc = "list" /\ Goes(p, c) /\ disk' = disk
    BY <1>5 DEF BeginListing, Idle
  <2> HIDE DEF c
  <2>2. HealInv(c, disk')
    BY <2>1 DEF HealInv
  <2> QED BY <1>1, <1>2, <2>1, <2>2, OwnHeals
<1>6. CASE BuildIndex(p)
  <2> DEFINE c == [d EXCEPT !.pc = "stamp", !.at = now, !.files = Files, !.todo = Files]
  <2>1. c.job = "command" /\ c.pc = "stamp" /\ Goes(p, c) /\ disk' = disk
    BY <1>1, <1>6 DEF BuildIndex, Call
  <2> HIDE DEF c
  <2>2. HealInv(c, disk')
    BY <2>1 DEF HealInv
  <2> QED BY <1>1, <1>2, <2>1, <2>2, OwnHeals
<1>7. ASSUME NEW i \in Id, Vouch(p, i) PROVE SearchHealInv'
  <2> DEFINE s == IF Parsed(wiki[i]) # None THEN None ELSE d.ix.stamp[i]
             c == [d EXCEPT !.todo = @ \ {i}, !.ix.stamp[i] = s]
  <2>1. /\ c.job = d.job /\ c.calm = d.calm /\ c.files = d.files /\ c.pc = "vouch"
        /\ Goes(p, c) /\ disk' = disk
    BY <1>1, <1>7 DEF Vouch, Pending, At, Call
  <2> HIDE DEF c
  <2>2. HealInv(c, disk')
    BY <1>1, <2>1 DEF HealInv
  <2> QED BY <1>1, <1>2, <2>1, <2>2, OwnHeals
<1> QED BY <1>3, <1>4, <1>5, <1>6, <1>7

(* Every step keeps what calm searches know. *)
LEMMA HealStep ==
  ASSUME TypeInv, SearchHealInv, [Next]_vars
  PROVE  SearchHealInv'
<1>1. TypeOK
  BY DEF TypeInv
<1>2. CASE Clock \/ UNCHANGED vars
  <2>1. wiki' = wiki /\ call' = call /\ disk' = disk
    BY <1>2 DEF Clock, Tick, vars
  <2> QED BY <2>1, SameHeals DEF SearchHealInv
<1>3. ASSUME NEW p \in Proc, Step(p) PROVE SearchHealInv'
  <2>1. CASE \E i \in Id : WriteStep(p, i)
    BY <1>1, <2>1, WriteHeals
  <2>2. CASE Command(p) /\ ~\E i \in Id : WriteStep(p, i)
    BY <2>2, OtherHeals DEF Command, WriteStep
  <2>3. CASE Search(p)
    BY <1>1, <2>3, BeginHeals, CheckHeals, AcceptHeals, StampHeals, OtherHeals DEF Search
  <2>4. CASE Both(p)
    BY <2>4, StampHeals DEF Both
  <2>5. CASE Crash(p)
    BY <2>5, OtherHeals
  <2> QED BY <1>3, <2>1, <2>2, <2>3, <2>4, <2>5 DEF Step
<1> QED BY <1>2, <1>3 DEF Next, Step

(* Nobody searches at first. *)
LEMMA HealInit ==
  ASSUME Init
  PROVE  SearchHealInv
BY DEF Init, SearchHealInv, HealInv, Idle

(* SearchHeals holds in every state, for any grain that the racy window covers, and also if  *)
(* a file may be given old bytes again: a search during which nobody writes leaves an index  *)
(* that looks fresh for every file, on disk unless it was the kept one, and with no hash but *)
(* of files written too lately, so that the next search need not build or hash any of it.    *)
THEOREM SearchHealed == Spec => []SearchHeals
<1>1. Init => TypeInv /\ SearchHealInv
  BY TypeInit, HealInit
<1>2. TypeInv /\ SearchHealInv /\ [Next]_vars => (TypeInv /\ SearchHealInv)'
  BY TypeStep, HealStep
<1>3. TypeInv /\ SearchHealInv => SearchHeals
  BY DEF SearchHeals, SearchHealInv, HealInv, Stamped, At, Files
<1> QED BY <1>1, <1>2, <1>3, PTL DEF Spec
=============================================================================
