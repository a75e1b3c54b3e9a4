------------------------- MODULE ArticleCacheProofs -------------------------
(***************************************************************************)
(* Types of the article cache, why a trusted entry can be served without a *)
(* read, and why every article of an answer is one of its call's own time. *)
(***************************************************************************)
EXTENDS ArticleCache, WikiFilesProofs

(* A server has stat'ed a file while it is about to read it.               *)
OpenInv == \A s \in Server : call[s].pc = "read" => call[s].open # None /\ call[s].stat # None

(* The time of a trusted entry is past, so that no file is given it again. *)
Lasting(s, i) ==
  cache[s][i] # None /\ cache[s][i].trusted =>
    /\ cache[s][i].stamp.mtime < Coarse(now)
    /\ wiki[i] # None /\ cache[s][i].stamp = StatOf(i) => cache[s][i].doc = Parsed(wiki[i])

TrustInv == /\ \A s \in Server : call[s].at <= now
            /\ \A s \in Server, i \in Id : Lasting(s, i)

(* What a call has looked at is in its entries as it was, or was nothing;  *)
(* the answer put together last is the entries, unless the call has        *)
(* changed one.                                                            *)
Looking(s) == call[s].pc \in {"visit", "read"}
DocOf(e)   == IF e = None THEN None ELSE e.doc

AnswerInv(s) ==
  /\ call[s].pc # "idle" => \A i \in Id : Parsed(wiki[i]) \in call[s].seen[i]
  /\ Looking(s) =>
       /\ call[s].todo \subseteq call[s].unseen
       /\ \A i \in Id \ call[s].unseen : cache[s][i] # None /\ cache[s][i].doc \in call[s].seen[i]
       /\ \A i \in call[s].unseen \ call[s].todo : None \in call[s].seen[i]
       /\ call[s].changed \/ built[s]
  /\ built[s] /\ ~(Looking(s) /\ call[s].changed) =>
       \A i \in Id : articles[s][i] = DocOf(cache[s][i])
  /\ call[s].pc = "done" => \A i \in Id : articles[s][i] \in call[s].seen[i]

CacheInv == TypeOK /\ OpenInv /\ TrustInv /\ \A s \in Server : AnswerInv(s)

(***************************************************************************)
(* Steps.                                                                  *)
(***************************************************************************)
(* A stat, an article and an entry have their types.                       *)
LEMMA ReadTypes ==
  ASSUME FilesTypeOK, NEW i \in Id
  PROVE  /\ Parsed(wiki[i]) \in Doc
         /\ wiki[i] # None => wiki[i].mtime \in Nat /\ StatOf(i) \in Stat
<1>1. wiki[i] \in File \cup {None}
  BY DEF FilesTypeOK
<1> QED BY <1>1, ParsedType, SizeAssumption DEF Doc, StatOf, Stat, File, Bytes

(* A step of one server replaces its call, and leaves the others' calls.   *)
LEMMA GoesType ==
  ASSUME TypeOK, NEW s \in Server, NEW c \in Call, Goes(s, c)
  PROVE  call' \in [Server -> Call] /\ call'[s] = c /\ \A r \in Server \ {s} : call'[r] = call[r]
BY DEF TypeOK, Goes

(* What the servers are told is history of the right type: it grows, and   *)
(* nothing else of a call changes.                                         *)
LEMMA ShownType ==
  ASSUME TypeOK, NEW i \in Id, NEW f \in File \cup {None}, Shown(i, f)
  PROVE  /\ call' \in [Server -> Call]
         /\ \A s \in Server :
              /\ \A x \in {"pc", "at", "todo", "open", "stat", "unseen", "changed"} : call'[s][x] = call[s][x]
              /\ \A j \in Id : call[s].seen[j] \subseteq call'[s].seen[j]
              /\ call[s].pc # "idle" => Parsed(f) \in call'[s].seen[i]
<1>1. Parsed(f) \in Doc
  BY ParsedType DEF Doc
<1>2. ASSUME NEW s \in Server
      PROVE  LET c == [call[s] EXCEPT !.seen[i] = @ \cup {Parsed(f)}]
             IN  /\ c \in Call
                 /\ \A x \in {"pc", "at", "todo", "open", "stat", "unseen", "changed"} : c[x] = call[s][x]
                 /\ \A j \in Id : call[s].seen[j] \subseteq c.seen[j]
                 /\ Parsed(f) \in c.seen[i]
  <2>1. call[s] \in Call
    BY DEF TypeOK
  <2> QED BY <1>1, <2>1 DEF Call
<1>3. \A s \in Server : call[s] \in Call
  BY DEF TypeOK
<1> QED BY <1>2, <1>3 DEF Shown

(* The wiki changes under the servers: a file is written or removed, a     *)
(* writer dies, or the clock moves on.                                     *)
Writes(i) ==
  /\ now' = now
  /\ \A j \in Id \ {i} : wiki'[j] = wiki[j]
  /\ wiki'[i] # None => wiki'[i].mtime = Coarse(now)
  /\ Shown(i, wiki'[i])
Rests == wiki' = wiki /\ now <= now' /\ Coarse(now) <= Coarse(now') /\ call' = call
Outside == FilesTypeOK' /\ Kept /\ (Rests \/ \E i \in Id : Writes(i))

(* The actions of writers and of the clock are such changes.               *)
LEMMA OutsideSteps ==
  ASSUME TypeOK,
         \/ \E p \in Writer, i \in Id : \/ BeginWrite(p, i) \/ Delete(p, i)
                                        \/ \E b \in Bytes : EndWrite(p, i, b)
         \/ \E p \in Writer : Die(p)
         \/ Clock
  PROVE  Outside
<1> USE WriterAssumption DEF TypeOK
<1>1. ASSUME NEW p \in Writer, NEW i \in Id, BeginWrite(p, i) PROVE Outside
  <2>1. FilesTypeOK'
    BY <1>1, FilesType DEF BeginWrite
  <2> QED BY <1>1, <2>1 DEF BeginWrite, Truncate, Outside, Writes, FilesTypeOK
<1>2. ASSUME NEW p \in Writer, NEW i \in Id, NEW b \in Bytes, EndWrite(p, i, b) PROVE Outside
  <2>1. b \in Text \cup {Bad} /\ FilesTypeOK'
    BY <1>2, FilesType DEF EndWrite, Fill
  <2> QED BY <1>2, <2>1 DEF EndWrite, Fill, Outside, Writes, FilesTypeOK
<1>3. ASSUME NEW p \in Writer, NEW i \in Id, Delete(p, i) PROVE Outside
  <2>1. FilesTypeOK'
    BY <1>3, FilesType DEF Delete
  <2>2. wiki'[i] = None
    BY <1>3 DEF Delete, Remove, FilesTypeOK
  <2> QED BY <1>3, <2>1, <2>2 DEF Delete, Remove, Outside, Writes, FilesTypeOK
<1>4. ASSUME NEW p \in Writer, Die(p) PROVE Outside
  <2>1. FilesTypeOK' /\ now' = now /\ wiki' = wiki /\ call' = call /\ Kept
    BY <1>4, FilesType DEF Die, Drop
  <2>2. Coarse(now) \in Nat /\ now \in Nat /\ Coarse(now') = Coarse(now)
    BY <2>1, CoarseType DEF FilesTypeOK
  <2> QED BY <2>1, <2>2 DEF Outside, Rests
<1>5. CASE Clock
  <2>1. FilesTypeOK' /\ now' = now + 1 /\ wiki' = wiki /\ call' = call /\ Kept /\ now \in Nat
    BY <1>5, FilesType DEF Clock, Tick, FilesTypeOK
  <2>2. Coarse(now) <= Coarse(now + 1) /\ Coarse(now') = Coarse(now + 1)
    BY <2>1, CoarseStep
  <2> QED BY <2>1, <2>2 DEF Outside, Rests
<1> QED BY <1>1, <1>2, <1>3, <1>4, <1>5

(***************************************************************************)
(* Types.                                                                  *)
(***************************************************************************)
(* A server that is in no call has a call like any other.                  *)
LEMMA IdleType == Idle \in Call
BY DEF Call, Idle

(* Writers and the clock keep the types.                                   *)
LEMMA OutsideTypes ==
  ASSUME TypeOK, OpenInv, Outside
  PROVE  TypeOK' /\ OpenInv'
<1> USE DEF TypeOK, OpenInv
<1>1. CASE Rests
  BY <1>1 DEF Outside, Rests, Kept
<1>2. ASSUME NEW i \in Id, Writes(i) PROVE TypeOK' /\ OpenInv'
  <2>1. wiki'[i] \in File \cup {None}
    BY DEF Outside, FilesTypeOK
  <2>2. /\ call' \in [Server -> Call]
        /\ \A s \in Server : call'[s].pc = call[s].pc /\ call'[s].open = call[s].open
                             /\ call'[s].stat = call[s].stat
    BY <1>2, <2>1, ShownType DEF Writes
  <2> QED BY <2>2 DEF Outside, Kept
<1> QED BY <1>1, <1>2 DEF Outside

(* The steps of a server keep the types, ...                               *)
Serves(s) == \/ BeginList(s) \/ ReadDir(s) \/ ReadNoDir(s)
             \/ \E i \in Id : Keep(s, i) \/ Skip(s, i) \/ Stamp(s, i)
             \/ ReadFile(s) \/ Assemble(s) \/ Answer(s)

LEMMA ServesTypes ==
  ASSUME TypeOK, OpenInv, NEW s \in Server, Serves(s)
  PROVE  TypeOK' /\ OpenInv'
<1> USE DEF TypeOK, OpenInv
<1>0. call[s] \in Call /\ Idle \in Call
  BY IdleType
<1>1. CASE BeginList(s)
  <2> DEFINE seen == [i \in Id |-> {Parsed(wiki[i])}]
             c == [Idle EXCEPT !.pc = "dir", !.at = now, !.seen = seen]
  <2>1. seen \in [Id -> SUBSET Doc]
    BY ReadTypes
  <2>2. c \in Call /\ c.pc = "dir"
    BY <1>0, <2>1 DEF Call, Idle, FilesTypeOK
  <2>3. Goes(s, c)
    BY <1>1 DEF BeginList
  <2> HIDE DEF c
  <2>4. call' \in [Server -> Call] /\ call'[s].pc = "dir" /\ \A r \in Server \ {s} : call'[r] = call[r]
    BY <2>2, <2>3, GoesType
  <2> QED BY <1>1, <2>4 DEF BeginList, files, FilesTypeOK
<1>2. CASE ReadDir(s)
  <2> DEFINE c == [call[s] EXCEPT !.pc = "visit", !.todo = Files, !.unseen = Id, !.changed = ~built[s]]
  <2>1. c \in Call /\ c.pc = "visit"
    BY <1>0 DEF Call, Files
  <2>2. Goes(s, c)
    BY <1>2 DEF ReadDir
  <2> HIDE DEF c
  <2>3. call' \in [Server -> Call] /\ call'[s].pc = "visit" /\ \A r \in Server \ {s} : call'[r] = call[r]
    BY <2>1, <2>2, GoesType
  <2> QED BY <1>2, <2>3 DEF ReadDir, files, FilesTypeOK
<1>3. CASE ReadNoDir(s)
  <2> DEFINE c == [call[s] EXCEPT !.pc = "done"]
  <2>1. c \in Call /\ c.pc = "done"
    BY <1>0 DEF Call
  <2>2. Goes(s, c)
    BY <1>3 DEF ReadNoDir
  <2> HIDE DEF c
  <2>3. call' \in [Server -> Call] /\ call'[s].pc = "done" /\ \A r \in Server \ {s} : call'[r] = call[r]
    BY <2>1, <2>2, GoesType
  <2>4. NoEntries \in [Id -> Entry \cup {None}] /\ NoEntries \in [Id -> Doc]
    BY DEF NoEntries, Doc
  <2> QED BY <1>3, <2>3, <2>4 DEF ReadNoDir, files, FilesTypeOK
<1>4. ASSUME NEW i \in Id, Keep(s, i) \/ Skip(s, i) PROVE TypeOK' /\ OpenInv'
  <2>1. PICK c \in Call : Goes(s, c) /\ c.pc = "visit"
    <3> DEFINE c == [call[s] EXCEPT !.todo = @ \ {i}]
               d == [call[s] EXCEPT !.todo = @ \ {i}, !.unseen = @ \ {i}]
    <3>1. c \in Call /\ d \in Call /\ c.pc = call[s].pc /\ d.pc = call[s].pc
      BY <1>0 DEF Call
    <3> QED BY <1>4, <3>1 DEF Keep, Skip, Visiting
  <2>2. call' \in [Server -> Call] /\ call'[s].pc = "visit" /\ \A r \in Server \ {s} : call'[r] = call[r]
    BY <2>1, GoesType
  <2> QED BY <1>4, <2>2 DEF Keep, Skip, files, FilesTypeOK
<1>5. ASSUME NEW i \in Id, Stamp(s, i) PROVE TypeOK' /\ OpenInv'
  <2> DEFINE c == [call[s] EXCEPT !.pc = "read", !.open = i, !.stat = StatOf(i)]
  <2>1. StatOf(i) \in Stat
    BY <1>5, ReadTypes DEF Stamp
  <2>2. c \in Call /\ c.open = i /\ c.stat = StatOf(i)
    BY <1>0, <2>1 DEF Call
  <2>3. Goes(s, c)
    BY <1>5 DEF Stamp
  <2> HIDE DEF c
  <2>4. /\ call' \in [Server -> Call] /\ call'[s].open = i /\ call'[s].stat = StatOf(i)
        /\ \A r \in Server \ {s} : call'[r] = call[r]
    BY <2>2, <2>3, GoesType
  <2>5. i # None /\ StatOf(i) # None
    BY <2>1, BytesAssumption, NoEntryAssumption
  <2> QED BY <1>5, <2>4, <2>5 DEF Stamp, files, FilesTypeOK
<1>6. CASE ReadFile(s)
  <2> DEFINE i == call[s].open
             a == Parsed(wiki[i])
             e == [stamp |-> call[s].stat, trusted |-> ~Racy(call[s].stat.mtime, call[s].at), doc |-> a]
             next == [call[s] EXCEPT !.pc = "visit", !.todo = @ \ {i}, !.open = None, !.stat = None]
             next2 == [next EXCEPT !.unseen = @ \ {i}, !.changed = TRUE]
  <2>1. i \in Id /\ call[s].stat \in Stat
    BY <1>0, <1>6 DEF ReadFile, Call
  <2>2. next \in Call /\ next.pc = "visit"
    BY <1>0 DEF Call
  <2>7. next2 \in Call /\ next2.pc = "visit"
    <3> HIDE DEF next
    <3> QED BY <2>2 DEF Call
  <2>3. a # None => e \in Entry
    BY <2>1, ReadTypes DEF Entry
  <2>4. /\ Goes(s, next) \/ Goes(s, next2)
        /\ UNCHANGED cache \/ (e \in Entry /\ cache' = [cache EXCEPT ![s][i] = e])
    BY <1>6, <2>3 DEF ReadFile
  <2> HIDE DEF next, next2, e, i
  <2>8. PICK c \in Call : Goes(s, c) /\ c.pc = "visit"
    BY <2>2, <2>4, <2>7
  <2>5. call' \in [Server -> Call] /\ call'[s].pc = "visit" /\ \A r \in Server \ {s} : call'[r] = call[r]
    BY <2>8, GoesType
  <2>6. cache' \in [Server -> [Id -> Entry \cup {None}]]
    <3>1. CASE UNCHANGED cache
      BY <3>1
    <3>2. CASE e \in Entry /\ cache' = [cache EXCEPT ![s][i] = e]
      <4>1. i \in Id
        BY <2>1 DEF i
      <4>2. [cache[s] EXCEPT ![i] = e] \in [Id -> Entry \cup {None}]
        BY <3>2, <4>1
      <4> QED BY <3>2, <4>2
    <3> QED BY <2>4, <3>1, <3>2
  <2> QED BY <1>6, <2>5, <2>6 DEF ReadFile, files, FilesTypeOK
<1>7. CASE Assemble(s)
  <2> DEFINE left == [i \in Id |-> IF i \in call[s].unseen THEN None ELSE cache[s][i]]
             docs == [i \in Id |-> IF left[i] = None THEN None ELSE left[i].doc]
             c == [call[s] EXCEPT !.pc = "done"]
  <2>1. c \in Call /\ c.pc = "done"
    BY <1>0 DEF Call
  <2>2. Goes(s, c)
    BY <1>7 DEF Assemble
  <2> HIDE DEF c
  <2>3. call' \in [Server -> Call] /\ call'[s].pc = "done" /\ \A r \in Server \ {s} : call'[r] = call[r]
    BY <2>1, <2>2, GoesType
  <2>4. left \in [Id -> Entry \cup {None}]
    OBVIOUS
  <2>5. docs \in [Id -> Doc]
    BY <2>4 DEF Entry, Doc
  <2>6. /\ cache' = [cache EXCEPT ![s] = left]
        /\ \/ articles' = [articles EXCEPT ![s] = docs] /\ built' = [built EXCEPT ![s] = TRUE]
           \/ UNCHANGED <<articles, built>>
    BY <1>7 DEF Assemble
  <2> HIDE DEF left, docs
  <2>7. UNCHANGED <<now, wiki, pen, held, writes, calls>>
    BY <1>7 DEF Assemble, files
  <2>8. cache' \in [Server -> [Id -> Entry \cup {None}]]
    BY <2>4, <2>6
  <2>9. articles' \in [Server -> [Id -> Doc]] /\ built' \in [Server -> BOOLEAN]
    BY <2>5, <2>6
  <2> QED BY <2>3, <2>7, <2>8, <2>9 DEF FilesTypeOK
<1>8. CASE Answer(s)
  <2>1. call' \in [Server -> Call] /\ call'[s] = Idle /\ \A r \in Server \ {s} : call'[r] = call[r]
    BY <1>0, <1>8, GoesType DEF Answer
  <2> QED BY <1>8, <2>1 DEF Answer, Idle, files, FilesTypeOK
<1> QED BY <1>1, <1>2, <1>3, <1>4, <1>5, <1>6, <1>7, <1>8 DEF Serves

(* Nothing is cached or asked at first.                                    *)
LEMMA TypesAtFirst == Init => TypeOK /\ OpenInv
<1> SUFFICES ASSUME Init PROVE TypeOK /\ OpenInv
  OBVIOUS
<1>1. NoEntries \in [Id -> Entry \cup {None}] /\ NoEntries \in [Id -> Doc]
  BY DEF NoEntries, Doc
<1>2. FilesTypeOK
  BY DEF Init, FilesInit, FilesTypeOK
<1> QED BY <1>1, <1>2, IdleType DEF Init, TypeOK, OpenInv, Idle

(* Every step is a change from outside, or a step of a server.             *)
LEMMA NextSplits ==
  ASSUME TypeOK, Next
  PROVE  Outside \/ \E s \in Server : Serves(s)
BY OutsideSteps DEF Next, Serves

(* TypeOK holds in every state: whoever writes, dies or answers, the cache,*)
(* the answers and the calls of the servers are of their types.            *)
THEOREM CacheTypes == Spec => []TypeOK
<1>1. Init => TypeOK /\ OpenInv
  BY TypesAtFirst
<1>2. TypeOK /\ OpenInv /\ [Next]_vars => (TypeOK /\ OpenInv)'
  <2> SUFFICES ASSUME TypeOK, OpenInv, [Next]_vars PROVE (TypeOK /\ OpenInv)'
    OBVIOUS
  <2>1. CASE Next
    BY <2>1, NextSplits, OutsideTypes, ServesTypes
  <2>2. CASE UNCHANGED vars
    BY <2>2 DEF vars, TypeOK, FilesTypeOK, OpenInv
  <2> QED BY <2>1, <2>2
<1> QED BY <1>1, <1>2, PTL DEF Spec

(***************************************************************************)
(* A trusted entry.                                                        *)
(***************************************************************************)
(* What has been written before the grain of a call that does not find it  *)
(* racy is older than every file to come.                                  *)
LEMMA NotRacy ==
  ASSUME TypeOK, NEW m \in Nat, NEW at \in Nat, at <= now, ~Racy(m, at)
  PROVE  m < Coarse(now)
<1>1. now \in Nat /\ Coarse(now) \in Nat /\ now < Coarse(now) + Grain
  BY CoarseType DEF TypeOK, FilesTypeOK
<1> QED BY <1>1, GrainAssumption DEF Racy

(* A file written over is given the time of now, which no trusted entry    *)
(* has; nothing else is written.                                           *)
LEMMA OutsideTrusts ==
  ASSUME TypeOK, OpenInv, TrustInv, Outside
  PROVE  TrustInv'
<1>0. TypeOK'
  BY OutsideTypes
<1>1. now \in Nat /\ Coarse(now) \in Nat /\ Coarse(now') \in Nat /\ now' \in Nat
  BY <1>0, CoarseType DEF TypeOK, FilesTypeOK
<1>2. cache' = cache /\ \A s \in Server, i \in Id : cache[s][i] \in Entry \cup {None}
  BY DEF Outside, Kept, TypeOK
<1>3. \A s \in Server : call[s].at \in Nat
  BY DEF TypeOK, Call
<1>4. CASE Rests
  BY <1>1, <1>2, <1>3, <1>4 DEF Rests, TrustInv, Lasting, StatOf, Entry, Stat
<1>5. ASSUME NEW i \in Id, Writes(i) PROVE TrustInv'
  <2>1. wiki'[i] \in File \cup {None}
    BY <1>0 DEF TypeOK, FilesTypeOK
  <2>2. \A s \in Server : call'[s].at = call[s].at
    BY <1>5, <2>1, ShownType DEF Writes
  <2>3. now' = now /\ Coarse(now') = Coarse(now)
    BY <1>5 DEF Writes
  <2>4. ASSUME NEW s \in Server, NEW j \in Id PROVE Lasting(s, j)'
    <3>1. Lasting(s, j)
      BY DEF TrustInv
    <3>2. CASE j # i
      BY <1>2, <1>5, <2>3, <3>1, <3>2 DEF Lasting, Writes, StatOf
    <3>3. CASE j = i
      <4>1. wiki'[j] # None => StatOf(j)'.mtime = Coarse(now)
        BY <1>5, <3>3 DEF Writes, StatOf
      <4>2. cache[s][j] # None => cache[s][j].stamp.mtime \in Nat
        BY <1>2 DEF Entry, Stat
      <4> QED BY <1>1, <1>2, <2>3, <3>1, <4>1, <4>2 DEF Lasting
    <3> QED BY <3>2, <3>3
  <2> QED BY <2>2, <2>3, <2>4 DEF TrustInv
<1> QED BY <1>4, <1>5 DEF Outside

(* A server changes no file, and of the cache only entries of its own.     *)
LEMMA ServesOwn ==
  ASSUME TypeOK, OpenInv, NEW s \in Server, Serves(s)
  PROVE  /\ now' = now /\ wiki' = wiki
         /\ \A r \in Server \ {s} : /\ call'[r] = call[r] /\ cache'[r] = cache[r]
                                    /\ articles'[r] = articles[r] /\ built'[r] = built[r]
<1>1. now' = now /\ wiki' = wiki
  BY DEF Serves, BeginList, ReadDir, ReadNoDir, Keep, Skip, Stamp, ReadFile, Assemble, Answer, files
<1>2. \A r \in Server \ {s} : call'[r] = call[r]
  BY DEF Serves, BeginList, ReadDir, ReadNoDir, Keep, Skip, Stamp, ReadFile, Assemble, Answer,
         Goes, TypeOK
<1>3. \A r \in Server \ {s} : cache'[r] = cache[r]
  BY DEF Serves, BeginList, ReadDir, ReadNoDir, Keep, Skip, Stamp, ReadFile, Assemble, Answer,
         TypeOK
<1>4. \A r \in Server \ {s} : articles'[r] = articles[r] /\ built'[r] = built[r]
  BY DEF Serves, BeginList, ReadDir, ReadNoDir, Keep, Skip, Stamp, ReadFile, Assemble, Answer,
         TypeOK
<1> QED BY <1>1, <1>2, <1>3, <1>4

(* What a read does, field by field.                                       *)
LEMMA ReadFileFields ==
  ASSUME TypeOK, OpenInv, NEW s \in Server, ReadFile(s), NEW i, i = call[s].open
  PROVE  /\ i \in Id /\ call[s].stat \in Stat /\ Looking(s)
         /\ call'[s].pc = "visit" /\ call'[s].todo = call[s].todo \ {i}
         /\ call'[s].at = call[s].at /\ call'[s].seen = call[s].seen
         /\ Parsed(wiki[i]) = None =>
              /\ cache' = cache
              /\ call'[s].unseen = call[s].unseen /\ call'[s].changed = call[s].changed
         /\ Parsed(wiki[i]) # None =>
              /\ \A j \in Id \ {i} : cache'[s][j] = cache[s][j]
              /\ cache'[s][i] \in Entry /\ cache'[s][i].doc = Parsed(wiki[i])
              /\ cache'[s][i].stamp = call[s].stat
              /\ cache'[s][i].trusted <=> ~Racy(call[s].stat.mtime, call[s].at)
              /\ call'[s].unseen = call[s].unseen \ {i} /\ call'[s].changed = TRUE
<1> DEFINE next == [call[s] EXCEPT !.pc = "visit", !.todo = @ \ {call[s].open},
                                   !.open = None, !.stat = None]
           next2 == [next EXCEPT !.unseen = @ \ {call[s].open}, !.changed = TRUE]
<1>1. call[s] \in Call /\ call \in [Server -> Call] /\ call[s].pc = "read"
  BY DEF TypeOK, ReadFile
<1>2. i \in Id /\ call[s].stat \in Stat
  BY <1>1 DEF OpenInv, Call
<1>3. /\ next.pc = "visit" /\ next.todo = call[s].todo \ {i} /\ next.at = call[s].at
      /\ next.seen = call[s].seen /\ next.unseen = call[s].unseen
      /\ next.changed = call[s].changed /\ next \in Call
  BY <1>1 DEF Call
<1>4. IF Parsed(wiki[i]) = None
      THEN Goes(s, next) /\ cache' = cache
      ELSE /\ Goes(s, next2)
           /\ cache' = [cache EXCEPT ![s][i] =
                          [stamp |-> call[s].stat, doc |-> Parsed(wiki[i]),
                           trusted |-> ~Racy(call[s].stat.mtime, call[s].at)]]
  BY DEF ReadFile
<1> HIDE DEF next
<1>5. /\ next2.pc = next.pc /\ next2.todo = next.todo /\ next2.at = next.at
      /\ next2.seen = next.seen /\ next2.unseen = next.unseen \ {i} /\ next2.changed = TRUE
  BY <1>3 DEF Call
<1> HIDE DEF next2
<1>6. CASE Parsed(wiki[i]) = None
  BY <1>1, <1>2, <1>3, <1>4, <1>6 DEF Goes, Looking
<1>7. CASE Parsed(wiki[i]) # None
  <2> DEFINE e == [stamp |-> call[s].stat, doc |-> Parsed(wiki[i]),
                   trusted |-> ~Racy(call[s].stat.mtime, call[s].at)]
  <2>1. e \in Entry
    BY <1>2, <1>7, ReadTypes DEF Entry, TypeOK
  <2>2. /\ e.stamp = call[s].stat /\ e.doc = Parsed(wiki[i])
        /\ e.trusted <=> ~Racy(call[s].stat.mtime, call[s].at)
    OBVIOUS
  <2>3. cache' = [cache EXCEPT ![s][i] = e]
    BY <1>4, <1>7
  <2> HIDE DEF e
  <2>4. cache'[s][i] = e /\ \A j \in Id \ {i} : cache'[s][j] = cache[s][j]
    BY <1>2, <2>3 DEF TypeOK
  <2>5. /\ call'[s].unseen = call[s].unseen \ {i} /\ call'[s].changed = TRUE
        /\ call'[s].pc = "visit" /\ call'[s].todo = call[s].todo \ {i}
        /\ call'[s].at = call[s].at /\ call'[s].seen = call[s].seen
    BY <1>1, <1>3, <1>4, <1>5, <1>7 DEF Goes
  <2> QED BY <1>1, <1>2, <1>7, <2>1, <2>2, <2>4, <2>5 DEF Looking
<1> QED BY <1>6, <1>7

(* A server trusts what it reads only if the stat, made before the read, is*)
(* of a time that is over.                                                 *)
LEMMA ServesTrusts ==
  ASSUME TypeOK, OpenInv, TrustInv, NEW s \in Server, Serves(s)
  PROVE  TrustInv'
<1>0. /\ call[s] \in Call /\ Idle \in Call /\ TypeOK' /\ now \in Nat
      /\ call[s].at \in Nat /\ call[s].at <= now /\ s \in DOMAIN call
  BY IdleType, ServesTypes DEF TypeOK, FilesTypeOK, TrustInv, Call
<1>1. now' = now /\ wiki' = wiki
  BY ServesOwn
<1>2. call'[s].at <= now
  <2>1. CASE BeginList(s)
    <3> DEFINE c == [Idle EXCEPT !.pc = "dir", !.at = now, !.seen = [i \in Id |-> {Parsed(wiki[i])}]]
    <3>1. c.at = now
      BY DEF Idle
    <3>2. call' = [call EXCEPT ![s] = c]
      BY <2>1 DEF BeginList, Goes
    <3> HIDE DEF c
    <3> QED BY <1>0, <3>1, <3>2
  <2>2. CASE ReadFile(s)
    BY <1>0, <2>2, ReadFileFields
  <2>3. CASE Answer(s)
    BY <1>0, <2>3 DEF Answer, Goes, Idle
  <2>4. CASE Assemble(s)
    BY <1>0, <2>4 DEF Assemble, Goes, Call, TypeOK
  <2>5. CASE ReadDir(s)
    BY <1>0, <2>5 DEF ReadDir, Goes, Call, TypeOK
  <2>6. CASE ReadNoDir(s)
    BY <1>0, <2>6 DEF ReadNoDir, Goes, Call, TypeOK
  <2>7. ASSUME NEW i \in Id, Keep(s, i) \/ Skip(s, i) PROVE call'[s].at = call[s].at
    <3>1. CASE Keep(s, i)
      BY <1>0, <3>1 DEF Keep, Goes, Call, TypeOK
    <3>2. CASE Skip(s, i)
      BY <1>0, <3>2 DEF Skip, Goes, Call, TypeOK
    <3> QED BY <2>7, <3>1, <3>2
  <2>8. ASSUME NEW i \in Id, Stamp(s, i) PROVE call'[s].at = call[s].at
    BY <1>0, <2>8 DEF Stamp, Goes, Call, TypeOK
  <2> QED BY <1>0, <2>1, <2>2, <2>3, <2>4, <2>5, <2>6, <2>7, <2>8 DEF Serves
<1>3. ASSUME NEW i \in Id PROVE cache'[s][i] \in {cache[s][i], None} \/ Lasting(s, i)'
  <2>1. CASE ReadFile(s) /\ call[s].open = i /\ Parsed(wiki[i]) # None
    <3> DEFINE e == cache'[s][i]
    <3>1. /\ e.doc = Parsed(wiki[i]) /\ e.stamp = call[s].stat /\ call[s].stat.mtime \in Nat
          /\ e.trusted => ~Racy(call[s].stat.mtime, call[s].at)
      BY <2>1, ReadFileFields DEF Stat
    <3>2. e.trusted => e.stamp.mtime < Coarse(now)
      BY <1>0, <3>1, NotRacy
    <3>3. e.doc = Parsed(wiki'[i]) /\ Coarse(now') = Coarse(now)
      BY <1>1, <3>1
    <3> QED BY <3>2, <3>3 DEF Lasting
  <2>2. CASE ReadFile(s) /\ ~(call[s].open = i /\ Parsed(wiki[i]) # None)
    BY <2>2 DEF ReadFile, TypeOK
  <2>3. CASE Assemble(s)
    BY <2>3 DEF Assemble, TypeOK
  <2>4. CASE ReadNoDir(s)
    BY <2>4 DEF ReadNoDir, TypeOK, NoEntries
  <2>5. CASE ~ReadFile(s) /\ ~Assemble(s) /\ ~ReadNoDir(s)
    BY <2>5 DEF Serves, BeginList, ReadDir, Keep, Skip, Stamp, Answer
  <2> QED BY <2>1, <2>2, <2>3, <2>4, <2>5
<1>4. ASSUME NEW i \in Id PROVE Lasting(s, i)'
  <2>1. Lasting(s, i)
    BY DEF TrustInv
  <2> QED BY <1>1, <1>3, <2>1 DEF Lasting, StatOf
<1>5. \A r \in Server \ {s} : call'[r] = call[r] /\ cache'[r] = cache[r]
  BY ServesOwn
<1>6. ASSUME NEW r \in Server \ {s}, NEW i \in Id PROVE Lasting(r, i)' /\ call'[r].at <= now
  <2>1. Lasting(r, i) /\ call[r].at <= now
    BY DEF TrustInv
  <2> QED BY <1>1, <1>5, <2>1 DEF Lasting, StatOf
<1>7. \A r \in Server \ {s} : call'[r].at <= now
  BY <1>5 DEF TrustInv
<1> QED BY <1>1, <1>2, <1>4, <1>6, <1>7 DEF TrustInv

(* Types and trust are kept by every step.                                 *)
LEMMA TrustStep ==
  TypeOK /\ OpenInv /\ TrustInv /\ [Next]_vars => (TypeOK /\ OpenInv /\ TrustInv)'
<1> SUFFICES ASSUME TypeOK, OpenInv, TrustInv, [Next]_vars PROVE (TypeOK /\ OpenInv /\ TrustInv)'
  OBVIOUS
<1>1. CASE Next
  BY <1>1, NextSplits, OutsideTypes, ServesTypes, OutsideTrusts, ServesTrusts
<1>2. CASE UNCHANGED vars
  BY <1>2 DEF vars, TypeOK, FilesTypeOK, OpenInv, TrustInv, Lasting, StatOf
<1> QED BY <1>1, <1>2

(* No cache has an entry at first.                                         *)
LEMMA TrustAtFirst == Init => TrustInv
BY DEF Init, FilesInit, TrustInv, Lasting, Idle, NoEntries

(* TrustedIsExact holds in every state, for every grain of time up to the  *)
(* window of kb: an entry that may be served without a read is the parse of*)
(* what its file holds, though another process may have written it since.  *)
THEOREM TrustedExact == Spec => []TrustedIsExact
<1>1. Init => TypeOK /\ OpenInv /\ TrustInv
  BY TypesAtFirst, TrustAtFirst
<1>2. TrustInv => TrustedIsExact
  BY DEF TrustInv, Lasting, TrustedIsExact, Trusts
<1> QED BY <1>1, <1>2, TrustStep, PTL DEF Spec

(***************************************************************************)
(* The answer of a call.                                                   *)
(***************************************************************************)
(* A change from outside adds what it makes of a file to what the calls    *)
(* under way have seen of it, and changes nothing that they hold.          *)
LEMMA OutsideAnswers ==
  ASSUME TypeOK, Outside, NEW s \in Server, AnswerInv(s)
  PROVE  AnswerInv(s)'
<1>0. UNCHANGED <<cache, articles, built>> /\ call[s] \in Call
  BY DEF Outside, Kept, TypeOK
<1>1. CASE Rests
  BY <1>0, <1>1 DEF Rests, AnswerInv, Looking
<1>2. ASSUME NEW i \in Id, Writes(i) PROVE AnswerInv(s)'
  <2>1. wiki'[i] \in File \cup {None}
    BY DEF Outside, FilesTypeOK
  <2>2. /\ \A x \in {"pc", "at", "todo", "open", "stat", "unseen", "changed"} : call'[s][x] = call[s][x]
        /\ \A j \in Id : call[s].seen[j] \subseteq call'[s].seen[j]
        /\ call[s].pc # "idle" => Parsed(wiki'[i]) \in call'[s].seen[i]
    BY <1>2, <2>1, ShownType DEF Writes
  <2>3. /\ call'[s].pc = call[s].pc /\ call'[s].todo = call[s].todo
        /\ call'[s].unseen = call[s].unseen /\ call'[s].changed = call[s].changed
    BY <2>2
  <2>4. call[s].pc # "idle" => \A j \in Id : Parsed(wiki'[j]) \in call'[s].seen[j]
    BY <1>2, <2>2 DEF Writes, AnswerInv
  <2>5. Looking(s)' <=> Looking(s)
    BY <2>3 DEF Looking
  <2>6. Looking(s)' =>
          /\ call'[s].todo \subseteq call'[s].unseen
          /\ \A j \in Id \ call'[s].unseen :
               cache'[s][j] # None /\ cache'[s][j].doc \in call'[s].seen[j]
          /\ \A j \in call'[s].unseen \ call'[s].todo : None \in call'[s].seen[j]
          /\ call'[s].changed \/ built'[s]
    <3>1. call[s].unseen \subseteq Id
      BY <1>0 DEF Call
    <3> QED BY <1>0, <2>2, <2>3, <2>5, <3>1 DEF AnswerInv
  <2>7. built'[s] /\ ~(Looking(s)' /\ call'[s].changed) =>
          \A j \in Id : articles'[s][j] = DocOf(cache'[s][j])
    BY <1>0, <2>3, <2>5 DEF AnswerInv
  <2>8. call'[s].pc = "done" => \A j \in Id : articles'[s][j] \in call'[s].seen[j]
    BY <1>0, <2>2, <2>3 DEF AnswerInv
  <2> QED BY <2>3, <2>4, <2>6, <2>7, <2>8 DEF AnswerInv
<1> QED BY <1>1, <1>2 DEF Outside

(* What a server finds of a file is what it is, and its call has seen that.*)
LEMMA ServesAnswers ==
  ASSUME TypeOK, OpenInv, TrustInv, NEW s \in Server, Serves(s), AnswerInv(s)
  PROVE  AnswerInv(s)'
<1>0. /\ call[s] \in Call /\ Idle \in Call /\ now' = now /\ wiki' = wiki
  BY IdleType, ServesOwn DEF TypeOK
<1> USE DEF Goes, TypeOK, Call, Looking, Idle
<1>1. CASE BeginList(s)
  BY <1>0, <1>1 DEF BeginList, AnswerInv
<1>2. CASE ReadDir(s)
  BY <1>0, <1>2 DEF ReadDir, AnswerInv, Files, Parsed
<1>3. CASE ReadNoDir(s)
  BY <1>0, <1>3 DEF ReadNoDir, AnswerInv, Files, Parsed, NoEntries
<1>4. ASSUME NEW i \in Id, Keep(s, i) PROVE AnswerInv(s)'
  <2>1. Lasting(s, i)
    BY DEF TrustInv
  <2>2. cache[s][i] # None /\ cache[s][i].doc \in call[s].seen[i]
    BY <1>4, <2>1 DEF Keep, Visiting, Trusts, Lasting, AnswerInv
  <2> QED BY <1>0, <1>4, <2>2 DEF Keep, Visiting, AnswerInv
<1>5. ASSUME NEW i \in Id, Skip(s, i) PROVE AnswerInv(s)'
  BY <1>0, <1>5 DEF Skip, Visiting, AnswerInv, Parsed
<1>6. ASSUME NEW i \in Id, Stamp(s, i) PROVE AnswerInv(s)'
  BY <1>0, <1>6 DEF Stamp, Visiting, AnswerInv
<1>7. CASE ReadFile(s)
  <2> DEFINE i == call[s].open
             a == Parsed(wiki[i])
  <2>1. /\ i \in Id /\ a \in call[s].seen[i] /\ Looking(s)
        /\ call'[s].pc = "visit" /\ call'[s].todo = call[s].todo \ {i}
        /\ call'[s].seen = call[s].seen
    BY <1>7, ReadFileFields DEF AnswerInv
  <2>2. UNCHANGED <<articles, built>> /\ call[s].pc = "read"
    BY <1>7 DEF ReadFile
  <2>3. CASE a = None
    <3>1. call'[s].unseen = call[s].unseen /\ call'[s].changed = call[s].changed /\ cache' = cache
      BY <1>7, <2>3, ReadFileFields
    <3> HIDE DEF i
    <3> QED BY <1>0, <2>1, <2>2, <2>3, <3>1 DEF AnswerInv
  <2>4. CASE a # None
    <3> HIDE DEF Goes, TypeOK, Call, Idle
    <3>1. /\ call'[s].unseen = call[s].unseen \ {i} /\ call'[s].changed = TRUE
          /\ \A j \in Id \ {i} : cache'[s][j] = cache[s][j]
      BY <1>7, <2>4, ReadFileFields
    <3>2. cache'[s][i] \in Entry /\ cache'[s][i].doc = a
      BY <1>7, <2>4, ReadFileFields
    <3>3. cache'[s][i] # None
      BY <3>2, NoEntryAssumption
    <3> HIDE DEF i, a
    <3> QED BY <1>0, <2>1, <2>2, <3>1, <3>2, <3>3 DEF AnswerInv
  <2> QED BY <2>3, <2>4
<1>8. CASE Assemble(s)
  <2> DEFINE left == [i \in Id |-> IF i \in call[s].unseen THEN None ELSE cache[s][i]]
             docs == [i \in Id |-> IF left[i] = None THEN None ELSE left[i].doc]
  <2>1. /\ call'[s].pc = "done" /\ call'[s].seen = call[s].seen /\ cache'[s] = left
        /\ call[s].pc = "visit" /\ call[s].todo = {}
    BY <1>0, <1>8 DEF Assemble
  <2>2. \A i \in Id : docs[i] = DocOf(left[i]) /\ docs[i] \in call[s].seen[i]
    BY <1>0, <2>1 DEF AnswerInv, DocOf
  <2>3. \/ articles'[s] = docs
        \/ articles'[s] = articles[s] /\ built[s] /\ left = cache[s] /\ ~call[s].changed
    BY <1>0, <1>8, <2>1 DEF Assemble, AnswerInv
  <2> HIDE DEF left, docs
  <2>4. \A i \in Id : articles'[s][i] = docs[i]
    BY <2>1, <2>2, <2>3 DEF AnswerInv
  <2> QED BY <1>0, <2>1, <2>2, <2>4 DEF AnswerInv
<1>9. CASE Answer(s)
  BY <1>0, <1>9 DEF Answer, AnswerInv
<1> QED BY <1>1, <1>2, <1>3, <1>4, <1>5, <1>6, <1>7, <1>8, <1>9 DEF Serves

(* A step of a server does not touch the calls of the others.              *)
LEMMA OthersAnswers ==
  ASSUME TypeOK, OpenInv, NEW s \in Server, Serves(s), NEW r \in Server \ {s}, AnswerInv(r)
  PROVE  AnswerInv(r)'
BY ServesOwn DEF AnswerInv, Looking

(* The whole invariant is kept by every step.                              *)
LEMMA AnswerStep ==
  CacheInv /\ [Next]_vars => CacheInv'
<1> SUFFICES ASSUME CacheInv, [Next]_vars PROVE \A s \in Server : AnswerInv(s)'
  BY TrustStep DEF CacheInv
<1> USE DEF CacheInv
<1>1. CASE Outside
  BY <1>1, OutsideAnswers
<1>2. CASE \E s \in Server : Serves(s)
  BY <1>2, ServesAnswers, OthersAnswers
<1>3. CASE UNCHANGED vars
  BY <1>3 DEF vars, AnswerInv, Looking
<1> QED BY <1>1, <1>2, <1>3, NextSplits

(* AnswerIsCurrent holds in every state, for any number of servers, writers*)
(* and articles: what a call of list answers of an article is what its file*)
(* was at some moment of the call, whatever is written meanwhile.          *)
THEOREM AnswersCurrent == Spec => []AnswerIsCurrent
<1>1. Init => CacheInv
  BY TypesAtFirst, TrustAtFirst DEF Init, CacheInv, AnswerInv, Looking, Idle
<1>2. CacheInv => AnswerIsCurrent
  BY DEF CacheInv, AnswerInv, AnswerIsCurrent
<1> QED BY <1>1, <1>2, AnswerStep, PTL DEF Spec

(***************************************************************************)
(* What the next call need not read.                                       *)
(***************************************************************************)
(* A parsed file that was last written long enough before the call began.  *)
Settled(s, i) == wiki[i] # None /\ Parsed(wiki[i]) # None /\ ~Racy(wiki[i].mtime, call[s].at)

(* Such a file is the one the call stats, and once visited is trusted.     *)
SettleInv(s) ==
  \A i \in Id : Settled(s, i) =>
    /\ Looking(s) /\ i \notin call[s].todo => i \notin call[s].unseen /\ Trusts(s, i)
    /\ call[s].pc = "read" /\ call[s].open = i => call[s].stat = StatOf(i)
    /\ call[s].pc = "done" => Trusts(s, i)

(* A file written while a call is under way is racy for that call: the     *)
(* others are as they were.                                                *)
LEMMA WrittenIsRacy ==
  ASSUME TypeOK, TrustInv, Outside, NEW s \in Server, NEW i \in Id, Settled(s, i)'
  PROVE  wiki'[i] = wiki[i] /\ Settled(s, i)
<1>0. now \in Nat /\ call[s].at \in Nat /\ call[s].at <= now /\ call[s] \in Call
  BY DEF TypeOK, FilesTypeOK, TrustInv, Call
<1>1. CASE Rests
  BY <1>1 DEF Rests, Settled
<1>2. ASSUME NEW j \in Id, Writes(j) PROVE wiki'[i] = wiki[i] /\ call'[s].at = call[s].at
  <2>1. wiki'[j] \in File \cup {None}
    BY DEF Outside, FilesTypeOK
  <2>2. call'[s].at = call[s].at
    BY <1>2, <2>1, ShownType DEF Writes
  <2>3. Coarse(now) \in Nat /\ now < Coarse(now) + Grain
    BY <1>0, CoarseType
  <2>4. wiki'[j] # None => Racy(wiki'[j].mtime, call'[s].at)
    BY <1>0, <1>2, <2>2, <2>3, GrainAssumption DEF Writes, Racy
  <2>5. i # j
    BY <2>4 DEF Settled
  <2> QED BY <1>2, <2>2, <2>5 DEF Writes
<1> QED BY <1>1, <1>2 DEF Outside, Settled

(* Changes from outside leave what the calls know of the settled files.    *)
LEMMA OutsideSettles ==
  ASSUME TypeOK, TrustInv, Outside, NEW s \in Server, SettleInv(s)
  PROVE  SettleInv(s)'
<1>1. /\ call'[s].pc = call[s].pc /\ call'[s].todo = call[s].todo /\ call'[s].open = call[s].open
      /\ call'[s].stat = call[s].stat /\ call'[s].unseen = call[s].unseen /\ cache' = cache
  <2>1. CASE Rests
    BY <2>1 DEF Rests, Outside, Kept
  <2>2. ASSUME NEW j \in Id, Writes(j)
        PROVE  \A x \in {"pc", "at", "todo", "open", "stat", "unseen", "changed"} : call'[s][x] = call[s][x]
    <3>1. wiki'[j] \in File \cup {None}
      BY DEF Outside, FilesTypeOK
    <3> QED BY <2>2, <3>1, ShownType DEF Writes
  <2> QED BY <2>1, <2>2 DEF Outside, Kept
<1>2. ASSUME NEW i \in Id, Settled(s, i)'
      PROVE  Settled(s, i) /\ (StatOf(i)' = StatOf(i)) /\ (Trusts(s, i)' <=> Trusts(s, i))
  BY <1>1, <1>2, WrittenIsRacy DEF StatOf, Trusts
<1> QED BY <1>1, <1>2 DEF SettleInv, Looking

(* A server visits every settled file, and trusts what it has stat'ed.     *)
LEMMA ServesSettles ==
  ASSUME TypeOK, OpenInv, NEW s \in Server, Serves(s), SettleInv(s)
  PROVE  SettleInv(s)'
<1>0. call[s] \in Call /\ Idle \in Call /\ now' = now /\ wiki' = wiki
  BY IdleType, ServesOwn DEF TypeOK
<1>1. \A i \in Id : StatOf(i)' = StatOf(i)
  BY <1>0 DEF StatOf
<1> USE DEF Goes, TypeOK, Call, Looking, SettleInv, Settled, Trusts
<1>2. CASE BeginList(s)
  BY <1>0, <1>2 DEF BeginList, Idle
<1>3. CASE ReadDir(s)
  BY <1>0, <1>3 DEF ReadDir, Files
<1>4. CASE ReadNoDir(s)
  BY <1>0, <1>4 DEF ReadNoDir, Files
<1>5. ASSUME NEW i \in Id, Keep(s, i) PROVE SettleInv(s)'
  BY <1>0, <1>1, <1>5 DEF Keep, Visiting
<1>6. ASSUME NEW i \in Id, Skip(s, i) PROVE SettleInv(s)'
  BY <1>0, <1>1, <1>6 DEF Skip, Visiting
<1>7. ASSUME NEW i \in Id, Stamp(s, i) PROVE SettleInv(s)'
  BY <1>0, <1>1, <1>7 DEF Stamp, Visiting
<1>8. CASE ReadFile(s)
  <2> HIDE DEF Goes, TypeOK, Call
  <2> SUFFICES ASSUME NEW i, i = call[s].open PROVE SettleInv(s)'
    OBVIOUS
  <2>1. /\ i \in Id /\ call'[s].pc = "visit" /\ call'[s].todo = call[s].todo \ {i}
        /\ call[s].pc = "read" /\ call'[s].at = call[s].at
    BY <1>8, ReadFileFields DEF ReadFile
  <2>2. ASSUME NEW j \in Id \ {i}
        PROVE  cache'[s][j] = cache[s][j] /\ (j \in call'[s].unseen <=> j \in call[s].unseen)
    <3>1. CASE Parsed(wiki[i]) = None
      BY <1>8, <3>1, ReadFileFields
    <3>2. CASE Parsed(wiki[i]) # None
      <4>1. call'[s].unseen = call[s].unseen \ {i} /\ \A k \in Id \ {i} : cache'[s][k] = cache[s][k]
        BY <1>8, <3>2, ReadFileFields
      <4> QED BY <4>1
    <3> QED BY <3>1, <3>2
  <2>3. ASSUME Settled(s, i) PROVE i \notin call'[s].unseen /\ Trusts(s, i)'
    <3>1. /\ cache'[s][i] \in Entry /\ cache'[s][i].stamp = call[s].stat
          /\ cache'[s][i].trusted <=> ~Racy(call[s].stat.mtime, call[s].at)
          /\ call'[s].unseen = call[s].unseen \ {i}
      BY <1>8, <2>3, ReadFileFields
    <3>2. call[s].stat = StatOf(i) /\ call[s].stat.mtime = wiki[i].mtime
      BY <2>1, <2>3 DEF StatOf
    <3>3. ~Racy(call[s].stat.mtime, call[s].at) /\ StatOf(i)' = StatOf(i)
      BY <1>1, <2>1, <2>3, <3>2
    <3> QED BY <3>1, <3>2, <3>3, NoEntryAssumption
  <2>4. ASSUME NEW j \in Id, Settled(s, j)' PROVE j \notin call[s].todo \ {i} => j \notin call'[s].unseen /\ Trusts(s, j)'
    <3>1. Settled(s, j)
      BY <1>0, <2>1, <2>4
    <3>2. CASE j = i
      BY <2>3, <3>1, <3>2
    <3>3. CASE j # i
      BY <1>0, <1>1, <2>1, <2>2, <3>1, <3>3
    <3> QED BY <3>2, <3>3
  <2> QED BY <2>1, <2>4
<1>9. CASE Assemble(s)
  BY <1>0, <1>1, <1>9 DEF Assemble
<1>10. CASE Answer(s)
  BY <1>0, <1>10 DEF Answer, Idle
<1> QED BY <1>2, <1>3, <1>4, <1>5, <1>6, <1>7, <1>8, <1>9, <1>10 DEF Serves

(* A step of a server says nothing of the files the others have visited.   *)
LEMMA OthersSettle ==
  ASSUME TypeOK, OpenInv, NEW s \in Server, Serves(s), NEW r \in Server \ {s}, SettleInv(r)
  PROVE  SettleInv(r)'
BY ServesOwn DEF SettleInv, Settled, Trusts, Looking, StatOf

(* CacheSettles holds in every state, for every grain of time up to the    *)
(* window: the entry of a file that is older than the call is trusted when *)
(* the call ends, so that a server that lists an idle wiki twice parses it *)
(* once.                                                                   *)
THEOREM CacheIsSettled == Spec => []CacheSettles
<1> DEFINE Inv == TypeOK /\ OpenInv /\ TrustInv /\ \A s \in Server : SettleInv(s)
<1>1. Init => Inv
  BY TypesAtFirst, TrustAtFirst DEF Init, SettleInv, Looking, Idle
<1>2. Inv /\ [Next]_vars => Inv'
  <2> SUFFICES ASSUME Inv, [Next]_vars PROVE \A s \in Server : SettleInv(s)'
    BY TrustStep
  <2>1. CASE Outside
    BY <2>1, OutsideSettles
  <2>2. CASE \E s \in Server : Serves(s)
    BY <2>2, ServesSettles, OthersSettle
  <2>3. CASE UNCHANGED vars
    BY <2>3 DEF vars, SettleInv, Settled, Trusts, Looking, StatOf
  <2> QED BY <2>1, <2>2, <2>3, NextSplits
<1>3. Inv => CacheSettles
  BY DEF SettleInv, Settled, CacheSettles, Files
<1> QED BY <1>1, <1>2, <1>3, PTL DEF Spec
=============================================================================
