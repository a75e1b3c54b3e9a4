---------------------------- MODULE VectorStore -----------------------------
(***************************************************************************)
(* The vector index of a scope on disk (store/vectors.go, vector/binary.go):*)
(* vectors.bin, a legacy vectors.json beside it, commands that read both,  *)
(* migrate the one to the other or write the first and remove the second,  *)
(* an older kb that knows the JSON only, and crashes.                      *)
(*                                                                         *)
(* Every stat, read, link, rename and remove is a step, so the steps of    *)
(* several commands interleave.  A stamp (size and mtime) is a number that *)
(* no two versions of a file share; its order is the order of the mtimes.  *)
(* Files are written through a temporary file, hence whole.                *)
(***************************************************************************)
EXTENDS Naturals

CONSTANTS Proc,       \* commands and servers
          Writer,     \* those that write vectors
          Id, Vec,    \* article ids; vectors
          None,       \* no file, no vector, nothing read
          V1,         \* the source stamp of a version-1 vectors.bin: there is none
          MaxCalls,   \* bound: calls made
          MaxForeign  \* bound: writes of an older kb

ASSUME WriterAssumption == Writer \subseteq Proc

VARIABLES bin,        \* vectors.bin: [vecs, src, stamp] or None
          json,       \* vectors.json: [vecs, stamp] or None
          clock,      \* the last stamp given
          pc, mem,    \* where each process is, and what it knows
          calls,      \* calls made so far
          foreign,    \* history: writes of an older kb
          stale,      \* history: who is in a call that another vector write overlaps
          overtaken,  \* history: who has been overtaken between its guard and its rename
          intact      \* history: no overtaken or overlapped call has written

files == <<bin, json, clock>>
past  == <<calls, foreign, stale, overtaken, intact>>
vars  == <<files, pc, mem, past>>

Maps  == [Id -> Vec \cup {None}]
Empty == [i \in Id |-> None]
Stamp == 0..clock

(* What LoadBinarySource returns, and the two files.                       *)
Decoded  == [vecs : Maps, src : Nat \cup {V1}]
BinFile  == [vecs : Maps, src : Nat \cup {V1}, stamp : Nat]
JsonFile == [vecs : Maps, stamp : Nat]

ASSUME NoneAssumption == /\ None \notin Vec /\ None \notin Nat /\ V1 \notin Nat
                         /\ None \notin Decoded /\ None \notin BinFile /\ None \notin JsonFile

(* A call: a read (search, stats, MCP), or a write that sets one entry to  *)
(* a vector (AttachVector) or takes it out (delete, IDRegistry.Retire).    *)
Read == [id |-> None, vec |-> None]
Call == [id : Id, vec : Vec \cup {None}] \cup {Read}

Phase == {"idle", "statBin", "readBin", "statJson", "decode", "guardJson", "guardBin",
          "publish", "recheck", "rename", "loaded", "stampJson", "save", "remove"}

(* binFI, jsonFI: the stats; got: what ReadBin returned; idx: the index in *)
(* memory; src: the stamp SaveVectors puts on what it writes.              *)
Memory == [call : Call, binFI : Stamp \cup {None},
           got  : Decoded \cup {None},
           jsonFI : Stamp \cup {None}, idx : Maps, src : Stamp]

Idle == [call |-> Read, binFI |-> None, got |-> None, jsonFI |-> None,
         idx  |-> Empty, src |-> 0]

TypeOK ==
    /\ clock \in Nat
    /\ bin \in BinFile \cup {None}
    /\ bin # None => bin.stamp \in Stamp /\ bin.src \in Stamp \cup {V1}
    /\ json \in JsonFile \cup {None}
    /\ json # None => json.stamp \in Stamp
    /\ pc \in [Proc -> Phase]
    /\ mem \in [Proc -> Memory]
    /\ calls \in Nat /\ foreign \in Nat
    /\ stale \subseteq Proc /\ overtaken \subseteq Proc
    /\ intact \in BOOLEAN

StampOf(f) == IF f = None THEN None ELSE f.stamp

(* binCurrent: a vectors.bin with source src and stat binFI accounts for a *)
(* vectors.json with stat jsonFI.                                          *)
BinCurrent(src, binFI, jsonFI) ==
    IF src # V1 THEN src = jsonFI ELSE binFI # None /\ jsonFI <= binFI

(* What LoadVectors returns when nobody interferes: the stored vectors.    *)
Stored ==
    IF bin # None /\ (json = None \/ BinCurrent(bin.src, bin.stamp, json.stamp)) THEN bin.vecs
    ELSE IF json # None THEN json.vecs ELSE Empty

(* A scope that has never had vectors, one of an older kb, one that an     *)
(* intermediate kb has given a version-1 vectors.bin before or after the   *)
(* JSON was written, and one with a current vectors.bin.                   *)
Init ==
    /\ clock = 2
    /\ \E m \in Maps :
         \/ bin = None /\ json = None
         \/ bin = None /\ json = [vecs |-> m, stamp |-> 1]
         \/ \E s \in 1..2 : /\ json = [vecs |-> m, stamp |-> s]
                            /\ bin = [vecs |-> Empty, src |-> V1, stamp |-> 3 - s]
         \/ bin = [vecs |-> m, src |-> 0, stamp |-> 1] /\ json = None
    /\ pc = [p \in Proc |-> "idle"]
    /\ mem = [p \in Proc |-> Idle]
    /\ calls = 0 /\ foreign = 0
    /\ stale = {} /\ overtaken = {}
    /\ intact = TRUE
-----------------------------------------------------------------------------
At(p, phase) == pc[p] = phase
Goto(p, phase) == pc' = [pc EXCEPT ![p] = phase]
End(p) == /\ pc' = [pc EXCEPT ![p] = "idle"]
          /\ mem' = [mem EXCEPT ![p] = Idle]
          /\ stale' = stale \ {p}
          /\ overtaken' = overtaken \ {p}

Start(p, c) ==
    /\ At(p, "idle") /\ calls < MaxCalls
    /\ c # Read => p \in Writer
    /\ Goto(p, "statBin")
    /\ mem' = [mem EXCEPT ![p].call = c]
    /\ calls' = calls + 1
    /\ UNCHANGED <<files, foreign, stale, overtaken, intact>>

(* LoadVectors: stat vectors.bin, for the guard of a migration.            *)
StatBin(p) ==
    /\ At(p, "statBin")
    /\ Goto(p, "readBin")
    /\ mem' = [mem EXCEPT ![p].binFI = StampOf(bin)]
    /\ UNCHANGED <<files, past>>

(* LoadBinarySource.                                                       *)
ReadBin(p) ==
    /\ At(p, "readBin")
    /\ Goto(p, "statJson")
    /\ mem' = [mem EXCEPT ![p].got = IF bin = None THEN None
                                     ELSE [vecs |-> bin.vecs, src |-> bin.src]]
    /\ UNCHANGED <<files, past>>

(* Mutant of StatJson: a vectors.bin that could be read is taken as it is. *)
StatJsonUnread(p) ==
    LET m == mem[p] IN
    /\ At(p, "statJson")
    /\ \/ /\ m.got # None
          /\ Goto(p, "loaded")
          /\ mem' = [mem EXCEPT ![p].idx = m.got.vecs]
       \/ /\ m.got = None /\ json = None
          /\ Goto(p, "loaded")
          /\ mem' = [mem EXCEPT ![p].idx = Empty]
       \/ /\ m.got = None /\ json # None
          /\ Goto(p, "decode")
          /\ mem' = [mem EXCEPT ![p].jsonFI = json.stamp]
    /\ UNCHANGED <<files, past>>

(* Stat vectors.json: return what was read if it accounts for the JSON or  *)
(* there is none, an empty index if there is neither, else decode.         *)
StatJson(p) ==
    LET m == mem[p]
        useBin == m.got # None
                  /\ (json # None => BinCurrent(m.got.src, m.binFI, json.stamp))
    IN  /\ At(p, "statJson")
        /\ \/ /\ useBin
              /\ Goto(p, "loaded")
              /\ mem' = [mem EXCEPT ![p].idx = m.got.vecs]
           \/ /\ ~useBin /\ json = None
              /\ Goto(p, "loaded")
              /\ mem' = [mem EXCEPT ![p].idx = Empty]
           \/ /\ ~useBin /\ json # None
              /\ Goto(p, "decode")
              /\ mem' = [mem EXCEPT ![p].jsonFI = json.stamp]
        /\ UNCHANGED <<files, past>>

(* vector.Load of the JSON: a file that has gone is an empty index.        *)
Decode(p) ==
    /\ At(p, "decode")
    /\ Goto(p, "guardJson")
    /\ mem' = [mem EXCEPT ![p].idx = IF json = None THEN Empty ELSE json.vecs]
    /\ UNCHANGED <<files, past>>

(* The JSON does not parse, as an older kb is writing it: the call fails.  *)
DecodeFails(p) ==
    /\ At(p, "decode") /\ json # None
    /\ End(p)
    /\ UNCHANGED <<files, calls, foreign, intact>>

(* publishMigration, once its temporary file is written: the guard.        *)
GuardJson(p) ==
    /\ At(p, "guardJson")
    /\ Goto(p, IF StampOf(json) = mem[p].jsonFI THEN "guardBin" ELSE "loaded")
    /\ UNCHANGED <<files, mem, past>>

(* Mutant of GuardBin: only the JSON is looked at again. *)
GuardBinNever(p) ==
    /\ At(p, "guardBin")
    /\ Goto(p, "publish")
    /\ UNCHANGED <<files, mem, past>>

GuardBin(p) ==
    /\ At(p, "guardBin")
    /\ Goto(p, IF StampOf(bin) = mem[p].binFI THEN "publish" ELSE "loaded")
    /\ UNCHANGED <<files, mem, past>>

(* The migration cannot be written (a read-only directory): no matter.     *)
MigrationFails(p) ==
    /\ pc[p] \in {"guardJson", "publish"}
    /\ Goto(p, "loaded")
    /\ UNCHANGED <<files, mem, past>>

Migrated(p) == [vecs |-> mem[p].idx, src |-> mem[p].jsonFI, stamp |-> clock + 1]

(* os.Link: the first link wins, the rest find it.                         *)
Link(p) ==
    /\ At(p, "publish") /\ mem[p].binFI = None
    /\ Goto(p, "loaded")
    /\ \/ bin = None /\ bin' = Migrated(p) /\ clock' = clock + 1
       \/ bin # None /\ UNCHANGED <<bin, clock>>
    /\ UNCHANGED <<json, mem, past>>

(* The file system has no hard links: look again, then rename.             *)
NoLink(p) ==
    /\ At(p, "publish") /\ mem[p].binFI = None /\ bin = None
    /\ Goto(p, "recheck")
    /\ UNCHANGED <<files, mem, past>>

Recheck(p) ==
    /\ At(p, "recheck")
    /\ Goto(p, IF bin = None THEN "rename" ELSE "loaded")
    /\ UNCHANGED <<files, mem, past>>

RenameMigrated(p) ==
    /\ \/ At(p, "publish") /\ mem[p].binFI # None
       \/ At(p, "rename")
    /\ Goto(p, "loaded")
    /\ bin' = Migrated(p)
    /\ clock' = clock + 1
    /\ intact' = (intact /\ p \notin overtaken)
    /\ UNCHANGED <<json, mem, calls, foreign, stale, overtaken>>

(* LoadVectors has returned.  A read ends; a write changes its copy, and a *)
(* removal that finds nothing to remove writes nothing.                    *)
Use(p) ==
    LET c == mem[p].call
        nothing == c # Read => (c.vec = None /\ mem[p].idx[c.id] = None)
    IN
    /\ At(p, "loaded")
    /\ \/ /\ nothing
          /\ End(p)
       \/ /\ ~nothing
          /\ Goto(p, "stampJson")
          /\ mem' = [mem EXCEPT ![p].idx[c.id] = c.vec]
          /\ UNCHANGED <<stale, overtaken>>
    /\ UNCHANGED <<files, calls, foreign, intact>>

(* Mutant of StampJson: no JSON gives no stamp instead of zero. *)
StampJsonNone(p) ==
    /\ At(p, "stampJson")
    /\ Goto(p, "save")
    /\ mem' = [mem EXCEPT ![p].src = StampOf(json)]
    /\ UNCHANGED <<files, past>>

(* SaveVectors: stamp the JSON this write supersedes ...                   *)
StampJson(p) ==
    /\ At(p, "stampJson")
    /\ Goto(p, "save")
    /\ mem' = [mem EXCEPT ![p].src = IF json = None THEN 0 ELSE json.stamp]
    /\ UNCHANGED <<files, past>>

(* ... rename the new vectors.bin into place ...                           *)
Save(p) ==
    /\ At(p, "save")
    /\ Goto(p, "remove")
    /\ bin' = [vecs |-> mem[p].idx, src |-> mem[p].src, stamp |-> clock + 1]
    /\ clock' = clock + 1
    /\ intact' = (intact /\ p \notin stale)
    /\ stale' = stale \cup {q \in Proc \ {p} : pc[q] # "idle"}
    /\ overtaken' = overtaken \cup {q \in Proc \ {p} : pc[q] \in {"publish", "recheck", "rename"}}
    /\ UNCHANGED <<json, mem, calls, foreign>>

(* ... and remove the JSON, which may fail.                                *)
RemoveJson(p) ==
    /\ At(p, "remove")
    /\ End(p)
    /\ json' \in {None, json}
    /\ intact' = (intact /\ p \notin stale)
    /\ UNCHANGED <<bin, clock, calls, foreign>>

(* A process is killed, or its disk is full.                               *)
Crash(p) ==
    /\ pc[p] # "idle"
    /\ End(p)
    /\ UNCHANGED <<files, calls, foreign, intact>>

(* An older kb adds a vector to the JSON, the only file it knows.          *)
OlderKb(i, v) ==
    /\ foreign < MaxForeign
    /\ json' = [vecs  |-> [IF json = None THEN Empty ELSE json.vecs EXCEPT ![i] = v],
                stamp |-> clock + 1]
    /\ clock' = clock + 1
    /\ foreign' = foreign + 1
    /\ stale' = {q \in Proc : pc[q] # "idle"}
    /\ UNCHANGED <<bin, pc, mem, calls, overtaken, intact>>

Load(p) == \/ StatBin(p) \/ ReadBin(p) \/ StatJson(p) \/ Decode(p) \/ DecodeFails(p)
           \/ GuardJson(p) \/ GuardBin(p) \/ MigrationFails(p)
           \/ Link(p) \/ NoLink(p) \/ Recheck(p) \/ RenameMigrated(p)

Next == \/ \E p \in Proc : \/ \E c \in Call : Start(p, c)
                           \/ Load(p) \/ Use(p)
                           \/ StampJson(p) \/ Save(p) \/ RemoveJson(p)
                           \/ Crash(p)
        \/ \E i \in Id, v \in Vec : OlderKb(i, v)

Spec == Init /\ [][Next]_vars
-----------------------------------------------------------------------------
(* The scope's vectors change like a map: by the one entry that a write    *)
(* sets or takes out, when it lands.  No migration, crash, leftover JSON   *)
(* or file system without links changes them.  Excepted are writes that    *)
(* overlap with another write, and a migration overtaken by one between    *)
(* its guard and its rename.                                               *)
Map == INSTANCE VectorMap WITH stored <- Stored

VectorsAreMap == Map!Spec

(* LoadVectors returns the stored vectors, however many other calls are    *)
(* migrating them, unless a write overlaps with it.                        *)
LoadIsExact ==
    intact => \A p \in Proc \ stale : pc[p] = "loaded" => mem[p].idx = Stored
=============================================================================
