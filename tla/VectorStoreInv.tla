--------------------------- MODULE VectorStoreInv ---------------------------
(***************************************************************************)
(* Why no migration changes what is stored: the inductive invariant.       *)
(***************************************************************************)
EXTENDS VectorStore

Reading   == {"readBin", "statJson", "decode", "guardJson", "guardBin"}
Decoding  == {"decode", "guardJson", "guardBin"}
Migrating == {"publish", "recheck", "rename"}
Writing   == {"stampJson", "save"}

(* What ReadBin returns for file b.                                        *)
Content(b) == IF b = None THEN None ELSE [vecs |-> b.vecs, src |-> b.src]

(* A call overtaken by a write, and so stale, is under way.                *)
HistoryInv == /\ overtaken \subseteq stale
              /\ \A p \in stale : pc[p] # "idle"
              /\ overtaken # {} => bin # None

(* A file whose stamp is the one a process has noted is the file it has    *)
(* read, and a version-1 file is never written.                            *)
Noted(p) ==
  /\ pc[p] = "readBin" /\ bin # None /\ bin.src = V1 => mem[p].binFI = bin.stamp
  /\ pc[p] = "statJson" /\ StampOf(bin) = mem[p].binFI => mem[p].got = Content(bin)
  /\ pc[p] \in Decoding \cup Migrating => mem[p].jsonFI \in Stamp
  /\ pc[p] \in Decoding /\ bin # None /\ bin.stamp = mem[p].binFI =>
       ~BinCurrent(bin.src, bin.stamp, mem[p].jsonFI)
  /\ /\ pc[p] \in {"guardJson", "guardBin"} \cup Migrating
     /\ json # None /\ json.stamp = mem[p].jsonFI
     => mem[p].idx = json.vecs
  /\ pc[p] \in Writing => mem[p].call \in [id : Id, vec : Vec \cup {None}]

(* A process that is about to publish a migration, past its guard or going *)
(* to pass it: the JSON is what is stored.                                 *)
Ready(p) == \/ pc[p] = "guardBin" /\ StampOf(bin) = mem[p].binFI
            \/ pc[p] \in Migrating /\ p \notin overtaken

Migration(p) == Ready(p) => json # None /\ Stored = json.vecs

(* A call that nobody has written beside: it has what is stored, or is     *)
(* going to choose it.                                                     *)
Choice(p) ==
  LET m == mem[p] IN
    IF json = None THEN Stored = IF m.got = None THEN Empty ELSE m.got.vecs
    ELSE Stored = IF m.got # None /\ BinCurrent(m.got.src, m.binFI, json.stamp) THEN m.got.vecs
                  ELSE json.vecs

Loading(p) ==
  /\ pc[p] = "statJson" => Choice(p)
  /\ pc[p] \in Decoding \cup Migrating =>
       json # None /\ json.stamp = mem[p].jsonFI /\ Stored = json.vecs
  /\ pc[p] = "loaded" => mem[p].idx = Stored
  /\ pc[p] \in Writing => mem[p].idx = [Stored EXCEPT ![mem[p].call.id] = mem[p].call.vec]
  /\ pc[p] = "save" => json = None \/ mem[p].src = json.stamp

(* A write that has landed and goes on to remove the JSON: vectors.bin     *)
(* accounts for it, and nobody will publish a migration any more.          *)
Settled == bin # None /\ bin.src # V1 /\ (json = None \/ bin.src = json.stamp)

Aware(p) == /\ pc[p] \in Reading /\ p \notin stale => mem[p].binFI = bin.stamp
            /\ pc[p] \in Decoding => mem[p].binFI # bin.stamp
            /\ pc[p] \in Migrating => p \in overtaken

Removing == \E w \in Proc \ stale : pc[w] = "remove"

StoreInv ==
  /\ TypeOK
  /\ HistoryInv
  /\ \A p \in Proc : Noted(p)
  /\ intact => /\ \A p \in Proc : Migration(p)
               /\ \A p \in Proc \ stale : Loading(p)
               /\ Removing => Settled /\ \A p \in Proc : Aware(p)
=============================================================================
