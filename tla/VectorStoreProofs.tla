------------------------- MODULE VectorStoreProofs --------------------------
(***************************************************************************)
(* Types of the vector files, that a load is exact, and that the two files *)
(* are one map.                                                            *)
(***************************************************************************)
EXTENDS VectorStoreInv, TLAPS

(* A stat has a number; a file is not None.                                *)
LEMMA Kinds ==
  ASSUME TypeOK
  PROVE  /\ clock \in Nat
         /\ bin # None => /\ bin.vecs \in Maps /\ bin.stamp \in Nat /\ bin.stamp <= clock
                          /\ bin.stamp # None
                          /\ bin.src # V1 => bin.src \in Nat /\ bin.src <= clock
         /\ json # None => /\ json.vecs \in Maps /\ json.stamp \in Nat /\ json.stamp <= clock
                           /\ json.stamp # None
         /\ StampOf(bin) \in Stamp \cup {None} /\ StampOf(json) \in Stamp \cup {None}
         /\ Stored \in Maps /\ Empty \in Maps
<1>1. bin # None => bin \in BinFile /\ bin.stamp \in 0..clock /\ bin.src \in (0..clock) \cup {V1}
  BY DEF TypeOK, Stamp
<1>2. json # None => json \in JsonFile /\ json.stamp \in 0..clock
  BY DEF TypeOK, Stamp
<1>3. clock \in Nat /\ Empty \in Maps
  BY DEF TypeOK, Empty, Maps
<1> QED BY <1>1, <1>2, <1>3, NoneAssumption DEF BinFile, JsonFile, StampOf, Stamp, Stored

(* What a process knows.                                                   *)
LEMMA KnownTypes ==
  ASSUME TypeOK, NEW p \in Proc
  PROVE  /\ mem[p] \in Memory /\ mem[p].call \in Call /\ mem[p].idx \in Maps
         /\ mem[p].binFI # None => mem[p].binFI \in Nat /\ mem[p].binFI <= clock
         /\ mem[p].jsonFI # None => mem[p].jsonFI \in Nat /\ mem[p].jsonFI <= clock
         /\ mem[p].got # None => mem[p].got.vecs \in Maps /\ mem[p].got.src \in Nat \cup {V1}
         /\ mem[p].src \in Nat /\ mem[p].src <= clock
         /\ pc[p] \in Phase
<1>1. mem[p] \in Memory /\ clock \in Nat
  BY DEF TypeOK
<1> QED BY <1>1 DEF TypeOK, Memory, Stamp, Decoded

(* A later clock takes no stamp back.                                      *)
LEMMA MemoryGrows ==
  ASSUME TypeOK, clock' \in Nat, clock <= clock'
  PROVE  /\ Memory \subseteq Memory' /\ Stamp \subseteq Stamp'
         /\ mem \in [Proc -> Memory']
<1>1. Stamp \subseteq Stamp'
  BY DEF Stamp, TypeOK
<1>2. Memory \subseteq Memory'
  BY <1>1 DEF Memory
<1> QED BY <1>1, <1>2 DEF TypeOK

(***************************************************************************)
(* Steps of one process that leave the files alone.                        *)
(***************************************************************************)
Local(p) == /\ UNCHANGED <<files, foreign, intact>> /\ calls' \in Nat
            /\ \A q \in Proc \ {p} : pc'[q] = pc[q] /\ mem'[q] = mem[q]
            /\ \/ stale' = stale /\ overtaken' = overtaken /\ pc'[p] # "idle"
               \/ stale' = stale \ {p} /\ overtaken' = overtaken \ {p} /\ pc'[p] = "idle"
            /\ pc' \in [Proc -> Phase] /\ pc'[p] # "remove"
            /\ mem' \in [Proc -> Memory]

(* What is left to show of such a step: the conjuncts on p itself.         *)
Own(p) == /\ Noted(p)'
          /\ intact => /\ Migration(p)'
                       /\ p \notin stale' => Loading(p)'
                       /\ Removing => Aware(p)'

LEMMA LocalStep ==
  ASSUME StoreInv, NEW p \in Proc, Local(p), Own(p)
  PROVE  StoreInv'
<1> USE DEF StoreInv
<1>1. TypeOK'
  <2>1. bin' = bin /\ json' = json /\ clock' = clock
    BY DEF Local, files
  <2>2. Memory' = Memory /\ Stamp' = Stamp
    BY <2>1 DEF Memory, Stamp
  <2>3. calls' \in Nat /\ foreign' = foreign /\ intact' = intact
    BY DEF Local, TypeOK
  <2>4. stale' \subseteq stale /\ overtaken' \subseteq overtaken
    BY DEF Local
  <2>5. pc' \in [Proc -> Phase] /\ mem' \in [Proc -> Memory]
    BY DEF Local
  <2> QED BY <2>1, <2>2, <2>3, <2>4, <2>5 DEF TypeOK
<1>2. HistoryInv'
  BY DEF Local, HistoryInv, TypeOK, files
<1>3. Stored' = Stored /\ bin' = bin /\ json' = json /\ clock' = clock /\ intact' = intact
  BY DEF Local, Stored, files
<1>4. ASSUME NEW q \in Proc, q # p
      PROVE  /\ pc'[q] = pc[q] /\ mem'[q] = mem[q] /\ (q \in stale' <=> q \in stale)
             /\ (q \in overtaken' <=> q \in overtaken)
  BY <1>4 DEF Local
<1>5. ASSUME NEW q \in Proc, q # p PROVE Noted(q)'
  BY <1>3, <1>4, <1>5 DEF Noted, StampOf, Content, BinCurrent, Stamp
<1>6. ASSUME NEW q \in Proc, q # p, intact
      PROVE  Migration(q)' /\ (q \notin stale' => Loading(q)')
  BY <1>3, <1>4, <1>6 DEF Migration, Ready, Loading, Choice, StampOf, BinCurrent
<1>7. Removing' => Removing
  BY <1>4 DEF Removing, Local
<1>8. ASSUME NEW q \in Proc, q # p, intact, Removing PROVE Settled' /\ Aware(q)'
  BY <1>3, <1>4, <1>8 DEF Settled, Aware
<1>9. ASSUME intact, Removing PROVE Settled'
  BY <1>3, <1>9 DEF Settled
<1> QED BY <1>1, <1>2, <1>3, <1>5, <1>6, <1>7, <1>8, <1>9 DEF Own

(* A call ends.                                                            *)
LEMMA EndStep ==
  ASSUME StoreInv, NEW p \in Proc, pc[p] # "idle", End(p),
         UNCHANGED <<files, calls, foreign, intact>>
  PROVE  StoreInv'
<1>1. Idle \in Memory
  BY DEF Idle, Memory, Call, Empty, Maps, Stamp, StoreInv, TypeOK
<1>2. Local(p)
  <2>1. pc' \in [Proc -> Phase] /\ pc'[p] = "idle" /\ \A q \in Proc \ {p} : pc'[q] = pc[q]
    BY DEF End, StoreInv, TypeOK, Phase
  <2>2. mem' \in [Proc -> Memory] /\ \A q \in Proc \ {p} : mem'[q] = mem[q]
    BY <1>1 DEF End, StoreInv, TypeOK
  <2> QED BY <2>1, <2>2 DEF Local, End, StoreInv, TypeOK
<1>3. pc'[p] = "idle"
  BY DEF End, StoreInv, TypeOK
<1>4. Own(p)
  BY <1>3 DEF Own, Noted, Migration, Ready, Loading, Aware, Reading, Decoding, Migrating, Writing
<1> QED BY <1>2, <1>4, LocalStep

(* A process goes to another phase with a new memory.                      *)
LEMMA GoesLocal ==
  ASSUME TypeOK, NEW p \in Proc, NEW x \in Phase \ {"idle", "remove"}, Goto(p, x),
         NEW m \in Memory, mem' = [mem EXCEPT ![p] = m],
         UNCHANGED <<files, foreign, stale, overtaken, intact>>, calls' \in Nat
  PROVE  Local(p) /\ pc'[p] = x /\ mem'[p] = m
<1>1. pc' \in [Proc -> Phase] /\ pc'[p] = x /\ \A q \in Proc \ {p} : pc'[q] = pc[q]
  BY DEF Goto, TypeOK
<1>2. mem' \in [Proc -> Memory] /\ mem'[p] = m /\ \A q \in Proc \ {p} : mem'[q] = mem[q]
  BY DEF TypeOK
<1> QED BY <1>1, <1>2 DEF Local

(* ... or with the one it has.                                             *)
LEMMA GoesSame ==
  ASSUME TypeOK, NEW p \in Proc, NEW x \in Phase \ {"idle", "remove"}, Goto(p, x),
         UNCHANGED <<files, mem, past>>
  PROVE  Local(p) /\ pc'[p] = x /\ mem'[p] = mem[p]
<1>1. mem' = [mem EXCEPT ![p] = mem[p]] /\ mem[p] \in Memory /\ calls' \in Nat
  BY DEF TypeOK, past
<1> QED BY <1>1, GoesLocal DEF past

(* The files are what they were, and so is what is stored.                 *)
LEMMA SameFiles ==
  ASSUME UNCHANGED files
  PROVE  bin' = bin /\ json' = json /\ clock' = clock /\ Stored' = Stored /\ Stamp' = Stamp
BY DEF files, Stored, Stamp

(* A call is made.                                                         *)
LEMMA StartStep ==
  ASSUME StoreInv, NEW p \in Proc, NEW c \in Call, Start(p, c)
  PROVE  StoreInv'
<1>1. TypeOK /\ mem[p] \in Memory
  BY DEF StoreInv, TypeOK
<1>2. [mem[p] EXCEPT !.call = c] \in Memory
  BY <1>1 DEF Memory
<1>3. calls' \in Nat /\ mem' = [mem EXCEPT ![p] = [mem[p] EXCEPT !.call = c]]
  BY <1>1 DEF Start, TypeOK
<1>4. Local(p) /\ pc'[p] = "statBin"
  BY <1>1, <1>2, <1>3, GoesLocal DEF Start, Phase
<1>5. Own(p)
  BY <1>4 DEF Own, Noted, Migration, Ready, Loading, Aware, Reading, Decoding, Migrating, Writing
<1> QED BY <1>4, <1>5, LocalStep

(* LoadVectors: the stat of vectors.bin ...                                *)
LEMMA StatBinStep ==
  ASSUME StoreInv, NEW p \in Proc, StatBin(p)
  PROVE  StoreInv'
<1> DEFINE m == [mem[p] EXCEPT !.binFI = StampOf(bin)]
<1>1. TypeOK /\ mem[p] \in Memory /\ StampOf(bin) \in Stamp \cup {None}
  BY Kinds DEF StoreInv, TypeOK
<1>2. m \in Memory /\ m.binFI = StampOf(bin)
  BY <1>1 DEF Memory
<1>3. calls' \in Nat /\ mem' = [mem EXCEPT ![p] = m]
  BY <1>1 DEF StatBin, past, TypeOK
<1>4. Local(p) /\ pc'[p] = "readBin" /\ mem'[p] = m
  BY <1>1, <1>2, <1>3, GoesLocal DEF StatBin, past, Phase
<1>5. UNCHANGED files
  BY DEF StatBin
<1>6. Own(p)
  BY <1>2, <1>4, <1>5, SameFiles
     DEF Own, Noted, Migration, Ready, Loading, Aware, Reading, Decoding, Migrating, Writing, StampOf,
         StoreInv, Settled
<1> QED BY <1>4, <1>6, LocalStep

(* ... what it holds ...                                                   *)
LEMMA ReadBinStep ==
  ASSUME StoreInv, NEW p \in Proc, ReadBin(p)
  PROVE  StoreInv'
<1> DEFINE m == [mem[p] EXCEPT !.got = Content(bin)]
<1>1. TypeOK /\ mem[p] \in Memory /\ Content(bin) \in Decoded \cup {None}
  BY DEF StoreInv, TypeOK, Content, Decoded, BinFile
<1>2. m \in Memory /\ m.got = Content(bin) /\ m.binFI = mem[p].binFI
  BY <1>1 DEF Memory
<1>3. calls' \in Nat /\ mem' = [mem EXCEPT ![p] = m]
  BY <1>1 DEF ReadBin, past, TypeOK, Content
<1>4. Local(p) /\ pc'[p] = "statJson" /\ mem'[p] = m
  BY <1>1, <1>2, <1>3, GoesLocal DEF ReadBin, past, Phase
<1>5. UNCHANGED files /\ pc[p] = "readBin"
  BY DEF ReadBin, At
<1>6. Noted(p)'
  BY <1>2, <1>4, <1>5, SameFiles DEF Noted, Decoding, Migrating, Writing, StampOf
<1>7. Migration(p)'
  BY <1>4 DEF Migration, Ready, Migrating
<1>8. Choice(p)'
  <2>1. bin # None => /\ Content(bin) # None
                      /\ Content(bin).vecs = bin.vecs /\ Content(bin).src = bin.src
    BY <1>1, NoneAssumption DEF Content, Decoded, TypeOK, BinFile
  <2>2. Noted(p)
    BY DEF StoreInv
  <2>3. bin # None /\ bin.src = V1 => mem[p].binFI = bin.stamp
    BY <1>5, <2>2 DEF Noted
  <2>4. Choice(p)' <=> LET k == m IN
          IF json = None THEN Stored = IF k.got = None THEN Empty ELSE k.got.vecs
          ELSE Stored = IF k.got # None /\ BinCurrent(k.got.src, k.binFI, json.stamp) THEN k.got.vecs
                        ELSE json.vecs
    BY <1>4, <1>5, SameFiles DEF Choice, BinCurrent
  <2> QED BY <1>2, <2>1, <2>3, <2>4 DEF Stored, BinCurrent, Content
<1>9. intact /\ Removing => Aware(p)'
  <2>1. intact /\ Removing => Aware(p)
    BY DEF StoreInv
  <2>2. p \in stale' <=> p \in stale
    BY DEF ReadBin, past
  <2> QED BY <1>2, <1>4, <1>5, <2>1, <2>2, SameFiles DEF Aware, Reading, Decoding, Migrating
<1>10. Own(p)
  BY <1>4, <1>6, <1>7, <1>8, <1>9 DEF Own, Loading, Decoding, Migrating, Writing
<1> QED BY <1>4, <1>10, LocalStep

(* ... the choice between the two files ...                                *)
LEMMA StatJsonStep ==
  ASSUME StoreInv, NEW p \in Proc, StatJson(p)
  PROVE  StoreInv'
<1> DEFINE useBin == mem[p].got # None
                     /\ (json # None => BinCurrent(mem[p].got.src, mem[p].binFI, json.stamp))
<1>1. TypeOK /\ mem[p] \in Memory /\ pc[p] = "statJson" /\ calls' \in Nat
  BY DEF StoreInv, TypeOK, StatJson, At, past
<1>2. Noted(p) /\ UNCHANGED files /\ UNCHANGED <<foreign, stale, overtaken, intact>>
  BY DEF StoreInv, StatJson, past
<1>3. ASSUME NEW d \in Maps, Goto(p, "loaded"), mem' = [mem EXCEPT ![p].idx = d],
             intact /\ p \notin stale => d = Stored
      PROVE  StoreInv'
  <2> DEFINE m == [mem[p] EXCEPT !.idx = d]
  <2>1. m \in Memory /\ m.idx = d
    BY <1>1 DEF Memory
  <2>2. Local(p) /\ pc'[p] = "loaded" /\ mem'[p] = m
    BY <1>1, <1>2, <1>3, <2>1, GoesLocal DEF Phase
  <2>3. Own(p)
    BY <1>2, <1>3, <2>1, <2>2, SameFiles
       DEF Own, Noted, Migration, Ready, Loading, Aware, Reading, Decoding, Migrating, Writing
  <2> QED BY <2>2, <2>3, LocalStep
<1>4. intact /\ p \notin stale => Choice(p)
  BY <1>1 DEF StoreInv, Loading
<1>5. CASE useBin /\ Goto(p, "loaded") /\ mem' = [mem EXCEPT ![p].idx = mem[p].got.vecs]
  <2>1. mem[p].got.vecs \in Maps
    BY <1>1, <1>5, KnownTypes
  <2>2. Choice(p) => mem[p].got.vecs = Stored
    BY <1>5 DEF Choice
  <2> QED BY <1>3, <1>4, <1>5, <2>1, <2>2
<1>6. CASE ~useBin /\ json = None /\ Goto(p, "loaded") /\ mem' = [mem EXCEPT ![p].idx = Empty]
  <2>1. Empty \in Maps
    BY <1>1, Kinds
  <2>2. Choice(p) => Empty = Stored
    BY <1>6 DEF Choice
  <2> QED BY <1>3, <1>4, <1>6, <2>1, <2>2
<1>7. CASE ~useBin /\ json # None /\ Goto(p, "decode") /\ mem' = [mem EXCEPT ![p].jsonFI = json.stamp]
  <2> DEFINE m == [mem[p] EXCEPT !.jsonFI = json.stamp]
  <2>1. json.stamp \in Stamp
    BY <1>1, <1>7 DEF TypeOK
  <2>2. m \in Memory /\ m.jsonFI = json.stamp /\ m.binFI = mem[p].binFI
    BY <1>1, <2>1 DEF Memory
  <2>3. Local(p) /\ pc'[p] = "decode" /\ mem'[p] = m
    BY <1>1, <1>2, <1>7, <2>2, GoesLocal DEF Phase
  <2>4. bin # None /\ bin.stamp = mem[p].binFI => ~BinCurrent(bin.src, bin.stamp, json.stamp)
    <3>1. bin # None /\ bin.stamp = mem[p].binFI => mem[p].got = Content(bin)
      BY <1>1, <1>2 DEF Noted, StampOf
    <3>2. bin # None => /\ Content(bin) # None /\ Content(bin).src = bin.src
      BY <1>1, NoneAssumption DEF Content, Decoded, TypeOK, BinFile
    <3> QED BY <1>7, <3>1, <3>2
  <2>5. Noted(p)'
    BY <1>2, <2>1, <2>2, <2>3, <2>4, SameFiles DEF Noted, Decoding, Migrating, Writing, BinCurrent
  <2>6. Choice(p) => Stored = json.vecs
    BY <1>7 DEF Choice
  <2>7. Loading(p)' \/ ~intact \/ p \in stale
    BY <1>2, <1>4, <1>7, <2>2, <2>3, <2>6, SameFiles DEF Loading, Decoding, Migrating, Writing
  <2>8. intact /\ Removing => Aware(p)'
    <3>1. intact /\ Removing => Settled /\ Aware(p)
      BY DEF StoreInv
    <3>2. Settled /\ Aware(p) => mem[p].binFI # bin.stamp
      BY <1>7, <2>4 DEF Settled, BinCurrent
    <3>3. p \notin stale => (Aware(p) => mem[p].binFI = bin.stamp)
      BY <1>1 DEF Aware, Reading
    <3> QED BY <1>2, <2>2, <2>3, <3>1, <3>2, <3>3, SameFiles DEF Aware, Reading, Decoding, Migrating
  <2>9. Own(p)
    BY <1>2, <2>3, <2>5, <2>7, <2>8 DEF Own, Migration, Ready, Migrating
  <2> QED BY <2>3, <2>9, LocalStep
<1> QED BY <1>5, <1>6, <1>7 DEF StatJson

(* ... the JSON.                                                           *)
LEMMA DecodeStep ==
  ASSUME StoreInv, NEW p \in Proc, Decode(p)
  PROVE  StoreInv'
<1> DEFINE d == IF json = None THEN Empty ELSE json.vecs
           m == [mem[p] EXCEPT !.idx = d]
<1>1. TypeOK /\ mem[p] \in Memory /\ pc[p] = "decode" /\ calls' \in Nat
  BY DEF StoreInv, TypeOK, Decode, At, past
<1>2. Noted(p) /\ UNCHANGED files /\ UNCHANGED <<foreign, stale, overtaken, intact>>
  BY DEF StoreInv, Decode, past
<1>3. d \in Maps
  BY <1>1, Kinds
<1>4. m \in Memory /\ m.idx = d /\ m.jsonFI = mem[p].jsonFI /\ m.binFI = mem[p].binFI
  BY <1>1, <1>3 DEF Memory
<1>5. Local(p) /\ pc'[p] = "guardJson" /\ mem'[p] = m
  BY <1>1, <1>2, <1>4, GoesLocal DEF Phase, Decode
<1>6. Noted(p)'
  BY <1>1, <1>2, <1>4, <1>5, SameFiles DEF Noted, Decoding, Migrating, Writing, BinCurrent
<1>7. Loading(p) => Loading(p)'
  BY <1>1, <1>2, <1>4, <1>5, SameFiles DEF Loading, Decoding, Migrating, Writing
<1>8. Aware(p) => Aware(p)'
  BY <1>1, <1>2, <1>4, <1>5, SameFiles DEF Aware, Reading, Decoding, Migrating
<1>9. Own(p)
  BY <1>2, <1>5, <1>6, <1>7, <1>8 DEF Own, Migration, Ready, Migrating, StoreInv
<1> QED BY <1>5, <1>9, LocalStep

(* A process that has given up its migration has what it has decoded.      *)
LEMMA GivesUp ==
  ASSUME StoreInv, NEW p \in Proc, pc[p] \in {"guardJson", "guardBin"} \cup Migrating,
         Goto(p, "loaded"), UNCHANGED <<files, mem, past>>
  PROVE  StoreInv'
<1>1. TypeOK /\ Noted(p)
  BY DEF StoreInv
<1>2. Local(p) /\ pc'[p] = "loaded" /\ mem'[p] = mem[p]
  BY <1>1, GoesSame DEF Phase
<1>3. Loading(p) => mem[p].idx = Stored
  BY <1>1 DEF Loading, Noted, Decoding, Migrating
<1>4. Own(p)
  BY <1>2, <1>3, SameFiles
     DEF Own, Noted, Migration, Ready, Loading, Aware, Reading, Decoding, Migrating, Writing, StoreInv, past
<1> QED BY <1>2, <1>4, LocalStep

(* The first half of the guard of a migration ...                          *)
LEMMA GuardJsonStep ==
  ASSUME StoreInv, NEW p \in Proc, GuardJson(p)
  PROVE  StoreInv'
<1>1. TypeOK /\ Noted(p) /\ pc[p] = "guardJson" /\ UNCHANGED <<files, mem, past>>
  BY DEF StoreInv, GuardJson, At
<1>2. CASE StampOf(json) # mem[p].jsonFI
  BY <1>1, <1>2, GivesUp DEF GuardJson
<1>3. CASE StampOf(json) = mem[p].jsonFI
  <2>1. Local(p) /\ pc'[p] = "guardBin" /\ mem'[p] = mem[p]
    BY <1>1, <1>3, GoesSame DEF Phase, GuardJson
  <2>2. json # None /\ json.stamp = mem[p].jsonFI
    BY <1>1, <1>3, NoneAssumption DEF StampOf, Noted, Decoding, Stamp, TypeOK
  <2>3. StampOf(bin) = mem[p].binFI => Stored = json.vecs
    BY <1>1, <2>2 DEF Stored, StampOf, Noted, Decoding
  <2>4. Migration(p)'
    BY <1>1, <2>1, <2>2, <2>3, SameFiles DEF Migration, Ready, Migrating, StampOf
  <2>5. Noted(p)'
    BY <1>1, <2>1, SameFiles DEF Noted, Decoding, Migrating, Writing, BinCurrent
  <2>6. Loading(p) => Loading(p)'
    BY <1>1, <2>1, SameFiles DEF Loading, Decoding, Migrating, Writing
  <2>7. Aware(p) => Aware(p)'
    BY <1>1, <2>1, SameFiles DEF Aware, Reading, Decoding, Migrating, past
  <2>8. Own(p)
    BY <1>1, <2>1, <2>4, <2>5, <2>6, <2>7 DEF Own, StoreInv, past
  <2> QED BY <2>1, <2>8, LocalStep
<1> QED BY <1>2, <1>3

(* ... and the second, after which the JSON is what is stored.             *)
LEMMA GuardBinStep ==
  ASSUME StoreInv, NEW p \in Proc, GuardBin(p)
  PROVE  StoreInv'
<1>1. TypeOK /\ Noted(p) /\ pc[p] = "guardBin" /\ UNCHANGED <<files, mem, past>>
  BY DEF StoreInv, GuardBin, At
<1>2. CASE StampOf(bin) # mem[p].binFI
  BY <1>1, <1>2, GivesUp DEF GuardBin
<1>3. CASE StampOf(bin) = mem[p].binFI
  <2>1. Local(p) /\ pc'[p] = "publish" /\ mem'[p] = mem[p]
    BY <1>1, <1>3, GoesSame DEF Phase, GuardBin
  <2>2. Migration(p) => Migration(p)'
    BY <1>1, <1>3, <2>1, SameFiles DEF Migration, Ready, Migrating, StampOf
  <2>3. Noted(p)'
    BY <1>1, <2>1, SameFiles DEF Noted, Decoding, Migrating, Writing, BinCurrent
  <2>4. Loading(p) => Loading(p)'
    BY <1>1, <2>1, SameFiles DEF Loading, Decoding, Migrating, Writing
  <2>5. ~(intact /\ Removing)
    BY <1>1, <1>3 DEF StoreInv, Settled, Aware, Decoding, StampOf
  <2>6. Own(p)
    BY <1>1, <2>1, <2>2, <2>3, <2>4, <2>5 DEF Own, StoreInv, past
  <2> QED BY <2>1, <2>6, LocalStep
<1> QED BY <1>2, <1>3

(* Between the guard and the rename.                                       *)
LEMMA MigratingStep ==
  ASSUME StoreInv, NEW p \in Proc, pc[p] \in Migrating, NEW x \in Migrating, Goto(p, x),
         UNCHANGED <<files, mem, past>>
  PROVE  StoreInv'
<1>1. TypeOK /\ Noted(p)
  BY DEF StoreInv
<1>2. Local(p) /\ pc'[p] = x /\ mem'[p] = mem[p] /\ UNCHANGED <<overtaken, stale, intact>>
  BY <1>1, GoesSame DEF Phase, Migrating, past
<1>3. Noted(p)'
  BY <1>1, <1>2, SameFiles DEF Noted, Decoding, Migrating, Writing
<1>4. Migration(p) => Migration(p)'
  BY <1>2, SameFiles DEF Migration, Ready, Migrating
<1>5. Loading(p) => Loading(p)'
  BY <1>2, SameFiles DEF Loading, Decoding, Migrating, Writing
<1>6. Aware(p) => Aware(p)'
  BY <1>2, SameFiles DEF Aware, Reading, Decoding, Migrating
<1>7. Own(p)
  BY <1>2, <1>3, <1>4, <1>5, <1>6 DEF Own, StoreInv
<1> QED BY <1>2, <1>7, LocalStep

(* LoadVectors has returned.                                               *)
LEMMA UseStep ==
  ASSUME StoreInv, NEW p \in Proc, Use(p)
  PROVE  StoreInv'
<1> DEFINE c == mem[p].call
           nothing == c # Read => (c.vec = None /\ mem[p].idx[c.id] = None)
           m == [mem[p] EXCEPT !.idx = [@ EXCEPT ![c.id] = c.vec]]
<1>1. TypeOK /\ mem[p] \in Memory /\ pc[p] = "loaded" /\ UNCHANGED <<files, calls, foreign, intact>>
  BY DEF StoreInv, TypeOK, Use, At
<1>2. CASE nothing /\ End(p)
  BY <1>1, <1>2, EndStep
<1>3. CASE /\ ~nothing /\ Goto(p, "stampJson") /\ UNCHANGED <<stale, overtaken>>
           /\ mem' = [mem EXCEPT ![p].idx[c.id] = c.vec]
  <2>1. c \in [id : Id, vec : Vec \cup {None}] /\ mem[p].idx \in Maps
    BY <1>1, <1>3, KnownTypes DEF Call
  <2>2. m \in Memory /\ m.call = c /\ m.idx = [mem[p].idx EXCEPT ![c.id] = c.vec]
    BY <1>1, <2>1 DEF Memory, Maps
  <2>3. Local(p) /\ pc'[p] = "stampJson" /\ mem'[p] = m
    <3>1. mem' = [mem EXCEPT ![p] = m]
      BY <1>3
    <3>2. calls' \in Nat /\ UNCHANGED <<files, foreign, stale, overtaken, intact>>
      BY <1>1, <1>3 DEF TypeOK
    <3>3. "stampJson" \in Phase \ {"idle", "remove"}
      BY DEF Phase
    <3>4. m \in Memory /\ TypeOK /\ Goto(p, "stampJson")
      BY <1>1, <1>3, <2>2
    <3> HIDE DEF m
    <3> QED BY <3>1, <3>2, <3>3, <3>4, GoesLocal
  <2>4. Noted(p)'
    BY <2>1, <2>2, <2>3 DEF Noted, Decoding, Migrating, Writing
  <2>5. Loading(p) => Loading(p)'
    BY <1>1, <2>2, <2>3, SameFiles DEF Loading, Decoding, Migrating, Writing
  <2>6. Aware(p)' /\ Migration(p)'
    BY <2>3 DEF Aware, Migration, Ready, Reading, Decoding, Migrating
  <2>7. Own(p)
    BY <1>3, <2>4, <2>5, <2>6 DEF Own, StoreInv
  <2> QED BY <2>3, <2>7, LocalStep
<1> QED BY <1>2, <1>3 DEF Use

(* SaveVectors has looked at the JSON.                                     *)
LEMMA StampJsonStep ==
  ASSUME StoreInv, NEW p \in Proc, StampJson(p)
  PROVE  StoreInv'
<1> DEFINE s == IF json = None THEN 0 ELSE json.stamp
           m == [mem[p] EXCEPT !.src = s]
<1>1. TypeOK /\ mem[p] \in Memory /\ pc[p] = "stampJson" /\ calls' \in Nat /\ Noted(p)
  BY DEF StoreInv, TypeOK, StampJson, At, past
<1>2. UNCHANGED files /\ UNCHANGED <<foreign, stale, overtaken, intact>>
  BY DEF StampJson, past
<1>3. s \in Stamp
  BY <1>1 DEF TypeOK, Stamp
<1>4. m \in Memory /\ m.src = s /\ m.call = mem[p].call /\ m.idx = mem[p].idx
  BY <1>1, <1>3 DEF Memory
<1>5. Local(p) /\ pc'[p] = "save" /\ mem'[p] = m
  BY <1>1, <1>2, <1>4, GoesLocal DEF Phase, StampJson
<1>6. Noted(p)'
  BY <1>1, <1>4, <1>5 DEF Noted, Decoding, Migrating, Writing
<1>7. Loading(p) => Loading(p)'
  BY <1>1, <1>2, <1>4, <1>5, SameFiles DEF Loading, Decoding, Migrating, Writing
<1>8. Aware(p)' /\ Migration(p)'
  BY <1>5 DEF Aware, Migration, Ready, Reading, Decoding, Migrating
<1>9. Own(p)
  BY <1>2, <1>6, <1>7, <1>8 DEF Own, StoreInv
<1> QED BY <1>5, <1>9, LocalStep

(***************************************************************************)
(* Steps that change the files.                                            *)
(***************************************************************************)
(* A new vectors.bin has a stamp that nobody has noted.                    *)
LEMMA NewBin ==
  ASSUME StoreInv, NEW p \in Proc, clock' = clock + 1, bin' # None, bin'.src # V1,
         bin'.stamp = clock + 1, json' = json, mem' = mem, pc' \in [Proc -> Phase],
         \A q \in Proc \ {p} : pc'[q] = pc[q],
         pc'[p] \in {"loaded", "remove"}
  PROVE  \A q \in Proc : /\ Noted(q)'
                         /\ pc'[q] \in Reading => mem'[q].binFI # bin'.stamp
                         /\ StampOf(bin') # mem'[q].binFI
<1>1. ASSUME NEW q \in Proc PROVE mem'[q].binFI # bin'.stamp
  BY KnownTypes, Kinds, NoneAssumption DEF StoreInv
<1>2. StampOf(bin') = bin'.stamp /\ Stamp \subseteq Stamp'
  BY Kinds DEF StampOf, Stamp, StoreInv
<1>3. Noted(p)'
  BY DEF Noted, Decoding, Migrating, Writing
<1>4. ASSUME NEW q \in Proc, q # p PROVE Noted(q)'
  <2>1. Noted(q) /\ pc'[q] = pc[q] /\ mem'[q] = mem[q]
    BY <1>4 DEF StoreInv
  <2> QED BY <1>1, <1>2, <2>1 DEF Noted
<1> QED BY <1>1, <1>2, <1>3, <1>4

(* A migration lands: what is stored stays.                                *)
LEMMA Published ==
  ASSUME StoreInv, NEW p \in Proc, pc[p] \in Migrating, Goto(p, "loaded"),
         bin' = Migrated(p), clock' = clock + 1, intact' \in BOOLEAN,
         intact' => intact /\ p \notin overtaken,
         UNCHANGED <<json, mem, calls, foreign, stale, overtaken>>
  PROVE  StoreInv' /\ (intact' => Stored' = Stored)
<1>1. TypeOK /\ Noted(p) /\ HistoryInv
  BY DEF StoreInv
<1>2. mem[p].jsonFI \in Stamp /\ mem[p].idx \in Maps /\ clock \in Nat
  BY <1>1, KnownTypes, Kinds DEF Noted, Decoding, Migrating
<1>3. /\ bin' \in BinFile /\ bin'.vecs = mem[p].idx /\ bin'.src = mem[p].jsonFI
      /\ bin'.stamp = clock + 1 /\ bin' # None /\ bin'.src \in Nat /\ bin'.src # V1
  BY <1>2, NoneAssumption DEF Migrated, BinFile, Stamp
<1>4. pc' \in [Proc -> Phase] /\ pc'[p] = "loaded" /\ \A q \in Proc \ {p} : pc'[q] = pc[q]
  BY <1>1 DEF Goto, TypeOK, Phase
<1>5. TypeOK'
  <2>1. clock' \in Nat /\ clock <= clock' /\ bin'.src \in Stamp' /\ bin'.stamp \in Stamp'
    BY <1>2, <1>3 DEF Stamp
  <2> QED BY <1>1, <1>3, <1>4, <2>1, MemoryGrows DEF TypeOK
<1>6. HistoryInv'
  BY <1>1, <1>3, <1>4 DEF HistoryInv, TypeOK
<1>7. \A q \in Proc : Noted(q)' /\ StampOf(bin') # mem'[q].binFI
  BY <1>3, <1>4, NewBin
<1>8. ASSUME intact'
      PROVE  /\ json # None /\ Stored = json.vecs /\ Stored' = Stored
             /\ json.stamp = mem[p].jsonFI => mem[p].idx = json.vecs
  <2>1. Migration(p) /\ Ready(p)
    BY <1>8 DEF StoreInv, Ready
  <2>2. json # None /\ Stored = json.vecs
    BY <2>1 DEF Migration
  <2>3. json.stamp = mem[p].jsonFI => mem[p].idx = json.vecs
    BY <1>1, <2>2 DEF Noted
  <2>4. Stored' = IF mem[p].jsonFI = json.stamp THEN mem[p].idx ELSE json.vecs
    BY <1>3, <2>2 DEF Stored, BinCurrent
  <2> QED BY <2>2, <2>3, <2>4
<1>9. ASSUME intact', NEW q \in Proc PROVE Migration(q)'
  <2>1. q # p => (Ready(q)' => Ready(q))
    BY <1>4, <1>7 DEF Ready, Migrating
  <2>2. ~Ready(p)'
    BY <1>4 DEF Ready, Migrating
  <2> QED BY <1>8, <1>9, <2>1, <2>2 DEF Migration
<1>10. ASSUME intact', NEW q \in Proc \ stale PROVE Loading(q)'
  <2>1. Loading(q)
    BY <1>10 DEF StoreInv
  <2>2. CASE q = p
    BY <1>4, <1>8, <1>10, <2>1, <2>2 DEF Loading, Decoding, Migrating, Writing
  <2>3. CASE q # p
    BY <1>4, <1>8, <1>10, <2>1, <2>3 DEF Loading, Choice, BinCurrent
  <2> QED BY <2>2, <2>3
<1>11. ~(intact' /\ Removing')
  <2>1. Removing' => Removing
    BY <1>4 DEF Removing
  <2> QED BY <2>1 DEF StoreInv, Aware
<1> QED BY <1>5, <1>6, <1>7, <1>8, <1>9, <1>10, <1>11 DEF StoreInv

(* A write lands: what is stored is what it has made of what it loaded.    *)
LEMMA SaveStep ==
  ASSUME StoreInv, NEW p \in Proc, Save(p)
  PROVE  /\ StoreInv'
         /\ intact' => /\ mem[p].call \in [id : Id, vec : Vec \cup {None}]
                       /\ Stored' = [Stored EXCEPT ![mem[p].call.id] = mem[p].call.vec]
<1>1. TypeOK /\ Noted(p) /\ HistoryInv /\ pc[p] = "save"
  BY DEF StoreInv, Save, At
<1>2. mem[p].src \in Nat /\ mem[p].src <= clock /\ mem[p].idx \in Maps /\ clock \in Nat
  BY <1>1, KnownTypes, Kinds
<1>3. /\ bin' \in BinFile /\ bin'.vecs = mem[p].idx /\ bin'.src = mem[p].src
      /\ bin'.stamp = clock + 1 /\ bin' # None /\ bin'.src # V1
  BY <1>2, NoneAssumption DEF Save, BinFile
<1>4. pc' \in [Proc -> Phase] /\ pc'[p] = "remove" /\ \A q \in Proc \ {p} : pc'[q] = pc[q]
  BY <1>1 DEF Save, Goto, TypeOK, Phase
<1>5. /\ clock' = clock + 1 /\ UNCHANGED <<json, mem, calls, foreign>>
      /\ intact' \in BOOLEAN
      /\ intact' => intact /\ p \notin stale
      /\ stale' = stale \cup {q \in Proc \ {p} : pc[q] # "idle"}
      /\ overtaken' = overtaken \cup {q \in Proc \ {p} : pc[q] \in Migrating}
  BY <1>1 DEF Save, TypeOK, Migrating
<1>6. TypeOK'
  <2>1. clock' \in Nat /\ clock <= clock' /\ bin'.src \in Stamp' /\ bin'.stamp \in Stamp'
    BY <1>2, <1>3, <1>5 DEF Stamp
  <2>2. stale' \subseteq Proc /\ overtaken' \subseteq Proc
    BY <1>1, <1>5 DEF TypeOK
  <2>3. mem' \in [Proc -> Memory'] /\ Stamp \subseteq Stamp'
    BY <1>1, <1>5, <2>1, MemoryGrows
  <2>4. json' = json /\ calls' = calls /\ foreign' = foreign
    BY <1>5
  <2>5. json' \in JsonFile \cup {None} /\ (json' # None => json'.stamp \in Stamp')
    BY <1>1, <2>3, <2>4 DEF TypeOK
  <2>6. calls' \in Nat /\ foreign' \in Nat
    BY <1>1, <2>4 DEF TypeOK
  <2>7. intact' \in BOOLEAN /\ pc' \in [Proc -> Phase]
    BY <1>4, <1>5
  <2> QED BY <1>3, <2>1, <2>2, <2>3, <2>5, <2>6, <2>7 DEF TypeOK
<1>7. HistoryInv'
  BY <1>1, <1>3, <1>4, <1>5 DEF HistoryInv, Migrating, TypeOK
<1>8. \A q \in Proc : /\ Noted(q)' /\ StampOf(bin') # mem'[q].binFI
                      /\ pc'[q] \in Reading => mem'[q].binFI # bin'.stamp
  BY <1>3, <1>4, <1>5, NewBin
<1>9. ASSUME intact'
      PROVE  /\ mem[p].idx = [Stored EXCEPT ![mem[p].call.id] = mem[p].call.vec]
             /\ json = None \/ mem[p].src = json.stamp
             /\ Stored' = mem[p].idx
  <2>1. Loading(p)
    BY <1>5, <1>9 DEF StoreInv
  <2>2. json = None \/ mem[p].src = json.stamp
    BY <1>1, <2>1 DEF Loading
  <2>3. Stored' = mem[p].idx
    BY <1>3, <1>5, <2>2 DEF Stored, BinCurrent
  <2> QED BY <1>1, <2>1, <2>2, <2>3 DEF Loading, Writing
<1>10. ASSUME NEW q \in Proc PROVE Migration(q)'
  BY <1>4, <1>5, <1>8 DEF Migration, Ready, Migrating
<1>11. ASSUME NEW q \in Proc \ stale' PROVE Loading(q)'
  <2>1. pc'[q] \in {"idle", "remove"}
    BY <1>4, <1>5, <1>11
  <2> QED BY <2>1 DEF Loading, Decoding, Migrating, Writing
<1>12. ASSUME intact' PROVE Settled'
  BY <1>3, <1>5, <1>9, <1>12 DEF Settled
<1>13. ASSUME NEW q \in Proc PROVE Aware(q)'
  BY <1>4, <1>5, <1>8 DEF Aware, Reading, Decoding, Migrating
<1> QED BY <1>1, <1>6, <1>7, <1>8, <1>9, <1>10, <1>11, <1>12, <1>13 DEF StoreInv, Noted, Writing

(* A write removes the JSON that its vectors.bin accounts for.             *)
LEMMA RemoveStep ==
  ASSUME StoreInv, NEW p \in Proc, RemoveJson(p)
  PROVE  StoreInv' /\ (intact' => Stored' = Stored)
<1>1. TypeOK /\ HistoryInv /\ pc[p] = "remove"
  BY DEF StoreInv, RemoveJson, At
<1>2. /\ pc' \in [Proc -> Phase] /\ pc'[p] = "idle"
      /\ \A q \in Proc \ {p} : pc'[q] = pc[q] /\ mem'[q] = mem[q]
  BY <1>1 DEF RemoveJson, End, TypeOK, Phase
<1>3. /\ UNCHANGED <<bin, clock, calls, foreign>> /\ json' \in {None, json}
      /\ stale' = stale \ {p} /\ overtaken' = overtaken \ {p}
      /\ intact' = (intact /\ p \notin stale)
  BY DEF RemoveJson, End
<1>4. TypeOK'
  <2>1. Idle \in Memory
    BY <1>1 DEF Idle, Memory, Call, Empty, Maps, Stamp, TypeOK
  <2>2. mem' \in [Proc -> Memory] /\ Memory' = Memory /\ Stamp' = Stamp
    BY <1>1, <1>3, <2>1 DEF RemoveJson, End, TypeOK, Memory, Stamp
  <2>3. json' \in JsonFile \cup {None} /\ (json' # None => json'.stamp \in Stamp')
    BY <1>1, <1>3, <2>2 DEF TypeOK
  <2>4. intact' \in BOOLEAN
    BY <1>1, <1>3 DEF TypeOK
  <2> QED BY <1>1, <1>2, <1>3, <2>2, <2>3, <2>4 DEF TypeOK
<1>5. HistoryInv'
  BY <1>1, <1>2, <1>3 DEF HistoryInv, TypeOK
<1>6. ASSUME NEW q \in Proc PROVE Noted(q)'
  <2>1. CASE q = p
    BY <1>2, <2>1 DEF Noted, Decoding, Migrating, Writing
  <2>2. CASE q # p
    <3>1. Noted(q) /\ Stamp' = Stamp
      BY <1>3 DEF StoreInv, Stamp
    <3> QED BY <1>2, <1>3, <2>2, <3>1 DEF Noted, StampOf, Content, BinCurrent
  <2> QED BY <2>1, <2>2
<1>7. ASSUME intact' PROVE Settled /\ intact /\ p \notin stale /\ \A q \in Proc : Aware(q)
  BY <1>1, <1>3, <1>7 DEF StoreInv, Removing
<1>8. ASSUME intact' PROVE Settled' /\ Stored = bin.vecs /\ Stored' = Stored
  BY <1>3, <1>7, <1>8 DEF Settled, Stored, BinCurrent
<1>9. ASSUME intact', NEW q \in Proc PROVE ~Ready(q)'
  <2>1. q # p => (Ready(q)' => Ready(q))
    BY <1>2, <1>3 DEF Ready, StampOf
  <2>2. ~Ready(q)
    BY <1>7, <1>9 DEF Aware, Ready, Settled, StampOf, Decoding
  <2>3. q = p => ~Ready(q)'
    BY <1>2 DEF Ready, Migrating
  <2> QED BY <2>1, <2>2, <2>3
<1>10. ASSUME intact', NEW q \in Proc \ stale' PROVE Loading(q)'
  <2>1. CASE q = p
    BY <1>2, <2>1 DEF Loading, Decoding, Migrating, Writing
  <2>2. CASE q # p
    <3>1. /\ q \notin stale /\ pc'[q] = pc[q] /\ mem'[q] = mem[q]
          /\ Loading(q) /\ Noted(q) /\ Aware(q)
      BY <1>2, <1>3, <1>7, <1>10, <2>2 DEF StoreInv
    <3>2. pc[q] \notin Decoding \cup Migrating
      BY <1>1, <3>1 DEF Aware, Reading, Decoding, HistoryInv
    <3>3. pc[q] = "statJson" => Choice(q)'
      <4>1. SUFFICES ASSUME pc[q] = "statJson" PROVE Choice(q)'
        OBVIOUS
      <4>2. mem[q].binFI = bin.stamp /\ bin # None
        BY <1>7, <1>10, <3>1, <4>1 DEF Aware, Reading, Settled
      <4>3. mem[q].got = Content(bin)
        BY <3>1, <4>1, <4>2 DEF Noted, StampOf
      <4>4. Content(bin) # None /\ Content(bin).vecs = bin.vecs /\ Content(bin).src = bin.src
        BY <1>1, <4>2, NoneAssumption DEF Content, Decoded, TypeOK, BinFile
      <4>5. json' # None => BinCurrent(bin.src, bin.stamp, json'.stamp)
        BY <1>3, <1>7, <1>10 DEF Settled, BinCurrent
      <4> QED BY <1>8, <1>10, <3>1, <4>2, <4>3, <4>4, <4>5 DEF Choice, BinCurrent
    <3>4. pc[q] = "save" => json' = None \/ mem[q].src = json'.stamp
      BY <1>3, <3>1 DEF Loading
    <3> QED BY <1>8, <1>10, <3>1, <3>2, <3>3, <3>4 DEF Loading, Writing
  <2> QED BY <2>1, <2>2
<1>11. ASSUME intact', NEW q \in Proc PROVE Aware(q)'
  <2>1. Aware(q)
    BY <1>7, <1>11
  <2>2. q = p => Aware(q)'
    BY <1>2 DEF Aware, Reading, Decoding, Migrating
  <2> QED BY <1>2, <1>3, <2>1, <2>2 DEF Aware
<1> QED BY <1>4, <1>5, <1>6, <1>8, <1>9, <1>10, <1>11 DEF StoreInv, Migration

(* An older kb replaces the JSON: it is what is stored then.               *)
LEMMA OlderKbStep ==
  ASSUME StoreInv, NEW i \in Id, NEW v \in Vec, OlderKb(i, v)
  PROVE  StoreInv'
<1> DEFINE old == IF json = None THEN Empty ELSE json.vecs
<1>1. TypeOK /\ HistoryInv /\ old \in Maps /\ clock \in Nat
  BY Kinds DEF StoreInv
<1>2. /\ UNCHANGED <<bin, pc, mem, calls, overtaken, intact>>
      /\ clock' = clock + 1 /\ foreign' = foreign + 1
      /\ stale' = {q \in Proc : pc[q] # "idle"}
  BY DEF OlderKb
<1>3. json' \in JsonFile /\ json'.stamp = clock + 1 /\ json' # None
  <2>1. [old EXCEPT ![i] = v] \in Maps
    BY <1>1 DEF Maps
  <2>2. json' = [vecs |-> [old EXCEPT ![i] = v], stamp |-> clock + 1]
    BY DEF OlderKb
  <2> QED BY <1>1, <2>1, <2>2, NoneAssumption DEF JsonFile
<1>4. clock' \in Nat /\ Stamp \subseteq Stamp' /\ mem' \in [Proc -> Memory'] /\ json'.stamp \in Stamp'
  BY <1>1, <1>2, <1>3, MemoryGrows DEF Stamp
<1>5. TypeOK'
  <2>1. bin' # None => bin'.stamp \in Stamp' /\ bin'.src \in Stamp' \cup {V1}
    BY <1>1, <1>2, <1>4 DEF TypeOK
  <2>2. calls' \in Nat /\ foreign' \in Nat /\ intact' \in BOOLEAN
    BY <1>1, <1>2 DEF TypeOK
  <2> QED BY <1>1, <1>2, <1>3, <1>4, <2>1, <2>2 DEF TypeOK
<1>6. HistoryInv'
  BY <1>1, <1>2 DEF HistoryInv, TypeOK
<1>7. ASSUME NEW q \in Proc PROVE Noted(q)'
  <2>1. Noted(q)
    BY DEF StoreInv
  <2>2. pc[q] \in Decoding \cup Migrating => mem[q].jsonFI \in Stamp /\ mem[q].jsonFI # clock + 1
    BY <1>1, <2>1 DEF Noted, Stamp
  <2> QED BY <1>2, <1>3, <1>4, <2>1, <2>2 DEF Noted, StampOf, Content, BinCurrent, Decoding
<1>8. Stored' = json'.vecs
  <2>1. bin # None => ~BinCurrent(bin.src, bin.stamp, clock + 1)
    BY <1>1, Kinds, NoneAssumption DEF BinCurrent
  <2> QED BY <1>2, <1>3, <2>1 DEF Stored, BinCurrent
<1>9. ASSUME NEW q \in Proc PROVE Migration(q)'
  BY <1>3, <1>8 DEF Migration
<1>10. ASSUME NEW q \in Proc \ stale' PROVE Loading(q)' /\ pc'[q] # "remove"
  <2>1. pc'[q] = "idle"
    BY <1>2, <1>10
  <2> QED BY <2>1 DEF Loading, Decoding, Migrating, Writing
<1> QED BY <1>5, <1>6, <1>7, <1>9, <1>10 DEF StoreInv, Removing

(* os.Link: nobody who finds no vectors.bin has been overtaken.            *)
LEMMA LinkStep ==
  ASSUME StoreInv, NEW p \in Proc, Link(p)
  PROVE  StoreInv' /\ foreign' = foreign /\ (intact' => intact /\ Stored' = Stored)
<1>1. pc[p] \in Migrating /\ HistoryInv /\ TypeOK /\ UNCHANGED <<json, mem, past>>
  BY DEF StoreInv, Link, At, Migrating
<1>2. UNCHANGED <<calls, foreign, stale, overtaken, intact>> /\ Goto(p, "loaded")
  BY <1>1 DEF past, Link
<1>3. CASE bin = None /\ bin' = Migrated(p) /\ clock' = clock + 1
  <2>1. overtaken = {} /\ intact' \in BOOLEAN
    BY <1>1, <1>2, <1>3 DEF HistoryInv, TypeOK
  <2> QED BY <1>1, <1>2, <1>3, <2>1, Published
<1>4. CASE UNCHANGED <<bin, clock>>
  BY <1>1, <1>2, <1>4, GivesUp, SameFiles DEF files
<1> QED BY <1>3, <1>4 DEF Link

(* Every step but the landing of a write and an older kb leaves what is    *)
(* stored alone, unless a write has overlapped with another.               *)
Quiet(p) == \/ \E c \in Call : Start(p, c)
            \/ Load(p) \/ Use(p) \/ StampJson(p) \/ RemoveJson(p) \/ Crash(p)

LEMMA QuietStep ==
  ASSUME StoreInv, NEW p \in Proc, Quiet(p)
  PROVE  StoreInv' /\ foreign' = foreign /\ (intact' => intact /\ Stored' = Stored)
<1>1. TypeOK /\ Noted(p)
  BY DEF StoreInv
<1>2. ASSUME StoreInv', UNCHANGED <<files, foreign, intact>>
      PROVE  StoreInv' /\ foreign' = foreign /\ (intact' => intact /\ Stored' = Stored)
  BY <1>2, SameFiles
<1>3. ASSUME NEW c \in Call, Start(p, c) PROVE StoreInv' /\ UNCHANGED <<files, foreign, intact>>
  BY <1>3, StartStep DEF Start
<1>4. CASE StatBin(p) \/ ReadBin(p) \/ StatJson(p) \/ Decode(p)
  BY <1>2, <1>4, StatBinStep, ReadBinStep, StatJsonStep, DecodeStep
     DEF StatBin, ReadBin, StatJson, Decode, past
<1>5. CASE GuardJson(p) \/ GuardBin(p)
  BY <1>2, <1>5, GuardJsonStep, GuardBinStep DEF GuardJson, GuardBin, past
<1>6. CASE DecodeFails(p) \/ Crash(p)
  <2>1. pc[p] # "idle" /\ End(p) /\ UNCHANGED <<files, calls, foreign, intact>>
    BY <1>6 DEF DecodeFails, Crash, At
  <2> QED BY <1>2, <2>1, EndStep
<1>7. CASE MigrationFails(p)
  <2>1. /\ pc[p] \in {"guardJson", "guardBin"} \cup Migrating /\ Goto(p, "loaded")
        /\ UNCHANGED <<files, mem, past>>
    BY <1>7 DEF MigrationFails, Migrating
  <2> QED BY <1>2, <2>1, GivesUp DEF past
<1>8. CASE Link(p)
  BY <1>8, LinkStep
<1>9. CASE NoLink(p) \/ Recheck(p)
  <2>1. pc[p] \in Migrating /\ UNCHANGED <<files, mem, past>>
    BY <1>9 DEF NoLink, Recheck, At, Migrating
  <2>2. Goto(p, "recheck") \/ Goto(p, "rename") \/ Goto(p, "loaded")
    BY <1>9 DEF NoLink, Recheck
  <2>3. StoreInv'
    BY <2>1, <2>2, MigratingStep, GivesUp DEF Migrating
  <2> QED BY <1>2, <2>1, <2>3 DEF past
<1>10. CASE RenameMigrated(p)
  <2>1. pc[p] \in Migrating /\ intact' \in BOOLEAN
    BY <1>1, <1>10 DEF RenameMigrated, At, Migrating, TypeOK
  <2> QED BY <1>1, <1>10, <2>1, Published DEF RenameMigrated
<1>11. CASE Use(p)
  BY <1>2, <1>11, UseStep DEF Use
<1>12. CASE StampJson(p)
  BY <1>2, <1>12, StampJsonStep DEF StampJson, past
<1>13. CASE RemoveJson(p)
  BY <1>13, RemoveStep DEF RemoveJson
<1> QED BY <1>2, <1>3, <1>4, <1>5, <1>6, <1>7, <1>8, <1>9, <1>10, <1>11, <1>12, <1>13
        DEF Quiet, Load

(***************************************************************************)
(* The invariant, and what follows from it.                                *)
(***************************************************************************)
(* No process has begun.                                                   *)
LEMMA InitInv == Init => StoreInv
<1> SUFFICES ASSUME Init PROVE StoreInv
  OBVIOUS
<1>1. /\ clock = 2 /\ calls = 0 /\ foreign = 0 /\ stale = {} /\ overtaken = {} /\ intact = TRUE
      /\ pc = [p \in Proc |-> "idle"] /\ mem = [p \in Proc |-> Idle]
  BY DEF Init
<1>2. /\ bin \in BinFile \cup {None} /\ json \in JsonFile \cup {None}
      /\ bin # None => bin.stamp \in 0..2 /\ bin.src \in (0..2) \cup {V1}
      /\ json # None => json.stamp \in 0..2
  <2>1. PICK m \in Maps :
          \/ bin = None /\ json = None
          \/ bin = None /\ json = [vecs |-> m, stamp |-> 1]
          \/ \E s \in 1..2 : /\ json = [vecs |-> m, stamp |-> s]
                             /\ bin = [vecs |-> Empty, src |-> V1, stamp |-> 3 - s]
          \/ bin = [vecs |-> m, src |-> 0, stamp |-> 1] /\ json = None
    BY DEF Init
  <2>2. Empty \in Maps
    BY DEF Empty, Maps
  <2>3. CASE bin = None /\ json = None
    BY <2>3
  <2>4. CASE bin = None /\ json = [vecs |-> m, stamp |-> 1]
    BY <2>4 DEF JsonFile
  <2>5. CASE \E s \in 1..2 : /\ json = [vecs |-> m, stamp |-> s]
                            /\ bin = [vecs |-> Empty, src |-> V1, stamp |-> 3 - s]
    BY <2>2, <2>5 DEF JsonFile, BinFile
  <2>6. CASE bin = [vecs |-> m, src |-> 0, stamp |-> 1] /\ json = None
    BY <2>6 DEF BinFile
  <2> QED BY <2>1, <2>3, <2>4, <2>5, <2>6
<1>3. Idle \in Memory
  BY <1>1 DEF Idle, Memory, Call, Empty, Maps, Stamp
<1>4. TypeOK
  BY <1>1, <1>2, <1>3 DEF TypeOK, Stamp, Phase
<1>5. \A p \in Proc : pc[p] = "idle"
  BY <1>1
<1> QED BY <1>1, <1>4, <1>5
        DEF StoreInv, HistoryInv, Noted, Migration, Ready, Loading, Removing,
            Reading, Decoding, Migrating, Writing

(* No step breaks it.                                                      *)
LEMMA NextInv == StoreInv /\ [Next]_vars => StoreInv'
<1> SUFFICES ASSUME StoreInv, [Next]_vars PROVE StoreInv'
  OBVIOUS
<1>1. ASSUME NEW p \in Proc, Quiet(p) PROVE StoreInv'
  BY <1>1, QuietStep
<1>2. ASSUME NEW p \in Proc, Save(p) PROVE StoreInv'
  BY <1>2, SaveStep
<1>3. ASSUME NEW i \in Id, NEW v \in Vec, OlderKb(i, v) PROVE StoreInv'
  BY <1>3, OlderKbStep
<1>4. CASE UNCHANGED vars
  BY <1>4 DEF vars, files, past, StoreInv, TypeOK, HistoryInv, Noted, Migration, Ready, Loading,
              Choice, Settled, Aware, Removing, Stored, StampOf, Content, BinCurrent, Stamp, Memory
<1> QED BY <1>1, <1>2, <1>3, <1>4 DEF Next, Quiet

(* The state is well-typed, and the invariant holds, always.               *)
THEOREM VectorInvariant == Spec => []StoreInv
BY InitInv, NextInv, PTL DEF Spec

(* The files, the memory of the processes and the histories are typed.     *)
THEOREM VectorTypes == Spec => []TypeOK
<1>1. StoreInv => TypeOK
  BY DEF StoreInv
<1> QED BY <1>1, VectorInvariant, PTL

(* LoadVectors returns the stored vectors, whoever else is migrating them. *)
THEOREM LoadExact == Spec => []LoadIsExact
<1>1. StoreInv => LoadIsExact
  BY DEF StoreInv, LoadIsExact, Loading
<1> QED BY <1>1, VectorInvariant, PTL

(* What is stored after a step is a map, too.                              *)
LEMMA StoredNext == TypeOK' => (Stored \in Maps)'
<1>1. TypeOK => Stored \in Maps
  BY Kinds
<1> QED BY <1>1, PTL

(* A step of the files is a step of the map, or leaves it as it is.        *)
LEMMA MapStep == StoreInv /\ StoreInv' /\ [Next]_vars => [Map!Next]_Map!vars
<1> SUFFICES ASSUME StoreInv, StoreInv', [Next]_vars PROVE [Map!Next]_Map!vars
  OBVIOUS
<1>1. Stored' \in Maps /\ intact \in BOOLEAN /\ intact' \in BOOLEAN
  <2>1. TypeOK /\ TypeOK'
    BY DEF StoreInv
  <2>2. Maps' = Maps
    BY DEF Maps
  <2> QED BY <2>1, <2>2, StoredNext DEF TypeOK
<1>2. ASSUME ~intact', foreign' = foreign PROVE Map!Overlap
  BY <1>1, <1>2 DEF Map!Overlap, Map!Maps, Maps
<1>3. ASSUME NEW p \in Proc, Quiet(p) PROVE [Map!Next]_Map!vars
  <2>1. foreign' = foreign /\ (intact' => intact /\ Stored' = Stored)
    BY <1>3, QuietStep
  <2> QED BY <1>1, <1>2, <2>1 DEF Map!Next, Map!vars
<1>4. ASSUME NEW p \in Proc, Save(p) PROVE Map!Next
  <2>1. /\ foreign' = foreign /\ (intact' => intact' = intact)
        /\ intact' => /\ mem[p].call \in [id : Id, vec : Vec \cup {None}]
                      /\ Stored' = [Stored EXCEPT ![mem[p].call.id] = mem[p].call.vec]
    BY <1>1, <1>4, SaveStep DEF Save
  <2>2. CASE ~intact'
    BY <1>2, <2>1, <2>2 DEF Map!Next
  <2>3. CASE intact' /\ mem[p].call.vec = None
    BY <2>1, <2>3 DEF Map!Next, Map!Drop
  <2>4. CASE intact' /\ mem[p].call.vec # None
    BY <2>1, <2>4 DEF Map!Next, Map!Put
  <2> QED BY <2>2, <2>3, <2>4
<1>5. ASSUME NEW i \in Id, NEW v \in Vec, OlderKb(i, v) PROVE Map!Next
  BY <1>1, <1>5 DEF OlderKb, Map!Next, Map!Replace, Map!Maps, Maps
<1>6. CASE UNCHANGED vars
  BY <1>6 DEF vars, files, past, Map!vars, Stored, StampOf, BinCurrent
<1> QED BY <1>3, <1>4, <1>5, <1>6 DEF Next, Quiet

(* vectors.bin and vectors.json, with every step of the commands on them,  *)
(* implement one map that changes one entry at a time.                     *)
THEOREM VectorsImplementMap == Spec => VectorsAreMap
<1>1. Init => Map!Init
  <2>1. Init => TypeOK
    BY InitInv DEF StoreInv
  <2>2. TypeOK => Stored \in Maps
    BY Kinds
  <2> QED BY <2>1, <2>2 DEF Init, Map!Init, Map!Maps, Maps
<1> QED BY <1>1, MapStep, VectorInvariant, PTL DEF Spec, VectorsAreMap, Map!Spec
=============================================================================
