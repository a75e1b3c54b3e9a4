--------------------------- MODULE KBStoreProofs ----------------------------
(***************************************************************************)
(* Theorems about KBStore, for any number of processes and commands and    *)
(* any ids, sources and contents: its types, and that, under ids that are  *)
(* told apart as DistinctIds says, no command retires what it has claimed  *)
(* and no source's article is overwritten by another's.                    *)
(***************************************************************************)
EXTENDS KBStoreInv, TLAPS, WellFoundedInduction, NaturalsInduction

(***************************************************************************)
(* Types.                                                                  *)
(***************************************************************************)
(* The least element of a set of ids is one of them (Keep). *)
LEMMA MinInSet ==
  ASSUME NEW S \in SUBSET Nat, S # {}
  PROVE  Min(S) \in S
<1>1. PICK x \in S : \A y \in S : ~ (<<y, x>> \in OpToRel(<, Nat))
  <2>1. IsWellFoundedOn(OpToRel(<, Nat), Nat)
    BY NatLessThanWellFounded
  <2> QED
    BY <2>1, WFMin, Zenon
<1>2. \A y \in S : ~ (y < x)
  BY <1>1, Zenon DEF OpToRel
<1>3. \A y \in S : x <= y
  BY <1>2
<1> QED
  BY <1>3 DEF Min

-----------------------------------------------------------------------------
(* The types of what the registry's operators return. *)

Wiki == [Id -> Article \cup {None}]

(* A registry read from any wiki is one. *)
LEMMA LoadRegistryType ==
  ASSUME NEW w \in Wiki
  PROVE  LoadRegistry(w) \in Registry
<1> USE NoneAssumption, OwnerAssumption
<1>1. \A i \in Id : w[i] # None => w[i] \in Article
  BY DEF Wiki
<1>2. \A i \in Id : w[i] # None =>
        w[i].src \in Owner /\ w[i].ver \in Nat /\ w[i].raw \in SUBSET Content
  BY <1>1 DEF Article
<1> DEFINE live == {i \in Id : w[i] # None}
           owner == [i \in Id |-> IF i \in live THEN w[i].src ELSE None]
           ver == [i \in Id |-> IF i \in live THEN w[i].ver ELSE 0]
           entries == {[src |-> w[i].src, id |-> i, raw |-> w[i].raw] :
                         i \in {j \in live : w[j].src # NoSource}}
<1>3. owner \in [Id -> Owner \cup {None}]
  BY <1>2
<1>4. ver \in [Id -> Nat]
  BY <1>2
<1>5. entries \subseteq Entry
  BY <1>2 DEF Entry, Owner
<1> HIDE DEF owner, ver, entries
<1>6. [owner |-> owner, ver |-> ver, entries |-> entries, retired |-> {}] \in Registry
  BY <1>3, <1>4, <1>5 DEF Registry
<1> QED
  BY <1>6 DEF LoadRegistry, owner, ver, entries

(* So is the empty one. *)
LEMMA EmptyRegistryType == EmptyRegistry \in Registry
BY DEF EmptyRegistry, Registry

(* Recording an article keeps a registry one. *)
LEMMA RecordType ==
  ASSUME NEW r \in Registry, NEW id \in Id, NEW src \in Owner, NEW raw \in SUBSET Content,
         NEW v \in Nat
  PROVE  Record(r, id, src, raw, v) \in Registry
<1>1. CASE src = NoSource
  BY <1>1 DEF Record, Registry
<1>2. CASE src # NoSource
  <2>1. [src |-> src, id |-> id, raw |-> raw] \in Entry
    BY <1>2 DEF Entry, Owner
  <2> QED
    BY <1>2, <2>1 DEF Record, Registry
<1> QED
  BY <1>1, <1>2

(* What a source holds are ids ... *)
LEMMA HeldType ==
  ASSUME NEW r \in Registry, NEW src, NEW raw, NEW label
  PROVE  Held(r, src, raw, label) \subseteq Id
BY DEF Held, Registry, Entry

(* ... of which a claim keeps one. *)
LEMMA KeepInHeld ==
  ASSUME NEW held \in SUBSET Id, held # {}, NEW proposed
  PROVE  Keep(held, proposed) \in held
BY IdAssumption, MinInSet DEF Keep

(* Retiring the others keeps a registry one. *)
LEMMA RetireTwinsType ==
  ASSUME NEW r \in Registry, NEW src, NEW keep, NEW ids
  PROVE  RetireTwins(r, src, keep, ids) \in Registry
<1> DEFINE twins == {e \in r.entries : e.src = src /\ e.id # keep /\ e.id \in ids}
<1>1. r.entries \subseteq Entry /\ r.retired \subseteq Id
  BY DEF Registry
<1>2. r.entries \ twins \subseteq Entry
  BY <1>1
<1>3. {e.id : e \in twins} \subseteq Id
  BY <1>1 DEF Entry
<1>4. r.retired \cup {e.id : e \in twins} \subseteq Id
  BY <1>1, <1>3
<1>5. RetireTwins(r, src, keep, ids) =
        [r EXCEPT !.entries = r.entries \ twins,
                  !.retired = r.retired \cup {e.id : e \in twins}]
  BY DEF RetireTwins
<1> HIDE DEF twins
<1> QED
  BY <1>2, <1>4, <1>5 DEF Registry

(* Every form of a disambiguated id is an id. *)
LEMMA CandidateType ==
  ASSUME NEW proposed \in Id, NEW src \in Source, NEW k \in 0..3
  PROVE  Candidate(proposed, src, k) \in Id
<1>1. k # 0 => k \in 1..3
  OBVIOUS
<1>2. k # 0 => Alt[proposed, src, k] \in Id
  BY <1>1, AltAssumption
<1> QED
  BY <1>2 DEF Candidate

(* Disambiguation ends at one of the candidates: one that is open, or the  *)
(* last.                                                                   *)
LEMMA DisambiguateResult ==
  ASSUME NEW r, NEW proposed \in Id, NEW src \in Source
  PROVE  \E k \in 0..3 : /\ Disambiguate(r, proposed, src) = Candidate(proposed, src, k)
                         /\ k = 3 \/ OpenTo(r, Candidate(proposed, src, k), src)
<1> DEFINE P(n) == /\ n = 3 \/ OpenTo(r, Candidate(proposed, src, n), src)
                   /\ \A m \in 0..3 : m < n => ~ OpenTo(r, Candidate(proposed, src, m), src)
           Open(n) == OpenTo(r, Candidate(proposed, src, n), src)
<1>1. \E n \in 0..3 : P(n)
  <2>1. CASE Open(0)
    BY <2>1
  <2>2. CASE ~ Open(0) /\ Open(1)
    BY <2>2
  <2>3. CASE ~ Open(0) /\ ~ Open(1) /\ Open(2)
    <3>1. P(2)
      BY <2>3
    <3> QED
      BY <3>1
  <2>4. CASE ~ Open(0) /\ ~ Open(1) /\ ~ Open(2)
    <3>1. P(3)
      BY <2>4
    <3> QED
      BY <3>1
  <2> QED
    BY <2>1, <2>2, <2>3, <2>4
<1> DEFINE k == CHOOSE n \in 0..3 : P(n)
<1>2. k \in 0..3 /\ P(k)
  BY <1>1
<1>3. Disambiguate(r, proposed, src) = Candidate(proposed, src, k)
  BY OwnerAssumption DEF Disambiguate
<1> QED
  BY <1>2, <1>3

(* So disambiguation returns an id, even when its last candidate is taken. *)
LEMMA DisambiguateType ==
  ASSUME NEW r, NEW proposed \in Id, NEW src \in Owner
  PROVE  Disambiguate(r, proposed, src) \in Id
<1>1. CASE src = NoSource
  BY <1>1 DEF Disambiguate
<1>2. CASE src \in Source
  BY <1>2, DisambiguateResult, CandidateType
<1> QED
  BY <1>1, <1>2 DEF Owner

Claimant == [id : Id, ver : Nat, reg : Registry]

(* A claim returns an id, a version and the next registry ... *)
LEMMA ClaimedType ==
  ASSUME NEW r \in Registry, NEW id \in Id, NEW src \in Owner, NEW raw \in SUBSET Content
  PROVE  Claimed(r, id, src, raw) \in Claimant
<1>1. r.ver[id] + 1 \in Nat
  BY DEF Registry
<1> QED
  BY <1>1, RecordType DEF Claimed, Claimant

(* ... when the id is chosen from a title ... *)
LEMMA ClaimType ==
  ASSUME NEW r \in Registry, NEW proposed \in Id, NEW src \in Owner,
         NEW raw \in SUBSET Content, NEW label \in BOOLEAN
  PROVE  Claim(r, proposed, src, raw, label) \in Claimant
<1> DEFINE held == IF src = NoSource THEN {} ELSE Held(r, src, raw, label)
           keep == Keep(held, proposed)
<1>1. held \subseteq Id
  BY HeldType
<1>2. CASE held # {}
  <2>1. keep \in Id
    BY <1>1, <1>2, KeepInHeld
  <2>2. Claimed(RetireTwins(r, src, keep, held), keep, src, raw) \in Claimant
    BY <2>1, RetireTwinsType, ClaimedType
  <2> QED
    BY <1>2, <2>2 DEF Claim
<1>3. CASE held = {}
  BY <1>3, DisambiguateType, ClaimedType DEF Claim
<1> QED
  BY <1>2, <1>3

(* ... when a glossary file declares it ... *)
LEMMA ClaimFixedType ==
  ASSUME NEW r \in Registry, NEW id \in Id, NEW src \in Owner, NEW raw \in SUBSET Content
  PROVE  ClaimFixed(r, id, src, raw) \in Claimant
BY RetireTwinsType, ClaimedType DEF ClaimFixed

(* ... and for either, when an item is saved. *)
LEMMA ResolveType ==
  ASSUME TypeOK, NEW p \in Proc, NEW r \in Item
  PROVE  Resolve(p, r) \in Claimant
<1>1. /\ reg[p] \in Registry
      /\ r.id \in Id /\ r.src \in Owner /\ r.raw \in SUBSET Content
      /\ r.label \in BOOLEAN /\ r.ver \in Nat
  BY DEF TypeOK, Item
<1>2. ClaimFixed(reg[p], r.id, r.src, r.raw) \in Claimant
  BY <1>1, ClaimFixedType
<1>3. Claim(reg[p], r.id, r.src, r.raw, r.label) \in Claimant
  BY <1>1, ClaimType
<1> QED
  BY <1>1, <1>2, <1>3 DEF Resolve, Claimant

(* Whatever a compiler or a parser makes of a job is an item to save. *)
LEMMA OutcomesType ==
  ASSUME TypeOK, NEW p \in Proc, NEW j \in Job
  PROVE  Outcomes(p, j) \subseteq Item
<1> USE FrontAssumption, SlugAssumption, NoneAssumption
<1> DEFINE item(id, ver, kind, fixed) ==
      [src |-> j.src, raw |-> {j.c}, id |-> id, ver |-> ver, kind |-> kind,
       fixed |-> fixed, hash |-> IF cmd[p] = "build" THEN j.c ELSE None,
       label |-> cmd[p] = "ingest"]
<1>1. j.src \in Owner /\ j.c \in Content
  BY DEF Job
<1>2. \A id \in Id, ver \in Nat, kind \in Kind, fixed \in BOOLEAN :
        item(id, ver, kind, fixed) \in Item
  BY <1>1 DEF Item
<1>3. Front[j.c].id # None => Front[j.c].id \in Id /\ Front[j.c].ver \in Nat
  BY <1>1
<1>4. \A i \in Slug : /\ item(i, 1, "glossary", FALSE) \in Item
                      /\ item(i, 1, "compiled", FALSE) \in Item
  BY <1>2 DEF Kind
<1>5. Front[j.c].id # None =>
        item(Front[j.c].id, Front[j.c].ver, "glossary", TRUE) \in Item
  BY <1>2, <1>3 DEF Kind
<1> QED
  BY <1>4, <1>5 DEF Outcomes

(* So is whatever an agent may hand back. *)
LEMMA HandedType ==
  ASSUME TypeOK
  PROVE  Handed \subseteq Item
<1>1. \A j \in offered, i \in Slug :
        [src |-> j.src, raw |-> {j.c}, id |-> i, ver |-> 1, kind |-> "compiled",
         hash |-> j.c, fixed |-> FALSE, label |-> FALSE] \in Item
  BY SlugAssumption DEF TypeOK, Item, Job, Kind
<1>2. \A s \in HandFed, c \in Content, i \in Slug :
        [src |-> s, raw |-> {c}, id |-> i, ver |-> 1, kind |-> "compiled",
         hash |-> None, fixed |-> FALSE, label |-> FALSE] \in Item
  BY SlugAssumption, TextAssumption DEF Item, Kind
<1> QED
  BY <1>1, <1>2 DEF Handed

(* What build and prepare do not skip are jobs. *)
LEMMA PendingType ==
  ASSUME TypeOK
  PROVE  Pending(cache) \subseteq Job
BY TreeAssumption DEF TypeOK, Pending, Job, Owner

-----------------------------------------------------------------------------
(* The effect on the types of the steps that several actions share. *)

(* A command that ends or dies leaves its process empty. *)
LEMMA ExitType ==
  ASSUME TypeOK, NEW p \in Proc, Exit(p), UNCHANGED outer,
         wiki' \in Wiki, cache' \in [Source -> Cached \cup {None}],
         index' \in [Id -> Nat], raws' \in SUBSET Content, vecs' \in SUBSET Id,
         suspect' \in SUBSET Files
  PROVE  TypeOK'
BY EmptyRegistryType DEF TypeOK, Exit, outer, NoCache, NoIndex, NoFile, Wiki

(* A command that starts has jobs, items and targets of their types. *)
LEMMA StartType ==
  ASSUME TypeOK, NEW p \in Proc,
         NEW c \in {"build", "accept", "ingest", "recompile", "delete"},
         NEW at \in {"compile", "save", "recompile", "dropRaws"},
         Start(p, c, at), UNCHANGED <<disk, outer>>,
         jobs' \in [Proc -> SUBSET Job],
         todo' \in [Proc -> SUBSET Item],
         targets' \in [Proc -> SUBSET Target],
         reg' \in [Proc -> Registry],
         snap' \in [Proc -> [Source -> Cached \cup {None}]],
         listing' \in [Proc -> [Id -> Nat]],
         seen' \in [Proc -> [TreeSource -> Content \cup {None}]]
  PROVE  TypeOK'
<1> USE DEF Start, Call, disk, outer
<1>1. pc' = [pc EXCEPT ![p] = at] /\ cmd' = [cmd EXCEPT ![p] = c]
  OBVIOUS
<1>2. commands' \in 0..MaxCommands
  BY BoundAssumption DEF TypeOK
<1>3. alone' \in BOOLEAN
  BY DEF Busy
<1>4. suspect' \subseteq Files
  BY DEF TypeOK
<1>5. UNCHANGED <<tree, wiki, cache, index, raws, vecs, offered>>
  OBVIOUS
<1> HIDE DEF Start, Call, disk, outer
<1> QED
  BY <1>1, <1>2, <1>3, <1>4, <1>5 DEF TypeOK

(* recompile makes an article of an article. *)
LEMMA RecompiledType ==
  ASSUME NEW art \in Article
  PROVE  Recompiled(art) \in Article
<1>1. /\ art = [src |-> art.src, raw |-> art.raw, ver |-> art.ver, kind |-> art.kind]
      /\ art.src \in Owner /\ art.raw \in SUBSET Content /\ art.ver \in Nat
  BY DEF Article
<1>2. "compiled" \in Kind /\ art.ver + 1 \in Nat
  BY <1>1 DEF Kind
<1>3. [art EXCEPT !.ver = art.ver + 1] \in Article
  BY <1>1, <1>2 DEF Article
<1>4. [[art EXCEPT !.ver = art.ver + 1] EXCEPT !.kind = "compiled"] \in Article
  BY <1>2, <1>3 DEF Article
<1> QED
  BY <1>4 DEF Recompiled

(* What recompile has loaded are articles: without it the record it writes *)
(* back has no type.                                                       *)
TargetsLoaded ==
  \A p \in Proc : pc[p] = "recompile" => \A t \in targets[p] : t.art # None

(* Only RecompileLoad fills the targets of a recompile, with articles.     *)
LEMMA LoadedStep == TypeOK /\ TargetsLoaded /\ [Next]_vars => TargetsLoaded'
<1> SUFFICES ASSUME TypeOK, TargetsLoaded, [Next]_vars
             PROVE  TargetsLoaded'
  OBVIOUS
<1> USE DEF local, past
<1>1. CASE UNCHANGED vars
  BY <1>1 DEF TargetsLoaded, vars
<1>2. CASE \E s \in TreeSource, c \in Content \cup {None} : Edit(s, c)
  BY <1>2 DEF TargetsLoaded, Edit
<1>3. ASSUME NEW p \in Proc, Build(p)
      PROVE  TargetsLoaded'
  BY <1>3 DEF TargetsLoaded, TypeOK, Build, BuildScan, Compile, CompileFails, IngestFails,
              LoadIds, Start, Step, Exit
<1>4. ASSUME NEW p \in Proc, Write(p)
      PROVE  TargetsLoaded'
  BY <1>4 DEF TargetsLoaded, TypeOK, Write, Save, Saved, Retire, RetireVecs, SaveCache, List,
              SaveIndex, Step, Exit
<1>5. ASSUME NEW p \in Proc, Redo(p)
      PROVE  TargetsLoaded'
  <2>1. ASSUME NEW ids \in SUBSET Id, RecompileLoad(p, ids)
        PROVE  TargetsLoaded'
    BY <2>1 DEF TargetsLoaded, TypeOK, RecompileLoad, Start
  <2>2. ASSUME NEW t \in targets[p], RecompileOne(p, t) \/ RecompileSkips(p, t)
        PROVE  TargetsLoaded'
    BY <2>2 DEF TargetsLoaded, TypeOK, RecompileOne, RecompileSkips
  <2>3. ASSUME RecompileEnds(p)
        PROVE  TargetsLoaded'
    BY <2>3 DEF TargetsLoaded, TypeOK, RecompileEnds, Step
  <2> QED
    BY <1>5, <2>1, <2>2, <2>3 DEF Redo
<1>6. ASSUME NEW p \in Proc, Delete(p)
      PROVE  TargetsLoaded'
  BY <1>6 DEF TargetsLoaded, TypeOK, Delete, DeleteLoad, DropRaws, Unlink, DeleteIndex,
              DeleteCache, DeleteVecs, Start, Step, Exit
<1>7. ASSUME NEW p \in Proc, NEW l \in Owner, NEW c \in Content, Ingest(p, l, c)
      PROVE  TargetsLoaded'
  BY <1>7 DEF TargetsLoaded, TypeOK, Ingest, Start
<1>8. ASSUME NEW p \in Proc, NEW a \in Handed, NEW b \in Handed, Accept(p, a, b)
      PROVE  TargetsLoaded'
  BY <1>8 DEF TargetsLoaded, TypeOK, Accept, Start
<1>9. ASSUME NEW p \in Proc, \/ Prepare(p) \/ Clear(p) \/ \E i \in Id : AttachVector(p, i)
      PROVE  TargetsLoaded'
  BY <1>9 DEF TargetsLoaded, Prepare, Clear, AttachVector
<1>10. ASSUME NEW p \in Proc, Crash(p) \/ CrashInWrite(p)
       PROVE  TargetsLoaded'
  BY <1>10 DEF TargetsLoaded, TypeOK, Crash, CrashInWrite, Exit
<1> QED
  BY <1>1, <1>2, <1>3, <1>4, <1>5, <1>6, <1>7, <1>8, <1>9, <1>10 DEF Next, Command

(* The types of everything are preserved by every step.                    *)
LEMMA TypeStep == TypeOK /\ TargetsLoaded /\ [Next]_vars => TypeOK'
<1> SUFFICES ASSUME TypeOK, TargetsLoaded, [Next]_vars
             PROVE  TypeOK'
  OBVIOUS
<1> USE DEF disk, outer, past, local
<1>1. CASE UNCHANGED vars
  BY <1>1 DEF TypeOK, vars
<1>2. CASE \E s \in TreeSource, c \in Content \cup {None} : Edit(s, c)
  BY <1>2 DEF TypeOK, Edit
<1>3. ASSUME NEW p \in Proc, BuildScan(p)
      PROVE  TypeOK'
  <2>1. Start(p, "build", "compile")
    BY <1>3 DEF BuildScan
  <2>2. jobs' \in [Proc -> SUBSET Job]
    BY <1>3, PendingType DEF BuildScan, TypeOK
  <2>3. seen' \in [Proc -> [TreeSource -> Content \cup {None}]]
    BY <1>3 DEF BuildScan, TypeOK
  <2>4. snap' \in [Proc -> [Source -> Cached \cup {None}]]
    BY <1>3 DEF BuildScan, TypeOK
  <2> QED
    BY <1>3, <2>1, <2>2, <2>3, <2>4, StartType DEF BuildScan, TypeOK
<1>4. ASSUME NEW p \in Proc, NEW l \in Owner, NEW c \in Content, Ingest(p, l, c)
      PROVE  TypeOK'
  <2>1. jobs' \in [Proc -> SUBSET Job]
    BY <1>4 DEF Ingest, TypeOK, Job
  <2> QED
    BY <1>4, <2>1, StartType DEF Ingest, TypeOK
<1>5. ASSUME NEW p \in Proc, NEW j \in jobs[p], Compile(p, j)
      PROVE  TypeOK'
  <2>1. j \in Job
    BY DEF TypeOK
  <2>2. todo' \in [Proc -> SUBSET Item]
    BY <1>5, <2>1, OutcomesType DEF Compile, TypeOK
  <2>3. raws' \subseteq Content
    BY <1>5, <2>1 DEF Compile, TypeOK, Job
  <2> QED
    BY <1>5, <2>2, <2>3 DEF Compile, TypeOK
<1>6. ASSUME NEW p \in Proc, NEW j \in jobs[p], CompileFails(p, j)
      PROVE  TypeOK'
  <2>1. j \in Job
    BY DEF TypeOK
  <2>2. raws' \subseteq Content
    BY <1>6, <2>1 DEF CompileFails, TypeOK, Job
  <2>3. seen' \in [Proc -> [TreeSource -> Content \cup {None}]]
    BY <1>6 DEF CompileFails, TypeOK
  <2> QED
    BY <1>6, <2>2, <2>3 DEF CompileFails, TypeOK
<1>7. ASSUME NEW p \in Proc, NEW j \in jobs[p], IngestFails(p, j)
      PROVE  TypeOK'
  <2>1. raws' \subseteq Content
    BY <1>7 DEF IngestFails, TypeOK, Job
  <2> QED
    BY <1>7, <2>1, ExitType DEF IngestFails, TypeOK, Wiki
<1>8. ASSUME NEW p \in Proc, LoadIds(p)
      PROVE  TypeOK'
  <2>1. LoadRegistry(wiki) \in Registry
    BY LoadRegistryType DEF TypeOK, Wiki
  <2> QED
    BY <1>8, <2>1 DEF LoadIds, Step, TypeOK
<1>9. ASSUME NEW p \in Proc, Prepare(p)
      PROVE  TypeOK'
  <2>1. Pending(cache) \subseteq Job
    BY PendingType
  <2>2. raws' \subseteq Content /\ offered' \subseteq Job
    BY <1>9, <2>1 DEF Prepare, TypeOK, Job
  <2> QED
    BY <1>9, <2>2, BoundAssumption DEF Prepare, Call, Busy, TypeOK
<1>10. ASSUME NEW p \in Proc, NEW a \in Handed, NEW b \in Handed, Accept(p, a, b)
       PROVE  TypeOK'
  <2>1. LoadRegistry(wiki) \in Registry
    BY LoadRegistryType DEF TypeOK, Wiki
  <2>2. reg' \in [Proc -> Registry] /\ snap' \in [Proc -> [Source -> Cached \cup {None}]]
    BY <1>10, <2>1 DEF Accept, TypeOK
  <2>3. todo' \in [Proc -> SUBSET Item]
    BY <1>10, HandedType DEF Accept, TypeOK
  <2> QED
    BY <1>10, <2>2, <2>3, StartType DEF Accept, TypeOK
<1>11. ASSUME NEW p \in Proc, NEW r \in todo[p], Save(p, r)
       PROVE  TypeOK'
  <2>1. r \in Item
    BY DEF TypeOK
  <2>2. PICK claim \in Claimant : claim = Resolve(p, r)
    BY <2>1, ResolveType
  <2>3. wiki' \in Wiki
    <3>1. [src |-> r.src, raw |-> r.raw, ver |-> claim.ver, kind |-> r.kind] \in Article
      BY <2>1, <2>2 DEF Item, Article, Claimant
    <3> QED
      BY <1>11, <2>2, <3>1 DEF Save, TypeOK, Wiki
  <2>4. reg' \in [Proc -> Registry]
    BY <1>11, <2>2 DEF Save, TypeOK, Claimant
  <2>5. snap' \in [Proc -> [Source -> Cached \cup {None}]]
    <3>1. CASE r.src = NoSource \/ r.hash = None
      BY <1>11, <3>1 DEF Save, TypeOK
    <3>2. CASE r.src # NoSource /\ r.hash # None
      <4>1. EntryFor(r, claim.id) \in Cached
        BY <2>1, <2>2, <3>2 DEF EntryFor, Cached, Item, Claimant
      <4>2. snap' = [snap EXCEPT ![p][r.src] = EntryFor(r, claim.id)]
        BY <1>11, <2>2, <3>2 DEF Save
      <4> QED
        BY <4>1, <4>2 DEF TypeOK
    <3> QED
      BY <3>1, <3>2
  <2>6. todo' \in [Proc -> SUBSET Item]
    BY <1>11 DEF Save, TypeOK
  <2> QED
    BY <1>11, <2>3, <2>4, <2>5, <2>6 DEF Save, TypeOK, Wiki
<1>12. ASSUME NEW p \in Proc, Saved(p)
       PROVE  TypeOK'
  BY <1>12 DEF Saved, Step, TypeOK
<1>13. ASSUME NEW p \in Proc, Retire(p)
       PROVE  TypeOK'
  BY <1>13 DEF Retire, WikiWithout, Step, TypeOK
<1>14. ASSUME NEW p \in Proc, RetireVecs(p)
       PROVE  TypeOK'
  BY <1>14 DEF RetireVecs, VecsWithout, Step, TypeOK
<1>15. ASSUME NEW p \in Proc, SaveCache(p)
       PROVE  TypeOK'
  BY <1>15 DEF SaveCache, Step, TypeOK
<1>16. ASSUME NEW p \in Proc, List(p)
       PROVE  TypeOK'
  <2>1. Listing(p) \in [Id -> Nat]
    BY NoneAssumption DEF Listing, TypeOK, Article
  <2> QED
    BY <1>16, <2>1 DEF List, Step, TypeOK
<1>17. ASSUME NEW p \in Proc, SaveIndex(p)
       PROVE  TypeOK'
  BY <1>17, ExitType DEF SaveIndex, TypeOK, Wiki
<1>18. ASSUME NEW p \in Proc, NEW ids \in SUBSET Id, RecompileLoad(p, ids)
       PROVE  TypeOK'
  <2>1. targets' \in [Proc -> SUBSET Target]
    BY <1>18 DEF RecompileLoad, TypeOK, Target
  <2> QED
    BY <1>18, <2>1, StartType DEF RecompileLoad, TypeOK
<1>19. ASSUME NEW p \in Proc, NEW t \in targets[p], RecompileOne(p, t)
       PROVE  TypeOK'
  <2>1. t.id \in Id /\ t.art \in Article
    BY <1>19 DEF RecompileOne, TargetsLoaded, TypeOK, Target
  <2>2. Recompiled(t.art) \in Article
    BY <2>1, RecompiledType
  <2>3. targets' \in [Proc -> SUBSET Target]
    BY <1>19 DEF RecompileOne, TypeOK
  <2> QED
    BY <1>19, <2>1, <2>2, <2>3 DEF RecompileOne, TypeOK
<1>20. ASSUME NEW p \in Proc, NEW t \in targets[p], RecompileSkips(p, t)
       PROVE  TypeOK'
  BY <1>20 DEF RecompileSkips, TypeOK
<1>21. ASSUME NEW p \in Proc, RecompileEnds(p)
       PROVE  TypeOK'
  BY <1>21 DEF RecompileEnds, Step, TypeOK
<1>22. ASSUME NEW p \in Proc, NEW i \in Id, DeleteLoad(p, i)
       PROVE  TypeOK'
  <2>1. targets' \in [Proc -> SUBSET Target]
    BY <1>22 DEF DeleteLoad, TypeOK, Target
  <2>2. listing' \in [Proc -> [Id -> Nat]]
    BY <1>22 DEF DeleteLoad, IndexWithout, TypeOK
  <2> QED
    BY <1>22, <2>1, <2>2, StartType DEF DeleteLoad, TypeOK
<1>23. ASSUME NEW p \in Proc, NEW t \in targets[p], DropRaws(p, t)
       PROVE  TypeOK'
  BY <1>23 DEF DropRaws, Step, TypeOK
<1>24. ASSUME NEW p \in Proc, NEW t \in targets[p], Unlink(p, t)
       PROVE  TypeOK'
  BY <1>24 DEF Unlink, WikiWithout, Step, TypeOK
<1>25. ASSUME NEW p \in Proc, DeleteIndex(p)
       PROVE  TypeOK'
  BY <1>25 DEF DeleteIndex, Step, TypeOK
<1>26. ASSUME NEW p \in Proc, NEW t \in targets[p], DeleteCache(p, t)
       PROVE  TypeOK'
  BY <1>26 DEF DeleteCache, CacheWithout, Step, TypeOK
<1>27. ASSUME NEW p \in Proc, NEW t \in targets[p], DeleteVecs(p, t)
       PROVE  TypeOK'
  BY <1>27, ExitType DEF DeleteVecs, VecsWithout, TypeOK, Wiki
<1>28. ASSUME NEW p \in Proc, NEW i \in Id, AttachVector(p, i)
       PROVE  TypeOK'
  BY <1>28, BoundAssumption DEF AttachVector, Call, Busy, TypeOK
<1>29. ASSUME NEW p \in Proc, Clear(p)
       PROVE  TypeOK'
  BY <1>29, BoundAssumption DEF Clear, Call, Busy, NoCache, NoIndex, TypeOK
<1>30. ASSUME NEW p \in Proc, Crash(p)
       PROVE  TypeOK'
  BY <1>30, ExitType DEF Crash, TypeOK, Wiki
<1>31. ASSUME NEW p \in Proc, CrashInWrite(p)
       PROVE  TypeOK'
  <2>1. TornArticle \in Article
    BY DEF TornArticle, Article, Owner, Kind
  <2>2. \A r \in todo[p] : Resolve(p, r).id \in Id
    BY ResolveType DEF TypeOK, Claimant
  <2>3. wiki' \in Wiki
    BY <1>31, <2>1, <2>2 DEF CrashInWrite, TypeOK, Wiki
  <2>4. cache' \in [Source -> Cached \cup {None}] /\ index' \in [Id -> Nat]
    BY <1>31 DEF CrashInWrite, TypeOK, NoCache, NoIndex
  <2>5. raws' \subseteq Content
    BY <1>31 DEF CrashInWrite, TypeOK
  <2> QED
    BY <1>31, <2>3, <2>4, <2>5, ExitType DEF CrashInWrite, TypeOK
<1> QED
  <2>1. CASE \E p \in Proc : Command(p)
    <3>1. PICK p \in Proc : Command(p)
      BY <2>1
    <3>2. CASE Build(p)
      BY <3>2, <1>3, <1>5, <1>6, <1>7, <1>8 DEF Build
    <3>3. CASE Write(p)
      BY <3>3, <1>11, <1>12, <1>13, <1>14, <1>15, <1>16, <1>17 DEF Write
    <3>4. CASE Redo(p)
      BY <3>4, <1>18, <1>19, <1>20, <1>21 DEF Redo
    <3>5. CASE Delete(p)
      BY <3>5, <1>22, <1>23, <1>24, <1>25, <1>26, <1>27 DEF Delete
    <3> QED
      BY <3>1, <3>2, <3>3, <3>4, <3>5, <1>4, <1>9, <1>10, <1>28, <1>29 DEF Command
  <2> QED
    BY <1>1, <1>2, <1>30, <1>31, <2>1 DEF Next

(* Everything keeps its type in every behaviour: in particular the id that *)
(* Claim resolves is an id, whichever candidate it ends at.                *)
THEOREM TypeCorrect == Spec => []TypeOK
<1>1. Init => TypeOK /\ TargetsLoaded
  BY BoundAssumption, EmptyRegistryType
     DEF Init, TypeOK, TargetsLoaded, NoFile, NoCache, NoIndex
<1> QED
  BY <1>1, LoadedStep, TypeStep, PTL DEF Spec

(***************************************************************************)
(* Identity.                                                               *)
(***************************************************************************)
(* What holds of a registry in the middle of a claim for source s, when    *)
(* the line of s may be missing.                                           *)
Midway(r, s) ==
  /\ \A i \in Id : r.owner[i] \in Source => i \in May(r.owner[i])
  /\ Lines(r)
  /\ \A e \in r.entries : e.id \notin r.retired
  /\ \A i \in r.retired : \/ r.owner[i] = s
                          \/ \E e \in r.entries : e.src # s /\ r.owner[i] = e.src

(* A registry in order is in order for every source's next claim ... *)
LEMMA MidwayStart ==
  ASSUME NEW r \in Registry, NEW s, RegistryOK(r), Lines(r)
  PROVE  Midway(r, s)
BY DEF Midway, RegistryOK

(* ... stays so, but for that source, while its twins are retired ... *)
LEMMA MidwayTwins ==
  ASSUME NEW r \in Registry, NEW s, NEW keep, NEW ids, RegistryOK(r), Lines(r)
  PROVE  /\ Midway(RetireTwins(r, s, keep, ids), s)
         /\ RetireTwins(r, s, keep, ids).owner = r.owner
         /\ \A i \in RetireTwins(r, s, keep, ids).retired :
              i \in r.retired \/ (i # keep /\ r.owner[i] = s)
<1> DEFINE twins == {e \in r.entries : e.src = s /\ e.id # keep /\ e.id \in ids}
           q == RetireTwins(r, s, keep, ids)
<1>1. /\ q.owner = r.owner /\ q.entries = r.entries \ twins
      /\ q.retired = r.retired \cup {e.id : e \in twins}
  BY DEF RetireTwins, Registry
<1>2. r.entries \subseteq Entry /\ r.retired \subseteq Id
  BY DEF Registry
<1>3. \A e \in q.entries : e.id \notin q.retired
  <2> SUFFICES ASSUME NEW e \in q.entries, e.id \in q.retired
               PROVE  FALSE
    OBVIOUS
  <2>1. e \in r.entries /\ e \notin twins /\ e.id \notin r.retired
    BY <1>1 DEF RegistryOK
  <2>2. PICK f \in twins : f.id = e.id
    BY <1>1, <2>1
  <2>3. e.src = f.src
    BY <2>1, <2>2 DEF Lines
  <2> QED
    BY <2>1, <2>2, <2>3
<1>4. \A i \in q.retired : i \in r.retired \/ (i # keep /\ r.owner[i] = s)
  BY <1>1 DEF Lines
<1>5. \A i \in q.retired : \/ q.owner[i] = s
                           \/ \E e \in q.entries : e.src # s /\ q.owner[i] = e.src
  <2> SUFFICES ASSUME NEW i \in q.retired, q.owner[i] # s
               PROVE  \E e \in q.entries : e.src # s /\ q.owner[i] = e.src
    OBVIOUS
  <2>1. i \in r.retired
    BY <1>1, <1>4
  <2>2. PICK e \in r.entries : r.owner[i] = e.src
    BY <2>1 DEF RegistryOK
  <2> QED
    BY <1>1, <2>2
<1>6. Lines(q)
  BY <1>1 DEF Lines
<1> QED
  BY <1>1, <1>3, <1>4, <1>5, <1>6 DEF Midway, RegistryOK

(* ... and is in order again once its article is recorded. *)
LEMMA RecordIdentity ==
  ASSUME NEW r \in Registry, NEW s \in Source, NEW id \in Id, NEW raw \in SUBSET Content,
         NEW v \in Nat, Midway(r, s), id \in May(s), id \notin r.retired,
         r.owner[id] \in Source => r.owner[id] = s
  PROVE  LET q == Record(r, id, s, raw, v)
         IN  /\ RegistryOK(q) /\ Lines(q)
             /\ q.owner = [r.owner EXCEPT ![id] = s] /\ q.retired = r.retired
<1> DEFINE q == Record(r, id, s, raw, v)
           new == [src |-> s, id |-> id, raw |-> raw]
<1>1. /\ q.owner = [r.owner EXCEPT ![id] = s] /\ q.retired = r.retired
      /\ q.entries = {e \in r.entries : e.src # s \/ e.id # id} \cup {new}
  BY OwnerAssumption DEF Record, Registry
<1>2. r.entries \subseteq Entry /\ r.retired \subseteq Id /\ r.owner \in [Id -> Owner \cup {None}]
  BY DEF Registry
<1>3. Lines(q)
  <2> SUFFICES ASSUME NEW e \in q.entries
               PROVE  q.owner[e.id] = e.src
    BY DEF Lines
  <2>1. CASE e = new
    BY <1>1, <1>2, <2>1
  <2>2. CASE e \in r.entries /\ (e.src # s \/ e.id # id)
    <3>1. r.owner[e.id] = e.src /\ e.id \in Id /\ e.src \in Source
      BY <1>2, <2>2 DEF Midway, Lines, Entry
    <3>2. e.id # id
      BY <2>2, <3>1
    <3> QED
      BY <1>1, <1>2, <3>1, <3>2
  <2> QED
    BY <1>1, <2>1, <2>2
<1>4. \A i \in Id : q.owner[i] \in Source => i \in May(q.owner[i])
  BY <1>1, <1>2 DEF Midway
<1>5. \A e \in q.entries : e.id \notin q.retired
  BY <1>1 DEF Midway
<1>6. \A i \in q.retired : \E e \in q.entries : q.owner[i] = e.src
  <2> SUFFICES ASSUME NEW i \in r.retired
               PROVE  \E e \in q.entries : q.owner[i] = e.src
    BY <1>1
  <2>1. q.owner[i] = r.owner[i]
    BY <1>1, <1>2
  <2>2. CASE r.owner[i] = s
    <3>1. new \in q.entries /\ new.src = s
      BY <1>1
    <3> QED
      BY <2>1, <2>2, <3>1
  <2>3. CASE \E e \in r.entries : e.src # s /\ r.owner[i] = e.src
    <3>1. PICK e \in r.entries : e.src # s /\ r.owner[i] = e.src
      BY <2>3
    <3>2. e \in q.entries
      BY <1>1, <3>1
    <3> QED
      BY <2>1, <3>1, <3>2
  <2>4. r.owner[i] = s \/ \E e \in r.entries : e.src # s /\ r.owner[i] = e.src
    BY DEF Midway
  <2> QED
    BY <2>2, <2>3, <2>4
<1> QED
  BY <1>1, <1>3, <1>4, <1>5, <1>6 DEF RegistryOK
-----------------------------------------------------------------------------
(* What a claim for source s may and does do.                              *)

(* The id it ends at is rightful and not the live id of another source,    *)
(* and the registry it leaves is in order.                                 *)
ClaimOK(r, c, s) ==
  /\ c.id \in May(s)
  /\ r.owner[c.id] \in Source => r.owner[c.id] = s
  /\ r.owner[c.id] = NoSource => c.id \in Own(s)
  /\ c.reg.owner = [r.owner EXCEPT ![c.id] = s]
  /\ RegistryOK(c.reg) /\ Lines(c.reg)
  /\ \A i \in c.reg.retired : i # c.id /\ (i \in r.retired \/ r.owner[i] = s)

(* The owner of a retired id is a source that has another line.            *)
LEMMA RetiredOwner ==
  ASSUME NEW r \in Registry, RegistryOK(r), NEW i \in r.retired
  PROVE  /\ r.owner[i] \in Source
         /\ \E e \in r.entries : e.src = r.owner[i]
<1>1. PICK e \in r.entries : r.owner[i] = e.src
  BY DEF RegistryOK
<1>2. e.src \in Source
  BY DEF Registry, Entry
<1> QED
  BY <1>1, <1>2

(* From a registry in order, or half way through retireTwins, the record   *)
(* of a rightful id that is not retired makes a good claim.                *)
LEMMA ClaimedOK ==
  ASSUME NEW r \in Registry, NEW q \in Registry, NEW s \in Source, NEW id \in Id,
         NEW raw \in SUBSET Content,
         Midway(q, s), q.owner = r.owner, id \notin q.retired, id \in May(s),
         r.owner[id] \in Source => r.owner[id] = s,
         r.owner[id] = NoSource => id \in Own(s),
         \A i \in q.retired : i \in r.retired \/ r.owner[i] = s
  PROVE  ClaimOK(r, Claimed(q, id, s, raw), s)
<1> DEFINE v == q.ver[id] + 1
<1>1. v \in Nat
  BY DEF Registry
<1> HIDE DEF v
<1>2. LET n == Record(q, id, s, raw, v)
      IN  /\ RegistryOK(n) /\ Lines(n)
          /\ n.owner = [q.owner EXCEPT ![id] = s] /\ n.retired = q.retired
  BY <1>1, RecordIdentity
<1>3. /\ Claimed(q, id, s, raw).id = id
      /\ Claimed(q, id, s, raw).reg = Record(q, id, s, raw, v)
  BY DEF Claimed, v
<1> QED
  BY <1>2, <1>3 DEF ClaimOK

(* Claim, when the source already holds ids: it keeps one of them.         *)
LEMMA ClaimHeldOK ==
  ASSUME NEW r \in Registry, NEW proposed \in Id, NEW s \in Source,
         NEW raw \in SUBSET Content, NEW label \in BOOLEAN,
         RegistryOK(r), Lines(r), Held(r, s, raw, label) # {}
  PROVE  ClaimOK(r, Claim(r, proposed, s, raw, label), s)
<1> DEFINE held == Held(r, s, raw, label)
           keep == Keep(held, proposed)
           q == RetireTwins(r, s, keep, held)
<1>1. held \subseteq Id /\ keep \in held
  BY HeldType, KeepInHeld
<1>2. PICK e \in r.entries : e.id = keep /\ e.src = s
  BY <1>1 DEF Held
<1>3. r.owner[keep] = s /\ keep \notin r.retired /\ keep \in May(s)
  BY <1>1, <1>2 DEF Lines, RegistryOK
<1>4. q \in Registry
  BY RetireTwinsType
<1>5. /\ Midway(q, s) /\ q.owner = r.owner
      /\ \A i \in q.retired : i \in r.retired \/ (i # keep /\ r.owner[i] = s)
  BY MidwayTwins
<1> HIDE DEF q, keep, held
<1>6. ClaimOK(r, Claimed(q, keep, s, raw), s)
  BY <1>1, <1>3, <1>4, <1>5, OwnerAssumption, ClaimedOK
<1>7. Claim(r, proposed, s, raw, label) = Claimed(q, keep, s, raw)
  BY OwnerAssumption DEF Claim, q, keep, held
<1> QED
  BY <1>6, <1>7

(* Claim, when it has to find an id: an open one, or the last candidate,   *)
(* which no other source may hold.                                         *)
LEMMA ClaimNewOK ==
  ASSUME DistinctIds,
         NEW r \in Registry, NEW proposed \in Slug, NEW s \in Source,
         NEW raw \in SUBSET Content, NEW label \in BOOLEAN,
         RegistryOK(r), Lines(r), label => r.retired = {},
         Held(r, s, raw, label) = {}
  PROVE  ClaimOK(r, Claim(r, proposed, s, raw, label), s)
<1> DEFINE id == Disambiguate(r, proposed, s)
<1>1. proposed \in Id /\ id \in Id
  BY SlugAssumption, DisambiguateType DEF Owner
<1>2. PICK k \in 0..3 : /\ id = Candidate(proposed, s, k)
                        /\ k = 3 \/ OpenTo(r, id, s)
  BY <1>1, DisambiguateResult
<1> HIDE DEF id
<1>3. id \in May(s)
  BY <1>1, <1>2 DEF May
<1>4. k = 3 => id \in Own(s)
  BY <1>2 DEF Own
<1>5. r.owner[id] \in Source => r.owner[id] = s
  <2>1. CASE k = 3
    <3> SUFFICES ASSUME r.owner[id] \in Source, r.owner[id] # s
                 PROVE  FALSE
      OBVIOUS
    <3>1. id \in May(r.owner[id])
      BY <1>1 DEF RegistryOK
    <3> QED
      BY <1>4, <2>1, <3>1 DEF DistinctIds
  <2>2. CASE OpenTo(r, id, s)
    BY <2>2, OwnerAssumption DEF OpenTo, Owner
  <2> QED
    BY <1>2, <2>1, <2>2
<1>6. r.owner[id] = NoSource => id \in Own(s)
  BY <1>2, <1>4, OwnerAssumption DEF OpenTo, Owner
<1>7. id \notin r.retired
  <2> SUFFICES ASSUME id \in r.retired
               PROVE  FALSE
    OBVIOUS
  <2>1. PICK e \in r.entries : e.src = s
    BY <1>5, RetiredOwner
  <2>2. ~ label
    OBVIOUS
  <2>3. e.id \in Held(r, s, raw, label)
    BY <2>1, <2>2 DEF Held
  <2> QED
    BY <2>3
<1>8. Midway(r, s)
  BY MidwayStart
<1>9. ClaimOK(r, Claimed(r, id, s, raw), s)
  BY <1>1, <1>3, <1>5, <1>6, <1>7, <1>8, ClaimedOK
<1>10. Claim(r, proposed, s, raw, label) = Claimed(r, id, s, raw)
  BY OwnerAssumption DEF Claim, id
<1> QED
  BY <1>9, <1>10

(* ClaimFixed of an id that only s may declare and that s has not retired. *)
LEMMA ClaimFixedOK ==
  ASSUME DistinctIds,
         NEW r \in Registry, NEW s \in Source, NEW id \in Id, NEW raw \in SUBSET Content,
         RegistryOK(r), Lines(r), id \in Own(s), \A i \in r.retired : r.owner[i] # s
  PROVE  ClaimOK(r, ClaimFixed(r, id, s, raw), s)
<1> DEFINE held == Held(r, s, raw, FALSE)
           q == RetireTwins(r, s, id, held)
<1>1. id \in May(s)
  BY DEF May
<1>2. r.owner[id] \in Source => r.owner[id] = s
  <2> SUFFICES ASSUME r.owner[id] \in Source, r.owner[id] # s
               PROVE  FALSE
    OBVIOUS
  <2>1. id \in May(r.owner[id])
    BY DEF RegistryOK
  <2> QED
    BY <2>1 DEF DistinctIds
<1>3. id \notin r.retired
  <2> SUFFICES ASSUME id \in r.retired
               PROVE  FALSE
    OBVIOUS
  <2>1. r.owner[id] \in Source
    BY RetiredOwner
  <2> QED
    BY <1>2, <2>1
<1> HIDE DEF held
<1>4. q \in Registry
  BY RetireTwinsType
<1>5. /\ Midway(q, s) /\ q.owner = r.owner
      /\ \A i \in q.retired : i \in r.retired \/ (i # id /\ r.owner[i] = s)
  BY MidwayTwins
<1> HIDE DEF q
<1>6. ClaimOK(r, Claimed(q, id, s, raw), s)
  BY <1>1, <1>2, <1>3, <1>4, <1>5, ClaimedOK
<1>7. ClaimFixed(r, id, s, raw) = Claimed(q, id, s, raw)
  BY DEF ClaimFixed, q, held
<1> QED
  BY <1>6, <1>7
(* The registry of the wiki on disk is in order.                           *)
LEMMA LoadOK ==
  ASSUME TypeOK, WikiRightful
  PROVE  LET r == LoadRegistry(wiki)
         IN  /\ RegistryOK(r) /\ Lines(r) /\ r.retired = {}
             /\ \A i \in Id : r.owner[i] = IF wiki[i] = None THEN None ELSE wiki[i].src
<1> DEFINE r == LoadRegistry(wiki)
<1>1. r.retired = {}
  BY DEF LoadRegistry
<1>2. \A i \in Id : r.owner[i] = IF wiki[i] = None THEN None ELSE wiki[i].src
  BY DEF LoadRegistry
<1>3. \A e \in r.entries : \E i \in Id :
        /\ wiki[i] # None
        /\ e = [src |-> wiki[i].src, id |-> i, raw |-> wiki[i].raw]
  BY DEF LoadRegistry
<1>4. Lines(r)
  <2> SUFFICES ASSUME NEW e \in r.entries
               PROVE  r.owner[e.id] = e.src
    BY DEF Lines
  <2>1. PICK i \in Id : /\ wiki[i] # None
                        /\ e = [src |-> wiki[i].src, id |-> i, raw |-> wiki[i].raw]
    BY <1>3
  <2>2. e.id = i /\ e.src = wiki[i].src
    BY <2>1
  <2> HIDE DEF r
  <2> QED
    BY <1>2, <2>1, <2>2
<1> HIDE DEF r
<1>5. \A i \in Id : r.owner[i] \in Source => i \in May(r.owner[i])
  <2> SUFFICES ASSUME NEW i \in Id, r.owner[i] \in Source
               PROVE  i \in May(r.owner[i])
    OBVIOUS
  <2>1. wiki[i] # None /\ r.owner[i] = wiki[i].src /\ wiki[i].src # NoSource
    BY <1>2, OwnerAssumption DEF Owner
  <2> QED
    BY <2>1 DEF WikiRightful, Rightful
<1>6. RegistryOK(r)
  BY <1>1, <1>5 DEF RegistryOK
<1> QED
  BY <1>1, <1>2, <1>4, <1>6 DEF r

(* Every claim of a saved article with a source is good.                   *)
LEMMA ResolveOK ==
  ASSUME DistinctIds, TypeOK, NEW p \in Proc, ProcOK(p), pc[p] = "save",
         NEW r \in todo[p], r.src \in Source
  PROVE  ClaimOK(reg[p], Resolve(p, r), r.src)
<1>1. /\ r \in Item /\ reg[p] \in Registry
      /\ r.raw \in SUBSET Content /\ r.id \in Id /\ r.label \in BOOLEAN
  BY DEF TypeOK, Item
<1>2. RegistryOK(reg[p]) /\ Lines(reg[p])
  BY DEF ProcOK, LinesOwned
<1>3. CASE r.fixed
  <2>1. r.id \in Own(r.src)
    BY <1>3 DEF ProcOK, ItemsRightful
  <2>2. \A i \in reg[p].retired : reg[p].owner[i] # r.src
    BY <1>3 DEF ProcOK, OncePerSource
  <2>3. ClaimOK(reg[p], ClaimFixed(reg[p], r.id, r.src, r.raw), r.src)
    BY <1>1, <1>2, <2>1, <2>2, ClaimFixedOK
  <2> DEFINE c == ClaimFixed(reg[p], r.id, r.src, r.raw)
  <2>4. Resolve(p, r).id = c.id /\ Resolve(p, r).reg = c.reg
    BY <1>1, <1>3, ClaimFixedType DEF Resolve, Claimant
  <2> QED
    BY <2>3, <2>4 DEF ClaimOK
<1>4. CASE ~ r.fixed
  <2>1. r.id \in Slug
    BY <1>4 DEF ProcOK, ItemsRightful
  <2>2. r.label => reg[p].retired = {}
    BY DEF ProcOK, OneLabel
  <2>3. ClaimOK(reg[p], Claim(reg[p], r.id, r.src, r.raw, r.label), r.src)
    BY <1>1, <1>2, <2>1, <2>2, ClaimHeldOK, ClaimNewOK
  <2> QED
    BY <1>4, <2>3 DEF Resolve
<1> QED
  BY <1>3, <1>4

-----------------------------------------------------------------------------
(* What a step does to the processes that do not take it, and to the one   *)
(* that does.                                                              *)

OnlyLocal(p) ==
  \A q \in Proc \ {p} : /\ pc'[q] = pc[q] /\ cmd'[q] = cmd[q] /\ jobs'[q] = jobs[q]
                        /\ todo'[q] = todo[q] /\ targets'[q] = targets[q]
                        /\ reg'[q] = reg[q]

(* A process that did not move is in order if only its lone start is forgotten. *)
LEMMA OtherOK ==
  ASSUME NEW q \in Proc, ProcOK(q),
         pc'[q] = pc[q], cmd'[q] = cmd[q], jobs'[q] = jobs[q], todo'[q] = todo[q],
         targets'[q] = targets[q], reg'[q] = reg[q],
         pc[q] # "idle" => ~ alone'
  PROVE  ProcOK(q)'
<1>1. /\ Phase(q)' /\ JobsHeld(q)' /\ ItemsRightful(q)' /\ OneLabel(q)'
  BY DEF ProcOK, Phase, JobsHeld, ItemsRightful, OneLabel
<1>2. /\ OncePerSource(q)' /\ TargetsRightful(q)' /\ LinesOwned(q)' /\ RegistryOK(reg[q])'
  BY DEF ProcOK, OncePerSource, TargetsRightful, LinesOwned, RegistryOK, Lines
<1>3. TargetsMatch(q)' /\ RegistryMatches(q)'
  BY DEF ProcOK, TargetsMatch, RegistryMatches
<1> QED
  BY <1>1, <1>2, <1>3 DEF ProcOK

(* A step of a process that runs already.                                  *)
LEMMA BusyStep ==
  ASSUME TypeOK, IdentityInv, NEW p \in Proc, pc[p] # "idle", OnlyLocal(p),
         UNCHANGED <<tree, offered, alone>>, WikiRightful', ProcOK(p)'
  PROVE  IdentityInv'
<1>1. TreeHeld' /\ OfferedSourced'
  BY DEF IdentityInv, TreeHeld, OfferedSourced
<1>2. alone => \A q \in Proc : pc[q] # "idle" => q = p
  BY DEF IdentityInv, Solo
<1>3. Solo'
  BY <1>2 DEF Solo, OnlyLocal
<1>4. ASSUME NEW q \in Proc, q # p
      PROVE  ProcOK(q)'
  BY <1>2, <1>4, OtherOK DEF OnlyLocal, IdentityInv
<1> QED
  BY <1>1, <1>3, <1>4 DEF IdentityInv

(* The start of a command.                                                 *)
LEMMA CallStep ==
  ASSUME TypeOK, IdentityInv, NEW p \in Proc, pc[p] = "idle", OnlyLocal(p),
         alone' = ~ Busy, UNCHANGED tree, OfferedSourced', WikiRightful', ProcOK(p)'
  PROVE  IdentityInv'
<1>1. TreeHeld'
  BY DEF IdentityInv, TreeHeld
<1>2. Solo'
  BY DEF Solo, OnlyLocal, Busy
<1>3. ASSUME NEW q \in Proc, q # p
      PROVE  ProcOK(q)'
  BY <1>3, OtherOK DEF OnlyLocal, IdentityInv, Busy
<1> QED
  BY <1>1, <1>2, <1>3 DEF IdentityInv

(* A process that has ended is in order and leaves the others be. *)
LEMMA IdleProc ==
  ASSUME TypeOK, NEW p \in Proc, Exit(p)
  PROVE  ProcOK(p)' /\ OnlyLocal(p)
<1>1. /\ pc'[p] = "idle" /\ cmd'[p] = "none" /\ jobs'[p] = {} /\ todo'[p] = {}
      /\ targets'[p] = {} /\ reg'[p] = EmptyRegistry
  BY DEF TypeOK, Exit
<1>2. RegistryOK(EmptyRegistry) /\ Lines(EmptyRegistry)
  BY OwnerAssumption DEF RegistryOK, Lines, EmptyRegistry, Owner
<1>3. /\ Phase(p)' /\ JobsHeld(p)' /\ ItemsRightful(p)' /\ OneLabel(p)' /\ OncePerSource(p)'
  BY <1>1 DEF Phase, JobsHeld, ItemsRightful, OneLabel, OncePerSource
<1>4. TargetsRightful(p)' /\ TargetsMatch(p)' /\ RegistryMatches(p)'
  BY <1>1 DEF TargetsRightful, TargetsMatch, RegistryMatches
<1>5. LinesOwned(p)' /\ RegistryOK(reg[p])'
  BY <1>1, <1>2 DEF LinesOwned, RegistryOK, Lines
<1>6. OnlyLocal(p)
  BY DEF TypeOK, Exit, OnlyLocal
<1> QED
  BY <1>3, <1>4, <1>5, <1>6 DEF ProcOK

(* The process ends, or dies.                                              *)
LEMMA ExitStep ==
  ASSUME TypeOK, IdentityInv, NEW p \in Proc, pc[p] # "idle", Exit(p), UNCHANGED outer,
         WikiRightful'
  PROVE  IdentityInv'
BY IdleProc, BusyStep DEF Exit, outer

(* The phases in which nothing is compiled, claimed or recompiled.         *)
LEMMA PhaseStep ==
  ASSUME TypeOK, IdentityInv, NEW p \in Proc, NEW from, NEW to,
         from # "idle", from # "compile", to \notin {"idle", "compile", "save", "recompile"},
         Step(p, from, to), UNCHANGED <<tree, offered, jobs, todo, targets, reg>>,
         WikiRightful'
  PROVE  IdentityInv'
<1>1. /\ pc[p] = from /\ pc'[p] = to /\ OnlyLocal(p)
      /\ UNCHANGED <<cmd, commands, alone, suspect>>
  BY DEF TypeOK, Step, OnlyLocal, past
<1>2. ProcOK(p)
  BY DEF IdentityInv
<1>3. /\ Phase(p)' /\ JobsHeld(p)' /\ ItemsRightful(p)' /\ OneLabel(p)' /\ OncePerSource(p)'
  BY <1>1, <1>2 DEF ProcOK, Phase, JobsHeld, ItemsRightful, OneLabel, OncePerSource
<1>4. TargetsRightful(p)' /\ TargetsMatch(p)' /\ RegistryMatches(p)'
  BY <1>1, <1>2 DEF ProcOK, TargetsRightful, TargetsMatch, RegistryMatches
<1>5. LinesOwned(p)' /\ RegistryOK(reg[p])'
  BY <1>1, <1>2 DEF ProcOK, LinesOwned, RegistryOK, Lines
<1>6. ProcOK(p)'
  BY <1>3, <1>4, <1>5 DEF ProcOK
<1> QED
  BY <1>1, <1>6, BusyStep
-----------------------------------------------------------------------------
(* Saving an article under the id its claim ends at.                       *)

(* An article is saved only under an id its source may hold. *)
LEMMA SaveStep ==
  ASSUME DistinctIds, TypeOK, IdentityInv,
         NEW p \in Proc, NEW r \in todo[p], Save(p, r)
  PROVE  IdentityInv'
<1> DEFINE claim == Resolve(p, r)
           s == r.src
           art == [src |-> r.src, raw |-> r.raw, ver |-> claim.ver, kind |-> r.kind]
<1>1. /\ r \in Item /\ reg[p] \in Registry /\ s \in Owner
      /\ r.raw \in SUBSET Content /\ r.id \in Id /\ r.label \in BOOLEAN
      /\ claim \in Claimant
  BY ResolveType DEF TypeOK, Item
<1>2. ProcOK(p) /\ pc[p] = "save"
  BY DEF IdentityInv, Save
<1>3. /\ wiki' = [wiki EXCEPT ![claim.id] = art]
      /\ reg' = [reg EXCEPT ![p] = claim.reg]
      /\ todo' = [todo EXCEPT ![p] = todo[p] \ {r}]
      /\ UNCHANGED <<tree, offered, commands, alone, suspect, pc, cmd, jobs, targets>>
  BY DEF Save, outer, past
<1>4. claim.id \in Id /\ claim.reg \in Registry /\ art.src = s /\ art # None
  <2>1. art \in Article
    BY <1>1 DEF Article, Item, Claimant
  <2> QED
    BY <1>1, <2>1, NoneAssumption DEF Claimant
<1> HIDE DEF claim, art
<1>5. OnlyLocal(p) /\ reg'[p] = claim.reg /\ todo'[p] = todo[p] \ {r}
  BY <1>3 DEF TypeOK, OnlyLocal
(* What both kinds of claim have in common. *)
<1>6. /\ Phase(p)' /\ JobsHeld(p)' /\ ItemsRightful(p)' /\ TargetsRightful(p)'
      /\ TargetsMatch(p)'
  BY <1>2, <1>3, <1>5 DEF ProcOK, Phase, JobsHeld, ItemsRightful, TargetsRightful,
                          TargetsMatch
<1>7. cmd[p] = "ingest" => todo'[p] = {}
  BY <1>2, <1>5 DEF ProcOK, OneLabel
<1>8. OneLabel(p)'
  BY <1>2, <1>3, <1>5, <1>7 DEF ProcOK, OneLabel
<1>9. ASSUME claim.reg.owner = [reg[p].owner EXCEPT ![claim.id] = s]
      PROVE  RegistryMatches(p)'
  <2> SUFFICES ASSUME alone', NEW i \in Id
               PROVE  reg'[p].owner[i] = IF wiki'[i] = None THEN None ELSE wiki'[i].src
    BY DEF RegistryMatches
  <2>1. reg[p].owner[i] = IF wiki[i] = None THEN None ELSE wiki[i].src
    BY <1>2, <1>3 DEF ProcOK, RegistryMatches
  <2>2. reg[p].owner \in [Id -> Owner \cup {None}] /\ wiki \in [Id -> Article \cup {None}]
    BY <1>1 DEF Registry, TypeOK
  <2>3. CASE i = claim.id
    BY <1>3, <1>4, <1>5, <1>9, <2>2, <2>3
  <2>4. CASE i # claim.id
    BY <1>3, <1>4, <1>5, <1>9, <2>1, <2>2, <2>4
  <2> QED
    BY <2>3, <2>4
<1>10. ASSUME Rightful(claim.id, art)
       PROVE  WikiRightful'
  BY <1>3, <1>4, <1>10 DEF WikiRightful, IdentityInv, TypeOK
<1>11. CASE s \in Source
  <2>1. ClaimOK(reg[p], claim, s)
    BY <1>2, <1>11, ResolveOK DEF claim
  <2>2. Rightful(claim.id, art)
    BY <1>4, <1>11, <2>1, OwnerAssumption DEF ClaimOK, Rightful
  <2>3. LinesOwned(p)' /\ RegistryOK(reg[p])'
    BY <1>5, <2>1 DEF ClaimOK, LinesOwned, Lines, RegistryOK
  <2>4. ASSUME NEW x \in todo'[p], x.fixed
        PROVE  cmd'[p] = "build" /\ \A i \in reg'[p].retired : reg'[p].owner[i] # x.src
    <3>1. x \in todo[p] /\ x # r /\ cmd[p] = "build"
      BY <1>2, <1>5, <2>4 DEF ProcOK, OncePerSource
    <3>2. x.src # s /\ \A i \in reg[p].retired : reg[p].owner[i] # x.src
      BY <1>2, <2>4, <3>1 DEF ProcOK, OncePerSource
    <3>3. reg[p].owner \in [Id -> Owner \cup {None}] /\ claim.reg.retired \subseteq Id
      BY <1>1, <1>4 DEF Registry
    <3> QED
      BY <1>3, <1>4, <1>5, <2>1, <3>1, <3>2, <3>3 DEF ClaimOK
  <2>5. OncePerSource(p)'
    BY <1>2, <1>3, <1>5, <2>4 DEF ProcOK, OncePerSource
  <2>6. RegistryMatches(p)'
    BY <1>9, <2>1 DEF ClaimOK
  <2>7. ProcOK(p)'
    BY <1>6, <1>8, <2>3, <2>5, <2>6 DEF ProcOK
  <2> QED
    BY <1>2, <1>3, <1>5, <1>10, <2>2, <2>7, BusyStep
<1>12. CASE s = NoSource
  <2>1. cmd[p] = "ingest" /\ reg[p].retired = {} /\ ~ r.fixed /\ r.id \in Slug
    BY <1>2, <1>12, OwnerAssumption DEF ProcOK, OneLabel, ItemsRightful
  <2>2. claim = Claimed(reg[p], r.id, s, r.raw)
    BY <1>12, <2>1 DEF claim, Resolve, Claim, Disambiguate
  <2>3. /\ claim.id = r.id
        /\ claim.reg.owner = [reg[p].owner EXCEPT ![claim.id] = s]
        /\ claim.reg.entries = reg[p].entries
        /\ claim.reg.retired = {}
    BY <1>1, <1>12, <2>1, <2>2 DEF Claimed, Record, Registry
  <2>4. Rightful(claim.id, art)
    BY <1>4, <1>12, <2>1, <2>3 DEF Rightful
  <2>5. RegistryOK(reg[p])'
    <3>1. reg[p].owner \in [Id -> Owner \cup {None}]
      BY <1>1 DEF Registry
    <3>2. \A i \in Id : claim.reg.owner[i] \in Source => i \in May(claim.reg.owner[i])
      BY <1>2, <1>12, <2>3, <3>1, OwnerAssumption DEF ProcOK, RegistryOK
    <3> QED
      BY <1>5, <2>3, <3>2 DEF RegistryOK
  <2>6. LinesOwned(p)' /\ OncePerSource(p)'
    BY <1>2, <1>3, <1>7, <2>1 DEF LinesOwned, OncePerSource
  <2>7. RegistryMatches(p)'
    BY <1>9, <2>3
  <2>8. ProcOK(p)'
    BY <1>6, <1>8, <2>5, <2>6, <2>7 DEF ProcOK
  <2> QED
    BY <1>2, <1>3, <1>5, <1>10, <2>4, <2>8, BusyStep
<1> QED
  BY <1>1, <1>11, <1>12 DEF Owner
-----------------------------------------------------------------------------
(* The other steps.                                                        *)

(* A command starts: it has no work yet but what it is called with.        *)
LEMMA StartStep ==
  ASSUME TypeOK, IdentityInv, NEW p \in Proc,
         NEW c \in {"build", "accept", "ingest", "recompile", "delete"},
         NEW at \in {"compile", "save", "recompile", "dropRaws"},
         Start(p, c, at), UNCHANGED <<disk, outer>>, OnlyLocal(p),
         JobsHeld(p)', ItemsRightful(p)', OneLabel(p)', OncePerSource(p)',
         TargetsRightful(p)', TargetsMatch(p)', LinesOwned(p)', RegistryOK(reg[p])',
         RegistryMatches(p)', at = "compile" => c \in {"build", "ingest"}
  PROVE  IdentityInv'
<1>1. /\ pc[p] = "idle" /\ pc'[p] = at /\ cmd'[p] = c /\ alone' = ~ Busy
      /\ UNCHANGED <<tree, wiki, offered>>
  BY DEF Start, Call, TypeOK, disk, outer
<1>2. Phase(p)'
  BY <1>1 DEF Phase
<1>3. WikiRightful' /\ OfferedSourced'
  BY <1>1 DEF IdentityInv, WikiRightful, OfferedSourced
<1>4. ProcOK(p)'
  BY <1>2 DEF ProcOK
<1> QED
  BY <1>1, <1>3, <1>4, CallStep

(* What is known of a process that has nothing to do.                      *)
LEMMA IdleFacts ==
  ASSUME IdentityInv, NEW p \in Proc, pc[p] = "idle"
  PROVE  /\ cmd[p] = "none" /\ jobs[p] = {} /\ todo[p] = {}
         /\ TargetsRightful(p) /\ Lines(reg[p]) /\ RegistryOK(reg[p])
BY DEF IdentityInv, ProcOK, Phase, LinesOwned

(* build scans and compiles, and queues at most one item per file. *)
LEMMA BuildStep ==
  ASSUME TypeOK, IdentityInv, NEW p \in Proc, Build(p)
  PROVE  IdentityInv'
<1> USE DEF disk, outer, past
<1>1. CASE BuildScan(p)
  <2>1. pc[p] = "idle" /\ pc'[p] = "compile" /\ cmd'[p] = "build"
    BY <1>1 DEF BuildScan, Start, Call, TypeOK
  <2>2. /\ OnlyLocal(p) /\ jobs'[p] = Pending(cache)
        /\ UNCHANGED <<todo, targets, reg, wiki>>
    BY <1>1 DEF BuildScan, Start, TypeOK, OnlyLocal
  <2>3. /\ todo[p] = {} /\ TargetsRightful(p) /\ Lines(reg[p]) /\ RegistryOK(reg[p])
    BY <2>1, IdleFacts
  <2>4. \A j \in Pending(cache) : j.src \in TreeSource /\ tree[j.src] # None /\ j.c = tree[j.src]
    BY DEF Pending
  <2>5. JobsHeld(p)'
    BY <2>2, <2>4 DEF JobsHeld, IdentityInv, TreeHeld
  <2>6. ItemsRightful(p)' /\ OneLabel(p)'
    BY <2>1, <2>2, <2>3 DEF ItemsRightful, OneLabel
  <2>7. \A j, k \in Pending(cache) : j.src = k.src => j = k
    BY DEF Pending
  <2>8. OncePerSource(p)'
    BY <2>1, <2>2, <2>3, <2>7 DEF OncePerSource
  <2>9. TargetsRightful(p)' /\ TargetsMatch(p)' /\ RegistryMatches(p)'
    BY <2>1, <2>2, <2>3 DEF TargetsRightful, TargetsMatch, RegistryMatches
  <2>10. LinesOwned(p)' /\ RegistryOK(reg[p])'
    BY <2>2, <2>3 DEF LinesOwned, Lines, RegistryOK
  <2> QED
    BY <1>1, <2>2, <2>5, <2>6, <2>8, <2>9, <2>10, StartStep DEF BuildScan
<1>2. ASSUME NEW j \in jobs[p], Compile(p, j)
      PROVE  IdentityInv'
  <2>1. PICK item \in Outcomes(p, j) : todo' = [todo EXCEPT ![p] = @ \cup {item}]
    BY <1>2 DEF Compile
  <2>2. /\ pc[p] = "compile" /\ ProcOK(p) /\ j \in Job /\ cmd[p] \in {"build", "ingest"}
        /\ jobs' = [jobs EXCEPT ![p] = @ \ {j}]
        /\ UNCHANGED <<tree, wiki, offered, alone, pc, cmd, targets, reg>>
    BY <1>2 DEF Compile, IdentityInv, ProcOK, Phase, TypeOK
  <2>3. jobs'[p] = jobs[p] \ {j} /\ todo'[p] = todo[p] \cup {item} /\ OnlyLocal(p)
    BY <2>1, <2>2 DEF TypeOK, OnlyLocal
  <2>4. item.src = j.src /\ (item.label => cmd[p] = "ingest")
    <3>1. item.src = j.src
      BY <2>1 DEF Outcomes
    <3>2. PICK id, ver, kind, fixed :
            item = [src |-> j.src, raw |-> {j.c}, id |-> id, ver |-> ver, kind |-> kind,
                    fixed |-> fixed, hash |-> IF cmd[p] = "build" THEN j.c ELSE None,
                    label |-> cmd[p] = "ingest"]
      BY <2>1, Zenon DEF Outcomes
    <3>3. item.label = (cmd[p] = "ingest")
      BY <3>2, Zenon
    <3> QED
      BY <3>1, <3>3
  <2>5. item.fixed => cmd[p] = "build"
    BY <2>1 DEF Outcomes
  <2>6. cmd[p] = "build" => j.src \in Source /\ <<j.src, j.c>> \in CanHold
    BY <2>2, HoldAssumption, TreeAssumption DEF ProcOK, JobsHeld
  <2>7. IF item.fixed THEN item.src \in Source /\ item.id \in Own(item.src)
        ELSE item.id \in Slug
    <3>1. CASE item.fixed
      <4>1. /\ cmd[p] = "build" /\ j.src \in Glossary /\ Front[j.c].id # None
            /\ item.id = Front[j.c].id
        BY <2>1, <3>1 DEF Outcomes
      <4>2. j.c \in {d \in Content : /\ j.src \in Glossary /\ <<j.src, d>> \in CanHold
                                     /\ Front[d].id # None}
        BY <2>2, <2>6, <4>1 DEF Job
      <4>3. item.id \in Own(j.src)
        BY <4>1, <4>2 DEF Own
      <4> QED
        BY <2>4, <2>6, <3>1, <4>1, <4>3
    <3>2. CASE ~ item.fixed
      <4>1. item.id \in Slug
        BY <2>1, <3>2 DEF Outcomes
      <4> QED
        BY <3>2, <4>1
    <3> QED
      BY <3>1, <3>2
  <2>8. Phase(p)' /\ JobsHeld(p)'
    BY <2>2, <2>3 DEF ProcOK, Phase, JobsHeld
  <2>9. ItemsRightful(p)'
    BY <2>2, <2>3, <2>7 DEF ProcOK, ItemsRightful
  <2>10. OneLabel(p)'
    <3>1. \A x \in todo'[p] : x.label \/ x.src = NoSource => cmd'[p] = "ingest"
      BY <2>2, <2>3, <2>4, <2>6, OwnerAssumption DEF ProcOK, OneLabel
    <3>2. cmd[p] = "ingest" => jobs'[p] = {} /\ todo'[p] = {item}
      BY <2>2, <2>3 DEF ProcOK, OneLabel
    <3> QED
      BY <2>2, <3>1, <3>2 DEF OneLabel
  <2>11. OncePerSource(p)'
    <3>1. cmd[p] = "build" =>
            /\ \A i, k \in jobs'[p] : i.src = k.src => i = k
            /\ \A i \in jobs'[p], x \in todo'[p] : i.src # x.src
            /\ \A x, y \in todo'[p] : x.src = y.src => x = y
      BY <2>2, <2>3, <2>4 DEF ProcOK, OncePerSource
    <3>2. \A x \in todo'[p] : x.fixed => cmd[p] = "build"
      BY <2>2, <2>3, <2>5 DEF ProcOK, OncePerSource
    <3> QED
      BY <2>2, <3>1, <3>2 DEF OncePerSource
  <2>12. TargetsRightful(p)' /\ TargetsMatch(p)' /\ RegistryMatches(p)'
    BY <2>2 DEF ProcOK, TargetsRightful, TargetsMatch, RegistryMatches
  <2>13. LinesOwned(p)' /\ RegistryOK(reg[p])'
    BY <2>2 DEF ProcOK, LinesOwned, Lines, RegistryOK
  <2>14. WikiRightful'
    BY <2>2 DEF IdentityInv, WikiRightful
  <2> QED
    BY <2>2, <2>3, <2>8, <2>9, <2>10, <2>11, <2>12, <2>13, <2>14, BusyStep DEF ProcOK
<1>3. ASSUME NEW j \in jobs[p], CompileFails(p, j)
      PROVE  IdentityInv'
  <2>1. /\ pc[p] = "compile" /\ cmd[p] = "build" /\ ProcOK(p)
        /\ jobs' = [jobs EXCEPT ![p] = @ \ {j}]
        /\ UNCHANGED <<tree, wiki, offered, alone, pc, cmd, todo, targets, reg>>
    BY <1>3 DEF CompileFails, IdentityInv
  <2>2. jobs'[p] = jobs[p] \ {j} /\ OnlyLocal(p)
    BY <2>1 DEF TypeOK, OnlyLocal
  <2>3. /\ Phase(p)' /\ JobsHeld(p)' /\ ItemsRightful(p)' /\ OneLabel(p)' /\ OncePerSource(p)'
    BY <2>1, <2>2 DEF ProcOK, Phase, JobsHeld, ItemsRightful, OneLabel, OncePerSource
  <2>4. TargetsRightful(p)' /\ TargetsMatch(p)' /\ RegistryMatches(p)'
    BY <2>1 DEF ProcOK, TargetsRightful, TargetsMatch, RegistryMatches
  <2>5. LinesOwned(p)' /\ RegistryOK(reg[p])' /\ WikiRightful'
    BY <2>1 DEF ProcOK, LinesOwned, Lines, RegistryOK, IdentityInv, WikiRightful
  <2> QED
    BY <2>1, <2>2, <2>3, <2>4, <2>5, BusyStep DEF ProcOK
<1>4. ASSUME NEW j \in jobs[p], IngestFails(p, j)
      PROVE  IdentityInv'
  BY <1>4, ExitStep DEF IngestFails, IdentityInv, WikiRightful
<1>5. CASE LoadIds(p)
  <2>1. /\ pc[p] = "compile" /\ pc'[p] = "save" /\ jobs[p] = {} /\ ProcOK(p)
        /\ reg'[p] = LoadRegistry(wiki) /\ OnlyLocal(p)
        /\ UNCHANGED <<tree, wiki, offered, alone, cmd, jobs, todo, targets>>
    BY <1>5 DEF LoadIds, Step, TypeOK, OnlyLocal, IdentityInv
  <2>2. /\ RegistryOK(reg'[p]) /\ Lines(reg'[p]) /\ reg'[p].retired = {}
        /\ \A i \in Id : reg'[p].owner[i] = IF wiki[i] = None THEN None ELSE wiki[i].src
    BY <2>1, LoadOK DEF IdentityInv
  <2>3. Phase(p)' /\ JobsHeld(p)' /\ ItemsRightful(p)'
    BY <2>1 DEF ProcOK, Phase, JobsHeld, ItemsRightful
  <2>4. OneLabel(p)' /\ OncePerSource(p)'
    BY <2>1, <2>2 DEF ProcOK, OneLabel, OncePerSource
  <2>5. TargetsRightful(p)' /\ TargetsMatch(p)' /\ RegistryMatches(p)'
    BY <2>1, <2>2 DEF ProcOK, TargetsRightful, TargetsMatch, RegistryMatches
  <2>6. LinesOwned(p)' /\ RegistryOK(reg[p])' /\ WikiRightful'
    BY <2>1, <2>2 DEF LinesOwned, Lines, RegistryOK, IdentityInv, WikiRightful
  <2> QED
    BY <2>1, <2>3, <2>4, <2>5, <2>6, BusyStep DEF ProcOK
<1> QED
  BY <1>1, <1>2, <1>3, <1>4, <1>5 DEF Build
LEMMA IngestStep ==
  ASSUME TypeOK, IdentityInv, NEW p \in Proc, NEW l \in Owner, NEW c \in Content,
         Ingest(p, l, c)
  PROVE  IdentityInv'
<1>1. pc[p] = "idle" /\ pc'[p] = "compile" /\ cmd'[p] = "ingest"
  BY DEF Ingest, Start, Call, TypeOK
<1>2. /\ OnlyLocal(p) /\ jobs'[p] = {[src |-> l, c |-> c]}
      /\ UNCHANGED <<todo, targets, reg, wiki>>
  BY DEF Ingest, Start, TypeOK, OnlyLocal, disk
<1>3. /\ todo[p] = {} /\ TargetsRightful(p) /\ Lines(reg[p]) /\ RegistryOK(reg[p])
  BY <1>1, IdleFacts
<1>4. JobsHeld(p)' /\ ItemsRightful(p)' /\ OneLabel(p)' /\ OncePerSource(p)'
  BY <1>1, <1>2, <1>3 DEF JobsHeld, ItemsRightful, OneLabel, OncePerSource
<1>5. TargetsRightful(p)' /\ TargetsMatch(p)' /\ RegistryMatches(p)'
  BY <1>1, <1>2, <1>3 DEF TargetsRightful, TargetsMatch, RegistryMatches
<1>6. LinesOwned(p)' /\ RegistryOK(reg[p])'
  BY <1>2, <1>3 DEF LinesOwned, Lines, RegistryOK
<1> QED
  BY <1>2, <1>4, <1>5, <1>6, StartStep DEF Ingest

(* The payload of accept names a source in every article.                  *)
LEMMA HandedFacts ==
  ASSUME AllSourced, IdentityInv, NEW a \in Handed
  PROVE  a.src # NoSource /\ a.id \in Slug /\ a.fixed = FALSE /\ a.label = FALSE
<1>1. \A j \in offered : j.src # NoSource
  BY OwnerAssumption DEF IdentityInv, OfferedSourced
<1> QED
  BY <1>1 DEF Handed, AllSourced

(* accept queues one or two items whose sources are named. *)
LEMMA AcceptStep ==
  ASSUME AllSourced, TypeOK, IdentityInv, NEW p \in Proc,
         NEW a \in Handed, NEW b \in Handed, Accept(p, a, b)
  PROVE  IdentityInv'
<1>1. pc[p] = "idle" /\ pc'[p] = "save" /\ cmd'[p] = "accept"
  BY DEF Accept, Start, Call, TypeOK
<1>2. /\ OnlyLocal(p) /\ todo'[p] = {a, b} /\ reg'[p] = LoadRegistry(wiki)
      /\ UNCHANGED <<jobs, targets, wiki>>
  BY DEF Accept, Start, TypeOK, OnlyLocal, disk
<1>3. jobs[p] = {} /\ TargetsRightful(p)
  BY <1>1, IdleFacts
<1>4. \A x \in todo'[p] : x.src # NoSource /\ x.id \in Slug /\ ~ x.fixed /\ ~ x.label
  BY <1>2, HandedFacts
<1>5. /\ RegistryOK(reg'[p]) /\ Lines(reg'[p])
      /\ \A i \in Id : reg'[p].owner[i] = IF wiki[i] = None THEN None ELSE wiki[i].src
  BY <1>2, LoadOK DEF IdentityInv
<1>6. JobsHeld(p)' /\ ItemsRightful(p)' /\ OneLabel(p)' /\ OncePerSource(p)'
  BY <1>1, <1>2, <1>3, <1>4 DEF JobsHeld, ItemsRightful, OneLabel, OncePerSource
<1>7. TargetsRightful(p)' /\ TargetsMatch(p)' /\ RegistryMatches(p)'
  BY <1>1, <1>2, <1>3, <1>5 DEF TargetsRightful, TargetsMatch, RegistryMatches
<1>8. LinesOwned(p)' /\ RegistryOK(reg[p])'
  BY <1>5 DEF LinesOwned, Lines, RegistryOK
<1> QED
  BY <1>2, <1>6, <1>7, <1>8, StartStep DEF Accept

(* After the articles come the deletions and the derived files. *)
LEMMA WriteStep ==
  ASSUME DistinctIds, TypeOK, IdentityInv, NEW p \in Proc, Write(p)
  PROVE  IdentityInv'
<1> USE DEF disk, outer
<1>1. ASSUME wiki' = wiki
      PROVE  WikiRightful'
  BY <1>1 DEF IdentityInv, WikiRightful
<1>2. ASSUME NEW r \in todo[p], Save(p, r)
      PROVE  IdentityInv'
  BY <1>2, SaveStep
<1>3. CASE Saved(p)
  BY <1>1, <1>3, PhaseStep DEF Saved
<1>4. CASE Retire(p)
  <2>1. WikiRightful'
    BY <1>4 DEF Retire, WikiWithout, IdentityInv, WikiRightful
  <2> QED
    BY <1>4, <2>1, PhaseStep DEF Retire
<1>5. CASE RetireVecs(p)
  BY <1>1, <1>5, PhaseStep DEF RetireVecs
<1>6. CASE SaveCache(p)
  BY <1>1, <1>6, PhaseStep DEF SaveCache
<1>7. CASE List(p)
  BY <1>1, <1>7, PhaseStep DEF List
<1>8. CASE SaveIndex(p)
  BY <1>1, <1>8, ExitStep DEF SaveIndex
<1> QED
  BY <1>2, <1>3, <1>4, <1>5, <1>6, <1>7, <1>8 DEF Write

(* recompile writes articles back where it has found them. *)
LEMMA RedoStep ==
  ASSUME TypeOK, IdentityInv, NEW p \in Proc, Redo(p)
  PROVE  IdentityInv'
<1> USE DEF disk, outer, past
<1>1. ASSUME NEW ids \in SUBSET Id, RecompileLoad(p, ids)
      PROVE  IdentityInv'
  <2>1. pc[p] = "idle" /\ pc'[p] = "recompile" /\ cmd'[p] = "recompile"
    BY <1>1 DEF RecompileLoad, Start, Call, TypeOK
  <2>2. /\ OnlyLocal(p) /\ targets'[p] = {[id |-> i, art |-> wiki[i]] : i \in ids}
        /\ \A i \in ids : wiki[i] # None
        /\ UNCHANGED <<jobs, todo, reg, wiki>>
    BY <1>1 DEF RecompileLoad, Start, TypeOK, OnlyLocal
  <2>3. jobs[p] = {} /\ todo[p] = {} /\ Lines(reg[p]) /\ RegistryOK(reg[p])
    BY <2>1, IdleFacts
  <2>4. JobsHeld(p)' /\ ItemsRightful(p)' /\ OneLabel(p)' /\ OncePerSource(p)'
    BY <2>1, <2>2, <2>3 DEF JobsHeld, ItemsRightful, OneLabel, OncePerSource
  <2>5. \A t \in targets'[p] : t.id \in ids /\ t.art = wiki[t.id]
    BY <2>2
  <2>6. TargetsRightful(p)'
    BY <2>5 DEF TargetsRightful, IdentityInv, WikiRightful
  <2>7. \A t, u \in targets'[p] : t.id = u.id => t = u
    BY <2>2
  <2>8. TargetsMatch(p)' /\ RegistryMatches(p)'
    BY <2>1, <2>2, <2>5, <2>7 DEF TargetsMatch, RegistryMatches
  <2>9. LinesOwned(p)' /\ RegistryOK(reg[p])'
    BY <2>2, <2>3 DEF LinesOwned, Lines, RegistryOK
  <2> QED
    BY <1>1, <2>2, <2>4, <2>6, <2>8, <2>9, StartStep DEF RecompileLoad
<1>2. ASSUME NEW t \in targets[p], RecompileOne(p, t) \/ RecompileSkips(p, t)
      PROVE  IdentityInv'
  <2>1. /\ pc[p] = "recompile" /\ ProcOK(p)
        /\ targets' = [targets EXCEPT ![p] = @ \ {t}]
        /\ UNCHANGED <<tree, offered, alone, pc, cmd, jobs, todo, reg>>
    BY <1>2 DEF RecompileOne, RecompileSkips, IdentityInv
  <2>2. targets'[p] = targets[p] \ {t} /\ OnlyLocal(p)
    BY <2>1 DEF TypeOK, OnlyLocal
  <2>3. /\ t \in Target /\ t.id \in Id /\ t.art # None /\ Rightful(t.id, t.art)
        /\ \A u \in targets[p] \ {t} : u.id # t.id
    BY <2>1 DEF TypeOK, Target, ProcOK, TargetsMatch, TargetsRightful
  <2>4. \/ wiki' = wiki
        \/ wiki' = [wiki EXCEPT ![t.id] = Recompiled(t.art)] /\ t.art.raw # {}
    BY <1>2 DEF RecompileOne, RecompileSkips
  <2>5. t.art \in Article
    BY <2>3 DEF Target
  <2>6. Recompiled(t.art).src = t.art.src
    BY <2>5 DEF Recompiled, Article
  <2>7. WikiRightful'
    <3>1. CASE wiki' = wiki
      BY <3>1 DEF IdentityInv, WikiRightful
    <3>2. CASE wiki' = [wiki EXCEPT ![t.id] = Recompiled(t.art)] /\ t.art.raw # {}
      <4>1. Rightful(t.id, Recompiled(t.art))
        BY <2>3, <2>6, <3>2 DEF Rightful
      <4> QED
        BY <3>2, <4>1 DEF IdentityInv, WikiRightful, TypeOK
    <3> QED
      BY <2>4, <3>1, <3>2
  <2>8. ASSUME NEW u \in targets'[p]
        PROVE  wiki'[u.id] = wiki[u.id]
    <3>1. u.id # t.id /\ u.id \in Id
      BY <2>2, <2>3 DEF TypeOK, Target
    <3>2. CASE wiki' = wiki
      BY <3>2
    <3>3. CASE wiki' = [wiki EXCEPT ![t.id] = Recompiled(t.art)]
      BY <3>1, <3>3 DEF TypeOK
    <3> QED
      BY <2>4, <3>2, <3>3
  <2>9. /\ Phase(p)' /\ JobsHeld(p)' /\ ItemsRightful(p)' /\ OneLabel(p)' /\ OncePerSource(p)'
    BY <2>1 DEF ProcOK, Phase, JobsHeld, ItemsRightful, OneLabel, OncePerSource
  <2>10. TargetsRightful(p)' /\ TargetsMatch(p)' /\ RegistryMatches(p)'
    BY <2>1, <2>2, <2>8 DEF ProcOK, TargetsRightful, TargetsMatch, RegistryMatches
  <2>11. LinesOwned(p)' /\ RegistryOK(reg[p])'
    BY <2>1 DEF ProcOK, LinesOwned, Lines, RegistryOK
  <2> QED
    BY <2>1, <2>2, <2>7, <2>9, <2>10, <2>11, BusyStep DEF ProcOK
<1>3. CASE RecompileEnds(p)
  <2>1. WikiRightful'
    BY <1>3 DEF RecompileEnds, IdentityInv, WikiRightful
  <2> QED
    BY <1>3, <2>1, PhaseStep DEF RecompileEnds
<1> QED
  BY <1>1, <1>2, <1>3 DEF Redo

(* delete removes files and gives nobody an id. *)
LEMMA DeleteStep ==
  ASSUME TypeOK, IdentityInv, NEW p \in Proc, Delete(p)
  PROVE  IdentityInv'
<1> USE DEF disk, outer
<1>1. ASSUME wiki' = wiki
      PROVE  WikiRightful'
  BY <1>1 DEF IdentityInv, WikiRightful
<1>2. ASSUME NEW ids
      PROVE  wiki' = WikiWithout(ids) => WikiRightful'
  BY DEF WikiWithout, IdentityInv, WikiRightful
<1>3. ASSUME NEW i \in Id, DeleteLoad(p, i)
      PROVE  IdentityInv'
  <2>1. pc[p] = "idle" /\ pc'[p] = "dropRaws" /\ cmd'[p] = "delete"
    BY <1>3 DEF DeleteLoad, Start, Call, TypeOK
  <2>2. /\ OnlyLocal(p) /\ targets'[p] = {[id |-> i, art |-> wiki[i]]}
        /\ UNCHANGED <<jobs, todo, reg, wiki>>
    BY <1>3 DEF DeleteLoad, Start, TypeOK, OnlyLocal
  <2>3. jobs[p] = {} /\ todo[p] = {} /\ Lines(reg[p]) /\ RegistryOK(reg[p])
    BY <2>1, IdleFacts
  <2>4. JobsHeld(p)' /\ ItemsRightful(p)' /\ OneLabel(p)' /\ OncePerSource(p)'
    BY <2>1, <2>2, <2>3 DEF JobsHeld, ItemsRightful, OneLabel, OncePerSource
  <2>5. TargetsRightful(p)' /\ TargetsMatch(p)' /\ RegistryMatches(p)'
    BY <2>1, <2>2 DEF TargetsRightful, TargetsMatch, RegistryMatches, IdentityInv,
                      WikiRightful
  <2>6. LinesOwned(p)' /\ RegistryOK(reg[p])'
    BY <2>2, <2>3 DEF LinesOwned, Lines, RegistryOK
  <2> QED
    BY <1>3, <2>2, <2>4, <2>5, <2>6, StartStep DEF DeleteLoad
<1>4. ASSUME NEW t \in targets[p], DropRaws(p, t)
      PROVE  IdentityInv'
  BY <1>1, <1>4, PhaseStep DEF DropRaws
<1>5. ASSUME NEW t \in targets[p], Unlink(p, t)
      PROVE  IdentityInv'
  BY <1>2, <1>5, PhaseStep DEF Unlink
<1>6. CASE DeleteIndex(p)
  BY <1>1, <1>6, PhaseStep DEF DeleteIndex
<1>7. ASSUME NEW t \in targets[p], DeleteCache(p, t)
      PROVE  IdentityInv'
  BY <1>1, <1>7, PhaseStep DEF DeleteCache
<1>8. ASSUME NEW t \in targets[p], DeleteVecs(p, t)
      PROVE  IdentityInv'
  BY <1>1, <1>8, ExitStep DEF DeleteVecs
<1> QED
  BY <1>3, <1>4, <1>5, <1>6, <1>7, <1>8 DEF Delete
LEMMA CrashStep ==
  ASSUME TypeOK, IdentityInv, NEW p \in Proc, Crash(p) \/ CrashInWrite(p)
  PROVE  IdentityInv'
<1> USE DEF disk, outer
<1>1. CASE Crash(p)
  <2>1. WikiRightful'
    BY <1>1 DEF Crash, IdentityInv, WikiRightful
  <2> QED
    BY <1>1, <2>1, ExitStep DEF Crash
<1>2. CASE CrashInWrite(p)
  <2>1. \/ wiki' = wiki
        \/ \E i : wiki' = [wiki EXCEPT ![i] = TornArticle]
    BY <1>2 DEF CrashInWrite
  <2>2. \A i \in Id : Rightful(i, TornArticle)
    BY DEF Rightful, TornArticle
  <2>3. WikiRightful'
    BY <2>1, <2>2 DEF IdentityInv, WikiRightful, TypeOK
  <2>4. pc[p] # "idle" /\ Exit(p)
    BY <1>2 DEF CrashInWrite, IdentityInv, ProcOK, Phase
  <2> QED
    BY <1>2, <2>3, <2>4, ExitStep DEF CrashInWrite
<1> QED
  BY <1>1, <1>2

(* Commands that are over in one step.                                     *)
LEMMA ShortStep ==
  ASSUME TypeOK, IdentityInv, NEW p \in Proc,
         Prepare(p) \/ Clear(p) \/ \E i \in Id : AttachVector(p, i)
  PROVE  IdentityInv'
<1> USE DEF outer, local
<1>1. /\ pc[p] = "idle" /\ alone' = ~ Busy /\ UNCHANGED <<tree, local>>
  BY DEF Prepare, Clear, AttachVector, Call
<1>2. OnlyLocal(p)
  BY <1>1 DEF OnlyLocal
<1>3. OfferedSourced'
  <2>1. \A j \in Pending(cache) : j.src \in Source
    <3>1. \A j \in Pending(cache) : j.src \in TreeSource
      BY DEF Pending
    <3> QED
      BY <3>1, TreeAssumption
  <2>2. CASE Prepare(p)
    <3>1. offered' = offered \cup Pending(cache)
      BY <2>2 DEF Prepare
    <3> QED
      BY <2>1, <3>1 DEF IdentityInv, OfferedSourced
  <2>3. CASE ~ Prepare(p)
    BY <2>3 DEF Clear, AttachVector, IdentityInv, OfferedSourced
  <2> QED
    BY <2>2, <2>3
<1>4. WikiRightful'
  <2>1. \A i \in Id : wiki'[i] # None => wiki'[i] = wiki[i]
    BY DEF Prepare, Clear, AttachVector
  <2> QED
    BY <2>1 DEF IdentityInv, WikiRightful
<1>5. ProcOK(p)'
  BY <1>1, OtherOK DEF IdentityInv
<1> QED
  BY <1>1, <1>2, <1>3, <1>4, <1>5, CallStep

(* A source file changes. *)
LEMMA EditStep ==
  ASSUME TypeOK, IdentityInv, NEW s \in TreeSource, NEW c \in Content \cup {None}, Edit(s, c)
  PROVE  IdentityInv'
<1> USE DEF disk, outer, local, past
<1>1. TreeHeld'
  BY DEF Edit, TypeOK, IdentityInv, TreeHeld
<1>2. /\ OfferedSourced' /\ WikiRightful' /\ Solo'
  BY DEF Edit, IdentityInv, OfferedSourced, WikiRightful, Solo
<1>3. ASSUME NEW q \in Proc
      PROVE  ProcOK(q)'
  <2>1. ProcOK(q)
    BY DEF IdentityInv
  <2>2. UNCHANGED <<wiki, alone, pc, cmd, jobs, todo, targets, reg>>
    BY DEF Edit
  <2>3. /\ Phase(q)' /\ JobsHeld(q)' /\ ItemsRightful(q)' /\ OneLabel(q)' /\ OncePerSource(q)'
    BY <2>1, <2>2 DEF ProcOK, Phase, JobsHeld, ItemsRightful, OneLabel, OncePerSource
  <2>4. TargetsRightful(q)' /\ TargetsMatch(q)' /\ RegistryMatches(q)'
    BY <2>1, <2>2 DEF ProcOK, TargetsRightful, TargetsMatch, RegistryMatches
  <2>5. LinesOwned(q)' /\ RegistryOK(reg[q])'
    BY <2>1, <2>2 DEF ProcOK, LinesOwned, Lines, RegistryOK
  <2> QED
    BY <2>3, <2>4, <2>5 DEF ProcOK
<1> QED
  BY <1>1, <1>2, <1>3 DEF IdentityInv

(* Nothing changes. *)
LEMMA StutterStep ==
  ASSUME IdentityInv, UNCHANGED vars
  PROVE  IdentityInv'
<1>1. UNCHANGED <<tree, offered, wiki, alone, pc, cmd, jobs, todo, targets, reg>>
  BY DEF vars
<1>2. TreeHeld' /\ OfferedSourced' /\ WikiRightful' /\ Solo'
  BY <1>1 DEF IdentityInv, TreeHeld, OfferedSourced, WikiRightful, Solo
<1>3. ASSUME NEW q \in Proc
      PROVE  ProcOK(q)'
  <2>1. ProcOK(q)
    BY DEF IdentityInv
  <2>2. /\ Phase(q)' /\ JobsHeld(q)' /\ ItemsRightful(q)' /\ OneLabel(q)' /\ OncePerSource(q)'
    BY <1>1, <2>1 DEF ProcOK, Phase, JobsHeld, ItemsRightful, OneLabel, OncePerSource
  <2>3. TargetsRightful(q)' /\ TargetsMatch(q)' /\ RegistryMatches(q)'
    BY <1>1, <2>1 DEF ProcOK, TargetsRightful, TargetsMatch, RegistryMatches
  <2>4. LinesOwned(q)' /\ RegistryOK(reg[q])'
    BY <1>1, <2>1 DEF ProcOK, LinesOwned, Lines, RegistryOK
  <2> QED
    BY <2>2, <2>3, <2>4 DEF ProcOK
<1> QED
  BY <1>2, <1>3 DEF IdentityInv

(* The invariant holds of an empty scope ... *)
LEMMA IdentityInit ==
  ASSUME Init
  PROVE  IdentityInv
<1>1. /\ \A p \in Proc : /\ pc[p] = "idle" /\ cmd[p] = "none" /\ jobs[p] = {}
                         /\ todo[p] = {} /\ targets[p] = {} /\ reg[p] = EmptyRegistry
      /\ wiki = [i \in Id |-> None] /\ offered = {} /\ tree = NoFile
  BY DEF Init
<1>2. TreeHeld /\ OfferedSourced /\ WikiRightful /\ Solo
  BY <1>1 DEF TreeHeld, OfferedSourced, WikiRightful, Solo, NoFile
<1>3. RegistryOK(EmptyRegistry) /\ Lines(EmptyRegistry)
  BY OwnerAssumption DEF RegistryOK, Lines, EmptyRegistry, Owner
<1>4. ASSUME NEW p \in Proc
      PROVE  ProcOK(p)
  <2>1. Phase(p) /\ JobsHeld(p) /\ ItemsRightful(p) /\ OneLabel(p) /\ OncePerSource(p)
    BY <1>1 DEF Phase, JobsHeld, ItemsRightful, OneLabel, OncePerSource
  <2>2. TargetsRightful(p) /\ TargetsMatch(p) /\ RegistryMatches(p)
    BY <1>1 DEF TargetsRightful, TargetsMatch, RegistryMatches
  <2>3. LinesOwned(p) /\ RegistryOK(reg[p])
    BY <1>1, <1>3 DEF LinesOwned
  <2> QED
    BY <2>1, <2>2, <2>3 DEF ProcOK
<1> QED
  BY <1>2, <1>4 DEF IdentityInv

(* ... and every step keeps it. *)
LEMMA IdentityStep ==
  ASSUME DistinctIds, AllSourced, TypeOK, IdentityInv, [Next]_vars
  PROVE  IdentityInv'
<1>1. ASSUME NEW p \in Proc, Command(p)
      PROVE  IdentityInv'
  BY <1>1, BuildStep, WriteStep, RedoStep, DeleteStep, IngestStep, AcceptStep, ShortStep
     DEF Command
<1> QED
  BY <1>1, EditStep, CrashStep, StutterStep DEF Next

-----------------------------------------------------------------------------
(* The inductive invariant holds of every behaviour: whatever is on disk   *)
(* or in the memory of a process stands under an id its source may hold.   *)
THEOREM IdentityHolds ==
  ASSUME DistinctIds, AllSourced
  PROVE  Spec => []IdentityInv
<1>1. Init => IdentityInv
  BY IdentityInit
<1>2. TypeOK /\ IdentityInv /\ [Next]_vars => IdentityInv'
  BY IdentityStep
<1> QED
  BY <1>1, <1>2, TypeCorrect, PTL DEF Spec

(* A command never gives an article an id whose file it is going to delete *)
(* (retireTwins), for any number of processes that overlap in any way and  *)
(* die anywhere, as long as no two glossary files declare the same id, no  *)
(* declared id is one a title can lead to, and every article that accept   *)
(* is handed names its source.                                             *)
THEOREM RetiredFree ==
  ASSUME DistinctIds, AllSourced
  PROVE  Spec => []RetiredStayFree
<1>1. TypeOK /\ IdentityInv => RetiredStayFree
  <2> SUFFICES ASSUME TypeOK, IdentityInv, NEW p \in Proc, NEW i \in reg[p].retired
               PROVE  reg[p].owner[i] # NoSource /\ \A e \in reg[p].entries : e.id # i
    BY DEF RetiredStayFree
  <2>1. reg[p] \in Registry /\ RegistryOK(reg[p])
    BY DEF TypeOK, IdentityInv, ProcOK
  <2>2. reg[p].owner[i] \in Source
    BY <2>1, RetiredOwner
  <2> QED
    BY <2>1, <2>2, OwnerAssumption DEF RegistryOK
<1> QED
  BY <1>1, TypeCorrect, IdentityHolds, PTL

(* Under the same conditions, a command that runs alone replaces an        *)
(* article by one of the same source, by the remains of its own cut-short  *)
(* write, or by one without a source (IDRegistry).                         *)
THEOREM NoOverwrite ==
  ASSUME DistinctIds, AllSourced
  PROVE  Spec => NoForeignOverwrite
<1> DEFINE Kept(i) ==
      (alone /\ wiki[i] # None /\ wiki'[i] # None /\ wiki'[i].src # wiki[i].src)
        => wiki'[i].src = NoSource \/ wiki[i].kind = "torn"
<1>1. TypeOK /\ IdentityInv /\ [Next]_vars => [\A i \in Id : Kept(i)]_vars
  <2> SUFFICES ASSUME TypeOK, IdentityInv, Next, NEW i \in Id, alone, wiki[i] # None,
                      wiki'[i] # None, wiki'[i].src # wiki[i].src
               PROVE  wiki'[i].src = NoSource \/ wiki[i].kind = "torn"
    OBVIOUS
  <2> USE DEF disk, outer, past
  <2>1. ASSUME NEW p \in Proc, NEW r \in todo[p], Save(p, r)
        PROVE  wiki'[i].src = NoSource \/ wiki[i].kind = "torn"
    <3> DEFINE claim == Resolve(p, r)
               art == [src |-> r.src, raw |-> r.raw, ver |-> claim.ver, kind |-> r.kind]
    <3>1. wiki' = [wiki EXCEPT ![claim.id] = art] /\ pc[p] = "save" /\ ProcOK(p)
      BY <2>1 DEF Save, IdentityInv
    <3>2. r.src \in Owner /\ art.src = r.src
      BY DEF TypeOK, Item
    <3> HIDE DEF claim, art
    <3>3. i = claim.id /\ wiki'[i] = art
      BY <3>1 DEF TypeOK
    <3>4. reg[p].owner[i] = wiki[i].src
      BY <3>1 DEF ProcOK, RegistryMatches
    <3>5. CASE r.src \in Source
      <4>1. ClaimOK(reg[p], claim, r.src)
        BY <3>1, <3>5, ResolveOK DEF claim
      <4>2. wiki[i] \in Article /\ wiki[i].src \notin Source
        BY <3>2, <3>3, <3>4, <4>1 DEF ClaimOK, TypeOK
      <4>3. wiki[i].src = NoSource
        BY <4>2 DEF Article, Owner
      <4>4. i \in Own(r.src) /\ i \notin Slug
        BY <3>3, <3>4, <3>5, <4>1, <4>3 DEF ClaimOK, DistinctIds
      <4> QED
        BY <4>3, <4>4 DEF IdentityInv, WikiRightful, Rightful
    <3>6. CASE r.src = NoSource
      BY <3>2, <3>3, <3>6
    <3> QED
      BY <3>2, <3>5, <3>6 DEF Owner
  <2>2. ASSUME NEW p \in Proc, NEW t \in targets[p], RecompileOne(p, t)
        PROVE  FALSE
    <3>1. /\ wiki' = [wiki EXCEPT ![t.id] = Recompiled(t.art)]
          /\ wiki[t.id] = t.art /\ t.art \in Article
      BY <2>2 DEF RecompileOne, IdentityInv, ProcOK, TargetsMatch, TypeOK, Target
    <3>2. Recompiled(t.art).src = t.art.src
      BY <3>1 DEF Recompiled, Article
    <3> QED
      BY <3>1, <3>2 DEF TypeOK
  <2>3. ASSUME NEW p \in Proc, CrashInWrite(p)
        PROVE  wiki'[i].src = NoSource
    <3>1. wiki'[i] = TornArticle
      BY <2>3 DEF CrashInWrite, TypeOK
    <3> QED
      BY <3>1 DEF TornArticle
  <2>4. ASSUME wiki'[i] = wiki[i] \/ wiki'[i] = None
        PROVE  FALSE
    BY <2>4
  <2>5. ASSUME NEW p \in Proc, Write(p)
        PROVE  wiki'[i].src = NoSource \/ wiki[i].kind = "torn"
    BY <2>1, <2>4, <2>5 DEF Write, Saved, Retire, WikiWithout, RetireVecs, SaveCache, List,
                           SaveIndex
  <2>6. ASSUME NEW p \in Proc, Build(p) \/ Redo(p)
        PROVE  FALSE
    BY <2>2, <2>4, <2>6 DEF Build, BuildScan, Compile, CompileFails, IngestFails, LoadIds,
                           Redo, RecompileLoad, RecompileSkips, RecompileEnds
  <2>7. ASSUME NEW p \in Proc, Delete(p)
        PROVE  FALSE
    BY <2>4, <2>7 DEF Delete, DeleteLoad, DropRaws, Unlink, WikiWithout, DeleteIndex,
                     DeleteCache, DeleteVecs
  <2>8. ASSUME NEW p \in Proc, \/ \E l \in Owner, c \in Content : Ingest(p, l, c)
                               \/ \E a, b \in Handed : Accept(p, a, b)
                               \/ Prepare(p) \/ Clear(p)
                               \/ \E j \in Id : AttachVector(p, j)
                               \/ Crash(p)
        PROVE  FALSE
    BY <2>4, <2>8 DEF Ingest, Accept, Prepare, Clear, AttachVector, Crash
  <2>9. ASSUME NEW s \in TreeSource, NEW c \in Content \cup {None}, Edit(s, c)
        PROVE  FALSE
    BY <2>4, <2>9 DEF Edit
  <2> QED
    BY <2>3, <2>5, <2>6, <2>7, <2>8, <2>9 DEF Next, Command
<1> QED
  BY <1>1, TypeCorrect, IdentityHolds, PTL DEF Spec, NoForeignOverwrite
-----------------------------------------------------------------------------
(***************************************************************************)
(* The files of a scope agree with each other: the index and the           *)
(* embeddings with the articles for any ids whatever, the hash cache with  *)
(* the articles under ids that are told apart as DistinctIds says.         *)
(***************************************************************************)

(* What a step of process p is: p runs already and nothing is forgotten,   *)
(* or p starts and knows whether it is alone; no other process moves.      *)
Moves(p) ==
  /\ \A q \in Proc \ {p} :
       /\ pc'[q] = pc[q] /\ cmd'[q] = cmd[q] /\ jobs'[q] = jobs[q] /\ todo'[q] = todo[q]
       /\ targets'[q] = targets[q] /\ reg'[q] = reg[q] /\ snap'[q] = snap[q]
       /\ listing'[q] = listing[q] /\ seen'[q] = seen[q]
  /\ \/ /\ pc[p] # "idle" /\ alone' = alone
        /\ \/ suspect' \in {suspect, Files}
           \/ alone /\ suspect' = suspect \ {"index"}
     \/ /\ pc[p] = "idle" /\ alone' = ~ Busy
        /\ Busy => suspect' = Files
        /\ suspect' \in {suspect, Files} \/ Clear(p)

(* Every process has its own place in the local state. *)
Places ==
  /\ DOMAIN pc = Proc /\ DOMAIN cmd = Proc /\ DOMAIN jobs = Proc /\ DOMAIN todo = Proc
  /\ DOMAIN targets = Proc /\ DOMAIN reg = Proc /\ DOMAIN snap = Proc
  /\ DOMAIN listing = Proc /\ DOMAIN seen = Proc

(* Types say so. *)
LEMMA PlacesOK == TypeOK => Places
BY DEF TypeOK, Places

(* A process that starts a command or runs one moves alone.                *)
LEMMA CommandMoves ==
  ASSUME TypeOK, NEW p \in Proc, Command(p) \/ Crash(p) \/ CrashInWrite(p)
  PROVE  Moves(p)
<1> USE DEF disk, outer, past, local, Moves
<1>0. Places
  BY PlacesOK
<1>1. ASSUME Exit(p), pc[p] # "idle",
             suspect' \in {suspect, Files} \/ (alone /\ suspect' = suspect \ {"index"})
      PROVE  Moves(p)
  BY <1>0, <1>1 DEF Places, Exit
<1>2. CASE Build(p)
  <2>1. CASE BuildScan(p)
    BY <1>0, <2>1 DEF Places, BuildScan, Start, Call
  <2>2. ASSUME NEW j, Compile(p, j)
        PROVE  Moves(p)
    BY <1>0, <2>2 DEF Places, Compile
  <2>3. ASSUME NEW j, CompileFails(p, j)
        PROVE  Moves(p)
    BY <1>0, <2>3 DEF Places, CompileFails
  <2>4. ASSUME NEW j, IngestFails(p, j)
        PROVE  Moves(p)
    BY <1>1, <2>4 DEF IngestFails
  <2>5. CASE LoadIds(p)
    BY <1>0, <2>5 DEF Places, LoadIds, Step
  <2> QED
    BY <1>2, <2>1, <2>2, <2>3, <2>4, <2>5 DEF Build
<1>3. CASE Write(p)
  <2>1. ASSUME NEW r, Save(p, r)
        PROVE  Moves(p)
    <3>1. CASE snap' = snap
      BY <1>0, <2>1, <3>1 DEF Places, Save
    <3>2. CASE snap' = [snap EXCEPT ![p][r.src] = EntryFor(r, Resolve(p, r).id)]
      BY <1>0, <2>1, <3>2 DEF Places, Save
    <3> QED
      BY <2>1, <3>1, <3>2 DEF Save
  <2>2. CASE Saved(p) \/ Retire(p) \/ RetireVecs(p) \/ SaveCache(p)
    BY <1>0, <2>2 DEF Places, Saved, Retire, RetireVecs, SaveCache, Step
  <2>3. CASE List(p)
    BY <1>0, <2>3 DEF Places, List, Step
  <2>4. CASE SaveIndex(p)
    BY <1>1, <2>4 DEF SaveIndex
  <2> QED
    BY <1>3, <2>1, <2>2, <2>3, <2>4 DEF Write
<1>4. CASE Redo(p)
  <2>1. ASSUME NEW ids, RecompileLoad(p, ids)
        PROVE  Moves(p)
    BY <1>0, <2>1 DEF Places, RecompileLoad, Start, Call
  <2>2. ASSUME NEW t, RecompileOne(p, t) \/ RecompileSkips(p, t)
        PROVE  Moves(p)
    BY <1>0, <2>2 DEF Places, RecompileOne, RecompileSkips
  <2>3. CASE RecompileEnds(p)
    BY <1>0, <2>3 DEF Places, RecompileEnds, Step
  <2> QED
    BY <1>4, <2>1, <2>2, <2>3 DEF Redo
<1>5. CASE Delete(p)
  <2>1. ASSUME NEW i, DeleteLoad(p, i)
        PROVE  Moves(p)
    BY <1>0, <2>1 DEF Places, DeleteLoad, Start, Call
  <2>2. ASSUME NEW t, DropRaws(p, t) \/ Unlink(p, t) \/ DeleteIndex(p) \/ DeleteCache(p, t)
        PROVE  Moves(p)
    BY <1>0, <2>2 DEF Places, DropRaws, Unlink, DeleteIndex, DeleteCache, Step
  <2>3. ASSUME NEW t, DeleteVecs(p, t)
        PROVE  Moves(p)
    BY <1>1, <2>3 DEF DeleteVecs
  <2> QED
    BY <1>5, <2>1, <2>2, <2>3 DEF Delete
<1>6. ASSUME NEW l, NEW c, Ingest(p, l, c)
      PROVE  Moves(p)
  BY <1>0, <1>6 DEF Places, Ingest, Start, Call
<1>7. ASSUME NEW a, NEW b, Accept(p, a, b)
      PROVE  Moves(p)
  BY <1>0, <1>7 DEF Places, Accept, Start, Call
<1>8. CASE Prepare(p) \/ Clear(p) \/ \E i \in Id : AttachVector(p, i)
  BY <1>8 DEF Prepare, AttachVector, Call, Clear
<1>9. CASE Crash(p)
  BY <1>1, <1>9 DEF Crash
<1>10. CASE CrashInWrite(p)
  <2>1. pc[p] # "idle" /\ Exit(p) /\ suspect' = Files
    BY <1>10 DEF CrashInWrite
  <2> QED
    BY <1>1, <2>1
<1> QED
  BY <1>2, <1>3, <1>4, <1>5, <1>6, <1>7, <1>8, <1>9, <1>10 DEF Command

(* No step lets two commands run alone, nor a delete load two articles. *)
LEMMA LoneStep ==
  ASSUME TypeOK, LoneInv, [Next]_vars
  PROVE  LoneInv'
<1> USE DEF disk, outer, past, local
<1>1. CASE UNCHANGED vars
  BY <1>1 DEF LoneInv, Solo, Overlapped, DeletesOne, vars
<1>2. CASE \E s \in TreeSource, c \in Content \cup {None} : Edit(s, c)
  BY <1>2 DEF LoneInv, Solo, Overlapped, DeletesOne, Edit
<1>3. ASSUME NEW p \in Proc, Command(p) \/ Crash(p) \/ CrashInWrite(p)
      PROVE  LoneInv'
  <2>1. Moves(p)
    BY <1>3, CommandMoves
  <2>2. Overlapped'
    <3>1. CASE pc[p] # "idle"
      BY <2>1, <3>1 DEF Moves, LoneInv, Overlapped, Files
    <3>2. CASE pc[p] = "idle"
      BY <2>1, <3>2 DEF Moves, Overlapped
    <3> QED
      BY <3>1, <3>2
  <2>3. Solo'
    <3>1. alone' => \A q \in Proc \ {p} : pc[q] = "idle" /\ pc'[q] = "idle"
      BY <2>1 DEF Moves, LoneInv, Solo, Busy
    <3> QED
      BY <3>1 DEF Solo
  <2>4. DeletesOne(p)'
    <3>1. CASE Build(p)
      <4>1. CASE BuildScan(p) \/ LoadIds(p)
        BY <4>1 DEF TypeOK, DeletesOne, Deleting, BuildScan, LoadIds, Start, Step
      <4>2. ASSUME NEW j, Compile(p, j) \/ CompileFails(p, j)
            PROVE  DeletesOne(p)'
        BY <4>2 DEF DeletesOne, Deleting, Compile, CompileFails
      <4>3. ASSUME NEW j, IngestFails(p, j)
            PROVE  DeletesOne(p)'
        BY <4>3 DEF TypeOK, DeletesOne, Deleting, IngestFails, Exit
      <4> QED
        BY <3>1, <4>1, <4>2, <4>3 DEF Build
    <3>2. CASE Write(p)
      BY <3>2 DEF TypeOK, DeletesOne, Deleting, Write, Save, Saved, Retire, RetireVecs,
                  SaveCache, List, SaveIndex, Step, Exit
    <3>3. CASE Redo(p)
      BY <3>3 DEF TypeOK, DeletesOne, Deleting, Redo, RecompileLoad, RecompileOne,
                  RecompileSkips, RecompileEnds, Start, Call, Step
    <3>4. CASE Delete(p)
      <4>1. ASSUME NEW i, DeleteLoad(p, i)
            PROVE  DeletesOne(p)'
        BY <4>1 DEF TypeOK, DeletesOne, DeleteLoad, Start
      <4>2. ASSUME NEW t, \/ DropRaws(p, t) \/ Unlink(p, t) \/ DeleteIndex(p)
                          \/ DeleteCache(p, t)
            PROVE  DeletesOne(p)'
        BY <4>2 DEF LoneInv, DeletesOne, Deleting, DropRaws, Unlink, DeleteIndex,
                    DeleteCache, Step
      <4>3. ASSUME NEW t, DeleteVecs(p, t)
            PROVE  DeletesOne(p)'
        BY <4>3 DEF TypeOK, DeletesOne, Deleting, DeleteVecs, Exit
      <4> QED
        BY <3>4, <4>1, <4>2, <4>3 DEF Delete
    <3>5. CASE \E l \in Owner, c \in Content : Ingest(p, l, c)
      BY <3>5 DEF TypeOK, DeletesOne, Deleting, Ingest, Start, Call
    <3>6. CASE \E a, b \in Handed : Accept(p, a, b)
      BY <3>6 DEF TypeOK, DeletesOne, Deleting, Accept, Start, Call
    <3>7. CASE Prepare(p) \/ Clear(p) \/ \E i \in Id : AttachVector(p, i)
      BY <3>7 DEF LoneInv, DeletesOne, Prepare, Clear, AttachVector, Call
    <3>8. CASE Crash(p) \/ CrashInWrite(p)
      BY <3>8 DEF TypeOK, DeletesOne, Deleting, Crash, CrashInWrite, Exit
    <3> QED
      BY <1>3, <3>1, <3>2, <3>3, <3>4, <3>5, <3>6, <3>7, <3>8 DEF Command
  <2>5. ASSUME NEW q \in Proc \ {p}
        PROVE  DeletesOne(q)'
    BY <2>1 DEF Moves, LoneInv, DeletesOne
  <2> QED
    BY <2>2, <2>3, <2>4, <2>5 DEF LoneInv
<1> QED
  BY <1>1, <1>2, <1>3 DEF Next

(* recompile works on articles, in every behaviour. *)
LEMMA LoadedHolds == Spec => []TargetsLoaded
<1>1. Init => TargetsLoaded
  BY DEF Init, TargetsLoaded
<1> QED
  BY <1>1, LoadedStep, TypeCorrect, PTL DEF Spec

(* So one command at a time is at work as long as none have overlapped. *)
LEMMA LoneHolds == Spec => []LoneInv
<1>1. Init => LoneInv
  BY DEF Init, LoneInv, Solo, Overlapped, DeletesOne, Deleting
<1>2. TypeOK /\ LoneInv /\ [Next]_vars => LoneInv'
  BY LoneStep
<1> QED
  BY <1>1, <1>2, TypeCorrect, PTL DEF Spec

-----------------------------------------------------------------------------
(* Embeddings.                                                             *)

(* As long as the embeddings are not under suspicion, whoever moves is the *)
(* only one to have removed an article and not its embedding.              *)
VectorsOK(p) == \A i \in vecs : wiki[i] # None \/ i \in Doomed(p)

(* Who moves while the embeddings are not under suspicion is the only one at work. *)
LEMMA AtWork ==
  ASSUME LoneInv, NEW p \in Proc, Moves(p), alone'
  PROVE  /\ \A q \in Proc \ {p} : pc[q] = "idle" /\ pc'[q] = "idle"
         /\ \/ pc[p] # "idle" /\ alone
            \/ pc[p] = "idle" /\ ~ Busy
BY DEF Moves, LoneInv, Solo, Busy

(* No step of a command takes an article away before it may lose its       *)
(* embedding, and none forgets one it has to take.                         *)
LEMMA VectorsCommand ==
  ASSUME TypeOK, TargetsLoaded, LoneInv, NEW p \in Proc, VectorsOK(p), Command(p)
  PROVE  VectorsOK(p)'
<1> USE DEF disk, outer, past, local, VectorsOK, Doomed
<1>1. ASSUME UNCHANGED <<wiki, vecs>>,
             pc[p] \notin {"retireVecs", "delIndex", "delCache", "delVecs"}
      PROVE  VectorsOK(p)'
  BY <1>1
<1>2. CASE Build(p)
  BY <1>1, <1>2 DEF Build, BuildScan, Compile, CompileFails, IngestFails, LoadIds, Start, Call, Step
<1>3. CASE Write(p)
  <2>1. ASSUME NEW r \in todo[p], Save(p, r)
        PROVE  VectorsOK(p)'
    <3>1. Resolve(p, r) \in Claimant /\ r \in Item
      BY ResolveType DEF TypeOK
    <3>2. [src |-> r.src, raw |-> r.raw, ver |-> Resolve(p, r).ver, kind |-> r.kind] # None
      <4>1. [src |-> r.src, raw |-> r.raw, ver |-> Resolve(p, r).ver, kind |-> r.kind] \in Article
        BY <3>1 DEF Item, Article, Claimant
      <4> QED
        BY <4>1, NoneAssumption
    <3>3. \A i \in Id : wiki[i] # None => wiki'[i] # None
      BY <2>1, <3>2 DEF Save, TypeOK
    <3> QED
      BY <2>1, <3>3 DEF Save, TypeOK
  <2>2. CASE Saved(p) \/ List(p) \/ SaveIndex(p) \/ SaveCache(p)
    BY <1>1, <2>2 DEF Saved, List, SaveIndex, SaveCache, Step
  <2>3. CASE Retire(p)
    BY <2>3 DEF TypeOK, Retire, WikiWithout, Step
  <2>4. CASE RetireVecs(p)
    BY <2>4 DEF TypeOK, RetireVecs, VecsWithout, Step
  <2> QED
    BY <1>3, <2>1, <2>2, <2>3, <2>4 DEF Write
<1>4. CASE Redo(p)
  <2>1. ASSUME NEW t \in targets[p], RecompileOne(p, t)
        PROVE  VectorsOK(p)'
    <3>1. Recompiled(t.art) \in Article
      BY <2>1, RecompiledType DEF RecompileOne, TargetsLoaded, TypeOK, Target
    <3>2. Recompiled(t.art) # None
      BY <3>1, NoneAssumption
    <3>3. \A i \in Id : wiki[i] # None => wiki'[i] # None
      BY <2>1, <3>2 DEF RecompileOne, TypeOK
    <3> QED
      BY <2>1, <3>3 DEF RecompileOne, TypeOK
  <2>2. ASSUME NEW ids, RecompileLoad(p, ids)
        PROVE  VectorsOK(p)'
    BY <1>1, <2>2 DEF RecompileLoad, Start, Call
  <2>3. ASSUME NEW t, RecompileSkips(p, t) \/ RecompileEnds(p)
        PROVE  VectorsOK(p)'
    BY <1>1, <2>3 DEF RecompileSkips, RecompileEnds, Step
  <2> QED
    BY <1>4, <2>1, <2>2, <2>3 DEF Redo
<1>5. CASE Delete(p)
  <2>1. ASSUME NEW i, DeleteLoad(p, i)
        PROVE  VectorsOK(p)'
    BY <1>1, <2>1 DEF DeleteLoad, Start, Call
  <2>2. ASSUME NEW t \in targets[p], DropRaws(p, t)
        PROVE  VectorsOK(p)'
    BY <1>1, <2>2 DEF DropRaws, Step
  <2>3. ASSUME NEW t \in targets[p], Unlink(p, t)
        PROVE  VectorsOK(p)'
    BY <2>3 DEF TypeOK, Unlink, WikiWithout, Step, Target
  <2>4. CASE DeleteIndex(p)
    BY <2>4 DEF TypeOK, DeleteIndex, Step
  <2>5. ASSUME NEW t \in targets[p], DeleteCache(p, t)
        PROVE  VectorsOK(p)'
    BY <2>5 DEF TypeOK, DeleteCache, Step
  <2>6. ASSUME NEW t \in targets[p], DeleteVecs(p, t)
        PROVE  VectorsOK(p)'
    <3>1. \A u \in targets[p] : u = t
      BY <2>6 DEF DeleteVecs, LoneInv, DeletesOne, Deleting
    <3> QED
      BY <2>6, <3>1 DEF TypeOK, DeleteVecs, VecsWithout
  <2> QED
    BY <1>5, <2>1, <2>2, <2>3, <2>4, <2>5, <2>6 DEF Delete
<1>6. CASE \/ \E l \in Owner, c \in Content : Ingest(p, l, c)
           \/ \E a, b \in Handed : Accept(p, a, b)
  BY <1>1, <1>6 DEF Ingest, Accept, Start, Call
<1>7. CASE Prepare(p)
  BY <1>1, <1>7 DEF Prepare, Call
<1>8. CASE Clear(p)
  BY <1>8 DEF Clear
<1>9. ASSUME NEW i \in Id, AttachVector(p, i)
      PROVE  VectorsOK(p)'
  BY <1>9 DEF AttachVector
<1> QED
  BY <1>2, <1>3, <1>4, <1>5, <1>6, <1>7, <1>8, <1>9 DEF Command

(* Nor does any other step. *)
LEMMA VectorsStep ==
  ASSUME TypeOK, TargetsLoaded, LoneInv, LoneInv', VectorsInv, [Next]_vars
  PROVE  VectorsInv'
<1> USE DEF disk, outer, past, local
<1>1. CASE UNCHANGED vars
  BY <1>1 DEF VectorsInv, Doomed, vars
<1>2. CASE \E s \in TreeSource, c \in Content \cup {None} : Edit(s, c)
  BY <1>2 DEF VectorsInv, Doomed, Edit
<1>3. ASSUME NEW p \in Proc, Crash(p) \/ CrashInWrite(p)
      PROVE  VectorsInv'
  BY <1>3 DEF VectorsInv, Crash, CrashInWrite, Files
<1>4. ASSUME NEW p \in Proc, Command(p)
      PROVE  VectorsInv'
  <2> SUFFICES ASSUME "vecs" \notin suspect'
               PROVE  VectorsOK(p)'
    BY DEF VectorsInv, VectorsOK
  <2>1. Moves(p)
    BY <1>4, CommandMoves
  <2>2. alone'
    BY DEF LoneInv, Overlapped, Files
  <2>3. \A q \in Proc \ {p} : pc[q] = "idle"
    BY <2>1, <2>2, AtWork
  <2>4. \A i \in Id, q \in Proc \ {p} : i \notin Doomed(q)
    BY <2>3 DEF Doomed
  <2>5. CASE "vecs" \notin suspect
    <3>1. VectorsOK(p)
      BY <2>4, <2>5 DEF VectorsInv, VectorsOK, TypeOK
    <3> QED
      BY <1>4, <3>1, VectorsCommand
  <2>6. CASE Clear(p)
    BY <2>6 DEF Clear, VectorsOK
  <2>7. ~ Clear(p) => "vecs" \notin suspect
    BY <2>1 DEF Moves, Files
  <2> QED
    BY <2>5, <2>6, <2>7
<1> QED
  BY <1>1, <1>2, <1>3, <1>4 DEF Next

-----------------------------------------------------------------------------
(* The index.                                                              *)

(* What is true of the index while p is the only process at work. *)
IndexOK(p) ==
  /\ ListingOK(p)
  /\ "index" \notin suspect /\ pc[p] \in Unwritten => \A i \in Id : index[i] = Listed(i)

(* A command that does not write articles or the index. *)
LEMMA IndexKeeps ==
  ASSUME NEW p \in Proc, IndexOK(p), UNCHANGED <<wiki, index>>,
         pc'[p] \notin {"index", "dropRaws", "unlink", "delIndex"},
         pc'[p] \in Unwritten => pc[p] \in Unwritten,
         "index" \notin suspect' => "index" \notin suspect
  PROVE  IndexOK(p)'
BY DEF IndexOK, ListingOK, Listed

(* Every command leaves an index that lists the wiki, or is about to.      *)
LEMMA IndexCommand ==
  ASSUME TypeOK, LoneInv, NEW p \in Proc, IndexOK(p), Command(p), alone',
         pc[p] # "idle" => alone
  PROVE  IndexOK(p)'
<1> USE DEF disk, outer, past, local, Unwritten
<1>1. CASE Build(p)
  <2>1. CASE BuildScan(p) \/ LoadIds(p)
    BY <2>1, IndexKeeps DEF TypeOK, BuildScan, LoadIds, Start, Call, Step
  <2>2. ASSUME NEW j, Compile(p, j) \/ CompileFails(p, j)
        PROVE  IndexOK(p)'
    BY <2>2, IndexKeeps DEF Compile, CompileFails
  <2>3. ASSUME NEW j, IngestFails(p, j)
        PROVE  IndexOK(p)'
    BY <2>3, IndexKeeps DEF TypeOK, IngestFails, Exit
  <2> QED
    BY <1>1, <2>1, <2>2, <2>3 DEF Build
<1>2. CASE Write(p)
  <2>1. ASSUME NEW r, Save(p, r)
        PROVE  IndexOK(p)'
    BY <2>1 DEF Save, IndexOK, ListingOK
  <2>2. CASE Saved(p) \/ RetireVecs(p) \/ SaveCache(p)
    BY <2>2, IndexKeeps DEF TypeOK, Saved, RetireVecs, SaveCache, Step
  <2>3. CASE Retire(p)
    BY <2>3 DEF TypeOK, Retire, Step, IndexOK, ListingOK
  <2>4. CASE List(p)
    <3>1. pc'[p] = "index" /\ listing'[p] = Listing(p) /\ wiki' = wiki
      BY <2>4 DEF TypeOK, List, Step
    <3>2. \A i \in Id : Listing(p)[i] = Listed(i)
      BY DEF Listing, Listed
    <3> QED
      BY <3>1, <3>2 DEF IndexOK, ListingOK, Listed
  <2>5. CASE SaveIndex(p)
    <3>1. pc'[p] = "idle" /\ index' = listing[p] /\ wiki' = wiki
      BY <2>5 DEF TypeOK, SaveIndex, Exit
    <3>2. \A i \in Id : listing[p][i] = Listed(i)
      BY <2>5 DEF SaveIndex, IndexOK, ListingOK
    <3> QED
      BY <3>1, <3>2 DEF IndexOK, ListingOK, Listed
  <2> QED
    BY <1>2, <2>1, <2>2, <2>3, <2>4, <2>5 DEF Write
<1>3. CASE Redo(p)
  <2>1. ASSUME NEW ids, RecompileLoad(p, ids)
        PROVE  IndexOK(p)'
    BY <2>1, IndexKeeps DEF TypeOK, RecompileLoad, Start, Call
  <2>2. ASSUME NEW t, RecompileOne(p, t) \/ RecompileSkips(p, t)
        PROVE  IndexOK(p)'
    BY <2>2 DEF RecompileOne, RecompileSkips, IndexOK, ListingOK
  <2>3. CASE RecompileEnds(p)
    BY <2>3, IndexKeeps DEF TypeOK, RecompileEnds, Step
  <2> QED
    BY <1>3, <2>1, <2>2, <2>3 DEF Redo
<1>4. CASE Delete(p)
  <2>1. ASSUME NEW i \in Id, DeleteLoad(p, i)
        PROVE  IndexOK(p)'
    <3>1. /\ pc[p] = "idle" /\ pc'[p] = "dropRaws" /\ suspect' \in {suspect, Files}
          /\ targets'[p] = {[id |-> i, art |-> wiki[i]]}
          /\ listing'[p] = IndexWithout(i) /\ UNCHANGED <<wiki, index>>
      BY <2>1 DEF TypeOK, DeleteLoad, Start, Call
    <3>2. CASE "index" \in suspect'
      BY <3>1, <3>2 DEF IndexOK, ListingOK
    <3>3. CASE "index" \notin suspect'
      <4>1. \A k \in Id : index[k] = Listed(k)
        BY <3>1, <3>3 DEF IndexOK, Files
      <4>2. \A k \in Id : listing'[p][k] = IF k = i THEN 0 ELSE Listed(k)
        BY <3>1, <4>1 DEF TypeOK, IndexWithout
      <4> QED
        BY <3>1, <4>1, <4>2 DEF IndexOK, ListingOK, Listed
    <3> QED
      BY <3>2, <3>3
  <2>2. ASSUME NEW t \in targets[p], DropRaws(p, t)
        PROVE  IndexOK(p)'
    BY <2>2 DEF TypeOK, DropRaws, Step, IndexOK, ListingOK, Listed
  <2>3. ASSUME NEW t \in targets[p], Unlink(p, t)
        PROVE  IndexOK(p)'
    <3>1. /\ pc[p] = "unlink" /\ pc'[p] = "delIndex" /\ wiki' = WikiWithout({t.id})
          /\ UNCHANGED <<index, suspect, targets, listing>>
      BY <2>3 DEF TypeOK, Unlink, Step
    <3>2. \A u \in targets[p] : u = t
      BY <3>1 DEF LoneInv, DeletesOne, Deleting
    <3>3. t.id \in Id
      BY DEF TypeOK, Target
    <3>4. wiki'[t.id] = None /\ \A i \in Id : i # t.id => wiki'[i] = wiki[i]
      BY <3>1, <3>3 DEF WikiWithout
    <3>5. CASE "index" \in suspect
      BY <3>1, <3>5 DEF IndexOK, ListingOK
    <3>6. CASE "index" \notin suspect
      <4>1. \A i \in Id : listing[p][i] = IF i = t.id THEN 0 ELSE Listed(i)
        BY <3>1, <3>6 DEF IndexOK, ListingOK
      <4>2. \A i \in Id : listing'[p][i] = IF i = t.id THEN 0 ELSE Listed(i)'
        BY <3>1, <3>4, <4>1 DEF Listed
      <4> QED
        BY <3>1, <3>2, <3>4, <4>2 DEF IndexOK, ListingOK
    <3> QED
      BY <3>5, <3>6
  <2>4. CASE DeleteIndex(p)
    <3>1. /\ pc[p] = "delIndex" /\ pc'[p] = "delCache" /\ index' = listing[p]
          /\ UNCHANGED <<wiki, suspect>>
      BY <2>4 DEF TypeOK, DeleteIndex, Step
    <3>2. CASE "index" \notin suspect
      <4>1. PICK t \in targets[p] : wiki[t.id] = None
        BY <3>1, <3>2 DEF IndexOK, ListingOK
      <4>2. \A i \in Id : listing[p][i] = IF i = t.id THEN 0 ELSE Listed(i)
        BY <3>1, <3>2 DEF IndexOK, ListingOK
      <4>3. \A i \in Id : listing[p][i] = Listed(i)
        BY <4>1, <4>2 DEF Listed
      <4> QED
        BY <3>1, <4>3 DEF IndexOK, ListingOK, Listed
    <3>3. CASE "index" \in suspect
      BY <3>1, <3>3 DEF IndexOK, ListingOK
    <3> QED
      BY <3>2, <3>3
  <2>5. ASSUME NEW t \in targets[p], DeleteCache(p, t)
        PROVE  IndexOK(p)'
    BY <2>5, IndexKeeps DEF TypeOK, DeleteCache, Step
  <2>6. ASSUME NEW t \in targets[p], DeleteVecs(p, t)
        PROVE  IndexOK(p)'
    BY <2>6, IndexKeeps DEF TypeOK, DeleteVecs, Exit
  <2> QED
    BY <1>4, <2>1, <2>2, <2>3, <2>4, <2>5, <2>6 DEF Delete
<1>5. ASSUME NEW l, NEW c, Ingest(p, l, c)
      PROVE  IndexOK(p)'
  BY <1>5, IndexKeeps DEF TypeOK, Ingest, Start, Call
<1>6. ASSUME NEW a, NEW b, Accept(p, a, b)
      PROVE  IndexOK(p)'
  BY <1>6, IndexKeeps DEF TypeOK, Accept, Start, Call
<1>7. ASSUME NEW i, Prepare(p) \/ AttachVector(p, i)
      PROVE  IndexOK(p)'
  BY <1>7, IndexKeeps DEF Prepare, AttachVector, Call
<1>8. CASE Clear(p)
  BY <1>8 DEF Clear, Call, IndexOK, ListingOK, Listed, NoIndex
<1> QED
  BY <1>1, <1>2, <1>3, <1>4, <1>5, <1>6, <1>7, <1>8 DEF Command

(* So the index lists the wiki between commands, unless it is suspect.     *)
LEMMA IndexStep ==
  ASSUME TypeOK, LoneInv, LoneInv', IndexInv, [Next]_vars
  PROVE  IndexInv'
<1> USE DEF disk, outer, past, local
<1>1. CASE UNCHANGED vars
  BY <1>1 DEF IndexInv, ListingOK, Listed, vars
<1>2. CASE \E s \in TreeSource, c \in Content \cup {None} : Edit(s, c)
  BY <1>2 DEF IndexInv, ListingOK, Listed, Edit
<1>3. ASSUME NEW p \in Proc, Command(p) \/ Crash(p) \/ CrashInWrite(p), alone'
      PROVE  IndexInv'
  <2>1. Moves(p)
    BY <1>3, CommandMoves
  <2>2. /\ \A q \in Proc \ {p} : pc[q] = "idle" /\ pc'[q] = "idle"
        /\ pc[p] # "idle" => alone
    BY <1>3, <2>1, AtWork
  <2>3. IndexOK(p)
    BY <2>2 DEF IndexInv, IndexOK, Unwritten
  <2>4. CASE Command(p)
    <3>1. IndexOK(p)'
      BY <1>3, <2>2, <2>3, <2>4, IndexCommand
    <3>2. \A q \in Proc \ {p} : ListingOK(q)'
      BY <2>2 DEF ListingOK
    <3> QED
      BY <3>1, <3>2 DEF IndexInv, IndexOK
  <2>5. CASE Crash(p) \/ CrashInWrite(p)
    <3>1. pc'[p] = "idle" /\ suspect' = Files
      BY <2>5 DEF TypeOK, Crash, CrashInWrite, Exit
    <3> QED
      BY <2>2, <3>1 DEF IndexInv, ListingOK, Files
  <2> QED
    BY <1>3, <2>4, <2>5
<1>4. ASSUME ~ alone'
      PROVE  IndexInv'
  <2>1. suspect' = Files
    BY <1>4 DEF LoneInv, Overlapped
  <2> QED
    BY <1>4, <2>1 DEF IndexInv, ListingOK, Files
<1> QED
  BY <1>1, <1>2, <1>3, <1>4 DEF Next

-----------------------------------------------------------------------------
(* Between commands, unless one was interrupted or two overlapped, no      *)
(* embedding outlives its article, whatever the ids, titles and sources    *)
(* (Retire, delete).                                                       *)
THEOREM VectorsAgree == Spec => []VectorsHaveArticles
<1>1. Init => VectorsInv
  BY DEF Init, VectorsInv
<1>2. TypeOK /\ TargetsLoaded /\ LoneInv /\ LoneInv' /\ VectorsInv /\ [Next]_vars => VectorsInv'
  BY VectorsStep
<1>3. TypeOK /\ VectorsInv => VectorsHaveArticles
  BY DEF VectorsInv, VectorsHaveArticles, Quiet, Doomed, TypeOK
<1> QED
  BY <1>1, <1>2, <1>3, TypeCorrect, LoadedHolds, LoneHolds, PTL DEF Spec

(* Between commands the index lists exactly the articles on disk, at their *)
(* versions, unless a crash or an overlap has put it under suspicion and   *)
(* no command that lists the wiki has run to its end alone since.          *)
THEOREM IndexAgrees == Spec => []IndexMatchesWiki
<1>1. Init => IndexInv
  BY DEF Init, IndexInv, ListingOK, Listed, NoIndex
<1>2. TypeOK /\ LoneInv /\ LoneInv' /\ IndexInv /\ [Next]_vars => IndexInv'
  BY IndexStep
<1>3. IndexInv => IndexMatchesWiki
  BY DEF IndexInv, IndexMatchesWiki, Quiet, Listed, Unwritten
<1> QED
  BY <1>1, <1>2, <1>3, TypeCorrect, LoneHolds, PTL DEF Spec
-----------------------------------------------------------------------------
(* One article per source.                                                 *)

(* Source s has no line in a registry but that of id. *)
OneLine(r, s, id) == \A e \in r.entries : e.src = s => e.id = id

(* What retireTwins removes it retires ... *)
LEMMA TwinsComplete ==
  ASSUME NEW r \in Registry, NEW s, NEW keep, NEW ids, Complete(r)
  PROVE  LET q == RetireTwins(r, s, keep, ids)
         IN  /\ Complete(q) /\ r.retired \subseteq q.retired
             /\ (\A e \in r.entries : e.src = s => e.id \in ids) => OneLine(q, s, keep)
<1> DEFINE twins == {e \in r.entries : e.src = s /\ e.id # keep /\ e.id \in ids}
           q == RetireTwins(r, s, keep, ids)
<1>1. /\ q.owner = r.owner /\ q.entries = r.entries \ twins
      /\ q.retired = r.retired \cup {e.id : e \in twins}
  BY DEF RetireTwins, Registry
<1> HIDE DEF q
<1>2. Complete(q)
  <2> SUFFICES ASSUME NEW i \in Id, q.owner[i] \in Source, i \notin q.retired
               PROVE  \E e \in q.entries : e.id = i /\ e.src = q.owner[i]
    BY DEF Complete
  <2>1. PICK e \in r.entries : e.id = i /\ e.src = r.owner[i]
    BY <1>1 DEF Complete
  <2>2. e \notin twins
    BY <1>1, <2>1
  <2> QED
    BY <1>1, <2>1, <2>2
<1>3. (\A e \in r.entries : e.src = s => e.id \in ids) => OneLine(q, s, keep)
  BY <1>1 DEF OneLine
<1> QED
  BY <1>1, <1>2, <1>3 DEF q

(* ... and what a claim records it adds.                                   *)
LEMMA ClaimedComplete ==
  ASSUME NEW r \in Registry, NEW s \in Owner, NEW id \in Id, NEW raw \in SUBSET Content,
         Complete(r)
  PROVE  LET c == Claimed(r, id, s, raw)
         IN  /\ c.id = id /\ Complete(c.reg) /\ c.reg.retired = r.retired
             /\ s \in Source /\ OneLine(r, s, id) => OneLine(c.reg, s, id)
<1> DEFINE v == r.ver[id] + 1
           q == Record(r, id, s, raw, v)
           new == [src |-> s, id |-> id, raw |-> raw]
           old == {e \in r.entries : e.src # s \/ e.id # id}
<1>1. /\ q.owner = [r.owner EXCEPT ![id] = s] /\ q.retired = r.retired
      /\ q.entries = IF s = NoSource THEN r.entries ELSE old \cup {new}
  BY DEF Record, Registry
<1>2. Claimed(r, id, s, raw).id = id /\ Claimed(r, id, s, raw).reg = q
  BY DEF Claimed
<1>3. r.owner \in [Id -> Owner \cup {None}]
  BY DEF Registry
<1> HIDE DEF q, v
<1>4. Complete(q)
  <2> SUFFICES ASSUME NEW i \in Id, q.owner[i] \in Source, i \notin q.retired
               PROVE  \E e \in q.entries : e.id = i /\ e.src = q.owner[i]
    BY DEF Complete
  <2>1. CASE i = id
    <3>1. q.owner[i] = s /\ s # NoSource
      BY <1>1, <1>3, <2>1, OwnerAssumption
    <3>2. new \in q.entries
      BY <1>1, <3>1
    <3> QED
      BY <2>1, <3>1, <3>2
  <2>2. CASE i # id
    <3>1. q.owner[i] = r.owner[i]
      BY <1>1, <1>3, <2>2
    <3>2. PICK e \in r.entries : e.id = i /\ e.src = r.owner[i]
      BY <1>1, <3>1 DEF Complete
    <3>3. e \in q.entries
      BY <1>1, <2>2, <3>2
    <3> QED
      BY <3>1, <3>2, <3>3
  <2> QED
    BY <2>1, <2>2
<1>5. s \in Source /\ OneLine(r, s, id) => OneLine(q, s, id)
  BY <1>1, OwnerAssumption DEF OneLine
<1> QED
  BY <1>1, <1>2, <1>4, <1>5

(* What a claim leaves of a registry: it stays complete, nothing retired   *)
(* comes back, and a source that is recognised by its path alone keeps one *)
(* line.                                                                   *)
SoleOK(r, c, s, label) ==
  /\ Complete(c.reg) /\ r.retired \subseteq c.reg.retired
  /\ s \in Source /\ ~ label => OneLine(c.reg, s, c.id)

(* Claim ... *)
LEMMA ClaimSole ==
  ASSUME NEW r \in Registry, NEW proposed \in Id, NEW s \in Owner,
         NEW raw \in SUBSET Content, NEW label \in BOOLEAN, Complete(r)
  PROVE  SoleOK(r, Claim(r, proposed, s, raw, label), s, label)
<1> DEFINE held == IF s = NoSource THEN {} ELSE Held(r, s, raw, label)
           keep == Keep(held, proposed)
           id == Disambiguate(r, proposed, s)
           q == RetireTwins(r, s, keep, held)
<1>1. held \subseteq Id
  BY HeldType
<1>2. s \in Source /\ ~ label => \A e \in r.entries : e.src = s => e.id \in held
  BY OwnerAssumption DEF Held
<1>3. CASE held # {}
  <2>1. Claim(r, proposed, s, raw, label) = Claimed(q, keep, s, raw)
    BY <1>3 DEF Claim
  <2> HIDE DEF held
  <2>2. keep \in Id
    BY <1>1, <1>3, KeepInHeld
  <2>3. q \in Registry
    BY RetireTwinsType
  <2>4. /\ Complete(q) /\ r.retired \subseteq q.retired
        /\ s \in Source /\ ~ label => OneLine(q, s, keep)
    BY <1>2, TwinsComplete
  <2> HIDE DEF q, keep
  <2> QED
    BY <2>1, <2>2, <2>3, <2>4, ClaimedComplete DEF SoleOK
<1>4. CASE held = {}
  <2>1. Claim(r, proposed, s, raw, label) = Claimed(r, id, s, raw)
    BY <1>4 DEF Claim
  <2>2. id \in Id
    BY DisambiguateType
  <2>3. s \in Source /\ ~ label => OneLine(r, s, id)
    BY <1>2, <1>4 DEF OneLine
  <2> HIDE DEF id
  <2> QED
    BY <2>1, <2>2, <2>3, ClaimedComplete DEF SoleOK
<1> QED
  BY <1>3, <1>4

(* ... and ClaimFixed. *)
LEMMA ClaimFixedSole ==
  ASSUME NEW r \in Registry, NEW id \in Id, NEW s \in Source, NEW raw \in SUBSET Content,
         Complete(r)
  PROVE  SoleOK(r, ClaimFixed(r, id, s, raw), s, FALSE)
<1> DEFINE held == Held(r, s, raw, FALSE)
           q == RetireTwins(r, s, id, held)
<1>1. \A e \in r.entries : e.src = s => e.id \in held
  BY DEF Held
<1> HIDE DEF held
<1>2. q \in Registry
  BY RetireTwinsType
<1>3. Complete(q) /\ r.retired \subseteq q.retired /\ OneLine(q, s, id)
  BY <1>1, TwinsComplete
<1>4. ClaimFixed(r, id, s, raw) = Claimed(q, id, s, raw)
  BY DEF ClaimFixed, q, held
<1> HIDE DEF q
<1> QED
  BY <1>2, <1>3, <1>4, ClaimedComplete DEF SoleOK, Owner

(* So does the claim of an item that is saved. *)
LEMMA ResolveSole ==
  ASSUME TypeOK, NEW p \in Proc, Complete(reg[p]), NEW r \in todo[p],
         r.fixed => r.src \in Source
  PROVE  SoleOK(reg[p], Resolve(p, r), r.src, r.label)
<1>1. /\ r \in Item /\ reg[p] \in Registry /\ r.src \in Owner
      /\ r.raw \in SUBSET Content /\ r.id \in Id /\ r.label \in BOOLEAN
  BY DEF TypeOK, Item
<1>2. CASE r.fixed
  <2> DEFINE c == ClaimFixed(reg[p], r.id, r.src, r.raw)
  <2>1. SoleOK(reg[p], c, r.src, FALSE)
    BY <1>1, <1>2, ClaimFixedSole
  <2>2. Resolve(p, r).id = c.id /\ Resolve(p, r).reg = c.reg
    BY <1>1, <1>2, ClaimFixedType DEF Resolve, Claimant
  <2> QED
    BY <2>1, <2>2 DEF SoleOK
<1>3. CASE ~ r.fixed
  BY <1>1, <1>3, ClaimSole DEF Resolve
<1> QED
  BY <1>2, <1>3

(* The registry of the wiki on disk knows every article of a source.       *)
LEMMA LoadComplete ==
  ASSUME TypeOK
  PROVE  Complete(LoadRegistry(wiki)) /\ LoadRegistry(wiki).retired = {}
<1> DEFINE r == LoadRegistry(wiki)
<1>1. /\ r.retired = {}
      /\ \A i \in Id : r.owner[i] = IF wiki[i] = None THEN None ELSE wiki[i].src
      /\ \A i \in Id : wiki[i] # None /\ wiki[i].src # NoSource =>
            [src |-> wiki[i].src, id |-> i, raw |-> wiki[i].raw] \in r.entries
  BY DEF LoadRegistry
<1> HIDE DEF r
<1>2. Complete(r)
  <2> SUFFICES ASSUME NEW i \in Id, r.owner[i] \in Source
               PROVE  \E e \in r.entries : e.id = i /\ e.src = r.owner[i]
    BY DEF Complete
  <2>1. wiki[i] # None /\ r.owner[i] = wiki[i].src /\ wiki[i].src # NoSource
    BY <1>1, OwnerAssumption DEF Owner
  <2>2. [src |-> wiki[i].src, id |-> i, raw |-> wiki[i].raw] \in r.entries
    BY <1>1, <2>1
  <2> QED
    BY <2>1, <2>2
<1> QED
  BY <1>1, <1>2 DEF r

(* An article that is saved while no other command runs leaves those of    *)
(* other sources be; if its source is recognised by its path, that source  *)
(* keeps this article alone.                                               *)
LEMMA SaveSole ==
  ASSUME DistinctIds, TypeOK, IdentityInv, IdentityInv', NEW p \in Proc, Complete(reg[p]),
         NEW r \in todo[p], r.src \in Source, alone, Save(p, r)
  PROVE  LET i == Resolve(p, r).id
             gone == reg[p].retired
         IN  /\ i \in Id /\ wiki'[i].raw = r.raw /\ Complete(reg'[p])
             /\ \A t \in Source \ {r.src} :
                  /\ Of(wiki', t) \ reg'[p].retired = Of(wiki, t) \ gone
                  /\ \A k \in Of(wiki, t) : wiki'[k] = wiki[k]
             /\ ~ r.label => Of(wiki', r.src) \ reg'[p].retired = {i}
             /\ ~ r.label /\ ~ r.fixed /\ Of(wiki, r.src) \ gone # {} =>
                  i \in Of(wiki, r.src) \ gone
<1> DEFINE claim == Resolve(p, r)
           art == [src |-> r.src, raw |-> r.raw, ver |-> claim.ver, kind |-> r.kind]
<1>1. /\ r \in Item /\ reg[p] \in Registry /\ claim \in Claimant
  BY ResolveType DEF TypeOK
<1>2. /\ pc[p] = "save" /\ pc'[p] = "save" /\ alone' /\ ProcOK(p) /\ ProcOK(p)'
      /\ wiki' = [wiki EXCEPT ![claim.id] = art] /\ reg'[p] = claim.reg
  BY DEF Save, IdentityInv, TypeOK, past
<1>3. art \in Article /\ art # None /\ art.src = r.src /\ art.raw = r.raw
  <2>1. art \in Article
    BY <1>1 DEF Article, Item, Claimant
  <2> QED
    BY <2>1, NoneAssumption
<1>4. ClaimOK(reg[p], claim, r.src)
  BY <1>2, ResolveOK
<1>5. SoleOK(reg[p], claim, r.src, r.label)
  BY ResolveSole
<1> HIDE DEF claim, art
<1>6. claim.id \in Id /\ wiki'[claim.id] = art /\ \A k \in Id : k # claim.id => wiki'[k] = wiki[k]
  BY <1>1, <1>2 DEF Claimant, TypeOK
<1>7. /\ \A k \in Id : reg[p].owner[k] = IF wiki[k] = None THEN None ELSE wiki[k].src
      /\ \A k \in Id : claim.reg.owner[k] = IF wiki'[k] = None THEN None ELSE wiki'[k].src
  <2>1. \A k \in Id : reg[p].owner[k] = IF wiki[k] = None THEN None ELSE wiki[k].src
    BY <1>2 DEF ProcOK, RegistryMatches
  <2>2. RegistryMatches(p)'
    BY <1>2 DEF ProcOK
  <2>3. \A k \in Id : reg'[p].owner[k] = IF wiki'[k] = None THEN None ELSE wiki'[k].src
    BY <1>2, <2>2 DEF RegistryMatches
  <2> QED
    BY <1>2, <2>1, <2>3
<1>8. ASSUME NEW t \in Source \ {r.src}
      PROVE  /\ Of(wiki', t) \ claim.reg.retired = Of(wiki, t) \ reg[p].retired
             /\ \A k \in Of(wiki, t) : wiki'[k] = wiki[k]
  <2>1. claim.id \notin Of(wiki, t)
    BY <1>4, <1>6, <1>7 DEF ClaimOK, Of
  <2>2. claim.id \notin Of(wiki', t)
    BY <1>3, <1>6 DEF Of
  <2>3. Of(wiki', t) = Of(wiki, t)
    BY <1>6, <2>1, <2>2 DEF Of
  <2>4. \A k \in Of(wiki, t) : k \in claim.reg.retired <=> k \in reg[p].retired
    <3>1. \A k \in Of(wiki, t) : reg[p].owner[k] = t
      BY <1>7 DEF Of
    <3> QED
      BY <1>4, <1>5, <3>1 DEF ClaimOK, SoleOK
  <2>5. \A k \in Of(wiki, t) : wiki'[k] = wiki[k]
    BY <1>6, <2>1 DEF Of
  <2> QED
    BY <2>3, <2>4, <2>5
<1>9. ASSUME ~ r.label
      PROVE  Of(wiki', r.src) \ claim.reg.retired = {claim.id}
  <2>1. ASSUME NEW k \in Of(wiki', r.src), k \notin claim.reg.retired
        PROVE  k = claim.id
    <3>1. k \in Id /\ claim.reg.owner[k] = r.src
      BY <1>7 DEF Of
    <3>2. PICK e \in claim.reg.entries : e.id = k /\ e.src = r.src
      BY <1>5, <2>1, <3>1 DEF SoleOK, Complete
    <3> QED
      BY <1>5, <1>9, <3>2 DEF SoleOK, OneLine
  <2>2. claim.id \in Of(wiki', r.src) /\ claim.id \notin claim.reg.retired
    BY <1>3, <1>4, <1>6 DEF ClaimOK, Of
  <2> QED
    BY <2>1, <2>2
<1>10. ASSUME ~ r.label, ~ r.fixed, NEW k \in Of(wiki, r.src) \ reg[p].retired
       PROVE  claim.id \in Of(wiki, r.src) \ reg[p].retired
  <2> DEFINE held == Held(reg[p], r.src, r.raw, r.label)
  <2>1. Lines(reg[p]) /\ RegistryOK(reg[p])
    BY <1>2 DEF ProcOK, LinesOwned
  <2>2. k \in Id /\ reg[p].owner[k] = r.src
    BY <1>7 DEF Of
  <2>3. PICK e \in reg[p].entries : e.id = k /\ e.src = r.src
    BY <2>2 DEF Complete
  <2>4. k \in held
    BY <1>10, <2>3 DEF Held
  <2>5. held \subseteq Id
    BY <1>1, HeldType
  <2> HIDE DEF held
  <2>6. claim = Claim(reg[p], r.id, r.src, r.raw, r.label)
    BY <1>10 DEF claim, Resolve
  <2>7. claim.id = Keep(held, r.id)
    BY <2>4, <2>6, OwnerAssumption DEF Claim, Claimed, held
  <2>8. claim.id \in held
    BY <2>4, <2>5, <2>7, KeepInHeld
  <2>9. PICK f \in reg[p].entries : f.id = claim.id /\ f.src = r.src
    BY <2>8 DEF held, Held
  <2>10. reg[p].owner[claim.id] = r.src /\ claim.id \notin reg[p].retired
    BY <2>1, <2>9 DEF Lines, RegistryOK
  <2>11. wiki[claim.id] # None /\ wiki[claim.id].src = r.src
    BY <1>6, <1>7, <2>10, OwnerAssumption DEF Owner
  <2> QED
    BY <1>6, <2>10, <2>11 DEF Of
<1> QED
  BY <1>2, <1>3, <1>5, <1>6, <1>8, <1>9, <1>10 DEF SoleOK, claim

(* Removing what a command is going to remove. *)
LEMMA WithoutOf ==
  ASSUME NEW ids, NEW s
  PROVE  /\ Of(WikiWithout(ids), s) = Of(wiki, s) \ ids
         /\ \A i \in Of(wiki, s) \ ids : WikiWithout(ids)[i] = wiki[i]
BY DEF Of, WikiWithout

SoleAt(p) == Complete(reg[p]) /\ Stage(p) /\ SoleArticle(p)

(* An empty registry is complete. *)
LEMMA EmptyComplete == Complete(EmptyRegistry)
BY OwnerAssumption DEF Complete, EmptyRegistry, Owner

(* A process that ends leaves nothing behind.                              *)
LEMMA SoleExit ==
  ASSUME TypeOK, NEW p \in Proc, Exit(p)
  PROVE  SoleAt(p)'
<1>1. /\ pc'[p] = "idle" /\ cmd'[p] = "none" /\ jobs'[p] = {} /\ todo'[p] = {}
      /\ reg'[p] = EmptyRegistry
  BY DEF TypeOK, Exit
<1>2. Complete(reg[p])'
  BY <1>1, EmptyComplete DEF Complete
<1>3. Stage(p)'
  BY <1>1 DEF Stage, Publishing
<1>4. SoleArticle(p)'
  BY <1>1 DEF SoleArticle, Publishing
<1> QED
  BY <1>2, <1>3, <1>4 DEF SoleAt

(* What SoleAt says does not depend on the index, raw docs or embeddings.  *)
LEMMA SoleKeeps ==
  ASSUME NEW p \in Proc, SoleAt(p), reg'[p] = reg[p], Stage(p)',
         cmd'[p] \in {"build", "accept"} /\ alone' => alone /\ cmd'[p] = cmd[p],
         UNCHANGED <<wiki, cache>>, snap'[p] = snap[p],
         pc'[p] = "compile" => pc[p] = "compile",
         pc'[p] \in Publishing => pc[p] \in Publishing /\ Leaving(p)' = Leaving(p)
  PROVE  SoleAt(p)'
<1>1. Complete(reg[p])'
  BY DEF SoleAt, Complete
<1>2. SoleArticle(p)'
  BY DEF SoleAt, SoleArticle
<1> QED
  BY <1>1, <1>2 DEF SoleAt

(* Saving. *)
LEMMA SoleSave ==
  ASSUME DistinctIds, TypeOK, IdentityInv, IdentityInv', NEW p \in Proc, SoleAt(p),
         NEW r \in todo[p], Save(p, r)
  PROVE  SoleAt(p)'
<1> DEFINE claim == Resolve(p, r)
<1>1. /\ pc[p] = "save" /\ claim \in Claimant /\ reg'[p] = claim.reg /\ r \in Item
      /\ todo'[p] = todo[p] \ {r}
      /\ snap' = IF r.src = NoSource \/ r.hash = None THEN snap
                 ELSE [snap EXCEPT ![p][r.src] = EntryFor(r, claim.id)]
      /\ UNCHANGED <<pc, cmd, jobs, alone, cache>>
  BY ResolveType DEF Save, TypeOK, past
<1>2. ProcOK(p) /\ (r.fixed => r.src \in Source)
  BY DEF IdentityInv, ProcOK, ItemsRightful
<1>3. Complete(reg[p])'
  <2>1. Complete(claim.reg)
    BY <1>2, ResolveSole DEF SoleOK, SoleAt
  <2> QED
    BY <1>1, <2>1 DEF Complete
<1>4. Stage(p)'
  BY <1>1 DEF SoleAt, Stage, Publishing
<1>5. ASSUME cmd[p] \in {"build", "accept"}, alone, NEW s \in Source,
             snap'[p][s] # cache[s]
      PROVE  Of(wiki', s) \ reg'[p].retired = {snap'[p][s].id}
  <2>1. r.src \in Source /\ ~ r.label
    BY <1>1, <1>2, <1>5 DEF ProcOK, OneLabel, Item, Owner
  <2>2. /\ \A t \in Source \ {r.src} :
             Of(wiki', t) \ reg'[p].retired = Of(wiki, t) \ reg[p].retired
        /\ Of(wiki', r.src) \ reg'[p].retired = {claim.id}
        /\ ~ r.fixed /\ Of(wiki, r.src) \ reg[p].retired # {} =>
             claim.id \in Of(wiki, r.src) \ reg[p].retired
    BY <1>5, <2>1, SaveSole DEF SoleAt
  <2>3. snap[p][s] # cache[s] => Of(wiki, s) \ reg[p].retired = {snap[p][s].id}
    BY <1>1, <1>5 DEF SoleAt, SoleArticle, Leaving, Publishing
  <2>4. snap \in [Proc -> [Source -> Cached \cup {None}]]
    BY DEF TypeOK
  <2> HIDE DEF claim
  <2>5. CASE s = r.src /\ r.hash # None
    <3>1. snap'[p][s] = EntryFor(r, claim.id)
      BY <1>1, <2>1, <2>4, <2>5, OwnerAssumption
    <3>2. snap'[p][s].id = claim.id
      BY <3>1 DEF EntryFor
    <3> QED
      BY <2>2, <2>5, <3>2
  <2>6. CASE s = r.src /\ r.hash = None
    <3>1. snap' = snap /\ ~ r.fixed
      BY <1>1, <2>6 DEF SoleAt, Stage
    <3>2. Of(wiki, s) \ reg[p].retired = {snap[p][s].id}
      BY <1>5, <2>3, <3>1
    <3> QED
      BY <2>2, <2>6, <3>1, <3>2
  <2>7. CASE s # r.src
    <3>1. snap'[p][s] = snap[p][s]
      BY <1>1, <2>4, <2>7
    <3> QED
      BY <1>5, <2>2, <2>3, <2>7, <3>1
  <2> QED
    BY <2>5, <2>6, <2>7
<1>6. SoleArticle(p)'
  BY <1>1, <1>5 DEF SoleArticle, Leaving
<1> QED
  BY <1>3, <1>4, <1>6 DEF SoleAt

(* No command of a process makes an article that is not the only one its   *)
(* source will have.                                                       *)
LEMMA SoleCommand ==
  ASSUME DistinctIds, TypeOK, IdentityInv, IdentityInv', NEW p \in Proc, SoleAt(p), Command(p),
         alone' /\ pc[p] # "idle" => alone
  PROVE  SoleAt(p)'
<1> USE DEF disk, outer, past, local
<1>1. CASE Build(p)
  <2>1. CASE BuildScan(p)
    <3>1. /\ pc[p] = "idle" /\ pc'[p] = "compile" /\ cmd'[p] = "build" /\ snap'[p] = cache
          /\ UNCHANGED <<cache, todo, reg>>
      BY <2>1 DEF TypeOK, BuildScan, Start, Call
    <3>2. Stage(p)'
      BY <3>1, IdleFacts DEF Stage, Publishing
    <3> QED
      BY <3>1, <3>2 DEF SoleAt, SoleArticle, Complete, Publishing
  <2>2. ASSUME NEW j \in jobs[p], Compile(p, j)
        PROVE  SoleAt(p)'
    <3>1. PICK item \in Outcomes(p, j) : todo' = [todo EXCEPT ![p] = @ \cup {item}]
      BY <2>2 DEF Compile
    <3>2. /\ pc[p] = "compile" /\ todo'[p] = todo[p] \cup {item}
          /\ UNCHANGED <<wiki, cache, pc, cmd, reg, snap, alone>>
      BY <2>2, <3>1 DEF Compile, TypeOK
    <3>3. item.fixed => item.hash # None
      <4>1. j.c \in Content
        BY DEF TypeOK, Job
      <4>2. item.fixed => cmd[p] = "build"
        BY <3>1 DEF Outcomes
      <4>3. PICK id, ver, kind, fixed :
              item = [src |-> j.src, raw |-> {j.c}, id |-> id, ver |-> ver, kind |-> kind,
                      fixed |-> fixed, hash |-> IF cmd[p] = "build" THEN j.c ELSE None,
                      label |-> cmd[p] = "ingest"]
        BY <3>1, Zenon DEF Outcomes
      <4>4. item.hash = IF cmd[p] = "build" THEN j.c ELSE None
        BY <4>3
      <4> QED
        BY <4>1, <4>2, <4>4, NoneAssumption
    <3>4. Stage(p)'
      BY <3>2, <3>3 DEF SoleAt, Stage, Publishing
    <3> QED
      BY <3>2, <3>4, SoleKeeps DEF Publishing
  <2>3. ASSUME NEW j \in jobs[p], CompileFails(p, j)
        PROVE  SoleAt(p)'
    <3>1. /\ pc[p] = "compile" /\ UNCHANGED <<wiki, cache, pc, cmd, todo, reg, snap, alone>>
      BY <2>3 DEF CompileFails
    <3>2. Stage(p)'
      BY <3>1 DEF SoleAt, Stage, Publishing
    <3> QED
      BY <3>1, <3>2, SoleKeeps DEF Publishing
  <2>4. ASSUME NEW j \in jobs[p], IngestFails(p, j)
        PROVE  SoleAt(p)'
    BY <2>4, SoleExit DEF IngestFails
  <2>5. CASE LoadIds(p)
    <3>1. /\ pc[p] = "compile" /\ pc'[p] = "save" /\ jobs[p] = {}
          /\ reg'[p] = LoadRegistry(wiki)
          /\ UNCHANGED <<wiki, cache, cmd, jobs, todo, snap, alone>>
      BY <2>5 DEF TypeOK, LoadIds, Step
    <3>2. cmd[p] \in {"build", "ingest"}
      BY <3>1 DEF IdentityInv, ProcOK, Phase
    <3>3. Stage(p)'
      BY <3>1, <3>2 DEF SoleAt, Stage, Publishing
    <3>4. Complete(reg[p])'
      BY <3>1, LoadComplete DEF Complete
    <3>5. SoleArticle(p)'
      BY <3>1 DEF SoleAt, SoleArticle
    <3> QED
      BY <3>3, <3>4, <3>5 DEF SoleAt
  <2> QED
    BY <1>1, <2>1, <2>2, <2>3, <2>4, <2>5 DEF Build
<1>2. CASE Write(p)
  <2>1. ASSUME NEW r \in todo[p], Save(p, r)
        PROVE  SoleAt(p)'
    BY <2>1, SoleSave
  <2>2. CASE Saved(p)
    <3>1. /\ pc[p] = "save" /\ pc'[p] = "retire" /\ todo[p] = {}
          /\ UNCHANGED <<wiki, cache, cmd, jobs, todo, reg, snap, alone>>
      BY <2>2 DEF TypeOK, Saved, Step
    <3>2. Stage(p)'
      BY <3>1 DEF SoleAt, Stage, Publishing
    <3> QED
      BY <3>1, <3>2, SoleKeeps DEF Publishing, Leaving
  <2>3. CASE Retire(p)
    <3>1. /\ pc[p] = "retire" /\ pc'[p] = "retireVecs" /\ wiki' = WikiWithout(reg[p].retired)
          /\ UNCHANGED <<cache, cmd, jobs, todo, reg, snap, alone>>
      BY <2>3 DEF TypeOK, Retire, Step
    <3>2. Stage(p)'
      BY <3>1 DEF SoleAt, Stage, Publishing
    <3>3. \A s \in Source : Of(wiki', s) = Of(wiki, s) \ reg[p].retired
      BY <3>1, WithoutOf
    <3>4. SoleArticle(p)'
      BY <3>1, <3>3 DEF SoleAt, SoleArticle, Publishing, Leaving
    <3> QED
      BY <3>1, <3>2, <3>4 DEF SoleAt, Complete
  <2>4. CASE RetireVecs(p)
    <3>1. /\ pc[p] = "retireVecs"
          /\ pc'[p] = IF cmd[p] = "ingest" THEN "list" ELSE "saveCache"
          /\ UNCHANGED <<wiki, cache, cmd, jobs, todo, reg, snap, alone>>
      BY <2>4 DEF TypeOK, RetireVecs, Step
    <3>2. Stage(p)'
      BY <3>1 DEF SoleAt, Stage, Publishing
    <3> QED
      BY <3>1, <3>2, SoleKeeps DEF Publishing, Leaving
  <2>5. CASE SaveCache(p) \/ List(p)
    <3>1. /\ pc[p] \in {"saveCache", "list"} /\ pc'[p] \in {"list", "index"}
          /\ UNCHANGED <<cmd, jobs, todo, reg>>
      BY <2>5 DEF TypeOK, SaveCache, List, Step
    <3>2. Stage(p)'
      BY <3>1 DEF SoleAt, Stage, Publishing
    <3> QED
      BY <3>1, <3>2 DEF SoleAt, SoleArticle, Publishing, Complete
  <2>6. CASE SaveIndex(p)
    BY <2>6, SoleExit DEF SaveIndex
  <2> QED
    BY <1>2, <2>1, <2>2, <2>3, <2>4, <2>5, <2>6 DEF Write
<1>3. CASE Redo(p)
  <2>1. ASSUME NEW ids, RecompileLoad(p, ids)
        PROVE  SoleAt(p)'
    <3>1. /\ pc[p] = "idle" /\ pc'[p] = "recompile" /\ cmd'[p] = "recompile"
          /\ UNCHANGED <<jobs, todo, reg>>
      BY <2>1 DEF TypeOK, RecompileLoad, Start, Call
    <3>2. Stage(p)'
      BY <3>1, IdleFacts DEF Stage, Publishing
    <3> QED
      BY <3>1, <3>2 DEF SoleAt, SoleArticle, Complete
  <2>2. ASSUME NEW t, RecompileOne(p, t) \/ RecompileSkips(p, t)
        PROVE  SoleAt(p)'
    <3>1. pc[p] = "recompile" /\ UNCHANGED <<pc, cmd, jobs, todo, reg>>
      BY <2>2 DEF RecompileOne, RecompileSkips
    <3> QED
      BY <3>1 DEF SoleAt, SoleArticle, Complete, Stage, Publishing
  <2>3. CASE RecompileEnds(p)
    <3>1. /\ pc[p] = "recompile" /\ pc'[p] = "list" /\ UNCHANGED <<cmd, jobs, todo, reg>>
      BY <2>3 DEF TypeOK, RecompileEnds, Step
    <3> QED
      BY <3>1 DEF SoleAt, SoleArticle, Complete, Stage, Publishing
  <2> QED
    BY <1>3, <2>1, <2>2, <2>3 DEF Redo
<1>4. CASE Delete(p)
  <2>1. ASSUME NEW i, DeleteLoad(p, i)
        PROVE  SoleAt(p)'
    <3>1. /\ pc[p] = "idle" /\ pc'[p] = "dropRaws" /\ cmd'[p] = "delete"
          /\ UNCHANGED <<jobs, todo, reg>>
      BY <2>1 DEF TypeOK, DeleteLoad, Start, Call
    <3>2. Stage(p)'
      BY <3>1, IdleFacts DEF Stage, Publishing
    <3> QED
      BY <3>1, <3>2 DEF SoleAt, SoleArticle, Complete
  <2>2. ASSUME NEW t, DropRaws(p, t) \/ Unlink(p, t) \/ DeleteIndex(p) \/ DeleteCache(p, t)
        PROVE  SoleAt(p)'
    <3>1. /\ pc[p] \in {"dropRaws", "unlink", "delIndex", "delCache"}
          /\ pc'[p] \in {"unlink", "delIndex", "delCache", "delVecs"}
          /\ UNCHANGED <<cmd, jobs, todo, reg>>
      BY <2>2 DEF TypeOK, DropRaws, Unlink, DeleteIndex, DeleteCache, Step
    <3> QED
      BY <3>1 DEF SoleAt, SoleArticle, Complete, Stage, Publishing
  <2>3. ASSUME NEW t, DeleteVecs(p, t)
        PROVE  SoleAt(p)'
    BY <2>3, SoleExit DEF DeleteVecs
  <2> QED
    BY <1>4, <2>1, <2>2, <2>3 DEF Delete
<1>5. ASSUME NEW l, NEW c, Ingest(p, l, c)
      PROVE  SoleAt(p)'
  <2>1. /\ pc[p] = "idle" /\ pc'[p] = "compile" /\ cmd'[p] = "ingest"
        /\ UNCHANGED <<todo, reg>>
    BY <1>5 DEF TypeOK, Ingest, Start, Call
  <2>2. Stage(p)'
    BY <2>1, IdleFacts DEF Stage, Publishing
  <2> QED
    BY <2>1, <2>2 DEF SoleAt, SoleArticle, Complete
<1>6. ASSUME NEW a \in Handed, NEW b \in Handed, Accept(p, a, b)
      PROVE  SoleAt(p)'
  <2>1. /\ pc[p] = "idle" /\ pc'[p] = "save" /\ cmd'[p] = "accept" /\ todo'[p] = {a, b}
        /\ snap'[p] = cache /\ reg'[p] = LoadRegistry(wiki) /\ UNCHANGED <<cache, jobs>>
    BY <1>6 DEF TypeOK, Accept, Start, Call
  <2>2. ~ a.fixed /\ ~ b.fixed
    BY DEF Handed
  <2>3. Stage(p)'
    BY <2>1, <2>2, IdleFacts DEF Stage, Publishing
  <2>4. Complete(reg[p])'
    BY <2>1, LoadComplete DEF Complete
  <2>5. SoleArticle(p)'
    BY <2>1 DEF SoleArticle
  <2> QED
    BY <2>3, <2>4, <2>5 DEF SoleAt
<1>7. ASSUME NEW i, Prepare(p) \/ Clear(p) \/ AttachVector(p, i)
      PROVE  SoleAt(p)'
  <2>1. pc[p] = "idle" /\ UNCHANGED local
    BY <1>7 DEF Prepare, Clear, AttachVector, Call
  <2> QED
    BY <2>1 DEF SoleAt, SoleArticle, Complete, Stage, Publishing
<1> QED
  BY <1>1, <1>2, <1>3, <1>4, <1>5, <1>6, <1>7 DEF Command

(* Nor does any other step. *)
LEMMA SoleStep ==
  ASSUME DistinctIds, TypeOK, LoneInv, LoneInv', IdentityInv, IdentityInv', SoleInv, [Next]_vars
  PROVE  SoleInv'
<1> USE DEF disk, outer, past, local
<1>1. CASE UNCHANGED vars
  BY <1>1 DEF SoleInv, SoleArticle, Complete, Stage, Of, Leaving, vars
<1>2. CASE \E s \in TreeSource, c \in Content \cup {None} : Edit(s, c)
  BY <1>2 DEF SoleInv, SoleArticle, Complete, Stage, Of, Leaving, Edit
<1>3. ASSUME NEW p \in Proc, Command(p) \/ Crash(p) \/ CrashInWrite(p)
      PROVE  SoleInv'
  <2>1. Moves(p)
    BY <1>3, CommandMoves
  <2>2. alone' => /\ \A q \in Proc \ {p} : pc'[q] = "idle"
                  /\ pc[p] # "idle" => alone
    BY <2>1, AtWork
  <2>3. SoleAt(p)
    BY DEF SoleInv, SoleAt
  <2>4. SoleAt(p)'
    <3>1. CASE Command(p)
      BY <2>2, <2>3, <3>1, SoleCommand
    <3>2. CASE Crash(p) \/ CrashInWrite(p)
      BY <3>2, SoleExit DEF Crash, CrashInWrite
    <3> QED
      BY <1>3, <3>1, <3>2
  <2>5. ASSUME NEW q \in Proc \ {p}
        PROVE  SoleAt(q)'
    <3>1. /\ pc'[q] = pc[q] /\ cmd'[q] = cmd[q] /\ jobs'[q] = jobs[q] /\ todo'[q] = todo[q]
          /\ reg'[q] = reg[q]
      BY <2>1 DEF Moves
    <3>2. Complete(reg[q])' /\ Stage(q)'
      BY <3>1 DEF SoleInv, Complete, Stage
    <3>3. SoleArticle(q)'
      BY <2>2 DEF SoleArticle, Publishing
    <3> QED
      BY <3>2, <3>3 DEF SoleAt
  <2> QED
    BY <2>4, <2>5 DEF SoleInv, SoleAt
<1> QED
  BY <1>1, <1>2, <1>3 DEF Next

(* The inductive invariant holds of every behaviour. *)
LEMMA SoleHolds ==
  ASSUME DistinctIds, AllSourced
  PROVE  Spec => []SoleInv
<1>1. Init => SoleInv
  <2> SUFFICES ASSUME Init, NEW p \in Proc
               PROVE  SoleAt(p)
    BY DEF SoleInv, SoleAt
  <2>1. pc[p] = "idle" /\ jobs[p] = {} /\ todo[p] = {} /\ reg[p] = EmptyRegistry
    BY DEF Init
  <2> QED
    BY <2>1, EmptyComplete DEF SoleAt, Stage, SoleArticle, Publishing
<1>2. (TypeOK /\ LoneInv /\ LoneInv' /\ IdentityInv /\ IdentityInv' /\ SoleInv /\ [Next]_vars)
        => SoleInv'
  BY SoleStep
<1> QED
  BY <1>1, <1>2, TypeCorrect, LoneHolds, IdentityHolds, PTL DEF Spec

(* When a build or an accept that runs alone is about to publish the hash  *)
(* cache, every source it has compiled holds exactly one article, the one  *)
(* the cache will name, in whatever state the scope was found (Claim,      *)
(* retireTwins, Retire).                                                   *)
THEOREM OneArticle ==
  ASSUME DistinctIds, AllSourced
  PROVE  Spec => []OneArticlePerSource
<1>1. SoleInv => OneArticlePerSource
  <2> SUFFICES ASSUME SoleInv, NEW p \in Proc, pc[p] = "saveCache", alone,
                      NEW s \in Source, snap[p][s] # cache[s]
               PROVE  ArticlesOf(s) = {snap[p][s].id}
    BY DEF OneArticlePerSource
  <2>1. cmd[p] \in {"build", "accept"}
    BY DEF SoleInv, Stage, Publishing
  <2>2. Of(wiki, s) \ Leaving(p) = {snap[p][s].id} /\ Leaving(p) = {}
    BY <2>1 DEF SoleInv, SoleArticle, Publishing, Leaving
  <2> QED
    BY <2>2 DEF Of, ArticlesOf
<1> QED
  BY <1>1, SoleHolds, PTL

-----------------------------------------------------------------------------
(* The hash cache.                                                         *)

(* What the compiler makes of a job keeps its source and, in a build, the  *)
(* hash of its content.                                                    *)
LEMMA OutcomesTracked ==
  ASSUME NEW p \in Proc, NEW j, NEW item \in Outcomes(p, j)
  PROVE  /\ item.src = j.src /\ item.raw = {j.c}
         /\ item.hash = IF cmd[p] = "build" THEN j.c ELSE None
<1>1. PICK id, ver, kind, fixed :
        item = [src |-> j.src, raw |-> {j.c}, id |-> id, ver |-> ver, kind |-> kind,
                fixed |-> fixed, hash |-> IF cmd[p] = "build" THEN j.c ELSE None,
                label |-> cmd[p] = "ingest"]
  BY Zenon DEF Outcomes
<1> QED
  BY <1>1

(* What is compiled and handed in is labelled and hashed as it should be.  *)
LEMMA TrackedCommand ==
  ASSUME OutsideLabelled, TypeOK, IdentityInv, OfferedTree, NEW p \in Proc,
         WorkTracked(p), Command(p)
  PROVE  WorkTracked(p)'
<1> USE DEF disk, outer, past, local
<1>1. ASSUME jobs'[p] = {}, todo'[p] = {}
      PROVE  WorkTracked(p)'
  BY <1>1 DEF WorkTracked
<1>2. ASSUME cmd'[p] = cmd[p], jobs'[p] \subseteq jobs[p], todo'[p] \subseteq todo[p]
      PROVE  WorkTracked(p)'
  BY <1>2 DEF WorkTracked
<1>3. CASE Build(p)
  <2>1. CASE BuildScan(p)
    <3>1. /\ pc[p] = "idle" /\ cmd'[p] = "build" /\ jobs'[p] = Pending(cache)
          /\ todo' = todo
      BY <2>1 DEF TypeOK, BuildScan, Start, Call
    <3>2. \A j \in Pending(cache) : j.src \in TreeSource
      BY DEF Pending
    <3>3. \A j \in Pending(cache) : j.src # NoSource
      BY <3>2, TreeAssumption, OwnerAssumption
    <3> QED
      BY <3>1, <3>2, <3>3, IdleFacts DEF WorkTracked
  <2>2. ASSUME NEW j \in jobs[p], Compile(p, j)
        PROVE  WorkTracked(p)'
    <3>1. PICK item \in Outcomes(p, j) : todo' = [todo EXCEPT ![p] = @ \cup {item}]
      BY <2>2 DEF Compile
    <3>2. /\ pc[p] = "compile" /\ todo'[p] = todo[p] \cup {item} /\ cmd' = cmd
          /\ jobs'[p] \subseteq jobs[p]
      BY <2>2, <3>1 DEF Compile, TypeOK
    <3>3. cmd[p] \in {"build", "ingest"}
      BY <3>2 DEF IdentityInv, ProcOK, Phase
    <3>4. /\ item.src = j.src /\ item.raw = {j.c}
          /\ item.hash = IF cmd[p] = "build" THEN j.c ELSE None
      BY OutcomesTracked
    <3>5. j.c # None /\ j.src # NoSource /\ (cmd[p] = "build" <=> j.src \in TreeSource)
      BY NoneAssumption DEF WorkTracked, TypeOK, Job
    <3> QED
      BY <3>2, <3>3, <3>4, <3>5 DEF WorkTracked
  <2>3. ASSUME NEW j \in jobs[p], CompileFails(p, j)
        PROVE  WorkTracked(p)'
    BY <1>2, <2>3 DEF TypeOK, CompileFails
  <2>4. ASSUME NEW j \in jobs[p], IngestFails(p, j)
        PROVE  WorkTracked(p)'
    BY <1>1, <2>4 DEF TypeOK, IngestFails, Exit
  <2>5. CASE LoadIds(p)
    BY <1>2, <2>5 DEF LoadIds, Step
  <2> QED
    BY <1>3, <2>1, <2>2, <2>3, <2>4, <2>5 DEF Build
<1>4. CASE Write(p)
  <2>1. ASSUME NEW r, Save(p, r)
        PROVE  WorkTracked(p)'
    BY <1>2, <2>1 DEF TypeOK, Save
  <2>2. CASE Saved(p) \/ Retire(p) \/ RetireVecs(p) \/ SaveCache(p) \/ List(p)
    BY <1>2, <2>2 DEF Saved, Retire, RetireVecs, SaveCache, List, Step
  <2>3. CASE SaveIndex(p)
    BY <1>1, <2>3 DEF TypeOK, SaveIndex, Exit
  <2> QED
    BY <1>4, <2>1, <2>2, <2>3 DEF Write
<1>5. CASE Redo(p)
  <2>1. ASSUME NEW ids, RecompileLoad(p, ids)
        PROVE  WorkTracked(p)'
    BY <1>1, <2>1, IdleFacts DEF RecompileLoad, Start, Call
  <2>2. ASSUME NEW t, RecompileOne(p, t) \/ RecompileSkips(p, t) \/ RecompileEnds(p)
        PROVE  WorkTracked(p)'
    BY <1>2, <2>2 DEF RecompileOne, RecompileSkips, RecompileEnds, Step
  <2> QED
    BY <1>5, <2>1, <2>2 DEF Redo
<1>6. CASE Delete(p)
  <2>1. ASSUME NEW i, DeleteLoad(p, i)
        PROVE  WorkTracked(p)'
    BY <1>1, <2>1, IdleFacts DEF DeleteLoad, Start, Call
  <2>2. ASSUME NEW t, DropRaws(p, t) \/ Unlink(p, t) \/ DeleteIndex(p) \/ DeleteCache(p, t)
        PROVE  WorkTracked(p)'
    BY <1>2, <2>2 DEF DropRaws, Unlink, DeleteIndex, DeleteCache, Step
  <2>3. ASSUME NEW t, DeleteVecs(p, t)
        PROVE  WorkTracked(p)'
    BY <1>1, <2>3 DEF TypeOK, DeleteVecs, Exit
  <2> QED
    BY <1>6, <2>1, <2>2, <2>3 DEF Delete
<1>7. ASSUME NEW l \in Owner, NEW c \in Content, Ingest(p, l, c)
      PROVE  WorkTracked(p)'
  <2>1. /\ pc[p] = "idle" /\ cmd'[p] = "ingest" /\ todo' = todo
        /\ jobs'[p] = {[src |-> l, c |-> c]} /\ <<l, c>> \in Text
    BY <1>7 DEF TypeOK, Ingest, Start, Call
  <2>2. l \notin TreeSource /\ l # NoSource
    <3>1. <<l, c>>[1] \notin TreeSource \cup {NoSource}
      BY <2>1 DEF OutsideLabelled
    <3> QED
      BY <3>1
  <2> QED
    BY <2>1, <2>2, IdleFacts DEF WorkTracked
<1>8. ASSUME NEW a \in Handed, NEW b \in Handed, Accept(p, a, b)
      PROVE  WorkTracked(p)'
  <2>1. pc[p] = "idle" /\ cmd'[p] = "accept" /\ todo'[p] = {a, b} /\ jobs' = jobs
    BY <1>8 DEF TypeOK, Accept, Start, Call
  <2>2. ASSUME NEW x \in Handed
        PROVE  IF x.src \in TreeSource THEN x.hash # None /\ x.raw = {x.hash}
               ELSE x.hash = None /\ x.src # NoSource
    <3>1. CASE \E j \in offered, i \in Slug :
            x = [src |-> j.src, raw |-> {j.c}, id |-> i, ver |-> 1, kind |-> "compiled",
                 hash |-> j.c, fixed |-> FALSE, label |-> FALSE]
      <4>1. PICK j \in offered : x.src = j.src /\ x.raw = {j.c} /\ x.hash = j.c
        BY <3>1
      <4>2. j.src \in TreeSource /\ j.c # None
        BY NoneAssumption DEF OfferedTree, TypeOK, Job
      <4> QED
        BY <4>1, <4>2
    <3>2. CASE \E s \in HandFed, c \in Content, i \in Slug :
            x = [src |-> s, raw |-> {c}, id |-> i, ver |-> 1, kind |-> "compiled",
                 hash |-> None, fixed |-> FALSE, label |-> FALSE]
      BY <3>2 DEF OutsideLabelled
    <3> QED
      BY <3>1, <3>2 DEF Handed
  <2> QED
    BY <2>1, <2>2, IdleFacts DEF WorkTracked
<1>9. ASSUME NEW i, Prepare(p) \/ Clear(p) \/ AttachVector(p, i)
      PROVE  WorkTracked(p)'
  BY <1>2, <1>9 DEF Prepare, Clear, AttachVector
<1> QED
  BY <1>3, <1>4, <1>5, <1>6, <1>7, <1>8, <1>9 DEF Command

(* A cache stands for what is left when the articles it does not count go. *)
LEMMA ExactWithout ==
  ASSUME NEW k, NEW gone, Exact(wiki, k, gone)
  PROVE  Exact(WikiWithout(gone), k, {})
<1> SUFFICES ASSUME NEW s \in Source
             PROVE  /\ k[s] # None => /\ s \in TreeSource
                                      /\ Of(WikiWithout(gone), s) = {k[s].id}
                                      /\ WikiWithout(gone)[k[s].id].raw = {k[s].hash}
                    /\ k[s] = None /\ s \in TreeSource => Of(WikiWithout(gone), s) = {}
  BY DEF Exact
<1>1. /\ Of(WikiWithout(gone), s) = Of(wiki, s) \ gone
      /\ \A i \in Of(wiki, s) \ gone : WikiWithout(gone)[i] = wiki[i]
  BY WithoutOf
<1> QED
  BY <1>1 DEF Exact

(* The cache without an id stands for the wiki without its article. *)
LEMMA ExactUnlink ==
  ASSUME NEW i, Exact(wiki, cache, {})
  PROVE  Exact(WikiWithout({i}), CacheWithout(i), {})
<1> DEFINE k == CacheWithout(i)
           w == WikiWithout({i})
<1> SUFFICES ASSUME NEW s \in Source
             PROVE  /\ k[s] # None => /\ s \in TreeSource
                                      /\ Of(w, s) = {k[s].id}
                                      /\ w[k[s].id].raw = {k[s].hash}
                    /\ k[s] = None /\ s \in TreeSource => Of(w, s) = {}
  BY DEF Exact
<1>1. /\ Of(w, s) = Of(wiki, s) \ {i}
      /\ \A j \in Of(wiki, s) \ {i} : w[j] = wiki[j]
  BY WithoutOf
<1>2. k[s] = IF cache[s] # None /\ cache[s].id = i THEN None ELSE cache[s]
  BY DEF CacheWithout
<1> HIDE DEF k, w
<1>3. CASE cache[s] = None
  BY <1>1, <1>2, <1>3 DEF Exact
<1>4. CASE cache[s] # None
  <2>1. s \in TreeSource /\ Of(wiki, s) = {cache[s].id} /\ wiki[cache[s].id].raw = {cache[s].hash}
    BY <1>4 DEF Exact
  <2> QED
    BY <1>1, <1>2, <1>4, <2>1
<1> QED
  BY <1>3, <1>4

(* What is true of the hash cache while p is the only process at work. *)
CacheOK(p) ==
  /\ CacheAt(p) /\ Covering(p)
  /\ pc[p] \notin Unsettled => Exact(wiki, cache, {})

(* A step that touches neither the articles nor the cache, outside a build *)
(* and before any claim.                                                   *)
LEMMA CacheKeeps ==
  ASSUME NEW p \in Proc, CacheOK(p), UNCHANGED <<wiki, cache>>,
         pc[p] \notin Unsettled, pc'[p] \notin Unsettled, cmd'[p] # "build"
  PROVE  CacheOK(p)'
BY DEF CacheOK, CacheAt, Covering, Unsettled

(* A step of a build that changes no article, no cache and no work. *)
LEMMA CoveringKeeps ==
  ASSUME NEW p \in Proc, Covering(p), cache' = cache, cmd'[p] = cmd[p], jobs'[p] = jobs[p],
         todo'[p] = todo[p], seen'[p] = seen[p], snap'[p] = snap[p],
         pc'[p] \in {"list", "index"} <=> pc[p] \in {"list", "index"}
  PROVE  Covering(p)'
BY DEF Covering

(* Saving an article moves the copy of the cache along. *)
LEMMA CacheSave ==
  ASSUME DistinctIds, TypeOK, IdentityInv, IdentityInv', NEW p \in Proc, Complete(reg[p]),
         WorkTracked(p), CacheOK(p), alone, NEW r \in todo[p], Save(p, r)
  PROVE  CacheOK(p)'
<1> DEFINE claim == Resolve(p, r)
           k == Draft(p)
           gone == reg[p].retired
<1>1. /\ pc[p] = "save" /\ r \in Item /\ r.src \in Owner /\ claim \in Claimant /\ ProcOK(p)
      /\ todo'[p] = todo[p] \ {r}
      /\ snap' = IF r.src = NoSource \/ r.hash = None THEN snap
                 ELSE [snap EXCEPT ![p][r.src] = EntryFor(r, claim.id)]
      /\ UNCHANGED <<pc, cmd, jobs, seen, cache, alone>>
  <2>1. r \in Item /\ r.src \in Owner
    BY DEF TypeOK, Item
  <2>2. claim \in Claimant
    BY ResolveType DEF TypeOK
  <2>3. ProcOK(p)
    BY DEF IdentityInv
  <2>4. /\ pc[p] = "save" /\ todo'[p] = todo[p] \ {r}
        /\ snap' = IF r.src = NoSource \/ r.hash = None THEN snap
                   ELSE [snap EXCEPT ![p][r.src] = EntryFor(r, claim.id)]
        /\ UNCHANGED <<pc, cmd, jobs, seen, cache, alone>>
    BY DEF Save, TypeOK, past
  <2> QED
    BY <2>1, <2>2, <2>3, <2>4
<1>2. r.src \in Source /\ r.src # NoSource
  BY <1>1, OwnerAssumption, TreeAssumption DEF WorkTracked, Owner
<1>3. r.src \in TreeSource => /\ ~ r.label /\ r.hash # None /\ r.raw = {r.hash}
                             /\ cmd[p] # "ingest"
  BY <1>1 DEF WorkTracked, ProcOK, OneLabel
<1>4. /\ wiki'[claim.id].raw = r.raw
      /\ \A t \in Source \ {r.src} :
           /\ Of(wiki', t) \ reg'[p].retired = Of(wiki, t) \ gone
           /\ \A i \in Of(wiki, t) : wiki'[i] = wiki[i]
      /\ ~ r.label => Of(wiki', r.src) \ reg'[p].retired = {claim.id}
  BY <1>2, SaveSole
<1>5. snap \in [Proc -> [Source -> Cached \cup {None}]]
  BY DEF TypeOK
<1> HIDE DEF claim, gone
<1>6. ASSUME NEW t \in Source \ {r.src}
      PROVE  snap'[p][t] = snap[p][t]
  BY <1>1, <1>5
<1>7. r.src \in TreeSource => snap'[p][r.src] = EntryFor(r, claim.id)
  BY <1>1, <1>2, <1>3, <1>5
<1>8. r.src \notin TreeSource => snap' = snap
  BY <1>1 DEF WorkTracked
<1>9. Exact(wiki, k, gone)
  BY <1>1 DEF CacheOK, CacheAt, Publishing, Leaving, gone
<1>10. /\ \A t \in Source \ {r.src} : Draft(p)'[t] = k[t]
       /\ r.src \in TreeSource => Draft(p)'[r.src] = EntryFor(r, claim.id)
       /\ r.src \notin TreeSource => Draft(p)'[r.src] = k[r.src]
  BY <1>1, <1>3, <1>6, <1>7, <1>8 DEF Draft
<1> HIDE DEF k
<1>11. Exact(wiki', Draft(p)', reg'[p].retired)
  <2> DEFINE d == Draft(p)'
  <2> SUFFICES ASSUME NEW s \in Source
               PROVE  /\ d[s] # None => /\ s \in TreeSource
                                        /\ Of(wiki', s) \ reg'[p].retired = {d[s].id}
                                        /\ wiki'[d[s].id].raw = {d[s].hash}
                      /\ d[s] = None /\ s \in TreeSource =>
                           Of(wiki', s) \subseteq reg'[p].retired
    BY DEF Exact
  <2> HIDE DEF d
  <2>1. CASE s # r.src
    <3>1. d[s] = k[s] /\ Of(wiki', s) \ reg'[p].retired = Of(wiki, s) \ gone
      BY <1>4, <1>10, <2>1 DEF d
    <3>2. CASE k[s] = None
      <4>1. s \in TreeSource => Of(wiki, s) \subseteq gone
        BY <1>9, <3>2 DEF Exact
      <4> QED
        BY <3>1, <3>2, <4>1
    <3>3. CASE k[s] # None
      <4>1. /\ s \in TreeSource /\ Of(wiki, s) \ gone = {k[s].id}
            /\ wiki[k[s].id].raw = {k[s].hash}
        BY <1>9, <3>3 DEF Exact
      <4>2. wiki'[k[s].id] = wiki[k[s].id]
        BY <1>4, <2>1, <4>1
      <4> QED
        BY <3>1, <3>3, <4>1, <4>2
    <3> QED
      BY <3>2, <3>3
  <2>2. CASE s = r.src /\ s \in TreeSource
    <3>1. d[s] = [hash |-> r.hash, id |-> claim.id]
      BY <1>10, <2>2 DEF d, EntryFor
    <3>2. d[s] \in Cached
      BY <1>1, <1>3, <2>2, <3>1 DEF Cached, Item, Claimant
    <3>3. d[s] # None /\ d[s].id = claim.id /\ d[s].hash = r.hash
      BY <3>1, <3>2, NoneAssumption
    <3> QED
      BY <1>3, <1>4, <2>2, <3>3
  <2>3. CASE s = r.src /\ s \notin TreeSource
    <3>1. d[s] = k[s] /\ k[s] = None
      BY <1>9, <1>10, <2>3 DEF Exact, d
    <3> QED
      BY <2>3, <3>1
  <2> QED
    BY <2>1, <2>2, <2>3
<1>12. CacheAt(p)'
  BY <1>1, <1>11 DEF CacheAt, Leaving
<1>13. Covering(p)'
  <2> SUFFICES ASSUME cmd[p] = "build"
               PROVE  Covering(p)'
    BY <1>1 DEF Covering
  <2>1. r.hash = seen[p][r.src]
    BY DEF CacheOK, Covering
  <2>2. ASSUME NEW s \in TreeSource, seen[p][s] # None, ~ \E j \in jobs[p] : j.src = s,
               ~ \E x \in todo'[p] : x.src = s
        PROVE  snap'[p][s] # None /\ snap'[p][s].hash = seen[p][s]
    <3>1. CASE s = r.src
      <4>1. snap'[p][s] = [hash |-> r.hash, id |-> claim.id]
        BY <1>7, <2>2, <3>1 DEF EntryFor
      <4>2. snap'[p][s] \in Cached
        BY <1>1, <1>3, <3>1, <4>1 DEF Cached, Item, Claimant
      <4>3. snap'[p][s] # None /\ snap'[p][s].hash = r.hash
        BY <4>1, <4>2, NoneAssumption
      <4> QED
        BY <2>1, <3>1, <4>3
    <3>2. CASE s # r.src
      <4>1. ~ \E x \in todo[p] : x.src = s
        BY <1>1, <2>2, <3>2
      <4>2. snap[p][s] # None /\ snap[p][s].hash = seen[p][s]
        BY <1>1, <2>2, <4>1 DEF CacheOK, Covering
      <4>3. s \in Source
        BY TreeAssumption
      <4> QED
        BY <1>6, <3>2, <4>2, <4>3
    <3> QED
      BY <3>1, <3>2
  <2>3. /\ \A j \in jobs'[p] : j.c = seen'[p][j.src]
        /\ \A x \in todo'[p] : x.hash = seen'[p][x.src]
    BY <1>1 DEF CacheOK, Covering
  <2> QED
    BY <1>1, <2>2, <2>3 DEF Covering
<1> QED
  BY <1>1, <1>12, <1>13 DEF CacheOK, Unsettled, Publishing

(* Articles rewritten in their place, with their source and raw docs, do   *)
(* not disturb a cache.                                                    *)
LEMMA ExactSame ==
  ASSUME NEW w, NEW v, NEW k \in [Source -> Cached \cup {None}], NEW gone, Exact(w, k, gone),
         \A i \in Id : /\ v[i] = None <=> w[i] = None
                       /\ w[i] # None => v[i].src = w[i].src /\ v[i].raw = w[i].raw
  PROVE  Exact(v, k, gone)
<1>1. ASSUME NEW s
      PROVE  Of(v, s) = Of(w, s)
  <2>1. \A i \in Id : i \in Of(v, s) <=> i \in Of(w, s)
    BY DEF Of
  <2>2. Of(v, s) \subseteq Id /\ Of(w, s) \subseteq Id
    BY DEF Of
  <2> QED
    BY <2>1, <2>2
<1> SUFFICES ASSUME NEW s \in Source
             PROVE  /\ k[s] # None => /\ s \in TreeSource
                                      /\ Of(v, s) \ gone = {k[s].id}
                                      /\ v[k[s].id].raw = {k[s].hash}
                    /\ k[s] = None /\ s \in TreeSource => Of(v, s) \subseteq gone
  BY DEF Exact
<1>2. CASE k[s] = None
  BY <1>1, <1>2 DEF Exact
<1>3. CASE k[s] # None
  <2>1. s \in TreeSource /\ Of(w, s) \ gone = {k[s].id} /\ w[k[s].id].raw = {k[s].hash}
    BY <1>3 DEF Exact
  <2>2. k[s].id \in Id /\ w[k[s].id] # None
    BY <2>1 DEF Of
  <2>3. v[k[s].id].raw = w[k[s].id].raw
    BY <2>2
  <2>4. Of(v, s) = Of(w, s)
    BY <1>1
  <2> QED
    BY <1>3, <2>1, <2>3, <2>4
<1> QED
  BY <1>2, <1>3

(* A command that is not listing covers what it covered, whatever the      *)
(* cache on disk becomes.                                                  *)
LEMMA CoveringMoves ==
  ASSUME NEW p \in Proc, Covering(p), cmd'[p] = cmd[p], jobs'[p] = jobs[p],
         todo'[p] = todo[p], seen'[p] = seen[p], snap'[p] = snap[p],
         pc[p] \notin {"list", "index"}, pc'[p] \notin {"list", "index"}
  PROVE  Covering(p)'
BY DEF Covering

(* A process that ends no longer matters. *)
LEMMA CacheExit ==
  ASSUME TypeOK, NEW p \in Proc, CacheOK(p), Exit(p), pc[p] \notin Unsettled,
         UNCHANGED <<wiki, cache>>
  PROVE  CacheOK(p)'
<1>1. pc'[p] = "idle" /\ cmd'[p] = "none"
  BY DEF TypeOK, Exit
<1> QED
  BY <1>1, CacheKeeps DEF Unsettled, Publishing

(* Scanning and compiling: what was to be compiled is to be saved. *)
LEMMA CacheBuild ==
  ASSUME TypeOK, IdentityInv, NEW p \in Proc, WorkTracked(p), CacheOK(p), Build(p)
  PROVE  CacheOK(p)'
<1> USE DEF disk, outer, past, local
<1>0. ProcOK(p)
  BY DEF IdentityInv
<1>1. CASE BuildScan(p)
  <2>1. /\ pc[p] = "idle" /\ pc'[p] = "compile" /\ cmd'[p] = "build" /\ snap'[p] = cache
        /\ jobs'[p] = Pending(cache) /\ seen'[p] = tree /\ todo'[p] = {}
        /\ UNCHANGED <<wiki, cache>>
    BY <1>1, IdleFacts DEF TypeOK, BuildScan, Start, Call
  <2>2. /\ \A j \in Pending(cache) : j.c = tree[j.src]
        /\ \A s \in TreeSource : tree[s] # None =>
             \/ \E j \in Pending(cache) : j.src = s
             \/ cache[s] # None /\ cache[s].hash = tree[s]
    <3>1. ASSUME NEW s \in TreeSource, tree[s] # None,
                 cache[s] = None \/ cache[s].hash # tree[s]
          PROVE  \E j \in Pending(cache) : j.src = s
      <4>1. [src |-> s, c |-> tree[s]] \in Pending(cache)
        BY <3>1 DEF Pending
      <4> QED
        BY <4>1
    <3> QED
      BY <3>1 DEF Pending
  <2>3. Covering(p)'
    BY <2>1, <2>2 DEF Covering
  <2> QED
    BY <2>1, <2>3 DEF CacheOK, CacheAt, Unsettled, Publishing
<1>2. ASSUME NEW j \in jobs[p], Compile(p, j)
      PROVE  CacheOK(p)'
  <2>1. PICK item \in Outcomes(p, j) : todo' = [todo EXCEPT ![p] = @ \cup {item}]
    BY <1>2 DEF Compile
  <2>2. /\ pc[p] = "compile" /\ todo'[p] = todo[p] \cup {item} /\ jobs'[p] = jobs[p] \ {j}
        /\ UNCHANGED <<wiki, cache, pc, cmd, snap, seen>>
    BY <1>2, <2>1 DEF Compile, TypeOK
  <2>3. item.src = j.src /\ (cmd[p] = "build" => item.hash = j.c)
    BY OutcomesTracked
  <2>4. Covering(p)'
    BY <2>2, <2>3 DEF CacheOK, Covering
  <2> QED
    BY <2>2, <2>4 DEF CacheOK, CacheAt, Unsettled, Publishing
<1>3. ASSUME NEW j \in jobs[p], CompileFails(p, j)
      PROVE  CacheOK(p)'
  <2>1. /\ pc[p] = "compile" /\ cmd[p] = "build" /\ jobs'[p] = jobs[p] \ {j}
        /\ seen' = [seen EXCEPT ![p][j.src] = None]
        /\ UNCHANGED <<wiki, cache, pc, cmd, snap, todo>>
    BY <1>3 DEF CompileFails, TypeOK
  <2>2. j.src \in TreeSource
    BY <2>1 DEF WorkTracked
  <2>3. seen'[p][j.src] = None /\ \A s \in TreeSource \ {j.src} : seen'[p][s] = seen[p][s]
    BY <2>1, <2>2 DEF TypeOK
  <2>4. \A k \in jobs'[p] : k.src \in TreeSource \ {j.src} /\ k.c = seen[p][k.src]
    BY <1>0, <2>1 DEF WorkTracked, ProcOK, OncePerSource, CacheOK, Covering
  <2>5. \A r \in todo'[p] : r.src \in TreeSource \ {j.src} /\ r.hash = seen[p][r.src]
    BY <1>0, <2>1 DEF WorkTracked, ProcOK, OncePerSource, CacheOK, Covering
  <2>6. \A s \in TreeSource \ {j.src} : seen[p][s] # None =>
          \/ \E k \in jobs'[p] : k.src = s
          \/ \E r \in todo'[p] : r.src = s
          \/ snap[p][s] # None /\ snap[p][s].hash = seen[p][s]
    BY <2>1 DEF CacheOK, Covering
  <2>7. Covering(p)'
    BY <2>1, <2>3, <2>4, <2>5, <2>6 DEF Covering
  <2> QED
    BY <2>1, <2>7 DEF CacheOK, CacheAt, Unsettled, Publishing
<1>4. ASSUME NEW j \in jobs[p], IngestFails(p, j)
      PROVE  CacheOK(p)'
  BY <1>4, CacheExit DEF IngestFails, Unsettled, Publishing
<1>5. CASE LoadIds(p)
  <2>1. /\ pc[p] = "compile" /\ pc'[p] = "save" /\ reg'[p] = LoadRegistry(wiki)
        /\ UNCHANGED <<wiki, cache, cmd, jobs, todo, snap, seen>>
    BY <1>5 DEF TypeOK, LoadIds, Step
  <2>2. cmd[p] \in {"build", "ingest"}
    BY <1>0, <2>1 DEF ProcOK, Phase
  <2>3. Draft(p)' = cache /\ Leaving(p)' = {}
    BY <2>1, <2>2, LoadComplete DEF CacheOK, CacheAt, Draft, Leaving
  <2>4. Exact(wiki, cache, {})
    BY <2>1 DEF CacheOK, Unsettled, Publishing
  <2>5. Covering(p)'
    BY <2>1, CoveringMoves DEF CacheOK
  <2> QED
    BY <2>1, <2>3, <2>4, <2>5 DEF CacheOK, CacheAt, Unsettled, Publishing
<1> QED
  BY <1>1, <1>2, <1>3, <1>4, <1>5 DEF Build

(* Naming, saving and retiring: the copy of the cache stands for what will *)
(* be left.                                                                *)
LEMMA CacheWrite ==
  ASSUME DistinctIds, TypeOK, IdentityInv, IdentityInv', NEW p \in Proc, SoleAt(p),
         WorkTracked(p), CacheOK(p), alone, Write(p)
  PROVE  CacheOK(p)'
<1> USE DEF disk, outer, past, local
<1>1. ASSUME NEW r \in todo[p], Save(p, r)
      PROVE  CacheOK(p)'
  BY <1>1, CacheSave DEF SoleAt
<1>2. CASE Saved(p)
  <2>1. /\ pc[p] = "save" /\ pc'[p] = "retire"
        /\ UNCHANGED <<wiki, cache, cmd, jobs, todo, reg, snap, seen>>
    BY <1>2 DEF TypeOK, Saved, Step
  <2>2. Covering(p)'
    BY <2>1, CoveringMoves DEF CacheOK
  <2> QED
    BY <2>1, <2>2 DEF CacheOK, CacheAt, Unsettled, Publishing, Draft, Leaving
<1>3. CASE Retire(p)
  <2>1. /\ pc[p] = "retire" /\ pc'[p] = "retireVecs" /\ wiki' = WikiWithout(reg[p].retired)
        /\ UNCHANGED <<cache, cmd, jobs, todo, reg, snap, seen>>
    BY <1>3 DEF TypeOK, Retire, Step
  <2>2. Covering(p)'
    BY <2>1, CoveringMoves DEF CacheOK
  <2>3. Exact(wiki, Draft(p), reg[p].retired)
    BY <2>1 DEF CacheOK, CacheAt, Publishing, Leaving
  <2>4. Exact(wiki', Draft(p), {})
    BY <2>1, <2>3, ExactWithout
  <2>5. Draft(p)' = Draft(p) /\ Leaving(p)' = {}
    BY <2>1 DEF Draft, Leaving
  <2> QED
    BY <2>1, <2>2, <2>4, <2>5 DEF CacheOK, CacheAt, Unsettled, Publishing
<1>4. CASE RetireVecs(p)
  <2>1. /\ pc[p] = "retireVecs" /\ pc'[p] = IF cmd[p] = "ingest" THEN "list" ELSE "saveCache"
        /\ UNCHANGED <<wiki, cache, cmd, jobs, todo, reg, snap, seen>>
    BY <1>4 DEF TypeOK, RetireVecs, Step
  <2>2. Exact(wiki, Draft(p), {})
    BY <2>1 DEF CacheOK, CacheAt, Publishing, Leaving
  <2>3. CASE cmd[p] = "ingest"
    BY <2>1, <2>2, <2>3 DEF CacheOK, CacheAt, Covering, Unsettled, Publishing, Draft
  <2>4. CASE cmd[p] # "ingest"
    <3>1. Covering(p)'
      BY <2>1, <2>4, CoveringMoves DEF CacheOK
    <3>2. Draft(p)' = Draft(p) /\ Leaving(p)' = {}
      BY <2>1, <2>4 DEF Draft, Leaving
    <3> QED
      BY <2>1, <2>2, <2>4, <3>1, <3>2 DEF CacheOK, CacheAt, Unsettled, Publishing
  <2> QED
    BY <2>3, <2>4
<1>5. CASE SaveCache(p)
  <2>1. /\ pc[p] = "saveCache" /\ pc'[p] = "list" /\ cache' = snap[p]
        /\ UNCHANGED <<wiki, cmd, jobs, todo, reg, snap, seen>>
    BY <1>5 DEF TypeOK, SaveCache, Step
  <2>2. cmd[p] # "ingest"
    BY <2>1 DEF SoleAt, Stage
  <2>3. Exact(wiki, snap[p], {})
    BY <2>1, <2>2 DEF CacheOK, CacheAt, Publishing, Leaving, Draft
  <2>4. Covering(p)'
    BY <2>1 DEF CacheOK, Covering
  <2> QED
    BY <2>1, <2>3, <2>4 DEF CacheOK, CacheAt, Unsettled, Publishing
<1>6. CASE List(p)
  <2>1. /\ pc[p] = "list" /\ pc'[p] = "index"
        /\ UNCHANGED <<wiki, cache, cmd, jobs, todo, reg, snap, seen>>
    BY <1>6 DEF TypeOK, List, Step
  <2>2. Covering(p)'
    BY <2>1, CoveringKeeps DEF CacheOK
  <2> QED
    BY <2>1, <2>2 DEF CacheOK, CacheAt, Unsettled, Publishing
<1>7. CASE SaveIndex(p)
  BY <1>7, CacheExit DEF SaveIndex, Unsettled, Publishing
<1> QED
  BY <1>1, <1>2, <1>3, <1>4, <1>5, <1>6, <1>7 DEF Write

(* Recompiling: an article keeps its source and its raw docs. *)
LEMMA CacheRedo ==
  ASSUME TypeOK, IdentityInv, NEW p \in Proc, SoleAt(p), CacheOK(p),
         pc[p] # "idle" => alone, Redo(p)
  PROVE  CacheOK(p)'
<1> USE DEF disk, outer, past, local
<1>1. ASSUME NEW ids, RecompileLoad(p, ids)
      PROVE  CacheOK(p)'
  <2>1. /\ pc[p] = "idle" /\ pc'[p] = "recompile" /\ cmd'[p] = "recompile"
        /\ UNCHANGED <<wiki, cache>>
    BY <1>1 DEF TypeOK, RecompileLoad, Start, Call
  <2> QED
    BY <2>1, CacheKeeps DEF Unsettled, Publishing
<1>2. ASSUME NEW t \in targets[p], RecompileOne(p, t)
      PROVE  CacheOK(p)'
  <2>1. /\ pc[p] = "recompile" /\ wiki' = [wiki EXCEPT ![t.id] = Recompiled(t.art)]
        /\ UNCHANGED <<cache, pc, cmd>>
    BY <1>2 DEF RecompileOne
  <2>2. wiki[t.id] = t.art /\ t.art # None
    BY <2>1 DEF IdentityInv, ProcOK, TargetsMatch
  <2>3. t.id \in Id /\ t.art \in Article
    BY <2>2 DEF TypeOK, Target
  <2>4. /\ Recompiled(t.art) # None /\ Recompiled(t.art).src = t.art.src
        /\ Recompiled(t.art).raw = t.art.raw
    <3>1. Recompiled(t.art) \in Article
      BY <2>3, RecompiledType
    <3>2. Recompiled(t.art).src = t.art.src /\ Recompiled(t.art).raw = t.art.raw
      BY <2>3 DEF Recompiled, Article
    <3> QED
      BY <3>1, <3>2, NoneAssumption
  <2>5. wiki'[t.id] = Recompiled(t.art) /\ \A i \in Id : i # t.id => wiki'[i] = wiki[i]
    BY <2>1, <2>3 DEF TypeOK
  <2>6. \A i \in Id :
          /\ wiki'[i] = None <=> wiki[i] = None
          /\ wiki[i] # None => wiki'[i].src = wiki[i].src /\ wiki'[i].raw = wiki[i].raw
    BY <2>2, <2>4, <2>5
  <2>7. cache \in [Source -> Cached \cup {None}] /\ Exact(wiki, cache, {})
    BY <2>1 DEF TypeOK, CacheOK, Unsettled, Publishing
  <2>8. Exact(wiki', cache, {})
    BY <2>6, <2>7, ExactSame
  <2>9. cmd[p] # "build"
    BY <2>1 DEF SoleAt, Stage
  <2> QED
    BY <2>1, <2>8, <2>9 DEF CacheOK, CacheAt, Covering, Unsettled, Publishing
<1>3. ASSUME NEW t, RecompileSkips(p, t) \/ RecompileEnds(p)
      PROVE  CacheOK(p)'
  <2>1. /\ pc[p] = "recompile" /\ pc'[p] \in {"recompile", "list"}
        /\ UNCHANGED <<wiki, cache, cmd>>
    BY <1>3 DEF TypeOK, RecompileSkips, RecompileEnds, Step
  <2>2. cmd[p] # "build"
    BY <2>1 DEF SoleAt, Stage
  <2> QED
    BY <2>1, <2>2, CacheKeeps DEF Unsettled, Publishing
<1> QED
  BY <1>1, <1>2, <1>3 DEF Redo

(* Deleting: the cache loses the id after the article has gone. *)
LEMMA CacheDelete ==
  ASSUME TypeOK, NEW p \in Proc, DeletesOne(p), CacheOK(p), Delete(p)
  PROVE  CacheOK(p)'
<1> USE DEF disk, outer, past, local
<1>1. ASSUME NEW i, DeleteLoad(p, i)
      PROVE  CacheOK(p)'
  <2>1. /\ pc[p] = "idle" /\ pc'[p] = "dropRaws" /\ cmd'[p] = "delete"
        /\ UNCHANGED <<wiki, cache>>
    BY <1>1 DEF TypeOK, DeleteLoad, Start, Call
  <2> QED
    BY <2>1, CacheKeeps DEF Unsettled, Publishing
<1>2. ASSUME NEW t \in targets[p], DropRaws(p, t)
      PROVE  CacheOK(p)'
  <2>1. /\ pc[p] = "dropRaws" /\ pc'[p] = "unlink"
        /\ UNCHANGED <<wiki, cache, cmd, jobs, todo, snap, seen>>
    BY <1>2 DEF TypeOK, DropRaws, Step
  <2>2. Covering(p)'
    BY <2>1, CoveringMoves DEF CacheOK
  <2> QED
    BY <2>1, <2>2 DEF CacheOK, CacheAt, Unsettled, Publishing
<1>3. ASSUME NEW t \in targets[p], Unlink(p, t)
      PROVE  CacheOK(p)'
  <2>1. /\ pc[p] = "unlink" /\ pc'[p] = "delIndex" /\ wiki' = WikiWithout({t.id})
        /\ UNCHANGED <<cache, cmd, jobs, todo, targets, snap, seen>>
    BY <1>3 DEF TypeOK, Unlink, Step
  <2>2. Covering(p)'
    BY <2>1, CoveringMoves DEF CacheOK
  <2>3. \A u \in targets[p] : u = t
    BY <2>1 DEF DeletesOne, Deleting
  <2>4. Exact(wiki, cache, {})
    BY <2>1 DEF CacheOK, Unsettled, Publishing
  <2>5. Exact(wiki', CacheWithout(t.id), {})
    BY <2>1, <2>4, ExactUnlink
  <2>6. \A i : CacheWithout(i)' = CacheWithout(i)
    BY <2>1 DEF CacheWithout
  <2>7. CacheAt(p)'
    BY <2>1, <2>3, <2>5, <2>6 DEF CacheAt, Publishing
  <2> QED
    BY <2>1, <2>2, <2>7 DEF CacheOK, Unsettled
<1>4. CASE DeleteIndex(p)
  <2>1. /\ pc[p] = "delIndex" /\ pc'[p] = "delCache"
        /\ UNCHANGED <<wiki, cache, cmd, jobs, todo, targets, snap, seen>>
    BY <1>4 DEF TypeOK, DeleteIndex, Step
  <2>2. Covering(p)'
    BY <2>1, CoveringMoves DEF CacheOK
  <2>3. \A i : CacheWithout(i)' = CacheWithout(i)
    BY <2>1 DEF CacheWithout
  <2> QED
    BY <2>1, <2>2, <2>3 DEF CacheOK, CacheAt, Unsettled, Publishing
<1>5. ASSUME NEW t \in targets[p], DeleteCache(p, t)
      PROVE  CacheOK(p)'
  <2>1. /\ pc[p] = "delCache" /\ pc'[p] = "delVecs" /\ cache' = CacheWithout(t.id)
        /\ UNCHANGED <<wiki, cmd, jobs, todo, targets, snap, seen>>
    BY <1>5 DEF TypeOK, DeleteCache, Step
  <2>2. Covering(p)'
    BY <2>1, CoveringMoves DEF CacheOK
  <2>3. Exact(wiki, CacheWithout(t.id), {})
    BY <2>1 DEF CacheOK, CacheAt
  <2> QED
    BY <2>1, <2>2, <2>3 DEF CacheOK, CacheAt, Unsettled, Publishing
<1>6. ASSUME NEW t \in targets[p], DeleteVecs(p, t)
      PROVE  CacheOK(p)'
  BY <1>6, CacheExit DEF DeleteVecs, Unsettled, Publishing
<1> QED
  BY <1>1, <1>2, <1>3, <1>4, <1>5, <1>6 DEF Delete

(* A cleared scope has neither articles nor entries, whatever it had. *)
LEMMA CacheCleared ==
  ASSUME IdentityInv, NEW p \in Proc, Clear(p)
  PROVE  CacheOK(p)'
<1>1. /\ pc[p] = "idle" /\ UNCHANGED <<pc, cmd>>
      /\ wiki' = [i \in Id |-> None] /\ cache' = [s \in Source |-> None]
  BY DEF Clear, Call, local, NoCache
<1>2. cmd[p] = "none"
  BY <1>1, IdleFacts
<1>3. Exact(wiki', cache', {})
  BY <1>1 DEF Exact, Of
<1> QED
  BY <1>1, <1>2, <1>3 DEF CacheOK, CacheAt, Covering, Unsettled, Publishing

(* No command of a process lets its copy of the cache, or the one on disk, *)
(* stand for an article that is not, or is no longer, there.               *)
LEMMA CacheCommand ==
  ASSUME DistinctIds, TypeOK, LoneInv, IdentityInv, IdentityInv', NEW p \in Proc, SoleAt(p),
         WorkTracked(p), CacheOK(p), pc[p] # "idle" => alone, Command(p)
  PROVE  CacheOK(p)'
<1> USE DEF disk, outer, past, local
<1>1. CASE Build(p)
  BY <1>1, CacheBuild
<1>2. CASE Write(p)
  <2>1. pc[p] # "idle"
    BY <1>2 DEF Write, Save, Saved, Retire, RetireVecs, SaveCache, List, SaveIndex, Step
  <2> QED
    BY <1>2, <2>1, CacheWrite
<1>3. CASE Redo(p)
  BY <1>3, CacheRedo
<1>4. CASE Delete(p)
  BY <1>4, CacheDelete DEF LoneInv
<1>5. ASSUME NEW l, NEW c, Ingest(p, l, c)
      PROVE  CacheOK(p)'
  <2>1. /\ pc[p] = "idle" /\ pc'[p] = "compile" /\ cmd'[p] = "ingest"
        /\ UNCHANGED <<wiki, cache>>
    BY <1>5 DEF TypeOK, Ingest, Start, Call
  <2> QED
    BY <2>1, CacheKeeps DEF Unsettled, Publishing
<1>6. ASSUME NEW a, NEW b, Accept(p, a, b)
      PROVE  CacheOK(p)'
  <2>1. /\ pc[p] = "idle" /\ pc'[p] = "save" /\ cmd'[p] = "accept" /\ snap'[p] = cache
        /\ reg'[p] = LoadRegistry(wiki) /\ UNCHANGED <<wiki, cache>>
    BY <1>6 DEF TypeOK, Accept, Start, Call
  <2>2. Draft(p)' = cache /\ Leaving(p)' = {}
    BY <2>1, LoadComplete DEF Draft, Leaving
  <2>3. Exact(wiki, cache, {})
    BY <2>1 DEF CacheOK, Unsettled, Publishing
  <2> QED
    BY <2>1, <2>2, <2>3 DEF CacheOK, CacheAt, Covering, Unsettled, Publishing
<1>7. ASSUME NEW i, Prepare(p) \/ AttachVector(p, i)
      PROVE  CacheOK(p)'
  <2>1. pc[p] = "idle" /\ UNCHANGED <<wiki, cache, pc, cmd>>
    BY <1>7 DEF Prepare, AttachVector, Call
  <2> QED
    BY <2>1, IdleFacts, CacheKeeps DEF Unsettled, Publishing
<1>8. CASE Clear(p)
  BY <1>8, CacheCleared
<1> QED
  BY <1>1, <1>2, <1>3, <1>4, <1>5, <1>6, <1>7, <1>8 DEF Command

(* Nor does any other step. *)
LEMMA CacheStep ==
  ASSUME DistinctIds, OutsideLabelled, TypeOK, LoneInv, LoneInv', IdentityInv, IdentityInv',
         SoleInv, CacheInv, [Next]_vars
  PROVE  CacheInv'
<1> USE DEF disk, outer, past, local
<1>1. CASE UNCHANGED vars
  BY <1>1 DEF CacheInv, OfferedTree, WorkTracked, CacheAt, Draft, Leaving, CacheWithout,
              Covering, vars
<1>2. CASE \E s \in TreeSource, c \in Content \cup {None} : Edit(s, c)
  BY <1>2 DEF CacheInv, OfferedTree, WorkTracked, CacheAt, Draft, Leaving, CacheWithout,
              Covering, Edit
<1>3. ASSUME NEW p \in Proc, Command(p) \/ Crash(p) \/ CrashInWrite(p)
      PROVE  CacheInv'
  <2>1. Moves(p)
    BY <1>3, CommandMoves
  <2>2. OfferedTree'
    <3>1. CASE offered' = offered
      BY <3>1 DEF CacheInv, OfferedTree
    <3>2. CASE Prepare(p)
      BY <3>2 DEF CacheInv, OfferedTree, Prepare, Pending
    <3>3. offered' = offered \/ Prepare(p)
      <4>1. CASE Command(p)
        BY <4>1 DEF Command, Build, BuildScan, Compile, CompileFails, IngestFails, LoadIds,
                    Write, Save, Saved, Retire, RetireVecs, SaveCache, List, SaveIndex,
                    Redo, RecompileLoad, RecompileOne, RecompileSkips, RecompileEnds,
                    Delete, DeleteLoad, DropRaws, Unlink, DeleteIndex, DeleteCache,
                    DeleteVecs, Ingest, Accept, Clear, AttachVector
      <4>2. CASE Crash(p) \/ CrashInWrite(p)
        BY <4>2 DEF Crash, CrashInWrite
      <4> QED
        BY <1>3, <4>1, <4>2
    <3> QED
      BY <3>1, <3>2, <3>3
  <2>3. WorkTracked(p)'
    <3>1. CASE Command(p)
      BY <3>1, TrackedCommand DEF CacheInv
    <3>2. CASE Crash(p) \/ CrashInWrite(p)
      <4>1. jobs'[p] = {} /\ todo'[p] = {}
        BY <3>2 DEF TypeOK, Crash, CrashInWrite, Exit
      <4> QED
        BY <4>1 DEF WorkTracked
    <3> QED
      BY <1>3, <3>1, <3>2
  <2>4. ASSUME NEW q \in Proc \ {p}
        PROVE  WorkTracked(q)'
    BY <2>1 DEF Moves, CacheInv, WorkTracked
  <2>5. ASSUME "cache" \notin suspect'
        PROVE  /\ \A q \in Proc : CacheAt(q)' /\ Covering(q)'
               /\ (\A q \in Proc : pc'[q] \notin Unsettled) => Exact(wiki', cache', {})
    <3>1. alone' /\ Command(p)
      <4>1. alone'
        BY <2>5 DEF LoneInv, Overlapped, Files
      <4>2. ~ (Crash(p) \/ CrashInWrite(p))
        BY <2>5 DEF Crash, CrashInWrite, Files
      <4> QED
        BY <1>3, <4>1, <4>2
    <3>2. /\ \A q \in Proc \ {p} : pc[q] = "idle" /\ pc'[q] = "idle"
          /\ pc[p] # "idle" => alone
      BY <2>1, <3>1, AtWork
    <3>3. CacheOK(p)'
      <4>1. CASE Clear(p)
        BY <4>1, CacheCleared
      <4>2. CASE ~ Clear(p)
        <5>1. "cache" \notin suspect
          BY <2>1, <2>5, <4>2 DEF Moves, Files
        <5>2. /\ CacheAt(p) /\ Covering(p)
              /\ (\A q \in Proc : pc[q] \notin Unsettled) => Exact(wiki, cache, {})
          BY <5>1 DEF CacheInv
        <5>3. CacheOK(p)
          BY <3>2, <5>2 DEF CacheOK, Unsettled, Publishing
        <5>4. SoleAt(p) /\ WorkTracked(p)
          BY DEF SoleInv, SoleAt, CacheInv
        <5> QED
          BY <3>1, <3>2, <5>3, <5>4, CacheCommand
      <4> QED
        BY <4>1, <4>2
    <3>4. ASSUME NEW q \in Proc \ {p}
          PROVE  CacheAt(q)' /\ Covering(q)'
      <4>1. pc'[q] = "idle" /\ cmd'[q] = "none"
        BY <2>1, <3>2, IdleFacts DEF Moves
      <4> QED
        BY <4>1 DEF CacheAt, Covering, Publishing
    <3>5. \A q \in Proc : CacheAt(q)' /\ Covering(q)'
      BY <3>3, <3>4 DEF CacheOK
    <3>6. (\A q \in Proc : pc'[q] \notin Unsettled) => Exact(wiki', cache', {})
      BY <3>3 DEF CacheOK, Unsettled, Publishing
    <3> QED
      BY <3>5, <3>6
  <2> QED
    BY <2>2, <2>3, <2>4, <2>5 DEF CacheInv, Unsettled, Publishing
<1> QED
  BY <1>1, <1>2, <1>3 DEF Next

(* What is handed in from outside the tree names its source. *)
LEMMA LabelledSourced ==
  ASSUME OutsideLabelled
  PROVE  AllSourced
BY DEF OutsideLabelled, AllSourced

(* The inductive invariant holds of every behaviour. *)
LEMMA CacheHolds ==
  ASSUME DistinctIds, OutsideLabelled
  PROVE  Spec => [](SoleInv /\ CacheInv)
<1>1. Init => CacheInv
  <2> SUFFICES ASSUME Init
               PROVE  CacheInv
    OBVIOUS
  <2>1. \A p \in Proc : pc[p] = "idle" /\ cmd[p] = "none" /\ jobs[p] = {} /\ todo[p] = {}
    BY DEF Init
  <2>2. OfferedTree /\ Exact(wiki, cache, {})
    BY DEF Init, OfferedTree, Exact, Of, NoCache
  <2>3. \A p \in Proc : WorkTracked(p) /\ CacheAt(p) /\ Covering(p)
    BY <2>1 DEF WorkTracked, CacheAt, Covering, Publishing
  <2> QED
    BY <2>2, <2>3 DEF CacheInv
<1>2. (/\ TypeOK /\ LoneInv /\ LoneInv' /\ IdentityInv /\ IdentityInv' /\ SoleInv
       /\ CacheInv /\ [Next]_vars) => CacheInv'
  BY CacheStep
<1>3. /\ Spec => []TypeOK
      /\ Spec => []LoneInv
      /\ Spec => []IdentityInv
      /\ Spec => []SoleInv
  BY TypeCorrect, LoneHolds, IdentityHolds, SoleHolds, LabelledSourced
<1> QED
  BY <1>1, <1>2, <1>3, PTL DEF Spec

(* What a cache that is not under suspicion says of a file of the tree.    *)
LEMMA ExactEntry ==
  ASSUME NEW w, NEW k, Exact(w, k, {}), NEW s \in Source, k[s] # None
  PROVE  /\ s \in TreeSource /\ Of(w, s) = {k[s].id}
         /\ w[k[s].id] # None /\ w[k[s].id].src = s /\ w[k[s].id].raw = {k[s].hash}
BY DEF Exact, Of

(* Between commands, unless one was interrupted or two overlapped, a       *)
(* cached hash stands for an article of that source compiled from that     *)
(* content: what build skips is really there (cmd_build.go).               *)
THEOREM CachedIsThere ==
  ASSUME DistinctIds, OutsideLabelled
  PROVE  Spec => []CacheNamesArticle
<1>1. CacheInv => CacheNamesArticle
  <2> SUFFICES ASSUME CacheInv, Quiet, "cache" \notin suspect,
                      NEW s \in Source, cache[s] # None
               PROVE  /\ wiki[cache[s].id] # None /\ wiki[cache[s].id].src = s
                      /\ wiki[cache[s].id].raw = {cache[s].hash}
    BY DEF CacheNamesArticle
  <2>1. Exact(wiki, cache, {})
    BY DEF CacheInv, Quiet, Unsettled, Publishing
  <2> QED
    BY <2>1, ExactEntry
<1> QED
  BY <1>1, CacheHolds, PTL

(* A build that has saved its cache has one up-to-date article for every   *)
(* file it scanned and did not fail to compile, the files it skipped       *)
(* included (Scan, Merge).                                                 *)
THEOREM BuildCovers ==
  ASSUME DistinctIds, OutsideLabelled
  PROVE  Spec => []BuildCoversTree
<1>1. LoneInv /\ SoleInv /\ CacheInv => BuildCoversTree
  <2> SUFFICES ASSUME LoneInv, SoleInv, CacheInv,
                      NEW p \in Proc, pc[p] = "list", cmd[p] = "build", alone,
                      "cache" \notin suspect, NEW s \in TreeSource, seen[p][s] # None
               PROVE  \E i \in Id : ArticlesOf(s) = {i} /\ wiki[i].raw = {seen[p][s]}
    BY DEF BuildCoversTree
  <2>1. \A q \in Proc : pc[q] \notin Unsettled
    <3>1. \A q \in Proc \ {p} : pc[q] = "idle"
      BY DEF LoneInv, Solo
    <3> QED
      BY <3>1 DEF Unsettled, Publishing
  <2>2. Exact(wiki, cache, {}) /\ Covering(p)
    BY <2>1 DEF CacheInv
  <2>3. jobs[p] = {} /\ todo[p] = {}
    BY DEF SoleInv, Stage
  <2>4. cache[s] # None /\ cache[s].hash = seen[p][s]
    BY <2>2, <2>3 DEF Covering
  <2>5. s \in Source
    BY TreeAssumption
  <2>6. Of(wiki, s) = {cache[s].id} /\ wiki[cache[s].id].raw = {cache[s].hash}
    BY <2>2, <2>4, <2>5, ExactEntry
  <2>7. cache[s].id \in Id
    BY <2>6 DEF Of
  <2> QED
    BY <2>4, <2>6, <2>7 DEF Of, ArticlesOf
<1> QED
  BY <1>1, LoneHolds, CacheHolds, PTL

(* Commands find the scope as others have left it, with twins, changed     *)
(* ids, cut-short writes or another command in their midst; what they      *)
(* leave agrees with itself (cmd_build.go, cmd_agent.go).                  *)
THEOREM ScopeAgrees ==
  ASSUME DistinctIds, OutsideLabelled
  PROVE  Spec => []ScopeIsConsistent
<1>1. /\ Spec => []OneArticlePerSource
      /\ Spec => []BuildCoversTree
      /\ Spec => []IndexMatchesWiki
      /\ Spec => []VectorsHaveArticles
  BY OneArticle, BuildCovers, IndexAgrees, VectorsAgree, LabelledSourced
<1> QED
  BY <1>1, PTL DEF ScopeIsConsistent
=============================================================================
