----------------------------- MODULE ArticleIds -----------------------------
(***************************************************************************)
(* The identity of articles: how a write command turns the id that a title *)
(* or a file name proposes into the id of the file it writes               *)
(* (internal/store/store.go, type IDRegistry).                             *)
(*                                                                         *)
(* Ids are natural numbers whose order is the lexicographic order of the   *)
(* code's strings.  Ids that differ only in letter case are one id here:   *)
(* the owner map of the code is keyed by the lower-cased id.  A content    *)
(* stands for the file contents, their hash and the raw doc id cut from it.*)
(***************************************************************************)
EXTENDS Naturals, FiniteSets, FiniteSetsExt

CONSTANTS
  Id,        \* article ids
  Source,    \* non-empty SourcePath values
  NoSource,  \* the empty SourcePath
  Content,   \* file contents
  Alt,       \* Alt[i, s, k]: id i disambiguated for source s, k-th length
  None       \* an absent map entry

Owner == Source \cup {NoSource}

ASSUME IdAssumption      == Id \subseteq Nat
ASSUME OwnerAssumption   == NoSource \notin Source /\ None \notin Owner
ASSUME AltAssumption     == Alt \in [Id \X Source \X (1..3) -> Id]

(* One line of bySource: source src holds article id, compiled from raw. *)
Entry == [src : Source, id : Id, raw : SUBSET Content]

Registry == [owner   : [Id -> Owner \cup {None}],
             ver     : [Id -> Nat],
             entries : SUBSET Entry,
             retired : SUBSET Id]

EmptyRegistry == [owner   |-> [i \in Id |-> None],
                  ver     |-> [i \in Id |-> 0],
                  entries |-> {},
                  retired |-> {}]

(* Mutant: an article without a source gets a line too. *)
LoadRegistryAll(wiki) ==
  LET live == {i \in Id : wiki[i] # None}
  IN  [owner   |-> [i \in Id |-> IF i \in live THEN wiki[i].src ELSE None],
       ver     |-> [i \in Id |-> IF i \in live THEN wiki[i].ver ELSE 0],
       entries |-> {[src |-> wiki[i].src, id |-> i, raw |-> wiki[i].raw] : i \in live},
       retired |-> {}]

(* LoadIDRegistry: wiki maps every id to its article, or to None. *)
LoadRegistry(wiki) ==
  LET live == {i \in Id : wiki[i] # None}
  IN  [owner   |-> [i \in Id |-> IF i \in live THEN wiki[i].src ELSE None],
       ver     |-> [i \in Id |-> IF i \in live THEN wiki[i].ver ELSE 0],
       entries |-> {[src |-> wiki[i].src, id |-> i, raw |-> wiki[i].raw] :
                      i \in {j \in live : wiki[j].src # NoSource}},
       retired |-> {}]

Has(r, id) == r.owner[id] # None

(* record: a source's line for the id is replaced, never duplicated. *)
Record(r, id, src, raw, v) ==
  [r EXCEPT
     !.owner[id] = src,
     !.ver[id]   = v,
     !.entries   = IF src = NoSource THEN @
                   ELSE {e \in @ : e.src # src \/ e.id # id}
                          \cup {[src |-> src, id |-> id, raw |-> raw]}]

(* The ids src already holds.  A label names a caller's text rather than a *)
(* file, so there the raw doc has to match too (sharesRaw).                *)
Held(r, src, raw, label) ==
  {e.id : e \in {f \in r.entries : /\ f.src = src
                                   /\ label => f.raw \cap raw # {}}}

Keep(held, proposed) == IF proposed \in held THEN proposed ELSE Min(held)

(* Mutant: the kept id is retired with the others. *)
RetireTwinsAll(r, src, keep, ids) ==
  LET twins == {e \in r.entries : e.src = src /\ e.id \in ids}
  IN  [r EXCEPT !.entries = @ \ twins,
                !.retired = @ \cup {e.id : e \in twins}]

(* retireTwins *)
RetireTwins(r, src, keep, ids) ==
  LET twins == {e \in r.entries : e.src = src /\ e.id # keep /\ e.id \in ids}
  IN  [r EXCEPT !.entries = @ \ twins,
                !.retired = @ \cup {e.id : e \in twins}]

OpenTo(r, id, src) == r.owner[id] \in {None, src}

(* The slug itself, else 8, 16, 64 hex digits of the source's hash after   *)
(* it; the last candidate is taken unchecked.                              *)
Candidate(proposed, src, k) ==
  IF k = 0 THEN proposed ELSE Alt[proposed, src, k]

(* Mutants: no disambiguation; the second candidate taken unchecked. *)
DisambiguateNever(r, proposed, src) == proposed

DisambiguateShort(r, proposed, src) ==
  LET k == CHOOSE n \in 0..2 :
             /\ n = 2 \/ OpenTo(r, Candidate(proposed, src, n), src)
             /\ \A m \in 0..2 : m < n => ~ OpenTo(r, Candidate(proposed, src, m), src)
  IN  IF src = NoSource THEN proposed ELSE Candidate(proposed, src, k)

Disambiguate(r, proposed, src) ==
  IF src = NoSource THEN proposed
  ELSE LET k == CHOOSE n \in 0..3 :
                  /\ n = 3 \/ OpenTo(r, Candidate(proposed, src, n), src)
                  /\ \A m \in 0..3 : m < n => ~ OpenTo(r, Candidate(proposed, src, m), src)
       IN  Candidate(proposed, src, k)

Claimed(r, id, src, raw) ==
  [id |-> id, ver |-> r.ver[id] + 1, reg |-> Record(r, id, src, raw, r.ver[id] + 1)]

(* IDRegistry.Claim *)
Claim(r, proposed, src, raw, label) ==
  LET held == IF src = NoSource THEN {} ELSE Held(r, src, raw, label)
      keep == Keep(held, proposed)
  IN  IF held # {} THEN Claimed(RetireTwins(r, src, keep, held), keep, src, raw)
      ELSE Claimed(r, Disambiguate(r, proposed, src), src, raw)

(* Mutant: the article the source had under another id stays. *)
ClaimFixedOnly(r, id, src, raw) == Claimed(r, id, src, raw)

(* IDRegistry.ClaimFixed; SourcePath of a glossary file is never empty. *)
ClaimFixed(r, id, src, raw) ==
  Claimed(RetireTwins(r, src, id, Held(r, src, raw, FALSE)), id, src, raw)
=============================================================================
