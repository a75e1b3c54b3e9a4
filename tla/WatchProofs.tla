---------------------------- MODULE WatchProofs -----------------------------
(***************************************************************************)
(* Proofs about kb watch and the pool of its builds, for every tree,       *)
(* concurrency, room in the queue of events and number of changes.         *)
(***************************************************************************)
EXTENDS WatchInv, FiniteSetTheorems, TLAPS

(* The goroutines with a token are files of a finite tree.                 *)
LEMMA HoldingFinite == IsFiniteSet(Holding) /\ Cardinality(Holding) \in Nat
<1>1. Holding \subseteq File
  BY DEF Holding
<1>2. IsFiniteSet(Holding)
  BY <1>1, TreeAssumption, FS_Subset
<1> QED
  BY <1>2, FS_CardinalityType

(* Acquire adds one of them.                                               *)
LEMMA HoldingGrows ==
    ASSUME TypeOK, NEW f \in File, at[f] = "waiting", at' = [at EXCEPT ![f] = "compiling"]
    PROVE  Cardinality(Holding') = Cardinality(Holding) + 1
<1>1. at \in [File -> {"none", "waiting", "compiling", "leaving", "left"}]
  BY DEF TypeOK, PoolTypeOK
<1>2. f \notin Holding
  BY DEF Holding
<1>3. Holding' = Holding \cup {f}
  BY <1>1 DEF Holding
<1>4. IsFiniteSet(Holding)
  BY HoldingFinite
<1> HIDE DEF Holding
<1> QED
  BY <1>2, <1>3, <1>4, FS_AddElement

(* Release takes one away.                                                 *)
LEMMA HoldingShrinks ==
    ASSUME TypeOK, NEW f \in File, at[f] = "leaving", at' = [at EXCEPT ![f] = "left"]
    PROVE  Cardinality(Holding') = Cardinality(Holding) - 1 /\ Cardinality(Holding) > 0
<1>1. at \in [File -> {"none", "waiting", "compiling", "leaving", "left"}]
  BY DEF TypeOK, PoolTypeOK
<1>2. f \in Holding
  BY DEF Holding
<1>3. Holding' = Holding \ {f}
  BY <1>1 DEF Holding
<1>4. IsFiniteSet(Holding) /\ Cardinality(Holding) \in Nat
  BY HoldingFinite
<1>5. Cardinality(Holding \ {f}) = Cardinality(Holding) - 1
  BY <1>2, <1>4, FS_RemoveElement
<1>6. IsFiniteSet(Holding \ {f})
  BY <1>4, FS_Subset
<1>7. Cardinality(Holding \ {f}) \in Nat
  BY <1>6, FS_CardinalityType
<1> QED
  BY <1>3, <1>4, <1>5, <1>7

(* While no compile ends and none starts, the same goroutines have tokens. *)
LEMMA HoldingSame ==
    ASSUME \A f \in File : at'[f] \in {"compiling", "leaving"} <=> at[f] \in {"compiling", "leaving"}
    PROVE  Cardinality(Holding') = Cardinality(Holding)
<1>1. Holding' = Holding
  BY DEF Holding
<1> QED
  BY <1>1

(* An initial state has no build under way.                                *)
LEMMA InitIInv == Init => IInv
<1> SUFFICES ASSUME Init PROVE IInv
  OBVIOUS
<1>1. TypeOK
  <2>1. PoolTypeOK
    BY ConcurrencyAssumption DEF Init, PoolInit, PoolTypeOK, Nothing, Nobody, Known
  <2>2. Cap \in Nat
    BY WatchAssumption
  <2>3. queue \in Seq(Event) /\ Len(queue) <= Cap
    BY <2>2 DEF Init
  <2> QED
    BY <2>1, <2>3 DEF Init, TypeOK
<1>2. PoolInv
  <2>1. Holding = {}
    BY DEF Holding, Init, PoolInit, Nobody
  <2>2. sem = Cardinality(Holding)
    BY <2>1, FS_EmptySet DEF Init, PoolInit
  <2> QED
    BY <2>2, ConcurrencyAssumption DEF PoolInv, Init, PoolInit, Nobody
<1>3. ChangesInv
  BY DEF ChangesInv, Handled, Init
<1> QED
  BY <1>1, <1>2, <1>3 DEF IInv
-----------------------------------------------------------------------------
(* The types, step by step.  A token is returned only by one that has it.  *)
LEMMA TypeStep ==
    ASSUME TypeOK, PoolInv, [Next]_vars
    PROVE  TypeOK'
<1> USE DEF TypeOK, PoolTypeOK
<1>0. Cap \in Nat /\ Concurrency \in Nat
  BY WatchAssumption, ConcurrencyAssumption
<1>1. ASSUME NEW f \in File, NEW c \in Content \cup {None}, Edit(f, c)
      PROVE  TypeOK'
  <2>1. content' \in Known
    BY <1>1 DEF Edit, Known
  <2>2. queue' \in Seq(Event) /\ Len(queue') <= Cap
    <3>1. CASE queue' = queue
      BY <3>1
    <3>2. CASE queue' # queue
      <4>1. PICK e \in Event : queue' = Append(queue, e) /\ Len(queue) < Cap
        BY <1>1, <3>2 DEF Edit, Event
      <4> QED
        BY <4>1, <1>0
    <3> QED
      BY <3>1, <3>2
  <2> QED
    BY <1>1, <2>1, <2>2 DEF Edit, pool, saved
<1>2. CASE Start
  BY <1>2 DEF Start, saved, pool, watch
<1>3. CASE Open
  BY <1>3 DEF Open, saved, pool
<1>4. CASE Build
  <2> USE DEF watch, saved, pool
  <2>1. CASE phase = "scan" /\ Scan
    BY <1>4, <2>1 DEF Build, Scan, Present, Nothing, Nobody, Known
  <2> DEFINE next == IF open THEN "watching" ELSE "opening"
  <2>2. ASSUME NEW f \in File, ReadFile(f) PROVE TypeOK'
    BY <1>4, <2>2 DEF Build, ReadFile, Known
  <2>3. ASSUME NEW f \in File, Acquire(f) PROVE TypeOK'
    BY <1>4, <2>3, <1>0 DEF Build, Acquire
  <2>4. ASSUME NEW f \in File, Compiled(f) PROVE TypeOK'
    BY <1>4, <2>4 DEF Build, Compiled
  <2>5. ASSUME NEW f \in File, CompileFails(f) PROVE TypeOK'
    BY <1>4, <2>5 DEF Build, CompileFails, Known
  <2>6. ASSUME NEW f \in File, Release(f) PROVE TypeOK'
    <3>1. sem = Cardinality(Holding)
      BY DEF PoolInv
    <3>2. Cardinality(Holding) > 0
      <4>1. at[f] = "leaving" /\ at' = [at EXCEPT ![f] = "left"]
        BY <2>6 DEF Release
      <4> QED
        BY <4>1, HoldingShrinks
    <3>3. sem - 1 \in 0..Concurrency
      BY <3>1, <3>2, <1>0
    <3> QED
      BY <1>4, <2>6, <3>3 DEF Build, Release
  <2>7. CASE StartJobs
    BY <1>4, <2>7 DEF Build, StartJobs
  <2>8. CASE SaveResults(next)
    BY <1>4, <2>8, NoContentAssumption DEF Build, SaveResults, Entry, Known
  <2> QED
    BY <1>4, <2>1, <2>2, <2>3, <2>4, <2>5, <2>6, <2>7, <2>8 DEF Build, BuildStep
<1>5. CASE HandleEvent
  <2>1. queue' \in Seq(Event) /\ Len(queue') <= Cap
    BY <1>5, <1>0 DEF HandleEvent
  <2> QED
    BY <1>5, <2>1 DEF HandleEvent, buildVars, saved, pool
<1>6. CASE Expire
  BY <1>6 DEF Expire, buildVars, saved, pool
<1>7. CASE Rebuild
  BY <1>7 DEF Rebuild, saved, pool
<1>8. CASE UNCHANGED vars
  BY <1>8 DEF vars, buildVars, watch, saved, pool
<1> QED
  BY <1>1, <1>2, <1>3, <1>4, <1>5, <1>6, <1>7, <1>8 DEF Next
-----------------------------------------------------------------------------
(* The pool, step by step.                                                 *)
LEMMA PoolStep ==
    ASSUME TypeOK, TypeOK', PoolInv, [Next]_vars
    PROVE  PoolInv'
<1> USE DEF watch, saved, pool, buildVars
<1>t. /\ at \in [File -> {"none", "waiting", "compiling", "leaving", "left"}]
      /\ at' \in [File -> {"none", "waiting", "compiling", "leaving", "left"}]
      /\ job \in Known /\ job' \in Known /\ failed \in Known /\ failed' \in Known
      /\ article \in Known /\ cached \in Known
      /\ results \subseteq File /\ sem \in Nat /\ sem' \in Nat /\ sem' <= Concurrency
  BY ConcurrencyAssumption DEF TypeOK, PoolTypeOK
<1>s. at' = at => Cardinality(Holding') = Cardinality(Holding)
  BY DEF Holding
<1>1. ASSUME UNCHANGED <<at, sem, results, article, cached, job, failed>>,
             phase' = phase \/ (phase # "compiling" /\ phase' \notin {"compiling", "reading"})
      PROVE  PoolInv'
  BY <1>1, <1>s DEF PoolInv
<1>2. ASSUME NEW f \in File, NEW c \in Content \cup {None}, Edit(f, c)
      PROVE  PoolInv'
  BY <1>1, <1>2 DEF Edit
<1>3. CASE Start
  BY <1>1, <1>3 DEF Start
<1>4. CASE Open
  BY <1>1, <1>4 DEF Open
<1>5. CASE Build
  <2>1. CASE phase = "scan" /\ Scan
    <3>1. at \in [File -> {"none", "left"}]
      BY <1>t, <2>1 DEF PoolInv
    <3>2. Cardinality(Holding') = Cardinality(Holding)
      <4>1. \A f \in File : at'[f] \in {"compiling", "leaving"} <=> at[f] \in {"compiling", "leaving"}
        BY <2>1, <3>1 DEF Scan, Nobody
      <4> QED
        BY <4>1, HoldingSame
    <3>3. phase' # "compiling" /\ \A f \in File : at'[f] = "none"
      BY <2>1 DEF Scan, Nobody
    <3> QED
      BY <2>1, <3>2, <3>3 DEF Scan, PoolInv
  <2> DEFINE next == IF open THEN "watching" ELSE "opening"
  <2>2. ASSUME NEW f \in File, ReadFile(f) PROVE PoolInv'
    BY <2>2, <1>s DEF ReadFile, PoolInv
  <2>3. ASSUME NEW f \in File, Acquire(f) PROVE PoolInv'
    <3>1. Cardinality(Holding') = Cardinality(Holding) + 1
      <4>1. at[f] = "waiting" /\ at' = [at EXCEPT ![f] = "compiling"]
        BY <2>3 DEF Acquire
      <4> QED
        BY <4>1, HoldingGrows
    <3>2. sem' = Cardinality(Holding') /\ sem' <= Concurrency
      BY <2>3, <3>1, <1>t DEF Acquire, PoolInv
    <3> QED
      BY <2>3, <3>2, <1>t DEF Acquire, PoolInv
  <2>4. ASSUME NEW f \in File, Compiled(f) PROVE PoolInv'
    <3>1. Cardinality(Holding') = Cardinality(Holding)
      <4>1. \A g \in File : at'[g] \in {"compiling", "leaving"} <=> at[g] \in {"compiling", "leaving"}
        BY <2>4, <1>t DEF Compiled
      <4> QED
        BY <4>1, HoldingSame
    <3>2. sem' = Cardinality(Holding') /\ sem' <= Concurrency
      BY <2>4, <3>1, <1>t DEF Compiled, PoolInv
    <3> QED
      BY <2>4, <3>2, <1>t DEF Compiled, PoolInv
  <2>5. ASSUME NEW f \in File, CompileFails(f) PROVE PoolInv'
    <3>1. Cardinality(Holding') = Cardinality(Holding)
      <4>1. \A g \in File : at'[g] \in {"compiling", "leaving"} <=> at[g] \in {"compiling", "leaving"}
        BY <2>5, <1>t DEF CompileFails
      <4> QED
        BY <4>1, HoldingSame
    <3>2. sem' = Cardinality(Holding') /\ sem' <= Concurrency
      BY <2>5, <3>1, <1>t DEF CompileFails, PoolInv
    <3>3. \A g \in File : failed'[g] = IF g = f THEN job[g] ELSE failed[g]
      BY <2>5, <1>t DEF CompileFails, Known
    <3> QED
      BY <2>5, <3>2, <3>3, <1>t DEF CompileFails, PoolInv
  <2>6. ASSUME NEW f \in File, Release(f) PROVE PoolInv'
    <3>1. Cardinality(Holding') = Cardinality(Holding) - 1
      <4>1. at[f] = "leaving" /\ at' = [at EXCEPT ![f] = "left"]
        BY <2>6 DEF Release
      <4> QED
        BY <4>1, HoldingShrinks
    <3>2. sem' = Cardinality(Holding') /\ sem' <= Concurrency
      BY <2>6, <3>1, <1>t DEF Release, PoolInv
    <3> QED
      BY <2>6, <3>2, <1>t DEF Release, PoolInv
  <2>7. CASE StartJobs
    <3>1. at \in [File -> {"none", "left"}]
      BY <1>t, <2>7 DEF StartJobs, PoolInv
    <3>2. Cardinality(Holding') = Cardinality(Holding)
      <4>1. \A f \in File : at'[f] \in {"compiling", "leaving"} <=> at[f] \in {"compiling", "leaving"}
        BY <2>7, <3>1 DEF StartJobs
      <4> QED
        BY <4>1, HoldingSame
    <3>3. sem' = Cardinality(Holding') /\ sem' <= Concurrency
      BY <2>7, <3>2, <1>t DEF StartJobs, PoolInv
    <3> QED
      BY <2>7, <3>3, <1>t DEF StartJobs, Jobs, PoolInv
  <2>8. CASE SaveResults(next)
    <3>1. article' = cached'
      BY <2>8 DEF SaveResults, Entry, PoolInv
    <3>2. phase' \notin {"compiling", "reading"}
      BY <2>8 DEF SaveResults
    <3>3. \A f \in File : at'[f] \in {"none", "left"}
      BY <2>8, <1>t DEF SaveResults, PoolInv, Waited, Jobs
    <3> QED
      BY <2>8, <3>1, <3>2, <3>3, <1>s DEF SaveResults, PoolInv
  <2> QED
    BY <1>5, <2>1, <2>2, <2>3, <2>4, <2>5, <2>6, <2>7, <2>8 DEF Build, BuildStep
<1>6. CASE HandleEvent
  BY <1>1, <1>6 DEF HandleEvent
<1>7. CASE Expire
  BY <1>1, <1>7 DEF Expire
<1>8. CASE Rebuild
  BY <1>1, <1>8 DEF Rebuild
<1>9. CASE UNCHANGED vars
  BY <1>1, <1>9 DEF vars
<1> QED
  BY <1>2, <1>3, <1>4, <1>5, <1>6, <1>7, <1>8, <1>9 DEF Next
-----------------------------------------------------------------------------
(* What becomes of a file that nothing happens to: an event stays queued,  *)
(* a timer stays set, a stage of the build is kept.                        *)
LEMMA HandledKept ==
    ASSUME NEW f \in File, Handled(f),
           UNCHANGED <<phase, todo, job, article, failed>>, content'[f] = content[f]
    PROVE  Handled(f)'
BY DEF Handled

(* A file that builds have dealt with, or are dealing with, or will, still *)
(* is one after a step, if its last change gave an event and the pattern   *)
(* is one glob.                                                            *)
LEMMA ChangesStep ==
    ASSUME TypeOK, TypeOK', PoolInv, ChangesInv, Globs = 1, [Next]_vars
    PROVE  ChangesInv'
<1> USE DEF watch, saved, pool, buildVars
<1>t. /\ at \in [File -> {"none", "waiting", "compiling", "leaving", "left"}]
      /\ content \in Known /\ content' \in Known /\ job \in Known /\ job' \in Known
      /\ failed \in Known /\ failed' \in Known /\ article \in Known /\ cached \in Known
      /\ todo \subseteq File /\ results \subseteq File /\ Watched \subseteq File
      /\ queue \in Seq(Event) /\ queue' \in Seq(Event)
  BY WatchAssumption DEF TypeOK, PoolTypeOK
<1> SUFFICES ASSUME NEW f \in Watched \ missed'
             PROVE  content'[f] = None \/ Handled(f)' \/ Expected(f)'
  BY DEF ChangesInv
<1>f. f \in File
  BY <1>t
<1>1. ASSUME NEW g \in File, NEW c \in Content \cup {None}, Edit(g, c)
      PROVE  content'[f] = None \/ Handled(f)' \/ Expected(f)'
  <2>1. CASE f = g
    <3>1. open /\ Len(queue) < Cap
          /\ queue' = Append(queue, [file |-> f, op |-> IF c = None THEN "remove" ELSE "write"])
      BY <1>1, <2>1 DEF Edit
    <3>2. content'[f] = c
      BY <1>1, <2>1, <1>t, <1>f DEF Edit, Known
    <3>3. CASE c # None
      <4>1. Len(queue) + 1 \in DOMAIN queue' /\ queue'[Len(queue) + 1] = [file |-> f, op |-> "write"]
        BY <3>1, <3>3, <1>t
      <4> QED
        BY <4>1 DEF Expected
    <3> QED
      BY <3>2, <3>3
  <2>2. CASE f # g
    <3>1. f \in Watched \ missed
      BY <1>1, <2>2 DEF Edit
    <3>2. content'[f] = content[f]
      BY <1>1, <2>2, <1>t, <1>f DEF Edit, Known
    <3>3. Expected(f) => Expected(f)'
      <4>1. timer' = timer
        BY <1>1 DEF Edit
      <4>2. ASSUME NEW i \in DOMAIN queue PROVE i \in DOMAIN queue' /\ queue'[i] = queue[i]
        <5>1. queue' = queue \/ \E e \in Event : queue' = Append(queue, e)
          BY <1>1 DEF Edit, Event
        <5> QED
          BY <5>1, <1>t
      <4> QED
        BY <4>1, <4>2 DEF Expected
    <3>4. Handled(f) => Handled(f)'
      BY <1>1, <1>f, <3>2, HandledKept DEF Edit
    <3> QED
      BY <3>1, <3>2, <3>3, <3>4 DEF ChangesInv
  <2> QED
    BY <2>1, <2>2
<1>2. ASSUME UNCHANGED <<content, queue, missed>>, timer' = timer \/ timer' # "off",
             Handled(f) => content'[f] = None \/ Handled(f)'
      PROVE  content'[f] = None \/ Handled(f)' \/ Expected(f)'
  BY <1>2 DEF ChangesInv, Expected
<1>3. CASE Start
  <2>1. Handled(f) => content'[f] = None \/ Handled(f)'
    BY <1>3, <1>f DEF Start, Handled, Present
  <2> QED
    BY <1>2, <1>3, <2>1 DEF Start
<1>4. CASE Open
  <2>1. Handled(f) => content'[f] = None \/ Handled(f)'
    BY <1>4 DEF Open, Handled
  <2> QED
    BY <1>2, <1>4, <2>1 DEF Open
<1>5. CASE Build
  <2>1. CASE phase = "scan" /\ Scan
    <3>1. content'[f] = None \/ Handled(f)'
      BY <2>1, <1>f DEF Scan, Handled, Present
    <3> QED
      BY <1>2, <1>5, <2>1, <3>1 DEF Build, Scan
  <2> DEFINE next == IF open THEN "watching" ELSE "opening"
  <2>2. ASSUME NEW g \in File, ReadFile(g)
        PROVE  content'[f] = None \/ Handled(f)' \/ Expected(f)'
    <3>1. ASSUME Handled(f) PROVE Handled(f)'
      <4>1. CASE f = g
        <5>1. job'[f] = IF content[f] = cached[f] THEN None ELSE content[f]
          BY <2>2, <4>1, <1>t, <1>f DEF ReadFile, Known
        <5> QED
          BY <2>2, <5>1 DEF ReadFile, Handled, PoolInv
      <4>2. CASE f # g
        <5>1. job'[f] = job[f]
          BY <2>2, <4>2, <1>t, <1>f DEF ReadFile, Known
        <5> QED
          BY <2>2, <3>1, <4>2, <5>1 DEF ReadFile, Handled
      <4> QED
        BY <4>1, <4>2
    <3> QED
      BY <1>2, <1>5, <2>2, <3>1 DEF Build, ReadFile
  <2>3. ASSUME NEW g \in File, Acquire(g)
        PROVE  content'[f] = None \/ Handled(f)' \/ Expected(f)'
    <3>1. Handled(f) => Handled(f)'
      BY <2>3, <1>f, HandledKept DEF Acquire
    <3> QED
      BY <1>2, <1>5, <2>3, <3>1 DEF Build, Acquire
  <2>4. ASSUME NEW g \in File, Compiled(g)
        PROVE  content'[f] = None \/ Handled(f)' \/ Expected(f)'
    <3>1. Handled(f) => Handled(f)'
      BY <2>4, <1>f, HandledKept DEF Compiled
    <3> QED
      BY <1>2, <1>5, <2>4, <3>1 DEF Build, Compiled
  <2>5. ASSUME NEW g \in File, CompileFails(g)
        PROVE  content'[f] = None \/ Handled(f)' \/ Expected(f)'
    <3>1. phase = "compiling" /\ UNCHANGED <<content, phase, job, article>>
      BY <2>5 DEF CompileFails
    <3>2. Handled(f) => Handled(f)'
      BY <3>1 DEF Handled
    <3> QED
      BY <1>2, <1>5, <2>5, <3>2 DEF Build, CompileFails
  <2>6. ASSUME NEW g \in File, Release(g)
        PROVE  content'[f] = None \/ Handled(f)' \/ Expected(f)'
    <3>1. Handled(f) => Handled(f)'
      BY <2>6, <1>f, HandledKept DEF Release
    <3> QED
      BY <1>2, <1>5, <2>6, <3>1 DEF Build, Release
  <2>7. CASE StartJobs
    <3>1. Handled(f) => Handled(f)'
      BY <2>7 DEF StartJobs, Handled
    <3> QED
      BY <1>2, <1>5, <2>7, <3>1 DEF Build, StartJobs
  <2>8. CASE SaveResults(next)
    <3>1. ASSUME Handled(f) PROVE content'[f] = None \/ Handled(f)'
      <4>1. phase = "compiling" /\ phase' \in {"opening", "watching"} /\ content' = content
        BY <2>8 DEF SaveResults
      <4>2. /\ article'[f] = IF f \in results THEN job[f] ELSE article[f]
            /\ failed'[f] = IF f \in results THEN None ELSE failed[f]
        BY <2>8, <1>f DEF SaveResults
      <4>3. CASE job[f] = content[f] /\ content[f] # None
        <5>1. at[f] = "left"
          BY <2>8, <1>f, <4>3 DEF SaveResults, Waited, Jobs
        <5>2. f \in results \/ failed[f] = job[f]
          BY <4>1, <5>1, <1>f DEF PoolInv
        <5> QED
          BY <4>1, <4>2, <4>3, <5>2 DEF Handled
      <4>4. CASE job[f] = None /\ content[f] = article[f]
        <5>1. f \notin results
          BY <4>1, <4>4, <1>f DEF PoolInv
        <5> QED
          BY <4>1, <4>2, <4>4, <5>1 DEF Handled
      <4>5. (job[f] = content[f] /\ content[f] # None) \/ content[f] = None
            \/ (job[f] = None /\ content[f] = article[f])
        BY <3>1, <4>1 DEF Handled
      <4> QED
        BY <4>1, <4>3, <4>4, <4>5
    <3> QED
      BY <1>2, <1>5, <2>8, <3>1 DEF Build, SaveResults
  <2> QED
    BY <1>5, <2>1, <2>2, <2>3, <2>4, <2>5, <2>6, <2>7, <2>8 DEF Build, BuildStep
<1>6. CASE HandleEvent
  <2>1. Handled(f) => Handled(f)'
    BY <1>6, <1>f, HandledKept DEF HandleEvent
  <2>2. content' = content /\ missed' = missed
    BY <1>6 DEF HandleEvent
  <2>3. ASSUME Expected(f) PROVE Expected(f)'
    <3>1. queue # <<>> /\ queue' = Tail(queue)
      BY <1>6 DEF HandleEvent
    <3>2. CASE timer # "off"
      BY <1>6, <3>2 DEF HandleEvent, Expected
    <3>3. ASSUME NEW i \in DOMAIN queue, queue[i] = [file |-> f, op |-> "write"]
          PROVE  Expected(f)'
      <4>1. CASE i = 1
        <5>1. Passes(Head(queue))
          BY <3>1, <3>3, <4>1, <1>t DEF Passes
        <5> QED
          BY <5>1, <1>6 DEF HandleEvent, Expected
      <4>2. CASE i # 1
        <5>1. i - 1 \in DOMAIN queue' /\ queue'[i - 1] = queue[i]
          BY <3>1, <3>3, <4>2, <1>t
        <5> QED
          BY <3>3, <5>1 DEF Expected
      <4> QED
        BY <4>1, <4>2
    <3> QED
      BY <2>3, <3>2, <3>3 DEF Expected
  <2> QED
    BY <2>1, <2>2, <2>3 DEF ChangesInv
<1>7. CASE Expire
  <2>1. Handled(f) => Handled(f)'
    BY <1>7, <1>f, HandledKept DEF Expire
  <2> QED
    BY <1>2, <1>7, <2>1 DEF Expire
<1>8. CASE Rebuild
  BY <1>8 DEF Rebuild, Handled
<1>9. CASE UNCHANGED vars
  <2>1. Handled(f) => Handled(f)'
    BY <1>9, <1>f, HandledKept DEF vars
  <2> QED
    BY <1>2, <1>9, <2>1 DEF vars
<1> QED
  BY <1>1, <1>3, <1>4, <1>5, <1>6, <1>7, <1>8, <1>9 DEF Next
-----------------------------------------------------------------------------
(* The inductive invariant of kb watch.                                    *)
THEOREM WatchIsInvariant == Spec => []IInv
<1>1. Init => IInv
  BY InitIInv
<1>2. IInv /\ [Next]_vars => IInv'
  <2> SUFFICES ASSUME IInv, [Next]_vars PROVE IInv'
    OBVIOUS
  <2>1. TypeOK /\ PoolInv /\ (Globs = 1 => ChangesInv)
    BY DEF IInv
  <2>2. TypeOK'
    BY <2>1, TypeStep
  <2>3. PoolInv'
    BY <2>1, <2>2, PoolStep
  <2>4. Globs = 1 => ChangesInv'
    BY <2>1, <2>2, ChangesStep
  <2> QED
    BY <2>2, <2>3, <2>4 DEF IInv
<1> QED
  BY <1>1, <1>2, PTL DEF Spec

(* Every variable of kb watch and of its builds keeps its type: among them *)
(* the tokens, never more than --concurrency and never fewer than none,    *)
(* because only a goroutine that put one in takes one out.                 *)
THEOREM WatchKeepsTypes == Spec => []TypeOK
<1>1. IInv => TypeOK
  BY DEF IInv
<1> QED
  BY <1>1, WatchIsInvariant, PTL

(* No build is stuck: until all its jobs have left, one of them compiles,  *)
(* has a token to return, or finds one to take.                            *)
THEOREM PoolIsNeverStuck == Spec => []SomeJobMoves
<1>1. IInv => SomeJobMoves
  <2> SUFFICES ASSUME IInv, phase = "compiling", ~Waited
               PROVE  \E f \in Jobs : at[f] \in {"compiling", "leaving"} \/ (at[f] = "waiting" /\ sem < Concurrency)
    BY DEF SomeJobMoves
  <2>t. /\ at \in [File -> {"none", "waiting", "compiling", "leaving", "left"}]
        /\ sem = Cardinality(Holding) /\ Concurrency \in Nat \ {0}
        /\ \A f \in File : at[f] = "none" <=> job[f] = None
    BY ConcurrencyAssumption DEF IInv, TypeOK, PoolTypeOK, PoolInv
  <2>1. PICK f \in Jobs : at[f] # "left"
    BY DEF Waited
  <2>2. f \in File /\ at[f] # "none"
    BY <2>t DEF Jobs
  <2>3. CASE Holding = {}
    <3>1. sem = 0
      BY <2>3, <2>t, FS_EmptySet
    <3>2. at[f] = "waiting"
      BY <2>1, <2>2, <2>3, <2>t DEF Holding
    <3> QED
      BY <3>1, <3>2, <2>t
  <2>4. CASE Holding # {}
    <3>1. PICK g \in Holding : TRUE
      BY <2>4
    <3>2. g \in Jobs /\ at[g] \in {"compiling", "leaving"}
      BY <2>t DEF Holding, Jobs
    <3> QED
      BY <3>2
  <2> QED
    BY <2>3, <2>4
<1> QED
  BY <1>1, WatchIsInvariant, PTL

(* When the loop has no event, no timer and no build, every file whose     *)
(* last change gave an event is gone or was built, or failed, as it is, if *)
(* --pattern is one glob.                                                  *)
THEOREM ChangesAreBuiltAtRest ==
    ASSUME Globs = 1
    PROVE  Spec => []RestIsBuilt
<1>1. IInv => RestIsBuilt
  BY DEF IInv, ChangesInv, Handled, Expected, RestIsBuilt
<1> QED
  BY <1>1, WatchIsInvariant, PTL
=============================================================================
