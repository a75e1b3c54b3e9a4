----------------------------- MODULE BuildPool ------------------------------
(***************************************************************************)
(* One build at a time of a source tree (runBuild): it scans the tree,     *)
(* reads the files, compiles those whose hash is not in the cache on       *)
(* goroutines that share a semaphore, waits for all of them and saves.     *)
(* KBStore has what is saved; this module has who waits for whom, and what *)
(* happens to files that change meanwhile.                                 *)
(***************************************************************************)
EXTENDS Naturals, FiniteSets

CONSTANTS File,        \* paths that match the pattern
          Content,     \* what a file holds, known by its hash
          None,        \* no file, no entry
          Concurrency  \* --concurrency

\* flagInt takes a positive number or falls back to 5.
ASSUME ConcurrencyAssumption == Concurrency \in Nat \ {0}
ASSUME NoContentAssumption == None \notin Content
ASSUME TreeAssumption == IsFiniteSet(File)

VARIABLES content,     \* the source tree
          cached,      \* the hash cache
          article,     \* what the article of each file was compiled from
          failed,      \* what could not be compiled, by the last build that tried
          phase,       \* where the build is
          todo,        \* the files found by the scan and not yet read
          job,         \* what the build has read of the files it compiles
          at,          \* where the goroutine of each job is
          sem,         \* tokens in the semaphore
          results      \* the files with an article to save

pool      == <<todo, job, at, sem, results>>
saved     == <<cached, article>>
buildVars == <<content, saved, failed, phase, pool>>

Known  == [File -> Content \cup {None}]
Nobody == [f \in File |-> "none"]
Nothing == [f \in File |-> None]

PoolTypeOK ==
    /\ content \in Known /\ cached \in Known /\ article \in Known /\ failed \in Known
    /\ todo \subseteq File
    /\ job \in Known
    /\ at \in [File -> {"none", "waiting", "compiling", "leaving", "left"}]
    /\ sem \in 0..Concurrency
    /\ results \subseteq File

PoolInit ==
    /\ content \in Known /\ cached \in Known /\ article = cached
    /\ failed = Nothing
    /\ todo = {} /\ job = Nothing /\ at = Nobody /\ sem = 0 /\ results = {}

Present == {f \in File : content[f] # None}
-----------------------------------------------------------------------------
(* scanDir; a build that finds no files is fatal and ends the process.     *)
Scan ==
    /\ todo' = Present
    /\ phase' = IF Present = {} THEN "exited" ELSE "reading"
    /\ job' = Nothing /\ at' = Nobody /\ results' = {}
    /\ UNCHANGED <<content, saved, failed, sem>>

(* A file that has gone since the scan is skipped, as is one whose content *)
(* is cached.                                                              *)
ReadFile(f) ==
    /\ phase = "reading" /\ f \in todo
    /\ todo' = todo \ {f}
    /\ job' = [job EXCEPT ![f] = IF content[f] = cached[f] THEN None ELSE content[f]]
    /\ UNCHANGED <<content, saved, failed, phase, at, sem, results>>

Jobs == {f \in File : job[f] # None}

(* wg.Add(1) and go, for every job.                                        *)
StartJobs ==
    /\ phase = "reading" /\ todo = {}
    /\ phase' = "compiling"
    /\ at' = [f \in File |-> IF f \in Jobs THEN "waiting" ELSE "none"]
    /\ UNCHANGED <<content, saved, failed, todo, job, sem, results>>

(* Mutant of Acquire: nobody waits for a token. *)
AcquireUnbounded(f) ==
    /\ phase = "compiling" /\ at[f] = "waiting"
    /\ at' = [at EXCEPT ![f] = "compiling"]
    /\ sem' = sem + 1
    /\ UNCHANGED <<content, saved, failed, phase, todo, job, results>>

(* sem <- struct{}{}                                                       *)
Acquire(f) ==
    /\ phase = "compiling" /\ at[f] = "waiting" /\ sem < Concurrency
    /\ at' = [at EXCEPT ![f] = "compiling"]
    /\ sem' = sem + 1
    /\ UNCHANGED <<content, saved, failed, phase, todo, job, results>>

(* compile.Article returns an article, or an error, which the timeout      *)
(* forces; either is recorded under the mutex.                             *)
Compiled(f) ==
    /\ phase = "compiling" /\ at[f] = "compiling"
    /\ at' = [at EXCEPT ![f] = "leaving"]
    /\ results' = results \cup {f}
    /\ UNCHANGED <<content, saved, failed, phase, todo, job, sem>>

(* Mutant of CompileFails: returns without the deferred release. *)
CompileFailsLeaks(f) ==
    /\ phase = "compiling" /\ at[f] = "compiling"
    /\ at' = [at EXCEPT ![f] = "left"]
    /\ failed' = [failed EXCEPT ![f] = job[f]]
    /\ UNCHANGED <<content, saved, phase, todo, job, sem, results>>

CompileFails(f) ==
    /\ phase = "compiling" /\ at[f] = "compiling"
    /\ at' = [at EXCEPT ![f] = "leaving"]
    /\ failed' = [failed EXCEPT ![f] = job[f]]
    /\ UNCHANGED <<content, saved, phase, todo, job, sem, results>>

(* The deferred <-sem, then wg.Done().                                     *)
Release(f) ==
    /\ phase = "compiling" /\ at[f] = "leaving"
    /\ at' = [at EXCEPT ![f] = "left"]
    /\ sem' = sem - 1
    /\ UNCHANGED <<content, saved, failed, phase, todo, job, results>>

Waited == \A f \in Jobs : at[f] = "left"

(* Mutant of Entry: the hash of the file as it is now. *)
EntryNow(f) == content[f]

(* The cache entry of a compiled file: the hash of what the job has read.  *)
Entry(f) == job[f]

(* wg.Wait, then articles and cache are saved for the results.  An error   *)
(* of SaveArticle is dropped.                                              *)
SaveResults(next) ==
    /\ phase = "compiling" /\ Waited
    /\ phase' = next
    /\ cached' = [f \in File |-> IF f \in results THEN Entry(f) ELSE cached[f]]
    /\ article' = [f \in File |-> IF f \in results THEN job[f] ELSE article[f]]
    /\ failed' = [f \in File |-> IF f \in results THEN None ELSE failed[f]]
    /\ UNCHANGED <<content, pool>>

(* What the build does by itself, and ends in phase next.                  *)
BuildStep(next) ==
    \/ \E f \in File : \/ ReadFile(f) \/ Acquire(f) \/ Compiled(f)
                       \/ CompileFails(f) \/ Release(f)
    \/ StartJobs
    \/ SaveResults(next)
=============================================================================
