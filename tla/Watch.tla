------------------------------- MODULE Watch --------------------------------
(***************************************************************************)
(* kb watch: an initial build, then a loop that takes file events, debounces*)
(* them with a timer and rebuilds on its own goroutine, so that events wait *)
(* in a bounded queue while a build runs.                                   *)
(***************************************************************************)
EXTENDS BuildPool, Sequences

CONSTANTS Watched,   \* the files whose directory exists when the watcher is made
          Globs,     \* how many comma-separated globs --pattern has
          Cap,       \* room in the queue of events
          MaxEdits   \* bound: changes made to the tree

ASSUME WatchAssumption == Watched \subseteq File /\ {Globs, Cap} \subseteq Nat \ {0} /\ MaxEdits \in Nat

VARIABLES open,      \* whether the watcher exists
          queue,     \* events it has not delivered
          timer,     \* the debounce timer
          edits,     \* changes made so far
          missed     \* history: the files whose last change gave no event

watch == <<open, queue, timer>>
vars  == <<buildVars, watch, edits, missed>>

Event == [file : File, op : {"write", "remove"}]

TypeOK ==
    /\ PoolTypeOK
    /\ phase \in {"start", "scan", "reading", "compiling", "opening", "watching", "exited"}
    /\ open \in BOOLEAN
    /\ queue \in Seq(Event) /\ Len(queue) <= Cap
    /\ timer \in {"off", "armed", "fired"}
    /\ edits \in Nat
    /\ missed \subseteq File

Init ==
    /\ PoolInit
    /\ phase = "start"
    /\ open = FALSE /\ queue = <<>> /\ timer = "off"
    /\ edits = 0 /\ missed = {}
-----------------------------------------------------------------------------
(* Somebody writes, creates, renames into place or removes a file.  There  *)
(* is no event before the watcher, for a directory made after it, or when  *)
(* the queue is full (an error is printed).                                *)
Edit(f, c) ==
    LET told == open /\ f \in Watched /\ Len(queue) < Cap
        op   == IF c = None THEN "remove" ELSE "write"
    IN
    /\ phase # "exited" /\ edits < MaxEdits /\ c # content[f]
    /\ content' = [content EXCEPT ![f] = c]
    /\ queue' = IF told THEN Append(queue, [file |-> f, op |-> op]) ELSE queue
    /\ missed' = IF told THEN missed \ {f} ELSE missed \cup {f}
    /\ edits' = edits + 1
    /\ UNCHANGED <<saved, failed, phase, pool, open, timer>>

(* The initial build, unless the tree is empty.                            *)
Start ==
    /\ phase = "start"
    /\ phase' = IF Present = {} THEN "opening" ELSE "scan"
    /\ UNCHANGED <<content, saved, failed, pool, watch, edits, missed>>

(* newRecursiveWatcher.                                                    *)
Open ==
    /\ phase = "opening"
    /\ phase' = "watching"
    /\ open' = TRUE
    /\ UNCHANGED <<content, saved, failed, pool, queue, timer, edits, missed>>

Build ==
    /\ \/ phase = "scan" /\ Scan
       \/ BuildStep(IF open THEN "watching" ELSE "opening")
    /\ UNCHANGED <<watch, edits, missed>>

(* Write or Create, and a base name that matches: the pattern as it was    *)
(* given, which as one glob matches no file if it is a list of them.       *)
Passes(e) == e.op = "write" /\ Globs = 1

(* Mutant of HandleEvent: a tick is taken back, but the timer is not set.  *)
HandleEventStops ==
    /\ phase = "watching" /\ queue # <<>>
    /\ queue' = Tail(queue)
    /\ timer' = IF ~Passes(Head(queue)) THEN timer ELSE IF timer = "fired" THEN "off" ELSE "armed"
    /\ UNCHANGED <<buildVars, open, edits, missed>>

(* debounce.Reset also takes back a tick that nobody has received.         *)
HandleEvent ==
    /\ phase = "watching" /\ queue # <<>>
    /\ queue' = Tail(queue)
    /\ timer' = IF Passes(Head(queue)) THEN "armed" ELSE timer
    /\ UNCHANGED <<buildVars, open, edits, missed>>

(* Three seconds later, whatever the loop is doing.                        *)
Expire ==
    /\ timer = "armed"
    /\ timer' = "fired"
    /\ UNCHANGED <<buildVars, open, queue, edits, missed>>

Rebuild ==
    /\ phase = "watching" /\ timer = "fired"
    /\ phase' = "scan"
    /\ timer' = "off"
    /\ UNCHANGED <<content, saved, failed, pool, open, queue, edits, missed>>

Next == \/ \E f \in File, c \in Content \cup {None} : Edit(f, c)
        \/ Start \/ Open \/ Build \/ HandleEvent \/ Expire \/ Rebuild

(* Goroutines are scheduled, the timer runs out, a compile ends (it has a  *)
(* timeout), and the loop takes what is there.  Nobody has to edit.        *)
Fairness == /\ WF_vars(Start) /\ WF_vars(Open) /\ WF_vars(Build)
            /\ WF_vars(HandleEvent) /\ WF_vars(Expire) /\ WF_vars(Rebuild)

Spec == Init /\ [][Next]_vars /\ Fairness
-----------------------------------------------------------------------------
(* A build ends, whichever of its compiles fail.                           *)
BuildEnds == phase \in {"scan", "reading", "compiling"}
                 ~> phase \in {"opening", "watching", "exited"}

(* A build whose jobs have not all left has one that can go on: one that   *)
(* compiles, has still to return its token, or finds one.                  *)
SomeJobMoves ==
    phase = "compiling" /\ ~Waited =>
        \E f \in Jobs : at[f] \in {"compiling", "leaving"} \/ (at[f] = "waiting" /\ sem < Concurrency)

(* When the loop has nothing left to do, every file whose last change gave *)
(* an event is gone, or was built as it is, or failed as it is.            *)
RestIsBuilt ==
    phase = "watching" /\ queue = <<>> /\ timer = "off" =>
        \A f \in Watched \ missed : content[f] \in {None, article[f], failed[f]}

(* "Watches for file changes and rebuilds automatically" (SKILL.md:133):   *)
(* a change that gave an event, also one made during a build, is followed  *)
(* by a build that compiles what the file holds or fails on it, unless the *)
(* file goes or kb watch ends.                                             *)
ChangesAreBuilt ==
    \A f \in Watched :
        f \notin missed ~> \/ content[f] \in {None, article[f], failed[f]}
                           \/ f \in missed \/ phase = "exited"
=============================================================================
