------------------------------ MODULE WikiFiles ------------------------------
(***************************************************************************)
(* The wiki/*.md files of one scope as other processes see them: a name, a *)
(* modification time, a size and bytes.  Times come from one clock that    *)
(* the readers and the file system share; a file system keeps them in      *)
(* grains (2 s on FAT), so a file written twice within a grain may show    *)
(* the same time and size and hold other bytes.  os.WriteFile truncates the*)
(* file and then writes it: a reader can find it blank in between.         *)
(***************************************************************************)
EXTENDS Integers

CONSTANTS
  Proc,     \* processes
  Writer,   \* those that run commands that write articles
  Id,       \* article ids
  Text,     \* what an article file may say
  Bad,      \* bytes whose frontmatter does not parse
  Blank,    \* the bytes of a truncated file
  Size,     \* Size[b]: length of b
  None,
  Grain,    \* grain of the file system's times
  Window,   \* racyWindow
  Rewrites, \* whether a file may be given, within one grain, bytes it has already had in it
  MaxNow,   \* bound: the clock stops here
  MaxWrites \* bound: files truncated and files removed

ASSUME WriterAssumption == Writer \subseteq Proc
ASSUME BytesAssumption  == Bad \notin Text /\ Blank \notin Text /\ Bad # Blank
                           /\ None \notin Text \cup Id \cup {Bad, Blank}
ASSUME SizeAssumption   == Size \in [Text \cup {Bad, Blank} -> Nat]
ASSUME GrainAssumption  == Grain \in Nat \ {0} /\ Window \in Nat /\ Window >= Grain
ASSUME ClockAssumption  == Rewrites \in BOOLEAN /\ MaxNow \in Nat /\ MaxWrites \in Nat

VARIABLES
  now,   \* time.Now()
  wiki,  \* wiki/<id>.md
  pen,   \* the file a process has truncated and not yet written
  held,  \* history: bytes other than Blank each file has been given since the grain began
  writes \* history: files truncated and removed so far

files == <<now, wiki, pen, held, writes>>

Bytes == Text \cup {Bad, Blank}
File  == [bytes : Bytes, mtime : Nat]

ASSUME NoneAssumption == None \notin File

Coarse(t) == t - (t % Grain)    \* the time a file system keeps for t

Files == {i \in Id : wiki[i] # None}

(* Mutant of Parsed: a file whose frontmatter does not parse is an article too. *)
ParsedAny(f) == IF f = None THEN None ELSE f.bytes

(* What store.ParseArticle makes of a file: an article, or nothing.  A file without a
   frontmatter, a blank one too, is an article. *)
Parsed(f) == IF f # None /\ f.bytes # Bad THEN f.bytes ELSE None

(* Mutant of Racy: the window ends a tick early. *)
RacyShort(mtime, at) == at - mtime < Window - 1

(* A read this soon after the modification does not prove that the next file with the same
   time and size is the same file. *)
Racy(mtime, at) == at - mtime < Window

FilesTypeOK ==
  /\ now \in Nat
  /\ wiki \in [Id -> File \cup {None}]
  /\ pen \in [Proc -> Id \cup {None}]
  /\ held \in [Id -> SUBSET Bytes]
  /\ writes \in Nat

FilesInit ==
  /\ now = 0
  /\ wiki = [i \in Id |-> None]
  /\ pen = [p \in Proc |-> None]
  /\ held = [i \in Id |-> {}]
  /\ writes = 0

Tick ==
  /\ now < MaxNow
  /\ now' = now + 1
  /\ held' = IF Coarse(now + 1) = Coarse(now) THEN held ELSE [i \in Id |-> {}]
  /\ UNCHANGED <<wiki, pen, writes>>

Free(i) == \A p \in Proc : pen[p] # i

Counted == writes < MaxWrites /\ writes' = writes + 1

(* os.WriteFile, first half. *)
Truncate(p, i) ==
  /\ p \in Writer
  /\ pen[p] = None
  /\ Free(i)
  /\ wiki' = [wiki EXCEPT ![i] = [bytes |-> Blank, mtime |-> Coarse(now)]]
  /\ pen' = [pen EXCEPT ![p] = i]
  /\ Counted
  /\ UNCHANGED <<now, held>>

(* os.WriteFile, second half. *)
Fill(p, i, b) ==
  /\ pen[p] = i
  /\ b \in Text \cup {Bad}
  /\ Rewrites \/ b \notin held[i]
  /\ wiki' = [wiki EXCEPT ![i] = [bytes |-> b, mtime |-> Coarse(now)]]
  /\ pen' = [pen EXCEPT ![p] = None]
  /\ held' = [held EXCEPT ![i] = @ \cup {b}]
  /\ UNCHANGED <<now, writes>>

Remove(p, i) ==
  /\ p \in Writer
  /\ pen[p] = None
  /\ wiki[i] # None
  /\ Free(i)
  /\ wiki' = [wiki EXCEPT ![i] = None]
  /\ Counted
  /\ UNCHANGED <<now, pen, held>>

(* A process that dies leaves the file it has truncated blank. *)
Drop(p) ==
  /\ pen' = [pen EXCEPT ![p] = None]
  /\ UNCHANGED <<now, wiki, held, writes>>
=============================================================================
