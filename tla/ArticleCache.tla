---------------------------- MODULE ArticleCache ----------------------------
(***************************************************************************)
(* The parsed articles that kb serve keeps of a scope (articleCache.list in*)
(* mcp/mcp.go) beside processes that write the wiki.  A call lists wiki/,  *)
(* stats every entry, reads those it does not trust, and puts its answer   *)
(* together again if anything has changed.  Each of these is a step.       *)
(***************************************************************************)
EXTENDS WikiFiles

CONSTANTS
  Server,   \* processes that serve
  MaxCalls  \* bound: calls of list

ASSUME ServerAssumption == Server \subseteq Proc /\ Server \cap Writer = {} /\ MaxCalls \in Nat

VARIABLES
  cache,    \* sc.files: what each server has parsed of each file
  articles, \* sc.articles: the answer put together last
  built,    \* sc.built
  call,     \* the call each server is in
  calls     \* calls made so far

vars == <<now, wiki, pen, held, writes, cache, articles, built, call, calls>>

Doc   == Text \cup {Blank, None}    \* None: no article
Stat  == [mtime : Nat, size : Nat]
Entry == [stamp : Stat, trusted : BOOLEAN, doc : Doc \ {None}]

ASSUME NoEntryAssumption == None \notin Entry /\ None \notin Stat

(* at: the call's time.Now(); todo: the entries of its ReadDir still to visit; open, stat:  *)
(* the file it has stat'ed and is about to read; unseen: files that it has not found        *)
(* usable; changed.  History: seen, what each file has been since the call began.           *)
Call == [pc : {"idle", "dir", "visit", "read", "done"}, at : Nat, todo : SUBSET Id,
         open : Id \cup {None}, stat : Stat \cup {None}, unseen : SUBSET Id, changed : BOOLEAN,
         seen : [Id -> SUBSET Doc]]

Idle == [pc |-> "idle", at |-> 0, todo |-> {}, open |-> None, stat |-> None, unseen |-> {},
         changed |-> FALSE, seen |-> [i \in Id |-> {}]]

NoEntries == [i \in Id |-> None]

TypeOK ==
  /\ FilesTypeOK
  /\ cache \in [Server -> [Id -> Entry \cup {None}]]
  /\ articles \in [Server -> [Id -> Doc]]
  /\ built \in [Server -> BOOLEAN]
  /\ call \in [Server -> Call]
  /\ calls \in Nat

Init ==
  /\ FilesInit
  /\ cache = [s \in Server |-> NoEntries]
  /\ articles = [s \in Server |-> NoEntries]
  /\ built = [s \in Server |-> FALSE]
  /\ call = [s \in Server |-> Idle]
  /\ calls = 0
-----------------------------------------------------------------------------
(* Everybody in a call has now seen file i as f: history only.             *)
Shown(i, f) ==
  call' = [s \in Server |-> IF call[s].pc = "idle" THEN call[s]
                            ELSE [call[s] EXCEPT !.seen[i] = @ \cup {Parsed(f)}]]

Kept == UNCHANGED <<cache, articles, built, calls>>

BeginWrite(p, i)  == Truncate(p, i) /\ Shown(i, wiki'[i]) /\ Kept
EndWrite(p, i, b) == Fill(p, i, b) /\ Shown(i, wiki'[i]) /\ Kept
Delete(p, i)      == Remove(p, i) /\ Shown(i, None) /\ Kept
Die(p)            == pen[p] # None /\ Drop(p) /\ Kept /\ UNCHANGED call
Clock             == Tick /\ Kept /\ UNCHANGED call
-----------------------------------------------------------------------------
Goes(s, c) == call' = [call EXCEPT ![s] = c]

(* time.Now, before the directory is read.                                 *)
BeginList(s) ==
  /\ call[s].pc = "idle" /\ calls < MaxCalls
  /\ calls' = calls + 1
  /\ Goes(s, [Idle EXCEPT !.pc = "dir", !.at = now, !.seen = [i \in Id |-> {Parsed(wiki[i])}]])
  /\ UNCHANGED <<files, cache, articles, built>>

ReadDir(s) ==
  /\ call[s].pc = "dir"
  /\ Goes(s, [call[s] EXCEPT !.pc = "visit", !.todo = Files, !.unseen = Id,
                             !.changed = ~built[s]])
  /\ UNCHANGED <<files, cache, articles, built, calls>>

(* There is no wiki/ (kb clear has removed it): forget the scope.          *)
ReadNoDir(s) ==
  /\ call[s].pc = "dir" /\ Files = {}
  /\ cache' = [cache EXCEPT ![s] = NoEntries]
  /\ articles' = [articles EXCEPT ![s] = NoEntries]
  /\ built' = [built EXCEPT ![s] = FALSE]
  /\ Goes(s, [call[s] EXCEPT !.pc = "done"])
  /\ UNCHANGED <<files, calls>>

Visiting(s, i) == call[s].pc = "visit" /\ i \in call[s].todo

StatOf(i) == [mtime |-> wiki[i].mtime, size |-> Size[wiki[i].bytes]]

(* A trusted entry whose file still has its stamp is kept.                 *)
Trusts(s, i) == /\ cache[s][i] # None /\ cache[s][i].trusted
                /\ cache[s][i].stamp = StatOf(i)

Keep(s, i) ==
  /\ Visiting(s, i) /\ wiki[i] # None /\ Trusts(s, i)
  /\ Goes(s, [call[s] EXCEPT !.todo = @ \ {i}, !.unseen = @ \ {i}])
  /\ UNCHANGED <<files, cache, articles, built, calls>>

(* The file has gone since ReadDir.                                        *)
Skip(s, i) ==
  /\ Visiting(s, i) /\ wiki[i] = None
  /\ Goes(s, [call[s] EXCEPT !.todo = @ \ {i}])
  /\ UNCHANGED <<files, cache, articles, built, calls>>

(* Stamp first, then read.                                                 *)
Stamp(s, i) ==
  /\ Visiting(s, i) /\ wiki[i] # None /\ ~Trusts(s, i)
  /\ Goes(s, [call[s] EXCEPT !.pc = "read", !.open = i, !.stat = StatOf(i)])
  /\ UNCHANGED <<files, cache, articles, built, calls>>

(* Mutant of ReadFile: a file that does not parse is kept as no article. *)
ReadFileAny(s) ==
  LET c == call[s]
      i == c.open
      next == [c EXCEPT !.pc = "visit", !.todo = @ \ {i}, !.open = None, !.stat = None]
  IN
  /\ c.pc = "read"
  /\ Goes(s, [next EXCEPT !.unseen = @ \ {i}, !.changed = TRUE])
  /\ cache' = [cache EXCEPT ![s][i] = [stamp |-> c.stat, trusted |-> ~Racy(c.stat.mtime, c.at),
                                       doc |-> Parsed(wiki[i])]]
  /\ UNCHANGED <<files, articles, built, calls>>

(* Mutant of ReadFile: trusts files that have changed lately, not the others. *)
ReadFileRacy(s) ==
  LET c == call[s]
      i == c.open
      a == Parsed(wiki[i])
      next == [c EXCEPT !.pc = "visit", !.todo = @ \ {i}, !.open = None, !.stat = None]
  IN
  /\ c.pc = "read"
  /\ IF a = None
     THEN Goes(s, next) /\ UNCHANGED cache
     ELSE /\ Goes(s, [next EXCEPT !.unseen = @ \ {i}, !.changed = TRUE])
          /\ cache' = [cache EXCEPT ![s][i] =
                         [stamp |-> c.stat, trusted |-> Racy(c.stat.mtime, c.at), doc |-> a]]
  /\ UNCHANGED <<files, articles, built, calls>>

(* A file that is gone or does not parse is skipped; its entry goes below. *)
ReadFile(s) ==
  LET c == call[s]
      i == c.open
      a == Parsed(wiki[i])
      next == [c EXCEPT !.pc = "visit", !.todo = @ \ {i}, !.open = None, !.stat = None]
  IN
  /\ c.pc = "read"
  /\ IF a = None
     THEN Goes(s, next) /\ UNCHANGED cache
     ELSE /\ Goes(s, [next EXCEPT !.unseen = @ \ {i}, !.changed = TRUE])
          /\ cache' = [cache EXCEPT ![s][i] =
                         [stamp |-> c.stat, trusted |-> ~Racy(c.stat.mtime, c.at), doc |-> a]]
  /\ UNCHANGED <<files, articles, built, calls>>

(* Mutant of Assemble: entries of files that have gone stay. *)
AssembleKept(s) ==
  LET c == call[s] IN
  /\ c.pc = "visit" /\ c.todo = {}
  /\ IF c.changed
     THEN /\ articles' = [articles EXCEPT ![s] =
                [i \in Id |-> IF cache[s][i] = None THEN None ELSE cache[s][i].doc]]
          /\ built' = [built EXCEPT ![s] = TRUE]
     ELSE UNCHANGED <<articles, built>>
  /\ Goes(s, [c EXCEPT !.pc = "done"])
  /\ UNCHANGED <<files, cache, calls>>

(* Drop what was not seen, and put the answer together if anything changed.*)
Assemble(s) ==
  LET c == call[s]
      left == [i \in Id |-> IF i \in c.unseen THEN None ELSE cache[s][i]]
  IN
  /\ c.pc = "visit" /\ c.todo = {}
  /\ cache' = [cache EXCEPT ![s] = left]
  /\ IF c.changed \/ left # cache[s]
     THEN /\ articles' = [articles EXCEPT ![s] =
                            [i \in Id |-> IF left[i] = None THEN None ELSE left[i].doc]]
          /\ built' = [built EXCEPT ![s] = TRUE]
     ELSE UNCHANGED <<articles, built>>
  /\ Goes(s, [c EXCEPT !.pc = "done"])
  /\ UNCHANGED <<files, calls>>

(* mcpList, mcpStats and a search of several scopes answer from articles.  *)
Answer(s) ==
  /\ call[s].pc = "done"
  /\ Goes(s, Idle)
  /\ UNCHANGED <<files, cache, articles, built, calls>>

Next ==
  \/ \E p \in Writer, i \in Id : \/ BeginWrite(p, i) \/ Delete(p, i)
                                 \/ \E b \in Bytes : EndWrite(p, i, b)
  \/ \E p \in Writer : Die(p)
  \/ Clock
  \/ \E s \in Server : \/ BeginList(s) \/ ReadDir(s) \/ ReadNoDir(s)
                       \/ \E i \in Id : Keep(s, i) \/ Skip(s, i) \/ Stamp(s, i)
                       \/ ReadFile(s) \/ Assemble(s) \/ Answer(s)

Spec == Init /\ [][Next]_vars
-----------------------------------------------------------------------------
(* "list returns the scope's articles exactly as store.ListArticles would  *)
(* read them" (mcp.go:660): each article of the answer, or its absence, is *)
(* what its file was at some moment of the call, whoever writes meanwhile. *)
AnswerIsCurrent ==
  \A s \in Server : call[s].pc = "done" => \A i \in Id : articles[s][i] \in call[s].seen[i]

(* No trusted entry has the stamp of a file that holds something else,     *)
(* however coarse its time: a trusted entry can be served without a read.  *)
TrustedIsExact ==
  \A s \in Server, i \in Id :
    wiki[i] # None /\ Trusts(s, i) => cache[s][i].doc = Parsed(wiki[i])

(* Nobody pays twice: a call leaves every parsed file that was last       *)
(* written long enough before it began trusted, whatever is written        *)
(* meanwhile, so that the next call reads none of them.                    *)
CacheSettles ==
  \A s \in Server : call[s].pc = "done" =>
    \A i \in Files : Parsed(wiki[i]) # None /\ ~Racy(wiki[i].mtime, call[s].at) => Trusts(s, i)
=============================================================================
