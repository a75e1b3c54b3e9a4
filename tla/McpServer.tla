------------------------------ MODULE McpServer ------------------------------
(***************************************************************************)
(* kb serve: one JSON-RPC message per line, handled one after the other,   *)
(* while other processes change the wiki the tools read (mcp/mcp.go).      *)
(*                                                                         *)
(* What a listing returns is exact when it is returned: ArticleCache.      *)
(* Ranking is any choice of the articles that were listed.                 *)
(***************************************************************************)
EXTENDS Naturals, FiniteSets, SequencesExt, Orders

CONSTANTS Scope, Name,  \* scopes, and the ids of their articles
          Tagged,       \* the articles <<scope, id>> that exclude_tags excludes
          Messages,     \* what the client may send: see Message
          MaxLines,     \* bound: lines sent
          MaxChanges    \* bound: what other processes do

NoCall == [tool |-> "none"]
Tools  == {"kb_search", "kb_show", "kb_glossary", "kb_stats", "kb_list"}

(* A line: its method, whether it has an id, and for tools/call the tool   *)
(* and the scopes its arguments name: those that store.ResolveScopes finds *)
(* for kb_search, one for another tool.                                    *)
Request == [method : {"blank", "too long", "garbled", "initialize", "initialized",
                      "tools/list", "tools/call", "ping", "other"},
            id : BOOLEAN, tool : Tools \cup {"none", "bad params", "unknown"},
            scopes : Seq(Scope), exclude : BOOLEAN]
Message == {m \in Request : /\ m.method # "tools/call" => m.tool = "none"
                            /\ m.tool \in Tools \ {"kb_search"} => Len(m.scopes) = 1}

(* The wikis are files on a disk, and the client sends such lines.         *)
ASSUME WikiIsFinite == IsFiniteSet(Scope) /\ IsFiniteSet(Name)
ASSUME MessagesAssumption == Messages \subseteq Message

VARIABLES stored,    \* the articles <<scope, id>> on disk
          concept,   \* the articles index.json lists for a term
          changes,   \* what other processes have done
          received,  \* the lines handled
          answers,   \* the lines written: the message answered (0: unknown), and what
          call,      \* the tool call in the works
          serving

serverVars == <<stored, concept, changes, received, answers, call, serving>>

ServerInit ==
    /\ stored \in SUBSET (Scope \X Name) /\ concept \in {stored, {}}
    /\ changes = 0 /\ received = <<>> /\ answers = <<>> /\ call = NoCall /\ serving = TRUE

ServerIdle ==
    /\ stored = {} /\ concept = {} /\ changes = MaxChanges
    /\ received = <<>> /\ answers = <<>> /\ call = NoCall /\ serving = FALSE

OtherSaves(a) ==
    /\ changes < MaxChanges
    /\ changes' = changes + 1 /\ stored' = stored \cup {a}
    /\ concept' \in {concept, concept \cup {a}}
    /\ UNCHANGED <<received, answers, call, serving>>

OtherDeletes(a) ==
    /\ changes < MaxChanges /\ a \in stored
    /\ changes' = changes + 1 /\ stored' = stored \ {a}
    /\ concept' \in {concept, concept \ {a}}
    /\ UNCHANGED <<received, answers, call, serving>>
-----------------------------------------------------------------------------
now == Len(received)

Answer(to, what) == answers' = Append(answers, [to |-> to, result |-> what])

(* Serve: the lines are read in order; a line over 16 MB ends the loop.    *)
Receive(m) ==
    /\ serving /\ call = NoCall /\ now < MaxLines
    /\ received' = Append(received, m)
    /\ UNCHANGED <<stored, concept, changes>>

SkipLine(m) ==
    /\ Receive(m) /\ m.method = "blank"
    /\ UNCHANGED <<answers, call, serving>>

StopServing(m) ==
    /\ Receive(m) /\ m.method = "too long"
    /\ serving' = FALSE
    /\ UNCHANGED <<answers, call>>

(* handleLine: a line that is no message is answered without an id; a      *)
(* notification is not answered; a method is answered at once, ...         *)
Garbled(m) ==
    /\ Receive(m) /\ m.method = "garbled"
    /\ Answer(0, "parse error")
    /\ UNCHANGED <<call, serving>>

Notification(m) == m.method = "initialized" \/ ~m.id

Notified(m) ==
    /\ Receive(m) /\ m.method \notin {"blank", "too long", "garbled"} /\ Notification(m)
    /\ UNCHANGED <<answers, call, serving>>

AnswerMethod(m) ==
    /\ Receive(m) /\ ~Notification(m) /\ m.method \in {"initialize", "tools/list", "ping", "other"}
    /\ Answer(now + 1, m.method)
    /\ UNCHANGED <<call, serving>>

(* Mutant of RefuseCall: reports the params and goes on to look for the tool. *)
RefuseCallTwice(m) ==
    /\ Receive(m) /\ ~Notification(m) /\ m.method = "tools/call" /\ m.tool \in {"bad params", "unknown"}
    /\ answers' = answers \o (IF m.tool = "bad params" THEN <<[to |-> now + 1, result |-> m.tool]>> ELSE <<>>)
                          \o <<[to |-> now + 1, result |-> "unknown"]>>
    /\ UNCHANGED <<call, serving>>

(* ... and so is a tool call that is none (handleToolCall).                *)
RefuseCall(m) ==
    /\ Receive(m) /\ ~Notification(m) /\ m.method = "tools/call" /\ m.tool \in {"bad params", "unknown"}
    /\ Answer(now + 1, m.tool)
    /\ UNCHANGED <<call, serving>>

(* listed, owners: allArticles and scopeMap; todo: what is still to read.  *)
StartCall(m) ==
    /\ Receive(m) /\ ~Notification(m) /\ m.method = "tools/call" /\ m.tool \in Tools
    /\ call' = [tool |-> m.tool, scopes |-> m.scopes, exclude |-> m.exclude, step |-> "start",
                todo |-> m.scopes, listed |-> <<>>, owners |-> <<>>]
    /\ UNCHANGED <<answers, serving>>
-----------------------------------------------------------------------------
(* A tool has read something: the call goes on, or its answer is written.  *)
Working == serving /\ call # NoCall
Continue(c) == call' = c /\ UNCHANGED <<stored, concept, changes, received, answers, serving>>
Finish(what) ==
    /\ Answer(now, what) /\ call' = NoCall
    /\ UNCHANGED <<stored, concept, changes, received, serving>>

ArticlesOf(s) == SetToSeq({a \in stored : a[1] = s})

(* mcpSearch lists the scopes one after the other, ...                     *)
ListScope ==
    /\ Working /\ call.tool = "kb_search" /\ call.step = "start" /\ call.todo # <<>>
    /\ LET s == Head(call.todo)
       IN  Continue([call EXCEPT !.todo = Tail(@),
                                 !.listed = @ \o ArticlesOf(s),
                                 !.owners = @ \o [i \in 1..Len(ArticlesOf(s)) |-> s]])

Kept == {i \in DOMAIN call.listed : ~call.exclude \/ call.listed[i] \notin Tagged}

(* Mutant of Exclude: the scopes stay where they are. *)
ExcludeArticles ==
    /\ Working /\ call.tool = "kb_search" /\ call.step = "start" /\ call.todo = <<>>
    /\ \E at \in InOrder(Kept) :
           Continue([call EXCEPT !.step = "rank", !.listed = [k \in DOMAIN at |-> @[at[k]]]])

(* ... drops the excluded articles and, at the same places, their scopes,  *)
Exclude ==
    /\ Working /\ call.tool = "kb_search" /\ call.step = "start" /\ call.todo = <<>>
    /\ \E at \in InOrder(Kept) :
           Continue([call EXCEPT !.step = "rank", !.listed = [k \in DOMAIN at |-> @[at[k]]],
                                                  !.owners = [k \in DOMAIN at |-> @[at[k]]]])

(* resultScope: the scope at the first place where that very article is.   *)
ResultScope(a) == call.owners[CHOOSE i \in DOMAIN call.listed :
                                  /\ call.listed[i] = a
                                  /\ \A j \in 1..i - 1 : call.listed[j] # a]

(* ... and ranks them.                                                     *)
RankResults ==
    /\ Working /\ call.tool = "kb_search" /\ call.step = "rank"
    /\ \E hits \in SUBSET ToSet(call.listed) :
           Finish({[article |-> a, scope |-> ResultScope(a)] : a \in hits})

(* mcpGlossary reads the index, then the articles it names: one that was   *)
(* deleted since is left out.                                              *)
ReadConcept ==
    /\ Working /\ call.tool = "kb_glossary" /\ call.step = "start"
    /\ LET named == SetToSeq({a \in concept : a[1] = call.scopes[1]})
       IN  IF named = <<>> THEN Finish("unresolved")
           ELSE Continue([call EXCEPT !.step = "define", !.todo = named])

ReadDefinition ==
    /\ Working /\ call.step = "define" /\ call.todo # <<>>
    /\ Continue([call EXCEPT !.todo = Tail(@),
                    !.listed = IF Head(call.todo) \in stored THEN Append(@, Head(call.todo)) ELSE @])

Define == /\ Working /\ call.step = "define" /\ call.todo = <<>>
          /\ Finish({[article |-> a, scope |-> call.scopes[1]] : a \in ToSet(call.listed)})

(* mcpShow, mcpList and mcpStats: one article or one listing; the index    *)
(* that kb_stats counts is read after it.                                  *)
Show == /\ Working /\ call.tool = "kb_show"
        /\ \E n \in Name : IF <<call.scopes[1], n>> \in stored
                           THEN Finish({[article |-> <<call.scopes[1], n>>, scope |-> call.scopes[1]]})
                           ELSE Finish("article not found")

ListAll ==
    /\ Working /\ call.tool \in {"kb_list", "kb_stats"} /\ call.step = "start"
    /\ LET all == ArticlesOf(call.scopes[1])
       IN  IF call.tool = "kb_stats" THEN Continue([call EXCEPT !.step = "count", !.listed = all])
           ELSE Finish({[article |-> a, scope |-> call.scopes[1]] : a \in ToSet(all)})

Count == /\ Working /\ call.step = "count"
         /\ Finish(<<Len(call.listed), \E a \in concept : a[1] = call.scopes[1]>>)

Handle == \E m \in Messages :
              \/ SkipLine(m) \/ StopServing(m) \/ Garbled(m) \/ Notified(m)
              \/ AnswerMethod(m) \/ RefuseCall(m) \/ StartCall(m)

ServerNext == \/ Handle
              \/ ListScope \/ Exclude \/ RankResults
              \/ ReadConcept \/ ReadDefinition \/ Define \/ Show \/ ListAll \/ Count
              \/ \E a \in Scope \X Name : OtherSaves(a) \/ OtherDeletes(a)
-----------------------------------------------------------------------------
(* "Notifications (no id) get processed but never answered" (mcp.go:142):  *)
(* every message with an id, the handshake aside, is answered exactly once *)
(* and in the order they came, whatever came before and whatever the tools *)
(* met; nothing else is answered but a line that is no message.            *)
IsDue(m) == \/ m.method = "garbled"
            \/ m.id /\ m.method \notin {"blank", "too long", "initialized"}
Due      == {i \in 1..now : IsDue(received[i])}

AnsweredInOrder ==
    \E line \in InOrder(IF call = NoCall THEN Due ELSE Due \ {now}) :
        /\ DOMAIN answers = DOMAIN line
        /\ \A k \in DOMAIN line :
               answers[k].to = IF received[line[k]].method = "garbled" THEN 0 ELSE line[k]

(* kb_search over several scopes says of every article what scope it is    *)
(* of, when another scope has one with the same id and whatever was        *)
(* excluded before it.                                                     *)
ResultsKeepTheirScope ==
    \A k \in DOMAIN answers :
        answers[k].to > 0 /\ received[answers[k].to].tool = "kb_search"
            => \A r \in answers[k].result : r.scope = r.article[1]
=============================================================================
