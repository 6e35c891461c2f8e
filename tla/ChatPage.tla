------------------------------ MODULE ChatPage ------------------------------
(***************************************************************************)
(* The chat of the agent as a person sees it: the page with its composer   *)
(* and its feed (components/agent-chat.tsx, opened by the workspace or the *)
(* widget) and the threads the server keeps (api/agent/threads).           *)
(*                                                                         *)
(* A page does one thing at a time (the transition isPending), except that *)
(* files are uploaded meanwhile.  Every request may be refused, and its    *)
(* answer may be lost although the server has done, or still does, what it *)
(* was asked.  A page that is closed finishes what it was doing unseen.    *)
(*                                                                         *)
(* Abstractions: of an answer there is that it was stored (what it says is *)
(* the modules GroundedAnswer, ChatThread and Portfolio); cards of actions *)
(* and feedback send the requests of AgentAction and AgentLearning.        *)
(***************************************************************************)
EXTENDS Integers, Sequences, SequencesExt, FiniteSets

CONSTANTS
  Views,       \* pages that may be open at once
  Words,       \* what may be typed; "" is an empty composer
  Suggestions, \* questions offered where a feed is empty
  Drops,       \* files that may be attached
  MaxShelf,    \* attachments of a message: 4 in the code
  MaxThreads,  \* bound: threads
  MaxPosts     \* bound: messages sent

ASSUME ChatPageAssumption ==
  /\ MaxShelf \in Nat /\ MaxThreads \in Nat /\ MaxPosts \in Nat
  /\ "" \notin Words \cup Suggestions

VARIABLES
  kept,   \* agent_messages: the messages of each thread, in order
  requests,   \* the messages sent so far, and what the server did with each
  page    \* what each page shows and does

chatPageVars == <<kept, requests, page>>

-----------------------------------------------------------------------------
(* Threads and pages *)

Texts == Words \cup Suggestions \cup {""}
Threads == 1 .. Len(kept)

\* A message by the post it belongs to: the question or the answer; pending is the
\* one a page shows until the server has answered.
Entry == (1 .. MaxPosts) \X {"user", "assistant", "pending"}

Posting == [thread : 1 .. MaxThreads, text : Texts, files : SUBSET Drops,
            stage : {"sent", "stored", "answered", "failed"}]

Page ==
  [open : BOOLEAN, used : BOOLEAN, listed : SUBSET (1 .. MaxThreads),
   active : 0 .. MaxThreads, feed : Seq(Entry), draft : Texts,
   shelf : [Drops -> {"off", "UPLOADING", "READY", "ERROR"}],
   busy : {"none", "create", "new", "send", "reload", "reloaded", "select",
           "selected", "command"},
   text : Texts, files : SUBSET Drops, post : 0 .. MaxPosts, seen : Seq(Entry)]
NoShelf == [f \in Drops |-> "off"]
AtRest == [busy |-> "none", text |-> "", files |-> {}, post |-> 0, seen |-> <<>>]
Fresh == [open |-> FALSE, used |-> FALSE, listed |-> {}, active |-> 0, feed |-> <<>>,
          draft |-> "", shelf |-> NoShelf,
          busy |-> "none", text |-> "", files |-> {}, post |-> 0, seen |-> <<>>]
Gone == [Fresh EXCEPT !.used = TRUE]

ChatPageInit ==
  /\ kept = <<>> /\ requests = <<>>
  /\ page = [g \in Views |-> Fresh]

Free(g) == page[g].open /\ page[g].busy = "none"
With(p, changes) == [f \in DOMAIN p |-> IF f \in DOMAIN changes THEN changes[f] ELSE p[f]]
Show(g, changes) == page' = [page EXCEPT ![g] = With(@, changes)]
Finish(g, changes) ==
  page' = [page EXCEPT ![g] = IF page[g].open THEN With(With(@, AtRest), changes) ELSE Gone]

\* A feed without some of its messages.
Without(feed, gone) ==
  FoldLeft(LAMBDA left, e : IF e \in gone THEN left ELSE Append(left, e), <<>>, feed)
NotPending(feed) == Without(feed, (1 .. MaxPosts) \X {"pending"})

-----------------------------------------------------------------------------
(* The server *)

\* POST of a message: the question and the answer are stored one after the other.
StoreQuestion(m) ==
  /\ requests[m].stage = "sent"
  /\ kept' = [kept EXCEPT ![requests[m].thread] = Append(@, <<m, "user">>)]
  /\ requests' = [requests EXCEPT ![m].stage = "stored"]
  /\ UNCHANGED page

StoreAnswer(m) ==
  /\ requests[m].stage = "stored"
  /\ kept' = [kept EXCEPT ![requests[m].thread] = Append(@, <<m, "assistant">>)]
  /\ requests' = [requests EXCEPT ![m].stage = "answered"]
  /\ UNCHANGED page

\* It never arrives, is refused, or fails on the way to an answer.
PostFails(m) ==
  /\ requests[m].stage \in {"sent", "stored"}
  /\ requests' = [requests EXCEPT ![m].stage = "failed"]
  /\ UNCHANGED <<kept, page>>

-----------------------------------------------------------------------------
(* Opening and choosing *)

OpenPage(g) ==
  /\ ~page[g].used
  /\ Show(g, [open |-> TRUE, used |-> TRUE, listed |-> Threads])
  /\ UNCHANGED <<kept, requests>>

ClosePage(g) ==
  /\ page[g].open
  /\ page' = [page EXCEPT ![g] = IF Free(g) THEN Gone ELSE [@ EXCEPT !.open = FALSE]]
  /\ UNCHANGED <<kept, requests>>

\* handleSelectThread; the answer is a step of its own.
SelectThread(g, t) ==
  /\ Free(g) /\ t \in page[g].listed \ {page[g].active}
  /\ Show(g, [active |-> t, feed |-> <<>>, busy |-> "select"])
  /\ UNCHANGED <<kept, requests>>

\* handleNewThread
NewThread(g) ==
  /\ Free(g)
  /\ Show(g, [busy |-> "new"])
  /\ UNCHANGED <<kept, requests>>

\* GET of the messages.
ReadThread(g) ==
  /\ \/ page[g].busy = "select" /\ Show(g, [busy |-> "selected", seen |-> kept[page[g].active]])
     \/ page[g].busy = "reload" /\ Show(g, [busy |-> "reloaded", seen |-> kept[page[g].active]])
  /\ UNCHANGED <<kept, requests>>

\* handleSelectThread, reloadMessages: when it was answered or failed.
ShowThread(g) ==
  /\ \/ /\ page[g].busy \in {"selected", "reloaded"}
        /\ Finish(g, [feed |-> page[g].seen])
     \/ /\ page[g].busy \in {"select", "selected"}
        /\ Finish(g, AtRest)
     \/ /\ page[g].busy \in {"reload", "reloaded"}
        /\ Finish(g, [feed |-> NotPending(page[g].feed)])
  /\ UNCHANGED <<kept, requests>>

\* runQuickCommand
Command(g) ==
  /\ \/ Free(g) /\ Show(g, [busy |-> "command"])
     \/ page[g].busy = "command" /\ Finish(g, AtRest)
  /\ UNCHANGED <<kept, requests>>

-----------------------------------------------------------------------------
(* The composer *)

\* The text is not to be changed while the page is busy.
Type(g, text) ==
  /\ Free(g) /\ text # page[g].draft
  /\ Show(g, [draft |-> text])
  /\ UNCHANGED <<kept, requests>>

\* Dropping a file is possible also while it is.
Attach(g, f) ==
  /\ page[g].open /\ page[g].shelf[f] = "off"
  /\ Cardinality({x \in Drops : page[g].shelf[x] # "off"}) < MaxShelf
  /\ Show(g, [shelf |-> [page[g].shelf EXCEPT ![f] = "UPLOADING"]])
  /\ UNCHANGED <<kept, requests>>

Attached(g, f) ==
  /\ page[g].open /\ page[g].shelf[f] = "UPLOADING"
  /\ \E status \in {"READY", "ERROR"} :
       Show(g, [shelf |-> [page[g].shelf EXCEPT ![f] = status]])
  /\ UNCHANGED <<kept, requests>>

RemoveAttachment(g, f) ==
  /\ page[g].open /\ page[g].shelf[f] # "off"
  /\ Show(g, [shelf |-> [page[g].shelf EXCEPT ![f] = "off"]])
  /\ UNCHANGED <<kept, requests>>

\* The message is shown before it is sent.
Asked(g, t, text, files, also) ==
  /\ Len(requests) < MaxPosts
  /\ requests' = Append(requests, [thread |-> t, text |-> text, files |-> files, stage |-> "sent"])
  /\ page' = [page EXCEPT ![g] = With(With(@, also),
       [busy |-> "send", post |-> Len(requests) + 1, text |-> text, files |-> files,
        feed |-> Append(page[g].feed, <<Len(requests) + 1, "pending">>)])]

\* sendMessage: what is in the composer, or a suggestion that is clicked, which
\* empties the composer too.
Send(g) ==
  LET offered == IF page[g].feed = <<>> THEN Suggestions ELSE {}
      files == {f \in Drops : page[g].shelf[f] = "READY"}
  IN  /\ Free(g)
      /\ \A f \in Drops : page[g].shelf[f] # "UPLOADING"
      /\ \E text \in {page[g].draft} \cup offered :
           /\ text # "" \/ files # {}
           /\ IF page[g].active = 0
              THEN /\ Show(g, [busy |-> "create", text |-> text, files |-> files,
                             draft |-> ""])
                   /\ UNCHANGED requests
              ELSE Asked(g, page[g].active, text, files, [draft |-> ""])
      /\ UNCHANGED kept

\* Faulty variant: the composer stays as it was emptied.
LeftEmpty(current, question) == current

\* The question is given back unless something else has been written.
GivenBack(current, question) == IF current = "" THEN question ELSE current

\* createThread, for a new thread or the first message of one.
CreateThread(g) ==
  LET t == Len(kept) + 1
      listed == page[g].listed \cup {t}
  IN  /\ page[g].busy \in {"create", "new"}
      /\ Len(kept) < MaxThreads
      /\ kept' = Append(kept, <<>>)
      /\ IF page[g].busy = "new"
         THEN Finish(g, [feed |-> <<>>, active |-> t, listed |-> listed]) /\ UNCHANGED requests
         ELSE Asked(g, t, page[g].text, page[g].files, [active |-> t, listed |-> listed])

\* The thread may have been made.
CreateFails(g) ==
  /\ page[g].busy \in {"create", "new"}
  /\ Finish(g, [draft |-> IF page[g].busy = "new" THEN page[g].draft
                          ELSE GivenBack(page[g].draft, page[g].text)])
  /\ kept' \in {kept} \cup (IF Len(kept) < MaxThreads THEN {Append(kept, <<>>)} ELSE {})
  /\ UNCHANGED requests

\* Faulty variant: the messages that came back are added to those shown.
AddedTo(feed, m) == feed \o <<<<m, "user">>, <<m, "assistant">>>>

\* They take the place of the one that was shown before.
Merged(feed, m) ==
  Without(feed, {m} \X {"user", "assistant", "pending"})
    \o <<<<m, "user">>, <<m, "assistant">>>>

Answered(g) ==
  LET m == page[g].post
  IN  /\ page[g].busy = "send" /\ requests[m].stage = "answered"
      /\ Finish(g, [shelf |-> NoShelf, feed |-> Merged(page[g].feed, m)])
      /\ UNCHANGED <<kept, requests>>

\* An error, or no answer although the server goes on.
SendFails(g) ==
  /\ page[g].busy = "send"
  /\ Show(g, [busy |-> "reload", draft |-> GivenBack(page[g].draft, page[g].text)])
  /\ UNCHANGED <<kept, requests>>

-----------------------------------------------------------------------------
(* Specification *)

ChatPageNext ==
  \/ \E m \in DOMAIN requests : StoreQuestion(m) \/ StoreAnswer(m) \/ PostFails(m)
  \/ \E g \in Views :
       \/ OpenPage(g) \/ ClosePage(g) \/ NewThread(g) \/ ReadThread(g) \/ ShowThread(g)
       \/ Command(g) \/ Send(g) \/ CreateThread(g) \/ CreateFails(g)
       \/ Answered(g) \/ SendFails(g)
       \/ \E t \in Threads : SelectThread(g, t)
       \/ \E text \in Texts : Type(g, text)
       \/ \E f \in Drops : Attach(g, f) \/ Attached(g, f) \/ RemoveAttachment(g, f)

ChatPageSpec == ChatPageInit /\ [][ChatPageNext]_chatPageVars

-----------------------------------------------------------------------------
(* Properties *)

ThreadOf(g) == IF page[g].active = 0 THEN <<>> ELSE kept[page[g].active]

\* Two messages of a feed are two of the thread, and in its order.
InItsOrder(feed, thread, i, j) ==
  \E k, l \in DOMAIN thread : k < l /\ thread[k] = feed[i] /\ thread[l] = feed[j]

\* What an open page shows is what the thread holds, in its order and nothing
\* twice, whoever else writes in the thread and whatever became of the request;
\* a message shown before it was stored is gone when the page is idle again
\* (agent-chat.tsx: sendMessage, reloadMessages).
FeedIsThread ==
  \A g \in Views :
    LET feed == page[g].feed
        stored == {i \in DOMAIN feed : feed[i][2] # "pending"}
    IN  page[g].open =>
          /\ \A i \in stored : \E k \in DOMAIN ThreadOf(g) : ThreadOf(g)[k] = feed[i]
          /\ \A i, j \in stored :
               i < j => feed[i] # feed[j] /\ InItsOrder(feed, ThreadOf(g), i, j)
          /\ page[g].busy = "none" => stored = DOMAIN feed

\* A question that was submitted is in the thread when its page is idle again, or
\* it is back in the composer (agent-chat.tsx: sendMessage).
SubmittedIsNotLost ==
  [][\A g \in Views :
       /\ page[g].open
       /\ page[g].busy \in {"create", "send", "reload", "reloaded"} /\ page'[g].busy = "none"
       => \/ page'[g].draft = page[g].text
          \/ /\ page[g].post # 0
             /\ \E t \in Threads : \E i \in DOMAIN kept[t] : kept[t][i] = <<page[g].post, "user">>
      ]_chatPageVars
=============================================================================
