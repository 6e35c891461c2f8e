----------------------------- MODULE ChatThread -----------------------------
(***************************************************************************)
(* Messages of one dialogue with the agent: POST .../messages saves the    *)
(* user's message, finds an answer, and saves that.  Requests overlap, any *)
(* call may fail, and administrators change what the user may read.        *)
(*                                                                         *)
(* A message may leave unsaid what it is about; then UniversalChatService  *)
(* takes it from the last universal answer saved in the thread.            *)
(*                                                                         *)
(* Abstractions: a topic is a business project or a material; a message    *)
(* names one or none.  Of the thread only the answers are kept, and of     *)
(* those the kind and the topic; purposes, remembered shortages,           *)
(* candidates to choose from, who worded an answer and the audit of it are *)
(* left out.  Between its reads and its writes of the thread a request     *)
(* touches nothing that is shared, so that is one step.                    *)
(***************************************************************************)
EXTENDS Integers, Sequences, FiniteSets

CONSTANTS
  Posts,       \* bound: the requests
  Projects,    \* business projects
  Materials    \* materials

Nothing == "nothing"
Topics == Projects \cup Materials

ASSUME ChatAssumption == Nothing \notin Topics /\ Projects \cap Materials = {}

VARIABLES
  thread,      \* the agent's messages in agent_messages, oldest first: Answer
  readable,    \* projects the user may read now
  post         \* requests: Post

chatVars == <<thread, readable, post>>

-----------------------------------------------------------------------------
(* State *)

\* What the message is recognised as; "elsewhere" is for attachments, actions,
\* typed commands and positions of Appius.
Asks == {"elsewhere", "portfolio", "project", "material", "warehouse", "other"}

\* Universal answers are those of schema universal-agent-answer-v1.
Universal == {"answer", "clarification"}
Kinds == Universal \cup {"otherwise"}
Answer == [post : Posts, kind : Kinds, topic : Topics \cup {Nothing}]
Found(kind, topic) == [kind |-> kind, topic |-> topic]

\* granted: the projects of the request's authorization; seen: the answers that
\* were there when it read the thread; what it needs no longer is forgotten.
Post == [pc : {"new", "asked", "writing", "answered", "failed"},
         asks : Asks, names : Topics \cup {Nothing}, granted : SUBSET Projects,
         seen : Nat, found : [kind : Kinds, topic : Topics \cup {Nothing}]]
NoPost == [pc |-> "new", asks |-> "other", names |-> Nothing, granted |-> {},
           seen |-> 0, found |-> Found("otherwise", Nothing)]

ChatTypeOK ==
  /\ thread \in Seq(Answer)
  /\ readable \subseteq Projects
  /\ post \in [Posts -> Post]

ChatInit ==
  /\ thread = <<>>
  /\ readable = Projects
  /\ post = [p \in Posts |-> NoPost]

-----------------------------------------------------------------------------
(* The question *)

PostAt(p, pc) == post[p].pc = pc
Breaks(p) == post' = [post EXCEPT ![p] = [NoPost EXCEPT !.pc = "failed"]]
Finds(p, found) ==
  post' = [post EXCEPT ![p] =
             [pc |-> "writing", asks |-> "other", names |-> @.names, granted |-> @.granted,
              seen |-> Len(thread), found |-> found]]

\* The session, then appendAgentMessage and getActivePrompt; if these fail, as if
\* any call does, the message may be left without an answer.
Ask(p) ==
  /\ PostAt(p, "new")
  /\ \E asks \in Asks, names \in Topics \cup {Nothing} :
       /\ asks = "project" => names \notin Materials
       /\ asks = "material" => names \in Materials
       /\ asks \notin {"project", "material"} => names = Nothing
       /\ post' = [post EXCEPT ![p] =
                      [pc |-> "asked", asks |-> asks, names |-> names, granted |-> readable,
                       seen |-> @.seen, found |-> @.found]]
  /\ UNCHANGED <<thread, readable>>

Fail(p) ==
  /\ PostAt(p, "asked") \/ PostAt(p, "writing")
  /\ Breaks(p)
  /\ UNCHANGED <<thread, readable>>

\* Attachments first, then actions, then the orchestrator: commands that are
\* preferred to the universal chat; positions of Appius, left to AgentService.
AnswerElsewhere(p) ==
  /\ PostAt(p, "asked") /\ post[p].asks = "elsewhere"
  /\ Finds(p, Found("otherwise", Nothing))
  /\ UNCHANGED <<thread, readable>>

UniversalAnswers == {i \in DOMAIN thread : thread[i].kind \in Universal}

LastUniversal == {i \in UniversalAnswers : \A j \in UniversalAnswers : j <= i}

\* Faulty variant: any answer that had a topic.
AnyUniversal == {i \in UniversalAnswers : thread[i].topic # Nothing}

Recalled == LastUniversal

-----------------------------------------------------------------------------
(* The answer *)

\* loadUniversalChatMemory: the topic of the last universal answer, if it has
\* one; a clarification has none, and nothing older is looked at.
Memories == IF Recalled = {} THEN {Nothing} ELSE {thread[i].topic : i \in Recalled}

\* Faulty variant: the project remembered is not looked for among those the
\* user may read.
AsRemembered(p, memory) ==
  \/ post[p].asks = "project" /\ memory \in Projects
  \/ post[p].asks = "warehouse" /\ memory \in Materials

StillThere(p, memory) ==
  \/ post[p].asks = "project" /\ memory \in Projects \cap post[p].granted
  \/ post[p].asks = "warehouse" /\ memory \in Materials

FollowsUp(p, memory) == StillThere(p, memory)

\* UniversalChatService.respond: a question about the portfolio has no topic; of
\* a project that is neither found by its name nor remembered it asks which; what
\* it returns null for is left to a command or to AgentService.
Resolved(p, memory) ==
  IF post[p].asks = "portfolio" THEN Found("answer", Nothing)
  ELSE IF post[p].names \in Materials \cup post[p].granted THEN Found("answer", post[p].names)
  ELSE IF FollowsUp(p, memory) THEN Found("answer", memory)
  ELSE IF post[p].asks = "project" THEN Found("clarification", Nothing)
  ELSE Found("otherwise", Nothing)

\* LiveUniversalChatService.respond: the planner may ask back; otherwise, and
\* whatever the planner, its calls, the composer or the audit run into, the
\* answer is the deterministic one.
Respond(p) ==
  /\ PostAt(p, "asked") /\ post[p].asks # "elsewhere"
  /\ \/ \E memory \in Memories : Finds(p, Resolved(p, memory))
     \/ Finds(p, Found("clarification", Nothing))
  /\ UNCHANGED <<thread, readable>>

\* appendAgentMessage.  If reauthorizeSavedAgentCitations then fails, the user is
\* not told of an answer that is in the thread.
SaveAnswer(p) ==
  /\ PostAt(p, "writing")
  /\ thread' = Append(thread, [post |-> p, kind |-> post[p].found.kind,
                               topic |-> post[p].found.topic])
  /\ post' = [post EXCEPT ![p] =
                 [pc |-> "answered", asks |-> @.asks, names |-> @.names, granted |-> @.granted,
                  seen |-> @.seen, found |-> NoPost.found]]
  /\ UNCHANGED readable

\* Access is administered elsewhere.
ChangeAccess(q) ==
  /\ readable' = IF q \in readable THEN readable \ {q} ELSE readable \cup {q}
  /\ UNCHANGED <<thread, post>>

-----------------------------------------------------------------------------
(* Specification *)

ChatNext ==
  \/ \E p \in Posts :
       \/ Ask(p) \/ AnswerElsewhere(p) \/ Respond(p) \/ SaveAnswer(p) \/ Fail(p)
  \/ \E q \in Projects : ChangeAccess(q)

ChatSpec == ChatInit /\ [][ChatNext]_chatVars

-----------------------------------------------------------------------------
(* Properties *)

\* A question that leaves unsaid what it is about is answered about what the
\* last universal answer before it was about: any universal answer in between is
\* of a request that overlapped and was not there yet when the memory was read;
\* and a project is taken from the thread only if this request may read it, even
\* if an earlier one could (universal-chat-memory.ts:13, resolveProject in
\* universal-chat-service.ts).
FollowUpContinues ==
  \A a \in UniversalAnswers :
    LET p == thread[a].post
    IN  thread[a].topic # Nothing /\ post[p].names = Nothing =>
          /\ thread[a].topic \in Materials \cup post[p].granted
          /\ \E i \in UniversalAnswers :
               /\ i < a /\ thread[i].topic = thread[a].topic
               /\ \A j \in UniversalAnswers : i < j /\ j < a => j > post[p].seen
=============================================================================
