------------------------------- MODULE GateRun -------------------------------
(***************************************************************************)
(* One official run of the acceptance gate: the evaluator sends the        *)
(* messages of a schedule to the application through a proxy that records  *)
(* what was answered; the application asks for data through a gateway of   *)
(* the same proxy, and a witness executes the capability and signs it; at  *)
(* last the supervisor stops the application, closes the two records and   *)
(* compares them with each other and with what the database holds.         *)
(*                                                                         *)
(* The five are processes in containers of their own.  What one of them    *)
(* does without waiting is one step; a request that is being answered may  *)
(* outlive the patience of who sent it.                                    *)
(*                                                                         *)
(* Abstractions: a message is its place in the schedule, which stands for  *)
(* its template, its correlation and the hash of what it says; signatures, *)
(* certificates and chains of hashes hold.  What is asked in a message and *)
(* what is judged of the answer are left out: the evaluator may be content *)
(* with an answer or not, and so may the gates for security and load.      *)
(***************************************************************************)
EXTENDS Integers, Sequences, SequencesExt, FiniteSets

CONSTANTS
  Length,        \* messages of the schedule: 23 in the code
  Together,      \* those that are sent without waiting for each other
  Refusable,     \* those that may be refused
  Capabilities,  \* what the application may ask the witness for
  Demanded       \* capabilities a run must have used

ASSUME GateAssumption == Length \in Nat \ {0} /\ Demanded \subseteq Capabilities

Messages == 1 .. Length

VARIABLES
  asked,       \* per message: what the evaluator knows of it
  evaluator,   \* "running", or how it ended
  journey,     \* per message: how far the request is
  status,      \* per message: the status of its answer
  turns,       \* messages whose question the database holds
  replies,     \* messages whose answer the database holds
  calls,       \* per message: the capability call it waits for
  used,        \* what the application got from the witness, <<message, capability>>
  served,      \* the application is up
  entries,     \* what the proxy recorded
  events,      \* what the witness signed
  transcript,  \* the record of the proxy as it was closed, or Open
  testimony,   \* the same of the witness
  supervisor   \* what the supervisor does

gateVars == <<asked, evaluator, journey, status, turns, replies, calls, used, served,
              entries, events, transcript, testimony, supervisor>>

Open == <<0>>
NoCall == [pc |-> "none", capability |-> "none"]

GateInit ==
  /\ asked = [n \in Messages |-> "no"]
  /\ evaluator = "running"
  /\ journey = [n \in Messages |-> "none"]
  /\ status = [n \in Messages |-> 0]
  /\ turns = {} /\ replies = {}
  /\ calls = [n \in Messages |-> NoCall]
  /\ used = {}
  /\ served = TRUE
  /\ entries = <<>> /\ events = <<>>
  /\ transcript = Open /\ testimony = Open
  /\ supervisor = "evaluate"

Move(n, place) == journey' = [journey EXCEPT ![n] = place]
Learn(n, what) == asked' = [asked EXCEPT ![n] = what]

-----------------------------------------------------------------------------
(* The evaluator *)

\* sendTracked: the next entry of the schedule is reserved when it is sent; the
\* messages before it are over, but for those it is sent together with.
SendNext(n) ==
  /\ evaluator = "running"
  /\ asked[n] = "no"
  /\ \A k \in 1 .. n - 1 : asked[k] = "waits" => {k, n} \subseteq Together
  /\ \A k \in 1 .. n - 1 : asked[k] # "no"
  /\ Learn(n, "waits")
  /\ Move(n, "sent")
  /\ UNCHANGED <<evaluator, status, turns, replies, calls, used, served, entries, events,
                 transcript, testimony, supervisor>>

\* The request takes longer than requestTimeoutMs; what it began goes on.
GiveUp(n) ==
  /\ asked[n] = "waits"
  /\ Learn(n, "failed")
  /\ UNCHANGED <<evaluator, journey, status, turns, replies, calls, used, served, entries,
                 events, transcript, testimony, supervisor>>

\* main: the cases are over, or one of them was given up with the messages it had
\* left.  scoreFastGate accepts only if every message was sent and none failed, and
\* if the answers are right.
Exit ==
  /\ evaluator = "running"
  /\ \A n \in Messages : asked[n] # "waits"
  /\ \/ /\ \A n \in Messages : asked[n] = "fine"
        /\ evaluator' \in {"accepts", "rejects"}
     \/ /\ \E n \in Messages : asked[n] = "failed"
        /\ evaluator' = "rejects"
  /\ UNCHANGED <<asked, journey, status, turns, replies, calls, used, served, entries, events,
                 transcript, testimony, supervisor>>

-----------------------------------------------------------------------------
(* The proxy *)

\* How the evaluator takes an answer, if it still waits for one.
Taken(n, code) ==
  IF asked[n] # "waits" THEN asked
  ELSE [asked EXCEPT ![n] = IF code = 201 \/ (n \in Refusable /\ code \in {401, 403, 404})
                            THEN "fine" ELSE "failed"]

\* forwardAndRecord, before the request is forwarded: one whose session is not known
\* is refused and not recorded, as is any when the record is closed.
Forward(n) ==
  /\ journey[n] = "sent"
  /\ \/ /\ transcript = Open
        /\ Move(n, "forwarded")
        /\ UNCHANGED asked
     \/ /\ Move(n, "lost")
        /\ asked' = Taken(n, IF transcript = Open THEN 401 ELSE 503)
  /\ UNCHANGED <<evaluator, status, turns, replies, calls, used, served, entries, events,
                 transcript, testimony, supervisor>>

\* The application does not answer: 502, and nothing is recorded.
NotAnswered(n) ==
  /\ journey[n] \in {"forwarded", "working", "replied"}
  /\ ~served
  /\ Move(n, "lost")
  /\ asked' = Taken(n, 502)
  /\ UNCHANGED <<evaluator, status, turns, replies, calls, used, served, entries, events,
                 transcript, testimony, supervisor>>

\* The whole answer is there: it is passed on and then recorded, unless the record
\* was closed meanwhile.
PassOn(n) ==
  /\ journey[n] = "answered"
  /\ asked' = Taken(n, status[n])
  /\ IF transcript = Open
     THEN /\ entries' = Append(entries, n)
          /\ Move(n, "recorded")
     ELSE /\ Move(n, "lost")
          /\ UNCHANGED entries
  /\ UNCHANGED <<evaluator, status, turns, replies, calls, used, served, events, transcript,
                 testimony, supervisor>>

\* A message is active while the application works on it.
InHand(n) == journey[n] \in {"forwarded", "working", "replied"}

\* handleWitnessGateway, then the witness until it executes the capability: either
\* refuses when it is closed.
Gateway(n) ==
  /\ calls[n].pc = "asked"
  /\ calls' = [calls EXCEPT ![n].pc =
       IF transcript = Open /\ InHand(n) /\ testimony = Open THEN "executing" ELSE "refused"]
  /\ UNCHANGED <<asked, evaluator, journey, status, turns, replies, used, served, entries,
                 events, transcript, testimony, supervisor>>

-----------------------------------------------------------------------------
(* The witness *)

\* The capability is executed, signed and answered; an execution that was under way
\* when the record was closed is signed all the same.  Or it fails, and is not.
Witness(n) ==
  /\ calls[n].pc = "executing"
  /\ \/ /\ events' = Append(events, <<n, calls[n].capability>>)
        /\ calls' = [calls EXCEPT ![n].pc = "done"]
     \/ /\ calls' = [calls EXCEPT ![n].pc = "refused"]
        /\ UNCHANGED events
  /\ UNCHANGED <<asked, evaluator, journey, status, turns, replies, used, served, entries,
                 transcript, testimony, supervisor>>

-----------------------------------------------------------------------------
(* The application *)

\* POST /api/agent/threads/:id/messages: the question is stored, unless who asks is
\* not known, may not ask or does not own the thread.
Accept(n) ==
  /\ served
  /\ journey[n] = "forwarded"
  /\ \/ /\ turns' = turns \cup {n}
        /\ Move(n, "working")
        /\ UNCHANGED status
     \/ /\ \E code \in {401, 403, 404, 500} : status' = [status EXCEPT ![n] = code]
        /\ Move(n, "answered")
        /\ UNCHANGED turns
  /\ UNCHANGED <<asked, evaluator, replies, calls, used, served, entries, events, transcript,
                 testimony, supervisor>>

Idling(n) == served /\ journey[n] = "working" /\ calls[n].pc = "none"

\* execute: the capability is asked of the witness, without a limit of time.
AskWitness(n) ==
  /\ Idling(n)
  /\ \E c \in Capabilities :
       /\ <<n, c>> \notin used
       /\ calls' = [calls EXCEPT ![n] = [pc |-> "asked", capability |-> c]]
  /\ UNCHANGED <<asked, evaluator, journey, status, turns, replies, used, served, entries,
                 events, transcript, testimony, supervisor>>

\* What the witness answered is used.
Use(n) ==
  /\ served
  /\ calls[n].pc = "done"
  /\ used' = used \cup {<<n, calls[n].capability>>}
  /\ calls' = [calls EXCEPT ![n] = NoCall]
  /\ UNCHANGED <<asked, evaluator, journey, status, turns, replies, served, entries, events,
                 transcript, testimony, supervisor>>

\* The answer is stored; or what was asked fails or is refused, as it does when the
\* witness did not answer.
Conclude(n) ==
  /\ served
  /\ journey[n] = "working"
  /\ calls[n].pc \in {"none", "refused"}
  /\ \/ /\ replies' = replies \cup {n}
        /\ Move(n, "replied")
        /\ UNCHANGED status
     \/ /\ \E code \in {403, 500} : status' = [status EXCEPT ![n] = code]
        /\ Move(n, "answered")
        /\ UNCHANGED replies
  /\ calls' = [calls EXCEPT ![n] = NoCall]
  /\ UNCHANGED <<asked, evaluator, turns, used, served, entries, events, transcript,
                 testimony, supervisor>>

\* The stored citations are authorized once more, and only then it is answered.
Reply(n) ==
  /\ served
  /\ journey[n] = "replied"
  /\ \E code \in {201, 403, 500} : status' = [status EXCEPT ![n] = code]
  /\ Move(n, "answered")
  /\ UNCHANGED <<asked, evaluator, turns, replies, calls, used, served, entries, events,
                 transcript, testimony, supervisor>>

-----------------------------------------------------------------------------
(* The supervisor *)

Supervise(before, after) == supervisor = before /\ supervisor' = after

\* executeOfficialRun: when the evaluator is over, the gates of security and load.
Gates ==
  /\ evaluator # "running"
  /\ Supervise("evaluate", "state") \/ Supervise("evaluate", "failed")
  /\ UNCHANGED <<asked, evaluator, journey, status, turns, replies, calls, used, served,
                 entries, events, transcript, testimony>>

\* The state of the database is asked for: the application is stopped first.  It is
\* given up when the application was not up or does not stop in time.
TargetState ==
  /\ \/ served /\ Supervise("state", "closeProxy")
     \/ Supervise("state", "failed")
  /\ served' = FALSE
  /\ UNCHANGED <<asked, evaluator, journey, status, turns, replies, calls, used, entries,
                 events, transcript, testimony>>

CloseProxy ==
  /\ Supervise("closeProxy", "closeWitness")
  /\ transcript' = entries
  /\ UNCHANGED <<asked, evaluator, journey, status, turns, replies, calls, used, served,
                 entries, events, testimony>>

CloseWitness ==
  /\ Supervise("closeWitness", "verify")
  /\ testimony' = events
  /\ UNCHANGED <<asked, evaluator, journey, status, turns, replies, calls, used, served,
                 entries, events, transcript>>

\* verifySignedTranscript: the messages of the record are those of the schedule.
Scheduled == transcript = [n \in Messages |-> n]

\* The messages of the record that were answered.
AnswersTold == {i \in DOMAIN transcript : status[transcript[i]] = 201}

\* Faulty variant: the questions are taken for granted.
RepliesTold == Cardinality(replies) = Cardinality(AnswersTold)

\* attestFastGateDatabaseMutations: a row for every message that was tried, and one
\* more for every one that was answered.
RowsTold ==
  Cardinality(turns) + Cardinality(replies) = Len(transcript) + Cardinality(AnswersTold)

\* verifyConnectorHttpBindings: there is a message in the record for every event.
Bound ==
  /\ testimony # <<>>
  /\ \A i \in DOMAIN testimony : testimony[i][1] \in Range(transcript)
Observed == {testimony[i][2] : i \in DOMAIN testimony}

\* The run is passed if all of that holds.
Verify ==
  LET passed == evaluator = "accepts" /\ Scheduled /\ RowsTold /\ Bound
                /\ Demanded \subseteq Observed
  IN  /\ Supervise("verify", IF passed THEN "passed" ELSE "failed")
      /\ UNCHANGED <<asked, evaluator, journey, status, turns, replies, calls, used, served,
                     entries, events, transcript, testimony>>

\* The application ends by itself, at any time.
ApplicationDies ==
  /\ served
  /\ served' = FALSE
  /\ UNCHANGED <<asked, evaluator, journey, status, turns, replies, calls, used, entries,
                 events, transcript, testimony, supervisor>>

-----------------------------------------------------------------------------
(* Specification *)

GateNext ==
  \/ \E n \in Messages :
       \/ SendNext(n) \/ GiveUp(n)
       \/ Forward(n) \/ NotAnswered(n) \/ PassOn(n) \/ Gateway(n)
       \/ Witness(n)
       \/ Accept(n) \/ AskWitness(n) \/ Use(n) \/ Conclude(n) \/ Reply(n)
  \/ Exit
  \/ Gates \/ TargetState \/ CloseProxy \/ CloseWitness \/ Verify
  \/ ApplicationDies

GateSpec == GateInit /\ [][GateNext]_gateVars

-----------------------------------------------------------------------------
(* Properties *)

\* The kind of value every variable holds, whatever is under way.
GateTypeOK ==
  /\ asked \in [Messages -> {"no", "waits", "fine", "failed"}]
  /\ evaluator \in {"running", "accepts", "rejects"}
  /\ journey \in [Messages -> {"none", "sent", "forwarded", "working", "replied", "answered",
                              "recorded", "lost"}]
  /\ status \in [Messages -> {0, 201, 401, 403, 404, 500}]
  /\ turns \subseteq Messages /\ replies \subseteq Messages
  /\ calls \in [Messages -> [pc : {"none", "asked", "executing", "refused", "done"},
                            capability : Capabilities \cup {"none"}]]
  /\ used \subseteq Messages \X (Capabilities \cup {"none"})
  /\ served \in BOOLEAN
  /\ entries \in Seq(Messages)
  /\ events \in Seq(Messages \X (Capabilities \cup {"none"}))
  /\ transcript \in Seq(Messages \cup {0})
  /\ supervisor \in {"verify", "passed"} =>
       testimony \in Seq(Messages \X (Capabilities \cup {"none"}))
  /\ supervisor \in {"evaluate", "state", "closeProxy", "closeWitness"} => testimony = Open
  /\ supervisor \in {"evaluate", "state", "closeProxy", "closeWitness", "verify", "passed",
                     "failed"}

\* A run that passed is accounted for: its record has every message of the schedule,
\* once and in order; the database holds the question of each, and its answer exactly
\* if the record says it was answered; and whatever the application was given by
\* the witness in that run, the witness testifies to (fastgate-container-supervisor.ts:
\* executeOfficialRun).  At most one message may be refused: with two, a question
\* that was not stored and an answer that was stored but refused would make up for
\* each other.
PassedRunIsAccountedFor ==
  supervisor = "passed" =>
    /\ transcript = [n \in Messages |-> n]
    /\ turns = Messages
    /\ replies = {n \in Messages : status[n] = 201}
    /\ \A use \in used : use \in Range(testimony)
=============================================================================
