----------------------------- MODULE EventInbox -----------------------------
(***************************************************************************)
(* The inbox of platform events and the insights made of them: rows of     *)
(* agent_event_inbox and agent_proactive_insights, and the service         *)
(* requests that deliver an event or work on the next one                  *)
(* (AgentEventService over PostgresAgentEventStore).                       *)
(*                                                                         *)
(* A delivery stores the event and works on it at once; a later call works *)
(* on the next one that is due.  Reading the row, claiming it, writing the *)
(* insight and recording a failure are transactions of their own, several  *)
(* requests interleave, a source may deliver an event again, and a request *)
(* may die after any of them.                                              *)
(*                                                                         *)
(* Abstractions: an event is its idempotency key (source system and source *)
(* event id), which fixes its row's subject - project, type and entity,    *)
(* the deduplication key of its insight - and state version.  The text an  *)
(* insight shows is left out.  Requests take the event's type and entity   *)
(* from its row, so the check that they agree (execute, 104-107) always    *)
(* passes and is left out too.                                             *)
(***************************************************************************)
EXTENDS Integers, FiniteSets

CONSTANTS
  Procs,        \* service requests that may be in flight at once
  Events,       \* events that sources may deliver
  Subjects,     \* what insights are about
  Subject,      \* the subject of an event
  StateVersion, \* the state version an event reports
  MaxAttempts,  \* max_attempts of a row: 5 in the code
  MaxCrashes    \* bound: requests that die

Versions == {StateVersion[e] : e \in Events}

ASSUME InboxAssumption ==
  /\ Events # {}
  /\ IsFiniteSet(Events)
  /\ Subject \in [Events -> Subjects]
  /\ StateVersion \in [Events -> Versions]
  /\ MaxAttempts \in Nat \ {0}
  /\ MaxCrashes \in Nat

VARIABLES
  inbox,     \* the agent_event_inbox rows
  backoff,   \* failed events whose available_at is still to come
  insights,  \* the agent_proactive_insights rows, by subject
  processed, \* agent.event.processed events of each event in audit_logs
  worker,    \* local state of every request
  crashes    \* requests that died so far

inboxVars == <<inbox, backoff, insights, processed, worker, crashes>>

-----------------------------------------------------------------------------
(* Rows and local records *)

InboxStatuses == {"ABSENT", "PENDING", "PROCESSING", "PROCESSED", "FAILED",
                  "DEAD_LETTER"}
Settled == {"PROCESSED", "DEAD_LETTER"}

InboxRow == [status : InboxStatuses, attempts : 0 .. MaxAttempts,
             version : Nat]
NoRow == [status |-> "ABSENT", attempts |-> 0, version |-> 0]

\* made: how often the row has been written; 0 is no row.
Insight == [state : Versions \cup {"none"}, made : Nat]
NoInsight == [state |-> "none", made |-> 0]

\* event: what the request works on; row: the row it claimed.
Worker == [pc : {"idle", "enqueue", "peek", "claim", "requeued", "find",
                 "work", "fail"},
           event : Events, row : InboxRow]
SomeEvent == CHOOSE e \in Events : TRUE
Resting == [pc |-> "idle", event |-> SomeEvent, row |-> NoRow]

InboxTypeOK ==
  /\ inbox \in [Events -> InboxRow]
  /\ backoff \subseteq Events
  /\ insights \in [Subjects -> Insight]
  /\ processed \in [Events -> Nat]
  /\ worker \in [Procs -> Worker]
  /\ crashes \in 0 .. MaxCrashes

InboxInit ==
  /\ inbox = [e \in Events |-> NoRow]
  /\ backoff = {}
  /\ insights = [s \in Subjects |-> NoInsight]
  /\ processed = [e \in Events |-> 0]
  /\ worker = [p \in Procs |-> Resting]
  /\ crashes = 0

Goto(p, pc) == worker' = [worker EXCEPT ![p].pc = pc]
Leave(p) == worker' = [worker EXCEPT ![p] = Resting]

\* Faulty variant: failed events are not selected again.
QueuedOnce == {"PENDING"}

\* The statuses that peekNext and claimNext select.
Queued == {"PENDING", "FAILED"}

\* A row that they may select.
Due(e) ==
  /\ inbox[e].status \in Queued
  /\ e \notin backoff
  /\ inbox[e].attempts < MaxAttempts

\* The row as the request claimed it, still the one in the table.
Holds(p) ==
  LET row == inbox[worker[p].event]
  IN  row.status = "PROCESSING" /\ row.version = worker[p].row.version

-----------------------------------------------------------------------------
(* Requests *)

\* POST /api/agent/events: a source delivers an event, perhaps again.
Deliver(p, e) ==
  /\ worker[p].pc = "idle"
  /\ worker' = [worker EXCEPT ![p].pc = "enqueue", ![p].event = e]
  /\ UNCHANGED <<inbox, backoff, insights, processed, crashes>>

NewRow == [status |-> "PENDING", attempts |-> 0, version |-> 1]

\* Faulty variant: a conflicting insert writes over the row.
Overwritten(row) == NewRow

\* onConflictDoNothing: the row is inserted, or the one already there is read.
Inserted(row) == IF row.status = "ABSENT" THEN NewRow ELSE row

\* enqueue
Enqueue(p) ==
  LET e == worker[p].event
  IN  /\ worker[p].pc = "enqueue"
      /\ inbox' = [inbox EXCEPT ![e] = Inserted(@)]
      /\ Goto(p, "claim")
      /\ UNCHANGED <<backoff, insights, processed, crashes>>

\* POST /api/agent/events/process: peekNext finds an event that is due.  Which
\* one is first depends on clocks.
Poll(p, e) ==
  /\ worker[p].pc = "idle"
  /\ Due(e)
  /\ worker' = [worker EXCEPT ![p].pc = "claim", ![p].event = e]
  /\ UNCHANGED <<inbox, backoff, insights, processed, crashes>>

\* claimNext: the row is read and set to PROCESSING, by one transaction.
Claim(p) ==
  LET e == worker[p].event
      claimed == [status |-> "PROCESSING",
                  attempts |-> inbox[e].attempts + 1,
                  version |-> inbox[e].version + 1]
  IN  /\ worker[p].pc = "claim"
      /\ Due(e)
      /\ inbox' = [inbox EXCEPT ![e] = claimed]
      /\ worker' = [worker EXCEPT ![p].pc = "work", ![p].row = claimed]
      /\ UNCHANGED <<backoff, insights, processed, crashes>>

ClaimNothing(p) ==
  /\ worker[p].pc = "claim"
  /\ ~Due(worker[p].event)
  /\ Goto(p, "requeued")
  /\ UNCHANGED <<inbox, backoff, insights, processed, crashes>>

\* execute: an event it could not claim that is due by now is left in the
\* queue, with an error; else the insight it must already have led to is
\* looked up.  peekNext finds the first event that is due, so another one may
\* hide this one.
Requeued(p) ==
  LET e == worker[p].event
  IN  /\ worker[p].pc = "requeued"
      /\ \/ Due(e) /\ Leave(p)
         \/ (Due(e) => \E other \in Events \ {e} : Due(other)) /\ Goto(p, "find")
      /\ UNCHANGED <<inbox, backoff, insights, processed, crashes>>

\* findInsight: the insight of the same subject and state version, if any, is
\* the answer; else AGENT_EVENT_QUEUE_EMPTY.
FindInsight(p) ==
  /\ worker[p].pc = "find"
  /\ Leave(p)
  /\ UNCHANGED <<inbox, backoff, insights, processed, crashes>>

\* completeWithInsight: the insight of the subject is written over, whatever
\* state it was about, and the event processed, or neither.  If only the answer
\* of the commit is lost, the request goes on to record a failure.
Complete(p) ==
  LET e == worker[p].event
      s == Subject[e]
  IN  /\ worker[p].pc = "work"
      /\ Holds(p)
      /\ insights' = [insights EXCEPT
                        ![s] = [state |-> StateVersion[e], made |-> @.made + 1]]
      /\ inbox' = [inbox EXCEPT ![e].status = "PROCESSED",
                                ![e].version = worker[p].row.version + 1]
      /\ processed' = [processed EXCEPT ![e] = @ + 1]
      /\ Leave(p) \/ Goto(p, "fail")
      /\ UNCHANGED <<backoff, crashes>>

\* The source's permission is missing, the insight names a case that does not
\* exist, the row is no longer the one claimed, or the database refuses.
WorkFails(p) ==
  /\ worker[p].pc = "work"
  /\ Goto(p, "fail")
  /\ UNCHANGED <<inbox, backoff, insights, processed, crashes>>

\* Faulty variant: compares the attempts before this one.
LastByEarlier(row) == row.attempts - 1 >= MaxAttempts

\* No attempt is left.
LastAttempt(row) == row.attempts >= MaxAttempts

\* fail: the event waits for its backoff, or is given up at the last attempt.
Fail(p) ==
  LET e == worker[p].event
      row == worker[p].row
  IN  /\ worker[p].pc = "fail"
      /\ Holds(p)
      /\ inbox' = [inbox EXCEPT
                     ![e].status = IF LastAttempt(row) THEN "DEAD_LETTER"
                                                        ELSE "FAILED",
                     ![e].version = row.version + 1]
      /\ backoff' = backoff \cup {e}
      /\ Leave(p)
      /\ UNCHANGED <<insights, processed, crashes>>

\* fail, when the row has changed: AGENT_EVENT_OPTIMISTIC_LOCK.
FailLost(p) ==
  /\ worker[p].pc = "fail"
  /\ ~Holds(p)
  /\ Leave(p)
  /\ UNCHANGED <<inbox, backoff, insights, processed, crashes>>

\* The request dies, or the call that records its failure fails.
Crash(p) ==
  /\ worker[p].pc # "idle"
  /\ crashes < MaxCrashes
  /\ crashes' = crashes + 1
  /\ Leave(p)
  /\ UNCHANGED <<inbox, backoff, insights, processed>>

\* available_at of a failed event comes.
BackoffEnds(e) ==
  /\ e \in backoff
  /\ backoff' = backoff \ {e}
  /\ UNCHANGED <<inbox, insights, processed, worker, crashes>>

-----------------------------------------------------------------------------
(* Specification *)

InboxStep(p) ==
  \/ Enqueue(p)
  \/ Claim(p)
  \/ ClaimNothing(p)
  \/ Requeued(p)
  \/ FindInsight(p)
  \/ Complete(p)
  \/ WorkFails(p)
  \/ Fail(p)
  \/ FailLost(p)

InboxNext ==
  \/ \E p \in Procs : InboxStep(p) \/ Crash(p)
  \/ \E p \in Procs, e \in Events : Deliver(p, e) \/ Poll(p, e)
  \/ \E e \in Events : BackoffEnds(e)

\* Requests run to their end and time passes.  The calls to /events/process are
\* an external scheduler's: an event that stays due is asked for at some time.
InboxFairness ==
  /\ \A p \in Procs : WF_inboxVars(InboxStep(p))
  /\ \A e \in Events : /\ WF_inboxVars(BackoffEnds(e))
                       /\ SF_inboxVars(\E p \in Procs : Poll(p, e))

InboxSpec == InboxInit /\ [][InboxNext]_inboxVars
FairInboxSpec == InboxSpec /\ InboxFairness

-----------------------------------------------------------------------------
(* Properties *)

Made(s) == {e \in Events : Subject[e] = s /\ inbox[e].status = "PROCESSED"}

\* However often an event is delivered, claimed, tried again or abandoned, it
\* is recorded as processed once if its row is PROCESSED and never otherwise,
\* and the insight of a subject has been written once for each of its processed
\* events (completeWithInsight: one transaction with a compare-and-set).
ExactlyOnce ==
  /\ \A e \in Events :
       processed[e] = IF inbox[e].status = "PROCESSED" THEN 1 ELSE 0
  /\ \A s \in Subjects : insights[s].made = Cardinality(Made(s))

\* A row that is neither settled nor claimed can be claimed once its backoff is
\* over: fail never leaves a row FAILED whose attempts are used up, and gives
\* none up before they are.
RetriesComplete ==
  \A e \in Events :
    /\ inbox[e].status \in {"PENDING", "FAILED"} => inbox[e].attempts < MaxAttempts
    /\ inbox[e].status = "DEAD_LETTER" => inbox[e].attempts = MaxAttempts

\* The row of a request that died: claimed, and nobody works on it.
Abandoned(e) ==
  /\ inbox[e].status = "PROCESSING"
  /\ \A p \in Procs : ~(/\ worker[p].pc \in {"work", "fail"}
                       /\ worker[p].event = e
                       /\ Holds(p))

\* Every event that is stored is processed or given up at last; only one whose
\* request died after claiming it is not, as the inbox has no lease.
EventsSettle ==
  \A e \in Events :
    inbox[e].status # "ABSENT" ~> inbox[e].status \in Settled \/ Abandoned(e)
=============================================================================
