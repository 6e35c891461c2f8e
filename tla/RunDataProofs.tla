----------------------------- MODULE RunDataProofs -----------------------------
(***************************************************************************)
(* Theorems about the data of a run: the events that tell of it            *)
(* (EventInbox), what it reads of the other systems while they change      *)
(* (RunInput), the rules by which a position is somebody's to supply       *)
(* (Responsibility), the stock that covers it (Supply), the numbers and    *)
(* the files of its report (Report), what is advised for one position      *)
(* (Analytics) and what is answered about the portfolio (Portfolio).  They *)
(* hold for any number of events, subjects, requests, attempts,            *)
(* specifications, rules, positions, materials, rows of stock, projects    *)
(* and warehouses.                                                         *)
(***************************************************************************)
EXTENDS EventInbox, RunInput, Responsibility, Report, Analytics, Portfolio, FoldTheorems,
        FiniteSetTheorems, TLAPS

-----------------------------------------------------------------------------
(* Events.  ExactlyOnce and RetriesComplete rest on what a request knows of    *)
(* the row it claimed: as long as the row's version is the one it saw, its     *)
(* attempts are too (Claimed).                                                 *)

Claimed(p) ==
  LET seen == worker[p].row
      row  == inbox[worker[p].event]
  IN  worker[p].pc \in {"work", "fail"} =>
        /\ seen.version <= row.version
        /\ seen.version = row.version => seen.attempts = row.attempts

\* What a row says by itself.
RowSound(row) ==
  /\ row.status \in {"PENDING", "FAILED"} => row.attempts < MaxAttempts
  /\ row.status = "DEAD_LETTER" => row.attempts = MaxAttempts
  /\ row.status = "ABSENT" => row.version = 0

Inv ==
  /\ InboxTypeOK
  /\ \A e \in Events :
       /\ processed[e] = IF inbox[e].status = "PROCESSED" THEN 1 ELSE 0
       /\ RowSound(inbox[e])
  /\ \A p \in Procs : Claimed(p)

-----------------------------------------------------------------------------
(* Rows *)

LEMMA SomeEventIsOne == SomeEvent \in Events
  BY InboxAssumption DEF SomeEvent

LEMMA RestingIsWorker == Resting \in Worker
  BY SomeEventIsOne, InboxAssumption DEF Resting, Worker, NoRow, InboxRow, InboxStatuses

\* A transaction that writes one row, with a higher version and in step with its
\* audit events, keeps the invariant: requests that saw an older version of it
\* lose their claim.
LEMMA RowWritten ==
  ASSUME Inv, NEW e \in Events, NEW row \in InboxRow,
         row.version > inbox[e].version, row.status # "ABSENT", RowSound(row),
         inbox' = [inbox EXCEPT ![e] = row],
         processed' \in [Events -> Nat],
         \A f \in Events \ {e} : processed'[f] = processed[f],
         processed'[e] = IF row.status = "PROCESSED" THEN 1 ELSE 0,
         worker' \in [Procs -> Worker],
         \A p \in Procs :
           \/ worker'[p] = worker[p]
           \/ worker'[p].pc \notin {"work", "fail"}
           \/ worker'[p].row = row /\ worker'[p].event = e
           \/ /\ worker[p].pc = "work"
              /\ worker'[p] = [worker[p] EXCEPT !.pc = "fail"],
         backoff' \subseteq Events, crashes' \in 0 .. MaxCrashes,
         insights' \in [Subjects -> Insight]
  PROVE  Inv'
  <1>1. \A f \in Events : inbox'[f] = IF f = e THEN row ELSE inbox[f]
    BY DEF Inv, InboxTypeOK
  <1>2. InboxTypeOK'
    BY DEF Inv, InboxTypeOK
  <1>3. \A f \in Events :
           /\ processed'[f] = IF inbox'[f].status = "PROCESSED" THEN 1 ELSE 0
           /\ RowSound(inbox'[f])
    BY <1>1 DEF Inv
  <1>4. ASSUME NEW p \in Procs PROVE Claimed(p)'
    <2>1. worker[p] \in Worker /\ worker'[p] \in Worker /\ Claimed(p)
      BY DEF Inv, InboxTypeOK
    <2>2. CASE worker'[p] = worker[p]
      <3>1. worker[p].event \in Events /\ worker[p].row \in InboxRow
        BY <2>1 DEF Worker
      <3>2. inbox[worker[p].event] \in InboxRow /\ inbox[e] \in InboxRow
        BY <3>1 DEF Inv, InboxTypeOK
      <3> QED
        BY <1>1, <2>1, <2>2, <3>1, <3>2 DEF Claimed, InboxRow
    <2>3. CASE worker'[p].pc \notin {"work", "fail"}
      BY <2>3 DEF Claimed
    <2>4. CASE worker'[p].row = row /\ worker'[p].event = e
      BY <1>1, <2>4 DEF Claimed, InboxRow
    <2>5. CASE /\ worker[p].pc = "work"
               /\ worker'[p] = [worker[p] EXCEPT !.pc = "fail"]
      <3>1. /\ worker[p].event \in Events /\ worker[p].row \in InboxRow
            /\ worker'[p].event = worker[p].event /\ worker'[p].row = worker[p].row
        BY <2>1, <2>5 DEF Worker
      <3>2. inbox[worker[p].event] \in InboxRow /\ inbox[e] \in InboxRow
        BY <3>1 DEF Inv, InboxTypeOK
      <3> QED
        BY <1>1, <2>1, <2>5, <3>1, <3>2 DEF Claimed, InboxRow
    <2> QED
      BY <2>2, <2>3, <2>4, <2>5
  <1> QED
    BY <1>2, <1>3, <1>4 DEF Inv, RowSound

-----------------------------------------------------------------------------
(* Every step preserves the invariant *)

LEMMA InitInv == ASSUME InboxInit PROVE Inv
  <1>1. \A e \in Events : inbox[e] = NoRow /\ processed[e] = 0
    BY DEF InboxInit
  <1>2. InboxTypeOK
    <2>1. worker \in [Procs -> Worker]
      <3> SUFFICES ASSUME NEW p \in Procs PROVE Resting \in Worker
        BY DEF InboxInit
      <3> QED
        BY RestingIsWorker
    <2> QED
      BY <2>1, InboxAssumption DEF InboxInit, InboxTypeOK, InboxRow, NoRow, InboxStatuses, Insight, NoInsight
  <1> QED
    BY <1>1, <1>2, InboxAssumption DEF Inv, InboxInit, NoRow, Resting, RowSound, Claimed

\* A step that changes no row keeps every claim of a request that is in the same
\* place or no longer works on its row.
LEMMA RowsKept ==
  ASSUME Inv, UNCHANGED <<inbox, processed>>, worker' \in [Procs -> Worker],
         \A p \in Procs :
           \/ worker'[p] = worker[p]
           \/ worker'[p].pc \notin {"work", "fail"}
           \/ /\ worker[p].pc = "work"
              /\ worker'[p] = [worker[p] EXCEPT !.pc = "fail"],
         backoff' \subseteq Events, crashes' \in 0 .. MaxCrashes,
         insights' \in [Subjects -> Insight]
  PROVE  Inv'
  <1>1. InboxTypeOK'
    BY DEF Inv, InboxTypeOK
  <1>3. ASSUME NEW p \in Procs PROVE Claimed(p)'
    <2>1. worker[p] \in Worker
      BY DEF Inv, InboxTypeOK
    <2>2. Claimed(p)
      BY DEF Inv
    <2>3. CASE worker'[p] = worker[p]
      BY <2>2, <2>3 DEF Claimed
    <2>4. CASE worker'[p].pc \notin {"work", "fail"}
      BY <2>4 DEF Claimed
    <2>5. CASE /\ worker[p].pc = "work"
               /\ worker'[p] = [worker[p] EXCEPT !.pc = "fail"]
      <3>1. /\ worker'[p].row = worker[p].row
            /\ worker'[p].event = worker[p].event
        BY <2>1, <2>5 DEF Worker
      <3> QED
        BY <2>2, <2>5, <3>1 DEF Claimed
    <2> QED
      BY <2>3, <2>4, <2>5
  <1> QED
    BY <1>1, <1>3 DEF Inv, RowSound

\* The places of a request may be set to any of the program's.
LEMMA GotoTyped ==
  ASSUME InboxTypeOK, NEW p \in Procs, Goto(p, "claim") \/ Goto(p, "find") \/
         Goto(p, "requeued") \/ Goto(p, "fail") \/ Leave(p)
  PROVE  /\ worker' \in [Procs -> Worker]
         /\ \A q \in Procs : q # p => worker'[q] = worker[q]
         /\ Leave(p) => worker'[p].pc = "idle"
  <1>1. worker[p] \in Worker
    BY DEF InboxTypeOK
  <1>2. [worker[p] EXCEPT !.pc = "claim"] \in Worker /\ [worker[p] EXCEPT !.pc = "find"] \in Worker
        /\ [worker[p] EXCEPT !.pc = "requeued"] \in Worker /\ [worker[p] EXCEPT !.pc = "fail"] \in Worker
    BY <1>1 DEF Worker
  <1>3. Resting \in Worker /\ Resting.pc = "idle"
    BY RestingIsWorker DEF Resting
  <1> QED
    BY <1>2, <1>3 DEF InboxTypeOK, Goto, Leave

LEMMA EnqueuePreserves == ASSUME Inv, NEW p \in Procs, Enqueue(p) PROVE Inv'
  <1> DEFINE e == worker[p].event
  <1>1. e \in Events /\ inbox[e] \in InboxRow /\ inbox \in [Events -> InboxRow]
    BY DEF Inv, InboxTypeOK, Worker
  <1>2. worker' \in [Procs -> Worker] /\ worker'[p].pc = "claim"
        /\ \A q \in Procs : q # p => worker'[q] = worker[q]
    BY GotoTyped DEF Inv, InboxTypeOK, Enqueue, Goto, Worker
  <1>3. CASE inbox[e].status = "ABSENT"
    <2>1. NewRow \in InboxRow
      BY InboxAssumption DEF NewRow, InboxRow, InboxStatuses
    <2>2. inbox' = [inbox EXCEPT ![e] = NewRow]
      BY <1>1, <1>3 DEF Enqueue, Inserted
    <2>3. NewRow.version > inbox[e].version /\ NewRow.status = "PENDING" /\ RowSound(NewRow)
      BY <1>1, <1>3, InboxAssumption DEF Inv, RowSound, NewRow
    <2>4. processed'[e] = 0 /\ processed' = processed /\ processed \in [Events -> Nat]
      BY <1>1, <1>3 DEF Inv, InboxTypeOK, Enqueue
    <2>5. /\ backoff' \subseteq Events /\ crashes' \in 0 .. MaxCrashes
          /\ insights' \in [Subjects -> Insight]
          /\ \A f \in Events \ {e} : processed'[f] = processed[f]
      BY DEF Enqueue, Inv, InboxTypeOK
    <2> HIDE DEF e
    <2> QED
      BY <1>1, <1>2, <2>1, <2>2, <2>3, <2>4, <2>5, RowWritten
  <1>4. CASE inbox[e].status # "ABSENT"
    <2>1. inbox' = inbox
      BY <1>1, <1>4 DEF Enqueue, Inserted
    <2> QED
      BY <1>2, <2>1, RowsKept DEF Enqueue, Inv, InboxTypeOK
  <1> QED
    BY <1>3, <1>4

LEMMA ClaimPreserves == ASSUME Inv, NEW p \in Procs, Claim(p) PROVE Inv'
  <1> DEFINE e == worker[p].event
             claimed == [status |-> "PROCESSING", attempts |-> inbox[e].attempts + 1,
                         version |-> inbox[e].version + 1]
  <1>1. e \in Events /\ inbox[e] \in InboxRow /\ inbox \in [Events -> InboxRow]
        /\ worker[p] \in Worker
    BY DEF Inv, InboxTypeOK, Worker
  <1>2. inbox[e].attempts < MaxAttempts /\ inbox[e].status \in {"PENDING", "FAILED"}
    BY DEF Claim, Due, Queued
  <1>3. claimed \in InboxRow
    <2>1. inbox[e].attempts + 1 \in 0 .. MaxAttempts /\ inbox[e].version + 1 \in Nat
      BY <1>1, <1>2, InboxAssumption DEF InboxRow
    <2> QED
      BY <2>1 DEF InboxRow, InboxStatuses
  <1>4. claimed.version > inbox[e].version /\ claimed.status = "PROCESSING" /\ RowSound(claimed)
    BY <1>1 DEF RowSound, InboxRow
  <1>5. inbox' = [inbox EXCEPT ![e] = claimed]
    BY DEF Claim
  <1>6. [worker[p] EXCEPT !.pc = "work", !.row = claimed] \in Worker
    BY <1>1, <1>3 DEF Worker
  <1>7. /\ worker' \in [Procs -> Worker]
        /\ worker'[p].row = claimed /\ worker'[p].event = e
        /\ \A q \in Procs : q # p => worker'[q] = worker[q]
    BY <1>1, <1>6 DEF Claim, Inv, InboxTypeOK, Worker
  <1>8. processed'[e] = IF claimed.status = "PROCESSED" THEN 1 ELSE 0
    BY <1>1, <1>2 DEF Inv, Claim
  <1>9. insights' \in [Subjects -> Insight] /\ processed' \in [Events -> Nat]
        /\ \A f \in Events \ {e} : processed'[f] = processed[f]
    BY <1>8 DEF Claim, Inv, InboxTypeOK
  <1>10. backoff' \subseteq Events /\ crashes' \in 0 .. MaxCrashes
    BY <1>1 DEF Claim, Inv, InboxTypeOK
  <1> HIDE DEF e, claimed
  <1> QED
    BY <1>1, <1>3, <1>4, <1>5, <1>7, <1>8, <1>9, <1>10, RowWritten

\* A row that a request holds has the attempts the request saw.
LEMMA HeldRow ==
  ASSUME Inv, NEW p \in Procs, worker[p].pc \in {"work", "fail"}, Holds(p)
  PROVE  /\ worker[p].event \in Events
         /\ inbox[worker[p].event] \in InboxRow
         /\ worker[p].row.attempts = inbox[worker[p].event].attempts
         /\ worker[p].row.version = inbox[worker[p].event].version
         /\ inbox[worker[p].event].status = "PROCESSING"
         /\ processed[worker[p].event] = 0
  BY DEF Inv, InboxTypeOK, Worker, Holds, Claimed

LEMMA CompletePreserves == ASSUME Inv, NEW p \in Procs, Complete(p) PROVE Inv'
  <1> DEFINE e == worker[p].event
             done == [inbox[e] EXCEPT !.status = "PROCESSED",
                                      !.version = worker[p].row.version + 1]
  <1>1. e \in Events /\ inbox[e] \in InboxRow /\ inbox[e].version = worker[p].row.version
        /\ processed[e] = 0
    BY HeldRow DEF Complete
  <1>2. done \in InboxRow
    <2>1. inbox[e].version + 1 \in Nat
      BY <1>1 DEF InboxRow
    <2> QED
      BY <1>1, <2>1 DEF InboxRow, InboxStatuses
  <1>3. done.version > inbox[e].version /\ done.status = "PROCESSED" /\ RowSound(done)
    BY <1>1 DEF RowSound, InboxRow
  <1>4. inbox' = [inbox EXCEPT ![e] = done]
    BY DEF Complete
  <1>5. /\ worker' \in [Procs -> Worker]
        /\ \A q \in Procs : q # p => worker'[q] = worker[q]
    BY GotoTyped DEF Complete, Inv
  <1>8. \/ worker'[p].pc = "idle"
        \/ /\ worker[p].pc = "work"
           /\ worker'[p] = [worker[p] EXCEPT !.pc = "fail"]
    <2>1. CASE Leave(p)
      BY <2>1, GotoTyped DEF Inv
    <2>2. CASE Goto(p, "fail")
      BY <2>2 DEF Complete, Goto, Inv, InboxTypeOK
    <2> QED
      BY <2>1, <2>2 DEF Complete
  <1>6. processed' = [processed EXCEPT ![e] = 1] /\ processed \in [Events -> Nat]
    BY <1>1 DEF Complete, Inv, InboxTypeOK
  <1>7. insights' \in [Subjects -> Insight]
    <2>1. Subject[e] \in Subjects /\ StateVersion[e] \in Versions
      BY <1>1, InboxAssumption
    <2>2. insights[Subject[e]].made + 1 \in Nat
      BY <2>1 DEF Inv, InboxTypeOK, Insight
    <2> QED
      BY <2>1, <2>2 DEF Complete, Inv, InboxTypeOK, Insight
  <1>9. processed' \in [Events -> Nat] /\ processed'[e] = 1
        /\ \A f \in Events \ {e} : processed'[f] = processed[f]
    BY <1>1, <1>6 DEF Complete, Inv, InboxTypeOK
  <1>10. backoff' \subseteq Events /\ crashes' \in 0 .. MaxCrashes
    BY <1>1 DEF Complete, Inv, InboxTypeOK
  <1> HIDE DEF e, done
  <1> QED
    BY <1>1, <1>2, <1>3, <1>4, <1>5, <1>6, <1>7, <1>8, <1>9, <1>10, RowWritten

LEMMA FailPreserves == ASSUME Inv, NEW p \in Procs, Fail(p) PROVE Inv'
  <1> DEFINE e == worker[p].event
             failed == [inbox[e] EXCEPT
                          !.status = IF LastAttempt(worker[p].row) THEN "DEAD_LETTER" ELSE "FAILED",
                          !.version = worker[p].row.version + 1]
  <1>1. e \in Events /\ inbox[e] \in InboxRow /\ inbox[e].version = worker[p].row.version
        /\ inbox[e].attempts = worker[p].row.attempts /\ processed[e] = 0
    BY HeldRow DEF Fail
  <1>2. failed \in InboxRow
    <2>1. inbox[e].version + 1 \in Nat
      BY <1>1 DEF InboxRow
    <2> QED
      BY <1>1, <2>1 DEF InboxRow, InboxStatuses
  <1>3. failed.version > inbox[e].version /\ failed.status \in {"DEAD_LETTER", "FAILED"}
    BY <1>1 DEF InboxRow
  <1>4. RowSound(failed)
    BY <1>1, InboxAssumption DEF RowSound, InboxRow, LastAttempt
  <1>5. inbox' = [inbox EXCEPT ![e] = failed]
    BY DEF Fail
  <1>6. /\ worker' \in [Procs -> Worker] /\ worker'[p].pc = "idle"
        /\ \A q \in Procs : q # p => worker'[q] = worker[q]
    BY GotoTyped DEF Fail, Inv
  <1>7. processed' = processed /\ processed \in [Events -> Nat] /\ processed'[e] = 0
    BY <1>1 DEF Fail, Inv, InboxTypeOK
  <1>9. insights' \in [Subjects -> Insight] /\ processed' \in [Events -> Nat]
        /\ \A f \in Events \ {e} : processed'[f] = processed[f]
    BY <1>7 DEF Fail, Inv, InboxTypeOK
  <1>10. backoff' \subseteq Events /\ crashes' \in 0 .. MaxCrashes
    BY <1>1 DEF Fail, Inv, InboxTypeOK
  <1> HIDE DEF e, failed
  <1> QED
    BY <1>1, <1>2, <1>3, <1>4, <1>5, <1>6, <1>7, <1>9, <1>10, RowWritten

LEMMA NextInv == ASSUME Inv, [InboxNext]_inboxVars PROVE Inv'
  <1>1. ASSUME NEW p \in Procs, InboxStep(p) PROVE Inv'
    <2>1. CASE Enqueue(p)
      BY <2>1, EnqueuePreserves
    <2>2. CASE Claim(p)
      BY <2>2, ClaimPreserves
    <2>3. CASE ClaimNothing(p)
      BY <2>3, GotoTyped, RowsKept DEF ClaimNothing, Goto, Inv, InboxTypeOK, Worker
    <2>4. CASE Requeued(p)
      BY <2>4, GotoTyped, RowsKept DEF Requeued, Goto, Inv, InboxTypeOK, Worker
    <2>5. CASE FindInsight(p)
      BY <2>5, GotoTyped, RowsKept DEF FindInsight, Inv, InboxTypeOK
    <2>6. CASE Complete(p)
      BY <2>6, CompletePreserves
    <2>7. CASE WorkFails(p)
      <3>1. worker'[p] = [worker[p] EXCEPT !.pc = "fail"]
        BY <2>7 DEF WorkFails, Goto, Inv, InboxTypeOK
      <3>2. /\ worker' \in [Procs -> Worker]
            /\ \A q \in Procs : q # p => worker'[q] = worker[q]
        BY <2>7, GotoTyped DEF WorkFails, Inv
      <3>3. worker[p].pc = "work"
        BY <2>7 DEF WorkFails
      <3> QED
        BY <2>7, <3>1, <3>2, <3>3, RowsKept DEF WorkFails, Inv, InboxTypeOK
    <2>8. CASE Fail(p)
      BY <2>8, FailPreserves
    <2>9. CASE FailLost(p)
      BY <2>9, GotoTyped, RowsKept DEF FailLost, Inv, InboxTypeOK
    <2> QED
      BY <1>1, <2>1, <2>2, <2>3, <2>4, <2>5, <2>6, <2>7, <2>8, <2>9 DEF InboxStep
  <1>2. ASSUME NEW p \in Procs, Crash(p) PROVE Inv'
    <2>1. crashes' \in 0 .. MaxCrashes
      BY <1>2, InboxAssumption DEF Crash, Inv, InboxTypeOK
    <2> QED
      BY <1>2, <2>1, GotoTyped, RowsKept DEF Crash, Inv, InboxTypeOK
  <1>3. ASSUME NEW p \in Procs, NEW e \in Events, Deliver(p, e) \/ Poll(p, e) PROVE Inv'
    <2>1. worker[p] \in Worker
      BY DEF Inv, InboxTypeOK
    <2>2. /\ [worker[p] EXCEPT !.pc = "enqueue", !.event = e] \in Worker
          /\ [worker[p] EXCEPT !.pc = "claim", !.event = e] \in Worker
      BY <2>1 DEF Worker
    <2>3. /\ worker' \in [Procs -> Worker] /\ worker'[p].pc \notin {"work", "fail"}
          /\ \A q \in Procs : q # p => worker'[q] = worker[q]
      <3>1. CASE Deliver(p, e)
        BY <3>1, <2>1, <2>2 DEF Inv, InboxTypeOK, Deliver, Worker
      <3>2. CASE Poll(p, e)
        BY <3>2, <2>1, <2>2 DEF Inv, InboxTypeOK, Poll, Worker
      <3> QED
        BY <1>3, <3>1, <3>2
    <2> QED
      BY <1>3, <2>3, RowsKept DEF Inv, InboxTypeOK, Deliver, Poll
  <1>4. ASSUME NEW e \in Events, BackoffEnds(e) PROVE Inv'
    BY <1>4, RowsKept DEF BackoffEnds, Inv, InboxTypeOK
  <1>5. CASE UNCHANGED inboxVars
    BY <1>5, RowsKept DEF inboxVars, Inv, InboxTypeOK
  <1> QED
    BY <1>1, <1>2, <1>3, <1>4, <1>5 DEF InboxNext

-----------------------------------------------------------------------------
(* The insight of a subject has been written once per processed event *)

Counted == \A s \in Subjects : insights[s].made = Cardinality(Made(s))

LEMMA InitCounted == ASSUME InboxInit PROVE Counted
  <1> SUFFICES ASSUME NEW s \in Subjects PROVE insights[s].made = Cardinality(Made(s))
    BY DEF Counted
  <1>1. Made(s) = {}
    BY DEF InboxInit, Made, NoRow
  <1> QED
    BY <1>1, FS_EmptySet DEF InboxInit, NoInsight

LEMMA NextCounted == ASSUME Inv, Counted, [InboxNext]_inboxVars PROVE Counted'
  <1>1. ASSUME UNCHANGED insights,
               \A e \in Events : inbox'[e].status = "PROCESSED" <=> inbox[e].status = "PROCESSED"
        PROVE  Counted'
    <2>1. \A s \in Subjects : Made(s)' = Made(s)
      BY <1>1 DEF Made
    <2> QED
      BY <1>1, <2>1 DEF Counted
  <1>2. ASSUME UNCHANGED <<insights, inbox>> PROVE Counted'
    BY <1>1, <1>2
  <1>3. ASSUME NEW p \in Procs, InboxStep(p) PROVE Counted'
    <2>0. worker[p].event \in Events /\ inbox \in [Events -> InboxRow]
      BY DEF Inv, InboxTypeOK, Worker
    <2>1. CASE Enqueue(p)
      BY <1>1, <2>0, <2>1 DEF Enqueue, Inserted, NewRow
    <2>2. CASE Claim(p)
      BY <1>1, <2>0, <2>2 DEF Claim, Due, Queued
    <2>3. CASE Complete(p)
      <3> DEFINE e == worker[p].event
      <3>1. inbox[e].status = "PROCESSING" /\ inbox[e] \in InboxRow
        BY <2>0, <2>3 DEF Complete, Holds
      <3>2. /\ inbox'[e].status = "PROCESSED"
            /\ \A f \in Events : f # e => inbox'[f] = inbox[f]
        BY <2>0, <2>3, <3>1 DEF Complete, InboxRow
      <3> SUFFICES ASSUME NEW s \in Subjects
                   PROVE  insights'[s].made = Cardinality(Made(s)')
        BY DEF Counted
      <3>3. IsFiniteSet(Made(s))
        BY InboxAssumption, FS_Subset, Made(s) \subseteq Events DEF Made
      <3>4. CASE s = Subject[e]
        <4>1. Made(s)' = Made(s) \cup {e} /\ e \notin Made(s)
          BY <2>0, <3>1, <3>2, <3>4 DEF Made
        <4>2. Cardinality(Made(s)') = Cardinality(Made(s)) + 1
          BY <3>3, <4>1, FS_AddElement
        <4>3. insights'[s].made = insights[s].made + 1
          BY <2>3, <3>4 DEF Complete, Inv, InboxTypeOK, Insight
        <4> QED
          BY <4>2, <4>3 DEF Counted
      <3>5. CASE s # Subject[e]
        <4>1. Made(s)' = Made(s)
          BY <2>0, <3>2, <3>5 DEF Made
        <4>2. insights'[s] = insights[s]
          BY <2>3, <3>5 DEF Complete, Inv, InboxTypeOK
        <4> QED
          BY <4>1, <4>2 DEF Counted
      <3> QED
        BY <3>4, <3>5
    <2>4. CASE Fail(p)
      BY <1>1, <2>0, <2>4 DEF Fail, Holds, InboxRow
    <2>5. CASE ClaimNothing(p) \/ Requeued(p) \/ FindInsight(p) \/ WorkFails(p) \/ FailLost(p)
      BY <1>2, <2>5 DEF ClaimNothing, Requeued, FindInsight, WorkFails, FailLost
    <2> QED
      BY <1>3, <2>1, <2>2, <2>3, <2>4, <2>5 DEF InboxStep
  <1> QED
    BY <1>2, <1>3 DEF InboxNext, Crash, Deliver, Poll, BackoffEnds, inboxVars

-----------------------------------------------------------------------------
(* Theorems *)

LEMMA AlwaysInv == InboxSpec => [](Inv /\ Counted)
  <1>1. InboxInit => Inv /\ Counted
    BY InitInv, InitCounted
  <1>2. Inv /\ Counted /\ [InboxNext]_inboxVars => (Inv /\ Counted)'
    BY NextInv, NextCounted
  <1> QED
    BY <1>1, <1>2, PTL DEF InboxSpec

\* Every reachable inbox, insight and request is well typed; in particular no
\* row is claimed more often than max_attempts allows (the check constraint
\* agent_inbox_attempts_check never fails).
THEOREM InboxTypeCorrect == InboxSpec => []InboxTypeOK
  BY AlwaysInv, PTL DEF Inv

\* An event takes effect once, with one audit event, if it is processed, and
\* never otherwise (completeWithInsight).
THEOREM EventsExactlyOnce == InboxSpec => []ExactlyOnce
  <1>1. Inv /\ Counted => ExactlyOnce
    BY DEF Inv, Counted, ExactlyOnce
  <1> QED
    BY <1>1, AlwaysInv, PTL

\* No event is left that is neither settled nor claimed and can never be
\* claimed again, and none is given up early (fail).
THEOREM RetriesAreComplete == InboxSpec => []RetriesComplete
  <1>1. Inv /\ Counted => RetriesComplete
    BY DEF Inv, RetriesComplete, RowSound
  <1> QED
    BY <1>1, AlwaysInv, PTL

-----------------------------------------------------------------------------
(* What a run analyses (RunInput).  A report names its input because nothing   *)
(* the run holds goes back: what it read first is never ahead of what it reads *)
(* later, whatever is published in between.                                    *)

LoadFields == {"pc", "event", "files", "positions", "read", "versions", "sapSeen", "stock",
               "warned", "told", "toldStock"}

\* A stale snapshot has the date an administrator gave it.
Dated(state) ==
  /\ DOMAIN state = {"state", "date"} /\ state.state \in SapState /\ state.date \in Dates
  /\ state.state = "STALE" => state.date # "live"

FieldsSound ==
  /\ DOMAIN load = LoadFields
  /\ published \in [Chosen -> Nat \ {0}]
  /\ load.positions \in [Chosen -> Nat] /\ load.versions \in [Chosen -> Nat]
  /\ load.warned \in BOOLEAN /\ inputAudit \in BOOLEAN
  /\ Dated(sap) /\ Dated(load.sapSeen)

\* The versions are read after the positions, one after the other.
VersionsInOrder ==
  \A s \in Chosen :
    /\ load.positions[s] <= published[s]
    /\ load.versions[s] # 0 => load.positions[s] <= load.versions[s]
    /\ load.pc \in {"start", "positions"} => load.versions[s] = 0

LoadedPcs == {"sap", "stock", "staleAudit", "report", "done"}
InputLoaded ==
  /\ load.pc = "start" => load.positions = NoVersions
  /\ load.pc \in {"positions", "versions"} => "APPIUS" \notin load.files
  /\ load.pc \in LoadedPcs =>
       IF "APPIUS" \in load.files THEN load.positions = NoVersions
       ELSE load.positions # NoVersions /\ \A s \in Chosen : load.versions[s] # 0

StockDated ==
  /\ load.pc \in {"start", "positions", "versions", "sap", "stock"} =>
       ~load.warned /\ ~inputAudit
  /\ load.pc \in {"stock", "staleAudit"} => "SAP" \notin load.files
  /\ load.pc = "staleAudit" => load.warned /\ ~inputAudit /\ load.stock \in {"old", "older"}
  /\ load.pc \in {"report", "done"} =>
       /\ load.stock \notin {"live", "file"} <=> load.warned
       /\ load.warned <=> inputAudit
       /\ load.stock = "file" <=> "SAP" \in load.files
  /\ load.pc = "done" => load.told = load.positions /\ load.toldStock = load.stock

InputInv == FieldsSound /\ VersionsInOrder /\ InputLoaded /\ StockDated

LEMMA InputImplies == InputInv => ReportNamesItsInput
<1> SUFFICES ASSUME InputInv, load.pc = "done" PROVE ReportNamesItsInput
  BY DEF ReportNamesItsInput, At
<1>1. load.told = load.positions /\ load.toldStock = load.stock
  BY DEF InputInv, StockDated
<1>2. "APPIUS" \notin load.files => load.told # NoVersions
  BY <1>1 DEF InputInv, InputLoaded, LoadedPcs
<1>3. ASSUME NEW s \in Chosen, load.told[s] # 0 PROVE load.told[s] <= load.versions[s]
  <2>1. "APPIUS" \notin load.files
    BY <1>1, <1>3 DEF InputInv, InputLoaded, LoadedPcs, NoVersions
  <2> QED
    BY <1>1, <2>1 DEF InputInv, InputLoaded, LoadedPcs, VersionsInOrder
<1> QED
  BY <1>1, <1>2, <1>3 DEF ReportNamesItsInput, InputInv, StockDated

LEMMA InputBegins == InputInit => InputInv
<1> SUFFICES ASSUME InputInit PROVE InputInv
  OBVIOUS
<1>1. PICK event \in BOOLEAN, files \in SUBSET {"APPIUS", "SAP"} :
        load = [pc |-> "start", event |-> event, files |-> files,
                positions |-> NoVersions, read |-> {}, versions |-> NoVersions,
                sapSeen |-> SapLive, stock |-> "none", warned |-> FALSE,
                told |-> NoVersions, toldStock |-> "none"]
  BY DEF InputInit
<1>2. Dated(SapLive) /\ sap = SapLive
  BY DEF Dated, SapLive, SapState, Dates, InputInit
<1>3. FieldsSound
  <2>1. DOMAIN load = LoadFields
    BY <1>1 DEF LoadFields
  <2>2. /\ load.positions = NoVersions /\ load.versions = NoVersions
        /\ load.warned = FALSE /\ load.sapSeen = SapLive
    BY <1>1
  <2>3. published \in [Chosen -> Nat \ {0}] /\ NoVersions \in [Chosen -> Nat]
    <3>1. published = [s \in Chosen |-> 1]
      BY DEF InputInit
    <3>2. \A n \in {0, 1} : [s \in Chosen |-> n] \in [Chosen -> Nat]
      OBVIOUS
    <3> QED
      BY <3>1, <3>2 DEF NoVersions
  <2> QED
    <3>1. sap = SapLive /\ inputAudit = FALSE
      BY DEF InputInit
    <3> QED
      BY <1>2, <2>1, <2>2, <2>3, <3>1 DEF FieldsSound
<1>4. VersionsInOrder
  BY <1>1 DEF VersionsInOrder, InputInit, NoVersions
<1>5. InputLoaded /\ StockDated
  BY <1>1 DEF InputLoaded, StockDated, LoadedPcs, InputInit
<1> QED
  BY <1>3, <1>4, <1>5 DEF InputInv

\* What others do leaves the run alone, and only takes the versions on.
LEMMA OthersKeepInput ==
  ASSUME InputInv, UNCHANGED <<load, inputAudit>>, Dated(sap)',
         published' \in [Chosen -> Nat \ {0}],
         \A s \in Chosen : published[s] <= published'[s]
  PROVE  InputInv'
<1>1. FieldsSound'
  BY DEF InputInv, FieldsSound
<1>2. VersionsInOrder'
  <2> SUFFICES ASSUME NEW s \in Chosen PROVE load.positions[s] <= published'[s]
    BY DEF InputInv, VersionsInOrder
  <2>1. load.positions[s] \in Nat /\ published[s] \in Nat /\ published'[s] \in Nat
    BY DEF InputInv, FieldsSound
  <2> QED
    BY <2>1 DEF InputInv, VersionsInOrder
<1> QED
  BY <1>1, <1>2 DEF InputInv, InputLoaded, StockDated

LEMMA PublishKeepsInput ==
  ASSUME InputInv, NEW s \in Chosen, published' = [published EXCEPT ![s] = @ + 1]
  PROVE  /\ published' \in [Chosen -> Nat \ {0}]
         /\ \A t \in Chosen : published[t] <= published'[t]
  BY DEF InputInv, FieldsSound

LEMMA WorldKeepsInput ==
  ASSUME InputInv, (\E s \in Chosen : Publish(s)) \/ SetState
  PROVE  InputInv'
<1>1. ASSUME NEW s \in Chosen, Publish(s) PROVE InputInv'
  BY <1>1, PublishKeepsInput, OthersKeepInput DEF Publish, InputInv, FieldsSound
<1>2. CASE SetState
  <2>1. Dated(sap)'
    BY <1>2 DEF SetState, InputInv, FieldsSound, Dated, SapState, Dates
  <2>2. \A s \in Chosen : published[s] <= published[s]
    BY DEF InputInv, FieldsSound
  <2> QED
    BY <1>2, <2>1, <2>2, OthersKeepInput DEF SetState, InputInv, FieldsSound
<1> QED
  BY <1>1, <1>2

\* LOADING_APPIUS
LEMMA AppiusKeepsInput ==
  ASSUME InputInv,
         TakeAppiusFile \/ ReadAppiusState
  PROVE  InputInv'
<1>1. CASE TakeAppiusFile
  <2>1. /\ DOMAIN load' = LoadFields /\ load'.pc = "sap" /\ load.pc = "start"
        /\ \A f \in LoadFields \ {"pc", "read"} : load'[f] = load[f]
        /\ "APPIUS" \in load.files /\ WorldStays /\ UNCHANGED inputAudit
    BY <1>1 DEF TakeAppiusFile, At, InputInv, FieldsSound, LoadFields
  <2>2. /\ load'.positions = load.positions /\ load'.versions = load.versions
        /\ load'.warned = load.warned /\ load'.sapSeen = load.sapSeen
        /\ load'.files = load.files /\ load'.stock = load.stock
    BY <2>1 DEF LoadFields
  <2> QED
    BY <2>1, <2>2 DEF InputInv, FieldsSound, VersionsInOrder, InputLoaded, StockDated,
                      LoadedPcs, WorldStays
<1>2. CASE ReadAppiusState
  <2>1. PICK pc \in {"positions", "failed"} :
          load.pc = "start" /\ "APPIUS" \notin load.files /\ load' = [load EXCEPT !.pc = pc]
    BY <1>2 DEF ReadAppiusState, At
  <2>2. /\ DOMAIN load' = LoadFields /\ load'.pc = pc
        /\ \A f \in LoadFields \ {"pc"} : load'[f] = load[f]
    BY <2>1 DEF InputInv, FieldsSound, LoadFields
  <2>3. /\ load'.positions = load.positions /\ load'.versions = load.versions
        /\ load'.warned = load.warned /\ load'.sapSeen = load.sapSeen
        /\ load'.files = load.files /\ load'.stock = load.stock
    BY <2>2 DEF LoadFields
  <2>4. /\ published' \in [Chosen -> Nat \ {0}]
        /\ \A t \in Chosen : published[t] <= published'[t]
        /\ UNCHANGED <<sap, inputAudit>>
    <3>1. UNCHANGED <<sap, inputAudit>>
      BY <1>2 DEF ReadAppiusState
    <3>2. CASE UNCHANGED published
      BY <3>1, <3>2 DEF InputInv, FieldsSound
    <3>3. CASE ~UNCHANGED published
      <4>1. PICK s \in Chosen : published' = [published EXCEPT ![s] = @ + 1]
        BY <1>2, <3>3 DEF ReadAppiusState
      <4> QED
        BY <3>1, <4>1, PublishKeepsInput
    <3> QED
      BY <3>2, <3>3
  <2>5. FieldsSound'
    BY <2>2, <2>3, <2>4 DEF InputInv, FieldsSound
  <2>6. VersionsInOrder'
    <3> SUFFICES ASSUME NEW s \in Chosen
                 PROVE  /\ load.positions[s] <= published'[s]
                        /\ load.versions[s] = 0
      BY <2>3 DEF VersionsInOrder
    <3>1. load.positions[s] = 0 /\ published'[s] \in Nat
      BY <2>1, <2>4 DEF InputInv, InputLoaded, NoVersions
    <3> QED
      BY <2>1, <3>1 DEF InputInv, VersionsInOrder
  <2>7. InputLoaded' /\ StockDated'
    BY <2>1, <2>2, <2>3, <2>4 DEF InputInv, InputLoaded, StockDated, LoadedPcs
  <2> QED
    BY <2>5, <2>6, <2>7 DEF InputInv
<1> QED
  BY <1>1, <1>2

LEMMA PositionsKeepInput ==
  ASSUME InputInv, NEW s \in Chosen, ReadPositions(s)
  PROVE  InputInv'
<1>1. /\ load.pc = "positions" /\ WorldStays /\ UNCHANGED inputAudit
      /\ DOMAIN load = LoadFields
  BY DEF ReadPositions, At, InputInv, FieldsSound
<1> DEFINE found == IF s \in filled THEN published[s] ELSE 0
           pc == IF load.read \cup {s} = Chosen THEN "versions" ELSE load.pc
<1>2. /\ DOMAIN load' = LoadFields /\ load'.pc = pc
      /\ load'.positions = [load.positions EXCEPT ![s] = found]
      /\ load'.versions = load.versions /\ load'.warned = load.warned
      /\ load'.sapSeen = load.sapSeen /\ load'.files = load.files /\ load'.stock = load.stock
  BY <1>1 DEF ReadPositions, LoadFields
<1>3. /\ found \in Nat /\ found <= published[s]
      /\ pc \in {"positions", "versions"}
  BY <1>1 DEF InputInv, FieldsSound
<1> HIDE DEF found, pc
<1>4. FieldsSound'
  BY <1>1, <1>2, <1>3 DEF InputInv, FieldsSound, WorldStays
<1>5. VersionsInOrder'
  BY <1>1, <1>2, <1>3 DEF InputInv, FieldsSound, VersionsInOrder, WorldStays
<1>6. InputLoaded' /\ StockDated'
  BY <1>1, <1>2, <1>3 DEF InputInv, InputLoaded, StockDated, LoadedPcs
<1> QED
  BY <1>4, <1>5, <1>6 DEF InputInv

LEMMA VersionsKeepInput ==
  ASSUME InputInv, NEW s \in Chosen, ReadVersions(s)
  PROVE  InputInv'
<1>1. PICK pc \in {"versions", "failed", "sap"} :
        /\ load' = [load EXCEPT !.versions[s] = published[s], !.pc = pc]
        /\ load.pc = "versions" /\ WorldStays /\ UNCHANGED inputAudit
        /\ pc = "sap" => /\ load.positions # NoVersions
                         /\ \A t \in Chosen : [load EXCEPT !.versions[s] = published[s]].versions[t] # 0
  BY DEF ReadVersions, At, InputInv, FieldsSound, LoadFields
<1>2. /\ DOMAIN load' = LoadFields /\ load'.pc = pc
      /\ load'.versions = [load.versions EXCEPT ![s] = published[s]]
      /\ load'.positions = load.positions /\ load'.warned = load.warned
      /\ load'.sapSeen = load.sapSeen /\ load'.files = load.files /\ load'.stock = load.stock
  BY <1>1 DEF InputInv, FieldsSound, LoadFields
<1>3. FieldsSound'
  BY <1>1, <1>2 DEF InputInv, FieldsSound, WorldStays
<1>4. VersionsInOrder'
  BY <1>1, <1>2 DEF InputInv, FieldsSound, VersionsInOrder, WorldStays
<1>5. ASSUME pc = "sap" PROVE \A t \in Chosen : load'.versions[t] # 0
  BY <1>1, <1>2, <1>5 DEF InputInv, FieldsSound, LoadFields
<1>6. InputLoaded' /\ StockDated'
  BY <1>1, <1>2, <1>5 DEF InputInv, InputLoaded, StockDated, LoadedPcs
<1> QED
  BY <1>3, <1>4, <1>6 DEF InputInv

\* What the run holds of Appius is no longer touched.
LEMMA AfterAppius ==
  ASSUME InputInv, DOMAIN load' = LoadFields, load.pc \in LoadedPcs,
         load'.pc \in LoadedPcs \cup {"failed"}, load'.pc # "start",
         load'.files = load.files, load'.positions = load.positions,
         load'.versions = load.versions, load'.warned \in BOOLEAN, inputAudit' \in BOOLEAN,
         Dated(load'.sapSeen), WorldStays, StockDated'
  PROVE  InputInv'
<1>1. FieldsSound'
  BY DEF InputInv, FieldsSound, WorldStays
<1>2. VersionsInOrder'
  BY DEF InputInv, VersionsInOrder, WorldStays, LoadedPcs
<1>3. InputLoaded'
  BY DEF InputInv, InputLoaded, LoadedPcs
<1> QED
  BY <1>1, <1>2, <1>3 DEF InputInv

\* SYNCING_SAP and GENERATING_REPORT
LEMMA SapKeepsInput ==
  ASSUME InputInv, TakeSapFile \/ ReadSapState
  PROVE  InputInv'
<1>1. CASE TakeSapFile
  <2>1. /\ DOMAIN load' = LoadFields /\ load'.pc = "report" /\ load'.stock = "file"
        /\ load'.files = load.files /\ load'.positions = load.positions
        /\ load'.versions = load.versions /\ load'.warned = load.warned
        /\ load'.sapSeen = load.sapSeen
        /\ load.pc = "sap" /\ "SAP" \in load.files /\ WorldStays /\ inputAudit' = inputAudit
    BY <1>1 DEF TakeSapFile, At, InputInv, FieldsSound, LoadFields
  <2>2. StockDated'
    BY <2>1 DEF InputInv, StockDated
  <2> QED
    BY <2>1, <2>2, AfterAppius DEF InputInv, FieldsSound, LoadedPcs
<1>2. CASE ReadSapState
  <2>1. /\ DOMAIN load' = LoadFields /\ load'.pc \in {"stock", "failed"}
        /\ load'.files = load.files /\ load'.positions = load.positions
        /\ load'.versions = load.versions /\ load'.warned = load.warned
        /\ load'.sapSeen = sap
        /\ load.pc = "sap" /\ "SAP" \notin load.files /\ WorldStays /\ inputAudit' = inputAudit
    BY <1>2 DEF ReadSapState, At, InputInv, FieldsSound, LoadFields
  <2>2. StockDated'
    BY <2>1 DEF InputInv, StockDated
  <2> QED
    BY <2>1, <2>2, AfterAppius DEF InputInv, FieldsSound, LoadedPcs
<1> QED
  BY <1>1, <1>2

LEMMA StockKeepsInput ==
  ASSUME InputInv, ReadStock \/ AuditStale \/ Report
  PROVE  InputInv'
<1>1. CASE ReadStock
  <2>1. /\ DOMAIN load' = LoadFields
        /\ load'.pc = (IF load.sapSeen.state = "STALE" THEN "staleAudit" ELSE "report")
        /\ load'.stock = SnapshotDate(load.sapSeen)
        /\ load'.warned = (load.sapSeen.state = "STALE")
        /\ load'.files = load.files /\ load'.positions = load.positions
        /\ load'.versions = load.versions /\ load'.sapSeen = load.sapSeen
        /\ load.pc = "stock" /\ WorldStays /\ inputAudit' = inputAudit
    BY <1>1 DEF ReadStock, At, InputInv, FieldsSound, LoadFields
  <2>2. load.sapSeen.state = "STALE" => load.sapSeen.date \in {"old", "older"}
    BY DEF InputInv, FieldsSound, Dated, Dates
  <2>3. StockDated'
    BY <2>1, <2>2 DEF InputInv, StockDated, SnapshotDate
  <2> QED
    BY <2>1, <2>3, AfterAppius DEF InputInv, FieldsSound, LoadedPcs
<1>2. CASE AuditStale
  <2>1. /\ DOMAIN load' = LoadFields /\ load'.pc = "report" /\ load'.stock = load.stock
        /\ load'.files = load.files /\ load'.positions = load.positions
        /\ load'.versions = load.versions /\ load'.warned = load.warned
        /\ load'.sapSeen = load.sapSeen
        /\ load.pc = "staleAudit" /\ WorldStays /\ inputAudit' = TRUE
    BY <1>2 DEF AuditStale, At, InputInv, FieldsSound, LoadFields
  <2>2. StockDated'
    BY <2>1 DEF InputInv, StockDated
  <2> QED
    BY <2>1, <2>2, AfterAppius DEF InputInv, FieldsSound, LoadedPcs
<1>3. CASE Report
  <2>1. /\ DOMAIN load' = LoadFields /\ load'.pc = "done" /\ load'.stock = load.stock
        /\ load'.files = load.files /\ load'.positions = load.positions
        /\ load'.versions = load.versions /\ load'.warned = load.warned
        /\ load'.sapSeen = load.sapSeen
        /\ load'.told = load.positions /\ load'.toldStock = load.stock
        /\ load.pc = "report" /\ WorldStays /\ inputAudit' = inputAudit
    BY <1>3 DEF Report, ToldVersions, At, InputInv, FieldsSound, LoadFields
  <2>2. StockDated'
    BY <2>1 DEF InputInv, StockDated
  <2> QED
    BY <2>1, <2>2, AfterAppius DEF InputInv, FieldsSound, LoadedPcs
<1> QED
  BY <1>1, <1>2, <1>3

LEMMA InputStep ==
  ASSUME InputInv, [InputNext]_inputVars
  PROVE  InputInv'
<1>1. CASE UNCHANGED inputVars
  BY <1>1 DEF inputVars, InputInv, FieldsSound, VersionsInOrder, InputLoaded, StockDated, Dated
<1> QED
  BY <1>1, WorldKeepsInput, AppiusKeepsInput, PositionsKeepInput, VersionsKeepInput,
     SapKeepsInput, StockKeepsInput
     DEF InputNext

\* For every number of specifications, publications and changes of the systems'
\* states, a report names the versions and the date of what it was made from
\* (executeStep of scenario-service.ts over the Appius and SAP adapters).
THEOREM ReportsNameTheirInput == InputSpec => []ReportNamesItsInput
<1> QED
  BY InputBegins, InputStep, InputImplies, PTL DEF InputSpec

-----------------------------------------------------------------------------
(* Who has to supply a position.                                               *)

Known == {r \in indexed : Applicable(r)}

\* What was retrieved are the rules that apply and have evidence.
RetrievedSound ==
  retrieved = <<>> \/ (/\ DOMAIN retrieved \subseteq Nat
                       /\ {retrieved[i] : i \in DOMAIN retrieved} = Known)

PartyInv ==
  /\ corpus \in [Rules -> Rule] /\ indexed \subseteq Rules
  /\ RetrievedSound
  /\ PartyAgreed

LEMMA GreatestOne ==
  ASSUME NEW T, T \subseteq Nat, T # {}, NEW b \in Nat, \A n \in T : n <= b
  PROVE  \E n \in T : \A m \in T : m <= n
<1> DEFINE U == {b - n : n \in T}
<1>1. U \subseteq Nat /\ U # {}
  <2>1. \A n \in T : b - n \in Nat
    OBVIOUS
  <2>2. PICK n \in T : TRUE
    OBVIOUS
  <2>3. b - n \in U
    BY <2>2
  <2> QED
    BY <2>1, <2>3
<1>2. PICK u \in U : \A v \in U : u <= v
  BY <1>1, LeastOne
<1>3. PICK n \in T : u = b - n
  BY <1>2
<1>4. ASSUME NEW m \in T PROVE m <= n
  <2>1. b - m \in U
    OBVIOUS
  <2>2. b - n <= b - m /\ m \in Nat /\ n \in Nat
    BY <1>2, <1>3, <2>1
  <2> QED
    BY <2>2
<1> QED
  BY <1>4

\* The specificity of a rule is a number, and bounded.
LEMMA SpecificityIs ==
  ASSUME corpus \in [Rules -> Rule]
  PROVE  \E b \in Nat : \A r \in Rules : Specificity(r) \in Nat /\ Specificity(r) <= b
<1>1. ASSUME NEW r \in Rules
      PROVE  /\ Specificity(r) \in Nat
             /\ Specificity(r) <= Cardinality(Attributes) + 1
  <2>1. corpus[r].wants \in SUBSET Attributes
    BY DEF Rule
  <2>2. /\ Cardinality(corpus[r].wants) \in Nat
        /\ Cardinality(corpus[r].wants) <= Cardinality(Attributes)
    BY <2>1, ResponsibilityAssumption, FS_Subset, FS_CardinalityType
  <2>3. Cardinality(Attributes) \in Nat
    BY ResponsibilityAssumption, FS_CardinalityType
  <2> QED
    BY <2>2, <2>3 DEF Specificity
<1>2. Cardinality(Attributes) + 1 \in Nat
  BY ResponsibilityAssumption, FS_CardinalityType
<1> QED
  BY <1>1, <1>2

\* Every rule that applies and has evidence is retrieved, and no other.
LEMMA AllRetrieved ==
  ASSUME NEW S, IsFiniteSet(S), NEW s \in SetToSeqs(S)
  PROVE  DOMAIN s \subseteq Nat /\ {s[i] : i \in DOMAIN s} = S
<1> DEFINE D == 1 .. Cardinality(S)
<1>1. Cardinality(S) \in Nat
  BY FS_CardinalityType
<1>2. s \in [D -> S] /\ \A i, j \in D : i # j => s[i] # s[j]
  BY DEF SetToSeqs
<1>3. s \in Injection(D, S)
  BY <1>2 DEF Injection, IsInjective
<1>4. IsFiniteSet(D) /\ Cardinality(D) = Cardinality(S)
  BY <1>1, FS_Interval
<1>5. s \in Surjection(D, S)
  BY <1>3, <1>4, FS_Injection
<1>6. \A x \in S : \E i \in D : s[i] = x
  BY <1>5 DEF Surjection
<1> QED
  BY <1>1, <1>2, <1>6

\* Of the rules that fit best, one is taken.
LEMMA OneSelected ==
  ASSUME corpus \in [Rules -> Rule], RetrievedSound, indexed \subseteq Rules,
         Fitting(retrieved) # {}
  PROVE  LET best == {r \in Known : \A q \in Known : Specificity(q) <= Specificity(r)}
         IN  /\ {retrieved[i] : i \in MostSpecific(retrieved)} = best
             /\ Selected(retrieved) \in best
<1> DEFINE best == {r \in Known : \A q \in Known : Specificity(q) <= Specificity(r)}
<1>1. retrieved # <<>>
  BY DEF Fitting
<1>2. DOMAIN retrieved \subseteq Nat /\ {retrieved[i] : i \in DOMAIN retrieved} = Known
  BY <1>1 DEF RetrievedSound
<1>3. Fitting(retrieved) = DOMAIN retrieved
  BY <1>2 DEF Fitting, Known
<1>4. {retrieved[i] : i \in MostSpecific(retrieved)} = best
  <2>1. \A i \in DOMAIN retrieved : retrieved[i] \in Known
    BY <1>2
  <2>2. \A r \in Known : \E i \in DOMAIN retrieved : r = retrieved[i]
    BY <1>2
  <2>3. \A i \in DOMAIN retrieved : i \in MostSpecific(retrieved) <=> retrieved[i] \in best
    BY <1>3, <2>1, <2>2 DEF MostSpecific
  <2>4. MostSpecific(retrieved) \subseteq DOMAIN retrieved
    BY <1>3 DEF MostSpecific
  <2> QED
    BY <2>2, <2>3, <2>4
<1>5. MostSpecific(retrieved) # {}
  <2>1. PICK b \in Nat : \A r \in Rules : Specificity(r) \in Nat /\ Specificity(r) <= b
    BY SpecificityIs
  <2>2. Known \subseteq Rules
    BY DEF Known
  <2> DEFINE T == {Specificity(r) : r \in Known}
  <2>3. Known # {}
    BY <1>2, <1>3
  <2>4. T \subseteq Nat /\ T # {} /\ \A n \in T : n <= b
    BY <2>1, <2>2, <2>3
  <2>5. PICK n \in T : \A m \in T : m <= n
    <3> HIDE DEF T
    <3> QED
      BY <2>4, GreatestOne
  <2>6. PICK r \in Known : Specificity(r) = n
    BY <2>5
  <2>7. r \in best
    BY <2>5, <2>6
  <2> QED
    BY <1>4, <2>7
<1>6. MostSpecific(retrieved) \subseteq Nat
  BY <1>2, <1>3 DEF MostSpecific
<1>7. \E i \in MostSpecific(retrieved) : \A j \in MostSpecific(retrieved) : i <= j
  BY <1>5, <1>6, LeastOne
<1>8. PICK i \in MostSpecific(retrieved) : Selected(retrieved) = retrieved[i]
  BY <1>7 DEF Selected
<1> QED
  BY <1>4, <1>8

\* The decision, as classifyResponsibility returns it.
LEMMA Decided ==
  ASSUME PartyInv, decision' \in {Decide(retrieved), Decide(<<>>)},
         UNCHANGED <<fulfils, corpus, indexed>>
  PROVE  PartyAgreed'
<1> DEFINE best == {r \in Known : \A q \in Known : Specificity(q) <= Specificity(r)}
<1>1. CASE decision'.cites = {}
  BY <1>1 DEF PartyAgreed
<1>2. CASE decision'.cites # {}
  <2>1. Fitting(<<>>) = {}
    BY DEF Fitting
  <2>2. Decide(<<>>).cites = {}
    BY <2>1 DEF Decide
  <2>3. decision' = Decide(retrieved)
    BY <1>2, <2>2
  <2>4. Fitting(retrieved) # {}
    BY <1>2, <2>3 DEF Decide
  <2>5. PICK rule \in best :
          /\ rule = Selected(retrieved)
          /\ {retrieved[i] : i \in MostSpecific(retrieved)} = best
    BY <2>4, OneSelected DEF PartyInv
  <2>6. rule \in Rules /\ corpus[rule] \in Rule
    BY <2>5 DEF Known, PartyInv
  <2>7. corpus[rule].party \in Parties /\ corpus[rule].party # "nobody"
        /\ corpus[rule].expert \in BOOLEAN
    BY <2>6 DEF Rule, Parties
  <2>8. best' = best /\ corpus' = corpus
    BY DEF Known, Applicable, Specificity
  <2>9. PICK agreed \in BOOLEAN :
          agreed <=> \A r, q \in best : corpus[r].party = corpus[q].party
    OBVIOUS
  <2> HIDE DEF best
  <2>10. CASE agreed
    <3>1. decision' = [state |-> IF corpus[rule].expert THEN "REVIEW_REQUIRED" ELSE "RESOLVED",
                       party |-> corpus[rule].party, cites |-> {rule},
                       review |-> corpus[rule].expert]
      BY <2>3, <2>4, <2>5, <2>9, <2>10 DEF Decide
    <3>2. /\ decision'.cites \subseteq best /\ decision'.party # "nobody"
          /\ decision'.cites = {rule} /\ decision'.party = corpus[rule].party
          /\ decision'.state = "RESOLVED" <=> ~corpus[rule].expert
          /\ decision'.review = corpus[rule].expert
      BY <2>5, <2>7, <3>1
    <3>3. ASSUME NEW stored \in BOOLEAN, NEW otherwise \in BOOLEAN,
                 CountedFor(stored, ResultReview(otherwise))' # "nobody"
          PROVE  /\ CountedFor(stored, ResultReview(otherwise))' = corpus[rule].party
                 /\ ~corpus[rule].expert
      BY <3>2, <3>3 DEF CountedFor, EffectiveState, ResultReview
    <3> QED
      BY <2>8, <2>9, <2>10, <3>2, <3>3 DEF PartyAgreed, best, Known
  <2>11. CASE ~agreed
    <3>1. decision' = [state |-> "REVIEW_REQUIRED", party |-> "nobody", cites |-> best,
                       review |-> TRUE]
      BY <2>3, <2>4, <2>5, <2>9, <2>11 DEF Decide
    <3>2. /\ decision'.cites = best /\ decision'.party = "nobody"
          /\ decision'.state = "REVIEW_REQUIRED" /\ decision'.review
      BY <3>1
    <3>3. ASSUME NEW stored \in BOOLEAN, NEW otherwise \in BOOLEAN
          PROVE  CountedFor(stored, ResultReview(otherwise))' = "nobody"
      BY <3>2 DEF CountedFor, EffectiveState, ResultReview
    <3> QED
      BY <2>8, <2>9, <2>11, <3>2, <3>3 DEF PartyAgreed, best, Known
  <2> QED
    BY <2>10, <2>11
<1> QED
  BY <1>1, <1>2

LEMMA PartyBegins == ResponsibilityInit => PartyInv
<1> SUFFICES ASSUME ResponsibilityInit PROVE PartyInv
  OBVIOUS
<1>1. decision.cites = {}
  BY DEF ResponsibilityInit, Undecided
<1> QED
  BY <1>1 DEF ResponsibilityInit, PartyInv, RetrievedSound, PartyAgreed

LEMMA PartyStep ==
  ASSUME PartyInv, [ResponsibilityNext]_responsibilityVars
  PROVE  PartyInv'
<1>1. CASE Search
  <2>1. UNCHANGED <<fulfils, corpus, indexed, decision>>
    BY <1>1 DEF Search
  <2>2. retrieved' \in SetToSeqs(Known)
    BY <1>1 DEF Search, Known
  <2>3. IsFiniteSet(Known)
    <3>1. Known \in SUBSET Rules
      BY DEF Known, PartyInv
    <3> QED
      BY <3>1, ResponsibilityAssumption, FS_Subset
  <2>4. PICK s \in SetToSeqs(Known) : retrieved' = s
    BY <2>2
  <2>5. DOMAIN s \subseteq Nat /\ {s[i] : i \in DOMAIN s} = Known
    BY <2>3, AllRetrieved
  <2>6. Known' = Known
    BY <2>1 DEF Known, Applicable
  <2>7. RetrievedSound'
    BY <2>4, <2>5, <2>6 DEF RetrievedSound
  <2>8. PartyAgreed'
    BY <2>1 DEF PartyInv, PartyAgreed, Applicable, Specificity, CountedFor, EffectiveState,
                ResultReview
  <2> QED
    BY <2>1, <2>7, <2>8 DEF PartyInv
<1>2. CASE Classify \/ SkipClassification
  <2>1. UNCHANGED <<fulfils, corpus, indexed, retrieved>>
    BY <1>2 DEF Classify, SkipClassification
  <2>2. PartyAgreed'
    BY <1>2, <2>1, Decided DEF Classify, SkipClassification
  <2>3. RetrievedSound'
    BY <2>1 DEF PartyInv, RetrievedSound, Known, Applicable
  <2> QED
    BY <2>1, <2>2, <2>3 DEF PartyInv
<1>3. CASE UNCHANGED responsibilityVars
  BY <1>3 DEF responsibilityVars, PartyInv, RetrievedSound, Known, PartyAgreed, Applicable,
              Specificity, CountedFor, EffectiveState, ResultReview
<1> QED
  BY <1>1, <1>2, <1>3 DEF ResponsibilityNext

\* For every corpus of rules and whatever evidence ranks first, nobody is held
\* responsible unless the rules that fit the position best all say so
\* (classifyResponsibility in domain/responsibility.ts).
THEOREM PartiesAgreed == ResponsibilitySpec => []PartyAgreed
<1>1. PartyInv => PartyAgreed
  BY DEF PartyInv
<1> QED
  BY PartyBegins, PartyStep, <1>1, PTL DEF ResponsibilitySpec

-----------------------------------------------------------------------------
(* Files of a report.  A request that recorded a success may not record a      *)
(* failure too, although it may be told that recording failed: it goes to      *)
(* "refused", never to "failing".                                              *)

OpenPcs == {"unasked", "read", "make", "recording", "failing"}
Export == [pc : OpenPcs \cup {"given", "refused"}, format : Formats \cup {"UNSUPPORTED"}]
Outcome == {"SUCCESS", "FAILURE"}

Recorded(q, outcome) == [request |-> q, outcome |-> outcome] \in exportAudit
ExportSound(q) ==
  /\ export[q].pc \in OpenPcs => ~Recorded(q, "SUCCESS") /\ ~Recorded(q, "FAILURE")
  /\ export[q].pc = "given" => Recorded(q, "SUCCESS") /\ ~Recorded(q, "FAILURE")
  /\ export[q].pc = "refused" => ~(Recorded(q, "SUCCESS") /\ Recorded(q, "FAILURE"))

ExportInv ==
  /\ export \in [Requests -> Export]
  /\ exportAudit \subseteq [request : Requests, outcome : Outcome]
  /\ \A q \in Requests : ExportSound(q)

LEMMA ExportImplies == ExportInv => ExportRecordedOnce
<1> SUFFICES ASSUME ExportInv, NEW q \in Requests,
                    NEW outcomes,
                    outcomes = {r.outcome : r \in {a \in exportAudit : a.request = q}}
             PROVE  /\ Cardinality(outcomes) <= 1
                    /\ export[q].pc = "given" => outcomes = {"SUCCESS"}
  BY DEF ExportRecordedOnce
<1>1. ASSUME NEW r \in exportAudit, r.request = q
      PROVE  r = [request |-> q, outcome |-> r.outcome] /\ r.outcome \in Outcome
  BY <1>1 DEF ExportInv
<1>2. ASSUME NEW o PROVE o \in outcomes <=> o \in Outcome /\ Recorded(q, o)
  <2>1. CASE o \in outcomes
    <3>1. PICK r \in exportAudit : r.request = q /\ o = r.outcome
      BY <2>1
    <3> QED
      BY <1>1, <2>1, <3>1 DEF Recorded
  <2>2. CASE o \in Outcome /\ Recorded(q, o)
    <3>1. PICK r \in exportAudit : r = [request |-> q, outcome |-> o]
      BY <2>2 DEF Recorded
    <3>2. r.request = q /\ r.outcome = o
      BY <3>1
    <3> QED
      BY <2>2, <3>2
  <2> QED
    BY <2>1, <2>2
<1>3. export[q] \in Export /\ ExportSound(q)
  BY DEF ExportInv
<1>4. ~(Recorded(q, "SUCCESS") /\ Recorded(q, "FAILURE"))
  BY <1>3 DEF ExportSound, Export
<1>5. outcomes = {} \/ \E o \in Outcome : outcomes = {o}
  BY <1>2, <1>4 DEF Outcome
<1>6. Cardinality(outcomes) <= 1
  <2>1. CASE outcomes = {}
    BY <2>1, FS_EmptySet
  <2>2. CASE \E o \in Outcome : outcomes = {o}
    <3>1. PICK o \in Outcome : outcomes = {o}
      BY <2>2
    <3>2. Cardinality({o}) = 1
      BY FS_Singleton
    <3> QED
      BY <3>1, <3>2
  <2> QED
    BY <1>5, <2>1, <2>2
<1>7. ASSUME export[q].pc = "given" PROVE outcomes = {"SUCCESS"}
  BY <1>2, <1>3, <1>7 DEF ExportSound, Outcome
<1> QED
  BY <1>6, <1>7

LEMMA ExportBegins == ExportInit => ExportInv
<1> SUFFICES ASSUME ExportInit PROVE ExportInv
  OBVIOUS
<1>1. Unasked \in Export /\ Unasked.pc = "unasked"
  BY DEF Unasked, Export, OpenPcs
<1>2. export \in [Requests -> Export] /\ \A q \in Requests : export[q].pc = "unasked"
  <2>1. export = [q \in Requests |-> Unasked]
    BY DEF ExportInit
  <2> QED
    BY <1>1, <2>1
<1>3. exportAudit = {}
  BY DEF ExportInit
<1>4. \A q \in Requests : ExportSound(q)
  BY <1>2, <1>3 DEF ExportSound, Recorded
<1> QED
  BY <1>2, <1>3, <1>4 DEF ExportInv

\* A step of a request that is not over writes an outcome, or none.
LEMMA ExportMoves ==
  ASSUME ExportInv, NEW q \in Requests, NEW new \in Export, NEW wrote \in SUBSET Outcome,
         export' = [export EXCEPT ![q] = new],
         exportAudit' = exportAudit \cup {[request |-> q, outcome |-> o] : o \in wrote},
         export[q].pc \in OpenPcs,
         new.pc \in OpenPcs => wrote = {},
         new.pc = "given" => wrote = {"SUCCESS"},
         wrote # Outcome
  PROVE  ExportInv'
<1>1. export' \in [Requests -> Export]
  BY DEF ExportInv
<1>2. exportAudit' \subseteq [request : Requests, outcome : Outcome]
  BY DEF ExportInv
<1>3. ASSUME NEW r \in Requests, NEW o \in Outcome
      PROVE  Recorded(r, o)' <=> Recorded(r, o) \/ (r = q /\ o \in wrote)
  BY <1>3 DEF Recorded
<1>4. ASSUME NEW r \in Requests PROVE ExportSound(r)'
  <2>1. CASE r = q
    <3>1. export'[r] = new /\ ~Recorded(r, "SUCCESS") /\ ~Recorded(r, "FAILURE")
      BY <2>1 DEF ExportInv, ExportSound
    <3>2. /\ Recorded(r, "SUCCESS")' <=> "SUCCESS" \in wrote
          /\ Recorded(r, "FAILURE")' <=> "FAILURE" \in wrote
      BY <1>3, <2>1, <3>1 DEF Outcome
    <3>3. ~("SUCCESS" \in wrote /\ "FAILURE" \in wrote)
      BY DEF Outcome
    <3> QED
      BY <3>1, <3>2, <3>3 DEF ExportSound
  <2>2. CASE r # q
    <3>1. export'[r] = export[r] /\ ExportSound(r)
      BY <2>2 DEF ExportInv
    <3>2. /\ Recorded(r, "SUCCESS")' <=> Recorded(r, "SUCCESS")
          /\ Recorded(r, "FAILURE")' <=> Recorded(r, "FAILURE")
      BY <1>3, <2>2 DEF Outcome
    <3> QED
      BY <3>1, <3>2 DEF ExportSound
  <2> QED
    BY <2>1, <2>2
<1> QED
  BY <1>1, <1>2, <1>4 DEF ExportInv

LEMMA ToMoves ==
  ASSUME ExportInv, NEW q \in Requests, NEW pc \in OpenPcs \cup {"given", "refused"},
         NEW wrote \in SUBSET Outcome, To(q, pc),
         exportAudit' = exportAudit \cup {[request |-> q, outcome |-> o] : o \in wrote},
         export[q].pc \in OpenPcs,
         pc \in OpenPcs => wrote = {},
         pc = "given" => wrote = {"SUCCESS"},
         wrote # Outcome
  PROVE  ExportInv'
<1>1. PICK new : new = [export[q] EXCEPT !.pc = pc]
  OBVIOUS
<1>2. export[q] \in Export
  BY DEF ExportInv
<1>3. new \in Export /\ new.pc = pc
  BY <1>1, <1>2 DEF Export
<1>4. export' = [export EXCEPT ![q] = new]
  BY <1>1 DEF To
<1> QED
  BY <1>3, <1>4, ExportMoves

LEMMA ExportStepKeeps ==
  ASSUME ExportInv, NEW q \in Requests, ExportStep(q)
  PROVE  ExportInv'
<1>1. CASE AskForFile(q) /\ ~To(q, "refused")
  <2>1. PICK f \in Formats : export' = [export EXCEPT ![q] = [pc |-> "read", format |-> f]]
    BY <1>1 DEF AskForFile
  <2>2. PICK new, wrote : new = [pc |-> "read", format |-> f] /\ wrote = {}
    OBVIOUS
  <2>3. exportAudit' = exportAudit \cup {[request |-> q, outcome |-> o] : o \in wrote}
    BY <1>1, <2>2 DEF AskForFile
  <2>4. new \in Export /\ new.pc = "read" /\ wrote \in SUBSET Outcome /\ wrote # Outcome
    BY <2>2 DEF Export, OpenPcs, Outcome
  <2>5. export[q].pc \in OpenPcs
    BY <1>1 DEF AskForFile, OpenPcs
  <2> QED
    BY <2>1, <2>2, <2>3, <2>4, <2>5, ExportMoves
<1>2. CASE AskForFile(q) /\ To(q, "refused")
  <2>1. PICK wrote : wrote = {}
    OBVIOUS
  <2>2. exportAudit' = exportAudit \cup {[request |-> q, outcome |-> o] : o \in wrote}
    BY <1>2, <2>1 DEF AskForFile
  <2>3. /\ wrote \in SUBSET Outcome /\ wrote # Outcome /\ "refused" \notin OpenPcs
        /\ export[q].pc \in OpenPcs
    BY <1>2, <2>1 DEF OpenPcs, Outcome, AskForFile
  <2>4. PICK pc \in {"given", "refused"} : To(q, pc) /\ pc = "refused"
    BY <1>2
  <2>5. (pc = "given" => wrote = {"SUCCESS"}) /\ pc \notin OpenPcs
    BY <2>3, <2>4
  <2> QED
    BY <2>1, <2>2, <2>3, <2>4, <2>5, ToMoves
<1>3. CASE ReadReport(q) \/ MakeFile(q)
  <2>1. PICK wrote : wrote = {}
    OBVIOUS
  <2>2. exportAudit' = exportAudit \cup {[request |-> q, outcome |-> o] : o \in wrote}
    BY <1>3, <2>1 DEF ReadReport, MakeFile
  <2>3. PICK pc \in {"make", "failing", "recording"} : To(q, pc)
    BY <1>3 DEF ReadReport, MakeFile
  <2>4. /\ wrote \in SUBSET Outcome /\ wrote # Outcome /\ pc \in OpenPcs /\ pc # "given"
        /\ export[q].pc \in OpenPcs
    BY <1>3, <2>1 DEF OpenPcs, Outcome, ReadReport, MakeFile
  <2> QED
    BY <2>1, <2>2, <2>3, <2>4, ToMoves
<1>4. CASE RecordSuccess(q)
  <2>1. PICK wrote \in {{}, {"SUCCESS"}}, pc \in {"given", "refused"} :
          /\ To(q, pc) /\ (pc = "given" => wrote = {"SUCCESS"})
          /\ exportAudit' = exportAudit \cup {[request |-> q, outcome |-> o] : o \in wrote}
    BY <1>4 DEF RecordSuccess, Write, AfterFailedRecord
  <2>2. /\ wrote \in SUBSET Outcome /\ wrote # Outcome /\ pc \notin OpenPcs
        /\ export[q].pc \in OpenPcs
    BY <1>4, <2>1 DEF OpenPcs, Outcome, RecordSuccess
  <2> QED
    BY <2>1, <2>2, ToMoves
<1>5. CASE RecordFailure(q)
  <2>1. PICK wrote \in {{}, {"FAILURE"}} :
          /\ To(q, "refused")
          /\ exportAudit' = exportAudit \cup {[request |-> q, outcome |-> o] : o \in wrote}
    BY <1>5 DEF RecordFailure, Write
  <2>2. /\ wrote \in SUBSET Outcome /\ wrote # Outcome /\ "refused" \notin OpenPcs
        /\ export[q].pc \in OpenPcs
    BY <1>5, <2>1 DEF OpenPcs, Outcome, RecordFailure
  <2> QED
    BY <2>1, <2>2, ToMoves
<1> QED
  BY <1>1, <1>3, <1>4, <1>5, <1>2 DEF ExportStep

\* However many requests ask for a file, in whatever format, and whatever of it
\* fails: a file that is handed out is recorded, and nothing is recorded both as a
\* success and as a failure (writeExportAudit in export/route.ts).
THEOREM ExportsRecordedOnce == ExportSpec => []ExportRecordedOnce
<1>1. ExportInv /\ [ExportNext]_<<exportVars, supplyVars>> => ExportInv'
  <2>1. CASE UNCHANGED <<exportVars, supplyVars>>
    BY <2>1 DEF ExportInv, ExportSound, Recorded, exportVars
  <2> QED
    BY <2>1, ExportStepKeeps DEF ExportNext
<1> QED
  BY ExportBegins, <1>1, ExportImplies, PTL DEF ExportSpec

-----------------------------------------------------------------------------
(* Sums.  The folds of the models are recursive functions; what they add up    *)
(* to is counted here: an element with the number n stands for n pairs.        *)

Pairs(f, T) == {q \in T \X Nat : q[2] \in 1 .. f[q[1]]}
Sum(f, T) == Cardinality(Pairs(f, T))

LEMMA OneLess ==
  ASSUME NEW T, IsFiniteSet(T), NEW x \in T
  PROVE  /\ IsFiniteSet(T \ {x})
         /\ Cardinality(T \ {x}) \in Nat /\ Cardinality(T) \in Nat
         /\ Cardinality(T \ {x}) = Cardinality(T) - 1
<1>1. IsFiniteSet(T \ {x}) /\ Cardinality(T \ {x}) = Cardinality(T) - 1
  BY FS_RemoveElement
<1> QED BY <1>1, FS_CardinalityType

\* One element's pairs.
LEMMA OnesPairs ==
  ASSUME NEW n \in Nat, NEW x
  PROVE  IsFiniteSet({x} \X (1 .. n)) /\ Cardinality({x} \X (1 .. n)) = n
<1>1. IsFiniteSet({x}) /\ Cardinality({x}) = 1
  BY FS_Singleton
<1>2. IsFiniteSet(1 .. n) /\ Cardinality(1 .. n) = n
  BY FS_Interval
<1>3. /\ IsFiniteSet({x} \X (1 .. n))
      /\ Cardinality({x} \X (1 .. n)) = Cardinality({x}) * Cardinality(1 .. n)
  <2> DEFINE a == {x}
             b == 1 .. n
  <2>1. IsFiniteSet(a) /\ IsFiniteSet(b)
    BY <1>1, <1>2
  <2> HIDE DEF a, b
  <2>2. IsFiniteSet(a \X b) /\ Cardinality(a \X b) = Cardinality(a) * Cardinality(b)
    BY <2>1, FS_Product
  <2> QED BY <2>2 DEF a, b
<1>4. 1 * n = n
  OBVIOUS
<1> QED BY <1>1, <1>2, <1>3, <1>4

LEMMA PairsApart ==
  ASSUME NEW f, NEW T, \A x \in T : f[x] \in Nat, NEW x \in T
  PROVE  /\ Pairs(f, T) = Pairs(f, T \ {x}) \cup ({x} \X (1 .. f[x]))
         /\ Pairs(f, T \ {x}) \cap ({x} \X (1 .. f[x])) = {}
BY DEF Pairs

LEMMA PairsFinite ==
  ASSUME NEW f, NEW S, IsFiniteSet(S), \A x \in S : f[x] \in Nat
  PROVE  IsFiniteSet(Pairs(f, S))
<1> DEFINE Bad == {n \in Nat : \E T \in SUBSET S : Cardinality(T) = n /\ ~IsFiniteSet(Pairs(f, T))}
<1>1. CASE Bad = {}
  <2>1. Cardinality(S) \in Nat
    BY FS_CardinalityType
  <2> QED BY <1>1, <2>1
<1>2. CASE Bad # {}
  <2>1. PICK n \in Bad : \A m \in Bad : n <= m
    <3>1. Bad \subseteq Nat
      OBVIOUS
    <3> HIDE DEF Bad
    <3> QED BY <1>2, <3>1, LeastOne
  <2>2. PICK T \in SUBSET S : Cardinality(T) = n /\ ~IsFiniteSet(Pairs(f, T))
    BY <2>1
  <2>3. IsFiniteSet(T)
    BY FS_Subset
  <2>4. T # {}
    <3>1. Pairs(f, {}) = {}
      BY DEF Pairs
    <3> QED BY <2>2, <3>1, FS_EmptySet
  <2>5. PICK x \in T : TRUE
    BY <2>4
  <2>6. Cardinality(T \ {x}) = n - 1 /\ n - 1 \in Nat
    BY <2>2, <2>3, OneLess
  <2>7. IsFiniteSet(Pairs(f, T \ {x}))
    BY <2>1, <2>6
  <2>8. f[x] \in Nat /\ \A y \in T : f[y] \in Nat
    OBVIOUS
  <2>9. Pairs(f, T) = Pairs(f, T \ {x}) \cup ({x} \X (1 .. f[x]))
    BY <2>8, PairsApart
  <2>10. IsFiniteSet({x} \X (1 .. f[x]))
    BY <2>8, OnesPairs
  <2>11. IsFiniteSet(Pairs(f, T))
    <3> DEFINE a == Pairs(f, T \ {x})
               b == {x} \X (1 .. f[x])
    <3>1. IsFiniteSet(a) /\ IsFiniteSet(b) /\ Pairs(f, T) = a \cup b
      BY <2>7, <2>9, <2>10
    <3> HIDE DEF a, b
    <3>2. IsFiniteSet(a \cup b)
      BY <3>1, FS_Union
    <3> QED BY <3>1, <3>2
  <2> QED BY <2>2, <2>11
<1> QED BY <1>1, <1>2

LEMMA SumIsNat ==
  ASSUME NEW f, NEW S, IsFiniteSet(S), \A x \in S : f[x] \in Nat
  PROVE  Sum(f, S) \in Nat
BY PairsFinite, FS_CardinalityType DEF Sum

LEMMA SumOfNone == ASSUME NEW f PROVE Sum(f, {}) = 0
<1>1. Pairs(f, {}) = {}
  BY DEF Pairs
<1> QED BY <1>1, FS_EmptySet DEF Sum

LEMMA SumWithout ==
  ASSUME NEW f, NEW S, IsFiniteSet(S), \A x \in S : f[x] \in Nat, NEW x \in S
  PROVE  Sum(f, S) = Sum(f, S \ {x}) + f[x]
<1> DEFINE rest == Pairs(f, S \ {x})
           its == {x} \X (1 .. f[x])
<1>1. Pairs(f, S) = rest \cup its /\ rest \cap its = {}
  BY PairsApart
<1>2. IsFiniteSet(rest) /\ Cardinality(rest) \in Nat
  BY OneLess, PairsFinite, FS_CardinalityType
<1>3. IsFiniteSet(its) /\ Cardinality(its) = f[x]
  BY OnesPairs
<1>4. Cardinality(rest \cup its) = Cardinality(rest) + Cardinality(its) - Cardinality(rest \cap its)
  <2> HIDE DEF rest, its
  <2> QED BY <1>2, <1>3, FS_Union
<1>5. Cardinality(rest \cap its) = 0
  BY <1>1, FS_EmptySet
<1> QED BY <1>1, <1>2, <1>3, <1>4, <1>5 DEF Sum

LEMMA SumMore ==
  ASSUME NEW f, NEW g, NEW S, NEW T, IsFiniteSet(T), S \subseteq T,
         \A x \in T : g[x] \in Nat, \A x \in S : f[x] \in Nat /\ f[x] <= g[x]
  PROVE  Sum(f, S) <= Sum(g, T)
<1>1. Pairs(f, S) \in SUBSET Pairs(g, T)
  BY DEF Pairs
<1> QED BY <1>1, PairsFinite, FS_Subset DEF Sum

LEMMA SumSame ==
  ASSUME NEW f, NEW g, NEW S, \A x \in S : f[x] = g[x]
  PROVE  Sum(f, S) = Sum(g, S)
<1>1. Pairs(f, S) = Pairs(g, S)
  BY DEF Pairs
<1> QED BY <1>1 DEF Sum

\* Whatever is added up element by element is the sum.
LEMMA SumUnique ==
  ASSUME NEW f, NEW S, IsFiniteSet(S), \A x \in S : f[x] \in Nat, NEW it, it[{}] = 0,
         \A s \in SUBSET S : s # {} => \E x \in s : it[s] = it[s \ {x}] + f[x] \/ it[s] = f[x] + it[s \ {x}]
  PROVE  it[S] = Sum(f, S)
<1> DEFINE Bad == {n \in Nat : \E T \in SUBSET S : Cardinality(T) = n /\ it[T] # Sum(f, T)}
<1>1. CASE Bad = {}
  <2>1. Cardinality(S) \in Nat
    BY FS_CardinalityType
  <2> QED BY <1>1, <2>1
<1>2. CASE Bad # {}
  <2>1. PICK n \in Bad : \A m \in Bad : n <= m
    <3>1. Bad \subseteq Nat
      OBVIOUS
    <3> HIDE DEF Bad
    <3> QED BY <1>2, <3>1, LeastOne
  <2>2. PICK T \in SUBSET S : Cardinality(T) = n /\ it[T] # Sum(f, T)
    BY <2>1
  <2>3. IsFiniteSet(T)
    BY FS_Subset
  <2>4. T # {}
    BY <2>2, SumOfNone
  <2>5. PICK x \in T : it[T] = it[T \ {x}] + f[x] \/ it[T] = f[x] + it[T \ {x}]
    BY <2>4
  <2>6. Cardinality(T \ {x}) = n - 1 /\ n - 1 \in Nat
    BY <2>2, <2>3, OneLess
  <2>7. it[T \ {x}] = Sum(f, T \ {x})
    BY <2>1, <2>6
  <2>8. Sum(f, T \ {x}) \in Nat
    BY <2>3, FS_RemoveElement, SumIsNat
  <2>9. Sum(f, T) = Sum(f, T \ {x}) + f[x]
    BY <2>3, SumWithout
  <2> QED BY <2>2, <2>5, <2>7, <2>8, <2>9
<1> QED BY <1>1, <1>2

LEMMA FunctionTotal ==
  ASSUME NEW f, IsFiniteSet(DOMAIN f), \A x \in DOMAIN f : f[x] \in Nat
  PROVE  FoldFunction(+, 0, f) = Sum(f, DOMAIN f)
<1> DEFINE Body(g) == [s \in SUBSET DOMAIN f |->
                         IF s = {} THEN 0
                         ELSE f[CHOOSE x \in s : TRUE] + g[s \ {CHOOSE x \in s : TRUE}]]
           it == CHOOSE g : g = Body(g)
<1>1. FoldFunction(+, 0, f) = it[DOMAIN f]
  BY DEF FoldFunction, FoldFunctionOnSet, MapThenFoldSet
<1>2. \E g : g = Body(g)
  <2> DEFINE g == [s \in SUBSET DOMAIN f |-> Sum(f, s)]
  <2>1. ASSUME NEW s \in SUBSET DOMAIN f
        PROVE  Sum(f, s) = IF s = {} THEN 0
                           ELSE f[CHOOSE x \in s : TRUE] + g[s \ {CHOOSE x \in s : TRUE}]
    <3>1. CASE s = {}
      BY <3>1, SumOfNone
    <3>2. CASE s # {}
      <4>1. PICK x \in s : x = CHOOSE y \in s : TRUE
        BY <3>2
      <4>2. IsFiniteSet(s) /\ IsFiniteSet(s \ {x})
        BY FS_Subset, FS_RemoveElement
      <4>3. Sum(f, s) = Sum(f, s \ {x}) + f[x] /\ Sum(f, s \ {x}) \in Nat
        BY <4>2, SumWithout, SumIsNat
      <4>4. g[s \ {x}] = Sum(f, s \ {x})
        OBVIOUS
      <4> HIDE DEF g
      <4> QED BY <3>2, <4>1, <4>3, <4>4
    <3> QED BY <3>1, <3>2
  <2>2. g = Body(g)
    BY <2>1
  <2> QED BY <2>2
<1>3. it = Body(it)
  BY <1>2
<1>4. it[{}] = 0 /\ \A s \in SUBSET DOMAIN f : s # {} =>
         \E x \in s : it[s] = it[s \ {x}] + f[x] \/ it[s] = f[x] + it[s \ {x}]
  <2> HIDE DEF it
  <2>1. it[{}] = 0
    BY <1>3
  <2>2. ASSUME NEW s \in SUBSET DOMAIN f, s # {}
        PROVE  \E x \in s : it[s] = it[s \ {x}] + f[x] \/ it[s] = f[x] + it[s \ {x}]
    <3>1. PICK x \in s : x = CHOOSE y \in s : TRUE
      BY <2>2
    <3>2. it[s] = f[x] + it[s \ {x}]
      BY <1>3, <2>2, <3>1
    <3> QED BY <3>2
  <2> QED BY <2>1, <2>2
<1> QED
  <2> HIDE DEF it
  <2> QED BY <1>1, <1>4, SumUnique

-----------------------------------------------------------------------------
(* How stock covers the positions of a run. *)

\* The folds of allocateCoveragePlan: taken one after the other.
TakenFrom(order, needed, ledger, set, rest) ==
  IF set = {} THEN <<>> ELSE Take(rest[set \ {Max(set)}], order[Max(set)], needed, ledger)

Takes(g, set, order, needed, ledger) ==
  g = [s \in SUBSET set |-> TakenFrom(order, needed, ledger, s, g)]

LEMMA TakingPossible ==
  ASSUME NEW order, NEW needed, NEW ledger, NEW n \in Nat
  PROVE  \E g : Takes(g, 1 .. n, order, needed, ledger)
<1> DEFINE Is(g, k) == Takes(g, 1 .. k, order, needed, ledger)
           Bad == {k \in Nat : ~ \E g : Is(g, k)}
<1>1. CASE Bad = {}
  BY <1>1
<1>2. CASE Bad # {}
  <2>1. PICK k \in Bad : \A m \in Bad : k <= m
    <3>1. Bad \subseteq Nat
      OBVIOUS
    <3> HIDE DEF Bad
    <3> QED BY <1>2, <3>1, LeastOne
  <2>2. CASE k = 0
    <3> DEFINE g == [s \in SUBSET (1 .. 0) |-> <<>>]
    <3>1. \A s \in SUBSET (1 .. 0) : TakenFrom(order, needed, ledger, s, g) = <<>>
      BY DEF TakenFrom
    <3>2. Is(g, 0)
      BY <3>1 DEF Takes
    <3> QED BY <2>1, <2>2, <3>2
  <2>3. CASE k # 0
    <3>0. k \in Nat /\ k - 1 \in Nat
      BY <2>1, <2>3
    <3>1. k - 1 \notin Bad
      <4> HIDE DEF Bad
      <4> QED BY <2>1, <3>0
    <3>2. PICK g : Is(g, k - 1)
      BY <3>0, <3>1
    <3> DEFINE h == [s \in SUBSET (1 .. k) |->
                       IF k \in s THEN Take(g[s \ {k}], order[k], needed, ledger) ELSE g[s]]
    <3>3. ASSUME NEW s \in SUBSET (1 .. k)
          PROVE  h[s] = TakenFrom(order, needed, ledger, s, h)
      <4>1. CASE k \in s
        <5>1. Max(s) = k
          <6>1. Max(s) \in s /\ k <= Max(s)
            BY <3>0, <4>1, GreatestIs
          <6>2. Max(s) \in 1 .. k
            BY <6>1
          <6> QED BY <3>0, <6>1, <6>2
        <5>2. s \ {k} \in SUBSET (1 .. k) /\ k \notin s \ {k}
          OBVIOUS
        <5>3. h[s \ {k}] = g[s \ {k}]
          BY <5>2
        <5>4. h[s] = Take(g[s \ {k}], order[k], needed, ledger)
          BY <4>1
        <5> HIDE DEF h
        <5> QED BY <4>1, <5>1, <5>3, <5>4 DEF TakenFrom
      <4>2. CASE k \notin s
        <5>1. s \in SUBSET (1 .. (k - 1))
          BY <3>0, <4>2
        <5>2. h[s] = g[s] /\ g[s] = TakenFrom(order, needed, ledger, s, g)
          BY <3>2, <4>2, <5>1 DEF Takes
        <5>3. CASE s = {}
          BY <5>2, <5>3 DEF TakenFrom
        <5>4. CASE s # {}
          <6>1. Max(s) \in s
            BY <3>0, <5>1, <5>4, GreatestIs
          <6>2. s \ {Max(s)} \in SUBSET (1 .. k) /\ k \notin s \ {Max(s)}
            BY <4>2
          <6>3. h[s \ {Max(s)}] = g[s \ {Max(s)}]
            BY <6>2
          <6> HIDE DEF h
          <6> QED BY <5>2, <6>3 DEF TakenFrom
        <5> QED BY <5>3, <5>4
      <4> QED BY <4>1, <4>2
    <3>4. Is(h, k)
      BY <3>3 DEF Takes
    <3> QED BY <2>1, <3>4
  <2> QED BY <2>2, <2>3
<1> QED BY <1>1, <1>2

\* A plan, material by material.
InTurn(plan, n, order, needed, ledger) ==
  /\ plan[0] = <<>> /\ Allocate(order, needed, ledger) = plan[n]
  /\ \A i \in 1 .. n : plan[i] = Take(plan[i - 1], order[i], needed, ledger)

LEMMA AllocatedInTurn ==
  ASSUME NEW order, NEW needed, NEW ledger, NEW n \in Nat, DOMAIN order = 1 .. n
  PROVE  \E plan : InTurn(plan, n, order, needed, ledger)
<1> DEFINE it == CHOOSE g : g = [s \in SUBSET DOMAIN order |->
                                   IF s = {} THEN <<>>
                                   ELSE Take(g[s \ {Max(s)}], order[Max(s)], needed, ledger)]
           plan == [i \in 0 .. n |-> it[1 .. i]]
<1>1. Allocate(order, needed, ledger) = it[DOMAIN order]
  BY DEF Allocate, FoldLeft, MapThenFoldSet
<1>2. \E g : g = [s \in SUBSET DOMAIN order |->
                    IF s = {} THEN <<>>
                    ELSE Take(g[s \ {Max(s)}], order[Max(s)], needed, ledger)]
  <2>1. PICK g : Takes(g, DOMAIN order, order, needed, ledger)
    BY TakingPossible
  <2>2. g = [s \in SUBSET DOMAIN order |-> TakenFrom(order, needed, ledger, s, g)]
    BY <2>1 DEF Takes
  <2>3. g = [s \in SUBSET DOMAIN order |->
               IF s = {} THEN <<>>
               ELSE Take(g[s \ {Max(s)}], order[Max(s)], needed, ledger)]
    BY <2>2 DEF TakenFrom
  <2> HIDE DEF it
  <2> QED BY <2>3
<1>3. it = [s \in SUBSET DOMAIN order |->
              IF s = {} THEN <<>>
              ELSE Take(it[s \ {Max(s)}], order[Max(s)], needed, ledger)]
  BY <1>2
<1> HIDE DEF it
<1>4. plan[0] = <<>>
  BY <1>3
<1>5. ASSUME NEW i \in 1 .. n PROVE plan[i] = Take(plan[i - 1], order[i], needed, ledger)
  <2>1. Max(1 .. i) = i /\ (1 .. i) \ {i} = 1 .. (i - 1)
    BY GreatestOfFirst
  <2>2. 1 .. i \in SUBSET DOMAIN order /\ 1 .. i # {}
    OBVIOUS
  <2>3. it[1 .. i] = Take(it[1 .. (i - 1)], order[i], needed, ledger)
    BY <1>3, <2>1, <2>2
  <2>4. plan[i] = it[1 .. i] /\ plan[i - 1] = it[1 .. (i - 1)]
    OBVIOUS
  <2> QED BY <2>3, <2>4
<1>6. plan[n] = it[DOMAIN order]
  OBVIOUS
<1>7. InTurn(plan, n, order, needed, ledger)
  BY <1>1, <1>4, <1>5, <1>6 DEF InTurn
<1> QED BY <1>7

\* What a plan takes of a material, and what is left of each.
Taken(plan, m) == IF m \in DOMAIN plan THEN plan[m] ELSE 0
Lefts(ledger) == [m \in Analogues |-> Left(m, ledger)]
Among(order, i) == {order[j] : j \in 1 .. i}

\* A plan of the first i materials: of each what is left, until there is enough.
Greedy(plan, order, i, needed, ledger) ==
  /\ DOMAIN plan \subseteq Among(order, i) /\ (DOMAIN plan = {} => plan = <<>>)
  /\ \A m \in DOMAIN plan : plan[m] \in 1 .. Left(m, ledger)
  /\ Total(plan) \in Nat
  /\ Total(plan) = Least(needed, Sum(Lefts(ledger), Among(order, i)))
  /\ Total(plan) < needed => \A j \in 1 .. i : Taken(plan, order[j]) = Left(order[j], ledger)
  /\ \A j, l \in 1 .. i :
       j < l /\ order[l] \in DOMAIN plan => Taken(plan, order[j]) = Left(order[j], ledger)

LEMMA PlanTotal ==
  ASSUME NEW plan, DOMAIN plan \subseteq Analogues, \A m \in DOMAIN plan : plan[m] \in Nat
  PROVE  Total(plan) = Sum(plan, DOMAIN plan) /\ Total(plan) \in Nat
<1>1. IsFiniteSet(DOMAIN plan)
  BY SupplyAssumption, FS_Subset
<1> QED BY <1>1, FunctionTotal, SumIsNat DEF Total

LEMMA AmongGrows ==
  ASSUME NEW order, NEW i \in Nat
  PROVE  /\ Among(order, 0) = {}
         /\ Among(order, i + 1) = Among(order, i) \cup {order[i + 1]}
BY DEF Among

LEMMA PlanGrows ==
  ASSUME NEW ledger, \A m \in Analogues : Left(m, ledger) \in Nat,
         NEW n \in Nat, NEW order \in [1 .. n -> Analogues],
         \A j, l \in 1 .. n : j # l => order[j] # order[l],
         NEW needed \in Nat, NEW i \in Nat, i + 1 <= n,
         NEW plan, Greedy(plan, order, i, needed, ledger)
  PROVE  Greedy(Take(plan, order[i + 1], needed, ledger), order, i + 1, needed, ledger)
<1> DEFINE m == order[i + 1]
           before == Sum(Lefts(ledger), Among(order, i))
           after == Sum(Lefts(ledger), Among(order, i + 1))
           next == Take(plan, m, needed, ledger)
<1>1. m \in Analogues /\ m \notin Among(order, i) /\ Among(order, i + 1) \subseteq Analogues
  BY DEF Among
<1>2. Among(order, i + 1) = Among(order, i) \cup {m} /\ Among(order, i) \subseteq Analogues
  BY <1>1, AmongGrows
<1>3. after = before + Left(m, ledger) /\ before \in Nat
  <2>1. IsFiniteSet(Among(order, i)) /\ IsFiniteSet(Among(order, i + 1))
    BY <1>1, <1>2, SupplyAssumption, FS_Subset
  <2>2. \A x \in Analogues : Lefts(ledger)[x] = Left(x, ledger)
    BY DEF Lefts
  <2>3. \A x \in Among(order, i + 1) : Lefts(ledger)[x] \in Nat
    BY <1>1, <2>2
  <2>4. after = Sum(Lefts(ledger), Among(order, i + 1) \ {m}) + Lefts(ledger)[m]
    BY <1>2, <2>1, <2>3, SumWithout
  <2>5. Among(order, i + 1) \ {m} = Among(order, i)
    BY <1>1, <1>2
  <2>6. before \in Nat
    BY <1>2, <2>1, <2>3, SumIsNat
  <2> QED BY <1>1, <2>2, <2>4, <2>5, <2>6
<1>4. Total(plan) \in Nat /\ Total(plan) = Least(needed, before) /\ Left(m, ledger) \in Nat
  BY <1>1 DEF Greedy
<1>5. m \notin DOMAIN plan
  BY <1>1 DEF Greedy
<1>6. \A j \in 1 .. i : order[j] # m
  BY <1>1 DEF Among
<1>7. \A j \in 1 .. (i + 1) : j \in 1 .. i \/ j = i + 1
  OBVIOUS
<1> DEFINE more == Least(needed - Total(plan), Left(m, ledger))
<1>8. CASE more <= 0
  <2>1. next = plan
    BY <1>8 DEF Take
  <2>2. Total(plan) = Least(needed, after)
    BY <1>3, <1>4, <1>8 DEF Least
  <2>3. Total(plan) < needed => Left(m, ledger) = 0
    BY <1>4, <1>8 DEF Least
  <2>4. Total(plan) < needed =>
          \A j \in 1 .. (i + 1) : Taken(plan, order[j]) = Left(order[j], ledger)
    BY <1>5, <1>7, <2>3 DEF Greedy, Taken
  <2>5. \A j, l \in 1 .. (i + 1) :
          j < l /\ order[l] \in DOMAIN plan => Taken(plan, order[j]) = Left(order[j], ledger)
    <3>1. \A l \in 1 .. (i + 1) : order[l] \in DOMAIN plan => l \in 1 .. i
      BY <1>5, <1>7
    <3>2. \A j, l \in 1 .. (i + 1) : j < l /\ l \in 1 .. i => j \in 1 .. i
      OBVIOUS
    <3> QED BY <3>1, <3>2 DEF Greedy
  <2>6. DOMAIN plan \subseteq Among(order, i + 1) /\ (DOMAIN plan = {} => plan = <<>>)
    BY <1>2 DEF Greedy
  <2> HIDE DEF next, after
  <2> QED BY <1>4, <2>1, <2>2, <2>4, <2>5, <2>6 DEF Greedy, after, next
<1>9. CASE ~(more <= 0)
  <2>1. next = [k \in DOMAIN plan \cup {m} |-> IF k = m THEN more ELSE plan[k]]
    BY <1>9 DEF Take
  <2>2. more \in Nat /\ more >= 1 /\ more <= Left(m, ledger) /\ Total(plan) < needed
    BY <1>4, <1>9 DEF Least
  <2> HIDE DEF next, more, after, before
  <2>3. DOMAIN next = DOMAIN plan \cup {m} /\ next[m] = more /\ \A k \in DOMAIN plan : next[k] = plan[k]
    BY <1>5, <2>1
  <2>4. DOMAIN next \subseteq Among(order, i + 1) /\ DOMAIN plan \subseteq Among(order, i)
    BY <1>2, <2>3 DEF Greedy
  <2>5. \A k \in DOMAIN next : next[k] \in 1 .. Left(k, ledger)
    BY <1>4, <2>2, <2>3 DEF Greedy
  <2>6. \A k \in DOMAIN next : next[k] \in Nat
    BY <1>1, <2>4, <2>5
  <2>7. \A k \in DOMAIN plan : plan[k] \in Nat
    BY <2>3, <2>6
  <2>8. Total(next) = Total(plan) + more
    <3>1. Total(next) = Sum(next, DOMAIN next) /\ Total(plan) = Sum(plan, DOMAIN plan)
      BY <1>1, <1>2, <2>4, <2>6, <2>7, PlanTotal
    <3>2. IsFiniteSet(DOMAIN next)
      BY <1>1, <2>4, SupplyAssumption, FS_Subset
    <3>3. Sum(next, DOMAIN next) = Sum(next, DOMAIN next \ {m}) + next[m]
      BY <2>3, <2>6, <3>2, SumWithout
    <3>4. DOMAIN next \ {m} = DOMAIN plan
      BY <1>5, <2>3
    <3>5. Sum(next, DOMAIN plan) = Sum(plan, DOMAIN plan)
      BY <2>3, SumSame
    <3> QED BY <2>3, <3>1, <3>3, <3>4, <3>5
  <2>9. Total(next) \in Nat /\ Total(next) = Least(needed, after)
    BY <1>3, <1>4, <2>2, <2>8 DEF Least, more
  <2>10. \A j \in 1 .. i : Taken(next, order[j]) = Left(order[j], ledger)
    <3>1. \A j \in 1 .. i : Taken(plan, order[j]) = Left(order[j], ledger)
      BY <2>2 DEF Greedy
    <3>2. \A j \in 1 .. i : Taken(next, order[j]) = Taken(plan, order[j])
      BY <1>6, <2>3 DEF Taken
    <3> QED BY <3>1, <3>2
  <2>11. Total(next) < needed => Taken(next, m) = Left(m, ledger)
    BY <1>4, <2>2, <2>3, <2>8 DEF Taken, more, Least
  <2>12. Total(next) < needed =>
           \A j \in 1 .. (i + 1) : Taken(next, order[j]) = Left(order[j], ledger)
    BY <1>7, <2>10, <2>11
  <2>13. \A j, l \in 1 .. (i + 1) :
           j < l /\ order[l] \in DOMAIN next => Taken(next, order[j]) = Left(order[j], ledger)
    <3>1. \A j, l \in 1 .. (i + 1) : j < l => j \in 1 .. i
      OBVIOUS
    <3> QED BY <2>10, <3>1
  <2> QED BY <2>4, <2>5, <2>9, <2>12, <2>13 DEF Greedy, after, next
<1> QED BY <1>8, <1>9

LEMMA AllocatedGreedily ==
  ASSUME NEW ledger, \A m \in Analogues : Left(m, ledger) \in Nat,
         NEW n \in Nat, NEW order \in [1 .. n -> Analogues],
         \A j, l \in 1 .. n : j # l => order[j] # order[l],
         NEW needed \in Nat
  PROVE  Greedy(Allocate(order, needed, ledger), order, n, needed, ledger)
<1>0. PICK plan : InTurn(plan, n, order, needed, ledger)
  BY AllocatedInTurn
<1>1. /\ plan[0] = <<>> /\ Allocate(order, needed, ledger) = plan[n]
      /\ \A i \in 1 .. n : plan[i] = Take(plan[i - 1], order[i], needed, ledger)
  BY <1>0 DEF InTurn
<1> DEFINE Bad == {i \in Nat : i <= n /\ ~Greedy(plan[i], order, i, needed, ledger)}
<1>2. CASE Bad = {}
  <2>1. n \notin Bad
    BY <1>2
  <2> QED BY <1>1, <2>1
<1>3. CASE Bad # {}
  <2>1. PICK i \in Bad : \A j \in Bad : i <= j
    <3>1. Bad \subseteq Nat
      OBVIOUS
    <3> HIDE DEF Bad
    <3> QED BY <1>3, <3>1, LeastOne
  <2>2. i \in Nat /\ i <= n /\ ~Greedy(plan[i], order, i, needed, ledger)
    BY <2>1
  <2>3. CASE i = 0
    <3>1. DOMAIN plan[0] = {}
      BY <1>1
    <3>2. Total(plan[0]) = 0
      <4>1. Total(plan[0]) = Sum(plan[0], {})
        BY <3>1, PlanTotal
      <4> QED BY <4>1, SumOfNone
    <3>3. Sum(Lefts(ledger), Among(order, 0)) = 0
      BY AmongGrows, SumOfNone
    <3>4. Greedy(plan[0], order, 0, needed, ledger)
      BY <1>1, <3>1, <3>2, <3>3 DEF Greedy, Least
    <3> QED BY <2>2, <2>3, <3>4
  <2>4. CASE i # 0
    <3>1. i - 1 \in Nat /\ i - 1 <= n /\ i \in 1 .. n /\ (i - 1) + 1 = i
      BY <2>2, <2>4
    <3>2. i - 1 \notin Bad
      <4> HIDE DEF Bad
      <4> QED BY <2>1, <2>2, <3>1
    <3>3. Greedy(plan[i - 1], order, i - 1, needed, ledger)
      BY <3>1, <3>2
    <3>4. Greedy(Take(plan[i - 1], order[(i - 1) + 1], needed, ledger), order, (i - 1) + 1, needed, ledger)
      BY <3>1, <3>3, PlanGrows
    <3> QED BY <1>1, <2>2, <3>1, <3>4
  <2> QED BY <2>3, <2>4
<1> QED BY <1>2, <1>3

\* Orders of all there is on offer.
LEMMA OrderIs ==
  ASSUME NEW offer \in Offers, NEW order \in Orders(offer)
  PROVE  LET n == Cardinality(DOMAIN offer)
         IN  /\ n \in Nat /\ order \in [1 .. n -> Analogues]
             /\ \A j, l \in 1 .. n : j # l => order[j] # order[l]
             /\ Among(order, n) = DOMAIN offer
             /\ \A j, l \in 1 .. n : j < l => offer[order[j]] <= offer[order[l]]
             /\ DOMAIN offer \subseteq Analogues
             /\ \A m \in DOMAIN offer : offer[m] \in Nat
<1> DEFINE n == Cardinality(DOMAIN offer)
<1>1. PICK allowed \in SUBSET Analogues : offer \in [allowed -> Severities]
  BY DEF Offers
<1>2. IsFiniteSet(DOMAIN offer) /\ n \in Nat
  BY <1>1, SupplyAssumption, FS_Subset, FS_CardinalityType
<1>3. order \in [1 .. n -> DOMAIN offer] /\ \A j, l \in 1 .. n : j # l => order[j] # order[l]
  BY DEF Orders, SetToSeqs
<1>4. \A j, l \in 1 .. n : j < l => offer[order[j]] <= offer[order[l]]
  BY <1>3 DEF Orders
<1>5. Among(order, n) = DOMAIN offer
  <2>1. order \in Injection(1 .. n, DOMAIN offer)
    BY <1>3 DEF Injection, IsInjective
  <2>2. Cardinality(1 .. n) = n /\ IsFiniteSet(1 .. n)
    BY <1>2, FS_Interval
  <2>3. order \in Surjection(1 .. n, DOMAIN offer)
    BY <1>2, <2>1, <2>2, FS_Injection
  <2>4. \A m \in DOMAIN offer : \E j \in 1 .. n : order[j] = m
    BY <2>3 DEF Surjection
  <2>5. \A j \in 1 .. n : order[j] \in DOMAIN offer
    BY <1>3
  <2> HIDE DEF n
  <2>6. \A m : m \in Among(order, n) <=> \E j \in 1 .. n : order[j] = m
    BY DEF Among
  <2> QED BY <2>4, <2>5, <2>6
<1>6. \A m \in DOMAIN offer : offer[m] \in Nat
  BY <1>1, SupplyAssumption
<1> QED BY <1>1, <1>2, <1>3, <1>4, <1>5, <1>6

\* One of an order left out.
LEMMA OrderWithout ==
  ASSUME NEW n \in Nat, NEW order \in [1 .. n -> Analogues],
         \A j, l \in 1 .. n : j # l => order[j] # order[l], NEW i \in 1 .. n
  PROVE  /\ n - 1 \in Nat /\ RemoveAt(order, i) \in [1 .. (n - 1) -> Analogues]
         /\ \A j, l \in 1 .. (n - 1) : j # l => RemoveAt(order, i)[j] # RemoveAt(order, i)[l]
         /\ Among(RemoveAt(order, i), n - 1) \subseteq Among(order, n)
<1>1. order \in Seq(Analogues) /\ Len(order) = n
  OBVIOUS
<1> DEFINE a == SubSeq(order, 1, i - 1)
           b == SubSeq(order, i + 1, n)
<1>2. /\ a \in Seq(Analogues) /\ Len(a) = i - 1 /\ \A j \in 1 .. (i - 1) : a[j] = order[j]
      /\ b \in Seq(Analogues) /\ Len(b) = n - i /\ \A j \in 1 .. (n - i) : b[j] = order[i + j]
  <2>1. a \in Seq(Analogues) /\ Len(a) = i - 1
    BY <1>1
  <2>2. \A j \in 1 .. (i - 1) : a[j] = order[j]
    BY <1>1
  <2>3. b \in Seq(Analogues)
    BY <1>1
  <2>4. Len(b) = n - i
    BY <1>1
  <2>5. \A j \in 1 .. (n - i) : b[j] = order[i + j]
    BY <1>1
  <2> QED BY <2>1, <2>2, <2>3, <2>4, <2>5
<1> HIDE DEF a, b
<1>3. RemoveAt(order, i) = a \o b
  BY <1>1 DEF RemoveAt, a, b
<1>4. PICK k \in Nat : k = n - 1 /\ Len(a) + Len(b) = k
  <2>1. n - 1 \in Nat /\ i \in Nat /\ (i - 1) + (n - i) = n - 1
    OBVIOUS
  <2>2. Len(a) + Len(b) = n - 1
    BY <1>2, <2>1
  <2> QED BY <2>1, <2>2
<1>5. a \o b \in Seq(Analogues) /\ Len(a \o b) = k
  BY <1>2, <1>4
<1>6. \A j \in 1 .. k : (a \o b)[j] = IF j < i THEN order[j] ELSE order[j + 1]
  BY <1>2, <1>4
<1>7. PICK r : r = a \o b
  OBVIOUS
<1>8. r \in [1 .. k -> Analogues]
  <2>1. r \in Seq(Analogues) /\ Len(r) = k
    BY <1>5, <1>7
  <2>2. r \in [1 .. Len(r) -> Analogues]
    BY <2>1
  <2> QED BY <2>1, <2>2
<1> DEFINE Place(j) == IF j < i THEN j ELSE j + 1
<1>9. ASSUME NEW j \in 1 .. k PROVE Place(j) \in 1 .. n /\ r[j] = order[Place(j)]
  BY <1>4, <1>6, <1>7
<1>10. ASSUME NEW j \in 1 .. k, NEW l \in 1 .. k, j # l PROVE Place(j) # Place(l)
  BY <1>4, <1>10
<1> HIDE DEF Place
<1>11. \A j, l \in 1 .. k : j # l => r[j] # r[l]
  BY <1>9, <1>10
<1>12. Among(r, k) \subseteq Among(order, n)
  BY <1>9 DEF Among
<1> QED BY <1>3, <1>4, <1>7, <1>8, <1>11, <1>12

LEMMA LeftsTotal ==
  ASSUME NEW ledger, NEW T \in SUBSET Analogues, \A m \in Analogues : Left(m, ledger) \in Nat
  PROVE  FoldSet(LAMBDA m, sum : sum + (stock[m] - ledger[m]), 0, T) = Sum(Lefts(ledger), T)
<1> DEFINE Body(g) == [s \in SUBSET T |->
                         IF s = {} THEN 0
                         ELSE g[s \ {CHOOSE x \in s : TRUE}]
                                + (stock[CHOOSE x \in s : TRUE] - ledger[CHOOSE x \in s : TRUE])]
           it == CHOOSE g : g = Body(g)
           f == Lefts(ledger)
<1>1. FoldSet(LAMBDA m, sum : sum + (stock[m] - ledger[m]), 0, T) = it[T]
  BY DEF FoldSet, MapThenFoldSet
<1>2. IsFiniteSet(T)
  BY SupplyAssumption, FS_Subset
<1>3. \A x \in T : f[x] = stock[x] - ledger[x] /\ f[x] \in Nat
  BY DEF Lefts, Left
<1> HIDE DEF f
<1>4. \E g : g = Body(g)
  <2> DEFINE g == [s \in SUBSET T |-> Sum(f, s)]
  <2>1. ASSUME NEW s \in SUBSET T
        PROVE  Sum(f, s) = IF s = {} THEN 0
                           ELSE g[s \ {CHOOSE x \in s : TRUE}]
                                + (stock[CHOOSE x \in s : TRUE] - ledger[CHOOSE x \in s : TRUE])
    <3>1. CASE s = {}
      BY <3>1, SumOfNone
    <3>2. CASE s # {}
      <4>1. PICK x \in s : x = CHOOSE y \in s : TRUE
        BY <3>2
      <4>2. IsFiniteSet(s)
        BY <1>2, FS_Subset
      <4>3. Sum(f, s) = Sum(f, s \ {x}) + f[x]
        BY <1>3, <4>2, SumWithout
      <4>4. g[s \ {x}] = Sum(f, s \ {x})
        OBVIOUS
      <4> HIDE DEF g
      <4> QED BY <1>3, <3>2, <4>1, <4>3, <4>4
    <3> QED BY <3>1, <3>2
  <2>2. g = Body(g)
    BY <2>1
  <2> QED BY <2>2
<1>5. it = Body(it)
  BY <1>4
<1> HIDE DEF it
<1>6. it[{}] = 0
  BY <1>5
<1>7. ASSUME NEW s \in SUBSET T, s # {}
      PROVE  \E x \in s : it[s] = it[s \ {x}] + f[x] \/ it[s] = f[x] + it[s \ {x}]
  <2>1. PICK x \in s : x = CHOOSE y \in s : TRUE
    BY <1>7
  <2>2. it[s] = it[s \ {x}] + (stock[x] - ledger[x])
    BY <1>5, <1>7, <2>1
  <2> QED BY <1>3, <2>2
<1>8. it[T] = Sum(f, T)
  BY <1>2, <1>3, <1>6, <1>7, SumUnique
<1> QED BY <1>1, <1>8 DEF f

PromisedOf(m) == [p \in Items |-> Taken(coverage[p].primary, m)]

LEMMA PromisedTotal ==
  ASSUME NEW m, \A p \in Items : Taken(coverage[p].primary, m) \in Nat
  PROVE  Promised(m) = Sum(PromisedOf(m), Items)
<1> DEFINE Body(g) == [s \in SUBSET Items |->
                         IF s = {} THEN 0
                         ELSE g[s \ {CHOOSE x \in s : TRUE}]
                                + (IF m \in DOMAIN coverage[CHOOSE x \in s : TRUE].primary
                                   THEN coverage[CHOOSE x \in s : TRUE].primary[m] ELSE 0)]
           it == CHOOSE g : g = Body(g)
           f == PromisedOf(m)
<1>1. Promised(m) = it[Items]
  BY DEF Promised, FoldSet, MapThenFoldSet
<1>2. IsFiniteSet(Items)
  BY SupplyAssumption
<1>3. \A x \in Items : /\ f[x] = IF m \in DOMAIN coverage[x].primary THEN coverage[x].primary[m] ELSE 0
                       /\ f[x] \in Nat
  BY DEF PromisedOf, Taken
<1> HIDE DEF f
<1>4. \E g : g = Body(g)
  <2> DEFINE g == [s \in SUBSET Items |-> Sum(f, s)]
  <2>1. ASSUME NEW s \in SUBSET Items
        PROVE  Sum(f, s) = IF s = {} THEN 0
                           ELSE g[s \ {CHOOSE x \in s : TRUE}]
                                + (IF m \in DOMAIN coverage[CHOOSE x \in s : TRUE].primary
                                   THEN coverage[CHOOSE x \in s : TRUE].primary[m] ELSE 0)
    <3>1. CASE s = {}
      BY <3>1, SumOfNone
    <3>2. CASE s # {}
      <4>1. PICK x \in s : x = CHOOSE y \in s : TRUE
        BY <3>2
      <4>2. IsFiniteSet(s)
        BY <1>2, FS_Subset
      <4>3. Sum(f, s) = Sum(f, s \ {x}) + f[x]
        BY <1>3, <4>2, SumWithout
      <4>4. g[s \ {x}] = Sum(f, s \ {x})
        OBVIOUS
      <4> HIDE DEF g
      <4> QED BY <1>3, <3>2, <4>1, <4>3, <4>4
    <3> QED BY <3>1, <3>2
  <2>2. g = Body(g)
    BY <2>1
  <2> QED BY <2>2
<1>5. it = Body(it)
  BY <1>4
<1> HIDE DEF it
<1>6. it[{}] = 0
  BY <1>5
<1>7. ASSUME NEW s \in SUBSET Items, s # {}
      PROVE  \E x \in s : it[s] = it[s \ {x}] + f[x] \/ it[s] = f[x] + it[s \ {x}]
  <2>1. PICK x \in s : x = CHOOSE y \in s : TRUE
    BY <1>7
  <2>2. it[s] = it[s \ {x}] + f[x]
    BY <1>3, <1>5, <1>7, <2>1
  <2> QED BY <2>2
<1>8. it[Items] = Sum(f, Items)
  BY <1>2, <1>3, <1>6, <1>7, SumUnique
<1> QED BY <1>1, <1>8 DEF f

\* Of a position that was searched: what it was given, from what there was then.
Given(p, order, n) ==
  LET c == coverage[p]
  IN  /\ Greedy(c.primary, order, n, Shortage(p), c.before)
      /\ \A plan \in c.alternatives : \E rest :
           /\ Greedy(plan, rest, n - 1, Shortage(p), c.before)
           /\ Among(rest, n - 1) \subseteq Among(order, n)

Searched(p) ==
  /\ \A q \in Items : match[q] # Unmatched
  /\ Shortage(p) \in Nat \ {0}
  /\ Allocated(p) <=> DOMAIN coverage[p].primary # {}
  /\ coverage[p].before \in [Analogues -> Nat]
  /\ \A m \in Analogues : Left(m, coverage[p].before) \in Nat
  /\ coverage[p].offer \in Offers
  /\ \E order \in Orders(coverage[p].offer) : Given(p, order, Cardinality(DOMAIN coverage[p].offer))

\* The last position that was given some of a material left of it what there is.
LastGiven(p, m) ==
  LET c == coverage[p]
  IN  Taken(c.primary, m) > 0 /\ c.before[m] + Taken(c.primary, m) = reserved[m]

SupplyInv ==
  /\ stock \in [Direct \cup Analogues -> 0 .. MaxQuantity]
  /\ match \in [Items -> Match \cup {Unmatched}]
  /\ \A p \in Items : match[p].grade = "NO_MATCH" <=> match[p].material = "none"
  /\ reserved \in [Analogues -> Nat] /\ \A m \in Analogues : reserved[m] <= stock[m]
  /\ DOMAIN coverage = Items
  /\ \A p \in Items : coverage[p] = NotSearched \/ Searched(p)
  /\ \A p \in Items : \A m \in Analogues : Taken(coverage[p].primary, m) \in Nat
  /\ \A m \in Analogues : Sum(PromisedOf(m), Items) = reserved[m]
  /\ \A m \in Analogues : reserved[m] > 0 => \E p \in Items : LastGiven(p, m)

LEMMA NothingFound == NotSearched.primary = <<>> /\ \A m : Taken(<<>>, m) = 0
<1>1. DOMAIN <<>> = {}
  OBVIOUS
<1> QED BY <1>1 DEF NotSearched, Taken

LEMMA SupplyBegins == SupplyInit => SupplyInv
<1> SUFFICES ASSUME SupplyInit PROVE SupplyInv
  OBVIOUS
<1>1. \A p \in Items : coverage[p] = NotSearched
  BY DEF SupplyInit
<1>2. \A p \in Items : \A m \in Analogues : Taken(coverage[p].primary, m) = 0
  BY <1>1, NothingFound
<1>3. ASSUME NEW m \in Analogues PROVE Sum(PromisedOf(m), Items) = 0
  <2>1. \A p \in Items : PromisedOf(m)[p] = 0
    BY <1>2 DEF PromisedOf
  <2>2. Pairs(PromisedOf(m), Items) = {}
    BY <2>1 DEF Pairs
  <2> QED BY <2>2, FS_EmptySet DEF Sum
<1>4. stock \in [Direct \cup Analogues -> 0 .. MaxQuantity]
  BY DEF SupplyInit
<1>5. \A m \in Analogues : 0 <= stock[m]
  BY <1>4, SupplyAssumption
<1>6. \A p \in Items : match[p].grade = "NO_MATCH" /\ match[p].material = "none"
  BY DEF SupplyInit, Unmatched
<1>7. \A m \in Analogues : ~(reserved[m] > 0)
  BY DEF SupplyInit
<1> QED BY <1>1, <1>2, <1>3, <1>4, <1>5, <1>6, <1>7 DEF SupplyInit, SupplyInv

LEMMA ShortageIs ==
  ASSUME SupplyInv, NEW p \in Items
  PROVE  Shortage(p) \in Nat /\ DirectCovered(p) \in Nat /\ Available(p) \in Nat
         /\ match[p].required \in Nat
<1>1. match[p].required \in Nat /\ match[p].material \in Direct \cup {"none"}
  BY SupplyAssumption DEF SupplyInv, Match, Unmatched
<1>2. Available(p) \in Nat
  BY <1>1, SupplyAssumption DEF SupplyInv, Available
<1> QED BY <1>1, <1>2 DEF Shortage, DirectCovered, Least

\* What is done for another position, or for this one before, stays.
LEMMA SearchedStays ==
  ASSUME NEW p \in Items, Searched(p), UNCHANGED <<stock, match>>, coverage'[p] = coverage[p]
  PROVE  Searched(p)'
<1>1. \A m, ledger : Left(m, ledger)' = Left(m, ledger)
  BY DEF Left
<1>2. \A ledger : Lefts(ledger)' = Lefts(ledger)
  BY <1>1 DEF Lefts
<1>3. Shortage(p)' = Shortage(p)
  BY DEF Shortage, DirectCovered, Available
<1>4. \A plan, order, n, needed, ledger :
        Greedy(plan, order, n, needed, ledger)' <=> Greedy(plan, order, n, needed, ledger)
  BY <1>1, <1>2 DEF Greedy
<1>5. \A order, n : Given(p, order, n)' <=> Given(p, order, n)
  BY <1>3, <1>4 DEF Given
<1>6. Allocated(p)' <=> Allocated(p)
  BY DEF Allocated
<1> QED BY <1>1, <1>3, <1>5, <1>6 DEF Searched

LEMMA Matching ==
  ASSUME SupplyInv, NEW p \in Items, MatchStock(p)
  PROVE  SupplyInv'
<1>1. /\ match[p] = Unmatched /\ UNCHANGED <<stock, reserved, coverage>>
      /\ match' \in [Items -> Match \cup {Unmatched}]
  BY DEF MatchStock, SupplyInv
<1>2. \A q \in Items : ~Searched(q)
  BY <1>1 DEF Searched
<1>3. \A q \in Items : coverage'[q] = NotSearched
  BY <1>1, <1>2 DEF SupplyInv
<1>4. \A m : PromisedOf(m)' = PromisedOf(m)
  BY <1>1 DEF PromisedOf
<1>5. \A q \in Items : match'[q].grade = "NO_MATCH" <=> match'[q].material = "none"
  BY DEF SupplyInv, MatchStock
<1>6. \A m \in Analogues : reserved'[m] > 0 => \E q \in Items : LastGiven(q, m)'
  BY <1>1 DEF SupplyInv, LastGiven
<1> QED BY <1>1, <1>3, <1>4, <1>5, <1>6 DEF SupplyInv

LEMMA Finding ==
  ASSUME SupplyInv, NEW p \in Items, FindAnalogues(p)
  PROVE  SupplyInv'
<1>1. /\ \A q \in Items : match[q] # Unmatched
      /\ coverage[p] = NotSearched /\ Shortage(p) > 0 /\ UNCHANGED <<stock, match>>
  BY DEF FindAnalogues
<1>2. PICK offer \in Offers : \E order \in Orders(offer), ruled \in BOOLEAN :
        LET primary == Allocate(order, Shortage(p), reserved)
        IN  /\ coverage' = [coverage EXCEPT ![p] =
                 [outcome |-> IF primary # <<>> THEN "ALLOCATED"
                              ELSE IF ruled THEN "NO_ELIGIBLE_CANDIDATE"
                              ELSE "NO_APPLICABLE_RULE",
                  offer |-> offer, primary |-> primary, before |-> reserved,
                  alternatives |-> Alternatives(order, Shortage(p), reserved, primary)]]
            /\ reserved' = [m \in Analogues |->
                 reserved[m] + IF m \in DOMAIN primary THEN primary[m] ELSE 0]
  BY DEF FindAnalogues
<1>3. PICK order \in Orders(offer), ruled \in BOOLEAN :
        LET primary == Allocate(order, Shortage(p), reserved)
        IN  /\ coverage' = [coverage EXCEPT ![p] =
                 [outcome |-> IF primary # <<>> THEN "ALLOCATED"
                              ELSE IF ruled THEN "NO_ELIGIBLE_CANDIDATE"
                              ELSE "NO_APPLICABLE_RULE",
                  offer |-> offer, primary |-> primary, before |-> reserved,
                  alternatives |-> Alternatives(order, Shortage(p), reserved, primary)]]
            /\ reserved' = [m \in Analogues |->
                 reserved[m] + IF m \in DOMAIN primary THEN primary[m] ELSE 0]
  BY <1>2
<1>4. PICK primary, alternatives, needed :
        /\ primary = Allocate(order, Shortage(p), reserved)
        /\ alternatives = Alternatives(order, Shortage(p), reserved, primary)
        /\ needed = Shortage(p)
  OBVIOUS
<1> DEFINE n == Cardinality(DOMAIN offer)
<1>5. /\ coverage'[p].offer = offer /\ coverage'[p].primary = primary
      /\ coverage'[p].before = reserved /\ coverage'[p].alternatives = alternatives
      /\ DOMAIN coverage' = Items
      /\ \A q \in Items \ {p} : coverage'[q] = coverage[q]
  BY <1>3, <1>4 DEF SupplyInv
<1>6. reserved' = [m \in Analogues |-> reserved[m] + Taken(primary, m)]
  BY <1>3, <1>4 DEF Taken
<1>7. \A m \in Analogues : Left(m, reserved) \in Nat
  BY SupplyAssumption DEF SupplyInv, Left
<1>8. /\ n \in Nat /\ order \in [1 .. n -> Analogues]
      /\ \A j, l \in 1 .. n : j # l => order[j] # order[l]
  BY OrderIs
<1>9. needed \in Nat \ {0}
  BY <1>1, <1>4, ShortageIs
<1> HIDE DEF n
<1>10. Greedy(primary, order, n, needed, reserved)
  BY <1>4, <1>7, <1>8, <1>9, AllocatedGreedily
<1>11. ASSUME NEW plan \in alternatives
       PROVE  \E rest : /\ Greedy(plan, rest, n - 1, needed, reserved)
                        /\ Among(rest, n - 1) \subseteq Among(order, n)
  <2>1. PICK i \in DOMAIN order : plan = Allocate(RemoveAt(order, i), needed, reserved)
    BY <1>4 DEF Alternatives
  <2>2. i \in 1 .. n
    BY <1>8
  <2>3. PICK rest : rest = RemoveAt(order, i)
    OBVIOUS
  <2>4. /\ n - 1 \in Nat /\ rest \in [1 .. (n - 1) -> Analogues]
        /\ \A j, l \in 1 .. (n - 1) : j # l => rest[j] # rest[l]
        /\ Among(rest, n - 1) \subseteq Among(order, n)
    BY <1>8, <2>2, <2>3, OrderWithout
  <2>5. Greedy(plan, rest, n - 1, needed, reserved)
    BY <1>7, <1>9, <2>1, <2>3, <2>4, AllocatedGreedily
  <2> QED BY <2>4, <2>5
<1>12. /\ \A m, ledger : Left(m, ledger)' = Left(m, ledger)
       /\ Shortage(p)' = needed
       /\ \A plan, some, k, want, ledger :
            Greedy(plan, some, k, want, ledger)' <=> Greedy(plan, some, k, want, ledger)
  <2>1. \A m, ledger : Left(m, ledger)' = Left(m, ledger)
    BY <1>1 DEF Left
  <2>2. \A ledger : Lefts(ledger)' = Lefts(ledger)
    BY <2>1 DEF Lefts
  <2>3. Shortage(p)' = needed
    BY <1>1, <1>4 DEF Shortage, DirectCovered, Available
  <2> QED BY <2>1, <2>2, <2>3 DEF Greedy
<1>13. Given(p, order, n)'
  BY <1>5, <1>10, <1>11, <1>12 DEF Given
<1>14. Searched(p)'
  <2>1. coverage'[p].outcome = "ALLOCATED" <=> primary # <<>>
    BY <1>3, <1>4 DEF SupplyInv
  <2>2. primary # <<>> <=> DOMAIN primary # {}
    <3>1. DOMAIN primary = {} => primary = <<>>
      BY <1>10 DEF Greedy
    <3>2. DOMAIN <<>> = {}
      OBVIOUS
    <3> QED BY <3>1, <3>2
  <2>3. Allocated(p)' <=> DOMAIN primary # {}
    BY <2>1, <2>2 DEF Allocated
  <2>4. reserved \in [Analogues -> Nat]
    BY DEF SupplyInv
  <2> QED BY <1>1, <1>5, <1>7, <1>9, <1>12, <1>13, <2>3, <2>4 DEF Searched, n
<1>15. \A q \in Items : coverage'[q] = NotSearched \/ Searched(q)'
  BY <1>1, <1>5, <1>14, SearchedStays DEF SupplyInv
<1>16. \A m \in Analogues : Taken(primary, m) \in 0 .. Left(m, reserved)
  BY <1>7, <1>10 DEF Greedy, Taken
<1>17. /\ reserved' \in [Analogues -> Nat]
       /\ \A m \in Analogues : reserved'[m] <= stock[m]
  <2>1. \A m \in Analogues : reserved'[m] = reserved[m] + Taken(primary, m)
    BY <1>6
  <2>2. \A m \in Analogues : reserved[m] \in Nat /\ stock[m] \in Nat
    BY SupplyAssumption DEF SupplyInv
  <2>3. \A m \in Analogues : reserved'[m] \in Nat /\ reserved'[m] <= stock[m]
    BY <1>16, <2>1, <2>2 DEF Left
  <2> QED BY <1>6, <2>3
<1>18. \A q \in Items : \A m \in Analogues : Taken(coverage'[q].primary, m) \in Nat
  BY <1>5, <1>7, <1>16 DEF SupplyInv
<1>19. ASSUME NEW m \in Analogues PROVE Sum(PromisedOf(m)', Items) = reserved'[m]
  <2>1. PICK f, g : f = PromisedOf(m) /\ g = PromisedOf(m)'
    OBVIOUS
  <2>2. /\ \A q \in Items : f[q] \in Nat /\ g[q] \in Nat
        /\ \A q \in Items \ {p} : f[q] = g[q]
        /\ f[p] = 0 /\ g[p] = Taken(primary, m)
    BY <1>1, <1>5, <1>18, <2>1, NothingFound DEF SupplyInv, PromisedOf
  <2>3. Sum(f, Items) = Sum(f, Items \ {p}) + f[p] /\ Sum(g, Items) = Sum(g, Items \ {p}) + g[p]
    BY <2>2, SupplyAssumption, SumWithout
  <2>4. Sum(f, Items \ {p}) = Sum(g, Items \ {p})
    BY <2>2, SumSame
  <2>5. Sum(f, Items \ {p}) \in Nat
    BY <2>2, SupplyAssumption, FS_RemoveElement, SumIsNat
  <2>6. Sum(f, Items) = reserved[m]
    BY <2>1 DEF SupplyInv
  <2>7. reserved'[m] = reserved[m] + Taken(primary, m)
    BY <1>6
  <2> QED BY <2>1, <2>2, <2>3, <2>4, <2>5, <2>6, <2>7
<1>20. \A m \in Analogues : Sum(PromisedOf(m), Items)' = Sum(PromisedOf(m)', Items)
  BY DEF Sum, Pairs
<1>21. ASSUME NEW m \in Analogues, reserved'[m] > 0 PROVE \E q \in Items : LastGiven(q, m)'
  <2>1. reserved'[m] = reserved[m] + Taken(primary, m)
    BY <1>6
  <2>2. Taken(primary, m) \in Nat /\ reserved[m] \in Nat
    BY <1>7, <1>16 DEF SupplyInv
  <2>3. CASE Taken(primary, m) > 0
    <3>1. LastGiven(p, m)'
      BY <1>5, <2>1, <2>3 DEF LastGiven
    <3> QED BY <3>1
  <2>4. CASE ~(Taken(primary, m) > 0)
    <3>1. reserved'[m] = reserved[m]
      BY <2>1, <2>2, <2>4
    <3>2. PICK q \in Items : LastGiven(q, m)
      BY <1>21, <3>1 DEF SupplyInv
    <3>3. q # p
      BY <1>1, <3>2, NothingFound DEF LastGiven
    <3>4. LastGiven(q, m)'
      BY <1>5, <3>1, <3>2, <3>3 DEF LastGiven
    <3> QED BY <3>4
  <2> QED BY <2>3, <2>4
<1>22. \A q \in Items : match'[q].grade = "NO_MATCH" <=> match'[q].material = "none"
  BY <1>1 DEF SupplyInv
<1> QED BY <1>1, <1>5, <1>15, <1>17, <1>18, <1>19, <1>20, <1>21, <1>22 DEF SupplyInv

LEMMA SharedOut == SupplyInv => StockSharedOut
<1> SUFFICES ASSUME SupplyInv PROVE StockSharedOut
  OBVIOUS
<1>1. ASSUME NEW m \in Analogues PROVE Promised(m) <= stock[m] /\ Promised(m) = reserved[m]
  <2>1. \A p \in Items : Taken(coverage[p].primary, m) \in Nat
    BY DEF SupplyInv
  <2>2. Promised(m) = Sum(PromisedOf(m), Items)
    BY <2>1, PromisedTotal
  <2> QED BY <2>2 DEF SupplyInv
<1>2. ASSUME NEW p \in Items, Allocated(p)
      PROVE  LET c == coverage[p]
                 left(m) == stock[m] - c.before[m]
             IN  /\ Total(c.primary) = Least(Shortage(p),
                      FoldSet(LAMBDA m, sum : sum + left(m), 0, DOMAIN c.offer))
                 /\ \A m \in DOMAIN c.primary, k \in DOMAIN c.offer :
                      c.offer[k] < c.offer[m] =>
                        left(k) = IF k \in DOMAIN c.primary THEN c.primary[k] ELSE 0
                 /\ \A plan \in c.alternatives :
                      /\ \A m \in DOMAIN plan : plan[m] \in 1 .. left(m)
                      /\ Total(plan) <= Total(c.primary)
                 /\ Status(p) = "ANALOGUES" <=> CoveredInFull(p)
                 /\ ~SupplyNeedsReview(p) =>
                      \A m \in DOMAIN c.primary : c.offer[m] = 0
  <2> DEFINE c == coverage[p]
             left(m) == stock[m] - c.before[m]
             n == Cardinality(DOMAIN c.offer)
  <2>1. Searched(p)
    BY <1>2 DEF SupplyInv, Allocated, NotSearched
  <2>2. PICK order \in Orders(c.offer) : Given(p, order, n)
    BY <2>1 DEF Searched
  <2>3. /\ n \in Nat /\ order \in [1 .. n -> Analogues]
        /\ Among(order, n) = DOMAIN c.offer
        /\ \A j, l \in 1 .. n : j < l => c.offer[order[j]] <= c.offer[order[l]]
        /\ DOMAIN c.offer \subseteq Analogues
        /\ \A m \in DOMAIN c.offer : c.offer[m] \in Nat
    BY <2>1, <2>2, OrderIs DEF Searched
  <2>4. Greedy(c.primary, order, n, Shortage(p), c.before)
    BY <2>2 DEF Given
  <2>5. \A m \in Analogues : Left(m, c.before) \in Nat /\ Left(m, c.before) = left(m)
    BY <2>1 DEF Searched, Left
  <2>6. Shortage(p) \in Nat \ {0}
    BY <2>1 DEF Searched
  <2>7. Total(c.primary) = Least(Shortage(p),
          FoldSet(LAMBDA m, sum : sum + (stock[m] - c.before[m]), 0, DOMAIN c.offer))
    <3>1. FoldSet(LAMBDA m, sum : sum + (stock[m] - c.before[m]), 0, DOMAIN c.offer)
            = Sum(Lefts(c.before), DOMAIN c.offer)
      BY <2>3, <2>5, LeftsTotal
    <3>2. Total(c.primary) = Least(Shortage(p), Sum(Lefts(c.before), DOMAIN c.offer))
      BY <2>3, <2>4 DEF Greedy
    <3> QED BY <3>1, <3>2
  <2>8. ASSUME NEW m \in DOMAIN c.primary, NEW k \in DOMAIN c.offer, c.offer[k] < c.offer[m]
        PROVE  left(k) = IF k \in DOMAIN c.primary THEN c.primary[k] ELSE 0
    <3>1. m \in Among(order, n)
      BY <2>4 DEF Greedy
    <3>2. PICK j \in 1 .. n, l \in 1 .. n : k = order[j] /\ m = order[l]
      BY <2>3, <3>1 DEF Among
    <3>3. j < l
      <4>1. c.offer[k] \in Nat /\ c.offer[m] \in Nat
        BY <2>3, <3>1
      <4>2. ~(l < j) /\ l # j
        BY <2>3, <2>8, <3>2, <4>1
      <4> QED BY <2>3, <4>2
    <3>4. Taken(c.primary, k) = Left(k, c.before)
      BY <2>4, <3>2, <3>3 DEF Greedy
    <3> QED BY <2>3, <2>5, <3>4 DEF Taken
  <2>9. ASSUME NEW plan \in c.alternatives
        PROVE  /\ \A m \in DOMAIN plan : plan[m] \in 1 .. left(m)
               /\ Total(plan) <= Total(c.primary)
    <3>1. PICK rest : /\ Greedy(plan, rest, n - 1, Shortage(p), c.before)
                      /\ Among(rest, n - 1) \subseteq Among(order, n)
      BY <2>2 DEF Given
    <3>2. \A m \in DOMAIN plan : plan[m] \in 1 .. left(m)
      <4>1. DOMAIN plan \subseteq Analogues
        BY <2>3, <3>1 DEF Greedy
      <4> QED BY <2>5, <3>1, <4>1 DEF Greedy
    <3> DEFINE f == Lefts(c.before)
    <3>3. \A m \in DOMAIN c.offer : f[m] \in Nat
      BY <2>3, <2>5 DEF Lefts
    <3>4. IsFiniteSet(DOMAIN c.offer) /\ IsFiniteSet(Among(rest, n - 1))
      BY <2>3, <3>1, SupplyAssumption, FS_Subset
    <3>5. Among(rest, n - 1) \subseteq DOMAIN c.offer
      BY <2>3, <3>1
    <3> HIDE DEF f
    <3>6. Sum(f, Among(rest, n - 1)) <= Sum(f, DOMAIN c.offer)
      BY <3>3, <3>4, <3>5, SumMore
    <3>7. Sum(f, Among(rest, n - 1)) \in Nat /\ Sum(f, DOMAIN c.offer) \in Nat
      BY <3>3, <3>4, <3>5, SumIsNat
    <3>8. /\ Total(plan) = Least(Shortage(p), Sum(f, Among(rest, n - 1)))
          /\ Total(c.primary) = Least(Shortage(p), Sum(f, DOMAIN c.offer))
      BY <2>3, <2>4, <3>1 DEF Greedy, f
    <3>9. Total(plan) <= Total(c.primary)
      BY <2>6, <3>6, <3>7, <3>8 DEF Least
    <3> QED BY <3>2, <3>9
  <2>10. Status(p) = "ANALOGUES" <=> CoveredInFull(p)
    <3>1. Available(p) < match[p].required
      <4>1. Shortage(p) > 0
        BY <2>6
      <4> QED BY <4>1, ShortageIs DEF Shortage, DirectCovered, Least
    <3>2. Available(p) \in Nat /\ match[p].required \in Nat
      BY ShortageIs
    <3>3. CoveredInFull(p) \in BOOLEAN
      BY DEF CoveredInFull
    <3> QED BY <1>2, <3>1, <3>2, <3>3 DEF Status
  <2>11. ASSUME ~SupplyNeedsReview(p), NEW m \in DOMAIN c.primary
         PROVE  c.offer[m] = 0
    <3>1. m \in DOMAIN c.offer
      BY <2>3, <2>4 DEF Greedy
    <3>2. c.offer[m] \in Nat
      BY <2>3, <3>1
    <3>3. Verdict(c.offer[m]) = "SUITABLE"
      BY <1>2, <2>11 DEF SupplyNeedsReview
    <3> QED BY <3>2, <3>3 DEF Verdict
  <2> QED BY <2>7, <2>8, <2>9, <2>10, <2>11
<1> QED BY <1>1, <1>2 DEF StockSharedOut

LEMMA SupplyStep == SupplyInv /\ [SupplyNext]_supplyVars => SupplyInv'
<1> SUFFICES ASSUME SupplyInv, [SupplyNext]_supplyVars PROVE SupplyInv'
  OBVIOUS
<1>1. CASE UNCHANGED supplyVars
  <2>1. UNCHANGED <<stock, match, reserved, coverage>>
    BY <1>1 DEF supplyVars
  <2>2. \A p \in Items : coverage[p] = NotSearched \/ Searched(p)'
    BY <2>1, SearchedStays DEF SupplyInv
  <2>3. \A m : PromisedOf(m)' = PromisedOf(m)
    BY <2>1 DEF PromisedOf
  <2>4. \A m : Sum(PromisedOf(m), Items)' = Sum(PromisedOf(m)', Items)
    BY DEF Sum, Pairs
  <2>5. \A p, m : LastGiven(p, m)' = LastGiven(p, m)
    BY <2>1 DEF LastGiven
  <2> QED BY <2>1, <2>2, <2>3, <2>4, <2>5 DEF SupplyInv
<1> QED BY <1>1, Matching, Finding DEF SupplyNext

\* Of no analogue more is promised, over all the positions of a run, than there is,
\* and what is promised is what the ledger has reserved; a plan takes all it needs if
\* there is enough, of the nearest analogues first, and an alternative takes no more
\* than there was and covers no more than the plan that was chosen.
THEOREM StockIsSharedOut == SupplySpec => []StockSharedOut
BY SupplyStep, SupplyBegins, SharedOut, PTL DEF SupplySpec

-----------------------------------------------------------------------------
(* What the report says of that. *)

\* What stands for something else adds up to the same.
LEMMA SumMapped ==
  ASSUME NEW f, NEW g, NEW S, NEW h, IsFiniteSet(S), \A x \in S : f[x] \in Nat,
         \A x \in S : g[h[x]] = f[x], \A x, y \in S : h[x] = h[y] => x = y
  PROVE  Sum(g, {h[x] : x \in S}) = Sum(f, S)
<1> DEFINE T == {h[x] : x \in S}
           b == [q \in Pairs(f, S) |-> <<h[q[1]], q[2]>>]
<1>1. \A q \in Pairs(f, S) : q = <<q[1], q[2]>> /\ q[1] \in S /\ q[2] \in Nat /\ q[2] \in 1 .. f[q[1]]
  BY DEF Pairs
<1>2. \A x, n : <<x, n>> \in Pairs(f, S) <=> x \in S /\ n \in Nat /\ n \in 1 .. f[x]
  BY DEF Pairs
<1>3. \A x, n : <<x, n>> \in Pairs(g, T) <=> x \in T /\ n \in Nat /\ n \in 1 .. g[x]
  BY DEF Pairs
<1>4. \A q \in Pairs(g, T) : q = <<q[1], q[2]>>
  BY DEF Pairs
<1>5. \A q \in Pairs(f, S) : b[q] \in Pairs(g, T)
  BY <1>1, <1>3
<1>6. \A q, r \in Pairs(f, S) : b[q] = b[r] => q = r
  <2> TAKE q, r \in Pairs(f, S)
  <2>1. b[q] = <<h[q[1]], q[2]>> /\ b[r] = <<h[r[1]], r[2]>>
    OBVIOUS
  <2> HIDE DEF b
  <2>2. b[q] = b[r] => h[q[1]] = h[r[1]] /\ q[2] = r[2]
    BY <2>1
  <2> QED BY <1>1, <2>2
<1>7. ASSUME NEW r \in Pairs(g, T) PROVE \E q \in Pairs(f, S) : b[q] = r
  <2>1. PICK x, n : r = <<x, n>>
    BY <1>4
  <2>2. x \in T /\ n \in Nat /\ n \in 1 .. g[x]
    BY <1>3, <1>7, <2>1
  <2>3. PICK y \in S : x = h[y]
    BY <2>2
  <2>4. <<y, n>> \in Pairs(f, S)
    BY <1>2, <2>2, <2>3
  <2>5. b[<<y, n>>] = <<x, n>>
    BY <2>3, <2>4
  <2> QED BY <2>1, <2>4, <2>5
<1>8. DOMAIN b = Pairs(f, S) /\ b = [q \in Pairs(f, S) |-> b[q]]
  OBVIOUS
<1> HIDE DEF b, T
<1>9. b \in Bijection(Pairs(f, S), Pairs(g, T))
  <2>1. b \in [Pairs(f, S) -> Pairs(g, T)]
    BY <1>5, <1>8
  <2>2. b \in Injection(Pairs(f, S), Pairs(g, T))
    BY <1>6, <2>1 DEF Injection, IsInjective
  <2>3. b \in Surjection(Pairs(f, S), Pairs(g, T))
    BY <1>7, <2>1 DEF Surjection
  <2> QED BY <2>2, <2>3 DEF Bijection
<1>10. ExistsBijection(Pairs(f, S), Pairs(g, T))
  BY <1>9 DEF ExistsBijection
<1>11. IsFiniteSet(Pairs(f, S))
  BY PairsFinite
<1> QED BY <1>10, <1>11, FS_Bijection DEF Sum, T

\* The components of a view add up to its plan.
LEMMA ComponentsAre ==
  ASSUME NEW p, NEW plan, DOMAIN plan \subseteq Analogues, \A m \in DOMAIN plan : plan[m] \in Nat
  PROVE  ComponentsTotal(PlanView(p, plan)) = Total(plan)
<1> DEFINE T == {Component(p, plan, m) : m \in DOMAIN plan}
           h == [m \in DOMAIN plan |-> Component(p, plan, m)]
           f == [c \in T |-> c.allocated]
           Body(g) == [s \in SUBSET T |->
                         IF s = {} THEN 0
                         ELSE g[s \ {CHOOSE x \in s : TRUE}] + (CHOOSE x \in s : TRUE).allocated]
           it == CHOOSE g : g = Body(g)
<1>1. ComponentsTotal(PlanView(p, plan)) = it[T]
  <2>1. PlanView(p, plan).components = T
    BY DEF PlanView
  <2> QED BY <2>1 DEF ComponentsTotal, FoldSet, MapThenFoldSet
<1>2. IsFiniteSet(DOMAIN plan) /\ T = {h[m] : m \in DOMAIN plan}
  BY SupplyAssumption, FS_Subset
<1>3. \A m \in DOMAIN plan : h[m].material = m /\ h[m].allocated = plan[m] /\ h[m] \in T
  BY DEF Component
<1>4. IsFiniteSet(T)
  <2>1. h \in Surjection(DOMAIN plan, T)
    BY DEF Surjection
  <2> HIDE DEF h, T
  <2> QED BY <1>2, <2>1, FS_Surjection
<1>5. \A c \in T : f[c] = c.allocated /\ f[c] \in Nat
  <2>1. \A c \in T : \E m \in DOMAIN plan : c = h[m]
    OBVIOUS
  <2>2. \A c \in T : f[c] = c.allocated
    OBVIOUS
  <2> HIDE DEF T, h, f
  <2> QED BY <1>3, <2>1, <2>2
<1>6. Sum(f, T) = Sum(plan, DOMAIN plan)
  <2>1. /\ \A m \in DOMAIN plan : f[h[m]] = plan[m]
        /\ \A x, y \in DOMAIN plan : h[x] = h[y] => x = y
    BY <1>3
  <2>2. \A m \in DOMAIN plan : plan[m] \in Nat
    OBVIOUS
  <2> HIDE DEF f, h
  <2>3. Sum(f, {h[m] : m \in DOMAIN plan}) = Sum(plan, DOMAIN plan)
    BY <1>2, <2>1, <2>2, SumMapped
  <2> QED BY <1>2, <2>3
<1> HIDE DEF f, T, h
<1>7. \E g : g = Body(g)
  <2> DEFINE g == [s \in SUBSET T |-> Sum(f, s)]
  <2>1. ASSUME NEW s \in SUBSET T
        PROVE  Sum(f, s) = IF s = {} THEN 0
                           ELSE g[s \ {CHOOSE x \in s : TRUE}] + (CHOOSE x \in s : TRUE).allocated
    <3>1. CASE s = {}
      BY <3>1, SumOfNone
    <3>2. CASE s # {}
      <4>1. PICK x \in s : x = CHOOSE y \in s : TRUE
        BY <3>2
      <4>2. IsFiniteSet(s)
        BY <1>4, FS_Subset
      <4>3. Sum(f, s) = Sum(f, s \ {x}) + f[x]
        BY <1>5, <4>2, SumWithout
      <4>4. g[s \ {x}] = Sum(f, s \ {x})
        OBVIOUS
      <4> HIDE DEF g
      <4> QED BY <1>5, <3>2, <4>1, <4>3, <4>4
    <3> QED BY <3>1, <3>2
  <2>2. g = Body(g)
    BY <2>1
  <2> QED BY <2>2
<1>8. it = Body(it)
  BY <1>7
<1> HIDE DEF it
<1>9. it[{}] = 0
  BY <1>8
<1>10. ASSUME NEW s \in SUBSET T, s # {}
       PROVE  \E x \in s : it[s] = it[s \ {x}] + f[x] \/ it[s] = f[x] + it[s \ {x}]
  <2>1. PICK x \in s : x = CHOOSE y \in s : TRUE
    BY <1>10
  <2>2. it[s] = it[s \ {x}] + f[x]
    BY <1>5, <1>8, <1>10, <2>1
  <2> QED BY <2>2
<1>11. it[T] = Sum(f, T)
  BY <1>4, <1>5, <1>9, <1>10, SumUnique
<1> QED BY <1>1, <1>6, <1>11, PlanTotal

\* A plan of a position, the chosen one or an alternative.
LEMMA PlanIs ==
  ASSUME SupplyInv, NEW p \in Items, Allocated(p), NEW plan \in Plans(p)
  PROVE  /\ Searched(p) /\ DOMAIN plan \subseteq Analogues
         /\ \A m \in DOMAIN plan : plan[m] \in 1 .. Left(m, coverage[p].before)
         /\ Total(plan) \in Nat /\ Total(plan) <= Shortage(p)
<1> DEFINE c == coverage[p]
           n == Cardinality(DOMAIN c.offer)
<1>1. Searched(p)
  BY DEF SupplyInv, Allocated, NotSearched
<1>2. PICK order \in Orders(c.offer) : Given(p, order, n)
  BY <1>1 DEF Searched
<1>3. Among(order, n) = DOMAIN c.offer /\ DOMAIN c.offer \subseteq Analogues
  BY <1>1, OrderIs DEF Searched
<1>4. \E some, k : /\ Greedy(plan, some, k, Shortage(p), c.before)
                   /\ Among(some, k) \subseteq DOMAIN c.offer
  <2>1. CASE plan = c.primary
    <3>1. Greedy(plan, order, n, Shortage(p), c.before)
      BY <1>2, <2>1 DEF Given
    <3> QED BY <1>3, <3>1
  <2>2. CASE plan \in c.alternatives
    <3>1. PICK rest : /\ Greedy(plan, rest, n - 1, Shortage(p), c.before)
                      /\ Among(rest, n - 1) \subseteq Among(order, n)
      BY <1>2, <2>2 DEF Given
    <3> QED BY <1>3, <3>1
  <2> QED BY <2>1, <2>2 DEF Plans
<1>5. PICK some, k : /\ Greedy(plan, some, k, Shortage(p), c.before)
                     /\ Among(some, k) \subseteq DOMAIN c.offer
  BY <1>4
<1>6. /\ DOMAIN plan \subseteq Analogues
      /\ \A m \in DOMAIN plan : plan[m] \in 1 .. Left(m, c.before)
      /\ Total(plan) \in Nat
      /\ Total(plan) = Least(Shortage(p), Sum(Lefts(c.before), Among(some, k)))
  BY <1>3, <1>5 DEF Greedy
<1>7. Shortage(p) \in Nat
  BY ShortageIs
<1>8. Sum(Lefts(c.before), Among(some, k)) \in Nat
  <2>1. \A m \in Among(some, k) : Lefts(c.before)[m] \in Nat
    BY <1>1, <1>3, <1>5 DEF Lefts, Searched
  <2>2. IsFiniteSet(Among(some, k))
    BY <1>3, <1>5, SupplyAssumption, FS_Subset
  <2> QED BY <2>1, <2>2, SumIsNat
<1> QED BY <1>1, <1>6, <1>7, <1>8 DEF Least

\* The numbers of a position that was analysed.
LEMMA PositionIs ==
  ASSUME SupplyInv, Analysed, NEW p \in Items
  PROVE  /\ Required(p) \in Nat \ {0} /\ Available(p) \in Nat
         /\ DirectCovered(p) = Least(Required(p), Available(p))
         /\ Shortage(p) = Required(p) - DirectCovered(p)
         /\ match[p].grade = "NO_MATCH" <=> match[p].material = "none"
         /\ match[p].material = "none" => Available(p) = 0
         /\ WasSearched(p) => Shortage(p) > 0
         /\ Allocated(p) => WasSearched(p) /\ coverage[p].primary \in Plans(p)
<1>1. match[p] \in Match /\ match[p].required \in Nat \ {0}
  BY SupplyAssumption DEF SupplyInv, Analysed, Matched, Match
<1>2. Available(p) \in Nat
  BY ShortageIs
<1>3. WasSearched(p) => Shortage(p) > 0
  BY DEF SupplyInv, WasSearched, Searched
<1>4. Allocated(p) => WasSearched(p) /\ coverage[p].primary \in Plans(p)
  BY DEF Allocated, WasSearched, NotSearched, Plans
<1>5. match[p].material = "none" => Available(p) = 0
  BY DEF Available
<1>6. match[p].grade = "NO_MATCH" <=> match[p].material = "none"
  BY DEF SupplyInv
<1> QED BY <1>1, <1>2, <1>3, <1>4, <1>5, <1>6 DEF Required, DirectCovered, Shortage

\* What its card and its row state.
StatesTrue(p) ==
  LET card == Card(p)
  IN  IF Shown(p)
      THEN /\ DirectStated(p) + AnaloguesStated(p) + card.lack = Required(p)
           /\ match[p].material # "none" =>
                MissingStated(p) = AnaloguesStated(p) + card.lack
           /\ \A view \in card.plans :
                /\ DirectStated(p) + ComponentsTotal(view) + view.lack = Required(p)
                /\ OutOf(view) = Required(p)
                /\ view.complete <=> view.lack = 0
                /\ \A c \in view.components :
                     c.allocated <= c.available /\ c.available <= stock[c.material]
           /\ CompleteStated(p) <=> Row(p).status = "ANALOGUES"
           /\ Plans(p) # {} => /\ Row(p).covered = card.covered
                               /\ Row(p).covered + card.lack = Required(p)
      ELSE Row(p).status = IF p \in LeftOut THEN "INSUFFICIENT" ELSE "FOUND"

\* Who is sent to procurement, who is found, and who is left out.
StatusIs(p) ==
  /\ Status(p) \in {"NOT_FOUND", "INSUFFICIENT"} <=>
       ((Shown(p) /\ LackStated(p) > 0) \/ p \in LeftOut)
  /\ Status(p) = "FOUND" <=> (~Shown(p) /\ p \notin LeftOut)
  /\ p \in LeftOut => Status(p) = "INSUFFICIENT"
  /\ Shortened => (Status(p) = "INSUFFICIENT" => p \in LeftOut)

LEMMA StatusStated ==
  ASSUME SupplyInv, Analysed, NEW p \in Items
  PROVE  /\ StatusIs(p)
         /\ CompleteStated(p) <=> Status(p) = "ANALOGUES"
<1> DEFINE T == Total(coverage[p].primary)
<1>1. /\ Required(p) \in Nat \ {0} /\ Available(p) \in Nat
      /\ DirectCovered(p) = Least(Required(p), Available(p))
      /\ Shortage(p) = Required(p) - DirectCovered(p)
      /\ match[p].grade = "NO_MATCH" <=> match[p].material = "none"
      /\ match[p].material = "none" => Available(p) = 0
      /\ WasSearched(p) => Shortage(p) > 0
      /\ Allocated(p) => WasSearched(p) /\ coverage[p].primary \in Plans(p)
  BY PositionIs
<1>2. Shortage(p) > 0 <=> Available(p) < Required(p)
  BY <1>1 DEF Least
<1>3. Shown(p) => Available(p) < Required(p)
  BY <1>1, <1>2 DEF Shown
<1>4. p \in LeftOut <=> (~Shown(p) /\ Available(p) < Required(p))
  BY <1>2 DEF LeftOut
<1>5. Status(p) = "FOUND" <=> Available(p) >= Required(p)
  BY <1>1 DEF Status, Required
<1>6. Status(p) = "FOUND" <=> (~Shown(p) /\ p \notin LeftOut)
  BY <1>1, <1>3, <1>4, <1>5
<1>7. CASE Allocated(p)
  <2>1. T \in Nat /\ T <= Shortage(p)
    BY <1>1, <1>7, PlanIs
  <2>2. CoveredInFull(p) <=> DirectCovered(p) + T >= Required(p)
    BY DEF CoveredInFull, Required
  <2>3. CompleteStated(p) <=> DirectCovered(p) + T >= Required(p)
    BY <1>7 DEF CompleteStated, IsComplete, PlanCovers, Primary
  <2>4. LackStated(p) = MoreThanNone(Required(p) - (DirectCovered(p) + T))
    BY <1>7 DEF LackStated, PlanLacks, PlanCovers, Primary
  <2>5. Status(p) = IF Available(p) >= Required(p) THEN "FOUND"
                    ELSE IF CoveredInFull(p) THEN "ANALOGUES" ELSE "INSUFFICIENT"
    BY <1>1, <1>7 DEF Status, Required
  <2>6. Shown(p) /\ p \notin LeftOut /\ ~Shortened
    BY <1>1, <1>4, <1>7 DEF Shown, Shortened
  <2> HIDE DEF T
  <2>7. Available(p) < Required(p) /\ DirectCovered(p) \in Nat
    BY <1>1, <1>3, <2>6 DEF Least
  <2>8. LackStated(p) > 0 <=> ~CoveredInFull(p)
    BY <1>1, <2>1, <2>2, <2>4, <2>7 DEF MoreThanNone
  <2> QED BY <1>1, <1>6, <2>2, <2>3, <2>5, <2>6, <2>7, <2>8 DEF StatusIs
<1>8. CASE ~Allocated(p)
  <2>1. ~CompleteStated(p)
    BY <1>8 DEF CompleteStated
  <2>2. Status(p) = IF Available(p) >= Required(p) /\ match[p].material # "none" THEN "FOUND"
                    ELSE IF match[p].material # "none" THEN "INSUFFICIENT" ELSE "NOT_FOUND"
    BY <1>8 DEF Status, Required
  <2>3. Shown(p) => LackStated(p) > 0
    <3>1. ASSUME Available(p) < Required(p)
          PROVE  CoveredStated(p) = Available(p) /\ Shortage(p) > 0
      BY <1>1, <1>2, <1>8, <3>1 DEF CoveredStated, DirectStated, MoreThanNone, Least
    <3> QED BY <1>1, <1>3, <1>8, <3>1 DEF LackStated, MoreThanNone
  <2>4. p \in LeftOut => match[p].material # "none"
    BY <1>1, <1>4 DEF Shown
  <2>5. Shortened => (Shown(p) => match[p].material = "none")
    BY <1>1, <1>8 DEF Shown, Shortened
  <2> QED BY <1>1, <1>3, <1>4, <1>6, <2>1, <2>2, <2>3, <2>4, <2>5 DEF StatusIs
<1> QED BY <1>7, <1>8

LEMMA CardAddsUp ==
  ASSUME SupplyInv, Analysed, NEW p \in Items
  PROVE  StatesTrue(p)
<1>1. /\ Required(p) \in Nat \ {0} /\ Available(p) \in Nat
      /\ DirectCovered(p) = Least(Required(p), Available(p))
      /\ Shortage(p) = Required(p) - DirectCovered(p)
      /\ match[p].grade = "NO_MATCH" <=> match[p].material = "none"
      /\ match[p].material = "none" => Available(p) = 0
      /\ WasSearched(p) => Shortage(p) > 0
      /\ Allocated(p) => WasSearched(p) /\ coverage[p].primary \in Plans(p)
  BY PositionIs
<1>2. /\ Status(p) = "FOUND" <=> (~Shown(p) /\ p \notin LeftOut)
      /\ p \in LeftOut => Status(p) = "INSUFFICIENT"
      /\ CompleteStated(p) <=> Status(p) = "ANALOGUES"
  BY StatusStated DEF StatusIs
<1>3. Row(p).status = Status(p)
  BY DEF Row
<1>4. CASE ~Shown(p)
  BY <1>2, <1>3, <1>4 DEF StatesTrue
<1>5. CASE Shown(p)
  <2>1. Available(p) < Required(p)
    BY <1>1, <1>5 DEF Shown, Least
  <2>2. DirectStated(p) = Available(p) /\ DirectCovered(p) = Available(p)
    BY <1>1, <2>1 DEF DirectStated, MoreThanNone, Least
  <2>3. MissingStated(p) = Required(p) - Available(p)
    BY <1>1, <2>1 DEF MissingStated, MoreThanNone
  <2>4. ASSUME NEW plan \in Plans(p)
        PROVE  LET view == PlanView(p, plan)
               IN  /\ DirectStated(p) + ComponentsTotal(view) + view.lack = Required(p)
                   /\ OutOf(view) = Required(p)
                   /\ view.complete <=> view.lack = 0
                   /\ view.lack = Required(p) - Available(p) - Total(plan)
                   /\ \A c \in view.components :
                        c.allocated <= c.available /\ c.available <= stock[c.material]
    <3> DEFINE view == PlanView(p, plan)
    <3>1. Allocated(p)
      BY DEF Plans
    <3>2. /\ Searched(p) /\ DOMAIN plan \subseteq Analogues
          /\ \A m \in DOMAIN plan : plan[m] \in 1 .. Left(m, coverage[p].before)
          /\ Total(plan) \in Nat /\ Total(plan) <= Shortage(p)
      BY <3>1, PlanIs
    <3>3. \A m \in Analogues : /\ coverage[p].before[m] \in Nat /\ stock[m] \in Nat
                               /\ Left(m, coverage[p].before) = stock[m] - coverage[p].before[m]
      BY <3>2, SupplyAssumption DEF Searched, SupplyInv, Left
    <3>4. \A m \in DOMAIN plan :
            /\ plan[m] \in Nat /\ plan[m] <= stock[m] - coverage[p].before[m]
            /\ stock[m] \in Nat /\ coverage[p].before[m] \in Nat
      <4>1. \A m \in DOMAIN plan : Left(m, coverage[p].before) \in Nat
        BY <3>2, <3>3 DEF Searched
      <4> QED BY <3>2, <3>3, <4>1
    <3>5. ComponentsTotal(view) = Total(plan)
      BY <3>2, <3>4, ComponentsAre
    <3>6. /\ view.covered = Available(p) + Total(plan)
          /\ view.lack = MoreThanNone(Required(p) - (Available(p) + Total(plan)))
          /\ view.complete <=> Available(p) + Total(plan) >= Required(p)
      BY <2>2 DEF PlanView, PlanCovers, PlanLacks, IsComplete
    <3>7. view.components = {Component(p, plan, m) : m \in DOMAIN plan}
      BY DEF PlanView
    <3>8. \A c \in view.components :
            c.allocated <= c.available /\ c.available <= stock[c.material]
      <4>1. ASSUME NEW m \in DOMAIN plan
            PROVE  LET c == Component(p, plan, m)
                   IN  c.allocated <= c.available /\ c.available <= stock[c.material]
        <5>1. LET c == Component(p, plan, m)
              IN  /\ c.material = m /\ c.allocated = plan[m]
                  /\ c.available = plan[m] + ((stock[m] - coverage[p].before[m]) - plan[m])
          BY DEF Component
        <5> QED BY <3>4, <5>1
      <4> QED BY <3>7, <4>1
    <3>9. OutOf(view) = view.covered + view.lack
      BY DEF OutOf
    <3> HIDE DEF view
    <3>10. Available(p) + Total(plan) <= Required(p)
      BY <1>1, <2>2, <3>2
    <3>11. view.lack = Required(p) - (Available(p) + Total(plan))
      BY <1>1, <3>2, <3>6, <3>10 DEF MoreThanNone
    <3>12. view.complete \in BOOLEAN
      BY DEF view, PlanView, IsComplete
    <3>13. view.complete <=> view.lack = 0
      BY <1>1, <3>2, <3>6, <3>10, <3>11
    <3>14. /\ DirectStated(p) + ComponentsTotal(view) + view.lack = Required(p)
           /\ OutOf(view) = Required(p)
           /\ view.lack = Required(p) - Available(p) - Total(plan)
      BY <1>1, <2>2, <3>2, <3>5, <3>6, <3>9, <3>11
    <3> QED BY <3>8, <3>13, <3>14 DEF view
  <2>5. /\ DirectStated(p) + AnaloguesStated(p) + LackStated(p) = Required(p)
        /\ MissingStated(p) = AnaloguesStated(p) + LackStated(p)
    <3>1. CASE Allocated(p)
      <4> DEFINE T == Total(coverage[p].primary)
      <4>1. T \in Nat /\ T <= Shortage(p)
        BY <1>1, <3>1, PlanIs
      <4>2. CoveredStated(p) = Available(p) + T
        BY <2>2, <3>1 DEF CoveredStated, PlanCovers, Primary
      <4>3. LackStated(p) = MoreThanNone(Required(p) - (Available(p) + T))
        BY <2>2, <3>1 DEF LackStated, PlanLacks, PlanCovers, Primary
      <4> HIDE DEF T
      <4>4. AnaloguesStated(p) = T
        BY <1>1, <2>2, <4>1, <4>2 DEF AnaloguesStated, MoreThanNone
      <4>5. LackStated(p) = Required(p) - (Available(p) + T)
        BY <1>1, <2>2, <4>1, <4>3 DEF MoreThanNone
      <4> QED BY <1>1, <2>2, <2>3, <4>1, <4>4, <4>5
    <3>2. CASE ~Allocated(p)
      <4>1. CoveredStated(p) = Available(p)
        BY <2>2, <3>2 DEF CoveredStated
      <4>2. AnaloguesStated(p) = 0
        BY <1>1, <2>2, <4>1 DEF AnaloguesStated, MoreThanNone
      <4>3. LackStated(p) = Shortage(p)
        BY <1>1, <2>1, <2>2, <3>2, <4>1 DEF LackStated, MoreThanNone
      <4>4. Shortage(p) = Required(p) - Available(p)
        BY <1>1, <2>2
      <4>5. Required(p) \in Nat /\ Available(p) \in Nat
        BY <1>1
      <4>6. DirectStated(p) = Available(p)
        BY <2>2
      <4> QED BY <2>3, <4>2, <4>3, <4>4, <4>5, <4>6
    <3> QED BY <3>1, <3>2
  <2>6. /\ Card(p).lack = LackStated(p)
        /\ Card(p).plans = {PlanView(p, plan) : plan \in Plans(p)}
    BY DEF Card
  <2>7. \A view \in Card(p).plans :
          /\ DirectStated(p) + ComponentsTotal(view) + view.lack = Required(p)
          /\ OutOf(view) = Required(p)
          /\ view.complete <=> view.lack = 0
          /\ \A c \in view.components :
               c.allocated <= c.available /\ c.available <= stock[c.material]
    BY <2>4, <2>6
  <2>8. ASSUME Plans(p) # {}
        PROVE  /\ Row(p).covered = Card(p).covered
               /\ Row(p).covered + Card(p).lack = Required(p)
    <3> DEFINE T == Total(coverage[p].primary)
    <3>1. Allocated(p)
      BY <2>8 DEF Plans
    <3>2. T \in Nat /\ T <= Shortage(p)
      BY <1>1, <3>1, PlanIs
    <3>3. Row(p).covered = DirectCovered(p) + T
      BY <3>1 DEF Row, RowCovers
    <3>4. Card(p).covered = DirectCovered(p) + T
      BY <3>1 DEF Card, CoveredStated, PlanCovers, Primary
    <3>5. Card(p).lack = MoreThanNone(Required(p) - (DirectCovered(p) + T))
      BY <3>1 DEF Card, LackStated, PlanLacks, PlanCovers, Primary
    <3> HIDE DEF T
    <3> QED BY <1>1, <2>2, <3>2, <3>3, <3>4, <3>5 DEF MoreThanNone
  <2> QED BY <1>2, <1>3, <1>5, <2>5, <2>6, <2>7, <2>8 DEF StatesTrue
<1> QED BY <1>4, <1>5

\* What the last position given some of an analogue leaves of it is what is left.
LEMMA RemainsStated ==
  ASSUME SupplyInv, NEW m \in Analogues, reserved[m] > 0
  PROVE  \E p \in Items : \E c \in PlanView(p, Primary(p)).components :
           c.material = m /\ c.remaining = stock[m] - reserved[m]
<1>1. PICK p \in Items : LastGiven(p, m)
  BY DEF SupplyInv
<1> DEFINE plan == coverage[p].primary
<1>2. /\ m \in DOMAIN plan /\ coverage[p].before[m] + plan[m] = reserved[m]
      /\ plan[m] \in Nat
  <2>1. Taken(plan, m) \in Nat
    BY DEF SupplyInv
  <2> QED BY <1>1, <2>1 DEF LastGiven, Taken
<1>3. Searched(p)
  <2>1. coverage[p] # NotSearched
    BY <1>1, NothingFound DEF LastGiven
  <2> QED BY <2>1 DEF SupplyInv
<1>4. coverage[p].before[m] \in Nat /\ stock[m] \in Nat
  BY <1>3, SupplyAssumption DEF Searched, SupplyInv
<1>5. /\ Component(p, plan, m).material = m
      /\ Component(p, plan, m).remaining = (stock[m] - coverage[p].before[m]) - plan[m]
  BY DEF Component
<1>6. Component(p, plan, m) \in PlanView(p, Primary(p)).components
  BY <1>2 DEF PlanView, Primary
<1>7. Component(p, plan, m).remaining = stock[m] - reserved[m]
  BY <1>2, <1>4, <1>5
<1> QED BY <1>5, <1>6, <1>7

LEMMA TwoApart ==
  ASSUME NEW A, NEW B, IsFiniteSet(A), IsFiniteSet(B), A \cap B = {}
  PROVE  /\ IsFiniteSet(A \cup B) /\ Cardinality(A \cup B) \in Nat
         /\ Cardinality(A) \in Nat /\ Cardinality(B) \in Nat
         /\ Cardinality(A \cup B) = Cardinality(A) + Cardinality(B)
<1>1. /\ IsFiniteSet(A \cup B)
      /\ Cardinality(A \cup B) = Cardinality(A) + Cardinality(B) - Cardinality(A \cap B)
  BY FS_Union
<1>2. Cardinality(A \cap B) = 0
  BY FS_EmptySet
<1>3. Cardinality(A) \in Nat /\ Cardinality(B) \in Nat /\ Cardinality(A \cup B) \in Nat
  BY <1>1, FS_CardinalityType
<1> QED BY <1>1, <1>2, <1>3

\* The categories of the positions.
LEMMA CategoriesAddUp ==
  ASSUME SupplyInv
  PROVE  Summary.exact + Summary.likely + Summary.review + Summary.noMatch = Summary.total
<1> DEFINE a == InCategory("EXACT")
           b == InCategory("LIKELY")
           c == InCategory("REVIEW")
           d == InCategory("NO_MATCH")
<1>1. \A p \in Items : CategoryOf(p) \in {"EXACT", "LIKELY", "REVIEW", "NO_MATCH"}
  BY DEF SupplyInv, Match, Unmatched, Grades, CategoryOf
<1>2. /\ a \cup b \cup c \cup d = Items
      /\ a \cap b = {} /\ (a \cup b) \cap c = {} /\ (a \cup b \cup c) \cap d = {}
  BY <1>1 DEF InCategory
<1>3. /\ Summary.exact = Cardinality(a) /\ Summary.likely = Cardinality(b)
      /\ Summary.review = Cardinality(c) /\ Summary.noMatch = Cardinality(d)
      /\ Summary.total = Cardinality(Items)
  BY DEF Summary
<1>4. IsFiniteSet(a) /\ IsFiniteSet(b) /\ IsFiniteSet(c) /\ IsFiniteSet(d)
  <2>1. /\ a \in SUBSET Items /\ b \in SUBSET Items
        /\ c \in SUBSET Items /\ d \in SUBSET Items
    BY DEF InCategory
  <2> HIDE DEF a, b, c, d
  <2> QED BY <2>1, SupplyAssumption, FS_Subset
<1> HIDE DEF a, b, c, d
<1>5. IsFiniteSet(a \cup b) /\ Cardinality(a \cup b) = Cardinality(a) + Cardinality(b)
  BY <1>2, <1>4, TwoApart
<1>6. /\ IsFiniteSet((a \cup b) \cup c)
      /\ Cardinality((a \cup b) \cup c) = Cardinality(a \cup b) + Cardinality(c)
  BY <1>2, <1>4, <1>5, TwoApart
<1>7. Cardinality(((a \cup b) \cup c) \cup d) = Cardinality((a \cup b) \cup c) + Cardinality(d)
  BY <1>2, <1>4, <1>6, TwoApart
<1> QED BY <1>2, <1>3, <1>5, <1>6, <1>7

\* A position that is not found has a row.
LEMMA HasRow ==
  ASSUME SupplyInv, Analysed, NEW p \in Items, Shown(p)
  PROVE  \E row \in AnalogueRows : row[1] = p
<1> DEFINE Its(q) == IF Plans(q) = {} THEN {<<q>>}
                     ELSE UNION {{<<q, view.covered, c.material>> : c \in view.components} :
                                   view \in Card(q).plans}
<1>1. AnalogueRows = UNION {Its(q) : q \in {i \in Items : Shown(i)}}
  BY DEF AnalogueRows
<1>2. \A row \in Its(p) : row \in AnalogueRows
  BY <1>1
<1>3. CASE Plans(p) = {}
  <2>1. <<p>> \in Its(p) /\ <<p>>[1] = p
    BY <1>3
  <2> QED BY <1>2, <2>1
<1>4. CASE Plans(p) # {}
  <2> DEFINE plan == coverage[p].primary
             view == PlanView(p, plan)
  <2>1. Allocated(p) /\ plan \in Plans(p)
    BY <1>4 DEF Plans
  <2>2. Searched(p)
    BY <2>1, PlanIs
  <2>3. PICK m \in DOMAIN plan : TRUE
    BY <2>1, <2>2 DEF Searched
  <2>4. view \in Card(p).plans
    BY <2>1 DEF Card
  <2>5. Component(p, plan, m) \in view.components
    BY DEF PlanView
  <2> DEFINE row == <<p, view.covered, Component(p, plan, m).material>>
  <2>6. row \in Its(p)
    <3> HIDE DEF view, plan
    <3> QED BY <1>4, <2>4, <2>5
  <2>7. row[1] = p
    OBVIOUS
  <2> QED BY <1>2, <2>6, <2>7
<1> QED BY <1>3, <1>4

LEMMA RowIsOfPosition ==
  ASSUME NEW row \in AnalogueRows
  PROVE  row[1] \in {p \in Items : Shown(p)}
<1>1. PICK p \in {i \in Items : Shown(i)} :
        row \in IF Plans(p) = {} THEN {<<p>>}
                ELSE UNION {{<<p, view.covered, c.material>> : c \in view.components} :
                              view \in Card(p).plans}
  BY DEF AnalogueRows
<1> QED BY <1>1

LEMMA AddsUp == SupplyInv => ReportAddsUp
<1> SUFFICES ASSUME SupplyInv, Analysed PROVE ReportAddsUp
  BY DEF ReportAddsUp
<1>1. \A p \in Items : StatesTrue(p)
  BY CardAddsUp
<1>2. \A p \in Items : StatusIs(p)
  BY StatusStated
<1>3. \A m \in Analogues : reserved[m] > 0 =>
        \E p \in Items : \E c \in PlanView(p, Primary(p)).components :
          c.material = m /\ c.remaining = stock[m] - reserved[m]
  BY RemainsStated
<1>4. Summary.procurement = Cardinality({p \in Items : Shown(p) /\ LackStated(p) > 0})
                            + Cardinality(LeftOut)
  <2> DEFINE Lacking == {p \in Items : Shown(p) /\ LackStated(p) > 0}
  <2>1. WithStatus({"NOT_FOUND", "INSUFFICIENT"}) = Lacking \cup LeftOut
    BY <1>2 DEF WithStatus, StatusIs, LeftOut
  <2>2. Summary.procurement = Cardinality(WithStatus({"NOT_FOUND", "INSUFFICIENT"}))
    BY DEF Summary
  <2>3. Lacking \cap LeftOut = {} /\ Lacking \in SUBSET Items /\ LeftOut \in SUBSET Items
    BY DEF LeftOut
  <2> HIDE DEF Lacking
  <2>4. IsFiniteSet(Lacking) /\ IsFiniteSet(LeftOut)
    BY <2>3, SupplyAssumption, FS_Subset
  <2>5. Cardinality(Lacking \cup LeftOut) = Cardinality(Lacking) + Cardinality(LeftOut)
    BY <2>3, <2>4, TwoApart
  <2> QED BY <2>1, <2>2, <2>5 DEF Lacking
<1>5. Summary.found = Cardinality({p \in Items : ~Shown(p)} \ LeftOut)
  <2>1. WithStatus({"FOUND"}) = {p \in Items : ~Shown(p)} \ LeftOut
    BY <1>2 DEF WithStatus, StatusIs
  <2>2. Summary.found = Cardinality(WithStatus({"FOUND"}))
    BY DEF Summary
  <2> QED BY <2>1, <2>2
<1>6. Summary.analogues = Cardinality({p \in Items : Plans(p) # {}})
  <2>1. {p \in Items : Allocated(p)} = {p \in Items : Plans(p) # {}}
    BY DEF Plans
  <2>2. Summary.analogues = Cardinality({p \in Items : Allocated(p)})
    BY DEF Summary
  <2> QED BY <2>1, <2>2
<1>7. {row[1] : row \in AnalogueRows} \cup {p \in Items : Row(p).status = "FOUND"}
        = Items \ LeftOut
  <2>1. \A p \in Items : Row(p).status = "FOUND" <=> (~Shown(p) /\ p \notin LeftOut)
    BY <1>2 DEF Row, StatusIs
  <2>2. \A p \in Items : Shown(p) => \E row \in AnalogueRows : row[1] = p
    BY HasRow
  <2>3. \A p \in LeftOut : ~Shown(p)
    BY DEF LeftOut
  <2> QED BY <2>1, <2>2, <2>3, RowIsOfPosition
<1>8. SearchedForAll => LeftOut = {}
  BY DEF SearchedForAll, LeftOut, Shown
<1>9. Shortened => Summary.insufficient = Cardinality(LeftOut)
  <2>1. Shortened => WithStatus({"INSUFFICIENT"}) = LeftOut
    BY <1>2 DEF WithStatus, StatusIs, LeftOut
  <2>2. Summary.insufficient = Cardinality(WithStatus({"INSUFFICIENT"}))
    BY DEF Summary
  <2> QED BY <2>1, <2>2
<1> QED BY <1>1, <1>3, <1>4, <1>5, <1>6, <1>7, <1>8, <1>9, CategoriesAddUp
        DEF ReportAddsUp, StatesTrue

\* The numbers of the report agree, after a search for analogues and in a shortened
\* scenario: direct stock, analogues and lack make up what a shown position requires, in
\* every plan, and its row states as much as its card; what is called available exists;
\* and the summary counts what is shown and, in a shortened scenario only, the matches
\* that are short of stock, which the cards leave out.
THEOREM ReportsAddUp == SupplySpec => []ReportAddsUp
BY SupplyStep, SupplyBegins, AddsUp, PTL DEF SupplySpec

-----------------------------------------------------------------------------
(* What is advised for one position. *)

\* What there is of a position's material.
LEMMA NumbersAre ==
  ASSUME dataset \in Dataset
  PROVE  /\ dataset.required \in Nat \ {0} /\ dataset.substitutes \in Nat
         /\ dataset.delay \in Nat /\ dataset.offered \in BOOLEAN
         /\ \A r \in Rows : Free(r) \in Nat
<1>1. /\ dataset.required \in 1 .. MaxAmount /\ dataset.substitutes \in 0 .. MaxSubstitutes
      /\ dataset.delay \in Delays /\ dataset.offered \in BOOLEAN
      /\ dataset.onHand \in [Rows -> 0 .. MaxAmount] /\ dataset.held \in [Rows -> 0 .. MaxAmount]
  BY DEF Dataset
<1>2. \A r \in Rows : Free(r) \in Nat
  BY <1>1, AnalyticsAssumption DEF Free, Larger
<1>3. dataset.required \in Nat \ {0} /\ dataset.substitutes \in Nat
  BY <1>1, AnalyticsAssumption
<1>4. dataset.delay \in Nat
  BY <1>1, AnalyticsAssumption
<1> QED BY <1>1, <1>2, <1>3, <1>4

LEMMA FreeTotal ==
  ASSUME dataset \in Dataset
  PROVE  FoldSet(LAMBDA r, sum : sum + Free(r), 0, Rows) \in Nat
<1> DEFINE Body(g) == [s \in SUBSET Rows |->
                         IF s = {} THEN 0
                         ELSE g[s \ {CHOOSE x \in s : TRUE}] + Free(CHOOSE x \in s : TRUE)]
           it == CHOOSE g : g = Body(g)
           f == [r \in Rows |-> Free(r)]
<1>1. FoldSet(LAMBDA r, sum : sum + Free(r), 0, Rows) = it[Rows]
  BY DEF FoldSet, MapThenFoldSet
<1>2. IsFiniteSet(Rows)
  BY AnalyticsAssumption
<1>3. \A x \in Rows : f[x] = Free(x) /\ f[x] \in Nat
  BY NumbersAre
<1> HIDE DEF f
<1>4. \E g : g = Body(g)
  <2> DEFINE g == [s \in SUBSET Rows |-> Sum(f, s)]
  <2>1. ASSUME NEW s \in SUBSET Rows
        PROVE  Sum(f, s) = IF s = {} THEN 0
                           ELSE g[s \ {CHOOSE x \in s : TRUE}] + Free(CHOOSE x \in s : TRUE)
    <3>1. CASE s = {}
      BY <3>1, SumOfNone
    <3>2. CASE s # {}
      <4>1. PICK x \in s : x = CHOOSE y \in s : TRUE
        BY <3>2
      <4>2. IsFiniteSet(s)
        BY <1>2, FS_Subset
      <4>3. Sum(f, s) = Sum(f, s \ {x}) + f[x]
        BY <1>3, <4>2, SumWithout
      <4>4. g[s \ {x}] = Sum(f, s \ {x})
        OBVIOUS
      <4> HIDE DEF g
      <4> QED BY <1>3, <3>2, <4>1, <4>3, <4>4
    <3> QED BY <3>1, <3>2
  <2>2. g = Body(g)
    BY <2>1
  <2> QED BY <2>2
<1>5. it = Body(it)
  BY <1>4
<1> HIDE DEF it
<1>6. it[{}] = 0
  BY <1>5
<1>7. ASSUME NEW s \in SUBSET Rows, s # {}
      PROVE  \E x \in s : it[s] = it[s \ {x}] + f[x] \/ it[s] = f[x] + it[s \ {x}]
  <2>1. PICK x \in s : x = CHOOSE y \in s : TRUE
    BY <1>7
  <2>2. it[s] = it[s \ {x}] + Free(x)
    BY <1>5, <1>7, <2>1
  <2> QED BY <1>3, <2>2
<1>8. it[Rows] = Sum(f, Rows)
  BY <1>2, <1>3, <1>6, <1>7, SumUnique
<1>9. Sum(f, Rows) \in Nat
  BY <1>2, <1>3, SumIsNat
<1> QED BY <1>1, <1>8, <1>9

WeightsOf(a) == [m \in DOMAIN a.plan |-> Weight(a, m)]

LEMMA DeviationsTotal ==
  ASSUME NEW a, IsFiniteSet(DOMAIN a.plan), \A m \in DOMAIN a.plan : Weight(a, m) \in Nat
  PROVE  Deviations(a) = Sum(WeightsOf(a), DOMAIN a.plan)
<1> DEFINE S == DOMAIN a.plan
           Body(g) == [s \in SUBSET S |->
                         IF s = {} THEN 0
                         ELSE g[s \ {CHOOSE x \in s : TRUE}] + Weight(a, CHOOSE x \in s : TRUE)]
           it == CHOOSE g : g = Body(g)
           f == WeightsOf(a)
<1>1. Deviations(a) = it[S]
  BY DEF Deviations, FoldSet, MapThenFoldSet
<1>3. \A x \in S : f[x] = Weight(a, x) /\ f[x] \in Nat
  BY DEF WeightsOf
<1> HIDE DEF f
<1>4. \E g : g = Body(g)
  <2> DEFINE g == [s \in SUBSET S |-> Sum(f, s)]
  <2>1. ASSUME NEW s \in SUBSET S
        PROVE  Sum(f, s) = IF s = {} THEN 0
                           ELSE g[s \ {CHOOSE x \in s : TRUE}] + Weight(a, CHOOSE x \in s : TRUE)
    <3>1. CASE s = {}
      BY <3>1, SumOfNone
    <3>2. CASE s # {}
      <4>1. PICK x \in s : x = CHOOSE y \in s : TRUE
        BY <3>2
      <4>2. IsFiniteSet(s)
        BY FS_Subset
      <4>3. Sum(f, s) = Sum(f, s \ {x}) + f[x]
        BY <1>3, <4>2, SumWithout
      <4>4. g[s \ {x}] = Sum(f, s \ {x})
        OBVIOUS
      <4> HIDE DEF g
      <4> QED BY <1>3, <3>2, <4>1, <4>3, <4>4
    <3> QED BY <3>1, <3>2
  <2>2. g = Body(g)
    BY <2>1
  <2> QED BY <2>2
<1>5. it = Body(it)
  BY <1>4
<1> HIDE DEF it
<1>6. it[{}] = 0
  BY <1>5
<1>7. ASSUME NEW s \in SUBSET S, s # {}
      PROVE  \E x \in s : it[s] = it[s \ {x}] + f[x] \/ it[s] = f[x] + it[s \ {x}]
  <2>1. PICK x \in s : x = CHOOSE y \in s : TRUE
    BY <1>7
  <2>2. it[s] = it[s \ {x}] + Weight(a, x)
    BY <1>5, <1>7, <2>1
  <2> QED BY <1>3, <2>2
<1>8. it[S] = Sum(f, S)
  BY <1>3, <1>6, <1>7, SumUnique
<1> QED BY <1>1, <1>8 DEF f

LEMMA SumOfOne ==
  ASSUME NEW f, NEW x, f[x] \in Nat
  PROVE  Sum(f, {x}) = f[x]
<1>1. IsFiniteSet({x}) /\ {x} \ {x} = {}
  BY FS_Singleton
<1>2. Sum(f, {x}) = Sum(f, {x} \ {x}) + f[x]
  BY <1>1, SumWithout
<1> QED BY <1>1, <1>2, SumOfNone

-----------------------------------------------------------------------------
(* The shares of substitutes. *)

LEMMA Division ==
  ASSUME NEW x \in Nat, NEW n \in Nat \ {0}
  PROVE  /\ x \div n \in Int
         /\ n * (x \div n) \in Int /\ n * (x \div n) <= x /\ x < n * (x \div n) + n
<1>1. x \div n \in Int /\ x % n \in 0 .. (n - 1)
  OBVIOUS
<1>2. x = n * (x \div n) + (x % n)
  OBVIOUS
<1>3. n * (x \div n) \in Int
  BY <1>1
<1> QED BY <1>1, <1>2, <1>3

LEMMA ShareIs ==
  ASSUME NEW n \in Nat \ {0}, dataset.required \in Nat \ {0}
  PROVE  /\ Share(n) \in Nat \ {0} /\ n * Share(n) \in Nat
         /\ dataset.required <= n * Share(n) /\ n * Share(n) < dataset.required + n
<1>1. PICK r : r = dataset.required
  OBVIOUS
<1>2. PICK x : x = r + n - 1
  OBVIOUS
<1>3. PICK q : q = x \div n
  OBVIOUS
<1>4. r \in Nat \ {0} /\ x \in Nat
  BY <1>1, <1>2
<1>5. Share(n) = q
  BY <1>1, <1>2, <1>3 DEF Share
<1>6. q \in Int /\ n * q \in Int /\ n * q <= x /\ x < n * q + n
  BY <1>3, <1>4, Division
<1>7. r <= n * q /\ n * q < r + n /\ n * q \in Nat
  BY <1>2, <1>4, <1>6
<1>8. q > 0
  <2>1. SUFFICES ASSUME q <= 0 PROVE FALSE
    BY <1>6
  <2>2. n * q <= 0
    BY <1>6, <2>1
  <2> QED BY <1>4, <1>7, <2>2
<1> QED BY <1>1, <1>5, <1>6, <1>7, <1>8

\* How many of the substitutes are needed.
LEMMA LastUsed ==
  ASSUME NEW r \in Nat \ {0}, NEW q \in Nat \ {0}, NEW n \in Nat \ {0}, r <= n * q
  PROVE  \E last \in 1 .. n : (last - 1) * q < r /\ r <= last * q
<1> DEFINE Enough == {m \in Nat : r <= m * q}
<1>1. n \in Enough
  OBVIOUS
<1>2. PICK last \in Enough : \A m \in Enough : last <= m
  <2>1. Enough \subseteq Nat /\ Enough # {}
    BY <1>1
  <2> HIDE DEF Enough
  <2> QED BY <2>1, LeastOne
<1>3. last <= n /\ last \in Nat /\ r <= last * q
  BY <1>1, <1>2
<1>4. last # 0
  BY <1>3
<1>5. last - 1 \in Nat /\ last - 1 < last
  BY <1>3, <1>4
<1>6. last - 1 \notin Enough
  BY <1>2, <1>5
<1>7. (last - 1) * q \in Int
  BY <1>5
<1> QED BY <1>3, <1>4, <1>5, <1>6, <1>7

LEMMA TimesGrows ==
  ASSUME NEW j \in Int, NEW k \in Int, NEW q \in Nat, j <= k
  PROVE  j * q <= k * q /\ j * q \in Int /\ k * q \in Int
<1>1. PICK d \in Nat : k = j + d
  BY k - j \in Nat
<1>2. (j + d) * q = j * q + d * q /\ d * q >= 0
  BY <1>1
<1> QED BY <1>1, <1>2

LEMMA FirstOf ==
  ASSUME NEW n \in Nat \ {0}
  PROVE  /\ (1 .. n) \ {n} = 1 .. (n - 1) /\ n \in 1 .. n
         /\ IsFiniteSet(1 .. n) /\ IsFiniteSet(1 .. (n - 1))
<1>1. n >= 1 /\ n \in Nat /\ 1 \in Int /\ n \in Int /\ n - 1 \in Int
  OBVIOUS
<1>2. IsFiniteSet(1 .. n) /\ IsFiniteSet(1 .. (n - 1))
  BY <1>1, FS_Interval
<1> QED BY <1>1, <1>2, GreatestOfFirst

\* A sum whose elements are all the same but the last.
LEMMA EvenSum ==
  ASSUME NEW last \in Nat \ {0}, NEW q \in Nat, NEW f,
         \A k \in 1 .. (last - 1) : f[k] = q, f[last] \in Nat
  PROVE  Sum(f, 1 .. last) = (last - 1) * q + f[last]
<1> DEFINE Bad == {j \in Nat : j < last /\ Sum(f, 1 .. j) # j * q}
<1>1. \A k \in 1 .. last : f[k] \in Nat
  <2>1. \A k \in 1 .. last : k \in 1 .. (last - 1) \/ k = last
    OBVIOUS
  <2> QED BY <2>1
<1>2. Bad = {}
  <2>1. SUFFICES ASSUME Bad # {} PROVE FALSE
    OBVIOUS
  <2>2. PICK j \in Bad : \A m \in Bad : j <= m
    <3>1. Bad \subseteq Nat
      OBVIOUS
    <3> HIDE DEF Bad
    <3> QED BY <2>1, <3>1, LeastOne
  <2>3. j \in Nat /\ j < last /\ Sum(f, 1 .. j) # j * q
    BY <2>2
  <2>4. j # 0
    <3>1. 1 .. 0 = {} /\ 0 * q = 0
      OBVIOUS
    <3> QED BY <2>3, <3>1, SumOfNone
  <2>5. j - 1 \in Nat /\ j - 1 < last /\ j - 1 < j
    BY <2>3, <2>4
  <2>6. j - 1 \notin Bad
    <3> HIDE DEF Bad
    <3> QED BY <2>2, <2>3, <2>5
  <2>7. Sum(f, 1 .. (j - 1)) = (j - 1) * q
    BY <2>5, <2>6
  <2>8. (1 .. j) \ {j} = 1 .. (j - 1) /\ j \in 1 .. j /\ j \in 1 .. (last - 1)
    BY <2>3, <2>4, GreatestOfFirst
  <2>9. \A k \in 1 .. j : f[k] \in Nat
    BY <1>1, <2>3
  <2>10. IsFiniteSet(1 .. j)
    BY <2>3, FS_Interval
  <2>11. Sum(f, 1 .. j) = Sum(f, (1 .. j) \ {j}) + f[j]
    BY <2>8, <2>9, <2>10, SumWithout
  <2>12. (j - 1) * q + q = j * q
    BY <2>3
  <2> QED BY <2>3, <2>7, <2>8, <2>11, <2>12
<1>3. last - 1 \in Nat /\ last - 1 < last
  OBVIOUS
<1>4. Sum(f, 1 .. (last - 1)) = (last - 1) * q
  BY <1>2, <1>3
<1>5. (1 .. last) \ {last} = 1 .. (last - 1) /\ last \in 1 .. last /\ IsFiniteSet(1 .. last)
  BY FirstOf
<1>6. Sum(f, 1 .. last) = Sum(f, (1 .. last) \ {last}) + f[last]
  BY <1>1, <1>5, SumWithout
<1> QED BY <1>4, <1>5, <1>6

\* The same, each counted with its deviation.
LEMMA EvenDeviations ==
  ASSUME NEW last \in Nat \ {0}, NEW q \in Nat, NEW w,
         \A k \in 1 .. (last - 1) : w[k] = q * Deviation(k), w[last] \in Nat
  PROVE  2 * Sum(w, 1 .. last) = q * (3 * ((last - 1) * (last - 1)) + 7 * (last - 1)) + 2 * w[last]
<1> DEFINE Bad == {j \in Nat : j < last /\ 2 * Sum(w, 1 .. j) # q * (3 * (j * j) + 7 * j)}
<1>1. \A k \in 1 .. last : w[k] \in Nat
  <2>1. \A k \in 1 .. last : k \in 1 .. (last - 1) \/ k = last
    OBVIOUS
  <2>2. \A k \in 1 .. (last - 1) : Deviation(k) \in Nat /\ q * Deviation(k) \in Nat
    BY DEF Deviation
  <2> QED BY <2>1, <2>2
<1>2. Bad = {}
  <2>1. SUFFICES ASSUME Bad # {} PROVE FALSE
    OBVIOUS
  <2>2. PICK j \in Bad : \A m \in Bad : j <= m
    <3>1. Bad \subseteq Nat
      OBVIOUS
    <3> HIDE DEF Bad
    <3> QED BY <2>1, <3>1, LeastOne
  <2>3. j \in Nat /\ j < last /\ 2 * Sum(w, 1 .. j) # q * (3 * (j * j) + 7 * j)
    BY <2>2
  <2>4. j # 0
    <3>1. 1 .. 0 = {} /\ q * (3 * (0 * 0) + 7 * 0) = 0 /\ 2 * 0 = 0
      OBVIOUS
    <3> QED BY <2>3, <3>1, SumOfNone
  <2>5. j - 1 \in Nat /\ j - 1 < last /\ j - 1 < j
    BY <2>3, <2>4
  <2>6. j - 1 \notin Bad
    <3> HIDE DEF Bad
    <3> QED BY <2>2, <2>3, <2>5
  <2>7. 2 * Sum(w, 1 .. (j - 1)) = q * (3 * ((j - 1) * (j - 1)) + 7 * (j - 1))
    BY <2>5, <2>6
  <2>8. (1 .. j) \ {j} = 1 .. (j - 1) /\ j \in 1 .. j /\ j \in 1 .. (last - 1)
    BY <2>3, <2>4, GreatestOfFirst
  <2>9. \A k \in 1 .. j : w[k] \in Nat
    BY <1>1, <2>3
  <2>10. IsFiniteSet(1 .. j) /\ IsFiniteSet(1 .. (j - 1))
    BY <2>3, <2>5, FS_Interval
  <2>11. Sum(w, 1 .. j) = Sum(w, (1 .. j) \ {j}) + w[j]
    BY <2>8, <2>9, <2>10, SumWithout
  <2>12. w[j] = q * (2 + 3 * j)
    BY <2>8 DEF Deviation
  <2>13. q * (3 * ((j - 1) * (j - 1)) + 7 * (j - 1)) + 2 * (q * (2 + 3 * j))
           = q * (3 * (j * j) + 7 * j)
    <3>1. 3 * ((j - 1) * (j - 1)) + 7 * (j - 1) + 2 * (2 + 3 * j) = 3 * (j * j) + 7 * j
      BY <2>3
    <3> QED BY <2>3, <3>1
  <2>14. Sum(w, 1 .. (j - 1)) \in Nat
    <3>1. \A k \in 1 .. (j - 1) : w[k] \in Nat
      BY <2>3, <2>9
    <3> QED BY <2>10, <3>1, SumIsNat
  <2>15. PICK a, b : a = Sum(w, 1 .. (j - 1)) /\ b = q * (2 + 3 * j)
    OBVIOUS
  <2>16. a \in Nat /\ b \in Nat /\ Sum(w, 1 .. j) = a + b
    <3>1. a \in Nat
      BY <2>14, <2>15
    <3>2. w[j] = b /\ b \in Nat
      BY <2>3, <2>8, <2>9, <2>12, <2>15
    <3> QED BY <2>8, <2>11, <2>15, <3>1, <3>2
  <2>17. 2 * Sum(w, 1 .. j) = 2 * a + 2 * b
    BY <2>16
  <2> QED BY <2>3, <2>7, <2>13, <2>15, <2>17
<1>3. last - 1 \in Nat /\ last - 1 < last
  OBVIOUS
<1>4. 2 * Sum(w, 1 .. (last - 1)) = q * (3 * ((last - 1) * (last - 1)) + 7 * (last - 1))
  BY <1>2, <1>3
<1>5. /\ (1 .. last) \ {last} = 1 .. (last - 1) /\ last \in 1 .. last
      /\ IsFiniteSet(1 .. last) /\ IsFiniteSet(1 .. (last - 1))
  BY FirstOf
<1>6. Sum(w, 1 .. last) = Sum(w, (1 .. last) \ {last}) + w[last]
  BY <1>1, <1>5, SumWithout
<1>7. Sum(w, 1 .. (last - 1)) \in Nat
  <2>1. \A k \in 1 .. (last - 1) : w[k] \in Nat
    BY <1>1
  <2> QED BY <1>5, <2>1, SumIsNat
<1>8. PICK a, b, c : a = Sum(w, 1 .. (last - 1)) /\ b = w[last] /\ c = Sum(w, 1 .. last)
  OBVIOUS
<1>9. a \in Nat /\ b \in Nat /\ c = a + b
  BY <1>5, <1>6, <1>7, <1>8
<1>10. 2 * c = 2 * a + 2 * b
  BY <1>9
<1> QED BY <1>4, <1>8, <1>10

\* The combination takes what it needs, one after the other.
CompositeTakes(last) ==
  LET n == dataset.substitutes
      q == Share(n)
      plan == Composite.plan
  IN  /\ last \in 1 .. n /\ (last - 1) * q < dataset.required /\ dataset.required <= last * q
      /\ DOMAIN plan = 1 .. last
      /\ \A k \in 1 .. (last - 1) : plan[k] = q
      /\ plan[last] = dataset.required - (last - 1) * q
      /\ plan[last] \in 1 .. q
      /\ Composite.lead = last + dataset.delay
      /\ Amount(Composite) = dataset.required /\ ~Composite.rejected

LEMMA CompositeIs ==
  ASSUME dataset \in Dataset, Eligible # {}
  PROVE  \E last : CompositeTakes(last)
<1> DEFINE n == dataset.substitutes
           r == dataset.required
           q == Share(n)
           plan == Composite.plan
           before(k) == Smaller(r, (k - 1) * q)
<1>1. Eligible = 1 .. n /\ n \in Nat \ {0} /\ r \in Nat \ {0} /\ dataset.delay \in Nat
  BY NumbersAre DEF Eligible
<1>2. q \in Nat \ {0} /\ r <= n * q
  BY <1>1, ShareIs
<1>3. PICK last \in 1 .. n : (last - 1) * q < r /\ r <= last * q
  <2> HIDE DEF n, r, q
  <2> QED BY <1>1, <1>2, LastUsed
<1>4. last \in Nat \ {0} /\ last - 1 \in Nat
  BY <1>1, <1>3
<1>5. plan = [k \in {k \in Eligible : before(k) < r} |-> Smaller(q, r - before(k))]
  BY <1>1 DEF Composite, Alternative
<1>6. Composite.rejected = (FoldFunction(+, 0, plan) < r)
  BY <1>5 DEF Composite, Alternative
<1>7. Composite.lead = IF {k \in Eligible : before(k) < r} = {} THEN 0
                       ELSE Lead(Max({k \in Eligible : before(k) < r}))
  BY <1>1 DEF Composite, Alternative
<1> HIDE DEF n, r, q, plan
<1>8. ASSUME NEW k \in 1 .. last
      PROVE  (k - 1) * q \in Int /\ (k - 1) * q < r /\ before(k) = (k - 1) * q
  <2>1. (k - 1) * q <= (last - 1) * q /\ (k - 1) * q \in Int /\ (last - 1) * q \in Int
    BY <1>2, <1>4, TimesGrows
  <2>2. (k - 1) * q < r
    BY <1>1, <1>3, <2>1
  <2> QED BY <1>1, <2>1, <2>2 DEF Smaller
<1>9. ASSUME NEW k \in 1 .. n, k \notin 1 .. last PROVE ~(before(k) < r)
  <2>1. last <= k - 1
    BY <1>1, <1>4, <1>9
  <2>2. last * q <= (k - 1) * q /\ (k - 1) * q \in Int /\ last * q \in Int
    BY <1>1, <1>2, <1>4, <2>1, TimesGrows
  <2> QED BY <1>1, <1>3, <2>2 DEF Smaller
<1>10. {k \in Eligible : before(k) < r} = 1 .. last
  <2>1. \A k \in 1 .. last : k \in 1 .. n
    BY <1>1, <1>3
  <2> HIDE DEF before
  <2>2. \A k \in 1 .. last : before(k) < r
    BY <1>8
  <2> QED BY <1>1, <1>9, <2>1, <2>2
<1>11. DOMAIN plan = 1 .. last /\ \A k \in 1 .. last : plan[k] = Smaller(q, r - before(k))
  BY <1>5, <1>10
<1>12. ASSUME NEW k \in 1 .. (last - 1) PROVE plan[k] = q
  <2>1. k \in 1 .. last
    BY <1>4
  <2>2. k * q <= (last - 1) * q /\ k * q \in Int /\ (last - 1) * q \in Int /\ k * q = (k - 1) * q + q
    BY <1>2, <1>4, TimesGrows
  <2>3. plan[k] = Smaller(q, r - (k - 1) * q)
    BY <1>8, <1>11, <2>1
  <2> QED BY <1>1, <1>2, <1>3, <2>2, <2>3 DEF Smaller
<1>13. plan[last] = r - (last - 1) * q /\ plan[last] \in 1 .. q
  <2>1. plan[last] = Smaller(q, r - (last - 1) * q)
    BY <1>4, <1>8, <1>11
  <2>2. last * q = (last - 1) * q + q /\ (last - 1) * q \in Int
    BY <1>2, <1>4
  <2> QED BY <1>1, <1>2, <1>3, <2>1, <2>2 DEF Smaller
<1>14. Composite.lead = last + dataset.delay
  <2>1. Max(1 .. last) = last /\ 1 .. last # {}
    BY <1>4, GreatestOfFirst
  <2> QED BY <1>7, <1>10, <2>1 DEF Lead
<1>15. FoldFunction(+, 0, plan) = r
  <2>1. \A k \in 1 .. last : k \in 1 .. (last - 1) \/ k = last
    BY <1>4
  <2>2. \A k \in DOMAIN plan : plan[k] \in Nat
    BY <1>2, <1>11, <1>12, <1>13, <2>1
  <2>3. FoldFunction(+, 0, plan) = Sum(plan, 1 .. last)
    <3>1. IsFiniteSet(DOMAIN plan)
      BY <1>4, <1>11, FirstOf
    <3>2. FoldFunction(+, 0, plan) = Sum(plan, DOMAIN plan)
      BY <2>2, <3>1, FunctionTotal
    <3> QED BY <1>11, <3>2
  <2>4. Sum(plan, 1 .. last) = (last - 1) * q + plan[last]
    BY <1>2, <1>4, <1>12, <1>13, EvenSum
  <2>5. (last - 1) * q \in Int
    BY <1>2, <1>4
  <2>6. PICK a : a = (last - 1) * q
    OBVIOUS
  <2>7. a \in Int /\ plan[last] = r - a
    BY <1>13, <2>5, <2>6
  <2>8. a + plan[last] = r
    BY <1>1, <2>7
  <2> QED BY <2>3, <2>4, <2>6, <2>8
<1>16. Amount(Composite) = r
  BY <1>15 DEF Amount, plan
<1>17. ~Composite.rejected
  <2>1. ~(r < r)
    BY <1>1
  <2> QED BY <1>6, <1>15, <2>1
<1>18. CompositeTakes(last)
  BY <1>3, <1>11, <1>12, <1>13, <1>14, <1>16, <1>17 DEF CompositeTakes, n, r, q, plan
<1> QED BY <1>18

-----------------------------------------------------------------------------
(* Which way is best. *)

LEMMA LeadCosts ==
  ASSUME NEW r \in Nat, NEW x \in Int
  PROVE  r * (400 - 2 * x) = 400 * r - 2 * (x * r) /\ x * r \in Int
OBVIOUS

LEMMA CompositeScores ==
  ASSUME dataset \in Dataset, NEW last, CompositeTakes(last)
  PROVE  \E worst \in Nat :
           /\ Deviations(Composite) = worst
           /\ last <= 11 => worst <= 20 * dataset.required
           /\ last = 1 => worst = 5 * dataset.required
<1> DEFINE n == dataset.substitutes
           r == dataset.required
           q == Share(n)
           plan == Composite.plan
           w == WeightsOf(Composite)
<1>1. n \in Nat /\ r \in Nat \ {0}
  BY NumbersAre
<1>2. /\ last \in 1 .. n /\ (last - 1) * q < r /\ r <= last * q
      /\ DOMAIN plan = 1 .. last
      /\ \A k \in 1 .. (last - 1) : plan[k] = q
      /\ plan[last] = r - (last - 1) * q
      /\ plan[last] \in 1 .. q
  BY DEF CompositeTakes
<1>3. n \in Nat \ {0} /\ last \in Nat \ {0} /\ q \in Nat \ {0}
  <2>1. n \in Nat \ {0} /\ last \in Nat \ {0}
    BY <1>1, <1>2
  <2> QED BY <1>1, <2>1, ShareIs
<1>4. \A m : Weight(Composite, m) = plan[m] * Deviation(m)
  BY DEF Weight, Composite, Alternative
<1> HIDE DEF n, r, q, plan
<1>5. \A k \in 1 .. last : plan[k] \in Nat
  <2>1. \A k \in 1 .. last : k \in 1 .. (last - 1) \/ k = last
    BY <1>3
  <2> QED BY <1>2, <1>3, <2>1
<1>6. \A k \in 1 .. last : plan[k] * Deviation(k) \in Nat
  <2>1. \A k \in 1 .. last : Deviation(k) \in Nat
    BY <1>3 DEF Deviation
  <2> QED BY <1>5, <2>1
<1>7. DOMAIN Composite.plan = 1 .. last /\ IsFiniteSet(1 .. last)
  BY <1>2, <1>3, FirstOf DEF plan
<1>8. \A k \in 1 .. last : w[k] = plan[k] * Deviation(k)
  BY <1>4, <1>7 DEF WeightsOf
<1>9. Deviations(Composite) = Sum(w, 1 .. last)
  BY <1>4, <1>6, <1>7, DeviationsTotal
<1> HIDE DEF w
<1>10. Sum(w, 1 .. last) \in Nat
  BY <1>6, <1>7, <1>8, SumIsNat
<1>11. \A k \in 1 .. (last - 1) : w[k] = q * Deviation(k)
  <2>1. \A k \in 1 .. (last - 1) : k \in 1 .. last
    BY <1>3
  <2> QED BY <1>2, <1>8, <2>1
<1>12. w[last] \in Nat /\ w[last] = plan[last] * (2 + 3 * last) /\ last \in 1 .. last
  BY <1>3, <1>6, <1>8 DEF Deviation
<1>13. 2 * Sum(w, 1 .. last)
         = q * (3 * ((last - 1) * (last - 1)) + 7 * (last - 1)) + 2 * w[last]
  BY <1>3, <1>11, <1>12, EvenDeviations
<1>14. PICK s, p : s = Sum(w, 1 .. last) /\ p = plan[last]
  OBVIOUS
<1>15. /\ s \in Nat /\ p \in Nat /\ p <= q /\ q \in Nat /\ r \in Nat
       /\ r = (last - 1) * q + p
       /\ 2 * s = q * (3 * ((last - 1) * (last - 1)) + 7 * (last - 1)) + 2 * (p * (2 + 3 * last))
  <2>1. p \in Nat /\ p <= q /\ p = r - (last - 1) * q
    BY <1>2, <1>3, <1>14
  <2>2. (last - 1) * q \in Int
    BY <1>3
  <2> QED BY <1>1, <1>3, <1>10, <1>12, <1>13, <1>14, <2>1, <2>2
<1>16. ASSUME last <= 11 PROVE s <= 20 * r
  <2>1. last \in {1, 2, 3, 4, 5, 6, 7, 8, 9, 10, 11}
    BY <1>3, <1>16
  <2>2. CASE last = 1
    BY <1>15, <2>2
  <2>3. CASE last = 2
    BY <1>15, <2>3
  <2>4. CASE last = 3
    BY <1>15, <2>4
  <2>5. CASE last = 4
    BY <1>15, <2>5
  <2>6. CASE last = 5
    BY <1>15, <2>6
  <2>7. CASE last = 6
    BY <1>15, <2>7
  <2>8. CASE last = 7
    BY <1>15, <2>8
  <2>9. CASE last = 8
    BY <1>15, <2>9
  <2>10. CASE last = 9
    BY <1>15, <2>10
  <2>11. CASE last = 10
    BY <1>15, <2>11
  <2>12. CASE last = 11
    BY <1>15, <2>12
  <2> QED BY <2>1, <2>2, <2>3, <2>4, <2>5, <2>6, <2>7, <2>8, <2>9, <2>10, <2>11, <2>12
<1>17. last = 1 => s = 5 * r
  BY <1>15
<1> QED BY <1>9, <1>14, <1>15, <1>16, <1>17 DEF r

\* The ways other than the combination.
LEMMA OthersScore ==
  ASSUME dataset \in Dataset
  PROVE  LET r == dataset.required
             d == dataset.delay
             direct == FoldSet(LAMBDA x, sum : sum + Free(x), 0, Rows) >= r
         IN  /\ DirectOnly.kind = "DIRECT" /\ Procurement.kind = "PROCUREMENT"
             /\ Amount(DirectOnly) = DirectCoverage /\ Amount(Procurement) = r
             /\ Feasible(DirectOnly) <=> direct
             /\ Feasible(Procurement) <=> 30 + d <= 90
             /\ Score(DirectOnly) = 400 * r
             /\ Score(Procurement) = r * (400 - 2 * Smaller(50, 30 + d))
<1> DEFINE r == dataset.required
           d == dataset.delay
           all == FoldSet(LAMBDA x, sum : sum + Free(x), 0, Rows)
<1>1. r \in Nat \ {0} /\ d \in Nat /\ all \in Nat
  BY NumbersAre, FreeTotal
<1>2. DirectCoverage = Smaller(r, all)
  BY DEF DirectCoverage
<1>3. /\ DirectOnly.kind = "DIRECT" /\ Procurement.kind = "PROCUREMENT"
      /\ DirectOnly.plan = [m \in {"stock"} |-> DirectCoverage]
      /\ Procurement.plan = [m \in {"order"} |-> r]
      /\ DirectOnly.lead = 0 /\ Procurement.lead = 30 + d
      /\ DirectOnly.rejected = (DirectCoverage < r) /\ Procurement.rejected = (30 + d > 90)
  BY DEF DirectOnly, Procurement, Alternative
<1> HIDE DEF r, d, all
<1>4. DirectCoverage \in Nat
  BY <1>1, <1>2 DEF Smaller
<1>5. Amount(DirectOnly) = DirectCoverage
  <2>1. DOMAIN DirectOnly.plan = {"stock"} /\ DirectOnly.plan["stock"] = DirectCoverage
    BY <1>3
  <2>2. IsFiniteSet({"stock"}) /\ \A x \in {"stock"} : DirectOnly.plan[x] \in Nat
    BY <1>4, <2>1, FS_Singleton
  <2>3. Amount(DirectOnly) = Sum(DirectOnly.plan, {"stock"})
    BY <2>1, <2>2, FunctionTotal DEF Amount
  <2> QED BY <1>4, <2>1, <2>3, SumOfOne
<1>6. Amount(Procurement) = r
  <2>1. DOMAIN Procurement.plan = {"order"} /\ Procurement.plan["order"] = r
    BY <1>3
  <2>2. IsFiniteSet({"order"}) /\ \A x \in {"order"} : Procurement.plan[x] \in Nat
    BY <1>1, <2>1, FS_Singleton
  <2>3. Amount(Procurement) = Sum(Procurement.plan, {"order"})
    BY <2>1, <2>2, FunctionTotal DEF Amount
  <2> QED BY <1>1, <2>1, <2>3, SumOfOne
<1>7. ASSUME NEW a \in {DirectOnly, Procurement} PROVE Deviations(a) = 0
  <2>1. \A m : Weight(a, m) = 0
    BY <1>3 DEF Weight
  <2>2. PICK x : DOMAIN a.plan = {x}
    BY <1>3
  <2>3. IsFiniteSet(DOMAIN a.plan) /\ \A m \in DOMAIN a.plan : Weight(a, m) \in Nat
    BY <2>1, <2>2, FS_Singleton
  <2>4. Deviations(a) = Sum(WeightsOf(a), {x})
    BY <2>2, <2>3, DeviationsTotal
  <2>5. WeightsOf(a)[x] = 0
    BY <2>1, <2>2 DEF WeightsOf
  <2> QED BY <2>4, <2>5, SumOfOne
<1>8. Feasible(DirectOnly) <=> all >= r
  <2>1. DirectOnly.rejected <=> DirectCoverage < r
    BY <1>3
  <2>2. Feasible(DirectOnly) <=> DirectCoverage = r /\ ~(DirectCoverage < r)
    BY <1>5, <2>1 DEF Feasible, r
  <2>3. DirectCoverage = IF r < all THEN r ELSE all
    BY <1>2 DEF Smaller
  <2>4. DirectCoverage = r /\ ~(DirectCoverage < r) <=> all >= r
    BY <1>1, <2>3
  <2> QED BY <2>2, <2>4
<1>9. Feasible(Procurement) <=> 30 + d <= 90
  <2>1. Procurement.rejected <=> 30 + d > 90
    BY <1>3
  <2>2. Feasible(Procurement) <=> ~(30 + d > 90)
    BY <1>6, <2>1 DEF Feasible, r
  <2>3. ~(30 + d > 90) <=> 30 + d <= 90
    BY <1>1
  <2> QED BY <2>2, <2>3
<1>10. Score(DirectOnly) = 400 * r
  <2>1. Score(DirectOnly) = r * (400 - 2 * Smaller(50, 0)) - Smaller(100 * r, 0)
    BY <1>3, <1>7 DEF Score, r
  <2> QED BY <1>1, <2>1 DEF Smaller
<1>11. Score(Procurement) = r * (400 - 2 * Smaller(50, 30 + d))
  <2>1. Score(Procurement) = r * (400 - 2 * Smaller(50, 30 + d)) - Smaller(100 * r, 0)
    BY <1>3, <1>7 DEF Score, r
  <2>2. Smaller(100 * r, 0) = 0
    BY <1>1 DEF Smaller
  <2>3. r * (400 - 2 * Smaller(50, 30 + d)) \in Int
    BY <1>1 DEF Smaller
  <2> QED BY <2>1, <2>2, <2>3
<1> QED BY <1>3, <1>5, <1>6, <1>8, <1>9, <1>10, <1>11 DEF r, d, all

LEMMA OneScores ==
  ASSUME dataset \in Dataset, NEW k \in Eligible
  PROVE  LET r == dataset.required
             taken == Smaller(r, Share(dataset.substitutes))
         IN  /\ OneSubstitute(k).kind = "SINGLE_SUBSTITUTE"
             /\ Feasible(OneSubstitute(k)) <=> taken = r
             /\ Score(OneSubstitute(k)) =
                  r * (400 - 2 * Smaller(50, k + dataset.delay))
                    - Smaller(100 * r, taken * (2 + 3 * k))
<1> DEFINE r == dataset.required
           taken == Smaller(r, Share(dataset.substitutes))
           one == OneSubstitute(k)
<1>1. /\ k \in 1 .. dataset.substitutes /\ dataset.substitutes \in Nat \ {0} /\ k \in Nat
      /\ r \in Nat \ {0}
  BY NumbersAre DEF Eligible
<1>2. Share(dataset.substitutes) \in Nat
  BY <1>1, ShareIs
<1>3. /\ one.kind = "SINGLE_SUBSTITUTE" /\ one.plan = [m \in {k} |-> taken]
      /\ one.lead = k + dataset.delay /\ one.rejected = (taken < r)
  BY DEF OneSubstitute, Alternative, Lead
<1>4. taken \in Nat /\ taken <= r
  BY <1>1, <1>2 DEF Smaller
<1> HIDE DEF r, taken, one
<1>5. DOMAIN one.plan = {k} /\ one.plan[k] = taken /\ IsFiniteSet({k})
  BY <1>3, FS_Singleton
<1>6. Amount(one) = taken
  <2>1. \A x \in {k} : one.plan[x] \in Nat
    BY <1>4, <1>5
  <2>2. Amount(one) = Sum(one.plan, {k})
    BY <1>5, <2>1, FunctionTotal DEF Amount
  <2> QED BY <1>4, <1>5, <2>2, SumOfOne
<1>7. Deviations(one) = taken * (2 + 3 * k)
  <2>1. Weight(one, k) = taken * (2 + 3 * k) /\ Weight(one, k) \in Nat
    BY <1>1, <1>3, <1>4, <1>5 DEF Weight, Deviation
  <2>2. Deviations(one) = Sum(WeightsOf(one), {k})
    BY <1>5, <2>1, DeviationsTotal
  <2>3. WeightsOf(one)[k] = Weight(one, k)
    BY <1>5 DEF WeightsOf
  <2> QED BY <2>1, <2>2, <2>3, SumOfOne
<1>8. Feasible(one) <=> taken = r
  <2>1. one.rejected <=> taken < r
    BY <1>3
  <2>2. Feasible(one) <=> taken = r /\ ~(taken < r)
    BY <1>6, <2>1 DEF Feasible, r
  <2>3. taken = r /\ ~(taken < r) <=> taken = r
    BY <1>1, <1>4
  <2> QED BY <2>2, <2>3
<1>9. Score(one) = r * (400 - 2 * Smaller(50, k + dataset.delay)) - Smaller(100 * r, taken * (2 + 3 * k))
  BY <1>3, <1>7 DEF Score, r
<1> QED BY <1>3, <1>8, <1>9 DEF r, taken, one

Allowed == dataset.offered /\ dataset.substitutes > 0

LEMMA CompositeJudged ==
  ASSUME dataset \in Dataset
  PROVE  /\ Composite.kind = "COMPOSITE_SUBSTITUTE"
         /\ Feasible(Composite) <=> Allowed
         /\ Allowed <=> Eligible # {}
<1>1. /\ dataset.substitutes \in Nat /\ dataset.required \in Nat \ {0}
      /\ dataset.offered \in BOOLEAN
  BY NumbersAre
<1>2. Allowed <=> Eligible # {}
  BY <1>1 DEF Allowed, Eligible
<1>3. Composite.kind = "COMPOSITE_SUBSTITUTE"
  BY DEF Composite, Alternative
<1>4. CASE Eligible # {}
  <2>1. PICK last : CompositeTakes(last)
    BY <1>4, CompositeIs
  <2>2. Feasible(Composite)
    BY <2>1 DEF CompositeTakes, Feasible
  <2> QED BY <1>2, <1>3, <1>4, <2>2
<1>5. CASE Eligible = {}
  <2>1. DOMAIN Composite.plan = {}
    BY <1>5 DEF Composite, Alternative
  <2>2. Amount(Composite) = 0
    <3>1. IsFiniteSet(DOMAIN Composite.plan) /\ \A x \in DOMAIN Composite.plan : Composite.plan[x] \in Nat
      BY <2>1, FS_EmptySet
    <3>2. Amount(Composite) = Sum(Composite.plan, DOMAIN Composite.plan)
      BY <3>1, FunctionTotal DEF Amount
    <3> QED BY <2>1, <3>2, SumOfNone
  <2>3. ~Feasible(Composite)
    BY <1>1, <2>2 DEF Feasible
  <2> QED BY <1>2, <1>3, <1>5, <2>3
<1> QED BY <1>4, <1>5

\* How the combination compares with the others.
LEMMA CompositeCompares ==
  ASSUME dataset \in Dataset, Allowed
  PROVE  /\ Score(Composite) \in Int /\ Score(Composite) < 400 * dataset.required
         /\ \A k \in Eligible : Feasible(OneSubstitute(k)) =>
              /\ Score(OneSubstitute(k)) \in Int
              /\ Score(OneSubstitute(k)) <= Score(Composite)
         /\ dataset.substitutes <= 11 /\ dataset.substitutes + dataset.delay <= 40 =>
              Score(Procurement) <= Score(Composite)
<1> DEFINE r == dataset.required
           d == dataset.delay
           n == dataset.substitutes
           q == Share(n)
<1>1. r \in Nat \ {0} /\ d \in Nat /\ n \in Nat
  BY NumbersAre
<1>2. PICK last : CompositeTakes(last)
  BY CompositeJudged, CompositeIs
<1>3. PICK worst \in Nat :
        /\ Deviations(Composite) = worst
        /\ last <= 11 => worst <= 20 * r
        /\ last = 1 => worst = 5 * r
  BY <1>2, CompositeScores
<1>4. /\ last \in 1 .. n /\ (last - 1) * q < r /\ Composite.lead = last + d
  BY <1>2 DEF CompositeTakes
<1>5. last \in Nat \ {0} /\ last <= n /\ n \in Nat \ {0}
  BY <1>1, <1>4
<1>6. q \in Nat \ {0}
  BY <1>1, <1>5, ShareIs
<1>7. Score(Composite) = r * (400 - 2 * Smaller(50, last + d)) - Smaller(100 * r, worst)
  BY <1>3, <1>4 DEF Score
<1>8. Score(Procurement) = r * (400 - 2 * Smaller(50, 30 + d))
  BY OthersScore
<1> HIDE DEF r, d, n, q
<1> DEFINE x == Smaller(50, last + d)
           y == Smaller(50, 30 + d)
           dev == Smaller(100 * r, worst)
<1>9. /\ x \in Nat /\ y \in Nat /\ x >= 1 /\ x <= 50 /\ dev \in Nat /\ dev <= worst
      /\ x <= last + d /\ y <= 30 + d
  BY <1>1, <1>3, <1>5 DEF Smaller
<1>10. /\ Score(Composite) = 400 * r - 2 * (x * r) - dev /\ x * r \in Int
       /\ Score(Procurement) = 400 * r - 2 * (y * r) /\ y * r \in Int
  BY <1>1, <1>7, <1>8, <1>9, LeadCosts
<1>11. r <= x * r
  <2>1. 1 * r <= x * r /\ 1 * r = r
    BY <1>1, <1>9, TimesGrows
  <2> QED BY <2>1
<1>12. Score(Composite) \in Int /\ Score(Composite) < 400 * r
  <2> HIDE DEF x, y, dev
  <2> QED BY <1>1, <1>9, <1>10, <1>11
<1>13. ASSUME NEW k \in Eligible, Feasible(OneSubstitute(k))
       PROVE  /\ Score(OneSubstitute(k)) \in Int
              /\ Score(OneSubstitute(k)) <= Score(Composite)
  <2> DEFINE taken == Smaller(r, q)
             z == Smaller(50, k + d)
             its == Smaller(100 * r, taken * (2 + 3 * k))
  <2>1. taken = r /\ Score(OneSubstitute(k)) = r * (400 - 2 * z) - its
    BY <1>13, OneScores DEF r, d, n, q
  <2>2. k \in Nat /\ k >= 1
    BY <1>1 DEF Eligible, n
  <2>3. r <= q
    BY <1>1, <1>6, <2>1 DEF Smaller
  <2>4. last = 1
    <3>1. SUFFICES ASSUME last # 1 PROVE FALSE
      OBVIOUS
    <3>2. 1 * q <= (last - 1) * q /\ 1 * q = q /\ (last - 1) * q \in Int
      BY <1>5, <1>6, <3>1, TimesGrows
    <3> QED BY <1>1, <1>4, <1>6, <2>3, <3>2
  <2>5. z \in Nat /\ x <= z
    BY <1>1, <2>2, <2>4 DEF Smaller
  <2>6. r * (2 + 3 * k) \in Nat /\ 5 * r <= r * (2 + 3 * k)
    <3>1. 5 * r <= (2 + 3 * k) * r /\ (2 + 3 * k) * r \in Int
      BY <1>1, <2>2, TimesGrows
    <3>2. (2 + 3 * k) * r = r * (2 + 3 * k)
      BY <1>1, <2>2
    <3> QED BY <1>1, <3>1, <3>2
  <2>7. dev = 5 * r
    BY <1>1, <1>3, <2>4 DEF Smaller
  <2>8. its \in Nat /\ its >= 5 * r
    BY <1>1, <2>1, <2>6 DEF Smaller
  <2>9. x * r <= z * r /\ z * r \in Int
    BY <1>1, <1>9, <2>5, TimesGrows
  <2>10. Score(OneSubstitute(k)) = 400 * r - 2 * (z * r) - its
    BY <1>1, <2>1, <2>5, LeadCosts
  <2> HIDE DEF x, y, dev, z, its, taken
  <2> QED BY <1>1, <1>9, <1>10, <2>7, <2>8, <2>9, <2>10
<1>14. ASSUME n <= 11, n + d <= 40 PROVE Score(Procurement) <= Score(Composite)
  <2>1. last <= 11 /\ last + d <= 40
    BY <1>1, <1>5, <1>14
  <2>2. dev <= 20 * r
    BY <1>1, <1>3, <1>9, <2>1
  <2>3. x = last + d /\ x + 10 <= y
    BY <1>1, <1>5, <2>1 DEF Smaller
  <2>4. (x + 10) * r <= y * r /\ (x + 10) * r = x * r + 10 * r
    <3> HIDE DEF x, y
    <3> QED BY <1>1, <1>9, <2>3, TimesGrows
  <2> HIDE DEF x, y, dev
  <2> QED BY <1>1, <1>9, <1>10, <2>2, <2>4
<1> QED BY <1>12, <1>13, <1>14 DEF r, d, n

\* The ways that can be recommended: one substitute alone never is.
Ways == {DirectOnly, Composite, Procurement}

LEMMA WaysAre ==
  ASSUME dataset \in Dataset
  PROVE  /\ DirectOnly.kind = "DIRECT" /\ Precedence["DIRECT"] = 2
         /\ Composite.kind = "COMPOSITE_SUBSTITUTE" /\ Precedence["COMPOSITE_SUBSTITUTE"] = 1
         /\ Procurement.kind = "PROCUREMENT" /\ Precedence["PROCUREMENT"] = 3
         /\ \A a \in Ways : Feasible(a) => Score(a) \in Int
         /\ Score(Procurement) \in Int /\ Score(Procurement) < 400 * dataset.required
<1>1. /\ dataset.required \in Nat \ {0} /\ dataset.delay \in Nat
  BY NumbersAre
<1>2. /\ DirectOnly.kind = "DIRECT" /\ Procurement.kind = "PROCUREMENT"
      /\ Score(DirectOnly) = 400 * dataset.required
      /\ Score(Procurement) = dataset.required * (400 - 2 * Smaller(50, 30 + dataset.delay))
  BY OthersScore
<1>3. Composite.kind = "COMPOSITE_SUBSTITUTE" /\ (Feasible(Composite) <=> Allowed)
  BY CompositeJudged
<1>4. Feasible(Composite) => Score(Composite) \in Int
  BY <1>3, CompositeCompares
<1>5. Score(Procurement) \in Int /\ Score(Procurement) < 400 * dataset.required
  <2> DEFINE r == dataset.required
             y == Smaller(50, 30 + dataset.delay)
  <2>1. y \in Nat /\ y >= 1
    BY <1>1 DEF Smaller
  <2>2. Score(Procurement) = r * (400 - 2 * y) /\ r \in Nat \ {0}
    BY <1>1, <1>2
  <2> HIDE DEF r, y
  <2>3. r * (400 - 2 * y) = 400 * r - 2 * (y * r) /\ y * r \in Int
    BY <2>1, <2>2, LeadCosts
  <2>4. 1 * r <= y * r /\ 1 * r = r
    BY <2>1, <2>2, TimesGrows
  <2>5. Score(Procurement) \in Int /\ Score(Procurement) < 400 * r
    BY <2>2, <2>3, <2>4
  <2> QED BY <2>5 DEF r
<1>6. Score(DirectOnly) \in Int
  BY <1>1, <1>2
<1>7. /\ Precedence["DIRECT"] = 2 /\ Precedence["COMPOSITE_SUBSTITUTE"] = 1
      /\ Precedence["PROCUREMENT"] = 3
  BY DEF Precedence
<1> QED BY <1>2, <1>3, <1>4, <1>5, <1>6, <1>7 DEF Ways

LEMMA RecommendedIs ==
  ASSUME dataset \in Dataset, NEW a
  PROVE  a \in Recommended <=>
           /\ SourcesComplete /\ a \in Ways /\ Feasible(a)
           /\ \A b \in Ways : Feasible(b) => Preferred(a, b)
<1>1. Ways \subseteq AllAlternatives
  BY DEF Ways, AllAlternatives
<1>2. ASSUME NEW k \in Eligible, Feasible(OneSubstitute(k))
      PROVE  /\ Feasible(Composite) /\ OneSubstitute(k).kind = "SINGLE_SUBSTITUTE"
             /\ Score(OneSubstitute(k)) \in Int /\ Score(Composite) \in Int
             /\ Score(OneSubstitute(k)) <= Score(Composite)
  BY <1>2, CompositeJudged, CompositeCompares, OneScores
<1>3. Precedence["SINGLE_SUBSTITUTE"] = 4
  BY DEF Precedence
<1>4. ASSUME a \in Recommended PROVE a \in Ways
  <2>1. a \in AllAlternatives /\ Feasible(a) /\ \A b \in AllAlternatives : Feasible(b) => Preferred(a, b)
    BY <1>4 DEF Recommended
  <2>2. SUFFICES ASSUME NEW k \in Eligible, a = OneSubstitute(k) PROVE FALSE
    BY <2>1 DEF AllAlternatives, Ways
  <2>3. Preferred(a, Composite)
    BY <1>1, <1>2, <2>1, <2>2 DEF Ways
  <2> QED BY <1>2, <1>3, <2>1, <2>2, <2>3, WaysAre DEF Preferred
<1>5. ASSUME a \in Ways, Feasible(a), \A b \in Ways : Feasible(b) => Preferred(a, b),
             NEW k \in Eligible, Feasible(OneSubstitute(k))
      PROVE  Preferred(a, OneSubstitute(k))
  <2>1. Preferred(a, Composite) /\ Score(a) \in Int
    BY <1>2, <1>5, WaysAre DEF Ways
  <2>2. Precedence[a.kind] <= 4
    BY <1>5, WaysAre DEF Ways
  <2> QED BY <1>2, <1>3, <1>5, <2>1, <2>2 DEF Preferred
<1>6. ASSUME a \in Ways, Feasible(a), \A b \in Ways : Feasible(b) => Preferred(a, b)
      PROVE  \A b \in AllAlternatives : Feasible(b) => Preferred(a, b)
  <2>1. \A b \in AllAlternatives : b \in Ways \/ \E k \in Eligible : b = OneSubstitute(k)
    BY DEF AllAlternatives, Ways
  <2> QED BY <1>5, <1>6, <2>1
<1>7. a \in Recommended => SourcesComplete /\ Feasible(a)
                           /\ \A b \in AllAlternatives : Feasible(b) => Preferred(a, b)
  BY DEF Recommended
<1>8. a \in AllAlternatives /\ SourcesComplete /\ Feasible(a)
        /\ (\A b \in AllAlternatives : Feasible(b) => Preferred(a, b)) => a \in Recommended
  BY DEF Recommended
<1> QED BY <1>1, <1>4, <1>6, <1>7, <1>8

\* There is one if there is any.
LEMMA OneIsBest ==
  ASSUME dataset \in Dataset, SourcesComplete
  PROVE  IF \E a \in Ways : Feasible(a)
         THEN \E a : Recommended = {a}
         ELSE Recommended = {}
<1>1. CASE ~ \E a \in Ways : Feasible(a)
  BY <1>1, RecommendedIs
<1>2. CASE \E a \in Ways : Feasible(a)
  <2>1. PICK s, p, f : /\ s = [a \in Ways |-> Score(a)]
                       /\ p = [a \in Ways |-> Precedence[a.kind]]
                       /\ f = {a \in Ways : Feasible(a)}
    OBVIOUS
  <2>2. /\ f \subseteq Ways /\ f # {} /\ \A a \in f : s[a] \in Int /\ p[a] \in Nat
        /\ \A a, b \in f : a # b => p[a] # p[b]
        /\ \A a, b \in f : Preferred(a, b) <=> s[a] > s[b] \/ (s[a] = s[b] /\ p[a] <= p[b])
    <3>1. f \subseteq Ways /\ f # {} /\ \A a \in f : Feasible(a)
      BY <1>2, <2>1
    <3>2. \A a \in f : s[a] \in Int /\ p[a] \in Nat
      BY <2>1, <3>1, WaysAre DEF Ways
    <3>3. \A a, b \in f : a # b => p[a] # p[b]
      BY <2>1, <3>1, WaysAre DEF Ways
    <3>4. \A a, b \in f : Preferred(a, b) <=> s[a] > s[b] \/ (s[a] = s[b] /\ p[a] <= p[b])
      BY <2>1, <3>1 DEF Preferred
    <3> QED BY <3>1, <3>2, <3>3, <3>4
  <2>3. \E a \in f : \A b \in f : s[a] > s[b] \/ (s[a] = s[b] /\ p[a] <= p[b])
    <3>1. \A a \in f : a = DirectOnly \/ a = Composite \/ a = Procurement
      BY <2>2 DEF Ways
    <3>2. PICK u, v, w : u = DirectOnly /\ v = Composite /\ w = Procurement
      OBVIOUS
    <3>3. \A a \in f : a = u \/ a = v \/ a = w
      BY <3>1, <3>2
    <3>4. u \in f \/ v \in f \/ w \in f
      BY <2>2, <3>3
    <3>5. ASSUME NEW a \in f, NEW b \in f
          PROVE  \E c \in {a, b} : \A e \in {a, b} : s[c] > s[e] \/ (s[c] = s[e] /\ p[c] <= p[e])
      BY <2>2
    <3>6. ASSUME NEW a \in f, NEW b \in f, NEW c \in f,
                 s[a] > s[b] \/ (s[a] = s[b] /\ p[a] <= p[b]),
                 s[b] > s[c] \/ (s[b] = s[c] /\ p[b] <= p[c])
          PROVE  s[a] > s[c] \/ (s[a] = s[c] /\ p[a] <= p[c])
      BY <2>2, <3>6
    <3>7. ASSUME u \in f, v \in f, w \in f
          PROVE  \E a \in f : \A b \in f : s[a] > s[b] \/ (s[a] = s[b] /\ p[a] <= p[b])
      <4>1. PICK a \in {u, v} : \A e \in {u, v} : s[a] > s[e] \/ (s[a] = s[e] /\ p[a] <= p[e])
        BY <3>5, <3>7
      <4>2. PICK c \in {a, w} : \A e \in {a, w} : s[c] > s[e] \/ (s[c] = s[e] /\ p[c] <= p[e])
        BY <3>5, <3>7, <4>1
      <4>3. a \in f /\ c \in f
        BY <3>7, <4>1, <4>2
      <4>4. \A b \in f : s[c] > s[b] \/ (s[c] = s[b] /\ p[c] <= p[b])
        BY <3>3, <3>6, <3>7, <4>1, <4>2, <4>3
      <4> QED BY <4>3, <4>4
    <3>8. CASE u \notin f
      BY <3>3, <3>4, <3>5, <3>8
    <3>9. CASE v \notin f
      BY <3>3, <3>4, <3>5, <3>9
    <3>10. CASE w \notin f
      BY <3>3, <3>4, <3>5, <3>10
    <3> QED BY <3>7, <3>8, <3>9, <3>10
  <2>4. PICK a \in f : \A b \in f : s[a] > s[b] \/ (s[a] = s[b] /\ p[a] <= p[b])
    BY <2>3
  <2>5. ASSUME NEW c \in f, \A b \in f : s[c] > s[b] \/ (s[c] = s[b] /\ p[c] <= p[b])
        PROVE  c = a
    BY <2>2, <2>4, <2>5
  <2>6. \A c : c \in Recommended <=> c \in f /\ \A b \in f : Preferred(c, b)
    BY <2>1, RecommendedIs
  <2>7. \A c : c \in Recommended <=> c = a
    BY <2>2, <2>4, <2>5, <2>6
  <2>8. Recommended = {a}
    BY <2>7
  <2> QED BY <1>2, <2>8
<1> QED BY <1>1, <1>2

\* What is recommended.
LEMMA AdviceIs ==
  ASSUME dataset \in Dataset, NEW a \in Recommended
  PROVE  LET direct == FoldSet(LAMBDA x, sum : sum + Free(x), 0, Rows) >= dataset.required
             timely == 30 + dataset.delay <= 90
         IN  /\ Amount(a) = dataset.required
             /\ a.kind = "DIRECT" <=> direct
             /\ a.kind \in {"SINGLE_SUBSTITUTE", "COMPOSITE_SUBSTITUTE"} =>
                  /\ Allowed
                  /\ \A m \in DOMAIN a.plan :
                       a.plan[m] * dataset.substitutes
                         < dataset.required + dataset.substitutes
             /\ a.kind = "PROCUREMENT" =>
                  /\ timely
                  /\ Allowed => Lead(dataset.substitutes) > 40 \/ dataset.substitutes > 11
<1> DEFINE r == dataset.required
           d == dataset.delay
           n == dataset.substitutes
           direct == FoldSet(LAMBDA x, sum : sum + Free(x), 0, Rows) >= r
<1>1. r \in Nat \ {0} /\ d \in Nat /\ n \in Nat
  BY NumbersAre
<1>2. a \in Ways /\ Feasible(a) /\ \A b \in Ways : Feasible(b) => Preferred(a, b)
  BY RecommendedIs
<1>3. Amount(a) = r
  BY <1>2 DEF Feasible
<1>4. /\ Feasible(DirectOnly) <=> direct
      /\ Feasible(Procurement) <=> 30 + d <= 90
      /\ Score(DirectOnly) = 400 * r
  BY OthersScore
<1>5. /\ DirectOnly.kind = "DIRECT" /\ Composite.kind = "COMPOSITE_SUBSTITUTE"
      /\ Procurement.kind = "PROCUREMENT"
      /\ Score(Procurement) \in Int /\ Score(Procurement) < 400 * r
  BY WaysAre
<1>6. Feasible(Composite) <=> Allowed
  BY CompositeJudged
<1>7. Allowed => Score(Composite) \in Int /\ Score(Composite) < 400 * r
  BY CompositeCompares
<1> HIDE DEF r, d, n, direct
<1>8. direct => a = DirectOnly
  <2>1. SUFFICES ASSUME direct, a # DirectOnly PROVE FALSE
    OBVIOUS
  <2>2. Preferred(a, DirectOnly)
    BY <1>2, <1>4, <2>1 DEF Ways
  <2>3. Score(a) \in Int /\ Score(a) < 400 * r
    BY <1>2, <1>5, <1>6, <1>7, <2>1 DEF Ways
  <2> QED BY <1>1, <1>4, <2>2, <2>3 DEF Preferred
<1>9. a.kind = "DIRECT" <=> direct
  BY <1>2, <1>4, <1>5, <1>8 DEF Ways
<1>10. ASSUME a.kind \in {"SINGLE_SUBSTITUTE", "COMPOSITE_SUBSTITUTE"}
       PROVE  Allowed /\ \A m \in DOMAIN a.plan : a.plan[m] * n < r + n
  <2>1. a = Composite
    BY <1>2, <1>5, <1>10 DEF Ways
  <2>2. Allowed
    BY <1>2, <1>6, <2>1
  <2>3. PICK last : CompositeTakes(last)
    BY <2>2, CompositeJudged, CompositeIs
  <2>4. PICK q : q = Share(n)
    OBVIOUS
  <2>5. n \in Nat \ {0} /\ q \in Nat \ {0} /\ n * q < r + n /\ n * q \in Nat
    <3>1. n \in Nat \ {0}
      BY <1>1, <2>2 DEF Allowed, n
    <3> QED BY <1>1, <2>4, <3>1, ShareIs DEF r
  <2>6. \A m \in DOMAIN a.plan : a.plan[m] \in Nat /\ a.plan[m] <= q
    <3>1. /\ last \in 1 .. n /\ DOMAIN a.plan = 1 .. last
          /\ \A k \in 1 .. (last - 1) : a.plan[k] = q
          /\ a.plan[last] \in 1 .. q
      BY <2>1, <2>3, <2>4 DEF CompositeTakes, n
    <3>2. \A m \in 1 .. last : m \in 1 .. (last - 1) \/ m = last
      BY <1>1, <3>1
    <3> QED BY <2>5, <3>1, <3>2
  <2>7. ASSUME NEW m \in DOMAIN a.plan PROVE a.plan[m] * n < r + n
    <3>1. a.plan[m] * n <= q * n /\ q * n = n * q /\ a.plan[m] * n \in Int
      BY <2>5, <2>6, TimesGrows
    <3> QED BY <1>1, <2>5, <3>1
  <2> QED BY <2>2, <2>7
<1>11. ASSUME a.kind = "PROCUREMENT"
       PROVE  30 + d <= 90 /\ (Allowed => Lead(n) > 40 \/ n > 11)
  <2>1. a = Procurement
    BY <1>2, <1>5, <1>11 DEF Ways
  <2>2. 30 + d <= 90
    BY <1>2, <1>4, <2>1
  <2>3. ASSUME Allowed, n <= 11, n + d <= 40 PROVE FALSE
    <3>1. Score(Procurement) <= Score(Composite)
      BY <2>3, CompositeCompares DEF n, d
    <3>2. Preferred(Procurement, Composite)
      BY <1>2, <1>6, <2>1, <2>3 DEF Ways
    <3>3. Precedence["PROCUREMENT"] = 3 /\ Precedence["COMPOSITE_SUBSTITUTE"] = 1
      BY WaysAre
    <3> QED BY <1>5, <1>7, <2>3, <3>1, <3>2, <3>3 DEF Preferred
  <2>4. Lead(n) = n + d
    BY DEF Lead, d
  <2> QED BY <1>1, <2>2, <2>3, <2>4
<1> QED BY <1>3, <1>9, <1>10, <1>11 DEF r, d, n, direct

\* AdviceCovers of any sources and any answer: it is the same when they are.
FreeOf(data) ==
  FoldSet(LAMBDA x, sum : sum + Larger(0, data.onHand[x] - data.held[x]), 0, Rows)

Covers(data, answer) ==
  answer.state = "answered" =>
    LET direct == FreeOf(data) >= data.required
        allowed == data.offered /\ data.substitutes > 0
        timely == 30 + data.delay <= 90
    IN  /\ answer.verified
        /\ Cardinality(answer.options) =
             IF data.ruled /\ (direct \/ allowed \/ timely) THEN 1 ELSE 0
        /\ answer.confidence >= 90 => answer.forecast
        /\ \A a \in answer.options :
             /\ Amount(a) = data.required
             /\ a.kind = "DIRECT" <=> direct
             /\ a.kind \in {"SINGLE_SUBSTITUTE", "COMPOSITE_SUBSTITUTE"} =>
                  /\ allowed
                  /\ \A m \in DOMAIN a.plan :
                       a.plan[m] * data.substitutes < data.required + data.substitutes
             /\ a.kind = "PROCUREMENT" =>
                  /\ timely
                  /\ allowed => data.substitutes + data.delay > 40 \/ data.substitutes > 11

LEMMA FreeIs == FreeOf(dataset) = FoldSet(LAMBDA x, sum : sum + Free(x), 0, Rows)
BY DEF FreeOf, Free

LEMMA CoversIs == Covers(dataset, advice) => AdviceCovers
BY FreeIs DEF Covers, AdviceCovers, Lead

LEMMA Advised ==
  ASSUME dataset \in Dataset, Analyze
  PROVE  Covers(dataset, advice')
<1> DEFINE direct == FoldSet(LAMBDA x, sum : sum + Free(x), 0, Rows) >= dataset.required
           timely == 30 + dataset.delay <= 90
<1>1. /\ dataset' = dataset /\ dataset.mapped
      /\ advice' = [state |-> "answered",
                    options |-> IF Verified THEN Recommended ELSE {},
                    forecast |-> Forecasts,
                    covered |-> Deficit = 0,
                    confidence |-> IF ~Verified THEN 0
                                   ELSE Smaller(Ceiling, IF Forecasts THEN 90 ELSE 70),
                    verified |-> Verified]
  BY DEF Analyze
<1>2. Verified
  BY DEF Verified, Recommended
<1>3. advice'.verified /\ advice'.options = Recommended
  BY <1>1, <1>2
<1>4. advice'.confidence >= 90 => advice'.forecast
  <2>1. advice'.confidence = Smaller(Ceiling, IF Forecasts THEN 90 ELSE 70) /\ advice'.forecast = Forecasts
    BY <1>1, <1>2
  <2> QED BY <2>1 DEF Smaller, Ceiling
<1>5. Cardinality(Recommended) = IF dataset.ruled /\ (direct \/ Allowed \/ timely) THEN 1 ELSE 0
  <2>1. SourcesComplete <=> dataset.ruled
    BY <1>1 DEF SourcesComplete
  <2>2. (\E a \in Ways : Feasible(a)) <=> (direct \/ Allowed \/ timely)
    <3>1. /\ Feasible(DirectOnly) <=> direct
          /\ Feasible(Procurement) <=> timely
      BY OthersScore
    <3>2. Feasible(Composite) <=> Allowed
      BY CompositeJudged
    <3> QED BY <3>1, <3>2 DEF Ways
  <2>3. CASE ~dataset.ruled
    <3>1. Recommended = {}
      BY <2>1, <2>3 DEF Recommended
    <3> QED BY <2>3, <3>1, FS_EmptySet
  <2>4. CASE dataset.ruled /\ \E a \in Ways : Feasible(a)
    <3>1. PICK a : Recommended = {a}
      BY <2>1, <2>4, OneIsBest
    <3> QED BY <2>2, <2>4, <3>1, FS_Singleton
  <2>5. CASE dataset.ruled /\ ~ \E a \in Ways : Feasible(a)
    <3>1. Recommended = {}
      BY <2>1, <2>5, OneIsBest
    <3> QED BY <2>2, <2>5, <3>1, FS_EmptySet
  <2> QED BY <2>3, <2>4, <2>5
<1> QED BY <1>3, <1>4, <1>5, AdviceIs, FreeIs DEF Covers, Allowed, Lead

AdviceInv == dataset \in Dataset /\ Covers(dataset, advice)

\* The advice for a position is one way of supplying all of it, from stock
\* whenever that is enough and from substitutes only within their shares, and
\* there is advice whenever the sources are complete and there is such a way
\* (evaluateScenarios, verifyAnalyticalArtifacts).
THEOREM AdviceIsCovered == AnalyticsSpec => []AdviceCovers
<1>1. AnalyticsInit => AdviceInv
  <2> SUFFICES ASSUME AnalyticsInit PROVE AdviceInv
    OBVIOUS
  <2>1. dataset \in Dataset /\ advice = NotAsked
    BY DEF AnalyticsInit
  <2>2. advice.state = "none"
    BY <2>1 DEF NotAsked
  <2>3. Covers(dataset, advice)
    BY <2>2 DEF Covers
  <2> QED BY <2>1, <2>3 DEF AdviceInv
<1>2. AdviceInv /\ [AnalyticsNext]_analyticsVars => AdviceInv'
  <2> SUFFICES ASSUME AdviceInv, [AnalyticsNext]_analyticsVars PROVE AdviceInv'
    OBVIOUS
  <2>1. dataset' = dataset /\ dataset \in Dataset /\ Covers(dataset, advice)
    BY DEF AdviceInv, AnalyticsNext, Analyze, Refuse, AnswerUnavailable, analyticsVars
  <2>2. CASE Analyze
    BY <2>1, <2>2, Advised DEF AdviceInv
  <2>3. CASE Refuse \/ AnswerUnavailable
    <3>1. advice'.state # "answered"
      BY <2>3 DEF Refuse, AnswerUnavailable, NotAsked
    <3>2. Covers(dataset, advice')
      BY <3>1 DEF Covers
    <3> QED BY <2>1, <3>2 DEF AdviceInv
  <2>4. CASE UNCHANGED analyticsVars
    BY <2>1, <2>4 DEF AdviceInv, analyticsVars
  <2> QED BY <2>2, <2>3, <2>4 DEF AnalyticsNext
<1>3. AdviceInv => AdviceCovers
  BY CoversIs DEF AdviceInv
<1> QED BY <1>1, <1>2, <1>3, PTL DEF AnalyticsSpec

-----------------------------------------------------------------------------
(* Whether the answers on the portfolio agree. *)

\* The folds of the balance come to the sums below: of what each is given, by
\* function.
Recursion(g, f, T) ==
  g = [s \in SUBSET T |-> IF s = {} THEN 0
                          ELSE f[CHOOSE x \in s : TRUE] + g[s \ {CHOOSE x \in s : TRUE}]]

LEMMA RecursionPossible ==
  ASSUME NEW f, NEW T, IsFiniteSet(T), \A x \in T : f[x] \in Nat
  PROVE  \E g : Recursion(g, f, T)
<1> DEFINE g == [s \in SUBSET T |-> Sum(f, s)]
<1>1. ASSUME NEW s \in SUBSET T
      PROVE  Sum(f, s) = IF s = {} THEN 0
                         ELSE f[CHOOSE x \in s : TRUE] + g[s \ {CHOOSE x \in s : TRUE}]
  <2>1. CASE s = {}
    BY <2>1, SumOfNone
  <2>2. CASE s # {}
    <3>1. PICK x \in s : x = CHOOSE y \in s : TRUE
      BY <2>2
    <3>2. IsFiniteSet(s) /\ IsFiniteSet(s \ {x})
      BY FS_Subset, FS_RemoveElement
    <3>3. Sum(f, s) = Sum(f, s \ {x}) + f[x] /\ Sum(f, s \ {x}) \in Nat
      BY <3>2, SumWithout, SumIsNat
    <3>4. g[s \ {x}] = Sum(f, s \ {x})
      OBVIOUS
    <3> HIDE DEF g
    <3> QED BY <2>2, <3>1, <3>3, <3>4
  <2> QED BY <2>1, <2>2
<1>2. g = [s \in SUBSET T |-> IF s = {} THEN 0
                ELSE f[CHOOSE x \in s : TRUE] + g[s \ {CHOOSE x \in s : TRUE}]]
  BY <1>1
<1>3. Recursion(g, f, T)
  BY <1>2 DEF Recursion
<1> QED BY <1>3

LEMMA RecursionIsSum ==
  ASSUME NEW f, NEW T, IsFiniteSet(T), \A x \in T : f[x] \in Nat,
         NEW g, Recursion(g, f, T)
  PROVE  g[T] = Sum(f, T)
<1>1. g[{}] = 0
  BY DEF Recursion
<1>2. ASSUME NEW s \in SUBSET T, s # {}
      PROVE  \E x \in s : g[s] = g[s \ {x}] + f[x] \/ g[s] = f[x] + g[s \ {x}]
  <2>1. PICK x \in s : x = CHOOSE y \in s : TRUE
    BY <1>2
  <2>2. g[s] = f[x] + g[s \ {x}]
    BY <1>2, <2>1 DEF Recursion
  <2> QED BY <2>2
<1> QED BY <1>1, <1>2, SumUnique

-----------------------------------------------------------------------------
\* What there is of an item, what others were given, what is to come and what is
\* demanded of it, in any dataset.
Stocked(d, i) == Sum([w \in Stores |-> d.materials[i].stock[w]], d.stores)
GivenOthers(d, p, i) == Sum([q \in Programs |-> d.allocated[q][i]], Programs \ {p})
Coming(d, i, weeks) ==
  Sum([s \in d.materials[i].inbound |-> s.quantity],
      {s \in d.materials[i].inbound : s.week \in weeks})
PlacesOf(d, p) == {x \in Places : d.positions[x].project = p}
Wanted(d, set, i) ==
  Sum([x \in Places |-> d.positions[x].quantity],
      {x \in set : d.positions[x].item = i})

LEMMA BookIs ==
  ASSUME book \in Books
  PROVE  /\ book \in Book
         /\ \A i \in Goods : IsFiniteSet(book.materials[i].inbound)
         /\ IsFiniteSet(book.stores) /\ book.stores \subseteq Stores
         /\ \A i \in Goods : /\ book.materials[i].used \in Nat /\ book.materials[i].safety \in Nat
                             /\ \A w \in Stores : book.materials[i].stock[w] \in Nat
                             /\ \A s \in book.materials[i].inbound : s.quantity \in Nat
         /\ \A p \in Programs : book.projects[p].due \in Nat
         /\ \A p \in Programs, i \in Goods : book.allocated[p][i] \in Nat
         /\ \A x \in Places : /\ book.positions[x].quantity \in Nat
                              /\ book.positions[x].item \in Goods
                              /\ book.positions[x].project \in Programs
         /\ IsFiniteSet(Programs) /\ IsFiniteSet(Places) /\ IsFiniteSet(Stores)
         /\ IsFiniteSet(Intakes) /\ IsFiniteSet(Goods)
<1>1. book \in Book /\ \A i \in Goods : IsFiniteSet(book.materials[i].inbound)
  BY BooksAssumption
<1>2. book.stores \subseteq Stores
  BY <1>1 DEF Book
<1>3. IsFiniteSet(book.stores)
  BY <1>2, PortfolioAssumption, FS_Subset
<1>4. book.materials \in [Goods -> Material]
  BY <1>1 DEF Book
<1>5. ASSUME NEW i \in Goods
      PROVE  /\ book.materials[i].used \in Nat /\ book.materials[i].safety \in Nat
             /\ \A w \in Stores : book.materials[i].stock[w] \in Nat
             /\ \A s \in book.materials[i].inbound : s.quantity \in Nat
  BY <1>4 DEF Material
<1>6. /\ \A p \in Programs : book.projects[p].due \in Nat
      /\ \A p \in Programs, i \in Goods : book.allocated[p][i] \in Nat
      /\ \A x \in Places : /\ book.positions[x].quantity \in Nat
                           /\ book.positions[x].item \in Goods
                           /\ book.positions[x].project \in Programs
  BY <1>1 DEF Book, BusinessProject, Position
<1> QED BY <1>1, <1>2, <1>3, <1>5, <1>6, PortfolioAssumption

LEMMA StockedIs ==
  ASSUME book \in Books, NEW i \in Goods
  PROVE  NetAvailable(i) = Stocked(book, i) /\ Stocked(book, i) \in Nat
<1> DEFINE T == book.stores
           f == [w \in Stores |-> book.materials[i].stock[w]]
           it == CHOOSE g : g = [s \in SUBSET T |-> IF s = {} THEN 0
                   ELSE book.materials[i].stock[CHOOSE x \in s : TRUE]
                          + g[s \ {CHOOSE x \in s : TRUE}]]
<1>1. NetAvailable(i) = it[T]
  BY DEF NetAvailable, MapThenSumSet, MapThenFoldSet
<1>2. IsFiniteSet(T) /\ T \subseteq Stores
  BY BookIs
<1>3. \A x \in T : f[x] = book.materials[i].stock[x] /\ f[x] \in Nat
  BY BookIs
<1> HIDE DEF f
<1>4. PICK g : Recursion(g, f, T)
  BY <1>2, <1>3, RecursionPossible
<1>5. g = [s \in SUBSET T |-> IF s = {} THEN 0
             ELSE book.materials[i].stock[CHOOSE x \in s : TRUE]
                    + g[s \ {CHOOSE x \in s : TRUE}]]
  BY <1>3, <1>4 DEF Recursion
<1>6. it = [s \in SUBSET T |-> IF s = {} THEN 0
              ELSE book.materials[i].stock[CHOOSE x \in s : TRUE]
                     + it[s \ {CHOOSE x \in s : TRUE}]]
  BY <1>5
<1> HIDE DEF it
<1>7. Recursion(it, f, T)
  BY <1>3, <1>6 DEF Recursion
<1>8. it[T] = Sum(f, T) /\ Sum(f, T) \in Nat
  BY <1>2, <1>3, <1>7, RecursionIsSum, SumIsNat
<1> QED BY <1>1, <1>8 DEF Stocked, f

LEMMA OthersGiven ==
  ASSUME book \in Books, NEW p \in Programs, NEW i \in Goods
  PROVE  OtherAllocations(p, i) = GivenOthers(book, p, i) /\ GivenOthers(book, p, i) \in Nat
<1> DEFINE T == Programs \ {p}
           f == [q \in Programs |-> book.allocated[q][i]]
           it == CHOOSE g : g = [s \in SUBSET T |-> IF s = {} THEN 0
                   ELSE book.allocated[CHOOSE x \in s : TRUE][i]
                          + g[s \ {CHOOSE x \in s : TRUE}]]
<1>1. OtherAllocations(p, i) = it[T]
  BY DEF OtherAllocations, MapThenSumSet, MapThenFoldSet
<1>2. IsFiniteSet(T)
  BY BookIs, FS_RemoveElement
<1>3. \A x \in T : f[x] = book.allocated[x][i] /\ f[x] \in Nat
  BY BookIs
<1> HIDE DEF f, T
<1>4. PICK g : Recursion(g, f, T)
  BY <1>2, <1>3, RecursionPossible
<1>5. g = [s \in SUBSET T |-> IF s = {} THEN 0
             ELSE book.allocated[CHOOSE x \in s : TRUE][i]
                    + g[s \ {CHOOSE x \in s : TRUE}]]
  BY <1>3, <1>4 DEF Recursion
<1>6. it = [s \in SUBSET T |-> IF s = {} THEN 0
              ELSE book.allocated[CHOOSE x \in s : TRUE][i]
                     + it[s \ {CHOOSE x \in s : TRUE}]]
  BY <1>5
<1> HIDE DEF it
<1>7. Recursion(it, f, T)
  BY <1>3, <1>6 DEF Recursion
<1>8. it[T] = Sum(f, T) /\ Sum(f, T) \in Nat
  BY <1>2, <1>3, <1>7, RecursionIsSum, SumIsNat
<1> QED BY <1>1, <1>8 DEF GivenOthers, f, T

LEMMA ComingIs ==
  ASSUME book \in Books, NEW i \in Goods, NEW weeks
  PROVE  Inbound(i, weeks) = Coming(book, i, weeks) /\ Coming(book, i, weeks) \in Nat
<1> DEFINE T == {s \in book.materials[i].inbound : s.week \in weeks}
           f == [s \in book.materials[i].inbound |-> s.quantity]
           it == CHOOSE g : g = [s \in SUBSET T |-> IF s = {} THEN 0
                   ELSE (CHOOSE x \in s : TRUE).quantity
                          + g[s \ {CHOOSE x \in s : TRUE}]]
<1>1. Inbound(i, weeks) = it[T]
  BY DEF Inbound, MapThenSumSet, MapThenFoldSet
<1>2. IsFiniteSet(T)
  BY BookIs, FS_Subset
<1>3. \A x \in T : f[x] = x.quantity /\ f[x] \in Nat
  BY BookIs
<1> HIDE DEF f, T
<1>4. PICK g : Recursion(g, f, T)
  BY <1>2, <1>3, RecursionPossible
<1>5. g = [s \in SUBSET T |-> IF s = {} THEN 0
             ELSE (CHOOSE x \in s : TRUE).quantity
                    + g[s \ {CHOOSE x \in s : TRUE}]]
  BY <1>3, <1>4 DEF Recursion
<1>6. it = [s \in SUBSET T |-> IF s = {} THEN 0
              ELSE (CHOOSE x \in s : TRUE).quantity
                     + it[s \ {CHOOSE x \in s : TRUE}]]
  BY <1>5
<1> HIDE DEF it
<1>7. Recursion(it, f, T)
  BY <1>3, <1>6 DEF Recursion
<1>8. it[T] = Sum(f, T) /\ Sum(f, T) \in Nat
  BY <1>2, <1>3, <1>7, RecursionIsSum, SumIsNat
<1> QED BY <1>1, <1>8 DEF Coming, f, T

LEMMA WantedIs ==
  ASSUME book \in Books, NEW set, set \subseteq Places, NEW i \in Goods
  PROVE  Demand(set, i) = Wanted(book, set, i) /\ Wanted(book, set, i) \in Nat
<1> DEFINE T == {x \in set : book.positions[x].item = i}
           f == [x \in Places |-> book.positions[x].quantity]
           it == CHOOSE g : g = [s \in SUBSET T |-> IF s = {} THEN 0
                   ELSE book.positions[CHOOSE x \in s : TRUE].quantity
                          + g[s \ {CHOOSE x \in s : TRUE}]]
<1>1. Demand(set, i) = it[T]
  BY DEF Demand, MapThenSumSet, MapThenFoldSet
<1>2. IsFiniteSet(T)
  <2>1. T \subseteq Places
    OBVIOUS
  <2> QED BY <2>1, BookIs, FS_Subset
<1>3. \A x \in T : f[x] = book.positions[x].quantity /\ f[x] \in Nat
  BY BookIs
<1> HIDE DEF f, T
<1>4. PICK g : Recursion(g, f, T)
  BY <1>2, <1>3, RecursionPossible
<1>5. g = [s \in SUBSET T |-> IF s = {} THEN 0
             ELSE book.positions[CHOOSE x \in s : TRUE].quantity
                    + g[s \ {CHOOSE x \in s : TRUE}]]
  BY <1>3, <1>4 DEF Recursion
<1>6. it = [s \in SUBSET T |-> IF s = {} THEN 0
              ELSE book.positions[CHOOSE x \in s : TRUE].quantity
                     + it[s \ {CHOOSE x \in s : TRUE}]]
  BY <1>5
<1> HIDE DEF it
<1>7. Recursion(it, f, T)
  BY <1>3, <1>6 DEF Recursion
<1>8. it[T] = Sum(f, T) /\ Sum(f, T) \in Nat
  BY <1>2, <1>3, <1>7, RecursionIsSum, SumIsNat
<1> QED BY <1>1, <1>8 DEF Wanted, f, T

LEMMA TogetherIs ==
  ASSUME book \in Books, NEW set, set \subseteq Programs, NEW i \in Goods
  PROVE  MapThenSumSet(LAMBDA p : Demand(PositionsOf(p), i), set) = Sum([p \in Programs |-> Wanted(book, PlacesOf(book, p), i)], set) /\ Sum([p \in Programs |-> Wanted(book, PlacesOf(book, p), i)], set) \in Nat
<1> DEFINE T == set
           f == [p \in Programs |-> Wanted(book, PlacesOf(book, p), i)]
           it == CHOOSE g : g = [s \in SUBSET T |-> IF s = {} THEN 0
                   ELSE Demand(PositionsOf(CHOOSE x \in s : TRUE), i)
                          + g[s \ {CHOOSE x \in s : TRUE}]]
<1>1. MapThenSumSet(LAMBDA p : Demand(PositionsOf(p), i), set) = it[T]
  BY DEF MapThenSumSet, MapThenFoldSet
<1>2. IsFiniteSet(T)
  BY BookIs, FS_Subset
<1>3. \A x \in T : f[x] = Demand(PositionsOf(x), i) /\ f[x] \in Nat
  <2> TAKE x \in T
  <2>1. PositionsOf(x) = PlacesOf(book, x) /\ PositionsOf(x) \subseteq Places
    BY DEF PositionsOf, PlacesOf
  <2> QED BY <2>1, WantedIs
<1> HIDE DEF f, T
<1>4. PICK g : Recursion(g, f, T)
  BY <1>2, <1>3, RecursionPossible
<1>5. g = [s \in SUBSET T |-> IF s = {} THEN 0
             ELSE Demand(PositionsOf(CHOOSE x \in s : TRUE), i)
                    + g[s \ {CHOOSE x \in s : TRUE}]]
  BY <1>3, <1>4 DEF Recursion
<1>6. it = [s \in SUBSET T |-> IF s = {} THEN 0
              ELSE Demand(PositionsOf(CHOOSE x \in s : TRUE), i)
                     + it[s \ {CHOOSE x \in s : TRUE}]]
  BY <1>5
<1> HIDE DEF it
<1>7. Recursion(it, f, T)
  BY <1>3, <1>6 DEF Recursion
<1>8. it[T] = Sum(f, T) /\ Sum(f, T) \in Nat
  BY <1>2, <1>3, <1>7, RecursionIsSum, SumIsNat
<1> QED BY <1>1, <1>8 DEF f, T

\* Two parts add up to the whole.
LEMMA SumApart ==
  ASSUME NEW f, NEW S, NEW T, IsFiniteSet(S), IsFiniteSet(T), S \cap T = {},
         \A x \in S \cup T : f[x] \in Nat
  PROVE  Sum(f, S \cup T) = Sum(f, S) + Sum(f, T)
<1>1. PICK a, b, c : a = Pairs(f, S) /\ b = Pairs(f, T) /\ c = Pairs(f, S \cup T)
  OBVIOUS
<1>2. c = a \cup b /\ a \cap b = {}
  BY <1>1 DEF Pairs
<1>3. IsFiniteSet(a) /\ IsFiniteSet(b)
  BY <1>1, PairsFinite
<1>4. Cardinality(a \cup b) = Cardinality(a) + Cardinality(b) - Cardinality(a \cap b)
  BY <1>3, FS_Union
<1>5. Cardinality(a) \in Nat /\ Cardinality(b) \in Nat /\ Cardinality(a \cap b) = 0
  BY <1>2, <1>3, FS_CardinalityType, FS_EmptySet
<1>6. /\ Sum(f, S \cup T) = Cardinality(c) /\ Sum(f, S) = Cardinality(a)
      /\ Sum(f, T) = Cardinality(b)
  BY <1>1 DEF Sum
<1>7. Cardinality(c) = Cardinality(a \cup b)
  BY <1>2
<1> QED BY <1>4, <1>5, <1>6, <1>7

LEMMA SumOfZeros ==
  ASSUME NEW f, NEW T, \A x \in T : f[x] = 0
  PROVE  Sum(f, T) = 0
<1>1. Pairs(f, T) = {}
  BY DEF Pairs
<1> QED BY <1>1, FS_EmptySet DEF Sum

-----------------------------------------------------------------------------
\* Rounded divisions.
LEMMA RoundedUp ==
  ASSUME NEW n \in Nat, NEW d \in Nat \ {0}
  PROVE  /\ Quotient(n, d) \in Nat
         /\ n <= Quotient(n, d) * d /\ Quotient(n, d) * d < n + d
         /\ Quotient(n, d) * d \in Nat
<1> DEFINE x == n + d - 1
<1>1. x \in Nat /\ Quotient(n, d) = x \div d
  BY DEF Quotient
<1> HIDE DEF x
<1>2. PICK q : q = x \div d
  OBVIOUS
<1>3. q \in Int /\ d * q \in Int /\ d * q <= x /\ x < d * q + d
  BY <1>1, <1>2, Division
<1>4. q \in Nat
  <2>1. SUFFICES ASSUME q + 1 <= 0 PROVE FALSE
    BY <1>3
  <2>2. (q + 1) * d <= 0 * d /\ (q + 1) * d = d * q + d /\ 0 * d = 0
    BY <1>3, <2>1, TimesGrows
  <2> QED BY <1>1, <1>3, <2>2
<1>5. q * d = d * q /\ q * d \in Int
  BY <1>3
<1>6. 0 * d <= q * d /\ 0 * d = 0
  BY <1>4, TimesGrows
<1> QED BY <1>1, <1>2, <1>3, <1>4, <1>5, <1>6 DEF x

\* What runs out of all that is there at the mean consumption runs out of what is
\* left of it at the mean rounded up.
LEMMA RoundedRunsOut ==
  ASSUME NEW u \in Nat, NEW n \in Nat, NEW m \in Nat, m <= n, RunsOut(n, u, Weeks, Horizon)
  PROVE  RunsOut(m, Quotient(u, Weeks), 1, Horizon)
<1>1. PICK w, h, a : w = Weeks /\ h = Horizon /\ a = Quotient(u, Weeks)
  OBVIOUS
<1>2. w \in Nat \ {0} /\ h \in Nat /\ a \in Nat /\ a * w \in Nat /\ u <= a * w
  BY <1>1, PortfolioAssumption, RoundedUp
<1>3. u > 0 /\ (7 * w * n) \div u <= h
  BY <1>1 DEF RunsOut, DaysLeft
<1>4. a > 0
  <2>1. SUFFICES ASSUME a = 0 PROVE FALSE
    BY <1>2
  <2>2. a * w = 0
    BY <1>2, <2>1
  <2> QED BY <1>2, <1>3, <2>2
<1>5. PICK x, z \in Nat : x = 7 * w * n /\ z = 7 * m
  <2>1. PICK v \in Nat : v = 7 * w
    BY <1>2
  <2>2. v * n \in Nat /\ 7 * m \in Nat
    BY <2>1
  <2> QED BY <2>1, <2>2
<1>6. x < (h + 1) * u /\ (h + 1) * u \in Int
  <2>1. PICK q : q = x \div u
    OBVIOUS
  <2>2. q \in Int /\ u * q \in Int /\ x < u * q + u
    <3>1. u \in Nat \ {0} /\ x \in Nat
      BY <1>3, <1>5
    <3> QED BY <2>1, <3>1, Division
  <2>3. (q + 1) * u <= (h + 1) * u /\ (h + 1) * u \in Int
    BY <1>2, <1>3, <1>5, <2>1, <2>2, TimesGrows
  <2>4. (q + 1) * u = u * q + u
    BY <2>2
  <2> QED BY <1>5, <2>2, <2>3, <2>4
<1>7. (h + 1) * u <= (h + 1) * (a * w)
  <2>1. u * (h + 1) <= (a * w) * (h + 1)
    BY <1>2, TimesGrows
  <2>2. u * (h + 1) = (h + 1) * u /\ (a * w) * (h + 1) = (h + 1) * (a * w)
    BY <1>2
  <2> QED BY <2>1, <2>2
<1>8. z < (h + 1) * a /\ (h + 1) * a \in Int
  <2>1. PICK b : b = (h + 1) * a
    OBVIOUS
  <2>2. b \in Nat /\ (h + 1) * (a * w) = b * w
    BY <1>2, <2>1
  <2>3. SUFFICES ASSUME b <= z PROVE FALSE
    BY <1>5, <2>1, <2>2
  <2>4. b * w <= z * w
    BY <1>2, <1>5, <2>2, <2>3, TimesGrows
  <2>5. z * w <= x /\ z * w \in Int
    <3>1. m * (7 * w) <= n * (7 * w) /\ m * (7 * w) \in Int
      BY <1>2, TimesGrows
    <3>2. z * w = m * (7 * w) /\ x = n * (7 * w)
      BY <1>2, <1>5
    <3> QED BY <3>1, <3>2
  <2>6. b * w \in Int
    BY <1>2, <2>2
  <2> QED BY <1>5, <1>6, <1>7, <2>2, <2>4, <2>5, <2>6
<1>9. z \div a <= h
  <2>1. PICK q : q = z \div a
    OBVIOUS
  <2>2. q \in Int /\ a * q \in Int /\ a * q <= z
    BY <1>2, <1>4, <1>5, <2>1, Division
  <2>3. SUFFICES ASSUME h + 1 <= q PROVE FALSE
    BY <1>2, <2>1, <2>2
  <2>4. (h + 1) * a <= q * a /\ q * a = a * q
    BY <1>2, <2>2, <2>3, TimesGrows
  <2> QED BY <1>5, <1>8, <2>2, <2>4
<1>10. 7 * 1 * m = z
  BY <1>5
<1> QED BY <1>1, <1>4, <1>9, <1>10 DEF RunsOut, DaysLeft

-----------------------------------------------------------------------------
\* The balance of an item for a project, in any dataset.
NetOf(d, p, i) == Positive(Stocked(d, i) - GivenOthers(d, p, i))
NetThen(d, p, i) == NetOf(d, p, i) + Coming(d, i, 0 .. d.projects[p].due)
NeedOf(d, p, i) ==
  Wanted(d, PlacesOf(d, p), i)
    + Quotient(d.materials[i].used, Weeks) * d.projects[p].due + d.materials[i].safety
LackOf(d, p, i) == Positive(NeedOf(d, p, i) - NetThen(d, p, i))
LaterOf(d, p) ==
  {s.week : s \in UNION {d.materials[i].inbound : i \in Goods}} \ (0 .. d.projects[p].due)
OrderOf(d, p, i) ==
  Quotient(Positive(LackOf(d, p, i) - Coming(d, i, LaterOf(d, p))), Pack) * Pack

LEMMA BalanceIs ==
  ASSUME book \in Books, NEW p \in Programs, NEW i \in Goods
  PROVE  /\ NetNow(p, i) = NetOf(book, p, i) /\ NetOf(book, p, i) \in Nat
         /\ NetAtNeed(p, i) = NetThen(book, p, i) /\ NetThen(book, p, i) \in Nat
         /\ RequiredAtNeed(p, PositionsOf(p), i) = NeedOf(book, p, i)
         /\ NeedOf(book, p, i) \in Nat
         /\ Lack(p, PositionsOf(p), i) = LackOf(book, p, i) /\ LackOf(book, p, i) \in Nat
         /\ AfterNeed(p) = LaterOf(book, p) /\ ByNeed(p) = 0 .. book.projects[p].due
         /\ Reorder(p, PositionsOf(p), i) = OrderOf(book, p, i)
         /\ PositionsOf(p) = PlacesOf(book, p)
<1>1. PositionsOf(p) = PlacesOf(book, p) /\ PositionsOf(p) \subseteq Places
  BY DEF PositionsOf, PlacesOf
<1>2. /\ book.materials[i].used \in Nat /\ book.materials[i].safety \in Nat
      /\ book.projects[p].due \in Nat
  BY BookIs
<1>3. NetAvailable(i) = Stocked(book, i) /\ Stocked(book, i) \in Nat
  BY StockedIs
<1>4. OtherAllocations(p, i) = GivenOthers(book, p, i) /\ GivenOthers(book, p, i) \in Nat
  BY OthersGiven
<1>5. ByNeed(p) = 0 .. book.projects[p].due /\ AfterNeed(p) = LaterOf(book, p)
  BY DEF ByNeed, AfterNeed, LaterOf
<1>6. \A weeks : Inbound(i, weeks) = Coming(book, i, weeks) /\ Coming(book, i, weeks) \in Nat
  BY ComingIs
<1>7. /\ Demand(PositionsOf(p), i) = Wanted(book, PlacesOf(book, p), i)
      /\ Wanted(book, PlacesOf(book, p), i) \in Nat
  BY <1>1, WantedIs
<1>8. NetNow(p, i) = NetOf(book, p, i) /\ NetOf(book, p, i) \in Nat
  BY <1>3, <1>4 DEF NetNow, NetOf, Positive
<1>9. NetAtNeed(p, i) = NetThen(book, p, i) /\ NetThen(book, p, i) \in Nat
  BY <1>5, <1>6, <1>8 DEF NetAtNeed, NetThen
<1>10. PICK a \in Nat : a = Quotient(book.materials[i].used, Weeks)
  BY <1>2, PortfolioAssumption, RoundedUp
<1>11. a * book.projects[p].due \in Nat
  BY <1>2
<1>12. /\ RequiredAtNeed(p, PositionsOf(p), i) = NeedOf(book, p, i)
       /\ NeedOf(book, p, i) \in Nat
  BY <1>2, <1>7, <1>10, <1>11 DEF RequiredAtNeed, NeedOf, Consumption, AverageWeekly
<1>13. Lack(p, PositionsOf(p), i) = LackOf(book, p, i) /\ LackOf(book, p, i) \in Nat
  BY <1>9, <1>12 DEF Lack, LackOf, Positive
<1>14. Reorder(p, PositionsOf(p), i) = OrderOf(book, p, i)
  BY <1>5, <1>6, <1>13 DEF Reorder, OrderOf
<1> QED BY <1>1, <1>5, <1>8, <1>9, <1>12, <1>13, <1>14

-----------------------------------------------------------------------------
\* What an answer may say of a dataset: of what runs out, of the materials of a
\* project, and of the received specifications.
IntakesIn(d, statuses) == {n \in Intakes : d.intakes[n].status \in statuses}
TodayIn(d) == {n \in Intakes : d.intakes[n].today}
OpenIn(d) == IntakesIn(d, IntakeStatuses \ {"COMPLETED", "CANCELLED"})

ExhaustionTrue(d, a) ==
  \A i \in a.lists :
    /\ i \in Goods /\ d.materials[i].used > 0
    /\ a.left[i] = DaysLeft(Stocked(d, i), d.materials[i].used, Weeks)

MaterialsTrue(d, a) ==
  /\ a.about \in Programs /\ a.lists \subseteq Goods /\ a.short \subseteq a.lists
  /\ \A i \in a.lists : i \in a.short <=> LackOf(d, a.about, i) > 0
  /\ \A i \in a.lists :
       (\/ LackOf(d, a.about, i) > 0
        \/ NetOf(d, a.about, i) < d.materials[i].safety
        \/ RunsOut(NetOf(d, a.about, i), Quotient(d.materials[i].used, Weeks), 1, Horizon))
       => i \in a.risks
  /\ \A i \in a.short : a.order[i] = OrderOf(d, a.about, i)

IntakeTrue(d, a) ==
  /\ a.counts[1] = Cardinality(TodayIn(d))
  /\ a.counts[2] = Cardinality(TodayIn(d) \cap IntakesIn(d, {"COMPLETED"}))
  /\ a.counts[3] = Cardinality(TodayIn(d) \cap OpenIn(d))
  /\ a.counts[4] = Cardinality(TodayIn(d) \cap IntakesIn(d, {"NEEDS_REVIEW"}))
  /\ a.counts[5] = Cardinality(TodayIn(d) \cap IntakesIn(d, {"FAILED"}))

AttentionTrue(d, a) ==
  /\ a.counts[2] = Cardinality(OpenIn(d) \cap IntakesIn(d, {"NEEDS_REVIEW"}))
  /\ a.counts[4] = Cardinality(OpenIn(d) \cap IntakesIn(d, {"FAILED"}))

AnswerTrue(d, a) ==
  /\ a.asks = "exhaustion" => ExhaustionTrue(d, a)
  /\ a.asks = "materials" => a.narrowed \/ MaterialsTrue(d, a)
  /\ a.asks = "intake" => IntakeTrue(d, a)
  /\ a.asks = "attention" => AttentionTrue(d, a)
  /\ a.asks = "review" => a.lists = OpenIn(d) \cap IntakesIn(d, {"NEEDS_REVIEW", "FAILED"})

Thread(told) == \E T : told \in Seq(T)

PortfolioInv ==
  /\ book \in Books
  /\ Thread(answers)
  /\ \A n \in DOMAIN answers : AnswerTrue(book, answers[n])

LEMMA Told ==
  ASSUME PortfolioInv, NEW required, NEW a, Tell(required, a), AnswerTrue(book, a)
  PROVE  PortfolioInv'
<1>1. answers' = Append(answers, a) /\ book' = book
  BY DEF Tell
<1>2. PICK T : answers \in Seq(T)
  BY DEF PortfolioInv, Thread
<1>3. /\ answers' \in Seq(T \cup {a}) /\ DOMAIN answers' = 1 .. Len(answers) + 1
      /\ \A n \in 1 .. Len(answers) : answers'[n] = answers[n]
      /\ answers'[Len(answers) + 1] = a
  BY <1>1, <1>2
<1>4. Thread(answers')
  BY <1>3 DEF Thread
<1>5. DOMAIN answers = 1 .. Len(answers) /\ Len(answers) \in Nat
  BY <1>2
<1>6. \A n \in DOMAIN answers' : AnswerTrue(book, answers'[n])
  <2> TAKE n \in DOMAIN answers'
  <2>1. n \in DOMAIN answers \/ n = Len(answers) + 1
    BY <1>3, <1>5
  <2> QED BY <1>3, <1>5, <2>1 DEF PortfolioInv
<1> QED BY <1>1, <1>4, <1>6 DEF PortfolioInv

\* What the questions with figures answer is true.
LEMMA MaterialsTold ==
  ASSUME PortfolioInv, NEW p \in Programs, ProjectMaterials(p)
  PROVE  PortfolioInv'
<1>1. PICK purposes \in {Purposes} \cup {{u} : u \in Purposes},
           items \in {Goods, ShortOfOne}, ordering \in BOOLEAN :
       LET places == {x \in PositionsOf(p) :
                       /\ book.positions[x].purpose \in purposes
                       /\ ordering \/ book.positions[x].item \in items}
           balance == Needed(places)
           short == {i \in balance : Lack(p, places, i) > 0}
           required == IF ordering THEN ReadsProjects \cup ReadsProjectMaterials \cup {"analysis.read"}
                       ELSE ReadsProjects \cup ReadsProjectMaterials
       IN  Tell(required,
                [Statement("materials", p, balance, TRUE,
                        short # {}) EXCEPT
                   !.short = short,
                   !.order = [i \in Goods |-> IF i \in short THEN Reorder(p, places, i) ELSE 0],
                   !.risks = {i \in balance : Risk(p, places, i) # {}},
                   !.narrowed = places # PositionsOf(p)])
  BY DEF ProjectMaterials
<1> DEFINE places == {x \in PositionsOf(p) :
                       /\ book.positions[x].purpose \in purposes
                       /\ ordering \/ book.positions[x].item \in items}
           balance == Needed(places)
           short == {i \in balance : Lack(p, places, i) > 0}
           required == IF ordering THEN ReadsProjects \cup ReadsProjectMaterials \cup {"analysis.read"}
                       ELSE ReadsProjects \cup ReadsProjectMaterials
           a == [Statement("materials", p, balance, TRUE, short # {}) EXCEPT
                   !.short = short,
                   !.order = [i \in Goods |-> IF i \in short THEN Reorder(p, places, i) ELSE 0],
                   !.risks = {i \in balance : Risk(p, places, i) # {}},
                   !.narrowed = places # PositionsOf(p)]
<1>0. Tell(required, a)
  BY <1>1
<1>2. /\ a.asks = "materials" /\ a.about = p /\ a.lists = balance /\ a.short = short
      /\ a.order = [i \in Goods |-> IF i \in short THEN Reorder(p, places, i) ELSE 0]
      /\ a.risks = {i \in balance : Risk(p, places, i) # {}}
      /\ a.narrowed = (places # PositionsOf(p))
  BY DEF Statement
<1> HIDE DEF a
<1>3. book \in Books
  BY DEF PortfolioInv
<1>4. ASSUME places = PositionsOf(p) PROVE MaterialsTrue(book, a)
  <2>1. balance \subseteq Goods
    BY <1>3, <1>4, BookIs DEF Needed, PositionsOf
  <2>2. ASSUME NEW i \in balance
        PROVE  /\ Lack(p, places, i) = LackOf(book, p, i) /\ LackOf(book, p, i) \in Nat
               /\ NetNow(p, i) = NetOf(book, p, i)
               /\ Reorder(p, places, i) = OrderOf(book, p, i)
    BY <1>3, <1>4, <2>1, BalanceIs
  <2>3. \A i \in balance : i \in short <=> LackOf(book, p, i) > 0
    BY <2>2
  <2>4. ASSUME NEW i \in balance,
               \/ LackOf(book, p, i) > 0
               \/ NetOf(book, p, i) < book.materials[i].safety
               \/ RunsOut(NetOf(book, p, i), Quotient(book.materials[i].used, Weeks), 1,
                          Horizon)
        PROVE  i \in a.risks
    <3>1. Consumption(i) = Quotient(book.materials[i].used, Weeks)
      BY DEF Consumption, AverageWeekly
    <3>2. Risk(p, places, i) # {}
      BY <2>2, <2>4, <3>1 DEF Risk
    <3> QED BY <1>2, <3>2
  <2>5. \A i \in short : a.order[i] = OrderOf(book, p, i)
    BY <1>2, <2>1, <2>2
  <2>6. short \subseteq balance
    OBVIOUS
  <2> QED BY <1>2, <2>1, <2>3, <2>4, <2>5, <2>6 DEF MaterialsTrue
<1>5. AnswerTrue(book, a)
  BY <1>2, <1>4 DEF AnswerTrue
<1> QED BY <1>0, <1>5, Told

LEMMA ExhaustionTold ==
  ASSUME PortfolioInv, PortfolioExhaustion
  PROVE  PortfolioInv'
<1>1. PICK days \in Days \cup {Horizon} :
        LET used == Needed(UNION {PositionsOf(p) : p \in Running})
            spent(i) == book.materials[i].used
            listed == {i \in used : RunsOut(NetAvailable(i), spent(i), Weeks, days)}
            required == IF Running = {} THEN ReadsProjects ELSE ReadsAnalysis
        IN  Tell(required,
                 [Statement("exhaustion", Portfolio, listed, Running # {},
                         Running = {} \/ listed # {}) EXCEPT
                    !.left = [i \in Goods |-> IF i \in listed
                                              THEN DaysLeft(NetAvailable(i), spent(i), Weeks)
                                              ELSE 0]])
  BY DEF PortfolioExhaustion
<1> DEFINE used == Needed(UNION {PositionsOf(p) : p \in Running})
           spent(i) == book.materials[i].used
           listed == {i \in used : RunsOut(NetAvailable(i), spent(i), Weeks, days)}
           required == IF Running = {} THEN ReadsProjects ELSE ReadsAnalysis
           a == [Statement("exhaustion", Portfolio, listed, Running # {},
                         Running = {} \/ listed # {}) EXCEPT
                    !.left = [i \in Goods |-> IF i \in listed
                                              THEN DaysLeft(NetAvailable(i), spent(i), Weeks)
                                              ELSE 0]]
<1>0. Tell(required, a)
  BY <1>1
<1>2. /\ a.asks = "exhaustion" /\ a.lists = listed
      /\ a.left = [i \in Goods |-> IF i \in listed
                                   THEN DaysLeft(NetAvailable(i), spent(i), Weeks) ELSE 0]
  BY DEF Statement
<1> HIDE DEF a
<1>3. book \in Books
  BY DEF PortfolioInv
<1>4. used \subseteq Goods
  BY <1>3, BookIs DEF Needed, PositionsOf
<1>5. ASSUME NEW i \in listed
      PROVE  /\ i \in Goods /\ book.materials[i].used > 0
             /\ a.left[i] = DaysLeft(Stocked(book, i), book.materials[i].used, Weeks)
  <2>1. i \in Goods
    BY <1>4
  <2>2. book.materials[i].used > 0
    BY DEF RunsOut
  <2>3. NetAvailable(i) = Stocked(book, i)
    BY <1>3, <2>1, StockedIs
  <2> QED BY <1>2, <2>1, <2>2, <2>3
<1>6. ExhaustionTrue(book, a)
  BY <1>2, <1>5 DEF ExhaustionTrue
<1>7. AnswerTrue(book, a)
  BY <1>2, <1>6 DEF AnswerTrue
<1> QED BY <1>0, <1>7, Told

LEMMA IntakesAre ==
  /\ \A statuses : ListIntakes(statuses) = IntakesIn(book, statuses)
  /\ OpenIntakes = OpenIn(book) /\ ReceivedToday = TodayIn(book)
BY DEF ListIntakes, IntakesIn, OpenIntakes, OpenIn, ReceivedToday, TodayIn

LEMMA IntakeTold ==
  ASSUME PortfolioInv, SpecificationIntake
  PROVE  PortfolioInv'
<1>1. PICK listed, review, a :
        /\ a = [Statement("intake", Portfolio, listed, ReceivedToday # {}, review) EXCEPT
                  !.counts = <<Cardinality(ReceivedToday),
                               Cardinality(ReceivedToday \cap ListIntakes({"COMPLETED"})),
                               Cardinality(ReceivedToday \cap OpenIntakes),
                               Cardinality(ReceivedToday \cap ListIntakes({"NEEDS_REVIEW"})),
                               Cardinality(ReceivedToday \cap ListIntakes({"FAILED"}))>>]
        /\ Tell(ReadsSpecifications, a)
  BY DEF SpecificationIntake
<1>2. /\ a.asks = "intake"
      /\ a.counts = <<Cardinality(ReceivedToday),
                      Cardinality(ReceivedToday \cap ListIntakes({"COMPLETED"})),
                      Cardinality(ReceivedToday \cap OpenIntakes),
                      Cardinality(ReceivedToday \cap ListIntakes({"NEEDS_REVIEW"})),
                      Cardinality(ReceivedToday \cap ListIntakes({"FAILED"}))>>
  BY <1>1 DEF Statement
<1>3. /\ ReceivedToday = TodayIn(book) /\ OpenIntakes = OpenIn(book)
      /\ ListIntakes({"COMPLETED"}) = IntakesIn(book, {"COMPLETED"})
      /\ ListIntakes({"NEEDS_REVIEW"}) = IntakesIn(book, {"NEEDS_REVIEW"})
      /\ ListIntakes({"FAILED"}) = IntakesIn(book, {"FAILED"})
  BY IntakesAre
<1>4. IntakeTrue(book, a)
  <2>1. PICK k, l, m, n, o :
          /\ k = Cardinality(ReceivedToday)
          /\ l = Cardinality(ReceivedToday \cap ListIntakes({"COMPLETED"}))
          /\ m = Cardinality(ReceivedToday \cap OpenIntakes)
          /\ n = Cardinality(ReceivedToday \cap ListIntakes({"NEEDS_REVIEW"}))
          /\ o = Cardinality(ReceivedToday \cap ListIntakes({"FAILED"}))
    OBVIOUS
  <2>2. a.counts = <<k, l, m, n, o>>
    BY <1>2, <2>1
  <2>3. /\ a.counts[1] = k /\ a.counts[2] = l /\ a.counts[3] = m /\ a.counts[4] = n
        /\ a.counts[5] = o
    BY <2>2
  <2> QED BY <1>3, <2>1, <2>3 DEF IntakeTrue
<1>5. AnswerTrue(book, a)
  BY <1>2, <1>4 DEF AnswerTrue
<1> QED BY <1>1, <1>5, Told

LEMMA AttentionTold ==
  ASSUME PortfolioInv, PortfolioAttention
  PROVE  PortfolioInv'
<1>1. PICK mode \in {"RISK", "SLA", "HUMAN"} :
    LET waiting == OpenIntakes \cap ListIntakes({"NEEDS_REVIEW"})
        late == {n \in OpenIntakes : book.intakes[n].late}
        failed == OpenIntakes \cap ListIntakes({"FAILED"})
        atRisk == {p \in Running : book.projects[p].threatened}
                  \cup {book.intakes[n].project : n \in failed \cup late}
        listed == CASE mode = "HUMAN" -> waiting
                    [] mode = "SLA" -> late
                    [] OTHER -> atRisk \cap Running
        known == Running # {} \/ OpenIntakes # {}
    IN  Tell(ReadsProjects \cup ReadsSpecifications,
             [Statement("attention", Portfolio, listed, known,
                     ~known \/ (mode = "HUMAN" /\ waiting # {})) EXCEPT
                !.counts = <<Cardinality(atRisk), Cardinality(waiting),
                             Cardinality(late), Cardinality(failed)>>])
  BY DEF PortfolioAttention
<1> DEFINE waiting == OpenIntakes \cap ListIntakes({"NEEDS_REVIEW"})
           late == {n \in OpenIntakes : book.intakes[n].late}
           failed == OpenIntakes \cap ListIntakes({"FAILED"})
           atRisk == {p \in Running : book.projects[p].threatened}
                     \cup {book.intakes[n].project : n \in failed \cup late}
           listed == CASE mode = "HUMAN" -> waiting
                       [] mode = "SLA" -> late
                       [] OTHER -> atRisk \cap Running
           known == Running # {} \/ OpenIntakes # {}
           a == [Statement("attention", Portfolio, listed, known,
                        ~known \/ (mode = "HUMAN" /\ waiting # {})) EXCEPT
                   !.counts = <<Cardinality(atRisk), Cardinality(waiting),
                                Cardinality(late), Cardinality(failed)>>]
<1>0. Tell(ReadsProjects \cup ReadsSpecifications, a)
  BY <1>1
<1>2. /\ a.asks = "attention"
      /\ a.counts = <<Cardinality(atRisk), Cardinality(waiting),
                      Cardinality(late), Cardinality(failed)>>
  BY DEF Statement
<1> HIDE DEF a
<1>3. /\ waiting = OpenIn(book) \cap IntakesIn(book, {"NEEDS_REVIEW"})
      /\ failed = OpenIn(book) \cap IntakesIn(book, {"FAILED"})
  BY IntakesAre
<1>4. AttentionTrue(book, a)
  <2>1. PICK k, l, m, n : /\ k = Cardinality(atRisk) /\ l = Cardinality(waiting)
                          /\ m = Cardinality(late) /\ n = Cardinality(failed)
    OBVIOUS
  <2>2. a.counts = <<k, l, m, n>>
    BY <1>2, <2>1
  <2>3. a.counts[2] = l /\ a.counts[4] = n
    BY <2>2
  <2> HIDE DEF waiting, failed
  <2> QED BY <1>3, <2>1, <2>3 DEF AttentionTrue
<1>5. AnswerTrue(book, a)
  BY <1>2, <1>4 DEF AnswerTrue
<1> QED BY <1>0, <1>5, Told

LEMMA ReviewTold ==
  ASSUME PortfolioInv, PositionsForReview
  PROVE  PortfolioInv'
<1>1. PICK listed, a :
        /\ listed = OpenIntakes \cap ListIntakes({"NEEDS_REVIEW", "FAILED"})
        /\ a = Statement("review", Portfolio, listed, TRUE, listed # {})
        /\ Tell(ReadsSpecifications, a)
  BY DEF PositionsForReview
<1>2. a.asks = "review" /\ a.lists = listed
  BY <1>1 DEF Statement
<1>3. AnswerTrue(book, a)
  BY <1>1, <1>2, IntakesAre DEF AnswerTrue
<1> QED BY <1>1, <1>3, Told

\* The others have no figures that another answer repeats.
Unrelated == {"projects", "deadlines", "version", "specifications", "warehouse", "material"}

LEMMA OtherTold ==
  ASSUME PortfolioInv, NEW asks \in Unrelated, NEW about, NEW lists, NEW sure, NEW review,
         NEW required, Tell(required, Statement(asks, about, lists, sure, review))
  PROVE  PortfolioInv'
<1>1. PICK a : a = Statement(asks, about, lists, sure, review)
  OBVIOUS
<1>2. a.asks \in Unrelated
  BY <1>1 DEF Statement
<1>3. AnswerTrue(book, a)
  BY <1>2 DEF AnswerTrue, Unrelated
<1> QED BY <1>1, <1>3, Told

LEMMA OthersTold ==
  ASSUME PortfolioInv,
         \/ ProjectsByStatus \/ ProjectStatusSequence \/ UpcomingDeadlines
         \/ SpecificationVersionChange
         \/ \E p \in Programs : ProjectSpecifications(p)
         \/ \E i \in Goods : WarehouseStock(i) \/ MaterialQuestion(i)
  PROVE  PortfolioInv'
<1> USE DEF Unrelated
<1>1. CASE ProjectsByStatus
  BY <1>1, OtherTold DEF ProjectsByStatus
<1>2. CASE ProjectStatusSequence
  BY <1>2, OtherTold DEF ProjectStatusSequence
<1>3. CASE UpcomingDeadlines
  BY <1>3, OtherTold DEF UpcomingDeadlines
<1>4. CASE SpecificationVersionChange
  BY <1>4, OtherTold DEF SpecificationVersionChange
<1>5. CASE \E p \in Programs : ProjectSpecifications(p)
  BY <1>5, OtherTold DEF ProjectSpecifications
<1>6. CASE \E i \in Goods : WarehouseStock(i)
  BY <1>6, OtherTold DEF WarehouseStock
<1>7. CASE \E i \in Goods : MaterialQuestion(i)
  <2>1. PICK i \in Goods : MaterialQuestion(i)
    BY <1>7
  <2>2. PICK used, required, review : Tell(required, Statement("material", i, used, TRUE, review))
    BY <2>1, Zenon DEF MaterialQuestion
  <2> QED BY <2>2, OtherTold
<1> QED BY <1>1, <1>2, <1>3, <1>4, <1>5, <1>6, <1>7

LEMMA PortfolioStep ==
  ASSUME PortfolioInv, [PortfolioNext]_portfolioVars
  PROVE  PortfolioInv'
<1>1. CASE UNCHANGED portfolioVars
  BY <1>1 DEF PortfolioInv, portfolioVars
<1>2. CASE \E p \in Programs : ProjectMaterials(p)
  BY <1>2, MaterialsTold
<1> QED BY <1>1, <1>2, ExhaustionTold, IntakeTold, AttentionTold, ReviewTold, OthersTold
     DEF PortfolioNext

\* The answers are true of the dataset, and what is true of it agrees.
LEMMA SaidIsTrue ==
  ASSUME PortfolioInv, NEW asks, NEW a \in SaidOf(asks)
  PROVE  a.asks = asks /\ AnswerTrue(book, a) /\ book \in Books
BY DEF SaidOf, PortfolioInv

LEMMA WholeIsTrue ==
  ASSUME PortfolioInv, NEW b \in WholeProjects
  PROVE  MaterialsTrue(book, b)
<1>1. b \in SaidOf("materials") /\ ~b.narrowed
  BY DEF WholeProjects
<1> QED BY <1>1, SaidIsTrue DEF AnswerTrue

LEMMA RunningOutAgrees == PortfolioInv => RunningOutIsARisk
<1> SUFFICES ASSUME PortfolioInv, NEW a \in SaidOf("exhaustion"), NEW b \in WholeProjects,
                    NEW i \in a.lists, i \in b.lists, a.left[i] <= Horizon
             PROVE  i \in b.risks
  BY DEF RunningOutIsARisk
<1>1. ExhaustionTrue(book, a) /\ MaterialsTrue(book, b) /\ book \in Books
  BY SaidIsTrue, WholeIsTrue DEF AnswerTrue
<1>2. /\ i \in Goods /\ b.about \in Programs
      /\ RunsOut(Stocked(book, i), book.materials[i].used, Weeks, Horizon)
  BY <1>1 DEF ExhaustionTrue, MaterialsTrue, RunsOut
<1>3. /\ Stocked(book, i) \in Nat /\ GivenOthers(book, b.about, i) \in Nat
      /\ book.materials[i].used \in Nat
  BY <1>1, <1>2, StockedIs, OthersGiven, BookIs
<1>4. NetOf(book, b.about, i) \in Nat /\ NetOf(book, b.about, i) <= Stocked(book, i)
  BY <1>3 DEF NetOf, Positive
<1>5. RunsOut(NetOf(book, b.about, i), Quotient(book.materials[i].used, Weeks), 1, Horizon)
  BY <1>2, <1>3, <1>4, RoundedRunsOut
<1> QED BY <1>1, <1>5 DEF MaterialsTrue

LEMMA SuppliesAgree == PortfolioInv => SuppliedTogether
<1> SUFFICES ASSUME PortfolioInv, NEW i \in Goods
             PROVE  LET told == {b.about : b \in {b \in WholeProjects : i \in b.lists \ b.short}}
                        demand(p) == Demand(PositionsOf(p), i)
                    IN  /\ told # {} /\ book.materials[i].inbound = {}
                        /\ \A p \in told : book.allocated[p][i] = demand(p)
                        => MapThenSumSet(demand, told) <= NetAvailable(i)
  BY DEF SuppliedTogether
<1> DEFINE told == {b.about : b \in {b \in WholeProjects : i \in b.lists \ b.short}}
           f == [p \in Programs |-> Wanted(book, PlacesOf(book, p), i)]
           g == [q \in Programs |-> book.allocated[q][i]]
<1>1. book \in Books
  BY DEF PortfolioInv
<1>2. told \subseteq Programs
  BY WholeIsTrue DEF MaterialsTrue
<1>3. ASSUME NEW p \in Programs
      PROVE  f[p] = Demand(PositionsOf(p), i) /\ f[p] \in Nat
  <2>1. PositionsOf(p) = PlacesOf(book, p) /\ PositionsOf(p) \subseteq Places
    BY DEF PositionsOf, PlacesOf
  <2> QED BY <1>1, <2>1, WantedIs
<1>4. IsFiniteSet(told) /\ IsFiniteSet(Programs) /\ \A q \in Programs : g[q] \in Nat
  BY <1>1, <1>2, BookIs, FS_Subset
<1>5. MapThenSumSet(LAMBDA p : Demand(PositionsOf(p), i), told) = Sum(f, told)
  BY <1>1, <1>2, TogetherIs
<1>6. NetAvailable(i) = Stocked(book, i) /\ Stocked(book, i) \in Nat
  BY <1>1, StockedIs
<1>7. ASSUME book.materials[i].inbound = {}, NEW p \in told
      PROVE  f[p] = 0 \/ Sum(g, Programs \ {p}) + f[p] <= Stocked(book, i)
  <2>1. PICK b \in WholeProjects : p = b.about /\ i \in b.lists /\ i \notin b.short
    OBVIOUS
  <2>2. p \in Programs /\ ~(LackOf(book, p, i) > 0)
    BY <1>2, <2>1, WholeIsTrue DEF MaterialsTrue
  <2>3. PICK need, net, then : need = NeedOf(book, p, i) /\ net = NetOf(book, p, i)
                               /\ then = NetThen(book, p, i)
    OBVIOUS
  <2>4. need \in Nat /\ net \in Nat /\ then \in Nat
    BY <1>1, <2>2, <2>3, BalanceIs
  <2>5. need <= then
    BY <2>2, <2>3, <2>4 DEF LackOf, Positive
  <2>6. then = net
    <3>1. Coming(book, i, 0 .. book.projects[p].due) = 0
      BY <1>7, SumOfNone DEF Coming
    <3> QED BY <2>3, <2>4, <3>1 DEF NetThen
  <2>7. f[p] <= need
    <3>1. book.materials[i].used \in Nat /\ book.materials[i].safety \in Nat
          /\ book.projects[p].due \in Nat
      BY <1>1, <2>2, BookIs
    <3>2. PICK a \in Nat : a = Quotient(book.materials[i].used, Weeks)
      BY <3>1, PortfolioAssumption, RoundedUp
    <3>3. a * book.projects[p].due \in Nat
      BY <3>1
    <3>4. need = f[p] + a * book.projects[p].due + book.materials[i].safety
      BY <2>2, <2>3, <3>2 DEF NeedOf
    <3> QED BY <1>3, <2>2, <3>1, <3>3, <3>4
  <2>8. GivenOthers(book, p, i) = Sum(g, Programs \ {p}) /\ GivenOthers(book, p, i) \in Nat
    BY <1>1, <2>2, OthersGiven DEF GivenOthers
  <2> HIDE DEF f, g, told
  <2> QED BY <1>3, <1>6, <2>2, <2>3, <2>4, <2>5, <2>6, <2>7, <2>8 DEF NetOf, Positive
<1>8. ASSUME book.materials[i].inbound = {}, \A p \in told : g[p] = f[p]
      PROVE  Sum(f, told) <= Stocked(book, i)
  <2>1. CASE \A p \in told : f[p] = 0
    BY <1>6, <2>1, SumOfZeros
  <2>2. CASE \E p \in told : f[p] # 0
    <3>1. PICK p \in told : f[p] # 0
      BY <2>2
    <3> HIDE DEF f, g, told
    <3>2. Sum(g, Programs \ {p}) + f[p] <= Stocked(book, i)
      BY <1>7, <1>8, <3>1
    <3>3. Sum(f, told) = Sum(f, told \ {p}) + f[p]
      BY <1>2, <1>3, <1>4, SumWithout
    <3>4. IsFiniteSet(Programs \ {p}) /\ told \ {p} \subseteq Programs \ {p} /\ IsFiniteSet(told \ {p})
      BY <1>2, <1>4, FS_RemoveElement
    <3>5. Sum(f, told \ {p}) <= Sum(g, Programs \ {p})
      <4>1. \A x \in Programs \ {p} : g[x] \in Nat
        BY <1>4
      <4>2. \A x \in told \ {p} : f[x] \in Nat /\ f[x] <= g[x]
        BY <1>2, <1>3, <1>8
      <4> QED BY <3>4, <4>1, <4>2, SumMore
    <3>6. Sum(f, told \ {p}) \in Nat /\ Sum(g, Programs \ {p}) \in Nat /\ f[p] \in Nat
      BY <1>2, <1>3, <1>4, <3>4, SumIsNat
    <3> QED BY <1>6, <3>2, <3>3, <3>5, <3>6
  <2> QED BY <2>1, <2>2
<1>9. ASSUME book.materials[i].inbound = {},
             \A p \in told : book.allocated[p][i] = Demand(PositionsOf(p), i)
      PROVE  Sum(f, told) <= Stocked(book, i)
  BY <1>2, <1>3, <1>8, <1>9
<1> QED
  <2> HIDE DEF f, g, told
  <2> QED BY <1>5, <1>6, <1>9 DEF told

LEMMA OrdersAgree == PortfolioInv => OrderIsEnough
<1> SUFFICES ASSUME PortfolioInv, NEW b \in WholeProjects, NEW i \in b.short
             PROVE  LET all == NetNow(b.about, i) + Inbound(i, ByNeed(b.about) \cup AfterNeed(b.about))
                        needed == RequiredAtNeed(b.about, PositionsOf(b.about), i)
                    IN  /\ all + b.order[i] >= needed
                        /\ b.order[i] > 0 => all + b.order[i] - needed < Pack
  BY DEF OrderIsEnough
<1>1. PICK p : p = b.about
  OBVIOUS
<1>2. /\ book \in Books /\ p \in Programs /\ i \in Goods
      /\ LackOf(book, p, i) > 0 /\ b.order[i] = OrderOf(book, p, i)
  <2>1. MaterialsTrue(book, b)
    BY WholeIsTrue
  <2> QED BY <1>1, <2>1 DEF MaterialsTrue, PortfolioInv
<1>3. PICK soon, later : soon = ByNeed(p) /\ later = AfterNeed(p)
  OBVIOUS
<1>4. soon \cap later = {}
  BY <1>3 DEF AfterNeed
<1>5. Inbound(i, soon \cup later) = Inbound(i, soon) + Inbound(i, later)
  <2> DEFINE f == [s \in book.materials[i].inbound |-> s.quantity]
             S == {s \in book.materials[i].inbound : s.week \in soon}
             T == {s \in book.materials[i].inbound : s.week \in later}
             U == {s \in book.materials[i].inbound : s.week \in soon \cup later}
  <2>1. U = S \cup T /\ S \cap T = {}
    BY <1>4
  <2>2. IsFiniteSet(S) /\ IsFiniteSet(T)
    BY <1>2, BookIs, FS_Subset
  <2>3. \A s \in S \cup T : f[s] \in Nat
    BY <1>2, BookIs
  <2>4. /\ Inbound(i, soon) = Sum(f, S) /\ Inbound(i, later) = Sum(f, T)
        /\ Inbound(i, soon \cup later) = Sum(f, U)
    BY <1>2, ComingIs DEF Coming
  <2> HIDE DEF f, S, T, U
  <2> QED BY <2>1, <2>2, <2>3, <2>4, SumApart
<1>6. PICK net, need, x, y, lack, order :
        /\ net = NetNow(p, i) /\ need = RequiredAtNeed(p, PositionsOf(p), i)
        /\ x = Inbound(i, soon) /\ y = Inbound(i, later)
        /\ lack = LackOf(book, p, i) /\ order = OrderOf(book, p, i)
  OBVIOUS
<1>7. x \in Nat /\ y \in Nat
  BY <1>2, <1>6, ComingIs
<1>8. net \in Nat /\ need \in Nat /\ lack \in Nat /\ lack > 0
  BY <1>2, <1>6, BalanceIs
<1>9. lack = Positive(need - (net + x))
  BY <1>2, <1>3, <1>6, BalanceIs DEF Lack, NetAtNeed
<1>10. need = net + x + lack
  BY <1>7, <1>8, <1>9 DEF Positive
<1>11. PICK q \in Nat : q = Positive(lack - y)
  <2>1. lack - y \in Int /\ (lack - y < 0 \/ lack - y \in Nat)
    BY <1>7, <1>8
  <2>2. Positive(lack - y) \in Nat
    BY <2>1 DEF Positive
  <2> QED BY <2>2
<1>12. order = Quotient(q, Pack) * Pack
  <2>1. y = Coming(book, i, LaterOf(book, p))
    BY <1>2, <1>3, <1>6, ComingIs, BalanceIs
  <2> QED BY <1>6, <1>11, <2>1 DEF OrderOf
<1>13. Pack \in Nat \ {0} /\ order \in Nat /\ q <= order /\ order < q + Pack
  BY <1>12, PortfolioAssumption, RoundedUp
<1>14. q = 0 => order = 0
  <2>1. SUFFICES ASSUME q = 0 PROVE order = 0
    OBVIOUS
  <2>2. PICK k, m : k = Quotient(q, Pack) /\ m = Pack
    OBVIOUS
  <2>3. k \in Nat /\ m \in Nat \ {0} /\ order = k * m
    BY <1>12, <2>2, PortfolioAssumption, RoundedUp
  <2>4. SUFFICES ASSUME 1 <= k PROVE FALSE
    BY <2>3
  <2>5. 1 * m <= k * m /\ 1 * m = m
    BY <2>3, <2>4, TimesGrows
  <2> QED BY <1>13, <2>1, <2>2, <2>3, <2>5
<1>15. /\ net + (x + y) + order >= need
       /\ order > 0 => net + (x + y) + order - need < Pack
  BY <1>7, <1>8, <1>10, <1>11, <1>13, <1>14 DEF Positive
<1> QED BY <1>1, <1>2, <1>3, <1>5, <1>6, <1>15

LEMMA IntakesAgree == PortfolioInv => IntakesAccountedFor
<1> SUFFICES ASSUME PortfolioInv, NEW a \in SaidOf("intake")
             PROVE  /\ a.counts[1] = a.counts[2] + a.counts[3]
                         + Cardinality(ReceivedToday \cap ListIntakes({"CANCELLED"}))
                    /\ \A b \in SaidOf("review") : a.counts[4] + a.counts[5] <= Cardinality(b.lists)
                    /\ \A b \in SaidOf("attention") :
                         a.counts[4] <= b.counts[2] /\ a.counts[5] <= b.counts[4]
  BY DEF IntakesAccountedFor
<1>1. IntakeTrue(book, a) /\ book \in Books
  BY SaidIsTrue DEF AnswerTrue
<1>2. IsFiniteSet(Intakes)
  BY PortfolioAssumption
<1>3. PICK today, done, open, left, review, failed :
        /\ today = TodayIn(book) /\ done = IntakesIn(book, {"COMPLETED"})
        /\ open = OpenIn(book) /\ left = IntakesIn(book, {"CANCELLED"})
        /\ review = IntakesIn(book, {"NEEDS_REVIEW"}) /\ failed = IntakesIn(book, {"FAILED"})
  OBVIOUS
<1>4. \A n \in Intakes : book.intakes[n].status \in IntakeStatuses
  BY <1>1, BookIs DEF Book, Intake
<1>5. /\ today \subseteq Intakes /\ today \subseteq done \cup open \cup left
      /\ done \cap open = {} /\ done \cap left = {} /\ open \cap left = {}
      /\ review \subseteq open /\ failed \subseteq open /\ review \cap failed = {}
      /\ open \subseteq Intakes
  BY <1>3, <1>4 DEF TodayIn, IntakesIn, OpenIn, IntakeStatuses
<1>6. IsFiniteSet(today) /\ IsFiniteSet(open)
  BY <1>2, <1>5, FS_Subset
<1>7. Cardinality(today)
        = Cardinality(today \cap done) + Cardinality(today \cap open) + Cardinality(today \cap left)
  <2>1. PICK u, v, w : u = today \cap done /\ v = today \cap open /\ w = today \cap left
    OBVIOUS
  <2>2. today = (u \cup v) \cup w /\ u \cap v = {} /\ (u \cup v) \cap w = {}
        /\ u \subseteq today /\ v \subseteq today /\ w \subseteq today
    BY <1>5, <2>1
  <2>3. IsFiniteSet(u) /\ IsFiniteSet(v) /\ IsFiniteSet(w)
    BY <1>6, <2>2, FS_Subset
  <2>4. /\ Cardinality(u) \in Nat /\ Cardinality(v) \in Nat /\ Cardinality(w) \in Nat
        /\ Cardinality({}) = 0
    BY <2>3, FS_CardinalityType, FS_EmptySet
  <2>5. IsFiniteSet(u \cup v)
        /\ Cardinality(u \cup v) = Cardinality(u) + Cardinality(v) - Cardinality(u \cap v)
    BY <2>3, FS_Union
  <2>6. Cardinality((u \cup v) \cup w)
          = Cardinality(u \cup v) + Cardinality(w) - Cardinality((u \cup v) \cap w)
    BY <2>3, <2>5, FS_Union
  <2>7. /\ Cardinality(today) = Cardinality((u \cup v) \cup w)
        /\ Cardinality(u \cap v) = 0 /\ Cardinality((u \cup v) \cap w) = 0
    BY <2>2, <2>4
  <2>8. Cardinality(today) = Cardinality(u) + Cardinality(v) + Cardinality(w)
    BY <2>4, <2>5, <2>6, <2>7
  <2> QED BY <2>1, <2>8
<1>8. ASSUME NEW b \in SaidOf("review")
      PROVE  Cardinality(today \cap review) + Cardinality(today \cap failed) <= Cardinality(b.lists)
  <2>1. b.lists = open \cap IntakesIn(book, {"NEEDS_REVIEW", "FAILED"})
    BY <1>3, SaidIsTrue DEF AnswerTrue
  <2>2. PICK u, v, w : u = today \cap review /\ v = today \cap failed /\ w = b.lists
    OBVIOUS
  <2>3. u \cup v \subseteq w /\ u \cap v = {} /\ w \subseteq open /\ u \subseteq today
        /\ v \subseteq today
    BY <1>3, <1>5, <2>1, <2>2 DEF IntakesIn
  <2>4. IsFiniteSet(u) /\ IsFiniteSet(v) /\ IsFiniteSet(w)
    BY <1>6, <2>3, FS_Subset
  <2>5. /\ Cardinality(u) \in Nat /\ Cardinality(v) \in Nat /\ Cardinality({}) = 0
        /\ Cardinality(u \cup v) = Cardinality(u) + Cardinality(v) - Cardinality(u \cap v)
        /\ Cardinality(u \cup v) <= Cardinality(w)
    BY <2>3, <2>4, FS_CardinalityType, FS_EmptySet, FS_Union, FS_Subset
  <2>6. Cardinality(u \cap v) = 0
    BY <2>3, <2>5
  <2>7. IsFiniteSet(u \cup v) /\ Cardinality(w) \in Nat
    BY <2>4, FS_CardinalityType, FS_Union
  <2>8. Cardinality(u) + Cardinality(v) <= Cardinality(w)
    BY <2>5, <2>6, <2>7
  <2> QED BY <2>2, <2>8
<1>9. ASSUME NEW b \in SaidOf("attention")
      PROVE  /\ Cardinality(today \cap review) <= b.counts[2]
             /\ Cardinality(today \cap failed) <= b.counts[4]
  <2>1. b.counts[2] = Cardinality(open \cap review) /\ b.counts[4] = Cardinality(open \cap failed)
    BY <1>3, SaidIsTrue DEF AnswerTrue, AttentionTrue
  <2>2. /\ today \cap review \subseteq open \cap review /\ today \cap failed \subseteq open \cap failed
        /\ IsFiniteSet(open \cap review) /\ IsFiniteSet(open \cap failed)
    BY <1>5, <1>6, FS_Subset
  <2> QED BY <2>1, <2>2, FS_Subset
<1>10. /\ a.counts[1] = Cardinality(today) /\ a.counts[2] = Cardinality(today \cap done)
       /\ a.counts[3] = Cardinality(today \cap open) /\ a.counts[4] = Cardinality(today \cap review)
       /\ a.counts[5] = Cardinality(today \cap failed)
  BY <1>1, <1>3 DEF IntakeTrue
<1>11. Cardinality(ReceivedToday \cap ListIntakes({"CANCELLED"})) = Cardinality(today \cap left)
  BY <1>3, IntakesAre
<1> QED BY <1>7, <1>8, <1>9, <1>10, <1>11

\* However many questions on one dataset are asked and in whatever order, their answers
\* agree: what is left for no more than the days a project looks ahead is told as a risk
\* to every project that needs it, whatever days the question named; projects told
\* that they lack nothing can be supplied together, an order is enough and less than a
\* pack too much, and the received specifications are all counted (portfolioExhaustion,
\* projectMaterials, specificationIntake, portfolioAttention, positionsForReview).
THEOREM PortfolioAnswersAgree == PortfolioSpec => []AnswersAgree
<1>1. PortfolioInit => PortfolioInv
  <2>1. <<>> \in Seq({}) /\ \A n \in DOMAIN <<>> : FALSE
    OBVIOUS
  <2>2. Thread(<<>>)
    BY <2>1 DEF Thread
  <2> QED BY <2>1, <2>2 DEF PortfolioInit, PortfolioInv
<1>2. PortfolioInv /\ [PortfolioNext]_portfolioVars => PortfolioInv'
  BY PortfolioStep
<1>3. PortfolioInv => AnswersAgree
  BY RunningOutAgrees, SuppliesAgree, OrdersAgree, IntakesAgree DEF AnswersAgree
<1> QED BY <1>1, <1>2, <1>3, PTL DEF PortfolioSpec
=============================================================================
