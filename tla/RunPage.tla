------------------------------- MODULE RunPage -------------------------------
(***************************************************************************)
(* The page that launches or shows a run (scenario-launcher.tsx and        *)
(* run-detail-client.tsx): it polls the run it shows until that is over,   *)
(* and stops doing so while it asks the server to cancel, repeat or resume *)
(* it.  Other pages may do the same to the same runs.                      *)
(*                                                                         *)
(* A poll is a loop of its own with its own AbortController; the flag that *)
(* stops it and the reference to the controller belong to the page.  What  *)
(* a script does without waiting is one step: an aborted request throws    *)
(* before anything else happens.                                           *)
(*                                                                         *)
(* Abstractions: of a run there are its version and its status, RUNNING    *)
(* for all that are not terminal (its steps are the module ScenarioRun).   *)
(***************************************************************************)
EXTENDS Integers, FiniteSets

CONSTANTS
  Polls,       \* bound: loops that may be started
  MaxRuns,     \* bound: runs
  MaxVersion   \* bound: version of a run

ASSUME RunPageAssumption ==
  MaxRuns \in Nat \ {0} /\ MaxVersion \in Nat \ {0} /\ "none" \notin Polls

VARIABLES
  runs,       \* what the server has: the runs made so far
  shown,      \* run: the run that is shown, as it was answered
  actionBusy, \* the action in flight, "none" if there is none
  failed,     \* error: something is said to have failed
  observing,  \* observing
  stop,       \* stopRef
  abort,      \* pollAbortRef: the loop whose controller it is
  poll        \* local state of every loop

runPageVars == <<runs, shown, actionBusy, failed, observing, stop, abort, poll>>

-----------------------------------------------------------------------------
(* Runs, loops and the page *)

RunIds == 1 .. MaxRuns
RunStatuses == {"none", "RUNNING", "COMPLETED", "FAILED", "CANCELLED"}
RunNow == [id : 0 .. MaxRuns, version : 0 .. MaxVersion, status : RunStatuses]
Nowhere == [id |-> 0, version |-> 0, status |-> "none"]
NewRun(r) == [id |-> r, version |-> 1, status |-> "RUNNING"]
Made == {r \in RunIds : runs[r].id # 0}
Over(run) == run.status # "RUNNING"

\* delay: waiting for the next poll; asked: the request is in flight; body: it has
\* been answered, and the answer is being read.
Loop == [pc : {"unused", "delay", "asked", "body", "ended"}, current : RunNow]
NoLoop == [pc |-> "unused", current |-> Nowhere]

RunPageInit ==
  /\ runs = [r \in RunIds |-> Nowhere]
  /\ shown = Nowhere /\ actionBusy = "none" /\ failed = FALSE /\ observing = FALSE
  /\ stop = FALSE /\ abort = "none"
  /\ poll = [l \in Polls |-> NoLoop]

-----------------------------------------------------------------------------
(* The server *)

Changed(r, status) == [id |-> r, version |-> runs[r].version + 1, status |-> status]

\* A worker, or another page, moves a run on; one that failed may be resumed.
RunMoves(r) ==
  /\ r \in Made /\ runs[r].version < MaxVersion
  /\ runs[r].status \in {"RUNNING", "FAILED"}
  /\ \E status \in IF Over(runs[r]) THEN {"RUNNING"} ELSE RunStatuses \ {"none"} :
       runs' = [runs EXCEPT ![r] = Changed(r, status)]
  /\ UNCHANGED <<shown, actionBusy, failed, observing, stop, abort, poll>>

-----------------------------------------------------------------------------
(* Polling *)

\* Faulty variant: the loop is told to stop, but its request is not aborted.
NotAborted(l) == poll

Aborted(l) == IF l = "none" THEN poll ELSE [poll EXCEPT ![l].pc = "ended"]

\* stopObserving.  A request that is aborted while its answer is being read answers
\* null, and looking for the status of that is an error that is shown.
StopObserving ==
  /\ poll' = Aborted(abort)
  /\ abort' = "none" /\ stop' = TRUE /\ observing' = FALSE
AbortedReading == abort # "none" /\ poll[abort].pc = "body"

\* startObserving: a loop whose run is over ends at once.
StartObserving(run) ==
  \E l \in Polls :
    /\ poll[l].pc = "unused"
    /\ poll' = [Aborted(abort) EXCEPT
                  ![l] = [pc |-> IF Over(run) THEN "ended" ELSE "delay", current |-> run]]
    /\ abort' = IF Over(run) THEN "none" ELSE l
    /\ stop' = FALSE /\ observing' = ~Over(run)

\* run-detail-client.tsx shows a run that was read before, and observes it.
OpenRun(r) ==
  /\ shown = Nowhere /\ actionBusy = "none" /\ r \in Made
  /\ shown' = runs[r]
  /\ IF Over(runs[r]) THEN UNCHANGED <<observing, stop, abort, poll>>
     ELSE StartObserving(runs[r])
  /\ UNCHANGED <<runs, actionBusy, failed>>

\* finally: only the loop the page refers to ends its observing.
Ends(l) ==
  IF abort = l THEN abort' = "none" /\ observing' = FALSE
  ELSE UNCHANGED <<abort, observing>>

Poll(l) ==
  /\ poll[l].pc = "delay"
  /\ poll' = [poll EXCEPT ![l].pc = "asked"]
  /\ UNCHANGED <<runs, shown, actionBusy, failed, observing, stop, abort>>

PollAnswered(l) ==
  /\ poll[l].pc = "asked"
  /\ poll' = [poll EXCEPT ![l] = [pc |-> "body", current |-> runs[poll[l].current.id]]]
  /\ UNCHANGED <<runs, shown, actionBusy, failed, observing, stop, abort>>

PollThrows(l) ==
  /\ poll[l].pc = "asked"
  /\ failed' = TRUE
  /\ poll' = [poll EXCEPT ![l].pc = "ended"]
  /\ Ends(l)
  /\ UNCHANGED <<runs, shown, actionBusy, stop>>

\* observe: it is shown unless the loop is to stop, which goes on until the run is
\* over.
ShowPolled(l) ==
  LET last == stop \/ Over(poll[l].current)
  IN  /\ poll[l].pc = "body"
      /\ shown' = IF stop THEN shown ELSE poll[l].current
      /\ poll' = [poll EXCEPT ![l].pc = IF last THEN "ended" ELSE "delay"]
      /\ IF last THEN Ends(l) ELSE UNCHANGED <<abort, observing>>
      /\ UNCHANGED <<runs, actionBusy, failed, stop>>

-----------------------------------------------------------------------------
(* Actions *)

\* The buttons that are enabled.  A new run is launched on another page than the
\* one that resumes a failed run.
Enabled(kind) ==
  /\ actionBusy = "none"
  /\ CASE kind = "launch" -> ~observing
       [] kind = "cancel" -> ~Over(shown)
       [] kind = "retry" -> ~observing /\ shown.status \in {"FAILED", "CANCELLED"}
       [] OTHER -> ~observing /\ shown.status = "FAILED"

\* launch, cancel, retry, importSource: stop polling, forget the last error (the
\* launcher does not when it cancels), and ask.
Act(kind) ==
  /\ Enabled(kind)
  /\ actionBusy' = kind
  /\ StopObserving
  /\ \E forgotten \in {TRUE} \cup (IF kind = "cancel" THEN {FALSE} ELSE {}) :
       failed' = (AbortedReading \/ (failed /\ ~forgotten))
  /\ UNCHANGED <<runs, shown>>

\* What the server does with it, and the run it answers with.
Served(kind, r, answer) ==
  \/ /\ kind \in {"launch", "retry"} /\ r \in RunIds \ Made /\ answer = NewRun(r)
     /\ runs' = [runs EXCEPT ![r] = answer]
  \/ /\ kind = "cancel" /\ r = shown.id
     /\ IF Over(runs[r]) THEN answer = runs[r] /\ UNCHANGED runs
        ELSE /\ runs[r].version < MaxVersion /\ answer = Changed(r, "CANCELLED")
             /\ runs' = [runs EXCEPT ![r] = answer]
  \/ /\ kind = "import" /\ r = shown.id
     /\ runs[r] = shown  \* if-match
     /\ runs[r].version < MaxVersion /\ answer = Changed(r, "RUNNING")
     /\ runs' = [runs EXCEPT ![r] = answer]

\* It is answered: the run is shown, and observed unless it was cancelled.
Acted ==
  \E r \in RunIds, answer \in RunNow :
    /\ Served(actionBusy, r, answer)
    /\ shown' = answer
    /\ actionBusy' = "none"
    /\ IF actionBusy = "cancel" THEN UNCHANGED <<observing, stop, abort, poll>>
       ELSE StartObserving(answer)
    /\ UNCHANGED failed

\* It is refused, or its answer is lost.
ActFails ==
  /\ actionBusy # "none"
  /\ UNCHANGED runs \/ \E r \in RunIds, answer \in RunNow : Served(actionBusy, r, answer)
  /\ actionBusy' = "none" /\ failed' = TRUE
  /\ UNCHANGED <<shown, observing, stop, abort, poll>>

-----------------------------------------------------------------------------
(* Specification *)

RunPageNext ==
  \/ \E r \in RunIds : RunMoves(r) \/ OpenRun(r)
  \/ \E l \in Polls : Poll(l) \/ PollAnswered(l) \/ PollThrows(l) \/ ShowPolled(l)
  \/ \E kind \in {"launch", "cancel", "retry", "import"} : Act(kind)
  \/ Acted \/ ActFails

RunPageSpec == RunPageInit /\ [][RunPageNext]_runPageVars

-----------------------------------------------------------------------------
(* Properties *)

\* The kind of value every variable holds.
RunPageTypeOK ==
  /\ runs \in [RunIds -> RunNow] /\ shown \in RunNow
  /\ actionBusy \in {"none", "launch", "cancel", "retry", "import"}
  /\ failed \in BOOLEAN /\ observing \in BOOLEAN /\ stop \in BOOLEAN
  /\ abort \in Polls \cup {"none"}
  /\ poll \in [Polls -> Loop]

\* A page that shows a run which is not over follows it, or is asking the server to
\* change it, or says that something failed; it never shows an older state of a run
\* after a newer one, and only what its user asked for makes it show another run
\* (scenario-launcher.tsx: observe, stopObserving).
Follows(l) == poll[l].pc \in {"delay", "asked", "body"} /\ poll[l].current.id = shown.id
PageFollowsRun ==
  [][/\ Over(shown) \/ actionBusy # "none" \/ failed \/ \E l \in Polls : Follows(l)
     /\ shown'.id = shown.id => shown'.version >= shown.version
     /\ shown'.id # shown.id => shown = Nowhere \/ actionBusy # "none"]_runPageVars
=============================================================================
