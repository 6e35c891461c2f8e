----------------------------- MODULE RunLifecycle -----------------------------
(***************************************************************************)
(* What an analysis run promises to the user who watches it: the           *)
(* configured steps are done once each and in order; the course ends with  *)
(* exactly one verdict, after which nothing happens but its publication;   *)
(* only a failure of an external source can be taken up again, at that     *)
(* source's step and with an uploaded file instead of the source.          *)
(* Requests, versions, claims, leases and step rows are absent here:       *)
(* ScenarioRun implements this specification with them.                    *)
(***************************************************************************)
EXTENDS Integers, Sequences

CONSTANT Steps  \* the configured steps, in order

VARIABLES
  status,    \* what the run page shows
  done,      \* steps whose output the run keeps
  verdict,   \* the decided but unpublished outcome, or "NONE"
  error,     \* the failure the run carries, or "NONE"
  imported   \* sources replaced by an uploaded file

lifecycle == <<status, done, verdict, error, imported>>

StepOf(source) == IF source = "SAP" THEN "SYNCING_SAP" ELSE "LOADING_APPIUS"

Position(s) == CHOOSE i \in DOMAIN Steps : Steps[i] = s

\* The run executes step s now.
At(s) == s \in {Steps[i] : i \in DOMAIN Steps} /\ status = s /\ verdict = "NONE"

Undecided == status \notin {"COMPLETED", "FAILED", "CANCELLED"} /\ verdict = "NONE"

Init ==
  /\ status = "QUEUED"
  /\ done = {}
  /\ verdict = "NONE"
  /\ error = "NONE"
  /\ imported = {}

Start ==
  /\ status = "QUEUED" /\ verdict = "NONE"
  /\ status' = Steps[1]
  /\ UNCHANGED <<done, verdict, error, imported>>

Advance(s) ==
  /\ At(s) /\ Position(s) < Len(Steps)
  /\ status' = Steps[Position(s) + 1]
  /\ done' = done \cup {s}
  /\ UNCHANGED <<verdict, error, imported>>

Complete(s) ==
  /\ At(s) /\ Position(s) = Len(Steps)
  /\ done' = {Steps[i] : i \in DOMAIN Steps}
  /\ verdict' = "COMPLETED"
  /\ UNCHANGED <<status, error, imported>>

\* A source that was replaced by a file cannot fail any more.
Fail(s, code) ==
  /\ At(s)
  /\ code \in {"APPIUS", "SAP"} \ imported => s = StepOf(code)
  /\ code \notin imported
  /\ verdict' = "FAILED"
  /\ error' = code
  /\ UNCHANGED <<status, done, imported>>

Cancel ==
  /\ Undecided
  /\ verdict' = "CANCELLED"
  /\ UNCHANGED <<status, done, error, imported>>

Publish ==
  /\ verdict # "NONE"
  /\ status' = verdict
  /\ verdict' = "NONE"
  /\ UNCHANGED <<done, error, imported>>

Resume ==
  /\ status = "FAILED" /\ verdict = "NONE"
  /\ error \in {"APPIUS", "SAP"}
  /\ status' = StepOf(error)
  /\ imported' = imported \cup {error}
  /\ error' = "NONE"
  /\ UNCHANGED <<done, verdict>>

Next ==
  \/ Start
  \/ \E i \in DOMAIN Steps :
       \/ Advance(Steps[i])
       \/ Complete(Steps[i])
       \/ \E code \in {"APPIUS", "SAP", "OTHER"} : Fail(Steps[i], code)
  \/ Cancel
  \/ Publish
  \/ Resume

Spec == Init /\ [][Next]_lifecycle
===============================================================================
