------------------------------ MODULE RunInput ------------------------------
(***************************************************************************)
(* What a run analyses: its steps LOADING_APPIUS and SYNCING_SAP copy the  *)
(* current positions and the stock into output_snapshot, and the report    *)
(* says where its results come from.  Each step reads the state of its     *)
(* system and then the data, in queries of their own, while versions are   *)
(* published and administrators change the states.                         *)
(*                                                                         *)
(* Abstractions: of a position there is the version of its specification;  *)
(* of a snapshot of stock, its date: live or the one an administrator gave *)
(* for a stale one.  How steps are claimed, repeated and resumed with a    *)
(* file is the matter of ScenarioRun, and how versions are published that  *)
(* of SpecVersions; a publication is one step here.  Delays are left out.  *)
(***************************************************************************)
EXTENDS Integers, FiniteSets

CONSTANTS
  Chosen,     \* specifications the run is about
  MaxPublished, \* bound: versions of a specification
  MaxChanges    \* bound: changes of the systems' states

ASSUME InputAssumption ==
  /\ Chosen # {}
  /\ MaxPublished \in Nat \ {0}
  /\ MaxChanges \in Nat

VARIABLES
  published,  \* current version of every specification
  filled,     \* specifications whose versions have positions
  appius,     \* integration state of Appius
  sap,        \* integration state of SAP and its snapshotAt
  changes,    \* changes of the states so far
  load,       \* the run: where it is, what it was given and what it holds
  inputAudit  \* SCENARIO_SAP_STALE_SNAPSHOT_USED is in audit_logs

inputVars == <<published, filled, appius, sap, changes, load, inputAudit>>

-----------------------------------------------------------------------------
(* States and snapshots *)

AppiusState == {"AVAILABLE", "UNAVAILABLE", "ACCESS_DENIED", "STALE_VERSION"}
SapState == {"AVAILABLE", "STALE", "FAILING"}
Dates == {"live", "old", "older"}
Numbers == 1 .. MaxPublished

\* 0 as a version: none, or that of an uploaded file.
Load ==
  [pc : {"start", "positions", "versions", "sap", "stock", "staleAudit", "report",
         "done", "failed"},
   event : BOOLEAN,             \* an APPIUS_NEW_VERSION scenario
   files : SUBSET {"APPIUS", "SAP"}, \* manual imports the run was resumed with
   positions : [Chosen -> 0 .. MaxPublished],
   read : SUBSET Chosen,      \* whose positions have been read
   versions : [Chosen -> 0 .. MaxPublished], \* output.appius.versions
   sapSeen : [state : SapState, date : Dates],
   stock : Dates \cup {"none", "file"},
   warned : BOOLEAN,
   told : [Chosen -> 0 .. MaxPublished],  \* provenance.appiusVersions
   toldStock : Dates \cup {"none", "file"}] \* provenance.sap

NoVersions == [s \in Chosen |-> 0]
SapLive == [state |-> "AVAILABLE", date |-> "live"]

InputTypeOK ==
  /\ published \in [Chosen -> Numbers]
  /\ filled \subseteq Chosen
  /\ appius \in AppiusState
  /\ sap \in [state : SapState, date : Dates]
  /\ changes \in 0 .. MaxChanges
  /\ load \in Load
  /\ inputAudit \in BOOLEAN

InputInit ==
  /\ published = [s \in Chosen |-> 1]
  /\ filled \in SUBSET Chosen
  /\ appius \in AppiusState
  /\ sap = SapLive
  /\ changes = 0
  /\ \E event \in BOOLEAN, files \in SUBSET {"APPIUS", "SAP"} :
       load = [pc |-> "start", event |-> event, files |-> files,
               positions |-> NoVersions, read |-> {}, versions |-> NoVersions,
               sapSeen |-> SapLive, stock |-> "none", warned |-> FALSE,
               told |-> NoVersions, toldStock |-> "none"]
  /\ inputAudit = FALSE

-----------------------------------------------------------------------------
(* The others *)

Publish(s) ==
  /\ published[s] < MaxPublished
  /\ published' = [published EXCEPT ![s] = @ + 1]
  /\ UNCHANGED <<filled, appius, sap, changes, load, inputAudit>>

\* setIntegrationState.  A stale snapshot must be given its date, and any other
\* state leaves the date that is there.
SetState ==
  /\ changes < MaxChanges
  /\ changes' = changes + 1
  /\ \/ appius' \in AppiusState /\ UNCHANGED sap
     \/ UNCHANGED appius
        /\ \/ \E state \in SapState \ {"STALE"} : sap' = [sap EXCEPT !.state = state]
           \/ \E date \in Dates \ {"live"} : sap' = [state |-> "STALE", date |-> date]
  /\ UNCHANGED <<published, filled, load, inputAudit>>

-----------------------------------------------------------------------------
(* LOADING_APPIUS *)

At(pc) == load.pc = pc
WorldStays == UNCHANGED <<published, filled, appius, sap, changes>>

\* A file is taken as it is.
TakeAppiusFile ==
  /\ At("start") /\ "APPIUS" \in load.files
  /\ load' = [load EXCEPT !.pc = "sap", !.read = Chosen]
  /\ WorldStays /\ UNCHANGED inputAudit

\* processNewVersionEvent of the scenario's event comes first; it takes the
\* specification on by a version.
ReadAppiusState ==
  /\ At("start") /\ "APPIUS" \notin load.files
  /\ IF appius \in {"AVAILABLE"} \cup IF load.event THEN {"STALE_VERSION"} ELSE {}
     THEN /\ load' = [load EXCEPT !.pc = "positions"]
          /\ IF load.event
             THEN \E s \in Chosen :
                    /\ published[s] < MaxPublished
                    /\ published' = [published EXCEPT ![s] = @ + 1]
             ELSE UNCHANGED published
     ELSE load' = [load EXCEPT !.pc = "failed"] /\ UNCHANGED published
  /\ UNCHANGED <<filled, appius, sap, changes, inputAudit>>

\* listPositionsInProject, of one specification after the other in any order.
ReadPositions(s) ==
  /\ At("positions") /\ s \notin load.read
  /\ load' = [load EXCEPT !.read = @ \cup {s},
       !.positions[s] = IF s \in filled THEN published[s] ELSE 0,
       !.pc = IF load.read \cup {s} = Chosen THEN "versions" ELSE @]
  /\ WorldStays /\ UNCHANGED inputAudit

\* getLatestVersionInProject; then the whole must not be empty.
ReadVersions(s) ==
  /\ At("versions") /\ load.versions[s] = 0
  /\ LET read == [load EXCEPT !.versions[s] = published[s]]
     IN  load' = IF \E t \in Chosen : read.versions[t] = 0 THEN read
                 ELSE [read EXCEPT !.pc = IF read.positions = NoVersions
                                          THEN "failed" ELSE "sap"]
  /\ WorldStays /\ UNCHANGED inputAudit

-----------------------------------------------------------------------------
(* SYNCING_SAP *)

TakeSapFile ==
  /\ At("sap") /\ "SAP" \in load.files
  /\ load' = [load EXCEPT !.pc = "report", !.stock = "file"]
  /\ WorldStays /\ UNCHANGED inputAudit

ReadSapState ==
  /\ At("sap") /\ "SAP" \notin load.files
  /\ load' = [load EXCEPT !.sapSeen = sap,
                          !.pc = IF sap.state = "FAILING" THEN "failed" ELSE "stock"]
  /\ WorldStays /\ UNCHANGED inputAudit

\* Faulty variant: the date of the state is taken whatever the state is.
DateOfState(seen) == seen.date

\* applySnapshotState
SnapshotDate(seen) == IF seen.state = "STALE" THEN seen.date ELSE "live"

ReadStock ==
  /\ At("stock")
  /\ load' = [load EXCEPT !.stock = SnapshotDate(load.sapSeen),
                          !.warned = load.sapSeen.state = "STALE",
                          !.pc = IF load.sapSeen.state = "STALE" THEN "staleAudit"
                                 ELSE "report"]
  /\ WorldStays /\ UNCHANGED inputAudit

AuditStale ==
  /\ At("staleAudit")
  /\ load' = [load EXCEPT !.pc = "report"]
  /\ inputAudit' = TRUE
  /\ WorldStays

-----------------------------------------------------------------------------
(* GENERATING_REPORT *)

\* Faulty variant: the report tells the versions the step noted.
NotedVersions == load.versions

\* uniqueAppiusVersions: the report tells the versions of its positions.
ToldVersions == load.positions

Report ==
  /\ At("report")
  /\ load' = [load EXCEPT !.pc = "done", !.told = ToldVersions,
                          !.toldStock = load.stock]
  /\ WorldStays /\ UNCHANGED inputAudit

-----------------------------------------------------------------------------
(* Specification *)

InputNext ==
  \/ \E s \in Chosen : Publish(s) \/ ReadPositions(s) \/ ReadVersions(s)
  \/ SetState
  \/ TakeAppiusFile
  \/ ReadAppiusState
  \/ TakeSapFile
  \/ ReadSapState
  \/ ReadStock
  \/ AuditStale
  \/ Report

InputSpec == InputInit /\ [][InputNext]_inputVars

-----------------------------------------------------------------------------
(* Properties *)

\* Whatever is published or switched between the queries, a report names the
\* versions its positions have, and only such; of what it holds of Appius there
\* is a version that was current after it, so that it is never ahead of it; and
\* stock whose date is not that of the data is warned of, in the audit too,
\* and never passed off as a file's.
ReportNamesItsInput ==
  At("done") =>
    /\ load.told = load.positions
    /\ "APPIUS" \notin load.files => load.told # NoVersions
    /\ \A s \in Chosen :
         load.told[s] # 0 => load.told[s] <= load.versions[s]
    /\ load.toldStock \notin {"live", "file"} <=> load.warned
    /\ load.warned <=> inputAudit
    /\ load.toldStock = "file" <=> "SAP" \in load.files
=============================================================================
