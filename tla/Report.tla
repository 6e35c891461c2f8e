------------------------------- MODULE Report -------------------------------
(***************************************************************************)
(* The report of a finished run: what it states of the supply of every     *)
(* position (buildPositionAnalogueViews), the numbers on top of it         *)
(* (summarizeCurrentResults), and the files it is exported to.  The page,  *)
(* the workbook, the PDF and the JSON all show the views, which are worked *)
(* out anew from the stored results whenever a report is read.             *)
(*                                                                         *)
(* The supply is that of module Supply.  An export reads the report, makes *)
(* a file, records that in the audit log and answers; each of these may    *)
(* fail, and recording may be done although its answer is lost.            *)
(*                                                                         *)
(* Abstractions: the order of rows and components, wording and the layout  *)
(* of the files are left out; so are results of releases that stored no    *)
(* primary plan.  Who supplies a position, which people may correct, is in *)
(* Responsibility and AnalysisReview.                                      *)
(***************************************************************************)
EXTENDS Supply

CONSTANTS
  Requests,     \* requests for a file
  Formats       \* formats a file may be asked in, "UNSUPPORTED" among them

VARIABLES
  export,       \* local state of the requests for a file
  exportAudit   \* REPORT_EXPORT_* actions in audit_logs: [request, outcome]

exportVars == <<export, exportAudit>>

-----------------------------------------------------------------------------
(* Results *)

\* The shortage is there before analogues are looked for: analogueSearch has it.
WasSearched(p) == coverage[p] # NotSearched

\* A run has gone through its positions and looked for analogues, or its scenario is a
\* shortened one, which goes from the matches to the report (generateReport).
Matched == \A p \in Items : match[p] # Unmatched
SearchedForAll == \A p \in Items : Shortage(p) > 0 => WasSearched(p)
Shortened == \A p \in Items : ~WasSearched(p)
Analysed == Matched /\ (SearchedForAll \/ Shortened)

Required(p) == match[p].required
MoreThanNone(n) == IF n < 0 THEN 0 ELSE n

\* Faulty variant: a plan covers what its analogues cover.
AnaloguesAlone(p, plan) == Total(plan)

\* coveredQuantity of a plan as extendAnalogueCoverageWithDirectStock stores it.
PlanCovers(p, plan) == DirectCovered(p) + Total(plan)

\* coveredQuantity of the coverage itself, which is extended beside that of its plans.
RowCovers(p) == DirectCovered(p) + Total(coverage[p].primary)

-----------------------------------------------------------------------------
(* The view of a position *)

\* buildPositionAnalogueViews shows the positions that direct stock does not settle.
Shown(p) == match[p].grade = "NO_MATCH" \/ Allocated(p) \/ WasSearched(p)

\* AnalogueComponentView: what is available is worked out from what remains.
Component(p, plan, m) ==
  LET left == stock[m] - coverage[p].before[m]
      remaining == left - plan[m]
  IN  [material |-> m, allocated |-> plan[m], remaining |-> remaining,
       available |-> plan[m] + remaining, verdict |-> Verdict(coverage[p].offer[m])]

PlanLacks(p, plan) == MoreThanNone(Required(p) - PlanCovers(p, plan))
IsComplete(p, plan) == PlanCovers(p, plan) >= Required(p)

\* buildPlanView
PlanView(p, plan) ==
  [covered |-> PlanCovers(p, plan),
   lack |-> PlanLacks(p, plan),
   complete |-> IsComplete(p, plan),
   combined |-> Cardinality(DOMAIN plan) > 1,
   components |-> {Component(p, plan, m) : m \in DOMAIN plan}]

\* coveragePlans
Plans(p) ==
  IF Allocated(p) THEN {coverage[p].primary} \cup coverage[p].alternatives ELSE {}

\* The plan the card is headed with.
Primary(p) == coverage[p].primary

\* Direct stock is cut to what is required.
DirectStated(p) == Least(Required(p), MoreThanNone(DirectCovered(p)))
CoveredStated(p) == IF Allocated(p) THEN PlanCovers(p, Primary(p)) ELSE DirectStated(p)

\* The plan is asked first, then the search.
LackStated(p) ==
  CASE Allocated(p) -> PlanLacks(p, Primary(p))
    [] ~Allocated(p) /\ WasSearched(p) -> Shortage(p)
    [] OTHER -> MoreThanNone(Required(p) - CoveredStated(p))

AnaloguesStated(p) == MoreThanNone(CoveredStated(p) - DirectStated(p))
CompleteStated(p) == Allocated(p) /\ IsComplete(p, Primary(p))

\* analogueReason: the number is stated where there is a material it could be missing of.
MissingStated(p) == MoreThanNone(Required(p) - Available(p))

-----------------------------------------------------------------------------
(* The summary and the rows *)

CategoryOf(p) == IF match[p].grade = "DIFFERING" THEN "LIKELY" ELSE match[p].grade
InCategory(category) == {p \in Items : CategoryOf(p) = category}
WithStatus(statuses) == {p \in Items : Status(p) \in statuses}

\* summarizeCurrentResults
Summary ==
  [total |-> Cardinality(Items), exact |-> Cardinality(InCategory("EXACT")),
   likely |-> Cardinality(InCategory("LIKELY")), review |-> Cardinality(InCategory("REVIEW")),
   noMatch |-> Cardinality(InCategory("NO_MATCH")),
   found |-> Cardinality(WithStatus({"FOUND"})),
   analogues |-> Cardinality({p \in Items : Allocated(p)}),
   insufficient |-> Cardinality(WithStatus({"INSUFFICIENT"})),
   procurement |-> Cardinality(WithStatus({"NOT_FOUND", "INSUFFICIENT"}))]

\* What the cards leave out although it lacks something.
LeftOut == {p \in Items : ~Shown(p) /\ Shortage(p) > 0}

\* The rows of the table, of the workbook and of the PDF, and the rows of the sheets
\* that select some of them.  Where no analogues are given a row has a dash, here 0.
\* Responsibility may ask for a review too (materializeResults).
Row(p) == [status |-> Status(p),
           covered |-> IF Allocated(p) THEN RowCovers(p) ELSE 0,
           review |-> SupplyNeedsReview(p)]
ReviewRows == {p \in Items : Row(p).review}

\* The card of a position, on the page and in the PDF.
Card(p) == [required |-> Required(p), covered |-> CoveredStated(p), lack |-> LackStated(p),
            plans |-> {PlanView(p, plan) : plan \in Plans(p)}]

\* AnaloguePlanCard: covered so much out of that.
OutOf(view) == view.covered + view.lack

AnalogueRows ==
  UNION {IF Plans(p) = {} THEN {<<p>>}
         ELSE UNION {{<<p, view.covered, c.material>> : c \in view.components} :
                       view \in Card(p).plans} : p \in {i \in Items : Shown(i)}}

-----------------------------------------------------------------------------
(* Files *)

Unasked == [pc |-> "unasked", format |-> "UNSUPPORTED"]

To(q, pc) == export' = [export EXCEPT ![q].pc = pc]

\* One without a session is refused before there is anything to record.
AskForFile(q) ==
  /\ export[q].pc = "unasked"
  /\ \/ \E f \in Formats : export' = [export EXCEPT ![q] = [pc |-> "read", format |-> f]]
     \/ To(q, "refused")
  /\ UNCHANGED exportAudit

\* getReport. Whether the run is found, completed and may be read is not the file's doing.
ReadReport(q) ==
  /\ export[q].pc = "read"
  /\ To(q, "make") \/ To(q, "failing")
  /\ UNCHANGED exportAudit

\* exportReportJson, exportReportXlsx, exportReportPdf
MakeFile(q) ==
  /\ export[q].pc = "make"
  /\ \/ export[q].format # "UNSUPPORTED" /\ To(q, "recording")
     \/ To(q, "failing")
  /\ UNCHANGED exportAudit

Write(q, outcome) == exportAudit' = exportAudit \cup {[request |-> q, outcome |-> outcome]}

\* Faulty variant: what could not be recorded as a success is recorded as a failure.
ThenFailing == "failing"

AfterFailedRecord == "refused"

\* writeExportAudit, after which the file is the answer.
RecordSuccess(q) ==
  /\ export[q].pc = "recording"
  /\ \/ Write(q, "SUCCESS") /\ To(q, "given")
     \/ Write(q, "SUCCESS") /\ To(q, AfterFailedRecord)
     \/ UNCHANGED exportAudit /\ To(q, AfterFailedRecord)

\* The catch block.
RecordFailure(q) ==
  /\ export[q].pc = "failing"
  /\ Write(q, "FAILURE") \/ UNCHANGED exportAudit
  /\ To(q, "refused")

ExportInit == export = [q \in Requests |-> Unasked] /\ exportAudit = {}

ExportStep(q) ==
  \/ AskForFile(q) \/ ReadReport(q) \/ MakeFile(q)
  \/ RecordSuccess(q) \/ RecordFailure(q)

ExportNext == UNCHANGED supplyVars /\ \E q \in Requests : ExportStep(q)

ExportSpec == ExportInit /\ [][ExportNext]_<<exportVars, supplyVars>>

-----------------------------------------------------------------------------
(* Properties *)

ComponentsTotal(view) == FoldSet(LAMBDA c, sum : sum + c.allocated, 0, view.components)

\* The numbers of a report fit each other, although the cards, the rows and the
\* summary work them out from different parts of a result (report-analogues.ts).
\* Direct stock, analogues and lack make up what a shown position requires, in the
\* primary plan and in each alternative; a plan is complete iff nothing lacks; what is
\* said to be available exists, and what the last position leaves of an analogue is what
\* the run has left of it; the row of a position with plans states as much as its card.
\*
\* After a search for analogues what is not shown lacks nothing: the summary sends to
\* procurement exactly the positions shown to lack something, and the workbook has rows
\* on analogues for every position that is not found.  The report of a shortened
\* scenario does not have that: a match whose stock is too small has no search, so the
\* cards and the workbook's rows on analogues leave it out while the summary counts it.
\* What is left out there is exactly what the summary counts as insufficient and the
\* table shows so, and nothing else: procurement is what is shown and that.
ReportAddsUp ==
  Analysed =>
    /\ \A p \in Items :
         LET card == Card(p)
         IN  IF Shown(p)
             THEN /\ DirectStated(p) + AnaloguesStated(p) + card.lack = Required(p)
                  /\ match[p].material # "none" =>
                       MissingStated(p) = AnaloguesStated(p) + card.lack
                  /\ \A view \in card.plans :
                       /\ DirectStated(p) + ComponentsTotal(view) + view.lack = Required(p)
                       /\ OutOf(view) = Required(p)
                       /\ view.complete <=> view.lack = 0
                       /\ \A c \in view.components :
                            c.allocated <= c.available /\ c.available <= stock[c.material]
                  /\ CompleteStated(p) <=> Row(p).status = "ANALOGUES"
                  /\ Plans(p) # {} => /\ Row(p).covered = card.covered
                                      /\ Row(p).covered + card.lack = Required(p)
             ELSE Row(p).status = IF p \in LeftOut THEN "INSUFFICIENT" ELSE "FOUND"
    /\ \A m \in Analogues :
         reserved[m] > 0 =>
           \E p \in Items : \E c \in PlanView(p, Primary(p)).components :
             c.material = m /\ c.remaining = stock[m] - reserved[m]
    /\ SearchedForAll => LeftOut = {}
    /\ Shortened => Summary.insufficient = Cardinality(LeftOut)
    /\ Summary.procurement = Cardinality({p \in Items : Shown(p) /\ LackStated(p) > 0})
                              + Cardinality(LeftOut)
    /\ Summary.analogues = Cardinality({p \in Items : Plans(p) # {}})
    /\ Summary.found = Cardinality({p \in Items : ~Shown(p)} \ LeftOut)
    /\ Summary.exact + Summary.likely + Summary.review + Summary.noMatch = Summary.total
    /\ {row[1] : row \in AnalogueRows} \cup {p \in Items : Row(p).status = "FOUND"}
         = Items \ LeftOut

\* A file that is handed out is in the audit log as a success, and no request for a
\* file is in it twice, as a success and as a failure, although the record may have
\* been written when writing it is reported as failed (export/route.ts).
ExportRecordedOnce ==
  \A q \in Requests :
    LET outcomes == {r.outcome : r \in {a \in exportAudit : a.request = q}}
    IN  /\ Cardinality(outcomes) <= 1
        /\ export[q].pc = "given" => outcomes = {"SUCCESS"}
=============================================================================
