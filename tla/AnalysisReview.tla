--------------------------- MODULE AnalysisReview ---------------------------
(***************************************************************************)
(* What people do with the results of a finished run: they correct who is  *)
(* responsible for a position (overrideAnalysisResponsibility) and decide  *)
(* the reviews that opening the analysis page creates                      *)
(* (ensureAnalysisReviews, decideAnalysisReview); AgentTaskService shows   *)
(* the reviews as tasks.                                                   *)
(*                                                                         *)
(* The page reads the results, then inserts the missing reviews, then      *)
(* resets old rows, each a transaction of its own; several pages and       *)
(* corrections are under way at once.                                      *)
(*                                                                         *)
(* Abstractions: one run, whose results are there.  certain stands for     *)
(* the parts of a result that a correction leaves alone: neither the match *)
(* nor an allocation of the analogue plan calls for a person.  Reasons,    *)
(* actors and times are left out.                                          *)
(***************************************************************************)
EXTENDS Integers, Sequences

CONSTANTS
  Positions,   \* positions of the run
  Pages,       \* openings of the analysis page that may be under way at once
  Editors,     \* correcting requests that may be under way at once
  MaxResultVersion,  \* bound: version of a result
  MaxDecisions \* bound: decisions about a review

ASSUME ReviewAssumption ==
  MaxResultVersion \in Nat \ {0} /\ MaxDecisions \in Nat /\ Positions # {}

VARIABLES
  results,   \* the position_analysis_results rows
  reviews,   \* the analysis_review_decisions rows
  decisions, \* analysis.review.* actions in audit_logs, by position
  corrected, \* POSITION_RESPONSIBILITY_OVERRIDDEN actions in audit_logs
  page,      \* local state of the openings of the page
  editor     \* local state of the correcting requests

reviewVars == <<results, reviews, decisions, corrected, page, editor>>

-----------------------------------------------------------------------------
(* Rows and local records *)

Parties == {"CUSTOMER", "CONTRACTOR"}
DecisionStates == {"RESOLVED", "REVIEW_REQUIRED", "INSUFFICIENT_DATA"}

Correction == [before : Parties \cup {"none"}, after : Parties]
Result == [state : DecisionStates, responsibility : Parties \cup {"none"},
           exact : BOOLEAN, certain : BOOLEAN, requiresHumanReview : BOOLEAN,
           overrides : Seq(Correction), version : 1 .. MaxResultVersion]

Decided == {"CONFIRMED", "REJECTED", "RETURNED"}
Review == [status : {"NONE", "PENDING", "AUTO_CONFIRMED"} \cup Decided,
           outcome : {"CONFIRMED_FOR_HUMAN_REVIEW", "HUMAN_REVIEW_REQUIRED"}]
NoReview == [status |-> "NONE", outcome |-> "HUMAN_REVIEW_REQUIRED"]

\* exact: the positions the page has seen to match exactly.
Page == [pc : {"closed", "insert", "reset"}, exact : SUBSET Positions]
\* row: what the request has read.
Editor == [busy : BOOLEAN, position : Positions, to : Parties, row : Result]
SomePosition == CHOOSE i \in Positions : TRUE
NoResult == [state |-> "INSUFFICIENT_DATA", responsibility |-> "none",
             exact |-> FALSE, certain |-> FALSE, requiresHumanReview |-> TRUE,
             overrides |-> <<>>, version |-> 1]
NotEditing == [busy |-> FALSE, position |-> SomePosition, to |-> "CUSTOMER",
         row |-> NoResult]

ReviewTypeOK ==
  /\ results \in [Positions -> Result]
  /\ reviews \in [Positions -> Review]
  /\ decisions \in [Positions -> 0 .. MaxDecisions]
  /\ corrected \in [Positions -> Nat]
  /\ page \in [Pages -> Page]
  /\ editor \in [Editors -> Editor]

\* materializeResults.
Materialized(state, responsibility, exact, certain) ==
  [state |-> state, responsibility |-> responsibility, exact |-> exact,
   certain |-> certain,
   requiresHumanReview |-> state # "RESOLVED" \/ ~certain,
   overrides |-> <<>>, version |-> 1]

MaterializedResults ==
  {Materialized(s, r, e, c) : s \in DecisionStates, r \in Parties \cup {"none"},
                              e \in BOOLEAN, c \in BOOLEAN}

\* A prototype of the page decided exact matches itself.
ReviewInit ==
  /\ results \in [Positions -> {r \in MaterializedResults :
                     /\ r.state = "RESOLVED" => r.responsibility # "none"
                     /\ r.state = "INSUFFICIENT_DATA" => r.responsibility = "none"}]
  /\ reviews \in [Positions -> {NoReview, [NoReview EXCEPT !.status = "AUTO_CONFIRMED"]}]
  /\ decisions = [i \in Positions |-> 0]
  /\ corrected = [i \in Positions |-> 0]
  /\ page = [v \in Pages |-> [pc |-> "closed", exact |-> {}]]
  /\ editor = [d \in Editors |-> NotEditing]

-----------------------------------------------------------------------------
(* The analysis page *)

OpenPage(v) ==
  /\ page[v].pc = "closed"
  /\ page' = [page EXCEPT ![v] =
       [pc |-> "insert",
        exact |-> {i \in Positions :
                     results[i].exact /\ ~results[i].requiresHumanReview}]]
  /\ UNCHANGED <<results, reviews, decisions, corrected, editor>>

\* ON CONFLICT DO NOTHING: a review that is there stays.
InsertReviews(v) ==
  /\ page[v].pc = "insert"
  /\ reviews' = [i \in Positions |->
       IF reviews[i].status # "NONE" THEN reviews[i]
       ELSE [status |-> "PENDING",
             outcome |-> IF i \in page[v].exact
                         THEN "CONFIRMED_FOR_HUMAN_REVIEW"
                         ELSE "HUMAN_REVIEW_REQUIRED"]]
  /\ page' = [page EXCEPT ![v].pc = "reset"]
  /\ UNCHANGED <<results, decisions, corrected, editor>>

\* Faulty variant: every confirmed row is reset.
Confirmed(review) == review.status \in {"AUTO_CONFIRMED", "CONFIRMED"}

Automatic(review) == review.status = "AUTO_CONFIRMED"

\* A doublecheck is never a person's decision: old rows become pending.
ResetReviews(v) ==
  /\ page[v].pc = "reset"
  /\ reviews' = [i \in Positions |->
       IF Automatic(reviews[i])
       THEN [status |-> "PENDING", outcome |-> "CONFIRMED_FOR_HUMAN_REVIEW"]
       ELSE reviews[i]]
  /\ page' = [page EXCEPT ![v].pc = "closed", ![v].exact = {}]
  /\ UNCHANGED <<results, decisions, corrected, editor>>

\* A request that dies between two of its transactions.
LosePage(v) ==
  /\ page[v].pc # "closed"
  /\ page' = [page EXCEPT ![v].pc = "closed", ![v].exact = {}]
  /\ UNCHANGED <<results, reviews, decisions, corrected, editor>>

-----------------------------------------------------------------------------
(* People *)

\* The row and its audit in one transaction; no version is compared, and a
\* decision may be decided again.
Decide(i, decision) ==
  /\ reviews[i].status # "NONE"
  /\ decisions[i] < MaxDecisions
  /\ reviews' = [reviews EXCEPT ![i].status = decision]
  /\ decisions' = [decisions EXCEPT ![i] = @ + 1]
  /\ UNCHANGED <<results, corrected, page, editor>>

\* The transaction of a correction reads the result, compares it with the
\* version the page showed, if the request names one, and refuses to repeat a
\* resolved responsibility.
ReadResult(d, i, to) ==
  /\ ~editor[d].busy
  /\ results[i].version < MaxResultVersion
  /\ ~(results[i].responsibility = to /\ results[i].state = "RESOLVED")
  /\ editor' = [editor EXCEPT ![d] = [busy |-> TRUE, position |-> i, to |-> to,
                                      row |-> results[i]]]
  /\ UNCHANGED <<results, reviews, decisions, corrected, page>>

\* Faulty variant: the UPDATE does not compare the version.
AnyVersion(row, read) == row.version < MaxResultVersion

SameVersion(row, read) == row.version = read.version

\* The UPDATE writes what was made of the row read, if its version is the same,
\* and the audit with it.
CorrectResult(d) ==
  LET i == editor[d].position
      to == editor[d].to
      read == editor[d].row
  IN  /\ editor[d].busy
      /\ IF SameVersion(results[i], read)
         THEN /\ results' = [results EXCEPT ![i].state = "RESOLVED",
                   ![i].responsibility = to,
                   ![i].requiresHumanReview = FALSE,
                   ![i].overrides = Append(read.overrides,
                       [before |-> read.responsibility, after |-> to]),
                   ![i].version = @ + 1]
              /\ corrected' = [corrected EXCEPT ![i] = @ + 1]
         ELSE UNCHANGED <<results, corrected>>
      /\ editor' = [editor EXCEPT ![d] = NotEditing]
      /\ UNCHANGED <<reviews, decisions, page>>

-----------------------------------------------------------------------------
(* Personal tasks *)

\* reviewState
TaskStatus(review) ==
  CASE review.status \in {"CONFIRMED", "REJECTED"} -> "COMPLETED"
    [] review.status = "RETURNED" -> "RETURNED_FOR_CLARIFICATION"
    [] review.status \in {"PENDING", "AUTO_CONFIRMED"} -> "REQUIRES_DECISION"
    [] OTHER -> "NONE"

-----------------------------------------------------------------------------
(* Specification *)

ReviewNext ==
  \/ \E v \in Pages : \/ OpenPage(v)
                      \/ InsertReviews(v)
                      \/ ResetReviews(v)
                      \/ LosePage(v)
  \/ \E i \in Positions, s \in Decided : Decide(i, s)
  \/ \E d \in Editors, i \in Positions, to \in Parties : ReadResult(d, i, to)
  \/ \E d \in Editors : CorrectResult(d)

ReviewSpec == ReviewInit /\ [][ReviewNext]_reviewVars

-----------------------------------------------------------------------------
(* Properties *)

\* A review that a person has decided stays decided, whatever pages are opened
\* meanwhile, and one that nobody has decided is shown as a task that requires
\* a decision (repository.ts:3473: a doublecheck is evidence for a person,
\* "never the person's decision").
DecisionsStay ==
  \A i \in Positions : reviews[i].status # "NONE" =>
    (TaskStatus(reviews[i]) = "REQUIRES_DECISION" <=> decisions[i] = 0)

\* The corrections of a result are a chain, none of them lost or made of a
\* value that was no longer there: each starts from what the one before left,
\* the last is the result's responsibility, and version and audit count them.
CorrectionsChained ==
  \A i \in Positions :
    LET row == results[i]
        chain == row.overrides
    IN  /\ row.version = Len(chain) + 1
        /\ corrected[i] = Len(chain)
        /\ \A n \in 2 .. Len(chain) :
             chain[n].before = chain[n - 1].after /\ chain[n].before # chain[n].after
        /\ chain # <<>> => row.state = "RESOLVED"
                           /\ row.responsibility = chain[Len(chain)].after
=============================================================================
