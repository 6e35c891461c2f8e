------------------------------ MODULE Portfolio ------------------------------
(***************************************************************************)
(* What UniversalChatService answers about the portfolio of business       *)
(* projects: each question is answered from the read capabilities, which   *)
(* read the operational dataset within the user's scope.                   *)
(*                                                                         *)
(* Abstractions: dates are weeks from now; the stock of a warehouse is     *)
(* what is neither reserved nor in quarantine; all items are of one family *)
(* and unit and one pack; nothing is committed to other needs but the      *)
(* allocations (the dataset has zero there).  The dataset is smaller than  *)
(* a page, as the seeded one is where a handler does not page.  Tables,    *)
(* citations and words are left out: of an answer there is what it is      *)
(* about, what it lists, and how sure it says it is.                       *)
(***************************************************************************)
EXTENDS Integers, Sequences, FiniteSets, FiniteSetsExt

CONSTANTS
  Programs,    \* business projects
  Places,      \* positions of specifications linked to them
  Goods,       \* operational materials
  Stores,      \* warehouses
  Intakes,     \* received specifications
  Books,       \* bound: the datasets looked at, a set of Book
  Grants,      \* bound: the sets of permissions looked at
  Weeks,       \* weeks of consumption in the dataset (52 in the code)
  Days,        \* bound: the days a question may name (1 to 365 in the code)
  Horizon,     \* days within which running out is a risk of a project, and those of a
               \* question that names none (30 in the code)
  Pack,        \* packSize
  MaxAnswers   \* bound: answers in the thread

ASSUME PortfolioAssumption ==
  /\ Weeks \in Nat \ {0} /\ Horizon \in Nat /\ Days \subseteq Nat /\ Pack \in Nat \ {0}
  /\ IsFiniteSet(Programs) /\ IsFiniteSet(Places) /\ IsFiniteSet(Goods)
  /\ IsFiniteSet(Stores) /\ IsFiniteSet(Intakes)

VARIABLES
  book,      \* the operational dataset
  granted,   \* permissionKeys of the request
  answers    \* the universal answers of the thread, oldest first

portfolioVars == <<book, granted, answers>>

-----------------------------------------------------------------------------
(* The dataset *)

Statuses == {"PLANNED", "ACTIVE", "ON_HOLD", "COMPLETED"}
Purposes == {"CONSTRUCTION", "REPAIR"}
IntakeStatuses == {"QUEUED", "NEEDS_REVIEW", "FAILED", "COMPLETED", "CANCELLED"}

\* due: the week a project needs its materials; soon: its next deadline is within
\* the days asked about; threatened: one of its deadlines is AT_RISK.
BusinessProject == [status : Statuses, due : Nat, soon : BOOLEAN, threatened : BOOLEAN]
Position == [project : Programs, item : Goods, purpose : Purposes, quantity : Nat]

\* scores: technical compatibility in percent, -1 when it cannot be told.
Material == [stock : [Stores -> Nat], used : Nat, safety : Nat,
             inbound : SUBSET [week : Nat, quantity : Nat],
             scores : [Goods -> -1 .. 100], longer : SUBSET Goods, assembly : BOOLEAN]
Intake == [project : Programs, status : IntakeStatuses, today : BOOLEAN, late : BOOLEAN]
Book == [projects : [Programs -> BusinessProject], positions : [Places -> Position],
         materials : [Goods -> Material], allocated : [Programs -> [Goods -> Nat]],
         intakes : [Intakes -> Intake], versions : 0 .. 2, stores : SUBSET Stores]

ASSUME BooksAssumption ==
  \A b \in Books : b \in Book /\ \A i \in Goods : IsFiniteSet(b.materials[i].inbound)

PortfolioInit ==
  /\ book \in Books
  /\ granted \in Grants
  /\ answers = <<>>

-----------------------------------------------------------------------------
(* The capabilities, and what each requires *)

ReadsProjects == {"project.read"}
ReadsSpecifications == {"specification.read"}
ReadsVersions == {"specification.read", "specification.history.read"}
ReadsMaterials == {"catalog.read", "stock.search"}
ReadsProjectMaterials == ReadsSpecifications \cup ReadsMaterials
ReadsAnalysis == ReadsProjects \cup ReadsProjectMaterials \cup {"analysis.read"}
ReadsSubstitutes == ReadsMaterials \cup {"catalog.substitutes.read"}
ReadsBom == ReadsMaterials \cup {"catalog.bom.read"}

\* listProjects, listIntakes, projectMaterialInputs.
ListProjects(statuses) == {p \in Programs : book.projects[p].status \in statuses}
ListIntakes(statuses) == {n \in Intakes : book.intakes[n].status \in statuses}
OpenIntakes == ListIntakes(IntakeStatuses \ {"COMPLETED", "CANCELLED"})
ReceivedToday == {n \in Intakes : book.intakes[n].today}
PositionsOf(p) == {x \in Places : book.positions[x].project = p}
Running == ListProjects({"ACTIVE", "ON_HOLD", "PLANNED"})

\* searchMaterials, scopedStock: the warehouses the user may see.
Positive(n) == IF n < 0 THEN 0 ELSE n
NetAvailable(i) == MapThenSumSet(LAMBDA w : book.materials[i].stock[w], book.stores)

\* catalog.getSubstitutes, compatibility.evaluate.
Rank(i, j) == book.materials[i].scores[j]
Substitutes(i) == Goods \ {i}
Doubtful(i) == \E j \in Substitutes(i) : Rank(i, j) < 100

-----------------------------------------------------------------------------
(* calculateProjectMaterialBalance *)

Quotient(n, d) == (n + d - 1) \div d
AverageWeekly(i) == Quotient(book.materials[i].used, Weeks)

\* Faulty variant: the average consumption is rounded down.
AverageRoundedDown(i) == book.materials[i].used \div Weeks

Consumption(i) == AverageWeekly(i)

\* What is demanded of each item by the positions of a project that are left.
Demand(places, i) ==
  MapThenSumSet(LAMBDA x : book.positions[x].quantity,
                {x \in places : book.positions[x].item = i})
Needed(places) == {book.positions[x].item : x \in places}

OtherAllocations(p, i) ==
  MapThenSumSet(LAMBDA q : book.allocated[q][i], Programs \ {p})
Inbound(i, weeks) ==
  MapThenSumSet(LAMBDA s : s.quantity,
                {s \in book.materials[i].inbound : s.week \in weeks})
ByNeed(p) == 0 .. book.projects[p].due
AfterNeed(p) ==
  {s.week : s \in UNION {book.materials[i].inbound : i \in Goods}} \ ByNeed(p)

NetNow(p, i) == Positive(NetAvailable(i) - OtherAllocations(p, i))
NetAtNeed(p, i) == NetNow(p, i) + Inbound(i, ByNeed(p))
RequiredAtNeed(p, places, i) ==
  Demand(places, i) + Consumption(i) * book.projects[p].due + book.materials[i].safety
Lack(p, places, i) == Positive(RequiredAtNeed(p, places, i) - NetAtNeed(p, i))

\* Only what a later supply does not bring is ordered, in whole packs.
Reorder(p, places, i) ==
  Quotient(Positive(Lack(p, places, i) - Inbound(i, AfterNeed(p))), Pack) * Pack

\* The days until the item has run out, at the given consumption in so many weeks, and
\* whether that is within the days asked about.
DaysLeft(net, used, weeks) == (7 * weeks * net) \div used
RunsOut(net, used, weeks, days) == used > 0 /\ DaysLeft(net, used, weeks) <= days

\* The first of the three risks that applies.
Risk(p, places, i) ==
  IF Lack(p, places, i) > 0 THEN {"shortage"}
  ELSE IF NetNow(p, i) < book.materials[i].safety THEN {"safety"}
  ELSE IF RunsOut(NetNow(p, i), Consumption(i), 1, Horizon) THEN {"exhaustion"}
  ELSE {}

-----------------------------------------------------------------------------
(* The answers *)

\* lists: what the main table lists; left: the days it says an item lasts; counts: the
\* figures of the summary; short, order, risks: of a project's materials; narrowed: to
\* some of its positions.
Statement(asks, about, lists, sure, review) ==
  [asks |-> asks, about |-> about, lists |-> lists, left |-> [i \in Goods |-> 0],
   counts |-> <<>>, short |-> {},
   order |-> [i \in Goods |-> 0], risks |-> {}, narrowed |-> FALSE,
   sure |-> sure, review |-> review]
Portfolio == "portfolio"

\* A capability that is refused makes the whole answer fail.
Tell(required, a) ==
  /\ required \subseteq granted
  /\ Len(answers) < MaxAnswers
  /\ answers' = Append(answers, a)
  /\ UNCHANGED <<book, granted>>

\* projectsByStatus, projectStatusSequence.
ProjectsByStatus ==
  \E statuses \in {{"ACTIVE"}, {"PLANNED"}, Statuses} :
    LET found == ListProjects(statuses)
        sure == found # {} \/ statuses = {"PLANNED"}
    IN  Tell(ReadsProjects, Statement("projects", Portfolio, found, sure, ~sure))

ProjectStatusSequence ==
  Tell(ReadsProjects, Statement("projects", Portfolio, Programs, TRUE, FALSE))

UpcomingDeadlines ==
  LET found == {p \in Programs : book.projects[p].soon}
      required == IF found = {} THEN ReadsProjects
                  ELSE ReadsProjects \cup ReadsSpecifications
  IN  Tell(required, Statement("deadlines", Portfolio, found, found # {}, found = {}))

\* specificationIntake: all received today, those still open, or the failed ones.
SpecificationIntake ==
  \E mode \in {"all", "queue", "failed"} :
    LET with(statuses) == ReceivedToday \cap ListIntakes(statuses)
        listed == CASE mode = "failed" -> with({"FAILED"})
                    [] mode = "queue" -> ReceivedToday \cap OpenIntakes
                    [] OTHER -> ReceivedToday
        review == ReceivedToday = {} \/ with({"FAILED", "NEEDS_REVIEW"}) # {}
    IN  Tell(ReadsSpecifications,
             [Statement("intake", Portfolio, listed, ReceivedToday # {}, review) EXCEPT
                !.counts = <<Cardinality(ReceivedToday), Cardinality(with({"COMPLETED"})),
                             Cardinality(ReceivedToday \cap OpenIntakes),
                             Cardinality(with({"NEEDS_REVIEW"})),
                             Cardinality(with({"FAILED"}))>>])

\* portfolioAttention: projects under risk, broken deadlines, human decisions.
PortfolioAttention ==
  \E mode \in {"RISK", "SLA", "HUMAN"} :
    LET waiting == OpenIntakes \cap ListIntakes({"NEEDS_REVIEW"})
        late == {n \in OpenIntakes : book.intakes[n].late}
        failed == OpenIntakes \cap ListIntakes({"FAILED"})
        atRisk == {p \in Running : book.projects[p].threatened}
                  \cup {book.intakes[n].project : n \in failed \cup late}
        listed == CASE mode = "HUMAN" -> waiting
                    [] mode = "SLA" -> late
                    [] OTHER -> atRisk \cap Running
        known == Running # {} \/ OpenIntakes # {}
    IN  Tell(ReadsProjects \cup ReadsSpecifications,
             [Statement("attention", Portfolio, listed, known,
                     ~known \/ (mode = "HUMAN" /\ waiting # {})) EXCEPT
                !.counts = <<Cardinality(atRisk), Cardinality(waiting),
                             Cardinality(late), Cardinality(failed)>>])

PositionsForReview ==
  LET listed == OpenIntakes \cap ListIntakes({"NEEDS_REVIEW", "FAILED"})
  IN  Tell(ReadsSpecifications,
           Statement("review", Portfolio, listed, TRUE, listed # {}))

\* The current version of a specification and the one before it, if any.
SpecificationVersionChange ==
  Tell(ReadsVersions,
       Statement("version", Portfolio, 1 .. book.versions, book.versions > 0,
              book.versions < 2))

ProjectSpecifications(p) ==
  /\ p \in Running
  /\ Tell(ReadsProjects \cup ReadsSpecifications,
          Statement("specifications", p, PositionsOf(p), TRUE, FALSE))

\* What runs out within the days the question names, by the materials of every running
\* project.
PortfolioExhaustion ==
  \E days \in Days \cup {Horizon} :
    LET used == Needed(UNION {PositionsOf(p) : p \in Running})
        spent(i) == book.materials[i].used
        listed == {i \in used : RunsOut(NetAvailable(i), spent(i), Weeks, days)}
        required == IF Running = {} THEN ReadsProjects ELSE ReadsAnalysis
    IN  Tell(required,
             [Statement("exhaustion", Portfolio, listed, Running # {},
                     Running = {} \/ listed # {}) EXCEPT
                !.left = [i \in Goods |-> IF i \in listed
                                          THEN DaysLeft(NetAvailable(i), spent(i), Weeks)
                                          ELSE 0]])

\* projectMaterials.  The question may restrict it to a purpose; one about
\* substitutes, to the one shortage of the answer before, whatever project that
\* was of; a question what to order is not restricted to it.  Substitutes, added
\* for shortages when the user may see them, change no figure.
ShortOfOne ==
  LET last == IF answers = <<>> THEN {} ELSE answers[Len(answers)].short
  IN  IF Cardinality(last) = 1 THEN last ELSE Goods

ProjectMaterials(p) ==
  /\ p \in Running
  /\ \E purposes \in {Purposes} \cup {{u} : u \in Purposes},
        items \in {Goods, ShortOfOne}, ordering \in BOOLEAN :
       LET places == {x \in PositionsOf(p) :
                       /\ book.positions[x].purpose \in purposes
                       /\ ordering \/ book.positions[x].item \in items}
           balance == Needed(places)
           short == {i \in balance : Lack(p, places, i) > 0}
           required == IF ordering THEN ReadsProjects \cup ReadsProjectMaterials \cup {"analysis.read"}
                       ELSE ReadsProjects \cup ReadsProjectMaterials
       IN  Tell(required,
                [Statement("materials", p, balance, TRUE,
                        short # {}) EXCEPT
                   !.short = short,
                   !.order = [i \in Goods |-> IF i \in short THEN Reorder(p, places, i) ELSE 0],
                   !.risks = {i \in balance : Risk(p, places, i) # {}},
                   !.narrowed = places # PositionsOf(p)])
-----------------------------------------------------------------------------
(* A material *)

\* materialQuestion: the stock of one warehouse needs no more than that.
WarehouseStock(i) ==
  \E w \in book.stores :
    Tell(ReadsMaterials, Statement("warehouse", i, {w}, TRUE, FALSE))

\* Otherwise where it is used, its parts if it is an assembly or that is asked,
\* and substitutes, and of those the first that fits well enough is compared for
\* reliability.
MaterialQuestion(i) ==
  \E substitutes, reliability, bom \in BOOLEAN, best \in Goods :
    LET compared == substitutes \/ reliability
        fits == {j \in Substitutes(i) : Rank(i, j) >= 95}
        usedIn == {x \in Places : book.positions[x].item = i}
        required == ReadsMaterials \cup ReadsSpecifications
                    \cup (IF usedIn # {} THEN ReadsProjects ELSE {})
                    \cup (IF compared THEN ReadsSubstitutes ELSE {})
                    \cup (IF bom \/ book.materials[i].assembly THEN ReadsBom ELSE {})
        expert == reliability /\ best \notin fits \cap book.materials[i].longer
    IN  /\ fits # {} => best \in fits
        /\ Tell(required, Statement("material", i, usedIn, TRUE,
                                 \/ compared /\ Doubtful(i)
                                 \/ expert))

-----------------------------------------------------------------------------
(* Specification *)

PortfolioNext ==
  \/ ProjectsByStatus \/ ProjectStatusSequence \/ UpcomingDeadlines
  \/ SpecificationIntake \/ PortfolioAttention \/ PositionsForReview
  \/ SpecificationVersionChange \/ PortfolioExhaustion
  \/ \E p \in Programs : ProjectSpecifications(p) \/ ProjectMaterials(p)
  \/ \E i \in Goods : WarehouseStock(i) \/ MaterialQuestion(i)

PortfolioSpec == PortfolioInit /\ [][PortfolioNext]_portfolioVars

-----------------------------------------------------------------------------
(* Properties *)

SaidOf(asks) == {answers[n] : n \in {n \in DOMAIN answers : answers[n].asks = asks}}
WholeProjects == {b \in SaidOf("materials") : ~b.narrowed}

\* What an answer on the portfolio, whatever days it was asked about, says is left for no
\* more days than a project looks ahead, every project that needs it is told to be at
\* risk of, although a project rounds the consumption up, leaves out what others were
\* given and looks at its deadline.  What a question about more days lists beyond that
\* is no risk of a project, and its answer need not say so.
RunningOutIsARisk ==
  \A a \in SaidOf("exhaustion"), b \in WholeProjects :
    {i \in a.lists \cap b.lists : a.left[i] <= Horizon} \subseteq b.risks

\* Projects that were each told they are not short of an item, when they have been
\* given what they need of it and none is coming, can all be supplied at once.
SuppliedTogether ==
  \A i \in Goods :
    LET told == {b.about : b \in {b \in WholeProjects : i \in b.lists \ b.short}}
        demand(p) == Demand(PositionsOf(p), i)
    IN  /\ told # {} /\ book.materials[i].inbound = {}
        /\ \A p \in told : book.allocated[p][i] = demand(p)
        => MapThenSumSet(demand, told) <= NetAvailable(i)

\* What a project is advised to order, with all that is coming, is enough and less
\* than a pack too much.
OrderIsEnough ==
  \A b \in WholeProjects : \A i \in b.short :
    LET all == NetNow(b.about, i) + Inbound(i, ByNeed(b.about) \cup AfterNeed(b.about))
        needed == RequiredAtNeed(b.about, PositionsOf(b.about), i)
    IN  /\ all + b.order[i] >= needed
        /\ b.order[i] > 0 => all + b.order[i] - needed < Pack

\* The received specifications of a day are all counted, and the failed ones and
\* those that wait for a decision are listed for review and counted as wanting
\* attention too.
IntakesAccountedFor ==
  \A a \in SaidOf("intake") :
    /\ a.counts[1] = a.counts[2] + a.counts[3]
                       + Cardinality(ReceivedToday \cap ListIntakes({"CANCELLED"}))
    /\ \A b \in SaidOf("review") : a.counts[4] + a.counts[5] <= Cardinality(b.lists)
    /\ \A b \in SaidOf("attention") : a.counts[4] <= b.counts[2] /\ a.counts[5] <= b.counts[4]

\* Answers of one thread about one dataset agree with each other
\* (universal-chat-service.ts: portfolioExhaustion, projectMaterials,
\* specificationIntake, portfolioAttention and positionsForReview each count by
\* themselves).
AnswersAgree ==
  RunningOutIsARisk /\ SuppliedTogether /\ OrderIsEnough /\ IntakesAccountedFor
=============================================================================
