------------------------------ MODULE Analytics ------------------------------
(***************************************************************************)
(* What AnalyticalIntelligenceService advises for one position: it judges  *)
(* the quality of the sources, forecasts, covers the requirement from      *)
(* stock, compares ways to supply the rest, verifies all that and          *)
(* recommends one way.                                                     *)
(*                                                                         *)
(* Abstractions: of the weeks of consumption there is their number and     *)
(* whether they are comparable and without a gap; the numbers of the       *)
(* forecast, the trend, root causes and texts are left out.  Evidence      *)
(* nodes are all in the graph.  Deviations are in hundredths.  Quantities  *)
(* are whole, and nothing is rounded but what each substitute is taken to  *)
(* have.                                                                   *)
(***************************************************************************)
EXTENDS Integers, FiniteSets, FiniteSetsExt, Functions

CONSTANTS
  Rows,          \* rows of stock of the position's material
  MaxAmount,     \* bound: of every quantity
  MaxSubstitutes,\* bound: substitutes of a position
  Delays         \* delays of delivery that are asked about

ASSUME AnalyticsAssumption ==
  /\ IsFiniteSet(Rows)
  /\ MaxAmount \in Nat \ {0}
  /\ MaxSubstitutes \in Nat
  /\ Delays \subseteq Nat

VARIABLES
  dataset,   \* what the sources say of the position
  advice     \* PublicAnalyticalAnswer

analyticsVars == <<dataset, advice>>

-----------------------------------------------------------------------------
(* Sources *)

\* mapped: the position has a code in the catalogue and in SAP; ruled: somebody
\* is responsible for it; offered: substitutes are allowed; delay: of the query.
Dataset ==
  [found : BOOLEAN, mapped : BOOLEAN, ruled : BOOLEAN, offered : BOOLEAN,
   required : 1 .. MaxAmount, unit : BOOLEAN,
   onHand : [Rows -> 0 .. MaxAmount], held : [Rows -> 0 .. MaxAmount],
   inbound : 0 .. MaxAmount, weeks : {9, 10}, regular : BOOLEAN,
   substitutes : 0 .. MaxSubstitutes, delay : Delays]

\* assessDataQuality over sourceQuality; confidence in percent.
SourcesComplete == dataset.mapped /\ dataset.ruled
Ceiling == IF SourcesComplete THEN 100 ELSE 65

\* validate, and the verifier's two points of a backtest.
Forecasts == SourcesComplete /\ dataset.weeks >= 8 + 2 /\ dataset.regular

\* calculateCoverage: each row by itself, what is reserved or in quarantine taken
\* off.
Larger(x, y) == IF x > y THEN x ELSE y
Smaller(x, y) == IF x < y THEN x ELSE y
Free(r) == Larger(0, dataset.onHand[r] - dataset.held[r])
DirectCoverage ==
  Smaller(dataset.required, FoldSet(LAMBDA r, sum : sum + Free(r), 0, Rows))
Deficit == Larger(0, dataset.required - DirectCoverage - dataset.inbound)

-----------------------------------------------------------------------------
(* Scenarios *)

\* Candidates: every substitute is taken to have its share of the requirement.
Share(n) == (dataset.required + n - 1) \div n
Lead(k) == k + dataset.delay
Deviation(k) == 2 + 3 * k

\* Faulty variant: whether a substitute is allowed is not asked.
AllCandidates == 1 .. dataset.substitutes

Eligible == IF dataset.offered THEN 1 .. dataset.substitutes ELSE {}

\* An alternative: what it takes of whom, when that is there, and the sum of its
\* deviations; rejected: for a reason of its own.
Alternative(kind, plan, lead, rejected) ==
  [kind |-> kind, plan |-> plan, lead |-> lead, rejected |-> rejected]

Amount(a) == FoldFunction(+, 0, a.plan)

DirectOnly ==
  Alternative("DIRECT", [m \in {"stock"} |-> DirectCoverage], 0,
              DirectCoverage < dataset.required)

OneSubstitute(k) ==
  LET taken == Smaller(dataset.required, Share(dataset.substitutes))
  IN  Alternative("SINGLE_SUBSTITUTE", [m \in {k} |-> taken], Lead(k),
                  taken < dataset.required)

\* Least deviation first, until nothing remains.
Composite ==
  LET share == IF Eligible = {} THEN 0 ELSE Share(dataset.substitutes)
      before(k) == Smaller(dataset.required, (k - 1) * share)
      used == {k \in Eligible : before(k) < dataset.required}
      plan == [k \in used |-> Smaller(share, dataset.required - before(k))]
  IN  Alternative("COMPOSITE_SUBSTITUTE", plan,
                  IF used = {} THEN 0 ELSE Lead(Max(used)),
                  FoldFunction(+, 0, plan) < dataset.required)

Procurement ==
  Alternative("PROCUREMENT", [m \in {"order"} |-> dataset.required],
              30 + dataset.delay, 30 + dataset.delay > 90)

Feasible(a) == Amount(a) = dataset.required /\ ~a.rejected

\* 4 * required times the score of a feasible alternative: leads beyond fifty days
\* and deviations beyond one count no more.
Weight(a, m) ==
  IF a.kind \in {"DIRECT", "PROCUREMENT"} THEN 0 ELSE a.plan[m] * Deviation(m)
Deviations(a) == FoldSet(LAMBDA m, sum : sum + Weight(a, m), 0, DOMAIN a.plan)
Score(a) ==
  dataset.required * (400 - 2 * Smaller(50, a.lead))
    - Smaller(100 * dataset.required, Deviations(a))

\* Among equals the names of the alternatives decide.
Precedence == [COMPOSITE_SUBSTITUTE |-> 1, DIRECT |-> 2, PROCUREMENT |-> 3,
               SINGLE_SUBSTITUTE |-> 4]
AllAlternatives ==
  {DirectOnly, Composite, Procurement} \cup {OneSubstitute(k) : k \in Eligible}
Preferred(a, b) ==
  \/ Score(a) > Score(b)
  \/ Score(a) = Score(b) /\ Precedence[a.kind] <= Precedence[b.kind]

\* evaluateScenarios: the first feasible one, if the sources are complete.
Recommended ==
  {a \in AllAlternatives :
     SourcesComplete /\ Feasible(a) /\ \A b \in AllAlternatives : Feasible(b) => Preferred(a, b)}

-----------------------------------------------------------------------------
(* Answers *)

NotAsked == [state |-> "none", options |-> {}, forecast |-> FALSE, covered |-> FALSE,
             confidence |-> 0, verified |-> FALSE]

\* verifyAnalyticalArtifacts: what is recommended is feasible, and its amounts
\* add up.
Verified == \A a \in Recommended : Feasible(a)

\* Without a position, or with stock in another unit, the analysis throws.
Refuse ==
  /\ advice = NotAsked
  /\ dataset.found => dataset.mapped /\ ~dataset.unit
  /\ advice' = [NotAsked EXCEPT !.state = "error"]
  /\ UNCHANGED dataset

AnswerUnavailable ==
  /\ advice = NotAsked
  /\ dataset.found /\ ~dataset.mapped
  /\ advice' = [NotAsked EXCEPT !.state = "unavailable"]
  /\ UNCHANGED dataset

\* createAnalyticalRecommendation; covered: what the summary says.
Analyze ==
  /\ advice = NotAsked
  /\ dataset.found /\ dataset.mapped /\ dataset.unit
  /\ advice' = [state |-> "answered",
                options |-> IF Verified THEN Recommended ELSE {},
                forecast |-> Forecasts,
                covered |-> Deficit = 0,
                confidence |-> IF ~Verified THEN 0
                               ELSE Smaller(Ceiling, IF Forecasts THEN 90 ELSE 70),
                verified |-> Verified]
  /\ UNCHANGED dataset

-----------------------------------------------------------------------------
(* Specification *)

AnalyticsInit ==
  /\ dataset \in Dataset
  /\ advice = NotAsked

AnalyticsNext == Refuse \/ AnswerUnavailable \/ Analyze

AnalyticsSpec == AnalyticsInit /\ [][AnalyticsNext]_analyticsVars

-----------------------------------------------------------------------------
(* Properties *)

\* scenario-engine.ts and analytical-verifier.ts: the advice is one way, and it
\* supplies all of the requirement and no more: from stock whenever that
\* is enough, from substitutes only if they are allowed and each within its
\* share, by an order only within ninety days, and before allowed substitutes
\* only if those take so long that longer leads no longer count or there are more
\* than eleven (the dataset names three at most).  It is given if and only if all
\* sources are complete and there is such a way, and it is never thrown out by the
\* verifier; a confidence of ninety needs a forecast.
AdviceCovers ==
  advice.state = "answered" =>
    LET direct == FoldSet(LAMBDA r, sum : sum + Free(r), 0, Rows) >= dataset.required
        allowed == dataset.offered /\ dataset.substitutes > 0
        timely == 30 + dataset.delay <= 90
    IN  /\ advice.verified
        /\ Cardinality(advice.options) =
             IF dataset.ruled /\ (direct \/ allowed \/ timely) THEN 1 ELSE 0
        /\ advice.confidence >= 90 => advice.forecast
        /\ \A a \in advice.options :
             /\ Amount(a) = dataset.required
             /\ a.kind = "DIRECT" <=> direct
             /\ a.kind \in {"SINGLE_SUBSTITUTE", "COMPOSITE_SUBSTITUTE"} =>
                  /\ allowed
                  /\ \A m \in DOMAIN a.plan :
                       a.plan[m] * dataset.substitutes
                         < dataset.required + dataset.substitutes
             /\ a.kind = "PROCUREMENT" =>
                  /\ timely
                  /\ allowed => Lead(dataset.substitutes) > 40 \/ dataset.substitutes > 11
=============================================================================
