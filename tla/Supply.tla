------------------------------- MODULE Supply -------------------------------
(***************************************************************************)
(* How an analysis run covers its positions from stock: matchStock,        *)
(* findAnalogues and materializeResults of ScenarioService over            *)
(* domain/matching.ts and domain/analogues.ts.  Each position is matched   *)
(* with the direct material that scores best; what that lacks is taken     *)
(* from analogues, of which a ledger of the run says what is left.         *)
(*                                                                         *)
(* Abstractions: the points of scoreMaterial are a grade; which material   *)
(* scores best, and in which order analogues of one severity (number of    *)
(* deviations) stand, is a choice.  The stock is that of the run's         *)
(* snapshot, which nobody changes.  Only the best three alternatives are   *)
(* kept by the code: what is said of them here is said of each.            *)
(***************************************************************************)
EXTENDS Integers, FiniteSets, SequencesExt

CONSTANTS
  Items,        \* positions of the run
  Direct,       \* materials that are not analogues
  Analogues,    \* those tagged as analogues
  Severities,   \* numbers of deviations an analogue may have
  MaxQuantity   \* bound: of a stock and of a demand

ASSUME SupplyAssumption ==
  /\ IsFiniteSet(Items) /\ IsFiniteSet(Analogues)
  /\ Severities \subseteq Nat
  /\ MaxQuantity \in Nat \ {0}
  /\ Direct \cap Analogues = {}

VARIABLES
  stock,     \* availableQuantity of every material of the snapshot
  match,     \* output.matches
  reserved,  \* the run's ledger of analogues
  coverage   \* output.analogues and output.analogueSearches

supplyVars == <<stock, match, reserved, coverage>>

-----------------------------------------------------------------------------
(* Matching *)

\* Categories of scores; of a likely match, whether more than one thing differs.
Grades == {"EXACT", "LIKELY", "DIFFERING", "REVIEW", "NO_MATCH"}

Match == [required : 1 .. MaxQuantity, material : Direct \cup {"none"}, grade : Grades]
Unmatched == [required |-> 0, material |-> "none", grade |-> "NO_MATCH"]

MatchNeedsReview(m) == m.grade \in {"DIFFERING", "REVIEW"}

\* What the direct match gives: all of its stock, whoever else matched it.
Available(p) == IF match[p].material = "none" THEN 0 ELSE stock[match[p].material]
Least(x, y) == IF x < y THEN x ELSE y
DirectCovered(p) == Least(match[p].required, Available(p))
Shortage(p) == match[p].required - DirectCovered(p)

\* matchStock: a score below 80 is no match.
MatchStock(p) ==
  /\ match[p] = Unmatched
  /\ \E m \in Match :
       /\ m.grade = "NO_MATCH" <=> m.material = "none"
       /\ match' = [match EXCEPT ![p] = m]
  /\ UNCHANGED <<stock, reserved, coverage>>

-----------------------------------------------------------------------------
(* Analogues *)

\* isAllowedByRule and compareCharacteristics: the analogues a rule allows for a
\* position, with their severities; then their order, least severity first.
Offers == UNION {[allowed -> Severities] : allowed \in SUBSET Analogues}
Orders(offer) ==
  {s \in SetToSeqs(DOMAIN offer) :
     \A i, j \in DOMAIN s : i < j => offer[s[i]] <= offer[s[j]]}

\* Faulty variant: what other positions have been promised is not taken off.
StockOf(m, ledger) == stock[m]

Left(m, ledger) == stock[m] - ledger[m]

\* A plan: what it takes of each material, if anything.
Total(plan) == FoldFunction(+, 0, plan)

\* allocateCoveragePlan: of each material in turn what is left or still missing.
Take(plan, m, needed, ledger) ==
  LET n == Least(needed - Total(plan), Left(m, ledger))
  IN  IF n <= 0 THEN plan
      ELSE [k \in DOMAIN plan \cup {m} |-> IF k = m THEN n ELSE plan[k]]
Allocate(order, needed, ledger) ==
  FoldLeft(LAMBDA plan, m : Take(plan, m, needed, ledger), <<>>, order)

\* buildAlternativePlans: without one of the materials of the primary plan, from
\* what was left before it.
Alternatives(order, needed, ledger, primary) ==
  {Allocate(RemoveAt(order, i), needed, ledger) :
     i \in {j \in DOMAIN order : order[j] \in DOMAIN primary}} \ {primary, <<>>}

\* What is kept of a search; before: the ledger as the position found it.
NotSearched == [outcome |-> "none", offer |-> <<>>, primary |-> <<>>,
                alternatives |-> {}, before |-> <<>>]

\* One turn of the loop of findAnalogues: only the primary plan is reserved.
FindAnalogues(p) ==
  /\ \A q \in Items : match[q] # Unmatched
  /\ coverage[p] = NotSearched
  /\ Shortage(p) > 0
  /\ \E offer \in Offers : \E order \in Orders(offer), ruled \in BOOLEAN :
       LET primary == Allocate(order, Shortage(p), reserved)
       IN  /\ ruled \/ offer = <<>>
           /\ coverage' = [coverage EXCEPT ![p] =
                [outcome |-> IF primary # <<>> THEN "ALLOCATED"
                             ELSE IF ruled THEN "NO_ELIGIBLE_CANDIDATE"
                             ELSE "NO_APPLICABLE_RULE",
                 offer |-> offer, primary |-> primary, before |-> reserved,
                 alternatives |-> Alternatives(order, Shortage(p), reserved, primary)]]
           /\ reserved' = [m \in Analogues |->
                reserved[m] + IF m \in DOMAIN primary THEN primary[m] ELSE 0]
  /\ UNCHANGED <<stock, match>>

-----------------------------------------------------------------------------
(* Results *)

Allocated(p) == coverage[p].outcome = "ALLOCATED"

\* extendAnalogueCoverageWithDirectStock
CoveredInFull(p) == DirectCovered(p) + Total(coverage[p].primary) >= match[p].required

\* materializeResults
Status(p) ==
  IF match[p].material # "none" /\ Available(p) >= match[p].required THEN "FOUND"
  ELSE IF Allocated(p) /\ CoveredInFull(p) THEN "ANALOGUES"
  ELSE IF Allocated(p) \/ match[p].material # "none" THEN "INSUFFICIENT"
  ELSE "NOT_FOUND"

\* What of it stock answers for: an allocation is suitable if it does not
\* deviate, wanting review with one or two deviations and not recommended else.
Verdict(severity) ==
  CASE severity = 0 -> "SUITABLE"
    [] severity \in 1 .. 2 -> "REVIEW"
    [] OTHER -> "NOT_RECOMMENDED"

SupplyNeedsReview(p) ==
  \/ MatchNeedsReview(match[p])
  \/ Allocated(p) /\ \E m \in DOMAIN coverage[p].primary :
                       Verdict(coverage[p].offer[m]) # "SUITABLE"

-----------------------------------------------------------------------------
(* Specification *)

SupplyTypeOK ==
  /\ stock \in [Direct \cup Analogues -> 0 .. MaxQuantity]
  /\ match \in [Items -> Match \cup {Unmatched}]
  /\ reserved \in [Analogues -> Nat]
  /\ \A p \in Items : Allocated(p) => coverage[p].offer \in Offers

SupplyInit ==
  /\ stock \in [Direct \cup Analogues -> 0 .. MaxQuantity]
  /\ match = [p \in Items |-> Unmatched]
  /\ reserved = [m \in Analogues |-> 0]
  /\ coverage = [p \in Items |-> NotSearched]

SupplyNext == \E p \in Items : MatchStock(p) \/ FindAnalogues(p)

SupplySpec == SupplyInit /\ [][SupplyNext]_supplyVars

-----------------------------------------------------------------------------
(* Properties *)

Promised(m) ==
  FoldSet(LAMBDA p, sum : sum + IF m \in DOMAIN coverage[p].primary
                                THEN coverage[p].primary[m] ELSE 0, 0, Items)

\* docs/agent-behavior.md:157, docs/api-reference.md:607: whatever the
\* order of the positions, no unit of an analogue is promised to two of them;
\* each gets as much as was left for it, the closest analogues first; and an
\* alternative never promises more than that, nor does it cost the others
\* anything.  What nobody is asked to look at is covered in full or openly
\* short, and from materials that do not deviate.
StockSharedOut ==
  /\ \A m \in Analogues : Promised(m) <= stock[m] /\ Promised(m) = reserved[m]
  /\ \A p \in Items :
       LET c == coverage[p]
           left(m) == stock[m] - c.before[m]
       IN  Allocated(p) =>
             /\ Total(c.primary) = Least(Shortage(p),
                  FoldSet(LAMBDA m, sum : sum + left(m), 0, DOMAIN c.offer))
             /\ \A m \in DOMAIN c.primary, k \in DOMAIN c.offer :
                  c.offer[k] < c.offer[m] =>
                    left(k) = IF k \in DOMAIN c.primary THEN c.primary[k] ELSE 0
             /\ \A plan \in c.alternatives :
                  /\ \A m \in DOMAIN plan : plan[m] \in 1 .. left(m)
                  /\ Total(plan) <= Total(c.primary)
             /\ Status(p) = "ANALOGUES" <=> CoveredInFull(p)
             /\ ~SupplyNeedsReview(p) =>
                  \A m \in DOMAIN c.primary : c.offer[m] = 0
=============================================================================
