--------------------------- MODULE Responsibility ---------------------------
(***************************************************************************)
(* Who has to supply a position: NormativeMockAdapter finds the rules that *)
(* apply and the evidence for them, classifyResponsibility chooses one,    *)
(* and materializeResults and the report go on with its decision.          *)
(*                                                                         *)
(* Abstractions: a rule's conditions are the attributes it wants, and a    *)
(* position is the attributes it fulfils (standard, grade, criticality,    *)
(* group, class, dimensions: the comparison of values is left out).  The   *)
(* retrieval score is only an order of the rules: any order may come up.   *)
(* Confidence and texts are left out.                                      *)
(***************************************************************************)
EXTENDS Integers, FiniteSets, SequencesExt

CONSTANTS
  Rules,       \* rules of the corpus
  Attributes   \* what a rule may want of a position

ASSUME ResponsibilityAssumption == IsFiniteSet(Rules) /\ IsFiniteSet(Attributes)

VARIABLES
  fulfils,   \* attributes of the position that are as the rules want them
  corpus,    \* the rules
  indexed,   \* rules with a chunk that is readable, of their kind and relevant
  retrieved, \* rules with their evidence, best score first
  decision   \* output.responsibility of the position

responsibilityVars == <<fulfils, corpus, indexed, retrieved, decision>>

-----------------------------------------------------------------------------
(* Rules *)

Parties == {"CUSTOMER", "CONTRACTOR"}

\* types: whether the rule names the position's type of equipment or any type;
\* expert: one of its conditions sends this position to a person.
Rule == [types : {"named", "any", "others"}, wants : SUBSET Attributes,
         party : Parties, expert : BOOLEAN]

\* isResponsibilityRuleApplicable
Applicable(r) == corpus[r].types # "others" /\ corpus[r].wants \subseteq fulfils

\* ruleSpecificity
Specificity(r) ==
  Cardinality(corpus[r].wants) + IF corpus[r].types = "named" THEN 1 ELSE 0

-----------------------------------------------------------------------------
(* Retrieval *)

Decision == [state : {"RESOLVED", "REVIEW_REQUIRED", "INSUFFICIENT_DATA", "none"},
             party : Parties \cup {"nobody"}, cites : SUBSET Rules, review : BOOLEAN]
Undecided == [state |-> "none", party |-> "nobody", cites |-> {}, review |-> FALSE]

\* searchResponsibilityRulesBatchInScope: rankNormativeChunks gives evidence
\* for some of the rules that apply, and attachEvidence drops the others.
Search ==
  /\ retrieved = <<>>
  /\ decision = Undecided
  /\ retrieved' \in SetToSeqs({r \in indexed : Applicable(r)})
  /\ UNCHANGED <<fulfils, corpus, indexed, decision>>

-----------------------------------------------------------------------------
(* Decision *)

\* classifyResponsibility asks once more which rules apply: places in the list.
Fitting(rules) == {i \in DOMAIN rules : Applicable(rules[i])}

\* Faulty variant: the rule with the best evidence is taken.
BestEvidence(rules) == {1}

MostSpecific(rules) ==
  {i \in Fitting(rules) :
     \A j \in Fitting(rules) : Specificity(rules[j]) <= Specificity(rules[i])}

\* The most specific of the rules, and of those the one with the best evidence.
Selected(rules) ==
  rules[CHOOSE i \in MostSpecific(rules) : \A j \in MostSpecific(rules) : i <= j]

Decide(rules) ==
  LET best == {rules[i] : i \in MostSpecific(rules)}
      rule == Selected(rules)
  IN  IF Fitting(rules) = {}
      THEN [state |-> "INSUFFICIENT_DATA", party |-> "nobody", cites |-> {},
            review |-> TRUE]
      ELSE IF \E r, q \in best : corpus[r].party # corpus[q].party
      THEN [state |-> "REVIEW_REQUIRED", party |-> "nobody", cites |-> best,
            review |-> TRUE]
      ELSE [state |-> IF corpus[rule].expert THEN "REVIEW_REQUIRED" ELSE "RESOLVED",
            party |-> corpus[rule].party, cites |-> {rule},
            review |-> corpus[rule].expert]

Classify ==
  /\ decision = Undecided
  /\ retrieved # <<>> \/ ~\E r \in indexed : Applicable(r)
  /\ decision' = Decide(retrieved)
  /\ UNCHANGED <<fulfils, corpus, indexed, retrieved>>

\* A scenario without that step: materializeResults decides from no rules.
SkipClassification ==
  /\ decision = Undecided
  /\ decision' = Decide(<<>>)
  /\ UNCHANGED <<fulfils, corpus, indexed, retrieved>>

-----------------------------------------------------------------------------
(* What is made of it *)

\* The result asks for review for other reasons too: the match or an analogue.
ResultReview(otherwise) == decision.review \/ otherwise

\* effectiveResponsibilityDecisionState: results written before there was a
\* state are judged by what they hold.
EffectiveState(stored, review) ==
  IF stored THEN decision.state
  ELSE IF decision.party = "nobody" THEN "INSUFFICIENT_DATA"
  ELSE IF review THEN "REVIEW_REQUIRED" ELSE "RESOLVED"

\* summarizeResponsibilityDecisions counts the position for whom?
CountedFor(stored, review) ==
  IF EffectiveState(stored, review) = "RESOLVED" THEN decision.party ELSE "nobody"

-----------------------------------------------------------------------------
(* Specification *)

ResponsibilityInit ==
  /\ fulfils \in SUBSET Attributes
  /\ corpus \in [Rules -> Rule]
  /\ indexed \in SUBSET Rules
  /\ retrieved = <<>>
  /\ decision = Undecided

ResponsibilityNext == Search \/ Classify \/ SkipClassification

ResponsibilitySpec ==
  ResponsibilityInit /\ [][ResponsibilityNext]_responsibilityVars

-----------------------------------------------------------------------------
(* Properties *)

\* README.md:14 and docs/agent-behavior.md:102: whatever evidence ranks first,
\* nobody is held responsible unless the rules with evidence that fit the
\* position best all say so, and then that party is; the rule that is cited is
\* one of them.  A report counts the position for a party only then, and never
\* one that an expert has still to look at for the rule's own sake.  Where the
\* best rules disagree all of them are cited and a person decides.
PartyAgreed ==
  LET known == {r \in indexed : Applicable(r)}
      best == {r \in known : \A q \in known : Specificity(q) <= Specificity(r)}
  IN  decision.cites # {} =>
        /\ decision.cites \subseteq best
        /\ decision.party # "nobody" <=> \A r, q \in best : corpus[r].party = corpus[q].party
        /\ decision.party = "nobody" => decision.cites = best /\ decision.review
        /\ \A stored, otherwise \in BOOLEAN :
             LET party == CountedFor(stored, ResultReview(otherwise))
             IN  party # "nobody" =>
                   \A r \in decision.cites : corpus[r].party = party /\ ~corpus[r].expert
=============================================================================
