--------------------------- MODULE AgentLearning ---------------------------
(***************************************************************************)
(* What becomes of feedback on the agent's answers: AgentFeedbackService   *)
(* and AgentLearningCurationService over PostgresAgentLearningStore.       *)
(* Feedback makes a candidate that people approve, promote, reject and     *)
(* revoke; the row is read first and then written, with its audit, in a    *)
(* transaction that compares its version and its status.                   *)
(*                                                                         *)
(* Abstractions: a candidate is the owner and the answer its id is made    *)
(* of.  Of the provenance there is only whether the answer is the owner's  *)
(* and made in this project; a validation stands for a regression case,    *)
(* its checksum and its applicability, which an approval must name.        *)
(***************************************************************************)
EXTENDS Integers, Sequences, SequencesExt

CONSTANTS
  Candidates,  \* owners and answers feedback may be given on
  Foreign,     \* those of them whose answer is not the owner's or the project's
  Curators,    \* requests that may be in flight at once
  Validations, \* validations of a candidate
  MaxCandidateVersion \* bound: version of a candidate

ASSUME LearningAssumption ==
  /\ Candidates # {}
  /\ Foreign \subseteq Candidates
  /\ MaxCandidateVersion \in Nat \ {0}
  /\ "none" \notin Validations

VARIABLES
  learning,    \* the agent_learning_candidates rows
  learningLog, \* agent.learning.* actions of each candidate in audit_logs
  curator      \* local state of every request

learningVars == <<learning, learningLog, curator>>

-----------------------------------------------------------------------------
(* Rows and local records *)

LearningStatuses == {"QUARANTINED", "APPROVED", "PROMOTED", "REJECTED", "REVOKED"}

\* summary: what validation_summary holds.
Candidate == [status : LearningStatuses \cup {"ABSENT"},
              validation : Validations \cup {"none"},
              summary : {"none", "validation", "reason"},
              version : 0 .. MaxCandidateVersion]
NoCandidate == [status |-> "ABSENT", validation |-> "none", summary |-> "none",
                version |-> 0]

\* What a request wants: the status to give, and the statuses it expects.
Expected == [APPROVED |-> {"QUARANTINED"},
             PROMOTED |-> {"APPROVED"},
             REJECTED |-> {"QUARANTINED", "APPROVED"},
             REVOKED  |-> {"PROMOTED"}]

\* version: of the row the request has read; zero, it has read none.
Curator == [candidate : Candidates, status : DOMAIN Expected,
            validation : Validations \cup {"none"}, version : Nat]
Away == [candidate |-> CHOOSE k \in Candidates : TRUE, status |-> "APPROVED",
         validation |-> "none", version |-> 0]

LearningTypeOK ==
  /\ learning \in [Candidates -> Candidate]
  /\ learningLog \in [Candidates -> Seq(LearningStatuses)]
  /\ curator \in [Curators -> Curator]

LearningInit ==
  /\ learning = [k \in Candidates |-> NoCandidate]
  /\ learningLog = [k \in Candidates |-> <<>>]
  /\ curator = [d \in Curators |-> Away]

-----------------------------------------------------------------------------
(* Feedback *)

\* submitWithAudit: feedback that has been given is answered with its
\* candidate, and so is feedback that loses the race to insert it.
Submit(k) ==
  /\ k \notin Foreign
  /\ learning[k].status = "ABSENT"
  /\ learning' = [learning EXCEPT
       ![k] = [NoCandidate EXCEPT !.status = "QUARANTINED", !.version = 1]]
  /\ learningLog' = [learningLog EXCEPT ![k] = Append(@, "QUARANTINED")]
  /\ UNCHANGED curator

-----------------------------------------------------------------------------
(* Curation *)

\* requireCandidate, and what promote demands of the row itself.
ReadCandidate(d, k, status) ==
  /\ curator[d].version = 0
  /\ learning[k].status # "ABSENT"
  /\ learning[k].version < MaxCandidateVersion
  /\ status = "PROMOTED" =>
       learning[k].status = "APPROVED" /\ learning[k].validation # "none"
  /\ \E v \in IF status = "APPROVED" THEN Validations ELSE {"none"} :
       curator' = [curator EXCEPT ![d] =
         [candidate |-> k, status |-> status, validation |-> v,
          version |-> learning[k].version]]
  /\ UNCHANGED <<learning, learningLog>>

\* Faulty variant: the version is not compared.
StatusExpected(row, request) == row.status \in Expected[request.status]

VersionExpected(row, request) ==
  /\ row.version = request.version
  /\ row.status \in Expected[request.status]

\* transitionWithAudit; a request that finds the row changed has a conflict.
Transition(d) ==
  LET request == curator[d]
      k == request.candidate
  IN  /\ request.version # 0
      /\ curator' = [curator EXCEPT ![d] = Away]
      /\ IF VersionExpected(learning[k], request)
         THEN /\ learning' = [learning EXCEPT
                   ![k].status = request.status,
                   ![k].version = request.version + 1,
                   ![k].validation =
                      IF request.status = "APPROVED" THEN request.validation ELSE @,
                   ![k].summary =
                      CASE request.status = "APPROVED" -> "validation"
                        [] request.status = "PROMOTED" -> @
                        [] OTHER -> "reason"]
              /\ learningLog' = [learningLog EXCEPT ![k] = Append(@, request.status)]
         ELSE UNCHANGED <<learning, learningLog>>

-----------------------------------------------------------------------------
(* Specification *)

LearningNext ==
  \/ \E k \in Candidates : Submit(k)
  \/ \E d \in Curators : \/ \E k \in Candidates, status \in DOMAIN Expected :
                              ReadCandidate(d, k, status)
                         \/ Transition(d)

LearningSpec == LearningInit /\ [][LearningNext]_learningVars

-----------------------------------------------------------------------------
(* Properties *)

\* The ways a candidate may go: quarantine, approval by a person, promotion,
\* and an end from which it does not come back (docs/agent-behavior.md:209).
Lifecycle ==
  LET full == <<"QUARANTINED", "APPROVED", "PROMOTED", "REVOKED">>
  IN  Prefixes(full)
        \cup {Append(p, "REJECTED") : p \in {<<full[1]>>, <<full[1], full[2]>>}}

\* Whatever requests overlap, the audit of a candidate is one way through its
\* life, one event per version of its row and the last the row's status; what
\* is or was promoted carries the validation of its approval.
LearningAudited ==
  \A k \in Candidates :
    LET row == learning[k]
        log == learningLog[k]
    IN  /\ log \in Lifecycle
        /\ row.version = Len(log)
        /\ row.status = IF log = <<>> THEN "ABSENT" ELSE Last(log)
        /\ Contains(log, "APPROVED") <=> row.validation # "none"
        /\ row.status \in {"APPROVED", "PROMOTED"} => row.summary = "validation"
=============================================================================
