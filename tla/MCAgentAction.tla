--------------------------- MODULE MCAgentAction ---------------------------
(* Instances of AgentAction for TLC: one action of a kind, and everything    *)
(* that several requests may do about it.                                    *)
EXTENDS AgentAction, TLC

CONSTANTS p1, p2, p3, a1, ann, r1

MCStates == {"AVAILABLE", "CHANGED"}
OwnerAnn == [a \in Actions |-> ann]
TargetOne == [a \in Actions |-> r1]

\* A run, which is inserted before its audit event is written.
KindRun == [a \in Actions |-> "RUN_SCENARIO"]
\* A change of access, which changes what its own target's status is.
KindPrivileged == [a \in Actions |-> "PRIVILEGED"]

Requesters == Permutations(Procs)
=============================================================================
