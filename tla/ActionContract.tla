--------------------------- MODULE ActionContract ---------------------------
(***************************************************************************)
(* What the agent promises about the actions it proposes, with no request, *)
(* row version or session in sight: the diagram of AgentActionStatus.  An  *)
(* action is carried out after its confirmation and before its outcome is  *)
(* recorded, and once; a success has been carried out; a failure may have  *)
(* been.                                                                   *)
(***************************************************************************)
EXTENDS Integers

CONSTANTS
  Actions,   \* the actions that may be proposed
  Effective  \* those that change something when carried out

VARIABLES
  status,    \* where each action stands
  effects    \* how often each action was carried out

Init ==
  /\ status = [a \in Actions |-> "ABSENT"]
  /\ effects = [a \in Actions |-> 0]

Move(a, from, to) ==
  /\ status[a] = from
  /\ status' = [status EXCEPT ![a] = to]
  /\ UNCHANGED effects

Propose(a) == Move(a, "ABSENT", "PROPOSED")
Confirm(a) == Move(a, "PROPOSED", "EXECUTING")
Cancel(a) == Move(a, "PROPOSED", "CANCELLED")
Fail(a) == Move(a, "EXECUTING", "FAILED")

Succeed(a) ==
  /\ a \in Effective => effects[a] = 1
  /\ Move(a, "EXECUTING", "SUCCEEDED")

CarryOut(a) ==
  /\ a \in Effective
  /\ status[a] = "EXECUTING"
  /\ effects[a] = 0
  /\ effects' = [effects EXCEPT ![a] = 1]
  /\ UNCHANGED status

Next ==
  \E a \in Actions :
    \/ Propose(a) \/ Confirm(a) \/ Cancel(a)
    \/ CarryOut(a) \/ Succeed(a) \/ Fail(a)

Spec == Init /\ [][Next]_<<status, effects>>
=============================================================================
