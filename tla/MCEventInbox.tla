---------------------------- MODULE MCEventInbox ----------------------------
(* The instance of EventInbox for TLC: two events that report two states of  *)
(* one subject.                                                              *)
EXTENDS EventInbox, TLC

CONSTANTS p1, p2, e1, e2, s1, v1, v2

MCSubject == e1 :> s1 @@ e2 :> s1
MCStateVersion == e1 :> v1 @@ e2 :> v2
=============================================================================
