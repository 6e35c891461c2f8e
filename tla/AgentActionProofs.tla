-------------------------- MODULE AgentActionProofs --------------------------
(***************************************************************************)
(* Proofs about AgentAction, for any number of actions, owners, resources  *)
(* and requests.                                                           *)
(*                                                                         *)
(* TypeOK and the properties are not inductive by themselves: that an      *)
(* action takes effect once rests on there being one request between its   *)
(* claim and its outcome, and on that request taking effect at one place.  *)
(* SafetyInv adds this (Claimant, Alone) to what holds of the rows.        *)
(***************************************************************************)
EXTENDS AgentAction, TLAPS

\* A request that has claimed its action and not yet recorded an outcome.
Claiming(l) == l.pc \in {"execute", "complete", "fail"}

\* What a row's status says of its version, its effect and its audit trail.
RowSound(a) ==
  /\ rows[a].status = "PROPOSED" => rows[a].version = 1
  /\ rows[a].status = "EXECUTING" => rows[a].version = 2
  /\ effects[a] <= 1
  /\ rows[a].status \in {"ABSENT", "PROPOSED", "CANCELLED"} => effects[a] = 0
  /\ rows[a].status = "SUCCEEDED" /\ HasEffect(a) => effects[a] = 1
  /\ audit[a] = Trail(rows[a].status)

\* What a request after its claim may rely on.
Claimant(p) ==
  LET l == proc[p]
      a == l.action IN
  /\ l.pc \in {"execute", "complete"} => rows[a].status = "EXECUTING"
  /\ l.pc = "execute" => effects[a] = 0
  /\ l.pc = "complete" /\ HasEffect(a) => effects[a] = 1
  /\ l.pc = "fail" => rows[a].status \in {"EXECUTING", "SUCCEEDED"}

\* No two requests are between claim and outcome of one action.
Alone ==
  \A p, q \in Procs :
    Claiming(proc[p]) /\ Claiming(proc[q]) /\ proc[p].action = proc[q].action
      => p = q

SafetyInv ==
  /\ TypeOK
  /\ \A a \in Actions : RowSound(a)
  /\ \A p \in Procs : Claimant(p)
  /\ Alone

-----------------------------------------------------------------------------
(* The type invariant's part of a transition *)

\* The audit log of an action grows by one event.
LEMMA AuditGrows ==
  ASSUME TypeOK, NEW a \in Actions, NEW e \in Events
  PROVE  [audit EXCEPT ![a] = Append(@, e)] \in [Actions -> Seq(Events)]
  <1>1. Append(audit[a], e) \in Seq(Events)
    BY DEF TypeOK
  <1> QED
    BY <1>1 DEF TypeOK

\* An idle record is a local state.
LEMMA IdleLocal == Idle \in Local
  <1>1. (CHOOSE a \in Actions : TRUE) \in Actions
    BY ActionAssumption
  <1>2. Absent \in Row
    BY ActionAssumption DEF Absent, Row, Statuses
  <1>3. InitialRights \in Rights
    BY DEF InitialRights, Rights
  <1> QED
    BY <1>1, <1>2, <1>3, ActionAssumption DEF Idle, Local, Requests

LEMMA InitSafe == Init => SafetyInv
  <1> SUFFICES ASSUME Init PROVE SafetyInv
    OBVIOUS
  <1>1. TypeOK
    <2>1. Absent \in Row /\ InitialRights \in Rights
      BY ActionAssumption DEF Absent, Row, Statuses, InitialRights, Rights
    <2> QED
      BY <2>1, IdleLocal DEF Init, TypeOK
  <1>2. \A a \in Actions : RowSound(a)
    BY DEF Init, RowSound, Absent, Trail
  <1>3. (\A p \in Procs : Claimant(p)) /\ Alone
    BY DEF Init, Claimant, Alone, Claiming, Idle
  <1> QED
    BY <1>1, <1>2, <1>3 DEF SafetyInv

-----------------------------------------------------------------------------
(* Steps of a request that leave rows, effects and audit alone *)

\* A request that writes nothing and is not between claim and outcome
\* afterwards, or stays there at the point of failure, disturbs nothing.
LEMMA QuietStep ==
  ASSUME SafetyInv, NEW p \in Procs, NEW l \in Local,
         proc' = [proc EXCEPT ![p] = l],
         UNCHANGED <<rows, audit, effects, expired, state, rights>>,
         \/ ~ Claiming(l)
         \/ /\ Claiming(proc[p])
            /\ l.action = proc[p].action
            /\ l.pc = "fail"
  PROVE  SafetyInv'
  <1>1. TypeOK'
    BY DEF SafetyInv, TypeOK
  <1>2. \A a \in Actions : RowSound(a)'
    BY DEF SafetyInv, RowSound, HasEffect
  <1>3. \A q \in Procs : Claimant(q)'
    BY DEF SafetyInv, TypeOK, Claimant, Claiming, HasEffect
  <1>4. Alone'
    BY DEF SafetyInv, TypeOK, Alone, Claiming
  <1> QED
    BY <1>1, <1>2, <1>3, <1>4 DEF SafetyInv

\* A transition of the row of action a, by the one request that may make it.
LEMMA RowStep ==
  ASSUME SafetyInv, NEW p \in Procs, NEW a \in Actions, NEW read \in Row,
         NEW from \in Statuses, NEW to \in Statuses, NEW e \in Events,
         NEW l \in Local,
         rows[a].status = from,
         rows[a].version = read.version,
         Transition(a, read, to, e),
         proc' = [proc EXCEPT ![p] = l],
         UNCHANGED <<effects, expired, state, rights>>,
         proc[p].action = a,
         Trail(to) = Append(Trail(from), e),
         \/ from = "PROPOSED" /\ to = "EXECUTING" /\ l.pc = "execute"
              /\ l.action = a /\ ~ Claiming(proc[p])
         \/ from = "PROPOSED" /\ to = "CANCELLED" /\ ~ Claiming(l)
         \/ from = "EXECUTING" /\ to = "FAILED" /\ Claiming(proc[p])
              /\ ~ Claiming(l)
         \/ from = "EXECUTING" /\ to = "SUCCEEDED" /\ proc[p].pc = "complete"
              /\ ~ Claiming(l)
         \/ from = "EXECUTING" /\ to = "SUCCEEDED" /\ proc[p].pc = "complete"
              /\ l.pc = "fail" /\ l.action = a
  PROVE  SafetyInv'
  <1>1. rows[a] \in Row /\ RowSound(a) /\ Claimant(p)
    BY DEF SafetyInv, TypeOK
  <1>2. read.version + 1 \in 0 .. 3
    BY <1>1 DEF RowSound
  <1>3. Became(rows[a], to, read) \in Row
    BY <1>1, <1>2 DEF Became, Row
  <1>4. /\ rows' = [rows EXCEPT ![a] = Became(rows[a], to, read)]
        /\ audit' = [audit EXCEPT ![a] = Append(audit[a], e)]
    BY DEF Transition
  <1>5. TypeOK'
    <2>1. rows' \in [Actions -> Row]
      BY <1>3, <1>4 DEF SafetyInv, TypeOK
    <2>2. audit' \in [Actions -> Seq(Events)]
      BY <1>4, AuditGrows DEF SafetyInv
    <2> QED
      BY <2>1, <2>2 DEF SafetyInv, TypeOK
  <1>6. /\ rows'[a].status = to
        /\ rows'[a].version = read.version + 1
        /\ \A b \in Actions \ {a} : rows'[b] = rows[b]
    BY <1>1, <1>4 DEF SafetyInv, TypeOK, Became, Row
  <1>7. ASSUME NEW b \in Actions PROVE RowSound(b)'
    <2>1. CASE b = a
      <3>1. audit'[a] = Trail(rows'[a].status)
        BY <1>1, <1>4, <1>6 DEF SafetyInv, TypeOK, RowSound
      <3>2. /\ effects'[a] <= 1
            /\ to = "CANCELLED" => effects'[a] = 0
            /\ to = "SUCCEEDED" /\ HasEffect(a) => effects'[a] = 1
        BY <1>1 DEF RowSound, Claimant, Claiming
      <3>3. /\ to = "PROPOSED" => rows'[a].version = 1
            /\ to = "EXECUTING" => rows'[a].version = 2
        BY <1>1, <1>6 DEF RowSound
      <3> QED
        BY <2>1, <1>6, <3>1, <3>2, <3>3 DEF RowSound, HasEffect
    <2>2. CASE b # a
      <3>1. audit'[b] = audit[b] /\ rows'[b] = rows[b]
        BY <1>4, <1>6, <2>2 DEF SafetyInv, TypeOK
      <3> QED
        BY <3>1 DEF SafetyInv, RowSound, HasEffect
    <2> QED
      BY <2>1, <2>2
  <1>8. Alone'
    <2>1. ASSUME NEW q \in Procs, Claiming(proc[q]), proc[q].action = a
          PROVE  from # "PROPOSED"
      BY <2>1 DEF SafetyInv, Claimant, Claiming
    <2> QED
      BY <2>1 DEF SafetyInv, TypeOK, Alone, Claiming
  <1>9. ASSUME NEW q \in Procs PROVE Claimant(q)'
    <2>1. CASE q = p
      <3>1. proc'[q] = l
        BY <2>1 DEF SafetyInv, TypeOK
      <3>2. l.pc = "execute" => effects'[a] = 0 /\ rows'[a].status = "EXECUTING"
        BY <1>1, <1>6 DEF RowSound, Claiming
      <3>3. l.pc # "complete"
        BY DEF Claiming
      <3>4. l.pc = "fail" => rows'[a].status = "SUCCEEDED" /\ l.action = a
        BY <1>6 DEF Claiming
      <3>5. l.pc = "execute" => l.action = a
        BY DEF Claiming
      <3> QED
        BY <3>1, <3>2, <3>3, <3>4, <3>5 DEF Claimant
    <2>2. CASE q # p
      <3>1. proc'[q] = proc[q] /\ proc[q] \in Local
        BY <2>2 DEF SafetyInv, TypeOK
      <3>2. Claiming(proc[q]) => proc[q].action # a
        BY <2>2 DEF SafetyInv, Claimant, Claiming, Alone
      <3>3. Claiming(proc[q]) => rows'[proc[q].action] = rows[proc[q].action]
        BY <3>1, <3>2, <1>6 DEF Local
      <3> QED
        BY <3>1, <3>3 DEF SafetyInv, Claimant, Claiming, HasEffect
    <2> QED
      BY <2>1, <2>2
  <1> QED
    BY <1>5, <1>7, <1>8, <1>9 DEF SafetyInv

-----------------------------------------------------------------------------
(* The steps *)

\* The effect of the action that request p has claimed.
LEMMA EffectStep ==
  ASSUME SafetyInv, NEW p \in Procs, proc[p].pc = "execute",
         TakeEffect(proc[p].action),
         NEW pc \in {"complete", "fail"},
         Goto(p, pc),
         UNCHANGED <<rows, audit, expired, rights>>
  PROVE  SafetyInv'
  <1> DEFINE a == proc[p].action
  <1>1. a \in Actions /\ proc[p] \in Local /\ RowSound(a) /\ Claimant(p)
    BY DEF SafetyInv, TypeOK, Local
  <1>2. rows[a].status = "EXECUTING" /\ effects[a] = 0
    BY <1>1 DEF Claimant
  <1>3. /\ effects' \in [Actions -> Nat]
        /\ \A b \in Actions \ {a} : effects'[b] = effects[b]
        /\ effects'[a] = IF HasEffect(a) THEN 1 ELSE 0
    BY <1>1, <1>2 DEF SafetyInv, TypeOK, TakeEffect
  <1>4. proc' = [proc EXCEPT ![p] = [proc[p] EXCEPT !.pc = pc]]
    BY DEF Goto
  <1>5. [proc[p] EXCEPT !.pc = pc] \in Local
    BY <1>1 DEF Local
  <1>6. state' \in [Resources -> States]
    BY DEF SafetyInv, TypeOK, TakeEffect
  <1>7. TypeOK'
    BY <1>3, <1>4, <1>5, <1>6 DEF SafetyInv, TypeOK
  <1>8. ASSUME NEW b \in Actions PROVE RowSound(b)'
    <2>1. CASE b = a
      BY <1>1, <1>2, <1>3, <2>1 DEF RowSound, HasEffect
    <2>2. CASE b # a
      BY <1>3, <2>2 DEF SafetyInv, RowSound, HasEffect
    <2> QED
      BY <2>1, <2>2
  <1>9. /\ proc'[p].pc = pc /\ proc'[p].action = a
        /\ \A q \in Procs \ {p} : proc'[q] = proc[q]
    BY <1>1, <1>4 DEF SafetyInv, TypeOK, Local
  <1>10. ASSUME NEW q \in Procs PROVE Claimant(q)'
    <2>1. CASE q = p
      BY <1>2, <1>3, <1>9, <2>1 DEF Claimant, HasEffect
    <2>2. CASE q # p
      <3>1. Claiming(proc[q]) => proc[q].action # a /\ proc[q].action \in Actions
        BY <2>2 DEF SafetyInv, TypeOK, Local, Claiming, Alone
      <3>2. Claiming(proc[q]) => effects'[proc[q].action] = effects[proc[q].action]
        BY <3>1, <1>3
      <3> QED
        BY <1>9, <2>2, <3>2 DEF SafetyInv, Claimant, Claiming, HasEffect
    <2> QED
      BY <2>1, <2>2
  <1>11. Alone'
    BY <1>9 DEF SafetyInv, Alone, Claiming
  <1> QED
    BY <1>7, <1>8, <1>10, <1>11 DEF SafetyInv

\* The row of an action is created, with its first event.
LEMMA InsertStep ==
  ASSUME SafetyInv, NEW p \in Procs, Insert(p)
  PROVE  SafetyInv'
  <1> DEFINE a == proc[p].action
             new == [status |-> "PROPOSED", version |-> 1,
                     state |-> proc[p].state, auth |-> proc[p].rights.version]
  <1>1. a \in Actions /\ proc[p] \in Local
    BY DEF SafetyInv, TypeOK, Local
  <1>2. proc' = [proc EXCEPT ![p] = Idle]
    BY DEF Insert, Stop
  <1>3. CASE rows[a].status # "ABSENT"
    <2>1. UNCHANGED <<rows, audit>>
      BY <1>3 DEF Insert, Created
    <2>2. ~ Claiming(Idle)
      BY DEF Claiming, Idle
    <2> QED
      BY <1>2, <2>1, <2>2, IdleLocal, QuietStep DEF Insert
  <1>4. CASE rows[a].status = "ABSENT"
    <2>1. /\ rows' = [rows EXCEPT ![a] = new]
          /\ audit' = [audit EXCEPT ![a] = Append(@, "proposed")]
      BY <1>4 DEF Insert, Created
    <2>2. new \in Row
      BY <1>1 DEF Local, Rights, Row, Statuses
    <2>3. TypeOK'
      <3>1. rows' \in [Actions -> Row]
        BY <2>1, <2>2 DEF SafetyInv, TypeOK
      <3>2. audit' \in [Actions -> Seq(Events)]
        BY <1>1, <2>1, AuditGrows DEF SafetyInv, Events
      <3>3. proc' \in [Procs -> Local]
        BY <1>2, IdleLocal DEF SafetyInv, TypeOK
      <3> QED
        BY <3>1, <3>2, <3>3 DEF SafetyInv, TypeOK, Insert
    <2>4. /\ rows'[a] = new
          /\ audit'[a] = <<"proposed">>
          /\ \A b \in Actions \ {a} : rows'[b] = rows[b] /\ audit'[b] = audit[b]
      <3>1. audit[a] = <<>>
        BY <1>1, <1>4 DEF SafetyInv, RowSound, Trail
      <3>2. audit'[a] = Append(audit[a], "proposed")
        BY <1>1, <2>1 DEF SafetyInv, TypeOK
      <3>3. audit'[a] = <<"proposed">>
        BY <3>1, <3>2
      <3> QED
        BY <1>1, <2>1, <3>3 DEF SafetyInv, TypeOK
    <2>5. effects' = effects
      BY DEF Insert
    <2>6. ASSUME NEW b \in Actions PROVE RowSound(b)'
      <3>1. CASE b = a
        <4>1. effects[a] = 0
          BY <1>1, <1>4 DEF SafetyInv, RowSound
        <4> QED
          BY <2>4, <2>5, <3>1, <4>1 DEF RowSound, Trail
      <3>2. CASE b # a
        BY <2>4, <2>5, <3>2 DEF SafetyInv, RowSound, HasEffect
      <3> QED
        BY <3>1, <3>2
    <2>7. /\ proc'[p] = Idle
          /\ \A q \in Procs \ {p} : proc'[q] = proc[q]
      BY <1>2 DEF SafetyInv, TypeOK
    <2>8. ASSUME NEW q \in Procs PROVE Claimant(q)'
      <3>1. CASE q = p
        BY <2>7, <3>1 DEF Claimant, Idle
      <3>2. CASE q # p
        <4>1. Claiming(proc[q]) => proc[q].action \in Actions \ {a}
          BY <1>4 DEF SafetyInv, TypeOK, Local, Claimant, Claiming
        <4> QED
          BY <2>4, <2>5, <2>7, <3>2, <4>1
             DEF SafetyInv, Claimant, Claiming, HasEffect
      <3> QED
        BY <3>1, <3>2
    <2>9. Alone'
      BY <2>7 DEF SafetyInv, Alone, Claiming, Idle
    <2> QED
      BY <2>3, <2>6, <2>8, <2>9 DEF SafetyInv
  <1> QED
    BY <1>3, <1>4

\* Every step of a request preserves the invariant.
LEMMA HandleSafe ==
  ASSUME SafetyInv, NEW p \in Procs, Handle(p)
  PROVE  SafetyInv'
  <1>1. /\ proc[p] \in Local
        /\ proc[p].action \in Actions
        /\ proc[p].row \in Row
        /\ rows[proc[p].action] \in Row
    BY DEF SafetyInv, TypeOK, Local
  <1>2. \A pc \in {"insert", "resolve", "claim", "fail"} :
          [proc[p] EXCEPT !.pc = pc] \in Local
    BY <1>1 DEF Local
  <1>3. ~ Claiming(Idle)
    BY DEF Claiming, Idle
  <1>4. ASSUME Stop(p),
               UNCHANGED <<rows, audit, effects, expired, state, rights>>
        PROVE  SafetyInv'
    BY <1>3, <1>4, IdleLocal, QuietStep DEF Stop
  <1>5. ASSUME NEW pc \in {"insert", "claim"}, Goto(p, pc),
               UNCHANGED <<rows, audit, effects, expired, state, rights>>
        PROVE  SafetyInv'
    <2>1. ~ Claiming([proc[p] EXCEPT !.pc = pc])
      BY <1>1 DEF Local, Claiming
    <2> QED
      BY <1>2, <1>5, <2>1, QuietStep DEF Goto
  <1>6. ASSUME Claiming(proc[p]), Goto(p, "fail"),
               UNCHANGED <<rows, audit, effects, expired, state, rights>>
        PROVE  SafetyInv'
    <2>1. /\ [proc[p] EXCEPT !.pc = "fail"].action = proc[p].action
          /\ [proc[p] EXCEPT !.pc = "fail"].pc = "fail"
      BY <1>1 DEF Local
    <2> QED
      BY <1>2, <1>6, <2>1, QuietStep DEF Goto
  <1>7. CASE Begin(p)
    <2>1. PICK a \in Actions, op \in Requests, s \in States :
            proc' = [proc EXCEPT ![p] =
              [pc |-> IF op = "propose" THEN "lookup" ELSE "read", op |-> op,
               action |-> a, rights |-> rights[Owner[a]], state |-> s,
               row |-> Absent]]
      BY <1>7 DEF Begin
    <2> DEFINE l == [pc |-> IF op = "propose" THEN "lookup" ELSE "read",
                     op |-> op, action |-> a, rights |-> rights[Owner[a]],
                     state |-> s, row |-> Absent]
    <2>2. Absent \in Row
      BY ActionAssumption DEF Absent, Row, Statuses
    <2>3. rights[Owner[a]] \in Rights
      BY ActionAssumption DEF SafetyInv, TypeOK
    <2>4. l \in Local /\ ~ Claiming(l)
      BY <2>2, <2>3 DEF Local, Claiming
    <2> QED
      BY <1>7, <2>1, <2>4, QuietStep DEF Begin
  <1>8. CASE Lookup(p)
    BY <1>4, <1>5, <1>8 DEF Lookup
  <1>9. CASE Insert(p)
    BY <1>9, InsertStep
  <1>10. CASE ReadProposal(p)
    <2> DEFINE pc == IF proc[p].op = "confirm" THEN "resolve" ELSE "cancel"
               l == [proc[p] EXCEPT !.pc = pc, !.row = rows[proc[p].action]]
    <2>1. l \in Local /\ ~ Claiming(l)
      BY <1>1 DEF Local, Claiming
    <2>2. CASE proc' = [proc EXCEPT ![p] = l]
      BY <1>10, <2>1, <2>2, QuietStep DEF ReadProposal
    <2>3. CASE Stop(p)
      BY <1>4, <1>10, <2>3 DEF ReadProposal
    <2>4. proc' = [proc EXCEPT ![p] = l] \/ Stop(p)
      BY <1>10 DEF ReadProposal
    <2> QED
      BY <2>2, <2>3, <2>4
  <1>11. CASE Resolve(p)
    BY <1>4, <1>5, <1>11 DEF Resolve
  <1>12. CASE Claim(p)
    <2> DEFINE l == [proc[p] EXCEPT !.pc = "execute",
                                    !.row = rows'[proc[p].action]]
    <2>1. Fence(rows[proc[p].action], proc[p].row, "PROPOSED")
      BY <1>12 DEF Claim, ClaimFence
    <2>2. rows'[proc[p].action] \in Row
      <3>1. proc[p].row.version = 1
        BY <1>1, <2>1 DEF SafetyInv, RowSound, Fence
      <3>2. Became(rows[proc[p].action], "EXECUTING", proc[p].row) \in Row
        <4>1. proc[p].row.version + 1 \in 0 .. 3
          BY <3>1
        <4> QED
          BY <1>1, <4>1 DEF Became, Row, Statuses
      <3>3. rows' = [rows EXCEPT ![proc[p].action] =
                       Became(rows[proc[p].action], "EXECUTING", proc[p].row)]
        BY <1>12 DEF Claim, Transition
      <3> QED
        BY <1>1, <3>2, <3>3 DEF SafetyInv, TypeOK
    <2>3. l \in Local /\ l.pc = "execute" /\ l.action = proc[p].action
      BY <1>1, <2>2 DEF Local
    <2>4. ~ Claiming(proc[p])
      BY <1>12 DEF Claim, Claiming
    <2>5. Trail("EXECUTING") = Append(Trail("PROPOSED"), "confirmed")
      BY DEF Trail
    <2>6. proc' = [proc EXCEPT ![p] = l]
      BY <1>12 DEF Claim
    <2>7. /\ Transition(proc[p].action, proc[p].row, "EXECUTING", "confirmed")
          /\ UNCHANGED <<effects, expired, state, rights>>
      BY <1>12 DEF Claim
    <2>8. /\ "PROPOSED" \in Statuses /\ "EXECUTING" \in Statuses
          /\ "confirmed" \in Events
      BY DEF Statuses, Events
    <2>9. /\ rows[proc[p].action].status = "PROPOSED"
          /\ rows[proc[p].action].version = proc[p].row.version
      BY <2>1 DEF Fence
    <2> HIDE DEF l
    <2> QED
      BY <1>1, <2>3, <2>4, <2>5, <2>6, <2>7, <2>8, <2>9, RowStep
  <1>13. CASE ClaimRefused(p)
    BY <1>4, <1>13 DEF ClaimRefused
  <1>14. CASE Execute(p)
    BY <1>14, EffectStep DEF Execute
  <1>15. CASE ExecuteFails(p)
    BY <1>6, <1>15 DEF ExecuteFails, Claiming
  <1>16. CASE ExecuteHalf(p)
    BY <1>16, EffectStep DEF ExecuteHalf
  <1>17. CASE Complete(p)
    <2>1. /\ rows[proc[p].action].status = "EXECUTING"
          /\ rows[proc[p].action].version = proc[p].row.version
          /\ Transition(proc[p].action, proc[p].row, "SUCCEEDED", "completed")
          /\ UNCHANGED <<effects, expired, state, rights>>
          /\ proc[p].pc = "complete"
      BY <1>17 DEF Complete, Fence, SuccessStatus
    <2>2. Trail("SUCCEEDED") = Append(Trail("EXECUTING"), "completed")
      BY DEF Trail
    <2>3. /\ "EXECUTING" \in Statuses /\ "SUCCEEDED" \in Statuses
          /\ "completed" \in Events
      BY DEF Statuses, Events
    <2>4. CASE Stop(p)
      <3>1. proc' = [proc EXCEPT ![p] = Idle]
        BY <2>4 DEF Stop
      <3> QED
        BY <1>1, <1>3, <2>1, <2>2, <2>3, <3>1, IdleLocal, RowStep
    <2>5. CASE Goto(p, "fail")
      <3>1. /\ [proc[p] EXCEPT !.pc = "fail"].action = proc[p].action
            /\ [proc[p] EXCEPT !.pc = "fail"].pc = "fail"
        BY <1>1 DEF Local
      <3> QED
        BY <1>1, <1>2, <2>1, <2>2, <2>3, <2>5, <3>1, RowStep DEF Goto
    <2> QED
      BY <1>17, <2>4, <2>5 DEF Complete
  <1>18. CASE CompleteFails(p)
    BY <1>6, <1>18 DEF CompleteFails, Claiming
  <1>19. CASE Fail(p)
    <2>1. /\ rows[proc[p].action].status = "EXECUTING"
          /\ rows[proc[p].action].version = proc[p].row.version
          /\ Transition(proc[p].action, proc[p].row, "FAILED", "failed")
          /\ UNCHANGED <<effects, expired, state, rights>>
          /\ Stop(p)
          /\ Claiming(proc[p])
      BY <1>19 DEF Fail, FailFence, Fence, Claiming
    <2>2. Trail("FAILED") = Append(Trail("EXECUTING"), "failed")
      BY DEF Trail
    <2>3. /\ "EXECUTING" \in Statuses /\ "FAILED" \in Statuses
          /\ "failed" \in Events
      BY DEF Statuses, Events
    <2> QED
      BY <1>1, <1>3, <2>1, <2>2, <2>3, IdleLocal, RowStep DEF Stop
  <1>20. CASE FailRefused(p)
    BY <1>4, <1>20 DEF FailRefused
  <1>21. CASE Cancel(p)
    <2>1. /\ rows[proc[p].action].status = "PROPOSED"
          /\ rows[proc[p].action].version = proc[p].row.version
          /\ Transition(proc[p].action, proc[p].row, "CANCELLED", "cancelled")
          /\ UNCHANGED <<effects, expired, state, rights>>
          /\ Stop(p)
      BY <1>21 DEF Cancel, CancelFence, Fence
    <2>2. Trail("CANCELLED") = Append(Trail("PROPOSED"), "cancelled")
      BY DEF Trail
    <2>3. /\ "PROPOSED" \in Statuses /\ "CANCELLED" \in Statuses
          /\ "cancelled" \in Events
      BY DEF Statuses, Events
    <2> QED
      BY <1>1, <1>3, <2>1, <2>2, <2>3, IdleLocal, RowStep DEF Stop
  <1>22. CASE CancelRefused(p)
    BY <1>4, <1>22 DEF CancelRefused
  <1>23. CASE Drop(p)
    BY <1>4, <1>23 DEF Drop
  <1> QED
    BY <1>7, <1>8, <1>9, <1>10, <1>11, <1>12, <1>13, <1>14, <1>15, <1>16,
       <1>17, <1>18, <1>19, <1>20, <1>21, <1>22, <1>23 DEF Handle

\* Every step preserves the invariant; what the environment does changes
\* neither rows nor requests.
LEMMA NextSafe == SafetyInv /\ [Next]_vars => SafetyInv'
  <1> SUFFICES ASSUME SafetyInv, [Next]_vars PROVE SafetyInv'
    OBVIOUS
  <1>1. ASSUME NEW p \in Procs, Handle(p) PROVE SafetyInv'
    BY <1>1, HandleSafe
  <1>2. ASSUME UNCHANGED <<rows, audit, effects, proc>>, TypeOK'
        PROVE  SafetyInv'
    BY <1>2 DEF SafetyInv, RowSound, Claimant, Alone, Claiming, HasEffect
  <1>3. ASSUME NEW r \in Resources, ResourceMoves(r) PROVE SafetyInv'
    BY <1>2, <1>3 DEF ResourceMoves, SafetyInv, TypeOK
  <1>4. ASSUME NEW u \in Users, RightsChange(u) PROVE SafetyInv'
    BY <1>2, <1>4 DEF RightsChange, SafetyInv, TypeOK, Rights
  <1>5. ASSUME NEW u \in Users, RightsLapse(u) PROVE SafetyInv'
    BY <1>2, <1>5 DEF RightsLapse, SafetyInv, TypeOK, Rights
  <1>6. ASSUME NEW a \in Actions, Expire(a) PROVE SafetyInv'
    BY <1>2, <1>6 DEF Expire, SafetyInv, TypeOK
  <1>7. CASE UNCHANGED vars
    BY <1>2, <1>7 DEF vars, SafetyInv, TypeOK
  <1> QED
    BY <1>1, <1>3, <1>4, <1>5, <1>6, <1>7 DEF Next

\* Every reachable state satisfies the inductive invariant.
THEOREM Safety == Spec => []SafetyInv
  BY InitSafe, NextSafe, PTL DEF Spec

-----------------------------------------------------------------------------
(* What follows *)

\* Rows and requests are well typed: every status written is one the service
\* reads back, and versions never exceed three.
THEOREM TypeCorrect == Spec => []TypeOK
  <1>1. SafetyInv => TypeOK
    BY DEF SafetyInv
  <1> QED
    BY <1>1, Safety, PTL

\* An action takes effect at most once, however its confirmations interleave
\* (AgentActionService.confirm).
THEOREM AtMostOnce == Spec => []EffectAtMostOnce
  <1>1. SafetyInv => EffectAtMostOnce
    BY DEF SafetyInv, EffectAtMostOnce, RowSound
  <1> QED
    BY <1>1, Safety, PTL

\* An action that is proposed or cancelled has changed nothing, one that
\* succeeded has (confirm, cancelWithAudit, completeWithAudit).
THEOREM OutcomeTruthful == Spec => []OutcomeMatchesEffect
  <1>1. SafetyInv => OutcomeMatchesEffect
    <2> SUFFICES ASSUME SafetyInv, NEW a \in Actions
                 PROVE  /\ effects[a] > 0 =>
                             rows[a].status \in {"EXECUTING", "SUCCEEDED", "FAILED"}
                        /\ rows[a].status = "SUCCEEDED" /\ HasEffect(a) =>
                             effects[a] > 0
      BY DEF OutcomeMatchesEffect
    <2>1. effects[a] \in Nat /\ rows[a].status \in Statuses /\ RowSound(a)
      BY DEF SafetyInv, TypeOK, Row
    <2> QED
      BY <2>1 DEF RowSound, Statuses
  <1> QED
    BY <1>1, Safety, PTL

\* The audit log holds the trail of each row's status, no event missing and
\* none twice (createOrGetWithAudit, transitionWithAudit).
THEOREM AuditTruthful == Spec => []AuditMatchesRow
  <1>1. SafetyInv => AuditMatchesRow
    BY DEF SafetyInv, AuditMatchesRow, RowSound
  <1> QED
    BY <1>1, Safety, PTL

-----------------------------------------------------------------------------
(* The requests implement the contract *)

\* A step leaves the rows and effects alone, creates one row, moves one row
\* along the diagram, or carries one action out.
Moves(a, from, to) ==
  /\ a \in Actions
  /\ rows[a].status = from
  /\ \/ /\ from = "ABSENT" /\ to = "PROPOSED"
     \/ /\ from = "PROPOSED" /\ to \in {"EXECUTING", "CANCELLED"}
     \/ /\ from = "EXECUTING" /\ to = "FAILED"
     \/ /\ from = "EXECUTING" /\ to = "SUCCEEDED"
        /\ HasEffect(a) => effects[a] = 1
  /\ rows'[a].status = to
  /\ \A b \in Actions \ {a} : rows'[b] = rows[b]
  /\ effects' = effects

CarriesOut(a) ==
  /\ a \in Actions
  /\ rows[a].status = "EXECUTING"
  /\ effects[a] = 0
  /\ HasEffect(a)
  /\ effects' = [effects EXCEPT ![a] = 1]
  /\ rows' = rows

Quiet == UNCHANGED <<rows, effects>>

Progress ==
  \/ Quiet
  \/ \E a \in Actions : CarriesOut(a)
  \/ \E a \in Actions, from, to \in Statuses : Moves(a, from, to)

\* A transition by request p moves one row.
LEMMA TransitionMoves ==
  ASSUME SafetyInv, NEW a \in Actions, NEW read \in Row, NEW e \in Events,
         NEW from \in Statuses, NEW to \in Statuses,
         rows[a].status = from,
         Transition(a, read, to, e),
         effects' = effects,
         \/ from = "PROPOSED" /\ to \in {"EXECUTING", "CANCELLED"}
         \/ from = "EXECUTING" /\ to = "FAILED"
         \/ /\ from = "EXECUTING" /\ to = "SUCCEEDED"
            /\ HasEffect(a) => effects[a] = 1
  PROVE  Progress
  <1>1. rows[a] \in Row /\ rows \in [Actions -> Row]
    BY DEF SafetyInv, TypeOK
  <1>2. rows' = [rows EXCEPT ![a] = Became(rows[a], to, read)]
    BY DEF Transition
  <1>3. Became(rows[a], to, read).status = to
    BY <1>1 DEF Became, Row
  <1>4. /\ rows'[a].status = to
        /\ \A b \in Actions \ {a} : rows'[b] = rows[b]
    BY <1>1, <1>2, <1>3
  <1>5. Moves(a, from, to)
    BY <1>4 DEF Moves
  <1> QED
    BY <1>5 DEF Progress

LEMMA EffectProgress ==
  ASSUME SafetyInv, NEW p \in Procs, proc[p].pc = "execute",
         TakeEffect(proc[p].action), rows' = rows
  PROVE  Progress
  <1> DEFINE a == proc[p].action
  <1>1. a \in Actions /\ rows[a].status = "EXECUTING" /\ effects[a] = 0
    BY DEF SafetyInv, TypeOK, Local, Claimant
  <1>2. CASE HasEffect(a)
    <2>1. effects' = [effects EXCEPT ![a] = 1]
      BY <1>1, <1>2 DEF TakeEffect
    <2> QED
      BY <1>1, <1>2, <2>1 DEF CarriesOut, Progress
  <1>3. CASE ~ HasEffect(a)
    BY <1>3 DEF TakeEffect, Quiet, Progress
  <1> QED
    BY <1>2, <1>3

LEMMA NextProgress == SafetyInv /\ [Next]_vars => Progress
  <1> SUFFICES ASSUME SafetyInv, [Next]_vars PROVE Progress
    OBVIOUS
  <1>1. ASSUME NEW p \in Procs, Handle(p) PROVE Progress
    <2>1. /\ proc[p].action \in Actions
          /\ proc[p].row \in Row
          /\ Claimant(p)
      BY DEF SafetyInv, TypeOK, Local
    <2>2. CASE Insert(p)
      <3>1. CASE rows[proc[p].action].status = "ABSENT"
        <4> DEFINE new == [status |-> "PROPOSED", version |-> 1,
                           state |-> proc[p].state,
                           auth |-> proc[p].rights.version]
        <4>1. rows' = [rows EXCEPT ![proc[p].action] = new]
          BY <2>2, <3>1 DEF Insert
        <4>2. /\ rows'[proc[p].action].status = "PROPOSED"
              /\ \A b \in Actions \ {proc[p].action} : rows'[b] = rows[b]
          BY <2>1, <4>1 DEF SafetyInv, TypeOK
        <4>3. Moves(proc[p].action, "ABSENT", "PROPOSED")
          BY <2>1, <2>2, <3>1, <4>2 DEF Insert, Moves
        <4>4. "ABSENT" \in Statuses /\ "PROPOSED" \in Statuses
          BY DEF Statuses
        <4> QED
          BY <2>1, <4>3, <4>4 DEF Progress
      <3>2. CASE rows[proc[p].action].status # "ABSENT"
        BY <2>2, <3>2 DEF Insert, Quiet, Progress
      <3> QED
        BY <3>1, <3>2
    <2>3. CASE Claim(p)
      BY <2>1, <2>3, TransitionMoves
         DEF Claim, ClaimFence, Fence, Statuses, Events
    <2>4. CASE Complete(p)
      <3>1. HasEffect(proc[p].action) => effects[proc[p].action] = 1
        BY <2>1, <2>4 DEF Complete, Claimant
      <3> QED
        BY <2>1, <2>4, <3>1, TransitionMoves
           DEF Complete, Fence, SuccessStatus, Statuses, Events
    <2>5. CASE Fail(p)
      BY <2>1, <2>5, TransitionMoves DEF Fail, FailFence, Fence, Statuses, Events
    <2>6. CASE Cancel(p)
      BY <2>1, <2>6, TransitionMoves
         DEF Cancel, CancelFence, Fence, Statuses, Events
    <2>7. CASE Execute(p) \/ ExecuteHalf(p)
      BY <2>7, EffectProgress DEF Execute, ExecuteHalf
    <2>8. CASE \/ Begin(p) \/ Lookup(p) \/ ReadProposal(p) \/ Resolve(p)
               \/ ClaimRefused(p) \/ ExecuteFails(p) \/ CompleteFails(p)
               \/ FailRefused(p) \/ CancelRefused(p) \/ Drop(p)
      BY <2>8 DEF Begin, Lookup, ReadProposal, Resolve, ClaimRefused,
                  ExecuteFails, CompleteFails, FailRefused, CancelRefused,
                  Drop, Quiet, Progress
    <2> QED
      BY <1>1, <2>2, <2>3, <2>4, <2>5, <2>6, <2>7, <2>8 DEF Handle
  <1>2. CASE UNCHANGED <<rows, effects>>
    BY <1>2 DEF Quiet, Progress
  <1>3. CASE \/ \E r \in Resources : ResourceMoves(r)
             \/ \E u \in Users : RightsChange(u) \/ RightsLapse(u)
             \/ \E a \in Actions : Expire(a)
             \/ UNCHANGED vars
    BY <1>2, <1>3 DEF ResourceMoves, RightsChange, RightsLapse, Expire, vars
  <1> QED
    BY <1>1, <1>3 DEF Next

\* A recorded outcome stays as it is (transitionWithAudit).
THEOREM OutcomeStays == Spec => OutcomeIsFinal
  <1>1. SafetyInv /\ [Next]_vars =>
          [\A a \in Actions : rows[a].status \in Final => rows'[a] = rows[a]]_vars
    <2> SUFFICES ASSUME SafetyInv, [Next]_vars, NEW a \in Actions,
                        rows[a].status \in Final
                 PROVE  rows'[a] = rows[a]
      OBVIOUS
    <2>1. Progress
      BY NextProgress
    <2> QED
      BY <2>1 DEF Progress, Quiet, CarriesOut, Moves, Final
  <1> QED
    BY <1>1, Safety, PTL DEF Spec, OutcomeIsFinal

\* The requests implement the contract: a step of theirs is a step of the
\* contract or changes neither statuses nor effects.
THEOREM Implements == Spec => ImplementsContract
  <1> DEFINE status == [a \in Actions |-> rows[a].status]
  <1>1. Init => Contract!Init
    BY DEF Init, Contract!Init, Absent
  <1>2. SafetyInv /\ [Next]_vars => [Contract!Next]_<<status, effects>>
    <2> SUFFICES ASSUME SafetyInv, [Next]_vars
                 PROVE  [Contract!Next]_<<status, effects>>
      OBVIOUS
    <2>1. Progress
      BY NextProgress
    <2>2. CASE Quiet
      BY <2>2 DEF Quiet
    <2>3. ASSUME NEW a \in Actions, CarriesOut(a) PROVE Contract!Next
      <3>1. Contract!CarryOut(a)
        BY <2>3 DEF CarriesOut, Contract!CarryOut
      <3> QED
        BY <3>1 DEF Contract!Next
    <2>4. ASSUME NEW a \in Actions, NEW from \in Statuses, NEW to \in Statuses,
                 Moves(a, from, to)
          PROVE  Contract!Next
      <3>1. status' = [status EXCEPT ![a] = to]
        BY <2>4 DEF Moves
      <3>2. Contract!Move(a, from, to)
        BY <2>4, <3>1 DEF Moves, Contract!Move
      <3>3. \/ Contract!Propose(a) \/ Contract!Confirm(a) \/ Contract!Cancel(a)
            \/ Contract!Succeed(a) \/ Contract!Fail(a)
        BY <2>4, <3>2 DEF Moves, Contract!Propose, Contract!Confirm,
             Contract!Cancel, Contract!Succeed, Contract!Fail
      <3> QED
        BY <3>3 DEF Contract!Next
    <2> QED
      BY <2>1, <2>2, <2>3, <2>4 DEF Progress
  <1> QED
    BY <1>1, <1>2, Safety, PTL DEF Spec, ImplementsContract, Contract!Spec
=============================================================================
