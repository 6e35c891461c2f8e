--------------------------- MODULE PromptRegistry ---------------------------
(***************************************************************************)
(* The versions of the agent's prompt: administrators create and activate  *)
(* them (createPromptVersion, activatePromptVersion), a rollout puts the   *)
(* canonical one back in force (upsertCanonicalPromptVersions), and every  *)
(* answer asks for the active one (getActivePrompt).                       *)
(*                                                                         *)
(* Each change is a transaction that first deactivates other versions and  *)
(* then activates one, at PostgreSQL's default isolation (see              *)
(* SpecVersions); no constraint of the table says that one is active.      *)
(*                                                                         *)
(* Abstractions: one name.  Contents and checksums are left out: a version *)
(* that exists never changes what it says, but for the rollout, which      *)
(* writes what it says already.                                            *)
(***************************************************************************)
EXTENDS FiniteSets

CONSTANTS
  Admins,       \* requests and rollouts that may be in flight at once
  Prompts,      \* versions that may come to exist
  CanonicalPrompts, \* the versions of the fixtures
  Canonical005  \* the one of them that a rollout activates

ASSUME PromptAssumption ==
  /\ CanonicalPrompts \subseteq Prompts
  /\ Canonical005 \in CanonicalPrompts
  /\ "nobody" \notin Admins

VARIABLES
  prompts,    \* the prompt_versions rows that are committed
  promptLock, \* who has written a row and not yet ended
  admin,      \* local state of every request
  overlapped  \* history: the last change to commit ran beside another one

promptVars == <<prompts, promptLock, admin, overlapped>>

-----------------------------------------------------------------------------
(* Rows and local records *)

PromptStates == {"none", "inactive", "active"}
NoAdmin == "nobody"

\* off: the rows its UPDATE saw, later those it has deactivated.
Admin == [pc : {"idle", "deactivate", "locked", "activate", "commit"},
          kind : {"activate", "create", "add", "rollout"}, target : Prompts,
          off : SUBSET Prompts, alone : BOOLEAN]
NoChange == [pc |-> "idle", kind |-> "add", target |-> Canonical005,
             off |-> {}, alone |-> TRUE]

PromptTypeOK ==
  /\ prompts \in [Prompts -> PromptStates]
  /\ promptLock \in [Prompts -> Admins \cup {NoAdmin}]
  /\ admin \in [Admins -> Admin]
  /\ overlapped \in BOOLEAN

\* The prompts as bootstrap inserts them.
PromptInit ==
  /\ prompts = [p \in Prompts |-> IF p = Canonical005 THEN "active"
                                  ELSE IF p \in CanonicalPrompts THEN "inactive"
                                  ELSE "none"]
  /\ promptLock = [p \in Prompts |-> NoAdmin]
  /\ admin = [a \in Admins |-> NoChange]
  /\ overlapped = FALSE

Stored == {p \in Prompts : prompts[p] # "none"}
Active == {p \in Prompts : prompts[p] = "active"}
Busy(a) == admin[a].pc # "idle"
LockFree(a, p) == promptLock[p] \in {NoAdmin, a}

PromptUnlocked(a) ==
  [p \in Prompts |-> IF promptLock[p] = a THEN NoAdmin ELSE promptLock[p]]

-----------------------------------------------------------------------------
(* The transactions *)

\* A transaction that begins while another is open is not alone, nor is that.
Begin(a, kind, p, pc) ==
  /\ ~Busy(a)
  /\ admin' = [b \in Admins |->
       IF b = a
       THEN [pc |-> pc, kind |-> kind, target |-> p, off |-> {},
             alone |-> \A c \in Admins : ~Busy(c)]
       ELSE [admin[b] EXCEPT !.alone = @ /\ ~Busy(b)]]
  /\ UNCHANGED <<prompts, promptLock, overlapped>>

\* activatePromptVersion: the target is read without a lock.
BeginActivate(a, p) == p \in Stored /\ Begin(a, "activate", p, "deactivate")

\* createPromptVersion, active or not.
BeginCreate(a, p, active) ==
  /\ p \notin Stored
  /\ IF active THEN Begin(a, "create", p, "deactivate")
               ELSE Begin(a, "add", p, "activate")

\* One rollout at a time, by an advisory lock.
BeginRollout(a) ==
  /\ \A b \in Admins : Busy(b) => admin[b].kind # "rollout"
  /\ Begin(a, "rollout", Canonical005, "deactivate")

\* The UPDATE that deactivates starts.  Only an activation looks at which
\* versions are active.
DeactivateSees(a) ==
  /\ admin[a].pc = "deactivate"
  /\ admin' = [admin EXCEPT ![a].pc = "locked",
       ![a].off = IF admin[a].kind = "activate" THEN Active \ {admin[a].target}
                  ELSE Stored]
  /\ UNCHANGED <<prompts, promptLock, overlapped>>

\* It gets the rows it saw when their writers have ended; an activation drops
\* those that have become inactive meanwhile.
DeactivateGets(a) ==
  LET off == admin[a].off \cap IF admin[a].kind = "activate" THEN Active ELSE Stored
  IN  /\ admin[a].pc = "locked"
      /\ \A p \in admin[a].off : LockFree(a, p)
      /\ promptLock' = [p \in Prompts |-> IF p \in off THEN a ELSE promptLock[p]]
      /\ admin' = [admin EXCEPT ![a].pc = "activate", ![a].off = off]
      /\ UNCHANGED <<prompts, overlapped>>

\* Faulty variant: the deactivation is committed before the activation, which
\* is then a transaction of its own.
InTwoSteps(a) ==
  /\ prompts' = [p \in Prompts |->
                   IF p \in admin[a].off THEN "inactive" ELSE prompts[p]]
  /\ promptLock' = [PromptUnlocked(a) EXCEPT ![admin[a].target] = a]

InOneTransaction(a) ==
  /\ promptLock' = [promptLock EXCEPT ![admin[a].target] = a]
  /\ UNCHANGED prompts

\* The UPDATE of the target, or the INSERT of a new version, whose unique name
\* makes it wait for another INSERT of the same.
Activate(a) ==
  /\ admin[a].pc = "activate"
  /\ LockFree(a, admin[a].target)
  /\ admin[a].kind \in {"create", "add"} => admin[a].target \notin Stored
  /\ InOneTransaction(a)
  /\ admin' = [admin EXCEPT ![a].pc = "commit"]
  /\ UNCHANGED overlapped

CommitPrompts(a) ==
  LET target == admin[a].target
  IN  /\ admin[a].pc = "commit"
      /\ prompts' = [p \in Prompts |->
           IF p = target
           THEN IF admin[a].kind = "add" THEN "inactive" ELSE "active"
           ELSE IF p \in admin[a].off THEN "inactive" ELSE prompts[p]]
      /\ promptLock' = PromptUnlocked(a)
      /\ overlapped' = IF admin[a].kind = "add" THEN overlapped
                       ELSE ~admin[a].alone
      /\ admin' = [admin EXCEPT ![a] = NoChange]

\* A statement fails (two transactions that wait for each other are such a
\* case), or the request dies.
RollbackPrompts(a) ==
  /\ Busy(a)
  /\ promptLock' = PromptUnlocked(a)
  /\ admin' = [admin EXCEPT ![a] = NoChange]
  /\ UNCHANGED <<prompts, overlapped>>

-----------------------------------------------------------------------------
(* Specification *)

PromptNext ==
  \E a \in Admins :
    \/ \E p \in Prompts : \/ BeginActivate(a, p)
                          \/ \E active \in BOOLEAN : BeginCreate(a, p, active)
    \/ BeginRollout(a)
    \/ DeactivateSees(a)
    \/ DeactivateGets(a)
    \/ Activate(a)
    \/ CommitPrompts(a)
    \/ RollbackPrompts(a)

PromptSpec == PromptInit /\ [][PromptNext]_promptVars

-----------------------------------------------------------------------------
(* Properties *)

\* Whatever changes overlap, fail or die, getActivePrompt finds a version: none
\* takes the last active one away without committing another; and when the last
\* change had the table for itself there is just one, so that an activation
\* repairs what two overlapping ones left.
PromptInForce ==
  /\ Active # {}
  /\ ~overlapped => Cardinality(Active) = 1
=============================================================================
