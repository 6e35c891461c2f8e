------------------------------ MODULE DemoData ------------------------------
(***************************************************************************)
(* The canonical demo data and what signing in, resetting and rolling out  *)
(* do to it: initializeDatabase behind the readiness cache of each server, *)
(* resetDemoDatabase, rolloutUniversalAgentDataset.                        *)
(*                                                                         *)
(* A sign-in counts the rows of the demo user.  If the counts are not the  *)
(* expected ones it adds what an older seed lacks, or else deletes the     *)
(* demo user's rows and the project's runs and inserts the fixtures.       *)
(* Counting, upgrading and seeding are transactions of their own; servers  *)
(* do not share their caches.                                              *)
(*                                                                         *)
(* Abstractions: of the canonical rows there is whether all are there, the *)
(* portfolio of specifications is not there yet, or one is missing.  work  *)
(* stands for what people made: runs, chats, reviews, uploads, audit.      *)
(***************************************************************************)
EXTENDS Naturals

CONSTANTS
  Servers,    \* server processes, each with a cache
  Requests,   \* sign-ins, resets and rollouts that may be under way at once
  Things,     \* what people may make
  MaxOwn,     \* bound: specifications the demo user publishes as new ones
  MaxResets   \* bound: resets

ASSUME DemoAssumption == MaxOwn \in Nat /\ MaxResets \in Nat /\ Servers # {}

VARIABLES
  canonical, \* the rows of the fixtures
  own,       \* specifications published by the demo user, in mode NEW
  work,      \* things people made that are there
  cache,     \* state of createReadinessCache, by server
  resets,    \* resets committed by each server
  call       \* local state of every request

demoVars == <<canonical, own, work, cache, resets, call>>

-----------------------------------------------------------------------------
(* Counts, caches and requests *)

Canonical == {"complete", "legacy", "damaged"}

\* matchesExpectedCounts: specifications and positions are counted exactly,
\* whoever made them.  matchesAdditiveBaseUpgradeCandidate: or an older seed.
CountsExpected(rows, added) == rows = "complete" /\ added = 0
Upgradable(rows, added) == rows \in {"legacy", "complete"} /\ added = 0

\* entry: there is one that has not expired; seen: the resets of the server at
\* the time its rows were counted.  loading: the generation of the loader in
\* flight; generations start from one, zero is none.
MaxGeneration == 2 * MaxResets + 3
Cache == [generation : 1 .. MaxGeneration, entry : BOOLEAN, seen : Nat,
          loading : 0 .. MaxGeneration]
EmptyCache == [generation |-> 1, entry |-> FALSE, seen |-> 0, loading |-> 0]

Call == [pc : {"idle", "count", "upgrade", "recount", "seed", "assert", "store",
               "reset", "resetEnd", "rollout"},
         server : Servers, generation : 0 .. MaxGeneration, seen : Nat]
NoRequest == [pc |-> "idle", server |-> CHOOSE s \in Servers : TRUE,
              generation |-> 0, seen |-> 0]

DemoTypeOK ==
  /\ canonical \in Canonical
  /\ own \in 0 .. MaxOwn
  /\ work \subseteq Things
  /\ cache \in [Servers -> Cache]
  /\ resets \in [Servers -> Nat]
  /\ call \in [Requests -> Call]

DemoInit ==
  /\ canonical \in Canonical
  /\ own = 0
  /\ work = {}
  /\ cache = [s \in Servers |-> EmptyCache]
  /\ resets = [s \in Servers |-> 0]
  /\ call = [p \in Requests |-> NoRequest]

CallAt(p, pc) == call[p].pc = pc
CallTo(p, pc) == call' = [call EXCEPT ![p].pc = pc]

\* The promise of the loader settles: it is no longer in flight.
Settle(p, entry) ==
  LET s == call[p].server
  IN  cache' = [cache EXCEPT
        ![s].loading = IF @ = call[p].generation THEN 0 ELSE @,
        ![s].entry = @ \/ entry,
        ![s].seen = IF entry THEN call[p].seen ELSE @]

Invalidated(s) ==
  cache' = [cache EXCEPT ![s].generation = @ + 1, ![s].entry = FALSE]

\* deleteUserScopedRows and insertFixtureRows.
Reseeded == canonical' = "complete" /\ own' = 0 /\ work' = {}

-----------------------------------------------------------------------------
(* Signing in *)

\* Without an entry, and unless a loader of this generation is in flight (its
\* promise is then awaited, which changes nothing), the request is the loader.
SignIn(p, s) ==
  /\ CallAt(p, "idle")
  /\ ~cache[s].entry
  /\ cache[s].loading # cache[s].generation
  /\ cache' = [cache EXCEPT ![s].loading = cache[s].generation]
  /\ call' = [call EXCEPT ![p] = [pc |-> "count", server |-> s,
                generation |-> cache[s].generation, seen |-> 0]]
  /\ UNCHANGED <<canonical, own, work, resets>>

CountRows(p) ==
  /\ CallAt(p, "count")
  /\ call' = [call EXCEPT
       ![p].seen = resets[call[p].server],
       ![p].pc = IF CountsExpected(canonical, own) THEN "store"
                 ELSE IF Upgradable(canonical, own) THEN "upgrade"
                 ELSE "seed"]
  /\ UNCHANGED <<canonical, own, work, cache, resets>>

\* upgradeLegacyBaseDataset invalidates the cache under its own loader, whose
\* result will not be kept.
UpgradeRows(p) ==
  /\ CallAt(p, "upgrade")
  /\ canonical' = IF canonical = "legacy" THEN "complete" ELSE canonical
  /\ cache[call[p].server].generation < MaxGeneration
  /\ Invalidated(call[p].server)
  /\ CallTo(p, "recount")
  /\ UNCHANGED <<own, work, resets>>

RecountRows(p) ==
  /\ CallAt(p, "recount")
  /\ call' = [call EXCEPT
       ![p].seen = resets[call[p].server],
       ![p].pc = IF CountsExpected(canonical, own) THEN "store" ELSE "seed"]
  /\ UNCHANGED <<canonical, own, work, cache, resets>>

\* seedDatabaseUncached: one transaction.
SeedRows(p) ==
  /\ CallAt(p, "seed")
  /\ Reseeded
  /\ CallTo(p, "assert")
  /\ UNCHANGED <<cache, resets>>

\* assertSeedCounts.
AssertRows(p) ==
  /\ CallAt(p, "assert")
  /\ IF CountsExpected(canonical, own)
     THEN /\ call' = [call EXCEPT ![p].pc = "store",
                                  ![p].seen = resets[call[p].server]]
          /\ UNCHANGED cache
     ELSE Settle(p, FALSE) /\ call' = [call EXCEPT ![p] = NoRequest]
  /\ UNCHANGED <<canonical, own, work, resets>>

\* Faulty variant: a result is kept whatever happened since the loader started.
AnyGeneration(s, generation) == TRUE

SameGeneration(s, generation) == cache[s].generation = generation

StoreEntry(p) ==
  /\ CallAt(p, "store")
  /\ Settle(p, SameGeneration(call[p].server, call[p].generation))
  /\ call' = [call EXCEPT ![p] = NoRequest]
  /\ UNCHANGED <<canonical, own, work, resets>>

\* Any statement of a loader may fail.
LoaderFails(p) ==
  /\ call[p].pc \in {"count", "upgrade", "recount", "seed", "assert"}
  /\ Settle(p, FALSE)
  /\ call' = [call EXCEPT ![p] = NoRequest]
  /\ UNCHANGED <<canonical, own, work, resets>>

-----------------------------------------------------------------------------
(* Resetting and rolling out *)

\* seedDatabase invalidates the cache before and, whether or not the
\* transaction fails, after it.
StartReset(p, s) ==
  /\ CallAt(p, "idle")
  /\ cache[s].generation < MaxGeneration
  /\ Invalidated(s)
  /\ call' = [call EXCEPT ![p] = [NoRequest EXCEPT !.pc = "reset", !.server = s]]
  /\ UNCHANGED <<canonical, own, work, resets>>

ResetRows(p) ==
  /\ CallAt(p, "reset")
  /\ \/ /\ resets[call[p].server] < MaxResets
        /\ Reseeded
        /\ resets' = [resets EXCEPT ![call[p].server] = @ + 1]
     \/ UNCHANGED <<canonical, own, work, resets>>
  /\ CallTo(p, "resetEnd")
  /\ UNCHANGED cache

EndReset(p) ==
  /\ CallAt(p, "resetEnd")
  /\ cache[call[p].server].generation < MaxGeneration
  /\ Invalidated(call[p].server)
  /\ call' = [call EXCEPT ![p] = NoRequest]
  /\ UNCHANGED <<canonical, own, work, resets>>

\* rolloutUniversalAgentDataset, in a process of its own: it adds what is
\* missing, or refuses, and never seeds.
Rollout ==
  /\ Upgradable(canonical, own)
  /\ canonical' = "complete"
  /\ UNCHANGED <<own, work, cache, resets, call>>

-----------------------------------------------------------------------------
(* What happens meanwhile *)

MakeThing(t) ==
  /\ work' = work \cup {t}
  /\ UNCHANGED <<canonical, own, cache, resets, call>>

\* publishSpecificationImport in mode NEW, by the demo user.
PublishOwn ==
  /\ own < MaxOwn
  /\ own' = own + 1
  /\ UNCHANGED <<canonical, work, cache, resets, call>>

\* A canonical row is lost, or changed by hand.
LoseRow ==
  /\ canonical' = "damaged"
  /\ UNCHANGED <<own, work, cache, resets, call>>

\* Five minutes have passed.
EntryExpires(s) ==
  /\ cache[s].entry
  /\ cache' = [cache EXCEPT ![s].entry = FALSE]
  /\ UNCHANGED <<canonical, own, work, resets, call>>

-----------------------------------------------------------------------------
(* Specification *)

DemoNext ==
  \/ \E p \in Requests, s \in Servers : SignIn(p, s) \/ StartReset(p, s)
  \/ \E p \in Requests : \/ CountRows(p)
                         \/ UpgradeRows(p)
                         \/ RecountRows(p)
                         \/ SeedRows(p)
                         \/ AssertRows(p)
                         \/ StoreEntry(p)
                         \/ LoaderFails(p)
                         \/ ResetRows(p)
                         \/ EndReset(p)
  \/ Rollout
  \/ \E t \in Things : MakeThing(t)
  \/ PublishOwn
  \/ LoseRow
  \/ \E s \in Servers : EntryExpires(s)

DemoSpec == DemoInit /\ [][DemoNext]_demoVars

-----------------------------------------------------------------------------
(* Properties *)

Resetting(s) ==
  \E p \in Requests : call[p].server = s /\ call[p].pc \in {"reset", "resetEnd"}

\* Unless a reset is under way on the server, what its cache holds was counted
\* after its last reset: a loader that started before cannot put back what it
\* counted then (readiness-cache.ts:21: generations ensure that such an
\* operation "cannot repopulate a stale entry").
NoStaleEntry ==
  \A s \in Servers :
    cache[s].entry /\ ~Resetting(s) => cache[s].seen = resets[s]

\* docs/deployment.md:63: a sign-in may restore only an incomplete canonical
\* seed.  So it takes nobody's work away while that is complete, as only a
\* reset may.
SignInSparesWork ==
  [][canonical = "complete" /\ ~(work \subseteq work')
       => \E p \in Requests : CallAt(p, "reset") /\ call'[p].pc = "resetEnd"]_demoVars
=============================================================================
