---------------------------- MODULE RecordProofs ----------------------------
(***************************************************************************)
(* Theorems about records that several requests read and then write: the   *)
(* readiness cache of a server over the demo data (DemoData), the reviews  *)
(* and corrections of results (AnalysisReview), uploaded files (Uploads),  *)
(* the versions of a specification (SpecVersions) and of the agent's       *)
(* prompt (PromptRegistry), the images of a commit that a series of        *)
(* official gate runs is made of (GateSeries), and the record of one such  *)
(* run (GateRun); for every number of requests, records, sources,          *)
(* versions, series and messages, and whatever a document contains.        *)
(***************************************************************************)
EXTENDS DemoData, AnalysisReview, Uploads, SpecVersions, PromptRegistry, GateSeries, GateRun,
        FoldTheorems, FiniteSetTheorems, TLAPS

-----------------------------------------------------------------------------
(* The readiness cache.  NoStaleEntry is not inductive: what a loader that has *)
(* counted is about to store is as old as its generation.                      *)

LoaderPcs == {"count", "upgrade", "recount", "seed", "assert", "store"}

\* A loader is of the cache's generation or an older one; what one of the
\* present generation has counted, it counted after the last reset.
LoaderSound(p) ==
  LET s == call[p].server
  IN  call[p].pc \in LoaderPcs =>
        /\ call[p].generation <= cache[s].generation
        /\ call[p].pc = "store" /\ call[p].generation = cache[s].generation /\ ~Resetting(s)
             => call[p].seen = resets[s]

CacheInv ==
  /\ DemoTypeOK
  /\ NoStaleEntry
  /\ \A p \in Requests : LoaderSound(p)

\* Every cache is empty and no request under way.
LEMMA CacheInit == DemoInit => CacheInv
<1> SUFFICES ASSUME DemoInit PROVE CacheInv
  OBVIOUS
<1>1. MaxResets \in Nat /\ MaxOwn \in Nat /\ MaxGeneration \in Nat /\ 1 \in 1 .. MaxGeneration
      /\ 0 \in 0 .. MaxGeneration
  BY DemoAssumption DEF MaxGeneration
<1>2. EmptyCache \in Cache
  BY <1>1 DEF EmptyCache, Cache
<1>3. NoRequest \in Call
  BY <1>1, DemoAssumption DEF NoRequest, Call
<1>4. DemoTypeOK
  BY <1>1, <1>2, <1>3 DEF DemoInit, DemoTypeOK
<1>5. NoStaleEntry
  BY DEF DemoInit, NoStaleEntry, EmptyCache
<1>6. \A p \in Requests : LoaderSound(p)
  BY DEF DemoInit, LoaderSound, NoRequest, LoaderPcs
<1> QED BY <1>4, <1>5, <1>6 DEF CacheInv

\* What a step may do to a server's cache: leave it, let a loader settle, or
\* invalidate it.
LEMMA SettleMoves ==
  ASSUME DemoTypeOK, NEW p \in Requests, NEW entry \in BOOLEAN, Settle(p, entry)
  PROVE  LET s == call[p].server
         IN  /\ cache' \in [Servers -> Cache]
             /\ cache'[s].generation = cache[s].generation
             /\ cache'[s].entry = (cache[s].entry \/ entry)
             /\ cache'[s].seen = IF entry THEN call[p].seen ELSE cache[s].seen
             /\ \A t \in Servers \ {s} : cache'[t] = cache[t]
<1> DEFINE s == call[p].server
           new == [cache[s] EXCEPT
                     !.loading = IF @ = call[p].generation THEN 0 ELSE @,
                     !.entry = @ \/ entry,
                     !.seen = IF entry THEN call[p].seen ELSE @]
<1>1. /\ s \in Servers /\ cache[s] \in Cache /\ call[p].seen \in Nat
      /\ cache \in [Servers -> Cache] /\ MaxGeneration \in Nat
  BY DemoAssumption DEF DemoTypeOK, Call, MaxGeneration
<1>2. cache' = [cache EXCEPT ![s] = new]
  BY <1>1 DEF Settle
<1>3. /\ new \in Cache /\ new.generation = cache[s].generation
      /\ new.entry = (cache[s].entry \/ entry)
      /\ new.seen = IF entry THEN call[p].seen ELSE cache[s].seen
  <2>1. (IF cache[s].loading = call[p].generation THEN 0 ELSE cache[s].loading)
          \in 0 .. MaxGeneration
    BY <1>1 DEF Cache
  <2> QED BY <1>1, <2>1 DEF Cache
<1>4. /\ cache'[s] = new /\ cache' \in [Servers -> Cache]
      /\ \A t \in Servers \ {s} : cache'[t] = cache[t]
  BY <1>1, <1>2, <1>3
<1> QED BY <1>3, <1>4

\* An invalidated cache has no entry, and every loader is of an older generation.
LEMMA InvalidatedMoves ==
  ASSUME DemoTypeOK, NEW s \in Servers, cache[s].generation < MaxGeneration, Invalidated(s)
  PROVE  /\ cache' \in [Servers -> Cache]
         /\ cache'[s].generation = cache[s].generation + 1
         /\ ~cache'[s].entry
         /\ \A t \in Servers \ {s} : cache'[t] = cache[t]
<1> DEFINE new == [cache[s] EXCEPT !.generation = @ + 1, !.entry = FALSE]
<1>1. /\ cache[s] \in Cache /\ cache \in [Servers -> Cache] /\ MaxGeneration \in Nat
  BY DemoAssumption DEF DemoTypeOK, MaxGeneration
<1>2. cache' = [cache EXCEPT ![s] = new]
  BY <1>1 DEF Invalidated
<1>3. new \in Cache /\ new.generation = cache[s].generation + 1 /\ ~new.entry
  <2>1. cache[s].generation + 1 \in 1 .. MaxGeneration
    BY <1>1 DEF Cache
  <2> QED BY <1>1, <2>1 DEF Cache
<1>4. /\ cache'[s] = new /\ cache' \in [Servers -> Cache]
      /\ \A t \in Servers \ {s} : cache'[t] = cache[t]
  BY <1>1, <1>2, <1>3
<1> QED BY <1>3, <1>4

Others(p) ==
  call' \in [Requests -> Call] /\ \A q \in Requests \ {p} : call'[q] = call[q]

\* A request goes on, and is otherwise what it was.
LEMMA LoaderMoves ==
  ASSUME DemoTypeOK, NEW p \in Requests, NEW pc \in LoaderPcs \cup {"resetEnd"}, CallTo(p, pc)
  PROVE  /\ Others(p) /\ call'[p].pc = pc /\ call'[p].server = call[p].server
         /\ call'[p].generation = call[p].generation /\ call'[p].seen = call[p].seen
<1> DEFINE new == [call[p] EXCEPT !.pc = pc]
<1>1. call[p] \in Call /\ call \in [Requests -> Call]
  BY DEF DemoTypeOK
<1>2. call' = [call EXCEPT ![p] = new]
  BY <1>1 DEF CallTo
<1>3. /\ new \in Call /\ new.pc = pc /\ new.server = call[p].server
      /\ new.generation = call[p].generation /\ new.seen = call[p].seen
  BY <1>1 DEF Call, LoaderPcs
<1>4. call'[p] = new /\ Others(p)
  BY <1>1, <1>2, <1>3 DEF Others
<1> QED BY <1>3, <1>4

\* A request that has counted has seen the resets there have been.
LEMMA CountMoves ==
  ASSUME DemoTypeOK, NEW p \in Requests, NEW pc \in LoaderPcs,
         call' = [call EXCEPT ![p].seen = resets[call[p].server], ![p].pc = pc]
  PROVE  /\ Others(p) /\ call'[p].pc = pc /\ call'[p].server = call[p].server
         /\ call'[p].generation = call[p].generation
         /\ call'[p].seen = resets[call[p].server]
<1> DEFINE new == [call[p] EXCEPT !.seen = resets[call[p].server], !.pc = pc]
<1>1. call[p] \in Call /\ call \in [Requests -> Call] /\ resets \in [Servers -> Nat]
      /\ call[p].server \in Servers
  BY DEF DemoTypeOK, Call
<1>2. call' = [call EXCEPT ![p] = new]
  BY <1>1
<1>3. /\ new \in Call /\ new.pc = pc /\ new.server = call[p].server
      /\ new.generation = call[p].generation /\ new.seen = resets[call[p].server]
  BY <1>1 DEF Call, LoaderPcs
<1>4. call'[p] = new /\ Others(p)
  BY <1>1, <1>2, <1>3 DEF Others
<1> QED BY <1>3, <1>4

\* A request is over.
LEMMA CallEnds ==
  ASSUME DemoTypeOK, NEW p \in Requests, call' = [call EXCEPT ![p] = NoRequest]
  PROVE  Others(p) /\ call'[p] = NoRequest /\ call'[p].pc = "idle"
<1>1. NoRequest \in Call /\ NoRequest.pc = "idle"
  <2>1. MaxGeneration \in Nat /\ 0 \in 0 .. MaxGeneration
    BY DemoAssumption DEF MaxGeneration
  <2> QED BY <2>1, DemoAssumption DEF NoRequest, Call
<1> QED BY <1>1 DEF DemoTypeOK, Others

\* A step of a loader, or one that concerns no request: no reset begins, writes
\* or ends.  An entry is the one there was, or counted since the last reset.
LEMMA LoaderActs ==
  ASSUME CacheInv, NEW p \in Requests, Others(p),
         call[p].pc \notin {"reset", "resetEnd"}, call'[p].pc \notin {"reset", "resetEnd"},
         canonical' \in Canonical, own' \in 0 .. MaxOwn, work' \subseteq Things,
         cache' \in [Servers -> Cache], UNCHANGED resets,
         \A s \in Servers : cache'[s].generation >= cache[s].generation,
         \A s \in Servers : cache'[s].entry =>
            \/ cache[s].entry /\ cache'[s].seen = cache[s].seen
            \/ ~Resetting(s) => cache'[s].seen = resets[s],
         call'[p].pc \in LoaderPcs =>
            /\ call'[p].generation <= cache'[call'[p].server].generation
            /\ call'[p].pc = "store" => call'[p].seen = resets[call'[p].server]
  PROVE  CacheInv'
<1>0. DemoTypeOK /\ NoStaleEntry /\ \A q \in Requests : LoaderSound(q) /\ call[q] \in Call
      /\ MaxGeneration \in Nat
  BY DemoAssumption DEF CacheInv, DemoTypeOK, MaxGeneration
<1>1. DemoTypeOK'
  BY <1>0 DEF DemoTypeOK, Others
<1>2. \A s \in Servers : Resetting(s)' = Resetting(s)
  BY DEF Resetting, Others
<1>3. NoStaleEntry'
  BY <1>0, <1>2 DEF NoStaleEntry
<1>4. LoaderSound(p)'
  BY DEF LoaderSound
<1>5. ASSUME NEW q \in Requests \ {p} PROVE LoaderSound(q)'
  <2> DEFINE s == call[q].server
  <2>1. /\ call'[q] = call[q] /\ s \in Servers /\ call[q].generation \in Nat
        /\ cache[s].generation \in Nat /\ cache'[s].generation \in Nat
    BY <1>0 DEF Others, DemoTypeOK, Call, Cache
  <2>2. call[q].pc \in LoaderPcs =>
          /\ call[q].generation <= cache[s].generation
          /\ call[q].pc = "store" /\ call[q].generation = cache[s].generation /\ ~Resetting(s)
               => call[q].seen = resets[s]
    BY <1>0 DEF LoaderSound
  <2>3. cache'[s].generation >= cache[s].generation /\ Resetting(s)' = Resetting(s)
    BY <1>2, <2>1
  <2>4. call[q].generation <= cache[s].generation => call[q].generation <= cache'[s].generation
    BY <2>1, <2>3
  <2>5. call[q].generation <= cache[s].generation =>
          (call[q].generation = cache'[s].generation
             => call[q].generation = cache[s].generation)
    BY <2>1, <2>3
  <2>6. call[q].pc \in LoaderPcs =>
          /\ call[q].generation <= cache'[s].generation
          /\ call[q].pc = "store" /\ call[q].generation = cache'[s].generation /\ ~Resetting(s)'
               => call[q].seen = resets'[s]
    BY <2>2, <2>3, <2>4, <2>5
  <2>7. call'[q] = call[q]
    BY <2>1
  <2> QED BY <2>6, <2>7 DEF LoaderSound
<1> QED BY <1>1, <1>3, <1>4, <1>5 DEF CacheInv

\* The start, the transaction or the end of a reset on a server.  Before it
\* writes and after it has ended no loader of the generation remains.
LEMMA ResetActs ==
  ASSUME CacheInv, NEW p \in Requests, NEW s \in Servers, Others(p),
         call'[p].pc \notin LoaderPcs,
         call[p].pc \in {"idle", "reset", "resetEnd"},
         call[p].pc # "idle" => call[p].server = s,
         call'[p].pc # "idle" => call'[p].server = s,
         canonical' \in Canonical, own' \in 0 .. MaxOwn, work' \subseteq Things,
         cache' \in [Servers -> Cache], resets' \in [Servers -> Nat],
         \A t \in Servers \ {s} : cache'[t] = cache[t] /\ resets'[t] = resets[t],
         \/ /\ cache'[s].generation = cache[s].generation + 1
            /\ ~cache'[s].entry /\ UNCHANGED resets
         \/ cache' = cache /\ Resetting(s)'
  PROVE  CacheInv'
<1>0. DemoTypeOK /\ NoStaleEntry /\ \A q \in Requests : LoaderSound(q) /\ call[q] \in Call
  BY DEF CacheInv, DemoTypeOK
<1>1. DemoTypeOK'
  BY <1>0 DEF DemoTypeOK, Others
<1>2. \A t \in Servers \ {s} : Resetting(t)' = Resetting(t)
  BY DEF Resetting, Others, LoaderPcs
<1>3. NoStaleEntry'
  <2>1. ASSUME NEW t \in Servers, t # s, cache'[t].entry, ~Resetting(t)'
        PROVE  cache'[t].seen = resets'[t]
    BY <1>0, <1>2, <2>1 DEF NoStaleEntry
  <2>2. ~(cache'[s].entry /\ ~Resetting(s)')
    OBVIOUS
  <2> QED BY <2>1, <2>2 DEF NoStaleEntry
<1>4. LoaderSound(p)'
  BY DEF LoaderSound
<1>5. ASSUME NEW q \in Requests \ {p} PROVE LoaderSound(q)'
  <2> DEFINE t == call[q].server
  <2>1. /\ call'[q] = call[q] /\ t \in Servers /\ call[q].generation \in Nat
        /\ cache[t].generation \in Nat
    BY <1>0 DEF Others, DemoTypeOK, Call, Cache
  <2>2. call[q].pc \in LoaderPcs =>
          /\ call[q].generation <= cache[t].generation
          /\ call[q].pc = "store" /\ call[q].generation = cache[t].generation /\ ~Resetting(t)
               => call[q].seen = resets[t]
    BY <1>0 DEF LoaderSound
  <2>3. CASE t # s
    <3>1. cache'[t] = cache[t] /\ resets'[t] = resets[t] /\ Resetting(t)' = Resetting(t)
      BY <1>2, <2>1, <2>3
    <3> QED BY <2>1, <2>2, <3>1 DEF LoaderSound
  <2>4. CASE t = s /\ cache'[s].generation = cache[s].generation + 1
    <3>1. call[q].pc \in LoaderPcs => call[q].generation < cache'[t].generation
      BY <2>1, <2>2, <2>4
    <3> QED BY <2>1, <2>4, <3>1 DEF LoaderSound
  <2>5. CASE t = s /\ cache' = cache /\ Resetting(s)'
    BY <2>1, <2>2, <2>5 DEF LoaderSound
  <2> QED BY <2>3, <2>4, <2>5
<1> QED BY <1>1, <1>3, <1>4, <1>5 DEF CacheInv

\* Whoever loads, resets or rolls out, an entry that is kept outside a reset was
\* counted after the last one.
LEMMA CacheStep ==
  ASSUME CacheInv, [DemoNext]_demoVars
  PROVE  CacheInv'
<1>0. /\ DemoTypeOK /\ MaxGeneration \in Nat /\ 0 \in 0 .. MaxOwn
      /\ \A p \in Requests : LoaderSound(p) /\ call[p] \in Call /\ call[p].server \in Servers
      /\ \A s \in Servers : cache[s] \in Cache /\ cache[s].generation \in Nat
      /\ canonical \in Canonical /\ own \in 0 .. MaxOwn /\ work \subseteq Things
      /\ cache \in [Servers -> Cache] /\ resets \in [Servers -> Nat]
      /\ NoStaleEntry
  BY DemoAssumption DEF CacheInv, DemoTypeOK, MaxGeneration, Call, Cache
<1>e. cache' = cache =>
        /\ cache' \in [Servers -> Cache]
        /\ \A s \in Servers : cache'[s].generation >= cache[s].generation
        /\ \A s \in Servers : cache'[s].entry => cache[s].entry /\ cache'[s].seen = cache[s].seen
  BY <1>0
<1>r. Reseeded => canonical' \in Canonical /\ own' \in 0 .. MaxOwn /\ work' \subseteq Things
  BY <1>0 DEF Reseeded, Canonical
<1>i. "reset" \notin LoaderPcs /\ "resetEnd" \notin LoaderPcs /\ "idle" \notin LoaderPcs
  BY DEF LoaderPcs
<1>s. ASSUME NEW p \in Requests, NEW entry \in BOOLEAN, Settle(p, entry),
             call' = [call EXCEPT ![p] = NoRequest], call[p].pc \in LoaderPcs,
             UNCHANGED <<canonical, own, work, resets>>,
             entry => call[p].pc = "store" /\ call[p].generation = cache[call[p].server].generation
      PROVE  CacheInv'
  <2> DEFINE s == call[p].server
  <2>1. Others(p) /\ call'[p].pc = "idle"
    BY <1>0, <1>s, CallEnds
  <2>2. /\ cache' \in [Servers -> Cache]
        /\ cache'[s].generation = cache[s].generation
        /\ cache'[s].entry = (cache[s].entry \/ entry)
        /\ cache'[s].seen = IF entry THEN call[p].seen ELSE cache[s].seen
        /\ \A t \in Servers \ {s} : cache'[t] = cache[t]
    BY <1>0, <1>s, SettleMoves
  <2>3. entry => (~Resetting(s) => call[p].seen = resets[s])
    BY <1>0, <1>s DEF LoaderSound
  <2>4. \A t \in Servers : cache'[t].generation >= cache[t].generation
    BY <1>0, <2>2
  <2>5. ASSUME NEW t \in Servers, cache'[t].entry
        PROVE  \/ cache[t].entry /\ cache'[t].seen = cache[t].seen
               \/ ~Resetting(t) => cache'[t].seen = resets[t]
    <3>1. CASE t = s
      BY <2>2, <2>3, <2>5, <3>1
    <3>2. CASE t # s
      BY <2>2, <2>5, <3>2
    <3> QED BY <3>1, <3>2
  <2> QED BY <1>0, <1>i, <1>s, <2>1, <2>2, <2>4, <2>5, LoaderActs
<1>1. ASSUME NEW p \in Requests, NEW s \in Servers, SignIn(p, s) PROVE CacheInv'
  <2> DEFINE mine == [pc |-> "count", server |-> s, generation |-> cache[s].generation,
                      seen |-> 0]
             new == [cache[s] EXCEPT !.loading = cache[s].generation]
  <2>1. /\ cache' = [cache EXCEPT ![s] = new] /\ call' = [call EXCEPT ![p] = mine]
        /\ UNCHANGED <<canonical, own, work, resets>> /\ call[p].pc = "idle"
    BY <1>0, <1>1 DEF SignIn, CallAt
  <2>2. /\ new \in Cache /\ new.generation = cache[s].generation
        /\ new.entry = cache[s].entry /\ new.seen = cache[s].seen
    <3>1. cache[s].generation \in 0 .. MaxGeneration
      BY <1>0 DEF Cache
    <3> QED BY <1>0, <3>1 DEF Cache
  <2>3. mine \in Call
    <3>1. cache[s].generation \in 0 .. MaxGeneration
      BY <1>0 DEF Cache
    <3> QED BY <3>1 DEF Call
  <2>4. Others(p) /\ call'[p] = mine
    BY <1>0, <2>1, <2>3 DEF DemoTypeOK, Others
  <2>5. /\ cache' \in [Servers -> Cache] /\ cache'[s] = new
        /\ \A t \in Servers \ {s} : cache'[t] = cache[t]
    BY <1>0, <2>1, <2>2
  <2>6. /\ \A t \in Servers : cache'[t].generation >= cache[t].generation
        /\ \A t \in Servers : cache'[t].entry => cache[t].entry /\ cache'[t].seen = cache[t].seen
    <3>1. \A t \in Servers : /\ cache'[t].generation = cache[t].generation
                             /\ cache'[t].entry = cache[t].entry
                             /\ cache'[t].seen = cache[t].seen
      <4> HIDE DEF new
      <4> QED BY <2>2, <2>5
    <3> QED BY <1>0, <3>1
  <2>7. /\ call'[p].pc = "count" /\ call'[p].server = s
        /\ call'[p].generation = cache[s].generation
    BY <2>4
  <2>8. call'[p].generation <= cache'[call'[p].server].generation
    <3>1. cache'[s].generation = cache[s].generation
      <4> HIDE DEF new
      <4> QED BY <2>2, <2>5
    <3> QED BY <1>0, <2>7, <3>1
  <2> HIDE DEF mine, new
  <2> QED BY <1>0, <2>1, <2>4, <2>5, <2>6, <2>7, <2>8, LoaderActs
<1>2. ASSUME NEW p \in Requests, NEW s \in Servers, StartReset(p, s) PROVE CacheInv'
  <2> DEFINE mine == [NoRequest EXCEPT !.pc = "reset", !.server = s]
  <2>1. mine \in Call /\ mine.pc = "reset" /\ mine.server = s
    <3>1. NoRequest \in Call
      <4>1. 0 \in 0 .. MaxGeneration
        BY <1>0
      <4> QED BY <4>1, DemoAssumption DEF NoRequest, Call
    <3> QED BY <3>1 DEF Call
  <2>2. Others(p) /\ call'[p] = mine /\ call[p].pc = "idle"
    BY <1>0, <1>2, <2>1 DEF DemoTypeOK, Others, StartReset, CallAt
  <2>3. /\ cache' \in [Servers -> Cache] /\ cache'[s].generation = cache[s].generation + 1
        /\ ~cache'[s].entry /\ \A t \in Servers \ {s} : cache'[t] = cache[t]
        /\ UNCHANGED <<canonical, own, work, resets>>
    BY <1>0, <1>2, InvalidatedMoves DEF StartReset
  <2> HIDE DEF mine
  <2> QED BY <1>0, <1>i, <2>1, <2>2, <2>3, ResetActs
<1>3. ASSUME NEW p \in Requests, CountRows(p) \/ RecountRows(p) PROVE CacheInv'
  <2>1. PICK pc \in LoaderPcs :
          call' = [call EXCEPT ![p].seen = resets[call[p].server], ![p].pc = pc]
    BY <1>3 DEF CountRows, RecountRows, LoaderPcs
  <2>2. /\ Others(p) /\ call'[p].pc = pc /\ call'[p].server = call[p].server
        /\ call'[p].generation = call[p].generation
        /\ call'[p].seen = resets[call[p].server]
    BY <1>0, <2>1, CountMoves
  <2>3. call[p].pc \in {"count", "recount"} /\ UNCHANGED <<canonical, own, work, cache, resets>>
    BY <1>3 DEF CountRows, RecountRows, CallAt
  <2>4. call[p].generation <= cache[call[p].server].generation
    BY <1>0, <2>3 DEF LoaderSound, LoaderPcs
  <2>5. call'[p].pc \notin {"reset", "resetEnd"}
    BY <1>i, <2>2
  <2> QED BY <1>0, <1>e, <2>2, <2>3, <2>4, <2>5, LoaderActs
<1>4. ASSUME NEW p \in Requests, UpgradeRows(p) PROVE CacheInv'
  <2> DEFINE s == call[p].server
  <2>1. /\ Others(p) /\ call'[p].pc = "recount" /\ call'[p].server = s
        /\ call'[p].generation = call[p].generation
    BY <1>0, <1>4, LoaderMoves DEF UpgradeRows, LoaderPcs
  <2>2. /\ cache' \in [Servers -> Cache] /\ cache'[s].generation = cache[s].generation + 1
        /\ ~cache'[s].entry /\ \A t \in Servers \ {s} : cache'[t] = cache[t]
    BY <1>0, <1>4, InvalidatedMoves DEF UpgradeRows
  <2>3. /\ canonical' \in Canonical /\ UNCHANGED <<own, work, resets>> /\ call[p].pc = "upgrade"
    BY <1>0, <1>4 DEF UpgradeRows, Canonical, CallAt
  <2>4. /\ \A t \in Servers : cache'[t].generation >= cache[t].generation
        /\ \A t \in Servers : cache'[t].entry => cache[t].entry /\ cache'[t].seen = cache[t].seen
    BY <1>0, <2>2
  <2>5. call[p].generation <= cache'[s].generation
    <3>1. call[p].generation <= cache[s].generation /\ call[p].generation \in Nat
      BY <1>0, <2>3 DEF LoaderSound, LoaderPcs, Call
    <3> QED BY <1>0, <2>2, <3>1
  <2> QED BY <1>0, <2>1, <2>2, <2>3, <2>4, <2>5, LoaderActs
<1>5. ASSUME NEW p \in Requests, SeedRows(p) PROVE CacheInv'
  <2>1. /\ Others(p) /\ call'[p].pc = "assert" /\ call'[p].server = call[p].server
        /\ call'[p].generation = call[p].generation
    BY <1>0, <1>5, LoaderMoves DEF SeedRows, LoaderPcs
  <2>2. call[p].pc = "seed" /\ UNCHANGED <<cache, resets>> /\ Reseeded
    BY <1>5 DEF SeedRows, CallAt
  <2>3. call[p].generation <= cache[call[p].server].generation
    BY <1>0, <2>2 DEF LoaderSound, LoaderPcs
  <2> QED BY <1>0, <1>e, <1>r, <2>1, <2>2, <2>3, LoaderActs
<1>6. ASSUME NEW p \in Requests, AssertRows(p) PROVE CacheInv'
  <2>0. call[p].pc = "assert" /\ UNCHANGED <<canonical, own, work, resets>>
    BY <1>6 DEF AssertRows, CallAt
  <2>1. CASE Settle(p, FALSE) /\ call' = [call EXCEPT ![p] = NoRequest]
    BY <1>s, <2>0, <2>1 DEF LoaderPcs
  <2>2. CASE /\ call' = [call EXCEPT ![p].pc = "store", ![p].seen = resets[call[p].server]]
             /\ UNCHANGED cache
    <3>0. call' = [call EXCEPT ![p].seen = resets[call[p].server], ![p].pc = "store"]
      <4>1. call[p] \in Call /\ call \in [Requests -> Call]
        BY <1>0 DEF DemoTypeOK
      <4> QED BY <2>2, <4>1 DEF Call
    <3>1. /\ Others(p) /\ call'[p].pc = "store" /\ call'[p].server = call[p].server
          /\ call'[p].generation = call[p].generation
          /\ call'[p].seen = resets[call[p].server]
      BY <1>0, <3>0, CountMoves DEF LoaderPcs
    <3>2. call[p].generation <= cache[call[p].server].generation
      BY <1>0, <2>0 DEF LoaderSound, LoaderPcs
    <3> QED BY <1>0, <1>e, <2>0, <2>2, <3>1, <3>2, LoaderActs
  <2> QED BY <1>6, <2>1, <2>2 DEF AssertRows
<1>7. ASSUME NEW p \in Requests, StoreEntry(p) PROVE CacheInv'
  <2>1. SameGeneration(call[p].server, call[p].generation) \in BOOLEAN
    BY DEF SameGeneration
  <2> QED BY <1>7, <1>s, <2>1 DEF StoreEntry, SameGeneration, CallAt, LoaderPcs
<1>8. ASSUME NEW p \in Requests, LoaderFails(p) PROVE CacheInv'
  BY <1>8, <1>s DEF LoaderFails, LoaderPcs
<1>9. ASSUME NEW p \in Requests, ResetRows(p) PROVE CacheInv'
  <2> DEFINE s == call[p].server
  <2>1. Others(p) /\ call'[p].pc = "resetEnd" /\ call'[p].server = s
    BY <1>0, <1>9, LoaderMoves DEF ResetRows
  <2>2. call[p].pc = "reset" /\ cache' = cache
    BY <1>9 DEF ResetRows, CallAt
  <2>3. /\ canonical' \in Canonical /\ own' \in 0 .. MaxOwn /\ work' \subseteq Things
        /\ resets' \in [Servers -> Nat] /\ \A t \in Servers \ {s} : resets'[t] = resets[t]
    BY <1>0, <1>9, <1>r DEF ResetRows
  <2>4. \E q \in Requests : call'[q].server = s /\ call'[q].pc \in {"reset", "resetEnd"}
    BY <2>1
  <2>5. PICK t \in Servers : t = s
    BY <1>0
  <2>6. Resetting(t)'
    BY <2>4, <2>5 DEF Resetting
  <2> QED BY <1>0, <1>i, <2>1, <2>2, <2>3, <2>5, <2>6, ResetActs
<1>10. ASSUME NEW p \in Requests, EndReset(p) PROVE CacheInv'
  <2> DEFINE s == call[p].server
  <2>1. Others(p) /\ call'[p].pc = "idle"
    BY <1>0, <1>10, CallEnds DEF EndReset
  <2>2. /\ call[p].pc = "resetEnd" /\ UNCHANGED <<canonical, own, work, resets>>
    BY <1>10 DEF EndReset, CallAt
  <2>3. /\ cache' \in [Servers -> Cache] /\ cache'[s].generation = cache[s].generation + 1
        /\ ~cache'[s].entry /\ \A t \in Servers \ {s} : cache'[t] = cache[t]
    BY <1>0, <1>10, InvalidatedMoves DEF EndReset
  <2>4. PICK t \in Servers : t = s
    BY <1>0
  <2> QED BY <1>0, <1>i, <2>1, <2>2, <2>3, <2>4, ResetActs
<1>11. ASSUME UNCHANGED <<resets, call>>,
              canonical' \in Canonical, own' \in 0 .. MaxOwn, work' \subseteq Things,
              cache' \in [Servers -> Cache],
              \A s \in Servers : /\ cache'[s].generation = cache[s].generation
                                 /\ cache'[s].entry => cache[s].entry
                                 /\ cache'[s].seen = cache[s].seen
       PROVE  CacheInv'
  <2>1. \A s \in Servers : Resetting(s)' = Resetting(s)
    BY <1>11 DEF Resetting
  <2>2. DemoTypeOK'
    BY <1>0, <1>11 DEF DemoTypeOK
  <2>3. NoStaleEntry'
    BY <1>0, <1>11, <2>1 DEF NoStaleEntry
  <2>4. \A p \in Requests : LoaderSound(p)'
    BY <1>0, <1>11, <2>1 DEF LoaderSound
  <2> QED BY <2>2, <2>3, <2>4 DEF CacheInv
<1>12. CASE Rollout \/ (\E t \in Things : MakeThing(t)) \/ PublishOwn \/ LoseRow
  <2>1. /\ UNCHANGED <<resets, call, cache>>
        /\ canonical' \in Canonical /\ own' \in 0 .. MaxOwn /\ work' \subseteq Things
    BY <1>0, <1>12, DemoAssumption DEF Rollout, MakeThing, PublishOwn, LoseRow, Canonical
  <2> QED BY <1>0, <1>11, <2>1
<1>13. ASSUME NEW s \in Servers, EntryExpires(s) PROVE CacheInv'
  <2> DEFINE new == [cache[s] EXCEPT !.entry = FALSE]
  <2>1. /\ cache' = [cache EXCEPT ![s] = new]
        /\ UNCHANGED <<canonical, own, work, resets, call>>
    BY <1>0, <1>13 DEF EntryExpires
  <2>2. /\ new \in Cache /\ new.generation = cache[s].generation
        /\ ~new.entry /\ new.seen = cache[s].seen
    BY <1>0 DEF Cache
  <2> HIDE DEF new
  <2>3. /\ cache' \in [Servers -> Cache]
        /\ \A t \in Servers : /\ cache'[t].generation = cache[t].generation
                              /\ cache'[t].entry => cache[t].entry
                              /\ cache'[t].seen = cache[t].seen
    BY <1>0, <2>1, <2>2
  <2> QED BY <1>0, <1>11, <2>1, <2>3
<1>14. CASE UNCHANGED demoVars
  BY <1>0, <1>11, <1>14 DEF demoVars
<1> QED BY <1>1, <1>2, <1>3, <1>4, <1>5, <1>6, <1>7, <1>8, <1>9, <1>10, <1>12, <1>13, <1>14
        DEF DemoNext

\* Unless a reset is under way on its server, a cached readiness was counted
\* after the last one, on every server (createReadinessCache, seedDatabase and
\* ensureDemoReadiness: generations are what decides).
THEOREM EntriesFresh == DemoSpec => []NoStaleEntry
<1>1. CacheInv => NoStaleEntry
  BY DEF CacheInv
<1> QED BY CacheInit, CacheStep, <1>1, PTL DEF DemoSpec

-----------------------------------------------------------------------------
(* Reviews.  A row that the page may insert or reset is one nobody has decided. *)

ReviewsInv ==
  /\ reviews \in [Positions -> Review]
  /\ decisions \in [Positions -> 0 .. MaxDecisions]
  /\ \A i \in Positions :
       reviews[i].status \in {"NONE", "PENDING", "AUTO_CONFIRMED"} <=> decisions[i] = 0

\* At first a review is there only as the page's prototype left it.
LEMMA ReviewsInit == ReviewInit => ReviewsInv
<1> SUFFICES ASSUME ReviewInit PROVE ReviewsInv
  OBVIOUS
<1>1. NoReview \in Review /\ NoReview.status = "NONE"
  BY DEF NoReview, Review
<1>2. /\ [NoReview EXCEPT !.status = "AUTO_CONFIRMED"] \in Review
      /\ [NoReview EXCEPT !.status = "AUTO_CONFIRMED"].status = "AUTO_CONFIRMED"
  BY <1>1 DEF Review
<1>3. ReviewInit!2 /\ ReviewInit!3
  BY DEF ReviewInit
<1>4. \A i \in Positions : reviews[i] \in Review
                           /\ reviews[i].status \in {"NONE", "AUTO_CONFIRMED"}
  BY <1>1, <1>2, <1>3
<1>5. decisions \in [Positions -> 0 .. MaxDecisions] /\ \A i \in Positions : decisions[i] = 0
  BY <1>3, ReviewAssumption
<1> QED BY <1>3, <1>4, <1>5 DEF ReviewsInv

\* The page touches only what nobody has decided; a decision stays one.
LEMMA ReviewsStep ==
  ASSUME ReviewsInv, [ReviewNext]_reviewVars
  PROVE  ReviewsInv'
<1>0. /\ reviews \in [Positions -> Review] /\ decisions \in [Positions -> 0 .. MaxDecisions]
      /\ MaxDecisions \in Nat
  BY ReviewAssumption DEF ReviewsInv
<1>1. ASSUME NEW v \in Pages, InsertReviews(v) PROVE ReviewsInv'
  <2> DEFINE new(i) == [status |-> "PENDING",
                        outcome |-> IF i \in page[v].exact THEN "CONFIRMED_FOR_HUMAN_REVIEW"
                                    ELSE "HUMAN_REVIEW_REQUIRED"]
  <2>1. /\ reviews' = [i \in Positions |->
                         IF reviews[i].status # "NONE" THEN reviews[i] ELSE new(i)]
        /\ decisions' = decisions
    BY <1>1 DEF InsertReviews
  <2>2. \A i \in Positions : new(i) \in Review /\ new(i).status = "PENDING"
    BY DEF Review
  <2> HIDE DEF new
  <2> QED BY <1>0, <2>1, <2>2 DEF ReviewsInv
<1>2. ASSUME NEW v \in Pages, ResetReviews(v) PROVE ReviewsInv'
  <2> DEFINE new == [status |-> "PENDING", outcome |-> "CONFIRMED_FOR_HUMAN_REVIEW"]
  <2>1. /\ reviews' = [i \in Positions |-> IF Automatic(reviews[i]) THEN new ELSE reviews[i]]
        /\ decisions' = decisions
    BY <1>2 DEF ResetReviews
  <2>2. new \in Review /\ new.status = "PENDING"
    BY DEF Review
  <2> HIDE DEF new
  <2> QED BY <1>0, <2>1, <2>2 DEF ReviewsInv, Automatic
<1>3. ASSUME NEW i \in Positions, NEW decision \in Decided, Decide(i, decision) PROVE ReviewsInv'
  <2> DEFINE new == [reviews[i] EXCEPT !.status = decision]
  <2>1. /\ reviews' = [reviews EXCEPT ![i] = new]
        /\ decisions' = [decisions EXCEPT ![i] = decisions[i] + 1]
        /\ decisions[i] < MaxDecisions
    BY <1>0, <1>3 DEF Decide
  <2>2. new \in Review /\ new.status \in Decided
    BY <1>0 DEF Review
  <2>3. decisions[i] + 1 \in 0 .. MaxDecisions /\ decisions[i] + 1 # 0
    BY <1>0, <2>1
  <2> HIDE DEF new
  <2> QED BY <1>0, <2>1, <2>2, <2>3 DEF ReviewsInv, Decided
<1>4. CASE UNCHANGED <<reviews, decisions>>
  BY <1>4 DEF ReviewsInv
<1> QED BY <1>1, <1>2, <1>3, <1>4 DEF ReviewNext, reviewVars, OpenPage, LosePage, ReadResult,
           CorrectResult

\* A review that a person has decided stays decided whatever pages are opened
\* meanwhile, and one nobody has decided is shown as a task (ensureAnalysisReviews,
\* decideAnalysisReview, reviewState).
THEOREM ReviewsStayDecided == ReviewSpec => []DecisionsStay
<1>1. ReviewsInv => DecisionsStay
  BY DEF ReviewsInv, DecisionsStay, TaskStatus, Review, Decided
<1> QED BY ReviewsInit, ReviewsStep, <1>1, PTL DEF ReviewSpec

-----------------------------------------------------------------------------
(* Corrections.  What a request has read is the result as it is, or as it was  *)
(* at an earlier version; it does not repeat what it has read.                 *)

EditorSound(d) ==
  LET i == editor[d].position
      read == editor[d].row
  IN  editor[d].busy =>
        /\ read.version <= results[i].version
        /\ read.version = results[i].version => read = results[i]
        /\ read.version < MaxResultVersion
        /\ ~(read.responsibility = editor[d].to /\ read.state = "RESOLVED")

CorrectionsInv ==
  /\ results \in [Positions -> Result]
  /\ corrected \in [Positions -> Nat]
  /\ editor \in [Editors -> Editor]
  /\ CorrectionsChained
  /\ \A d \in Editors : EditorSound(d)

\* A finished run has results that nobody has corrected.
LEMMA CorrectionsInit == ReviewInit => CorrectionsInv
<1> SUFFICES ASSUME ReviewInit PROVE CorrectionsInv
  OBVIOUS
<1>1. MaxResultVersion \in Nat \ {0} /\ 1 \in 1 .. MaxResultVersion /\ Positions # {}
  BY ReviewAssumption
<1>2. ASSUME NEW r \in MaterializedResults
      PROVE  r \in Result /\ r.version = 1 /\ r.overrides = <<>>
  <2>1. PICK s \in DecisionStates, q \in Parties \cup {"none"}, e \in BOOLEAN, c \in BOOLEAN :
          r = Materialized(s, q, e, c)
    BY <1>2 DEF MaterializedResults
  <2>2. <<>> \in Seq(Correction) /\ (s # "RESOLVED" \/ ~c) \in BOOLEAN
    OBVIOUS
  <2> QED BY <1>1, <2>1, <2>2 DEF Materialized, Result
<1>3. \A i \in Positions : results[i] \in MaterializedResults
  BY DEF ReviewInit
<1>4. results \in [Positions -> Result]
  <2>1. results = [i \in Positions |-> results[i]]
    BY DEF ReviewInit
  <2> QED BY <1>2, <1>3, <2>1
<1>5. corrected \in [Positions -> Nat] /\ \A i \in Positions : corrected[i] = 0
  BY DEF ReviewInit
<1>6. NoResult \in Result
  BY <1>1 DEF NoResult, Result, DecisionStates
<1>7. NotEditing \in Editor
  <2>1. SomePosition \in Positions
    BY <1>1 DEF SomePosition
  <2> QED BY <1>6, <2>1 DEF NotEditing, Editor, Parties
<1>8. editor \in [Editors -> Editor] /\ \A d \in Editors : ~editor[d].busy
  BY <1>7 DEF ReviewInit, NotEditing
<1>9. CorrectionsChained
  BY <1>2, <1>3, <1>5 DEF CorrectionsChained
<1> QED BY <1>4, <1>5, <1>8, <1>9 DEF CorrectionsInv, EditorSound

\* A correction adds one link to the chain of the version it has read.
LEMMA CorrectionsStep ==
  ASSUME CorrectionsInv, [ReviewNext]_reviewVars
  PROVE  CorrectionsInv'
<1>0. /\ results \in [Positions -> Result] /\ corrected \in [Positions -> Nat]
      /\ editor \in [Editors -> Editor] /\ CorrectionsChained
      /\ \A d \in Editors : EditorSound(d) /\ editor[d] \in Editor
      /\ MaxResultVersion \in Nat \ {0} /\ Positions # {}
  BY ReviewAssumption DEF CorrectionsInv
<1>1. ASSUME NEW d \in Editors, NEW i \in Positions, NEW to \in Parties, ReadResult(d, i, to)
      PROVE  CorrectionsInv'
  <2> DEFINE mine == [busy |-> TRUE, position |-> i, to |-> to, row |-> results[i]]
  <2>1. /\ editor' = [editor EXCEPT ![d] = mine] /\ UNCHANGED <<results, corrected>>
        /\ results[i].version < MaxResultVersion
        /\ ~(results[i].responsibility = to /\ results[i].state = "RESOLVED")
    BY <1>1 DEF ReadResult
  <2>2. mine \in Editor
    BY <1>0 DEF Editor
  <2>3. /\ editor' \in [Editors -> Editor] /\ editor'[d] = mine
        /\ \A e \in Editors \ {d} : editor'[e] = editor[e]
    BY <1>0, <2>1, <2>2
  <2>4. results[i].version <= results[i].version
    BY <1>0 DEF Result
  <2>5. EditorSound(d)'
    BY <2>1, <2>3, <2>4 DEF EditorSound
  <2>6. \A e \in Editors \ {d} : EditorSound(e)'
    BY <1>0, <2>1, <2>3 DEF EditorSound
  <2>7. CorrectionsChained'
    BY <1>0, <2>1 DEF CorrectionsChained
  <2> QED BY <1>0, <2>1, <2>3, <2>5, <2>6, <2>7 DEF CorrectionsInv
<1>2. ASSUME NEW d \in Editors, CorrectResult(d) PROVE CorrectionsInv'
  <2>0. PICK i \in Positions : i = editor[d].position
    BY <1>0 DEF Editor
  <2>1. PICK to \in Parties : to = editor[d].to
    BY <1>0 DEF Editor
  <2>2. PICK read \in Result : read = editor[d].row
    BY <1>0 DEF Editor
  <2>3. NotEditing \in Editor /\ ~NotEditing.busy
    <3>1. 1 \in 1 .. MaxResultVersion /\ <<>> \in Seq(Correction)
      BY <1>0
    <3>2. NoResult \in Result
      BY <3>1 DEF NoResult, Result, DecisionStates
    <3>3. SomePosition \in Positions
      BY <1>0 DEF SomePosition
    <3> QED BY <3>2, <3>3 DEF NotEditing, Editor, Parties
  <2>4. /\ editor' \in [Editors -> Editor] /\ ~editor'[d].busy
        /\ \A e \in Editors \ {d} : editor'[e] = editor[e]
    BY <1>0, <1>2, <2>3 DEF CorrectResult
  <2>5. CASE UNCHANGED <<results, corrected>>
    <3>1. CorrectionsChained'
      BY <1>0, <2>5 DEF CorrectionsChained
    <3>2. \A e \in Editors : EditorSound(e)'
      BY <1>0, <2>4, <2>5 DEF EditorSound
    <3> QED BY <1>0, <2>4, <2>5, <3>1, <3>2 DEF CorrectionsInv
  <2>6. CASE ~UNCHANGED <<results, corrected>>
    <3> DEFINE link == [before |-> read.responsibility, after |-> to]
               new == [results[i] EXCEPT !.state = "RESOLVED", !.responsibility = to,
                         !.requiresHumanReview = FALSE,
                         !.overrides = Append(read.overrides, link),
                         !.version = @ + 1]
    <3>1. /\ results' = [results EXCEPT ![i].state = "RESOLVED", ![i].responsibility = to,
                           ![i].requiresHumanReview = FALSE,
                           ![i].overrides = Append(read.overrides, link),
                           ![i].version = @ + 1]
          /\ corrected' = [corrected EXCEPT ![i] = corrected[i] + 1]
          /\ results[i].version = read.version /\ editor[d].busy
      BY <1>2, <2>0, <2>1, <2>2, <2>6 DEF CorrectResult, SameVersion
    <3>2. results' = [results EXCEPT ![i] = new]
      BY <1>0, <3>1
    <3>3. /\ read = results[i] /\ read.version < MaxResultVersion
          /\ ~(read.responsibility = to /\ read.state = "RESOLVED")
      BY <1>0, <2>0, <2>1, <2>2, <3>1 DEF EditorSound
    <3>4. link \in Correction /\ Append(read.overrides, link) \in Seq(Correction)
          /\ read.version + 1 \in 1 .. MaxResultVersion
      <4>1. link \in Correction
        BY DEF Correction, Result
      <4>2. read.overrides \in Seq(Correction) /\ read.version \in 1 .. MaxResultVersion
        BY DEF Result
      <4> QED BY <1>0, <3>3, <4>1, <4>2
    <3>5. /\ new \in Result /\ new.state = "RESOLVED" /\ new.responsibility = to
          /\ new.overrides = Append(read.overrides, link) /\ new.version = read.version + 1
      <4> HIDE DEF link
      <4> QED BY <3>3, <3>4 DEF Result, DecisionStates
    <3>6. /\ results' \in [Positions -> Result] /\ results'[i] = new
          /\ \A j \in Positions \ {i} : results'[j] = results[j]
      <4> HIDE DEF new
      <4> QED BY <1>0, <3>2, <3>5
    <3>7. /\ corrected' \in [Positions -> Nat] /\ corrected'[i] = corrected[i] + 1
          /\ \A j \in Positions \ {i} : corrected'[j] = corrected[j]
      BY <1>0, <3>1
    <3> HIDE DEF new
    <3>8. CorrectionsChained'
      <4> DEFINE chain == read.overrides
                 longer == Append(chain, link)
      <4>1. /\ chain \in Seq(Correction) /\ read.version = Len(chain) + 1
            /\ corrected[i] = Len(chain)
            /\ \A n \in 2 .. Len(chain) :
                 chain[n].before = chain[n - 1].after /\ chain[n].before # chain[n].after
            /\ chain # <<>> => read.state = "RESOLVED"
                               /\ read.responsibility = chain[Len(chain)].after
        BY <1>0, <3>3 DEF CorrectionsChained, Result
      <4>2. link.before = read.responsibility /\ link.after = to
        OBVIOUS
      <4> HIDE DEF link
      <4>3. /\ Len(longer) = Len(chain) + 1 /\ longer[Len(chain) + 1] = link
            /\ \A n \in 1 .. Len(chain) : longer[n] = chain[n]
            /\ longer # <<>> /\ Len(chain) \in Nat
        BY <4>1
      <4>4. ASSUME NEW n \in 2 .. Len(longer)
            PROVE  longer[n].before = longer[n - 1].after /\ longer[n].before # longer[n].after
        <5>1. CASE n <= Len(chain)
          <6>1. n \in 2 .. Len(chain) /\ n \in 1 .. Len(chain) /\ n - 1 \in 1 .. Len(chain)
            BY <4>3, <4>4, <5>1
          <6>2. longer[n] = chain[n] /\ longer[n - 1] = chain[n - 1]
            BY <4>3, <6>1
          <6> HIDE DEF longer
          <6> QED BY <4>1, <6>1, <6>2
        <5>2. CASE n = Len(chain) + 1
          <6>1. Len(chain) \in 1 .. Len(chain) /\ n - 1 = Len(chain) /\ chain # <<>>
            BY <4>1, <4>3, <4>4, <5>2
          <6>2. longer[n] = link /\ longer[n - 1] = chain[Len(chain)]
            BY <4>3, <5>2, <6>1
          <6> HIDE DEF longer
          <6> QED BY <3>3, <4>1, <4>2, <6>1, <6>2
        <5> QED BY <4>3, <4>4, <5>1, <5>2
      <4>5. /\ results'[i].version = Len(longer) + 1 /\ corrected'[i] = Len(longer)
            /\ results'[i].overrides = longer /\ results'[i].state = "RESOLVED"
            /\ results'[i].responsibility = longer[Len(longer)].after
        <5> HIDE DEF longer
        <5>1. results'[i].overrides = longer
          BY <3>5, <3>6 DEF longer
        <5>2. longer[Len(longer)] = link
          BY <4>3
        <5> QED BY <3>5, <3>6, <3>7, <4>1, <4>2, <4>3, <5>1, <5>2
      <4> HIDE DEF longer
      <4>6. ASSUME NEW j \in Positions
            PROVE  LET row == results'[j]
                       links == row.overrides
                   IN  /\ row.version = Len(links) + 1
                       /\ corrected'[j] = Len(links)
                       /\ \A n \in 2 .. Len(links) :
                            links[n].before = links[n - 1].after
                            /\ links[n].before # links[n].after
                       /\ links # <<>> => row.state = "RESOLVED"
                                          /\ row.responsibility = links[Len(links)].after
        <5>1. CASE j = i
          BY <4>4, <4>5, <5>1
        <5>2. CASE j # i
          <6>1. results'[j] = results[j] /\ corrected'[j] = corrected[j]
            BY <3>6, <3>7, <5>2
          <6> QED BY <1>0, <6>1 DEF CorrectionsChained
        <5> QED BY <5>1, <5>2
      <4> QED BY <4>6 DEF CorrectionsChained
    <3>9. ASSUME NEW e \in Editors \ {d} PROVE EditorSound(e)'
      <4>1. PICK j \in Positions : j = editor[e].position
        BY <1>0 DEF Editor
      <4>2. /\ editor'[e] = editor[e] /\ editor[e].row.version \in Nat
            /\ results[j].version \in Nat
        <5>1. editor[e].row \in Result /\ results[j] \in Result
          BY <1>0 DEF Editor
        <5>2. \A r \in Result : r.version \in Nat
          BY <1>0 DEF Result
        <5> QED BY <2>4, <5>1, <5>2
      <4>3. CASE j = i
        <5>1. results'[j].version = results[j].version + 1
          BY <3>3, <3>5, <3>6, <4>3
        <5> QED BY <1>0, <4>1, <4>2, <5>1 DEF EditorSound
      <4>4. CASE j # i
        BY <1>0, <3>6, <4>1, <4>2, <4>4 DEF EditorSound
      <4> QED BY <4>3, <4>4
    <3>10. EditorSound(d)'
      BY <2>4 DEF EditorSound
    <3> QED BY <2>4, <3>6, <3>7, <3>8, <3>9, <3>10 DEF CorrectionsInv
  <2> QED BY <2>5, <2>6
<1>3. CASE UNCHANGED <<results, corrected, editor>>
  BY <1>0, <1>3 DEF CorrectionsInv, CorrectionsChained, EditorSound
<1> QED BY <1>1, <1>2, <1>3 DEF ReviewNext, reviewVars, OpenPage, LosePage, InsertReviews,
           ResetReviews, Decide

\* The corrections of a result are a chain of changes, none of them lost or made
\* of a value that was no longer there; version and audit count them
\* (overrideAnalysisResponsibility: the UPDATE compares the version it has read).
THEOREM CorrectionsLink == ReviewSpec => []CorrectionsChained
<1>1. CorrectionsInv => CorrectionsChained
  BY DEF CorrectionsInv
<1> QED BY CorrectionsInit, CorrectionsStep, <1>1, PTL DEF ReviewSpec

-----------------------------------------------------------------------------
(* Uploaded files                                                              *)

\* A file that was cancelled never becomes a version, and a file becomes one at
\* most once, which is recorded (publishSpecificationImport looks at the row
\* again once it has its lock).
THEOREM CancelledFilesStayOut == UploadSpec => CancelledStaysOut
<1> DEFINE Releases == DOMAIN released = Papers
           Once == \A f \in Papers :
                     released'[f] # released[f] =>
                       /\ paper[f].status # "CANCELLED"
                       /\ released[f] = NoRelease
                       /\ <<"specification.import.created", f>> \in recorded'
<1>1. UploadInit => Releases
  BY DEF UploadInit
<1>2. Releases /\ [UploadNext]_uploadVars => Releases' /\ Once
  <2> SUFFICES ASSUME Releases, [UploadNext]_uploadVars PROVE Releases' /\ Once
    OBVIOUS
  <2>1. ASSUME NEW p \in Loads, Publish(p) PROVE Releases' /\ Once
    <3> DEFINE f == load[p].paper
    <3>1. CASE ~StillParsed(f) \/ released[f] # NoRelease
      BY <2>1, <3>1 DEF Publish
    <3>2. CASE ~(~StillParsed(f) \/ released[f] # NoRelease)
      <4>1. /\ released' = [released EXCEPT ![f] = [target |-> load[p].target,
                                                    rows |-> load[p].rows]]
            /\ recorded' = recorded \cup {<<"specification.import.created", f>>}
            /\ paper[f].status = "PARSED" /\ released[f] = NoRelease
        BY <2>1, <3>2 DEF Publish, Record, StillParsed
      <4> QED BY <4>1
    <3> QED BY <3>1, <3>2
  <2>2. CASE released' = released
    BY <2>2
  <2> QED BY <2>1, <2>2 DEF UploadNext, uploadVars, Save, RecordUpload, Cancel, RecordCancel,
             UploadDies, Upload, AttachPaper, FindToCancel, AskToPublish
<1>3. Once => [Once]_uploadVars
  OBVIOUS
<1> QED BY <1>1, <1>2, <1>3, PTL DEF UploadSpec, CancelledStaysOut

\* A document is of its type, and its order names every field once.
LEMMA DocumentIs ==
  ASSUME NEW doc \in Document
  PROVE  /\ doc.order \in Seq(Fields) /\ DOMAIN doc.order = 1 .. Len(doc.order)
         /\ Len(doc.order) \in Nat
         /\ \A i, j \in DOMAIN doc.order : doc.order[i] = doc.order[j] => i = j
         /\ Len(doc.records) \in Nat /\ DOMAIN doc.records = Numbered(doc)
         /\ doc.stray \in Nat
BY DEF Document, IsInjective, Numbered

LEMMA ReadIs ==
  ASSUME NEW read \in Read
  PROVE  /\ read.row \in [Fields -> Nat] /\ read.rows \in Seq([Fields -> Nat])
         /\ read.rejected \in Nat
         /\ Unread \in Read /\ Blank \in [Fields -> Nat] /\ \A f \in Fields : Blank[f] = 0
BY DEF Read, Unread, Blank

\* What an ended record leaves.
LEMMA AccountedIs ==
  ASSUME NEW read \in Read
  PROVE  /\ Accounted(read) \in Read /\ Accounted(read).row = Blank
         /\ Complete(read.row) => /\ Accounted(read).rows = Append(read.rows, read.row)
                                  /\ Accounted(read).rejected = read.rejected
         /\ ~Complete(read.row) => /\ Accounted(read).rows = read.rows
                                   /\ Accounted(read).rejected = read.rejected + 1
<1>1. /\ read.row \in [Fields -> Nat] /\ read.rows \in Seq([Fields -> Nat])
      /\ read.rejected \in Nat /\ Blank \in [Fields -> Nat]
  BY ReadIs
<1>2. PICK rows \in Seq([Fields -> Nat]), rejected \in Nat :
        /\ rows = (IF Complete(read.row) THEN Append(read.rows, read.row) ELSE read.rows)
        /\ rejected = read.rejected + (IF Complete(read.row) THEN 0 ELSE 1)
  <2>1. CASE Complete(read.row)
    <3>1. Append(read.rows, read.row) \in Seq([Fields -> Nat]) /\ read.rejected + 0 \in Nat
      BY <1>1
    <3> QED
      BY <2>1, <3>1
  <2>2. CASE ~Complete(read.row)
    BY <1>1, <2>2
  <2> QED
    BY <2>1, <2>2
<1>3. Accounted(read) = [row |-> Blank, rows |-> rows, rejected |-> rejected]
  BY <1>2 DEF Accounted
<1>4. Accounted(read) \in Read
  BY <1>1, <1>2, <1>3 DEF Read
<1> QED
  BY <1>1, <1>2, <1>3, <1>4

LEMMA ReadWith ==
  ASSUME NEW read \in Read, NEW n \in Nat, NEW field \in Fields
  PROVE  LET now == [read EXCEPT !.row[field] = n]
         IN  /\ now \in Read /\ now.rows = read.rows /\ now.rejected = read.rejected
             /\ now.row[field] = n /\ \A f \in Fields \ {field} : now.row[f] = read.row[f]
BY DEF Read

LEMMA FieldIsRead ==
  ASSUME NEW doc, NEW n \in Nat, NEW read \in Read, NEW field \in Fields
  PROVE  ReadField(doc, n, read, field) \in Read
<1> DEFINE before == IF field = "code" /\ read.row["code"] # 0 THEN Answered(read) ELSE read
<1>1. before \in Read
  BY AccountedIs DEF Answered
<1>2. [before EXCEPT !.row[field] = n] \in Read
  BY <1>1, ReadWith
<1> QED
  BY <1>2 DEF ReadField

-----------------------------------------------------------------------------
(* The text of a document, field by field and record by record.                *)

\* The fields of the record n.
Fielding(walk, doc, n, read) ==
  /\ walk[0] = read /\ walk[Len(doc.order)] = ReadRecord(doc, n, read)
  /\ \A i \in DOMAIN doc.order : walk[i] = ReadField(doc, n, walk[i - 1], doc.order[i])

LEMMA FieldingPossible ==
  ASSUME NEW doc \in Document, NEW n \in Nat, NEW read \in Read
  PROVE  \E walk : Fielding(walk, doc, n, read)
<1> DEFINE k == Len(doc.order)
           step == [x \in Read \X (1 .. k) |-> ReadField(doc, n, x[1], doc.order[x[2]])]
           it == CHOOSE g : g = [s \in SUBSET DOMAIN doc.order |->
                   IF s = {} THEN read
                   ELSE ReadField(doc, n, g[s \ {Max(s)}], doc.order[Max(s)])]
           walk == [i \in 0 .. k |-> it[1 .. i]]
<1>1. ReadRecord(doc, n, read) = it[DOMAIN doc.order]
  BY DEF ReadRecord, FoldLeft, MapThenFoldSet
<1>2. k \in Nat /\ DOMAIN doc.order = 1 .. k /\ \A i \in 1 .. k : doc.order[i] \in Fields
  BY DocumentIs
<1>3. step \in [Read \X (1 .. k) -> Read]
  <2>1. \A x \in Read \X (1 .. k) : ReadField(doc, n, x[1], doc.order[x[2]]) \in Read
    BY <1>2, FieldIsRead
  <2> QED
    BY <2>1
<1>4. PICK g \in [SUBSET (1 .. k) -> Read] : Folded(g, k, read, step)
  <2> HIDE DEF step, k
  <2> QED BY <1>2, <1>3, FoldPossible
<1>5. ASSUME NEW s \in SUBSET (1 .. k), s # {}
      PROVE  step[<<g[s \ {Max(s)}], Max(s)>>] =
               ReadField(doc, n, g[s \ {Max(s)}], doc.order[Max(s)])
  <2>1. PICK m \in 1 .. k : m = Max(s)
    <3> HIDE DEF k
    <3> QED BY <1>2, <1>5, GreatestIs
  <2>2. PICK w \in Read : w = g[s \ {m}]
    OBVIOUS
  <2> QED BY <2>1, <2>2
<1>6. g = [s \in SUBSET DOMAIN doc.order |->
             IF s = {} THEN read
             ELSE ReadField(doc, n, g[s \ {Max(s)}], doc.order[Max(s)])]
  <2> HIDE DEF step, k
  <2> QED BY <1>2, <1>4, <1>5 DEF Folded
<1>7. it = [s \in SUBSET DOMAIN doc.order |->
             IF s = {} THEN read
             ELSE ReadField(doc, n, it[s \ {Max(s)}], doc.order[Max(s)])]
  BY <1>6
<1> HIDE DEF it
<1>8. walk[0] = read
  BY <1>2, <1>7
<1>9. ASSUME NEW i \in 1 .. k
      PROVE  walk[i] = ReadField(doc, n, walk[i - 1], doc.order[i])
  <2>1. Max(1 .. i) = i /\ (1 .. i) \ {i} = 1 .. (i - 1)
    BY <1>2, GreatestOfFirst
  <2>2. 1 .. i \in SUBSET DOMAIN doc.order /\ 1 .. i # {}
    <3>1. i \in Nat /\ i >= 1 /\ 1 .. i \subseteq 1 .. k /\ 1 \in 1 .. i
      BY <1>2
    <3> QED BY <1>2, <3>1
  <2>3. it[1 .. i] = ReadField(doc, n, it[1 .. (i - 1)], doc.order[i])
    BY <1>7, <2>1, <2>2
  <2>4. walk[i] = it[1 .. i] /\ walk[i - 1] = it[1 .. (i - 1)]
    BY <1>2
  <2> QED BY <2>3, <2>4
<1>10. walk[k] = it[DOMAIN doc.order]
  BY <1>2
<1>11. Fielding(walk, doc, n, read)
  BY <1>1, <1>2, <1>8, <1>9, <1>10 DEF Fielding
<1> QED BY <1>11

\* The records of a labelled text, and the lines of a delimited one.
Labelling(walk, doc) ==
  /\ walk[0] = Unread /\ Labelled(doc) = Answered(walk[Len(doc.records)])
  /\ \A n \in Numbered(doc) : walk[n] = ReadRecord(doc, n, walk[n - 1])
Delimiting(walk, doc) ==
  /\ walk[0] = Unread /\ Delimited(doc) = walk[Len(doc.records)]
  /\ \A n \in Numbered(doc) : walk[n] = ReadDelimited(doc, n, walk[n - 1])

\* A record read is one more step of the same.
LEMMA RecordIsRead ==
  ASSUME NEW doc \in Document, NEW n \in Nat, NEW read \in Read
  PROVE  ReadRecord(doc, n, read) \in Read
<1>1. PICK walk : Fielding(walk, doc, n, read)
  BY FieldingPossible
<1> DEFINE k == Len(doc.order)
           S == {i \in 0 .. k : walk[i] \in Read}
<1>2. k \in Nat /\ DOMAIN doc.order = 1 .. k /\ \A i \in 1 .. k : doc.order[i] \in Fields
  BY DocumentIs
<1>3. 0 \in S
  BY <1>1, <1>2 DEF Fielding
<1>4. ASSUME NEW i \in 1 .. k, i - 1 \in S PROVE i \in S
  <2>1. walk[i] = ReadField(doc, n, walk[i - 1], doc.order[i]) /\ doc.order[i] \in Fields
    BY <1>1, <1>2 DEF Fielding
  <2>2. i \in 0 .. k /\ walk[i - 1] \in Read
    BY <1>2, <1>4
  <2> QED
    BY <2>1, <2>2, FieldIsRead
<1>5. k \in S
  <2> HIDE DEF S, k
  <2>1. 0 .. k \subseteq S
    BY <1>2, <1>3, <1>4, AllAlong
  <2> QED
    BY <1>2, <2>1
<1> QED
  BY <1>1, <1>5 DEF Fielding

LEMMA LineIsRead ==
  ASSUME NEW doc, NEW n \in Nat, NEW read \in Read
  PROVE  /\ RowOf(doc, n) \in [Fields -> Nat]
         /\ ReadDelimited(doc, n, read) \in Read
<1>1. RowOf(doc, n) \in [Fields -> Nat]
  BY DEF RowOf
<1>2. [read EXCEPT !.row = RowOf(doc, n)] \in Read
  BY <1>1 DEF Read
<1>3. Accounted([read EXCEPT !.row = RowOf(doc, n)]) \in Read
  BY <1>2, AccountedIs
<1> QED
  BY <1>1, <1>3 DEF ReadDelimited

LEMMA LabellingPossible ==
  ASSUME NEW doc \in Document
  PROVE  \E walk : Labelling(walk, doc)
<1> DEFINE k == Len(doc.records)
           seq == [i \in DOMAIN doc.records |-> i]
           step == [x \in Read \X (1 .. k) |-> ReadRecord(doc, x[2], x[1])]
           it == CHOOSE g : g = [s \in SUBSET DOMAIN seq |->
                   IF s = {} THEN Unread ELSE ReadRecord(doc, seq[Max(s)], g[s \ {Max(s)}])]
           walk == [i \in 0 .. k |-> it[1 .. i]]
<1>1. Labelled(doc) = Answered(it[DOMAIN seq])
  BY DEF Labelled, FoldLeftDomain, FoldLeft, MapThenFoldSet
<1>2. /\ k \in Nat /\ Numbered(doc) = 1 .. k /\ DOMAIN seq = 1 .. k /\ Unread \in Read
      /\ \A i \in 1 .. k : seq[i] = i /\ i \in Nat
  BY DocumentIs DEF Numbered, Unread, Read, Blank
<1>3. step \in [Read \X (1 .. k) -> Read]
  <2>1. \A x \in Read \X (1 .. k) : ReadRecord(doc, x[2], x[1]) \in Read
    BY <1>2, RecordIsRead
  <2> QED
    BY <2>1
<1>4. PICK g \in [SUBSET (1 .. k) -> Read] : Folded(g, k, Unread, step)
  <2> HIDE DEF step, k
  <2> QED BY <1>2, <1>3, FoldPossible
<1>5. ASSUME NEW s \in SUBSET (1 .. k), s # {}
      PROVE  step[<<g[s \ {Max(s)}], Max(s)>>] = ReadRecord(doc, seq[Max(s)], g[s \ {Max(s)}])
  <2>1. PICK m \in 1 .. k : m = Max(s)
    <3> HIDE DEF k
    <3> QED BY <1>2, <1>5, GreatestIs
  <2>2. PICK w \in Read : w = g[s \ {m}]
    OBVIOUS
  <2>3. step[<<w, m>>] = ReadRecord(doc, m, w) /\ seq[m] = m
    BY <1>2
  <2> QED BY <2>1, <2>2, <2>3
<1> HIDE DEF step, seq
<1>6. g = [s \in SUBSET DOMAIN seq |->
             IF s = {} THEN Unread ELSE ReadRecord(doc, seq[Max(s)], g[s \ {Max(s)}])]
  <2> HIDE DEF k
  <2> QED BY <1>2, <1>4, <1>5 DEF Folded
<1>7. it = [s \in SUBSET DOMAIN seq |->
             IF s = {} THEN Unread ELSE ReadRecord(doc, seq[Max(s)], it[s \ {Max(s)}])]
  BY <1>6
<1> HIDE DEF it
<1>8. walk[0] = Unread
  BY <1>2, <1>7
<1>9. ASSUME NEW i \in 1 .. k
      PROVE  walk[i] = ReadRecord(doc, i, walk[i - 1])
  <2>1. Max(1 .. i) = i /\ (1 .. i) \ {i} = 1 .. (i - 1)
    BY <1>2, GreatestOfFirst
  <2>2. 1 .. i \in SUBSET DOMAIN seq /\ 1 .. i # {} /\ seq[i] = i
    <3>1. i \in Nat /\ i >= 1 /\ 1 .. i \subseteq 1 .. k /\ 1 \in 1 .. i
      BY <1>2
    <3> QED BY <1>2, <3>1
  <2>3. it[1 .. i] = ReadRecord(doc, i, it[1 .. (i - 1)])
    BY <1>7, <2>1, <2>2
  <2>4. walk[i] = it[1 .. i] /\ walk[i - 1] = it[1 .. (i - 1)]
    BY <1>2
  <2> QED BY <2>3, <2>4
<1>10. walk[k] = it[DOMAIN seq]
  BY <1>2
<1>11. Labelling(walk, doc)
  BY <1>1, <1>2, <1>8, <1>9, <1>10 DEF Labelling
<1> QED BY <1>11

LEMMA DelimitingPossible ==
  ASSUME NEW doc \in Document
  PROVE  \E walk : Delimiting(walk, doc)
<1> DEFINE k == Len(doc.records)
           seq == [i \in DOMAIN doc.records |-> i]
           step == [x \in Read \X (1 .. k) |-> ReadDelimited(doc, x[2], x[1])]
           it == CHOOSE g : g = [s \in SUBSET DOMAIN seq |->
                   IF s = {} THEN Unread ELSE ReadDelimited(doc, seq[Max(s)], g[s \ {Max(s)}])]
           walk == [i \in 0 .. k |-> it[1 .. i]]
<1>1. Delimited(doc) = it[DOMAIN seq]
  BY DEF Delimited, FoldLeftDomain, FoldLeft, MapThenFoldSet
<1>2. /\ k \in Nat /\ Numbered(doc) = 1 .. k /\ DOMAIN seq = 1 .. k /\ Unread \in Read
      /\ \A i \in 1 .. k : seq[i] = i /\ i \in Nat
  BY DocumentIs DEF Numbered, Unread, Read, Blank
<1>3. step \in [Read \X (1 .. k) -> Read]
  <2>1. \A x \in Read \X (1 .. k) : ReadDelimited(doc, x[2], x[1]) \in Read
    BY <1>2, LineIsRead
  <2> QED
    BY <2>1
<1>4. PICK g \in [SUBSET (1 .. k) -> Read] : Folded(g, k, Unread, step)
  <2> HIDE DEF step, k
  <2> QED BY <1>2, <1>3, FoldPossible
<1>5. ASSUME NEW s \in SUBSET (1 .. k), s # {}
      PROVE  step[<<g[s \ {Max(s)}], Max(s)>>] = ReadDelimited(doc, seq[Max(s)], g[s \ {Max(s)}])
  <2>1. PICK m \in 1 .. k : m = Max(s)
    <3> HIDE DEF k
    <3> QED BY <1>2, <1>5, GreatestIs
  <2>2. PICK w \in Read : w = g[s \ {m}]
    OBVIOUS
  <2>3. step[<<w, m>>] = ReadDelimited(doc, m, w) /\ seq[m] = m
    BY <1>2
  <2> QED BY <2>1, <2>2, <2>3
<1> HIDE DEF step, seq
<1>6. g = [s \in SUBSET DOMAIN seq |->
             IF s = {} THEN Unread ELSE ReadDelimited(doc, seq[Max(s)], g[s \ {Max(s)}])]
  <2> HIDE DEF k
  <2> QED BY <1>2, <1>4, <1>5 DEF Folded
<1>7. it = [s \in SUBSET DOMAIN seq |->
             IF s = {} THEN Unread ELSE ReadDelimited(doc, seq[Max(s)], it[s \ {Max(s)}])]
  BY <1>6
<1> HIDE DEF it
<1>8. walk[0] = Unread
  BY <1>2, <1>7
<1>9. ASSUME NEW i \in 1 .. k
      PROVE  walk[i] = ReadDelimited(doc, i, walk[i - 1])
  <2>1. Max(1 .. i) = i /\ (1 .. i) \ {i} = 1 .. (i - 1)
    BY <1>2, GreatestOfFirst
  <2>2. 1 .. i \in SUBSET DOMAIN seq /\ 1 .. i # {} /\ seq[i] = i
    <3>1. i \in Nat /\ i >= 1 /\ 1 .. i \subseteq 1 .. k /\ 1 \in 1 .. i
      BY <1>2
    <3> QED BY <1>2, <3>1
  <2>3. it[1 .. i] = ReadDelimited(doc, i, it[1 .. (i - 1)])
    BY <1>7, <2>1, <2>2
  <2>4. walk[i] = it[1 .. i] /\ walk[i - 1] = it[1 .. (i - 1)]
    BY <1>2
  <2> QED BY <2>3, <2>4
<1>10. walk[k] = it[DOMAIN seq]
  BY <1>2
<1>11. Delimiting(walk, doc)
  BY <1>1, <1>2, <1>8, <1>9, <1>10 DEF Delimiting
<1> QED BY <1>11

-----------------------------------------------------------------------------
(* A labelled text whose records all have a code.  The fields that are written *)
(* before the code end up in the record before: they are missed by the last.   *)

\* The fields of a row that are not written before its code.
Late(doc) ==
  {f \in Required : \A i, j \in DOMAIN doc.order :
                      i < j /\ doc.order[i] = f => doc.order[j] # "code"}

\* The last code that was read is that of the record n; as long as no record was
\* rejected, those before it are rows.
Holding(read, n, late) ==
  /\ read \in Read /\ read.row["code"] = n
  /\ \A f \in late : read.row[f] \in {0, n}
  /\ read.rejected = 0 =>
       /\ Len(read.rows) = (IF n = 0 THEN 0 ELSE n - 1)
       /\ \A k \in DOMAIN read.rows, f \in late : read.rows[k][f] = k

\* And nothing of the next record has been read.
Started(read, n, late) ==
  /\ Holding(read, n, late)
  /\ n >= 2 => \A f \in Required \ late : read.row[f] = 0
  /\ n <= 1 => \A f \in Required : read.row[f] \in {0, 1}

LEMMA UnreadIsStarted ==
  ASSUME NEW late \in SUBSET Required
  PROVE  Started(Unread, 0, late)
BY DEF Started, Holding, Unread, Read, Blank, Required, Fields

LEMMA LateIs ==
  ASSUME NEW doc \in Document
  PROVE  Late(doc) \subseteq Required /\ Required \subseteq Fields /\ "code" \in Late(doc)
<1>1. \A i, j \in DOMAIN doc.order : doc.order[i] = doc.order[j] => i = j
  BY DocumentIs
<1>2. \A i, j \in DOMAIN doc.order : i < j => i # j
  BY DocumentIs
<1> QED
  BY <1>1, <1>2 DEF Late, Required, Fields

\* Reading fields that come before the code of the record n.
Reading(read, n, late) ==
  Holding(read, n - 1, late) /\ (n = 1 => \A f \in Required : read.row[f] \in {0, 1})

LEMMA EarlyFieldKeeps ==
  ASSUME NEW doc, NEW late, late \subseteq Required, NEW n \in Nat, n >= 1, NEW read,
         Reading(read, n, late), NEW field \in Fields \ late, field # "code"
  PROVE  Reading(ReadField(doc, n, read, field), n, late)
<1>1. read \in Read
  BY DEF Reading, Holding
<1>2. CASE <<n, field>> \in doc.missing
  BY <1>2 DEF ReadField
<1>3. CASE <<n, field>> \notin doc.missing
  <2>1. PICK now : now = [read EXCEPT !.row[field] = n]
    OBVIOUS
  <2>2. /\ now \in Read /\ now.rows = read.rows /\ now.rejected = read.rejected
        /\ now.row[field] = n /\ \A f \in Fields \ {field} : now.row[f] = read.row[f]
    BY <1>1, <2>1, ReadWith
  <2>3. ReadField(doc, n, read, field) = now
    BY <1>3, <2>1 DEF ReadField
  <2>4. Holding(now, n - 1, late)
    BY <2>2 DEF Reading, Holding, Required, Fields
  <2>5. n = 1 => \A f \in Required : now.row[f] \in {0, 1}
    BY <2>2 DEF Reading, Required
  <2> QED
    BY <2>3, <2>4, <2>5 DEF Reading
<1> QED
  BY <1>2, <1>3

\* The code ends the record before.
LEMMA CodeStarts ==
  ASSUME NEW doc, NEW late, late \subseteq Required, "code" \in late, NEW n \in Nat, n >= 1,
         NEW read, Reading(read, n, late), <<n, "code">> \notin doc.missing
  PROVE  Started(ReadField(doc, n, read, "code"), n, late)
<1>1. read \in Read /\ "code" \in Fields /\ Required \subseteq Fields
  BY DEF Reading, Holding, Required, Fields
<1>2. /\ read.row["code"] = n - 1
      /\ \A f \in late : read.row[f] \in {0, n - 1}
      /\ read.rejected = 0 =>
           /\ Len(read.rows) = (IF n - 1 = 0 THEN 0 ELSE n - 2)
           /\ \A k \in DOMAIN read.rows, f \in late : read.rows[k][f] = k
      /\ n = 1 => \A f \in Required : read.row[f] \in {0, 1}
  BY DEF Reading, Holding
<1>3. /\ read.row \in [Fields -> Nat] /\ read.rows \in Seq([Fields -> Nat])
      /\ read.rejected \in Nat /\ \A f \in Fields : Blank[f] = 0
  BY <1>1, ReadIs
<1>4. PICK before, now : /\ before = (IF read.row["code"] # 0 THEN Answered(read) ELSE read)
                         /\ now = [before EXCEPT !.row["code"] = n]
  OBVIOUS
<1>5. ReadField(doc, n, read, "code") = now
  BY <1>4 DEF ReadField
<1>6. CASE n = 1
  <2>1. before = read
    BY <1>2, <1>4, <1>6
  <2>2. /\ now \in Read /\ now.rows = read.rows /\ now.rejected = read.rejected
        /\ now.row["code"] = n /\ \A f \in Fields \ {"code"} : now.row[f] = read.row[f]
    BY <1>1, <1>4, <2>1, ReadWith
  <2>3. Holding(now, n, late)
    BY <1>1, <1>2, <1>6, <2>2 DEF Holding
  <2>4. \A f \in Required : now.row[f] \in {0, 1}
    BY <1>1, <1>2, <1>6, <2>2
  <2> QED
    BY <1>5, <1>6, <2>3, <2>4 DEF Started
<1>7. CASE n # 1
  <2>1. read.row["code"] # 0 /\ read.row # Blank
    BY <1>1, <1>2, <1>3, <1>7
  <2>2. before = Accounted(read)
    BY <1>4, <2>1 DEF Answered
  <2>3. /\ before \in Read /\ before.row = Blank
        /\ Complete(read.row) => /\ before.rows = Append(read.rows, read.row)
                                 /\ before.rejected = read.rejected
        /\ ~Complete(read.row) => /\ before.rows = read.rows
                                  /\ before.rejected = read.rejected + 1
    BY <1>1, <2>2, AccountedIs
  <2>4. /\ now \in Read /\ now.rows = before.rows /\ now.rejected = before.rejected
        /\ now.row["code"] = n /\ \A f \in Fields \ {"code"} : now.row[f] = 0
    <3>1. PICK field \in Fields : field = "code"
      BY <1>1
    <3>2. now = [before EXCEPT !.row[field] = n]
      BY <1>4, <3>1
    <3>3. /\ now \in Read /\ now.rows = before.rows /\ now.rejected = before.rejected
          /\ now.row[field] = n /\ \A f \in Fields \ {field} : now.row[f] = before.row[f]
      <4>1. before \in Read
        BY <2>3
      <4> QED
        BY <3>2, <4>1, ReadWith
    <3> QED
      BY <1>3, <2>3, <3>1, <3>3
  <2>5. now.rejected = 0 =>
          /\ Len(now.rows) = n - 1
          /\ \A k \in DOMAIN now.rows, f \in late : now.rows[k][f] = k
    <3> SUFFICES ASSUME now.rejected = 0
                 PROVE  /\ Len(now.rows) = n - 1
                        /\ \A k \in DOMAIN now.rows, f \in late : now.rows[k][f] = k
      OBVIOUS
    <3>1. Complete(read.row) /\ read.rejected = 0 /\ now.rows = Append(read.rows, read.row)
      BY <1>3, <2>3, <2>4
    <3>2. /\ Len(read.rows) = n - 2 /\ DOMAIN read.rows = 1 .. (n - 2)
          /\ \A k \in DOMAIN read.rows, f \in late : read.rows[k][f] = k
      BY <1>2, <1>3, <1>7, <3>1
    <3>3. \A f \in late : read.row[f] = n - 1
      BY <1>2, <3>1 DEF Complete
    <3>4. PICK rows, row : rows = read.rows /\ row = read.row
      OBVIOUS
    <3>5. PICK more : more = Append(rows, row)
      OBVIOUS
    <3>6. /\ Len(more) = n - 1 /\ DOMAIN more = 1 .. (n - 1) /\ more[n - 1] = row
          /\ \A k \in 1 .. (n - 2) : more[k] = rows[k]
      BY <1>3, <1>7, <3>2, <3>4, <3>5
    <3>7. now.rows = more
      BY <3>1, <3>4, <3>5
    <3>8. ASSUME NEW k \in 1 .. (n - 1), NEW f \in late PROVE more[k][f] = k
      <4>1. CASE k = n - 1
        BY <3>3, <3>4, <3>6, <4>1
      <4>2. CASE k # n - 1
        <5>1. k \in 1 .. (n - 2)
          BY <4>2
        <5> QED
          BY <3>2, <3>4, <3>6, <5>1
      <4> QED
        BY <4>1, <4>2
    <3> QED
      BY <3>6, <3>7, <3>8
  <2>6. Holding(now, n, late)
    BY <1>1, <1>7, <2>4, <2>5 DEF Holding
  <2>7. \A f \in Required \ late : now.row[f] = 0
    BY <1>1, <2>4
  <2> QED
    BY <1>5, <1>7, <2>6, <2>7 DEF Started
<1> QED
  BY <1>6, <1>7

\* The fields behind it are those of the same record.
LEMMA LateFieldKeeps ==
  ASSUME NEW doc, NEW late, late \subseteq Required, NEW n \in Nat, n >= 1, NEW read,
         Started(read, n, late), NEW field \in Fields, field \in late \/ field \notin Required,
         field # "code"
  PROVE  Started(ReadField(doc, n, read, field), n, late)
<1>1. read \in Read /\ Required \subseteq Fields
  BY DEF Started, Holding, Required
<1>2. CASE <<n, field>> \in doc.missing
  BY <1>2 DEF ReadField
<1>3. CASE <<n, field>> \notin doc.missing
  <2>1. PICK now : now = [read EXCEPT !.row[field] = n]
    OBVIOUS
  <2>2. /\ now \in Read /\ now.rows = read.rows /\ now.rejected = read.rejected
        /\ now.row[field] = n /\ \A f \in Fields \ {field} : now.row[f] = read.row[f]
    BY <1>1, <2>1, ReadWith
  <2>3. ReadField(doc, n, read, field) = now
    BY <1>3, <2>1 DEF ReadField
  <2>4. Holding(now, n, late)
    BY <1>1, <2>2 DEF Started, Holding, Fields
  <2>5. n >= 2 => \A f \in Required \ late : now.row[f] = 0
    BY <1>1, <2>2 DEF Started
  <2>6. n <= 1 => \A f \in Required : now.row[f] \in {0, 1}
    BY <1>1, <2>2 DEF Started
  <2> QED
    BY <2>3, <2>4, <2>5, <2>6 DEF Started
<1> QED
  BY <1>2, <1>3

\* One record more.
LEMMA RecordStarts ==
  ASSUME NEW doc \in Document, NEW n \in Nat, n >= 1, NEW read,
         Started(read, n - 1, Late(doc)), <<n, "code">> \notin doc.missing,
         NEW c \in DOMAIN doc.order, doc.order[c] = "code"
  PROVE  Started(ReadRecord(doc, n, read), n, Late(doc))
<1>1. PICK late : late = Late(doc)
  OBVIOUS
<1>2. late \subseteq Required /\ Required \subseteq Fields /\ "code" \in late
  BY <1>1, LateIs
<1>3. read \in Read
  BY DEF Started, Holding
<1>4. PICK walk : Fielding(walk, doc, n, read)
  BY <1>3, FieldingPossible
<1> DEFINE k == Len(doc.order)
           S == {i \in 0 .. k : IF i < c THEN Reading(walk[i], n, late)
                                ELSE Started(walk[i], n, late)}
<1>5. /\ k \in Nat /\ DOMAIN doc.order = 1 .. k /\ c \in 1 .. k
      /\ \A i \in 1 .. k : doc.order[i] \in Fields
      /\ \A i, j \in 1 .. k : doc.order[i] = doc.order[j] => i = j
  BY DocumentIs
<1>6. 0 \in S
  <2>1. Reading(read, n, late)
    BY <1>1 DEF Started, Reading
  <2>2. walk[0] = read
    BY <1>4 DEF Fielding
  <2>3. 0 \in 0 .. k /\ 0 < c
    BY <1>5
  <2> QED
    BY <2>1, <2>2, <2>3
<1>7. ASSUME NEW i \in 1 .. k, i - 1 \in S PROVE i \in S
  <2>1. PICK field \in Fields, before \in {walk[i - 1]} : field = doc.order[i]
    BY <1>5
  <2>2. walk[i] = ReadField(doc, n, before, field)
    BY <1>4, <1>5, <2>1 DEF Fielding
  <2>3. i \in 0 .. k /\ i \in Nat /\ c \in Nat
    BY <1>5
  <2>4. IF i - 1 < c THEN Reading(before, n, late) ELSE Started(before, n, late)
    BY <1>7, <2>1
  <2>5. CASE i < c
    <3>1. field # "code"
      BY <1>5, <2>1, <2>5
    <3>2. field \notin late
      BY <1>1, <1>5, <2>1, <2>5 DEF Late
    <3>3. Reading(ReadField(doc, n, before, field), n, late)
      BY <1>2, <2>3, <2>4, <2>5, <3>1, <3>2, EarlyFieldKeeps
    <3> QED
      BY <2>2, <2>3, <2>5, <3>3
  <2>6. CASE i = c
    <3>1. Started(ReadField(doc, n, before, "code"), n, late)
      BY <1>2, <2>3, <2>4, <2>6, CodeStarts
    <3>2. field = "code"
      BY <2>1, <2>6
    <3> QED
      BY <2>2, <2>3, <2>6, <3>1, <3>2
  <2>7. CASE i > c
    <3>1. field # "code"
      BY <1>5, <2>1, <2>7
    <3>2. field \in late \/ field \notin Required
      <4> SUFFICES ASSUME field \in Required, NEW a \in 1 .. k, NEW b \in 1 .. k, a < b,
                          doc.order[a] = field
                   PROVE  doc.order[b] # "code"
        BY <1>1, <1>5 DEF Late
      <4>1. a = i
        BY <1>5, <2>1
      <4>2. b # c
        BY <1>5, <2>7, <4>1
      <4> QED
        BY <1>5, <4>2
    <3>3. Started(before, n, late)
      BY <2>3, <2>4, <2>7
    <3>4. Started(ReadField(doc, n, before, field), n, late)
      BY <1>2, <3>1, <3>2, <3>3, LateFieldKeeps
    <3> QED
      BY <2>2, <2>3, <2>7, <3>4
  <2> QED
    BY <2>3, <2>5, <2>6, <2>7
<1>8. k \in S
  <2> HIDE DEF S, k
  <2>1. 0 .. k \subseteq S
    BY <1>5, <1>6, <1>7, AllAlong
  <2> QED
    BY <1>5, <2>1
<1>9. Started(walk[k], n, late)
  BY <1>5, <1>8
<1> QED
  BY <1>1, <1>4, <1>9 DEF Fielding

\* A record without a code is no row.
Codeless(read) ==
  read \in Read /\ read.rows = <<>> /\ read.row["code"] = 0

LEMMA CodelessKeeps ==
  ASSUME NEW doc \in Document, NEW n \in Nat, NEW read, Codeless(read),
         \A i \in DOMAIN doc.order : doc.order[i] # "code"
  PROVE  Codeless(ReadRecord(doc, n, read))
<1>1. PICK walk : Fielding(walk, doc, n, read)
  BY FieldingPossible DEF Codeless
<1> DEFINE k == Len(doc.order)
           S == {i \in 0 .. k : Codeless(walk[i])}
<1>2. /\ k \in Nat /\ DOMAIN doc.order = 1 .. k
      /\ \A i \in 1 .. k : doc.order[i] \in Fields /\ doc.order[i] # "code"
  BY DocumentIs
<1>3. 0 \in S
  BY <1>1, <1>2 DEF Fielding
<1>4. ASSUME NEW i \in 1 .. k, i - 1 \in S PROVE i \in S
  <2>1. PICK field \in Fields, before \in {walk[i - 1]} : field = doc.order[i]
    BY <1>2
  <2>2. walk[i] = ReadField(doc, n, before, field) /\ field # "code" /\ i \in 0 .. k
    BY <1>1, <1>2, <2>1 DEF Fielding
  <2>3. Codeless(before)
    BY <1>4, <2>1
  <2>4. PICK now : now = [before EXCEPT !.row[field] = n]
    OBVIOUS
  <2>5. Codeless(now)
    <3>1. before \in Read /\ "code" \in Fields
      BY <2>3 DEF Codeless, Fields
    <3>2. /\ now \in Read /\ now.rows = before.rows
          /\ \A f \in Fields \ {field} : now.row[f] = before.row[f]
      BY <2>4, <3>1, ReadWith
    <3> QED
      BY <2>2, <2>3, <3>1, <3>2 DEF Codeless
  <2>6. ReadField(doc, n, before, field) \in {before, now}
    BY <2>2, <2>4 DEF ReadField
  <2> QED
    BY <2>2, <2>3, <2>5, <2>6
<1>5. k \in S
  <2> HIDE DEF S, k
  <2>1. 0 .. k \subseteq S
    BY <1>2, <1>3, <1>4, AllAlong
  <2> QED
    BY <1>2, <2>1
<1> QED
  BY <1>1, <1>5 DEF Fielding

\* Every row is the record of its number.
IsWritten(rows, count) ==
  Len(rows) = count /\ \A n \in DOMAIN rows : \A f \in Required : rows[n][f] = n

\* A labelled text of which no record is rejected is read as it is written.
LEMMA LabelledIsWritten ==
  ASSUME NEW doc \in Document, \A n \in Numbered(doc) : <<n, "code">> \notin doc.missing,
         AllAccepted(Labelled(doc).rows, Labelled(doc).rejected + doc.stray)
  PROVE  Labelled(doc).rows \in Seq([Fields -> Nat]) /\ IsWritten(Labelled(doc).rows, Len(doc.records))
<1>1. PICK walk : Labelling(walk, doc)
  BY LabellingPossible
<1>2. PICK late : late = Late(doc)
  OBVIOUS
<1>3. late \subseteq Required /\ Required \subseteq Fields /\ "code" \in late
  BY <1>2, LateIs
<1>4. PICK count \in Nat :
        count = Len(doc.records) /\ Numbered(doc) = 1 .. count /\ doc.stray \in Nat
  BY DocumentIs DEF Numbered
<1>5. PICK read : read = walk[count]
  OBVIOUS
<1>6. Labelled(doc) = Answered(read) /\ walk[0] = Unread
  BY <1>1, <1>4, <1>5 DEF Labelling
<1>7. CASE \A i \in DOMAIN doc.order : doc.order[i] # "code"
  <2> DEFINE S == {n \in 0 .. count : Codeless(walk[n])}
  <2>1. 0 \in S
    <3>1. Codeless(Unread)
      BY DEF Codeless, Unread, Read, Blank, Fields
    <3> QED
      BY <1>4, <1>6, <3>1
  <2>2. ASSUME NEW n \in 1 .. count, n - 1 \in S PROVE n \in S
    <3>1. walk[n] = ReadRecord(doc, n, walk[n - 1]) /\ n \in Nat /\ n \in 0 .. count
      BY <1>1, <1>4 DEF Labelling
    <3>2. Codeless(walk[n - 1])
      BY <2>2
    <3> QED
      BY <1>7, <3>1, <3>2, CodelessKeeps
  <2>3. count \in S
    <3> HIDE DEF S
    <3>1. 0 .. count \subseteq S
      BY <1>4, <2>1, <2>2, AllAlong
    <3> QED
      BY <1>4, <3>1
  <2>4. Codeless(read)
    BY <1>5, <2>3
  <2>5. ~Complete(read.row) /\ read \in Read /\ read.rows = <<>>
    BY <1>3, <2>4 DEF Codeless, Complete
  <2>6. Accounted(read).rows = <<>>
    BY <2>5, AccountedIs
  <2>7. Labelled(doc).rows = <<>>
    BY <1>6, <2>5, <2>6 DEF Answered
  <2> QED
    BY <2>7 DEF AllAccepted
<1>8. ASSUME NEW c \in DOMAIN doc.order, doc.order[c] = "code"
      PROVE  /\ Labelled(doc).rows \in Seq([Fields -> Nat])
             /\ IsWritten(Labelled(doc).rows, count)
  <2> DEFINE S == {n \in 0 .. count : Started(walk[n], n, late)}
  <2>1. 0 \in S
    <3>1. Started(Unread, 0, late)
      BY <1>3, UnreadIsStarted
    <3> QED
      BY <1>4, <1>6, <3>1
  <2>2. ASSUME NEW n \in 1 .. count, n - 1 \in S PROVE n \in S
    <3>1. /\ walk[n] = ReadRecord(doc, n, walk[n - 1]) /\ n \in Nat /\ n >= 1 /\ n \in 0 .. count
          /\ <<n, "code">> \notin doc.missing
      BY <1>1, <1>4 DEF Labelling
    <3>2. Started(walk[n - 1], n - 1, Late(doc))
      BY <1>2, <2>2
    <3>3. Started(ReadRecord(doc, n, walk[n - 1]), n, Late(doc))
      BY <1>8, <3>1, <3>2, RecordStarts
    <3> QED
      BY <1>2, <3>1, <3>3
  <2>3. count \in S
    <3> HIDE DEF S
    <3>1. 0 .. count \subseteq S
      BY <1>4, <2>1, <2>2, AllAlong
    <3> QED
      BY <1>4, <3>1
  <2>4. Started(read, count, late)
    BY <1>5, <2>3
  <2>5. count # 0
    <3> SUFFICES ASSUME count = 0 PROVE FALSE
      OBVIOUS
    <3>1. Labelled(doc).rows = <<>>
      BY <1>5, <1>6 DEF Answered, Unread
    <3> QED
      BY <3>1 DEF AllAccepted
  <2>6. /\ read \in Read /\ read.row["code"] = count
        /\ \A f \in late : read.row[f] \in {0, count}
        /\ read.rejected = 0 =>
             /\ Len(read.rows) = count - 1
             /\ \A k \in DOMAIN read.rows, f \in late : read.rows[k][f] = k
        /\ count >= 2 => \A f \in Required \ late : read.row[f] = 0
        /\ count <= 1 => \A f \in Required : read.row[f] \in {0, 1}
    BY <2>4, <2>5 DEF Started, Holding
  <2>7. /\ read.row \in [Fields -> Nat] /\ read.rows \in Seq([Fields -> Nat])
        /\ read.rejected \in Nat /\ \A f \in Fields : Blank[f] = 0
    BY <2>6, ReadIs
  <2>8. read.row # Blank
    BY <1>3, <2>5, <2>6, <2>7
  <2>9. Labelled(doc) = Accounted(read)
    BY <1>6, <2>8 DEF Answered
  <2>10. /\ Labelled(doc) \in Read
         /\ Complete(read.row) => /\ Labelled(doc).rows = Append(read.rows, read.row)
                                  /\ Labelled(doc).rejected = read.rejected
         /\ ~Complete(read.row) => Labelled(doc).rejected = read.rejected + 1
    BY <2>6, <2>9, AccountedIs
  <2>11. Labelled(doc).rejected = 0
    <3>1. Labelled(doc).rejected \in Nat
      BY <2>10, ReadIs
    <3> QED
      BY <1>4, <3>1 DEF AllAccepted
  <2>12. Complete(read.row) /\ read.rejected = 0 /\ Labelled(doc).rows = Append(read.rows, read.row)
    BY <2>7, <2>10, <2>11
  <2>13. \A f \in Required : read.row[f] # 0
    BY <2>12 DEF Complete
  <2>14. count >= 2 => late = Required
    BY <1>3, <2>6, <2>13
  <2>15. \A f \in Required : read.row[f] = count
    <3>1. CASE count >= 2
      BY <2>6, <2>13, <2>14, <3>1
    <3>2. CASE count = 1
      BY <2>6, <2>13, <3>2
    <3>3. count = 1 \/ count >= 2
      <4>1. count \in Nat
        OBVIOUS
      <4> QED
        BY <2>5, <4>1
    <3> QED
      BY <3>1, <3>2, <3>3
  <2>16. PICK rows \in Seq([Fields -> Nat]), row \in [Fields -> Nat] : rows = read.rows /\ row = read.row
    BY <2>7
  <2>17. PICK more : more = Append(rows, row)
    OBVIOUS
  <2>18. /\ Len(rows) = count - 1 /\ more \in Seq([Fields -> Nat])
         /\ Len(more) = count /\ DOMAIN more = 1 .. count /\ more[count] = row
         /\ DOMAIN rows = 1 .. (count - 1) /\ \A k \in 1 .. (count - 1) : more[k] = rows[k]
    BY <1>4, <2>5, <2>6, <2>12, <2>16, <2>17
  <2>19. ASSUME NEW k \in 1 .. count, NEW f \in Required PROVE more[k][f] = k
    <3>1. CASE k = count
      BY <2>15, <2>16, <2>18, <3>1
    <3>2. CASE k # count
      <4>1. k \in 1 .. (count - 1) /\ count >= 2
        BY <1>4, <3>2
      <4>2. \A i \in DOMAIN rows, r \in late : rows[i][r] = i
        BY <2>6, <2>12, <2>16
      <4>3. k \in DOMAIN rows /\ f \in late /\ more[k] = rows[k]
        BY <2>14, <2>18, <4>1
      <4> QED
        BY <4>2, <4>3
    <3> QED
      BY <3>1, <3>2
  <2>20. Labelled(doc).rows = more
    BY <2>12, <2>16, <2>17
  <2> QED
    BY <2>18, <2>19, <2>20 DEF IsWritten
<1> QED
  BY <1>4, <1>7, <1>8

\* A delimited text, up to the limit.
LeastOf(a, b) == IF a < b THEN a ELSE b
LinesRead(read, n) ==
  /\ read \in Read
  /\ read.rejected = 0 => IsWritten(read.rows, LeastOf(n, MaxRows))

LEMMA RowIsWritten ==
  ASSUME NEW doc, NEW n \in Nat, Complete(RowOf(doc, n))
  PROVE  \A f \in Required : RowOf(doc, n)[f] = n
BY DEF Complete, RowOf, Required

LEMMA LineKeeps ==
  ASSUME NEW doc, NEW n \in Nat, n >= 1, NEW read, LinesRead(read, n - 1)
  PROVE  LinesRead(ReadDelimited(doc, n, read), n)
<1>1. read \in Read /\ MaxRows \in Nat \ {0}
  BY UploadAssumption DEF LinesRead
<1>2. /\ read.rows \in Seq([Fields -> Nat]) /\ read.rejected \in Nat
  BY <1>1, ReadIs
<1>3. CASE Len(read.rows) = MaxRows
  <2>1. ReadDelimited(doc, n, read) = read
    BY <1>3 DEF ReadDelimited
  <2>2. ASSUME read.rejected = 0 PROVE IsWritten(read.rows, LeastOf(n, MaxRows))
    <3>1. IsWritten(read.rows, LeastOf(n - 1, MaxRows))
      BY <2>2 DEF LinesRead
    <3>2. LeastOf(n - 1, MaxRows) = LeastOf(n, MaxRows)
      BY <1>1, <1>3, <3>1 DEF IsWritten, LeastOf
    <3> QED
      BY <3>1, <3>2
  <2> QED
    BY <1>1, <2>1, <2>2 DEF LinesRead
<1>4. CASE Len(read.rows) # MaxRows
  <2>1. PICK row : row = RowOf(doc, n)
    OBVIOUS
  <2>2. row \in [Fields -> Nat]
    BY <1>1, <2>1, LineIsRead
  <2>3. PICK before : before = [read EXCEPT !.row = row]
    OBVIOUS
  <2>4. before \in Read /\ before.row = row /\ before.rows = read.rows /\ before.rejected = read.rejected
    BY <1>1, <2>2, <2>3 DEF Read
  <2>5. PICK now : now = Accounted(before)
    OBVIOUS
  <2>6. ReadDelimited(doc, n, read) = now
    BY <1>4, <2>1, <2>3, <2>5 DEF ReadDelimited
  <2>7. /\ now \in Read
        /\ Complete(row) => now.rows = Append(read.rows, row) /\ now.rejected = read.rejected
        /\ ~Complete(row) => now.rejected = read.rejected + 1
    BY <2>4, <2>5, AccountedIs
  <2>8. ASSUME now.rejected = 0 PROVE IsWritten(now.rows, LeastOf(n, MaxRows))
    <3>1. Complete(row) /\ read.rejected = 0 /\ now.rows = Append(read.rows, row)
      BY <1>2, <2>7, <2>8
    <3>2. IsWritten(read.rows, LeastOf(n - 1, MaxRows))
      BY <3>1 DEF LinesRead
    <3>3. Len(read.rows) = n - 1 /\ LeastOf(n, MaxRows) = n
      BY <1>1, <1>4, <3>2 DEF IsWritten, LeastOf
    <3>4. \A f \in Required : row[f] = n
      BY <2>1, <3>1, RowIsWritten
    <3>5. PICK rows, more : rows = read.rows /\ more = Append(rows, row)
      OBVIOUS
    <3>6. /\ Len(more) = n /\ DOMAIN more = 1 .. n /\ more[n] = row
          /\ DOMAIN rows = 1 .. (n - 1) /\ \A k \in 1 .. (n - 1) : more[k] = rows[k]
      BY <1>2, <3>3, <3>5
    <3>7. \A k \in 1 .. (n - 1) : \A f \in Required : rows[k][f] = k
      BY <3>2, <3>5, <3>6 DEF IsWritten
    <3>8. \A k \in 1 .. n : k \in 1 .. (n - 1) \/ k = n
      OBVIOUS
    <3>9. \A k \in DOMAIN more : \A f \in Required : more[k][f] = k
      BY <3>4, <3>6, <3>7, <3>8
    <3>10. now.rows = more
      BY <3>1, <3>5
    <3> QED
      BY <3>3, <3>6, <3>9, <3>10 DEF IsWritten
  <2> QED
    BY <2>6, <2>7, <2>8 DEF LinesRead
<1> QED
  BY <1>3, <1>4

LEMMA DelimitedIsWritten ==
  ASSUME NEW doc \in Document, AllAccepted(Delimited(doc).rows, Delimited(doc).rejected + doc.stray)
  PROVE  /\ Delimited(doc).rows \in Seq([Fields -> Nat])
         /\ IsWritten(Delimited(doc).rows, LeastOf(Len(doc.records), MaxRows))
<1>1. PICK walk : Delimiting(walk, doc)
  BY DelimitingPossible
<1> DEFINE count == Len(doc.records)
           S == {n \in 0 .. count : LinesRead(walk[n], n)}
<1>2. count \in Nat /\ Numbered(doc) = 1 .. count /\ doc.stray \in Nat
  BY DocumentIs DEF Numbered
<1>3. 0 \in S
  <2>1. MaxRows \in Nat \ {0}
    BY UploadAssumption
  <2>2. LinesRead(Unread, 0)
    BY <2>1 DEF LinesRead, IsWritten, LeastOf, Unread, Read, Blank
  <2> QED
    BY <1>1, <1>2, <2>2 DEF Delimiting
<1>4. ASSUME NEW n \in 1 .. count, n - 1 \in S PROVE n \in S
  <2>1. walk[n] = ReadDelimited(doc, n, walk[n - 1]) /\ n \in Nat /\ n >= 1 /\ n \in 0 .. count
    BY <1>1, <1>2 DEF Delimiting
  <2>2. LinesRead(walk[n - 1], n - 1)
    BY <1>4
  <2> QED
    BY <2>1, <2>2, LineKeeps
<1>5. count \in S
  <2> HIDE DEF S, count
  <2>1. 0 .. count \subseteq S
    BY <1>2, <1>3, <1>4, AllAlong
  <2> QED
    BY <1>2, <2>1
<1>6. LinesRead(Delimited(doc), count)
  BY <1>1, <1>5 DEF Delimiting
<1>7. Delimited(doc) \in Read
  BY <1>6 DEF LinesRead
<1>8. Delimited(doc).rejected = 0 /\ Delimited(doc).rows \in Seq([Fields -> Nat])
  <2>1. Delimited(doc).rejected \in Nat /\ Delimited(doc).rows \in Seq([Fields -> Nat])
    BY <1>7, ReadIs
  <2> QED
    BY <1>2, <2>1 DEF AllAccepted
<1> QED
  BY <1>6, <1>8 DEF LinesRead

-----------------------------------------------------------------------------
(* Whatever the form: what is accepted is what was written.                    *)

LEMMA CutIs ==
  ASSUME NEW T, NEW rows \in Seq(T)
  PROVE  /\ Len(Cut(rows)) = LeastOf(Len(rows), MaxRows)
         /\ DOMAIN Cut(rows) = 1 .. LeastOf(Len(rows), MaxRows)
         /\ \A k \in DOMAIN Cut(rows) : k \in DOMAIN rows /\ Cut(rows)[k] = rows[k]
<1>1. MaxRows \in Nat \ {0} /\ Len(rows) \in Nat
  BY UploadAssumption
<1>2. PICK m \in Nat : m = LeastOf(Len(rows), MaxRows) /\ m <= Len(rows)
  BY <1>1 DEF LeastOf
<1>3. Cut(rows) = SubSeq(rows, 1, m)
  BY <1>2 DEF Cut, LeastOf
<1>4. /\ Len(SubSeq(rows, 1, m)) = m /\ DOMAIN SubSeq(rows, 1, m) = 1 .. m
      /\ \A k \in 1 .. m : SubSeq(rows, 1, m)[k] = rows[k] /\ k \in DOMAIN rows
  BY <1>1, <1>2
<1> QED
  BY <1>2, <1>3, <1>4

LEMMA CutIsWritten ==
  ASSUME NEW rows \in Seq([Fields -> Nat]), NEW count \in Nat,
         IsWritten(rows, count) \/ IsWritten(rows, LeastOf(count, MaxRows))
  PROVE  IsWritten(Cut(rows), LeastOf(count, MaxRows))
<1>1. MaxRows \in Nat \ {0} /\ Len(rows) \in Nat
  BY UploadAssumption
<1>2. LeastOf(Len(rows), MaxRows) = LeastOf(count, MaxRows)
  BY <1>1 DEF IsWritten, LeastOf
<1>3. /\ Len(Cut(rows)) = LeastOf(count, MaxRows)
      /\ \A k \in DOMAIN Cut(rows) : k \in DOMAIN rows /\ Cut(rows)[k] = rows[k]
  BY <1>2, CutIs
<1>4. \A k \in DOMAIN rows : \A f \in Required : rows[k][f] = k
  BY DEF IsWritten
<1> QED
  BY <1>3, <1>4 DEF IsWritten

\* A table is read as it is; only its rows that are complete are fit.
LEMMA TableIsWritten ==
  ASSUME NEW doc \in Document, \A n \in DOMAIN TableRows(doc) : Complete(TableRows(doc)[n])
  PROVE  IsWritten(TableRows(doc), LeastOf(Len(doc.records), MaxRows))
<1>1. PICK count \in Nat : count = Len(doc.records) /\ Numbered(doc) = 1 .. count
  BY DocumentIs DEF Numbered
<1>2. PICK rows : rows = [n \in 1 .. count |-> RowOf(doc, n)]
  OBVIOUS
<1>3. \A n \in 1 .. count : RowOf(doc, n) \in [Fields -> Nat]
  BY DEF RowOf
<1>4. rows \in Seq([Fields -> Nat]) /\ Len(rows) = count
  BY <1>2, <1>3
<1>5. TableRows(doc) = Cut(rows)
  BY <1>1, <1>2 DEF TableRows
<1>6. /\ Len(Cut(rows)) = LeastOf(count, MaxRows)
      /\ \A k \in DOMAIN Cut(rows) : k \in DOMAIN rows /\ Cut(rows)[k] = rows[k]
  BY <1>4, CutIs
<1>7. ASSUME NEW k \in DOMAIN Cut(rows) PROVE \A f \in Required : Cut(rows)[k][f] = k
  <2>1. k \in Nat /\ Cut(rows)[k] = RowOf(doc, k)
    BY <1>2, <1>6
  <2>2. Complete(RowOf(doc, k))
    BY <1>5, <2>1
  <2> QED
    BY <2>1, <2>2, RowIsWritten
<1> QED
  BY <1>1, <1>5, <1>6, <1>7 DEF IsWritten

LEMMA ParsedIsWritten ==
  ASSUME NEW doc \in Document, \A n \in Numbered(doc) : <<n, "code">> \notin doc.missing,
         Parsed(doc).status = "PARSED", Valid(doc, Parsed(doc).rows)
  PROVE  IsWritten(Parsed(doc).rows, LeastOf(Len(doc.records), MaxRows))
<1>1. Len(doc.records) \in Nat
  BY DocumentIs
<1>2. CASE doc.form = "table"
  <2>1. Parsed(doc).rows = TableRows(doc)
    BY <1>2 DEF Parsed
  <2>2. \A n \in DOMAIN TableRows(doc) : Complete(TableRows(doc)[n])
    BY <2>1 DEF Valid
  <2> QED
    BY <2>1, <2>2, TableIsWritten
<1>3. CASE doc.form = "image"
  BY <1>3 DEF Parsed
<1>4. CASE doc.form \notin {"table", "image"}
  <2>1. PICK text : text = IF doc.form = "labelled" THEN Labelled(doc) ELSE Delimited(doc)
    OBVIOUS
  <2>2. Parsed(doc) = [rows |-> Cut(text.rows),
                       status |-> IF AllAccepted(text.rows, text.rejected + doc.stray) THEN "PARSED"
                                  ELSE "REVIEW_REQUIRED"]
    BY <1>4, <2>1 DEF Parsed
  <2>3. Parsed(doc).rows = Cut(text.rows) /\ AllAccepted(text.rows, text.rejected + doc.stray)
    BY <2>2
  <2>4. /\ text.rows \in Seq([Fields -> Nat])
        /\ \/ IsWritten(text.rows, Len(doc.records))
           \/ IsWritten(text.rows, LeastOf(Len(doc.records), MaxRows))
    <3>1. CASE doc.form = "labelled"
      <4>1. text = Labelled(doc)
        BY <2>1, <3>1
      <4> QED
        BY <2>3, <4>1, LabelledIsWritten
    <3>2. CASE doc.form # "labelled"
      <4>1. text = Delimited(doc)
        BY <2>1, <3>2
      <4> QED
        BY <2>3, <4>1, DelimitedIsWritten
    <3> QED
      BY <3>1, <3>2
  <2> QED
    BY <1>1, <2>3, <2>4, CutIsWritten
<1> QED
  BY <1>2, <1>3, <1>4

-----------------------------------------------------------------------------
(* What is published was fit when its rows were read, and a file's rows do not *)
(* change.                                                                     *)

Fit(f, rows) ==
  /\ Parsed(written[f]).status = "PARSED" /\ rows = Parsed(written[f]).rows
  /\ Valid(written[f], rows)

PaperSound(f) ==
  /\ DOMAIN paper[f] = {"status", "rows"}
  /\ paper[f].status = "PARSED" =>
       Parsed(written[f]).status = "PARSED" /\ paper[f].rows = Parsed(written[f]).rows

LoadSound(p) ==
  /\ DOMAIN load[p] = {"pc", "paper", "target", "rows"}
  /\ load[p].pc # "idle" => load[p].paper \in Papers
  /\ load[p].pc = "publish" => Fit(load[p].paper, load[p].rows)

UploadsInv ==
  /\ written \in Contents
  /\ DOMAIN paper = Papers /\ DOMAIN released = Papers /\ DOMAIN load = Loads
  /\ \A f \in Papers : PaperSound(f)
  /\ \A f \in Papers : released[f] = NoRelease \/ Fit(f, released[f].rows)
  /\ \A p \in Loads : LoadSound(p)

LEMMA UploadsBegin == UploadInit => UploadsInv
BY DEF UploadInit, UploadsInv, PaperSound, LoadSound, NoPaper, NoLoad

\* A request is found fit by the rows of its file.
LEMMA FitWhenAsked ==
  ASSUME UploadsInv, NEW f \in Papers, Publishable(f)
  PROVE  Fit(f, paper[f].rows)
BY DEF UploadsInv, PaperSound, Publishable, Fit

\* A step of a request that leaves what was read and published.
LEMMA LoadMoves ==
  ASSUME UploadsInv, NEW p \in Loads, DOMAIN load' = Loads, UNCHANGED <<written, paper, released>>,
         LoadSound(p)', \A q \in Loads \ {p} : load'[q] = load[q]
  PROVE  UploadsInv'
<1>1. \A q \in Loads : LoadSound(q)'
  BY DEF UploadsInv, LoadSound, Fit
<1> QED
  BY <1>1 DEF UploadsInv, PaperSound, Fit

LEMMA UploadsStep ==
  ASSUME UploadsInv, [UploadNext]_uploadVars
  PROVE  UploadsInv'
<1>1. DOMAIN load = Loads /\ DOMAIN paper = Papers /\ DOMAIN released = Papers
  BY DEF UploadsInv
<1>2. ASSUME NEW p \in Loads, Done(p) PROVE LoadSound(p)' /\ DOMAIN load' = Loads
                                             /\ \A q \in Loads \ {p} : load'[q] = load[q]
  BY <1>1, <1>2 DEF Done, LoadSound, NoLoad
<1>3. ASSUME NEW p \in Loads, NEW pc \in {"save", "logUpload", "cancel", "logCancel"},
             NEW f \in Papers, Does(p, pc, f)
      PROVE  LoadSound(p)' /\ DOMAIN load' = Loads /\ \A q \in Loads \ {p} : load'[q] = load[q]
  BY <1>1, <1>3 DEF Does, LoadSound, UploadsInv
<1>4. ASSUME NEW p \in Loads, NEW f \in Papers, NEW target, Publishable(f),
             load' = [load EXCEPT ![p] = [pc |-> "publish", paper |-> f, target |-> target,
                                          rows |-> paper[f].rows]],
             UNCHANGED <<written, paper, released>>
      PROVE  UploadsInv'
  <2>1. Fit(f, paper[f].rows)
    BY <1>4, FitWhenAsked
  <2>2. LoadSound(p)' /\ DOMAIN load' = Loads /\ \A q \in Loads \ {p} : load'[q] = load[q]
    BY <1>1, <1>4, <2>1 DEF LoadSound, Fit
  <2> QED
    BY <1>4, <2>2, LoadMoves
<1>5. ASSUME NEW p \in Loads, Save(p) PROVE UploadsInv'
  <2>1. PICK f \in Papers : f = load[p].paper
    BY <1>5 DEF Save, UploadsInv, LoadSound
  <2>2. LoadSound(p)' /\ DOMAIN load' = Loads /\ \A q \in Loads \ {p} : load'[q] = load[q]
    BY <1>3, <1>5, <2>1 DEF Save
  <2>3. /\ UNCHANGED <<written, released>>
        /\ paper' = [paper EXCEPT ![f] = [status |-> Parsed(written[f]).status,
                                          rows |-> Parsed(written[f]).rows]]
    BY <1>5, <2>1 DEF Save
  <2>4. DOMAIN paper' = Papers /\ \A k \in Papers : PaperSound(k)'
    BY <1>1, <2>3 DEF UploadsInv, PaperSound
  <2>5. \A q \in Loads : LoadSound(q)'
    BY <2>2, <2>3 DEF UploadsInv, LoadSound, Fit
  <2> QED
    BY <2>2, <2>3, <2>4, <2>5 DEF UploadsInv, Fit
<1>6. ASSUME NEW p \in Loads, Cancel(p) PROVE UploadsInv'
  <2>1. PICK f \in Papers : f = load[p].paper
    BY <1>6 DEF Cancel, UploadsInv, LoadSound
  <2>2. LoadSound(p)' /\ DOMAIN load' = Loads /\ \A q \in Loads \ {p} : load'[q] = load[q]
    BY <1>3, <1>6, <2>1 DEF Cancel
  <2>3. UNCHANGED <<written, released>> /\ paper' = [paper EXCEPT ![f].status = "CANCELLED"]
    BY <1>6, <2>1 DEF Cancel
  <2>4. DOMAIN paper' = Papers /\ \A k \in Papers : PaperSound(k)'
    BY <1>1, <2>3 DEF UploadsInv, PaperSound
  <2>5. \A q \in Loads : LoadSound(q)'
    BY <2>2, <2>3 DEF UploadsInv, LoadSound, Fit
  <2> QED
    BY <2>2, <2>3, <2>4, <2>5 DEF UploadsInv, Fit
<1>7. ASSUME NEW p \in Loads, Publish(p) PROVE UploadsInv'
  <2>1. PICK f \in Papers : f = load[p].paper /\ Fit(f, load[p].rows)
    BY <1>7 DEF Publish, UploadsInv, LoadSound
  <2>2. LoadSound(p)' /\ DOMAIN load' = Loads /\ \A q \in Loads \ {p} : load'[q] = load[q]
    BY <1>2, <1>7 DEF Publish
  <2>3. /\ UNCHANGED <<written, paper>>
        /\ \/ UNCHANGED released
           \/ released' = [released EXCEPT ![f] = [target |-> load[p].target, rows |-> load[p].rows]]
    BY <1>7, <2>1 DEF Publish
  <2>4. DOMAIN released' = Papers
        /\ \A k \in Papers : released'[k] = NoRelease \/ Fit(k, released'[k].rows)
    BY <1>1, <2>1, <2>3 DEF UploadsInv
  <2>5. \A q \in Loads : LoadSound(q)'
    BY <2>2, <2>3 DEF UploadsInv, LoadSound, Fit
  <2> QED
    BY <2>2, <2>3, <2>4, <2>5 DEF UploadsInv, PaperSound, Fit
<1>8. ASSUME NEW p \in Loads, RecordUpload(p) \/ RecordCancel(p) \/ UploadDies(p) PROVE UploadsInv'
  BY <1>2, <1>8, LoadMoves DEF RecordUpload, RecordCancel, UploadDies
<1>9. ASSUME NEW p \in Loads, NEW f \in Papers, Upload(p, f) \/ FindToCancel(p, f) PROVE UploadsInv'
  BY <1>3, <1>9, LoadMoves DEF Upload, FindToCancel
<1>10. CASE UNCHANGED <<written, paper, released, load>>
  BY <1>10 DEF UploadsInv, PaperSound, LoadSound, Fit
<1>11. ASSUME NEW p \in Loads, NEW f \in Papers, AttachPaper(p, f) PROVE UploadsInv'
  <2>1. UNCHANGED <<written, paper, released>>
    BY <1>11 DEF AttachPaper
  <2>2. \/ UNCHANGED load
        \/ Publishable(f) /\ \E target : load' = [load EXCEPT ![p] =
             [pc |-> "publish", paper |-> f, target |-> target, rows |-> paper[f].rows]]
    <3>1. PICK target \in Targets \cup {"none"}, wanted \in BOOLEAN, single \in BOOLEAN,
               specification \in BOOLEAN :
            LET standing == paper[f].status
                outcome == CASE ~single \/ standing \in {"NONE", "CANCELLED"} -> "clarification"
                             [] ~specification -> "PREVIEW"
                             [] ~Publishable(f) -> "REVIEW_REQUIRED"
                             [] ~wanted \/ target = "none" -> "PREVIEW"
                             [] OTHER -> "publish"
            IN  IF outcome = "publish"
                THEN load' = [load EXCEPT ![p] = [pc |-> "publish", paper |-> f, target |-> target,
                                                  rows |-> paper[f].rows]]
                ELSE UNCHANGED load
      BY <1>11 DEF AttachPaper
    <3>2. CASE Publishable(f)
      BY <3>1, <3>2
    <3>3. CASE ~Publishable(f)
      BY <3>1, <3>3
    <3> QED
      BY <3>2, <3>3
  <2> QED
    BY <1>4, <1>10, <2>1, <2>2
<1>12. ASSUME NEW p \in Loads, NEW f \in Papers, NEW t \in Targets, AskToPublish(p, f, t)
       PROVE  UploadsInv'
  <2>1. CASE Publishable(f)
    BY <1>4, <1>12, <2>1 DEF AskToPublish
  <2>2. CASE ~Publishable(f)
    BY <1>10, <1>12, <2>2 DEF AskToPublish
  <2> QED
    BY <2>1, <2>2
<1> QED
  BY <1>5, <1>6, <1>7, <1>8, <1>9, <1>10, <1>11, <1>12 DEF UploadNext, uploadVars

\* What is published of a file is what is written in it, record by record, up to
\* the limit, in whatever order the fields of a record were written, for every
\* document all of whose records have a code, of any length, and every limit
\* (file-parser.ts: labeledPositionRowsFromText, positionalPositionRowsFromText,
\* documentResult; publishSpecificationImport).
THEOREM PublishedRowsAreWritten == UploadSpec => []PublishedIsWritten
<1>1. UploadInit => UploadsInv
  BY UploadsBegin
<1>2. UploadsInv /\ [UploadNext]_uploadVars => UploadsInv'
  BY UploadsStep
<1>3. UploadsInv => PublishedIsWritten
  <2> SUFFICES ASSUME UploadsInv, NEW f \in Papers, released[f] # NoRelease,
                      \A n \in Numbered(written[f]) : <<n, "code">> \notin written[f].missing
               PROVE  /\ Len(released[f].rows) =
                           IF Len(written[f].records) < MaxRows THEN Len(written[f].records)
                           ELSE MaxRows
                      /\ \A n \in DOMAIN released[f].rows : \A field \in Required :
                           released[f].rows[n][field] = n
    BY DEF PublishedIsWritten
  <2>1. PICK doc \in Document, rows \in {released[f].rows} : doc = written[f]
    BY ContentsAssumption DEF UploadsInv
  <2>2. Parsed(doc).status = "PARSED" /\ rows = Parsed(doc).rows /\ Valid(doc, rows)
    BY <2>1 DEF UploadsInv, Fit
  <2>3. IsWritten(rows, LeastOf(Len(doc.records), MaxRows))
    BY <2>1, <2>2, ParsedIsWritten
  <2> QED
    BY <2>1, <2>3 DEF IsWritten, LeastOf
<1> QED
  BY <1>1, <1>2, <1>3, PTL DEF UploadSpec

-----------------------------------------------------------------------------
(* Versions of a specification.  OneCurrentVersion is not inductive: that a    *)
(* transaction which inserts the next number has superseded the current row is *)
(* a matter of what it read, saw and locked before.                            *)

Preparing(p) == writer[p].pc \in {"update", "wait", "insert", "commit"}

\* What a transaction has read is the past; as long as it is the present, the
\* rows it saw, and later holds, are the current one.
WriterSound(p) ==
  /\ Preparing(p) => writer[p].read \in 1 .. latest /\ writer[p].read < MaxNumber
  /\ writer[p].pc = "wait" /\ writer[p].read = latest => writer[p].targets = {latest}
  /\ writer[p].pc \in {"insert", "commit"} /\ writer[p].read = latest => rowLock[latest] = p
  /\ writer[p].pc = "commit" => writer[p].read = latest

\* Only the current version is ever locked: nobody else can supersede it.
LocksCurrent == \A n \in Numbers : rowLock[n] # Nobody => n = latest

VersionsInv ==
  /\ SpecTypeOK
  /\ OneCurrentVersion
  /\ LocksCurrent
  /\ \A p \in Writers : WriterSound(p)

\* The specification as bootstrap creates it has one version, and nobody is busy.
LEMMA VersionsInit == SpecInit => VersionsInv
<1> SUFFICES ASSUME SpecInit PROVE VersionsInv
  OBVIOUS
<1>1. 1 \in Numbers /\ MaxNumber \in Nat
  BY SpecAssumption DEF Numbers
<1>2. SpecTypeOK
  <2>1. "seed" \in Sources /\ 0 \in 0 .. MaxNumber
    BY <1>1 DEF Sources
  <2>2. NoVersion \in Version /\ [NoVersion EXCEPT !.state = "CURRENT"] \in Version
    BY <2>1 DEF NoVersion, Version
  <2>3. NotWriting \in Writer
    BY <2>1 DEF NotWriting, Writer
  <2>4. versions \in [Numbers -> Version]
    BY <2>2 DEF SpecInit
  <2> QED BY <1>1, <2>3, <2>4 DEF SpecInit, SpecTypeOK
<1>3. OneCurrentVersion
  BY <1>1 DEF SpecInit, OneCurrentVersion, Exists, Current, NoVersion, Numbers
<1>4. LocksCurrent /\ \A p \in Writers : WriterSound(p)
  BY DEF SpecInit, LocksCurrent, WriterSound, Preparing, NotWriting
<1> QED BY <1>2, <1>3, <1>4 DEF VersionsInv

\* No statement leaves the types: the next number exists as a row, since only
\* a number below the bound is ever read.
LEMMA VersionsTypes ==
  ASSUME VersionsInv, [SpecNext]_specVars
  PROVE  SpecTypeOK'
<1>0. /\ MaxNumber \in Nat \ {0} /\ Numbers = 1 .. MaxNumber
      /\ SpecTypeOK /\ \A p \in Writers : WriterSound(p)
  BY SpecAssumption DEF Numbers, VersionsInv
<1>0a. /\ \A n \in Numbers : n \in 0 .. MaxNumber
       /\ \A n \in 1 .. latest : n \in 0 .. MaxNumber
       /\ latest \in 0 .. MaxNumber /\ \A p \in Writers : writer[p] \in Writer
  BY <1>0 DEF SpecTypeOK
<1>1. NotWriting \in Writer
  BY <1>0 DEF NotWriting, Writer, Sources
<1>2. ASSUME NEW p \in Writers PROVE Unlocked(p) \in [Numbers -> Writers \cup {Nobody}]
  BY <1>0 DEF Unlocked, SpecTypeOK
<1>3. ASSUME NEW p \in Writers, End(p)
      PROVE  writer' \in [Writers -> Writer] /\ rowLock' \in [Numbers -> Writers \cup {Nobody}]
  BY <1>0, <1>1, <1>2, <1>3 DEF End, SpecTypeOK
<1>4. ASSUME NEW p \in Writers, Conflict(p)
      PROVE  writer' \in [Writers -> Writer] /\ rowLock' \in [Numbers -> Writers \cup {Nobody}]
  <2>1. [writer[p] EXCEPT !.pc = "receipt", !.again = TRUE] \in Writer
    BY <1>0 DEF SpecTypeOK, Writer
  <2> QED BY <1>0, <1>1, <1>2, <1>4, <2>1 DEF Conflict, SpecTypeOK
<1>5. ASSUME NEW p \in Writers, NEW pc \in {"current", "insert", "commit"}, Proceed(p, pc)
      PROVE  writer' \in [Writers -> Writer]
  <2>1. [writer[p] EXCEPT !.pc = pc] \in Writer
    BY <1>0a DEF Writer
  <2>2. writer' = [writer EXCEPT ![p] = [writer[p] EXCEPT !.pc = pc]]
    BY <1>5 DEF Proceed
  <2>3. writer \in [Writers -> Writer]
    BY <1>0 DEF SpecTypeOK
  <2> QED BY <2>1, <2>2, <2>3
<1>6. ASSUME NEW p \in Writers, NEW f \in Files, PublishRead(p, f) PROVE SpecTypeOK'
  <2>1. [writer[p] EXCEPT !.pc = "update", !.source = f, !.read = latest] \in Writer
    BY <1>0a DEF Writer, Sources
  <2>2. writer' = [writer EXCEPT ![p] = [writer[p] EXCEPT !.pc = "update", !.source = f, !.read = latest]]
    BY <1>0, <1>6 DEF PublishRead, SpecTypeOK
  <2> QED BY <1>0, <1>6, <2>1, <2>2 DEF PublishRead, SpecTypeOK
<1>7. ASSUME NEW f \in Files, PublishNew(f) \/ CancelFile(f) PROVE SpecTypeOK'
  BY <1>0, <1>7 DEF PublishNew, CancelFile, SpecTypeOK
<1>8. ASSUME NEW p \in Writers, NEW e \in AppiusEvents, DeliverEvent(p, e) PROVE SpecTypeOK'
  <2>1. PICK n \in 1 .. latest :
          writer' = [writer EXCEPT ![p].pc = "receipt", ![p].source = e, ![p].expected = n]
    BY <1>8 DEF DeliverEvent
  <2>2. [writer[p] EXCEPT !.pc = "receipt", !.source = e, !.expected = n] \in Writer
    BY <1>0a DEF Writer, Sources
  <2>3. writer' = [writer EXCEPT ![p] = [writer[p] EXCEPT !.pc = "receipt", !.source = e, !.expected = n]]
    BY <1>0, <2>1 DEF SpecTypeOK
  <2> QED BY <1>0, <1>8, <2>2, <2>3 DEF DeliverEvent, SpecTypeOK
<1>9. ASSUME NEW p \in Writers, FindReceipt(p) PROVE SpecTypeOK'
  BY <1>0, <1>3, <1>5, <1>9 DEF FindReceipt, SpecTypeOK
<1>10. ASSUME NEW p \in Writers, ReadCurrent(p) PROVE SpecTypeOK'
  <2>1. PICK n \in Current :
          IF AsExpected(n, writer[p].expected) /\ n < MaxNumber
          THEN /\ writer' = [writer EXCEPT ![p].pc = "update", ![p].read = n]
               /\ UNCHANGED rowLock
          ELSE Conflict(p)
    BY <1>10 DEF ReadCurrent
  <2>2. [writer[p] EXCEPT !.pc = "update", !.read = n] \in Writer
    <3>1. n \in 0 .. MaxNumber
      BY <1>0a DEF Current
    <3> QED BY <1>0a, <3>1 DEF Writer
  <2>3. writer' \in [Writers -> Writer] /\ rowLock' \in [Numbers -> Writers \cup {Nobody}]
    <3>1. CASE Conflict(p)
      BY <1>4, <3>1
    <3>2. CASE /\ writer' = [writer EXCEPT ![p].pc = "update", ![p].read = n]
               /\ UNCHANGED rowLock
      <4>1. writer' = [writer EXCEPT ![p] = [writer[p] EXCEPT !.pc = "update", !.read = n]]
        BY <1>0, <3>2 DEF SpecTypeOK
      <4> QED BY <1>0, <2>2, <3>2, <4>1 DEF SpecTypeOK
    <3> QED BY <2>1, <3>1, <3>2
  <2> QED BY <1>0, <1>10, <2>3 DEF ReadCurrent, SpecTypeOK
<1>11. ASSUME NEW p \in Writers, UpdateStarts(p) PROVE SpecTypeOK'
  <2> DEFINE seen == IF Promoting(p) THEN Current \cap {writer[p].read} ELSE Current
  <2>1. [writer[p] EXCEPT !.pc = "wait", !.targets = seen] \in Writer
    BY <1>0 DEF SpecTypeOK, Writer, Current
  <2>2. writer' = [writer EXCEPT ![p] = [writer[p] EXCEPT !.pc = "wait", !.targets = seen]]
    BY <1>0, <1>11 DEF UpdateStarts, SpecTypeOK
  <2> QED BY <1>0, <1>11, <2>1, <2>2 DEF UpdateStarts, SpecTypeOK
<1>12. ASSUME NEW p \in Writers, UpdateEnds(p) PROVE SpecTypeOK'
  <2>1. CASE Conflict(p)
    BY <1>0, <1>4, <1>12, <2>1 DEF UpdateEnds, SpecTypeOK
  <2>2. CASE ~Conflict(p)
    BY <1>0, <1>5, <1>12, <2>2 DEF UpdateEnds, SpecTypeOK
  <2> QED BY <2>1, <2>2
<1>13. ASSUME NEW p \in Writers, Insert(p) PROVE SpecTypeOK'
  BY <1>0, <1>3, <1>5, <1>13 DEF Insert, SpecTypeOK
<1>14. ASSUME NEW p \in Writers, Commit(p) PROVE SpecTypeOK'
  <2>1. writer[p].read + 1 \in Numbers /\ writer[p].source \in Sources
    <3>1. writer[p].read \in 0 .. MaxNumber /\ writer[p].source \in Sources
      BY <1>0a DEF Writer
    <3>2. writer[p].read < MaxNumber
      BY <1>0, <1>14 DEF Commit, WriterSound, Preparing
    <3> QED BY <1>0, <3>1, <3>2
  <2>2. Promoting(p) \in BOOLEAN /\ \A m \in Numbers : versions[m] \in Version
    BY <1>0 DEF Promoting, SpecTypeOK
  <2>3. versions' \in [Numbers -> Version]
    <3>1. [state |-> "CURRENT", history |-> FALSE, source |-> writer[p].source] \in Version
      BY <2>1 DEF Version
    <3>2. ASSUME NEW m \in Numbers
          PROVE  [versions[m] EXCEPT !.state = "SUPERSEDED", !.history = @ \/ Promoting(p)] \in Version
      BY <2>2 DEF Version
    <3> QED BY <1>14, <2>2, <3>1, <3>2 DEF Commit
  <2> QED BY <1>0, <1>3, <1>14, <2>1, <2>3 DEF Commit, SpecTypeOK
<1>15. ASSUME NEW p \in Writers, Rollback(p) PROVE SpecTypeOK'
  <2>1. writer' \in [Writers -> Writer] /\ rowLock' \in [Numbers -> Writers \cup {Nobody}]
    BY <1>3, <1>15 DEF Rollback
  <2> QED BY <1>0, <1>15, <2>1 DEF Rollback, SpecTypeOK
<1>16. CASE UNCHANGED specVars
  BY <1>0, <1>16 DEF specVars, SpecTypeOK
<1> QED BY <1>6, <1>7, <1>8, <1>9, <1>10, <1>11, <1>12, <1>13, <1>14, <1>15, <1>16 DEF SpecNext

\* A request that takes no step keeps what it knows, whoever else is at work.
LEMMA OthersSound ==
  ASSUME VersionsInv, NEW p \in Writers, NEW q \in Writers, writer'[q] = writer[q],
         \/ latest' = latest /\ (rowLock[latest] = q => rowLock'[latest] = q)
         \/ Commit(p) /\ p # q
  PROVE  WriterSound(q)'
<1>0. WriterSound(q) /\ WriterSound(p) /\ latest \in Numbers /\ Numbers = 1 .. MaxNumber
      /\ MaxNumber \in Nat
  BY SpecAssumption DEF VersionsInv, SpecTypeOK, Numbers
<1>1. CASE latest' = latest /\ (rowLock[latest] = q => rowLock'[latest] = q)
  BY <1>0, <1>1 DEF WriterSound, Preparing
<1>2. CASE Commit(p) /\ p # q
  <2>1. latest' = latest + 1 /\ rowLock[latest] = p
    BY <1>0, <1>2 DEF Commit, WriterSound
  <2>2. writer[q].pc # "commit"
    BY <1>0, <1>2, <2>1 DEF WriterSound
  <2>3. Preparing(q) => writer[q].read \in 1 .. latest' /\ writer[q].read # latest'
    BY <1>0, <2>1 DEF WriterSound
  <2> QED BY <1>0, <2>2, <2>3 DEF WriterSound, Preparing
<1> QED BY <1>1, <1>2

\* A transaction that ends without a commit, or starts over, releases what it
\* held and knows nothing any more.
LEMMA EndSound ==
  ASSUME VersionsInv, NEW p \in Writers, End(p) \/ Conflict(p), latest' = latest
  PROVE  LocksCurrent' /\ \A q \in Writers : WriterSound(q)'
<1>0. /\ SpecTypeOK /\ LocksCurrent /\ latest \in Numbers /\ Nobody \notin Writers
  BY SpecAssumption DEF VersionsInv, SpecTypeOK, Nobody
<1>1. rowLock' = Unlocked(p)
  BY DEF End, Conflict
<1>2. LocksCurrent'
  BY <1>0, <1>1 DEF LocksCurrent, Unlocked
<1>3. ASSUME NEW q \in Writers, q # p PROVE WriterSound(q)'
  <2>1. writer'[q] = writer[q]
    BY <1>0, <1>3 DEF End, Conflict, SpecTypeOK
  <2>2. rowLock[latest] = q => rowLock'[latest] = q
    BY <1>0, <1>1, <1>3 DEF Unlocked
  <2> QED BY <2>1, <2>2, OthersSound
<1>4. WriterSound(p)'
  <2>1. writer'[p].pc \in {"idle", "receipt"}
    <3>1. writer[p] \in Writer
      BY <1>0 DEF SpecTypeOK
    <3>2. [writer[p] EXCEPT !.pc = "receipt", !.again = TRUE].pc = "receipt"
      BY <3>1 DEF Writer
    <3>3. NotWriting.pc = "idle"
      BY DEF NotWriting
    <3>4. writer'[p] \in {NotWriting, [writer[p] EXCEPT !.pc = "receipt", !.again = TRUE]}
      <4>1. CASE End(p)
        BY <1>0, <4>1 DEF End, SpecTypeOK
      <4>2. CASE Conflict(p)
        BY <1>0, <4>2 DEF Conflict, SpecTypeOK
      <4> QED BY <4>1, <4>2
    <3> QED BY <3>2, <3>3, <3>4
  <2> QED BY <2>1 DEF WriterSound, Preparing
<1> QED BY <1>2, <1>3, <1>4

\* A request that goes on without touching a row: its own knowledge is all there
\* is to see to.
LEMMA StepSound ==
  ASSUME VersionsInv, NEW p \in Writers, WriterSound(p)', UNCHANGED <<latest, rowLock>>,
         \A q \in Writers \ {p} : writer'[q] = writer[q]
  PROVE  LocksCurrent' /\ \A q \in Writers : WriterSound(q)'
<1>1. LocksCurrent'
  BY DEF VersionsInv, LocksCurrent
<1>2. ASSUME NEW q \in Writers, q # p PROVE WriterSound(q)'
  BY <1>2, OthersSound
<1> QED BY <1>1, <1>2

\* Whatever a statement does, one version stays current and its lock, once a
\* transaction has superseded it, is what lets that transaction alone commit.
LEMMA VersionsStep ==
  ASSUME VersionsInv, [SpecNext]_specVars
  PROVE  VersionsInv'
<1>0. /\ SpecTypeOK /\ OneCurrentVersion /\ LocksCurrent /\ \A p \in Writers : WriterSound(p)
      /\ latest \in Numbers /\ Numbers = 1 .. MaxNumber /\ MaxNumber \in Nat
      /\ Nobody \notin Writers /\ Current = {latest}
      /\ \A p \in Writers : writer[p] \in Writer
  BY SpecAssumption DEF VersionsInv, SpecTypeOK, Nobody, Numbers, OneCurrentVersion
<1>t. SpecTypeOK'
  BY VersionsTypes
<1>a. ASSUME UNCHANGED <<versions, latest>> PROVE OneCurrentVersion'
  BY <1>0, <1>a DEF OneCurrentVersion, Exists, Current
<1> DEFINE Sound == OneCurrentVersion /\ LocksCurrent /\ \A q \in Writers : WriterSound(q)
<1>1. ASSUME NEW p \in Writers, NEW f \in Files, PublishRead(p, f) PROVE Sound'
  <2>0. writer' = [writer EXCEPT ![p].pc = "update", ![p].source = f, ![p].read = latest]
    BY <1>1 DEF PublishRead
  <2>1. writer'[p].pc = "update" /\ writer'[p].read = latest
    BY <1>0, <2>0 DEF SpecTypeOK, Writer
  <2>2. WriterSound(p)'
    <3>1. latest' = latest /\ latest < MaxNumber
      BY <1>1 DEF PublishRead
    <3> QED BY <1>0, <2>1, <3>1 DEF WriterSound, Preparing
  <2>3. \A q \in Writers \ {p} : writer'[q] = writer[q]
    BY <1>0, <1>1 DEF PublishRead, SpecTypeOK
  <2> QED BY <1>1, <1>a, <2>2, <2>3, StepSound DEF PublishRead
<1>2. ASSUME NEW f \in Files, PublishNew(f) \/ CancelFile(f) PROVE Sound'
  BY <1>0, <1>2, <1>a DEF PublishNew, CancelFile, LocksCurrent, WriterSound, Preparing
<1>3. ASSUME NEW p \in Writers, NEW e \in AppiusEvents, DeliverEvent(p, e) PROVE Sound'
  <2>1. PICK n \in 1 .. latest :
          writer' = [writer EXCEPT ![p].pc = "receipt", ![p].source = e, ![p].expected = n]
    BY <1>3 DEF DeliverEvent
  <2>2. writer'[p].pc = "receipt" /\ \A q \in Writers \ {p} : writer'[q] = writer[q]
    BY <1>0, <2>1 DEF SpecTypeOK, Writer
  <2>3. WriterSound(p)'
    BY <2>2 DEF WriterSound, Preparing
  <2> QED BY <1>3, <1>a, <2>2, <2>3, StepSound DEF DeliverEvent
<1>4. ASSUME NEW p \in Writers, FindReceipt(p) PROVE Sound'
  <2>1. CASE End(p)
    BY <1>4, <1>a, <2>1, EndSound DEF FindReceipt
  <2>2. CASE Proceed(p, "current") /\ UNCHANGED rowLock
    <3>1. writer'[p].pc = "current" /\ \A q \in Writers \ {p} : writer'[q] = writer[q]
      BY <1>0, <2>2 DEF Proceed, SpecTypeOK, Writer
    <3>2. WriterSound(p)'
      BY <3>1 DEF WriterSound, Preparing
    <3> QED BY <1>4, <1>a, <2>2, <3>1, <3>2, StepSound DEF FindReceipt
  <2> QED BY <1>4, <2>1, <2>2 DEF FindReceipt
<1>5. ASSUME NEW p \in Writers, ReadCurrent(p) PROVE Sound'
  <2>1. CASE Conflict(p)
    BY <1>5, <1>a, <2>1, EndSound DEF ReadCurrent
  <2>2. CASE ~Conflict(p)
    <3>1. /\ latest < MaxNumber /\ UNCHANGED rowLock
          /\ writer' = [writer EXCEPT ![p].pc = "update", ![p].read = latest]
      BY <1>0, <1>5, <2>2 DEF ReadCurrent
    <3>2. writer'[p].pc = "update" /\ writer'[p].read = latest
          /\ \A q \in Writers \ {p} : writer'[q] = writer[q]
      BY <1>0, <3>1 DEF SpecTypeOK, Writer
    <3>3. WriterSound(p)'
      BY <1>0, <1>5, <3>1, <3>2 DEF ReadCurrent, WriterSound, Preparing
    <3> QED BY <1>5, <1>a, <3>1, <3>2, <3>3, StepSound DEF ReadCurrent
  <2> QED BY <2>1, <2>2
<1>6. ASSUME NEW p \in Writers, UpdateStarts(p) PROVE Sound'
  <2> DEFINE seen == IF Promoting(p) THEN Current \cap {writer[p].read} ELSE Current
  <2>1. writer' = [writer EXCEPT ![p].pc = "wait", ![p].targets = seen]
    BY <1>6 DEF UpdateStarts
  <2>2. /\ writer'[p].pc = "wait" /\ writer'[p].targets = seen
        /\ writer'[p].read = writer[p].read
        /\ \A q \in Writers \ {p} : writer'[q] = writer[q]
    BY <1>0, <2>1 DEF SpecTypeOK, Writer
  <2>3. writer[p].read = latest => seen = {latest}
    BY <1>0
  <2>4. latest' = latest /\ writer[p].pc = "update"
    BY <1>6 DEF UpdateStarts
  <2>5. WriterSound(p)'
    <3>1. writer[p].read \in 1 .. latest /\ writer[p].read < MaxNumber
      BY <1>0, <2>4 DEF WriterSound, Preparing
    <3> QED BY <2>2, <2>3, <2>4, <3>1 DEF WriterSound, Preparing
  <2> QED BY <1>6, <1>a, <2>2, <2>5, StepSound DEF UpdateStarts
<1>7. ASSUME NEW p \in Writers, UpdateEnds(p) PROVE Sound'
  <2> DEFINE got == writer[p].targets \cap Current
  <2>1. CASE Conflict(p)
    BY <1>7, <1>a, <2>1, EndSound DEF UpdateEnds
  <2>2. CASE ~Conflict(p)
    <3>1. /\ rowLock' = [n \in Numbers |-> IF n \in got THEN p ELSE rowLock[n]]
          /\ Proceed(p, "insert")
      BY <1>7, <2>2 DEF UpdateEnds
    <3>2. /\ writer'[p].pc = "insert" /\ writer'[p].read = writer[p].read
          /\ \A q \in Writers \ {p} : writer'[q] = writer[q]
      BY <1>0, <3>1 DEF Proceed, SpecTypeOK, Writer
    <3>3. latest' = latest /\ versions' = versions /\ writer[p].pc = "wait"
          /\ \A n \in writer[p].targets : rowLock[n] \in {Nobody, p}
      BY <1>7 DEF UpdateEnds
    <3>4. LocksCurrent'
      BY <1>0, <3>1, <3>3 DEF LocksCurrent
    <3>5. WriterSound(p)'
      <4>1. writer[p].read = latest => latest \in got
        BY <1>0, <3>3 DEF WriterSound
      <4>2. writer[p].read \in 1 .. latest /\ writer[p].read < MaxNumber
        BY <1>0, <3>3 DEF WriterSound, Preparing
      <4> QED BY <1>0, <3>1, <3>2, <3>3, <4>1, <4>2 DEF WriterSound, Preparing
    <3>6. ASSUME NEW q \in Writers \ {p} PROVE WriterSound(q)'
      <4>1. rowLock[latest] = q => rowLock'[latest] = q
        BY <1>0, <3>1, <3>3
      <4> QED BY <3>2, <3>3, <4>1, OthersSound
    <3> QED BY <1>a, <3>3, <3>4, <3>5, <3>6
  <2> QED BY <2>1, <2>2
<1>8. ASSUME NEW p \in Writers, Insert(p) PROVE Sound'
  <2>1. CASE End(p)
    BY <1>8, <1>a, <2>1, EndSound DEF Insert
  <2>2. CASE ~End(p)
    <3>1. /\ NumberUnique(writer[p].read + 1) /\ Proceed(p, "commit") /\ UNCHANGED rowLock
          /\ writer[p].pc = "insert"
      BY <1>8, <2>2 DEF Insert
    <3>2. /\ writer'[p].pc = "commit" /\ writer'[p].read = writer[p].read
          /\ \A q \in Writers \ {p} : writer'[q] = writer[q]
      BY <1>0, <3>1 DEF Proceed, SpecTypeOK, Writer
    <3>3. writer[p].read \in 1 .. latest /\ writer[p].read < MaxNumber
      BY <1>0, <3>1 DEF WriterSound, Preparing
    <3>4. writer[p].read = latest
      <4>1. writer[p].read + 1 \in Numbers
        BY <1>0, <3>3
      <4>2. ~(writer[p].read + 1 <= latest)
        BY <1>0, <3>1, <4>1 DEF NumberUnique, OneCurrentVersion
      <4> QED BY <1>0, <3>3, <4>2
    <3>5. WriterSound(p)'
      <4>1. latest' = latest
        BY <1>8 DEF Insert
      <4>2. rowLock[latest] = p
        BY <1>0, <3>1, <3>4 DEF WriterSound
      <4> QED BY <3>1, <3>2, <3>3, <3>4, <4>1, <4>2 DEF WriterSound, Preparing
    <3> QED BY <1>8, <1>a, <3>1, <3>2, <3>5, StepSound DEF Insert
  <2> QED BY <2>1, <2>2
<1>9. ASSUME NEW p \in Writers, Commit(p) PROVE Sound'
  <2>1. /\ writer[p].pc = "commit" /\ writer[p].read = latest /\ rowLock[latest] = p
        /\ latest < MaxNumber
    BY <1>0, <1>9 DEF Commit, WriterSound, Preparing
  <2>2. latest' = latest + 1 /\ latest' \in Numbers
    <3>1. latest' = latest + 1
      BY <1>9, <2>1 DEF Commit
    <3> QED BY <1>0, <2>1, <3>1
  <2>3. {m \in Numbers : rowLock[m] = p} = {latest}
    BY <1>0, <2>1 DEF LocksCurrent
  <2>4. /\ versions'[latest + 1].state = "CURRENT"
        /\ versions'[latest].state = "SUPERSEDED"
        /\ \A m \in Numbers \ {latest, latest + 1} : versions'[m] = versions[m]
    <3>1. versions[latest] \in Version
      BY <1>0 DEF SpecTypeOK
    <3> DEFINE V(m) == IF m = latest + 1
           THEN [state |-> "CURRENT", history |-> FALSE, source |-> writer[p].source]
           ELSE IF m \in {latest}
           THEN [versions[m] EXCEPT !.state = "SUPERSEDED",
                                    !.history = @ \/ Promoting(p)]
           ELSE versions[m]
    <3>2. versions' = [m \in Numbers |-> V(m)]
      BY <1>9, <2>1, <2>3 DEF Commit
    <3>3. V(latest + 1).state = "CURRENT"
      OBVIOUS
    <3>4. V(latest).state = "SUPERSEDED"
      BY <1>0, <3>1 DEF Version
    <3>5. latest + 1 \in Numbers /\ latest \in Numbers
      BY <1>0, <2>2
    <3> QED BY <3>2, <3>3, <3>4, <3>5
  <2>5. OneCurrentVersion'
    <3>1. \A n \in Numbers : Exists(n)' <=> n <= latest'
      BY <1>0, <2>2, <2>4 DEF OneCurrentVersion, Exists
    <3>2. Current' = {latest'}
      BY <1>0, <2>2, <2>4 DEF OneCurrentVersion, Current
    <3> QED BY <3>1, <3>2 DEF OneCurrentVersion
  <2>6. LocksCurrent' /\ writer'[p].pc = "idle"
        /\ \A q \in Writers \ {p} : writer'[q] = writer[q]
    <3>1. rowLock' = Unlocked(p) /\ writer' = [writer EXCEPT ![p] = NotWriting]
      BY <1>9 DEF Commit, End
    <3>2. \A n \in Numbers : rowLock'[n] = Nobody
      BY <1>0, <2>1, <3>1 DEF Unlocked, LocksCurrent
    <3> QED BY <1>0, <3>1, <3>2 DEF LocksCurrent, NotWriting, SpecTypeOK
  <2>7. WriterSound(p)'
    BY <2>6 DEF WriterSound, Preparing
  <2>8. \A q \in Writers \ {p} : WriterSound(q)'
    BY <1>9, <2>6, OthersSound
  <2> QED BY <2>5, <2>6, <2>7, <2>8
<1>10. ASSUME NEW p \in Writers, Rollback(p) PROVE Sound'
  BY <1>10, <1>a, EndSound DEF Rollback
<1>11. ASSUME UNCHANGED specVars PROVE Sound'
  BY <1>0, <1>11, <1>a DEF specVars, LocksCurrent, WriterSound, Preparing
<1>12. Sound'
  BY <1>1, <1>2, <1>3, <1>4, <1>5, <1>6, <1>7, <1>8, <1>9, <1>10, <1>11 DEF SpecNext
<1> QED BY <1>t, <1>12 DEF VersionsInv

\* However publications and promotions interleave, the versions of a
\* specification are numbered from one without gaps, and the last of them is the
\* only current one and the one the specification points to (createVersionImport
\* and promoteNextSpecificationVersion in src/src/adapters/persistence).
THEOREM VersionsStayOne == SpecSpec => []OneCurrentVersion
<1>1. VersionsInv => OneCurrentVersion
  BY DEF VersionsInv
<1> QED BY VersionsInit, VersionsStep, <1>1, PTL DEF SpecSpec

\* That a source is used once needs more: a transaction that could still publish has
\* a source nothing was made from.  For a file this is the file's lock; for an event,
\* which may be delivered twice at once, it is that the receipt was looked for at or
\* after the version the transaction is to replace, so that whoever was faster has
\* replaced it.
SourceSound(p) ==
  /\ Promoting(p) => writer[p].expected \in 1 .. latest
  /\ writer[p].pc = "current" /\ writer[p].expected = latest => MadeFrom(writer[p].source) = {}
  /\ Preparing(p) /\ writer[p].read = latest => MadeFrom(writer[p].source) = {}
  /\ writer[p].pc \in {"receipt", "current"} => Promoting(p)
  /\ writer[p].source \notin elsewhere

SourcesInv == VersionsInv /\ SourceUsedOnce /\ \A p \in Writers : SourceSound(p)

LEMMA SourcesInit == SpecInit => SourcesInv
<1> SUFFICES ASSUME SpecInit PROVE SourcesInv
  OBVIOUS
<1>1. ASSUME NEW m \in Numbers, Exists(m) PROVE m = 1
  BY <1>1 DEF SpecInit, Exists, NoVersion
<1>2. SourceUsedOnce
  BY <1>1 DEF SourceUsedOnce, SpecInit
<1>3. ASSUME NEW p \in Writers PROVE SourceSound(p)
  BY SpecAssumption DEF SpecInit, SourceSound, NotWriting, Promoting, Preparing
<1> QED BY <1>2, <1>3, VersionsInit DEF SourcesInv

\* As long as no version is added, only the request that moves has anything to show.
LEMMA OneLooks ==
  ASSUME SourcesInv, NEW p \in Writers, UNCHANGED <<versions, latest, elsewhere>>,
         NEW w, writer' = [writer EXCEPT ![p] = w],
         w.source \in AppiusEvents => w.expected \in 1 .. latest,
         w.pc = "current" /\ w.expected = latest => MadeFrom(w.source) = {},
         w.pc \in {"update", "wait", "insert", "commit"} /\ w.read = latest =>
           MadeFrom(w.source) = {},
         w.pc \in {"receipt", "current"} => w.source \in AppiusEvents,
         w.source \notin elsewhere
  PROVE  SourceUsedOnce' /\ \A q \in Writers : SourceSound(q)'
<1>0. SourceUsedOnce /\ \A q \in Writers : SourceSound(q)
  BY DEF SourcesInv
<1>1. SourceUsedOnce'
  BY <1>0 DEF SourceUsedOnce, Exists, MadeFrom
<1>2. ASSUME NEW s PROVE MadeFrom(s)' = MadeFrom(s)
  BY DEF MadeFrom, Exists
<1>3. writer'[p] = w /\ \A q \in Writers \ {p} : writer'[q] = writer[q]
  BY DEF SourcesInv, VersionsInv, SpecTypeOK
<1>4. SourceSound(p)'
  BY <1>2, <1>3 DEF SourceSound, Promoting, Preparing, MadeFrom, Exists
<1>5. ASSUME NEW q \in Writers \ {p} PROVE SourceSound(q)'
  <2>1. SourceSound(q) /\ writer'[q] = writer[q]
    BY <1>0, <1>3
  <2> QED BY <2>1 DEF SourceSound, Promoting, Preparing, MadeFrom, Exists
<1> QED BY <1>1, <1>4, <1>5

\* A request that ends, for whatever reason, has no source any more.
LEMMA EndLooks ==
  ASSUME SourcesInv, NEW p \in Writers, UNCHANGED <<versions, latest, elsewhere>>, End(p)
  PROVE  SourceUsedOnce' /\ \A q \in Writers : SourceSound(q)'
<1>1. /\ NotWriting.pc = "idle" /\ NotWriting.source = "seed"
      /\ "seed" \notin AppiusEvents
  BY SpecAssumption DEF NotWriting
<1>2. NotWriting.source \notin elsewhere
  BY SpecAssumption, <1>1 DEF SourcesInv, VersionsInv, SpecTypeOK
<1>3. writer' = [writer EXCEPT ![p] = NotWriting]
  BY DEF End
<1> HIDE DEF NotWriting
<1> QED BY <1>1, <1>2, <1>3, OneLooks

\* A promotion that has to be repeated looks for its receipt again.
LEMMA ConflictLooks ==
  ASSUME SourcesInv, NEW p \in Writers, UNCHANGED <<versions, latest, elsewhere>>, Conflict(p)
  PROVE  SourceUsedOnce' /\ \A q \in Writers : SourceSound(q)'
<1>1. CASE Promoting(p) /\ ~writer[p].again
  <2> DEFINE w == [writer[p] EXCEPT !.pc = "receipt", !.again = TRUE]
  <2>1. writer' = [writer EXCEPT ![p] = w]
    BY <1>1 DEF Conflict, SourcesInv, VersionsInv, SpecTypeOK
  <2>2. /\ w.pc = "receipt" /\ w.source = writer[p].source /\ w.expected = writer[p].expected
    BY DEF SourcesInv, VersionsInv, SpecTypeOK, Writer
  <2>3. SourceSound(p)
    BY DEF SourcesInv
  <2> HIDE DEF w
  <2> QED BY <1>1, <2>1, <2>2, <2>3, OneLooks DEF SourceSound, Promoting
<1>2. CASE ~(Promoting(p) /\ ~writer[p].again)
  <2>1. writer' = [writer EXCEPT ![p] = NotWriting]
    BY <1>2 DEF Conflict, SourcesInv, VersionsInv, SpecTypeOK
  <2>2. End(p)
    BY <2>1 DEF End, Conflict
  <2> QED BY <2>2, EndLooks
<1> QED BY <1>1, <1>2

\* The next statement of the same transaction.
LEMMA ProceedLooks ==
  ASSUME SourcesInv, NEW p \in Writers, NEW pc, Proceed(p, pc),
         UNCHANGED <<versions, latest, elsewhere>>,
         pc = "current" => writer[p].pc = "receipt" /\ MadeFrom(writer[p].source) = {},
         pc \in {"update", "wait", "insert", "commit"} => Preparing(p),
         pc # "receipt"
  PROVE  SourceUsedOnce' /\ \A q \in Writers : SourceSound(q)'
<1> DEFINE w == [writer[p] EXCEPT !.pc = pc]
<1>1. writer' = [writer EXCEPT ![p] = w]
  BY DEF Proceed, SourcesInv, VersionsInv, SpecTypeOK
<1>2. /\ w.pc = pc /\ w.source = writer[p].source /\ w.expected = writer[p].expected
      /\ w.read = writer[p].read
  BY DEF SourcesInv, VersionsInv, SpecTypeOK, Writer
<1>3. SourceSound(p)
  BY DEF SourcesInv
<1> HIDE DEF w
<1> QED BY <1>1, <1>2, <1>3, OneLooks DEF SourceSound, Promoting

LEMMA PublishReadLooks ==
  ASSUME SourcesInv, NEW p \in Writers, NEW f \in Files, PublishRead(p, f)
  PROVE  SourceUsedOnce' /\ \A q \in Writers : SourceSound(q)'
<1> DEFINE w == [writer[p] EXCEPT !.pc = "update", !.source = f, !.read = latest]
<1>1. writer' = [writer EXCEPT ![p] = w]
  BY DEF PublishRead, SourcesInv, VersionsInv, SpecTypeOK
<1>2. w.pc = "update" /\ w.source = f
  BY DEF SourcesInv, VersionsInv, SpecTypeOK, Writer
<1>3. f \notin AppiusEvents /\ f \notin elsewhere /\ MadeFrom(f) = {}
  BY SpecAssumption DEF PublishRead
<1>4. UNCHANGED <<versions, latest, elsewhere>>
  BY DEF PublishRead
<1> HIDE DEF w
<1> QED BY <1>1, <1>2, <1>3, <1>4, OneLooks

LEMMA DeliverEventLooks ==
  ASSUME SourcesInv, NEW p \in Writers, NEW e \in AppiusEvents, DeliverEvent(p, e)
  PROVE  SourceUsedOnce' /\ \A q \in Writers : SourceSound(q)'
<1>1. PICK n \in 1 .. latest :
        writer' = [writer EXCEPT ![p].pc = "receipt", ![p].source = e, ![p].expected = n]
  BY DEF DeliverEvent
<1> DEFINE w == [writer[p] EXCEPT !.pc = "receipt", !.source = e, !.expected = n]
<1>2. writer' = [writer EXCEPT ![p] = w]
  BY <1>1 DEF SourcesInv, VersionsInv, SpecTypeOK
<1>3. w.pc = "receipt" /\ w.source = e /\ w.expected = n
  BY DEF SourcesInv, VersionsInv, SpecTypeOK, Writer
<1>4. e \notin elsewhere
  BY SpecAssumption DEF SourcesInv, VersionsInv, SpecTypeOK
<1>5. UNCHANGED <<versions, latest, elsewhere>>
  BY DEF DeliverEvent
<1> HIDE DEF w
<1> QED BY <1>2, <1>3, <1>4, <1>5, OneLooks

\* What is current is the latest: a version that is expected and found is the one
\* the receipt was missed at.
LEMMA ReadCurrentLooks ==
  ASSUME SourcesInv, NEW p \in Writers, ReadCurrent(p)
  PROVE  SourceUsedOnce' /\ \A q \in Writers : SourceSound(q)'
<1>0. UNCHANGED <<versions, latest, elsewhere>>
  BY DEF ReadCurrent
<1>1. CASE Conflict(p)
  BY <1>0, <1>1, ConflictLooks
<1>2. CASE \E n \in Current : /\ AsExpected(n, writer[p].expected)
                              /\ writer' = [writer EXCEPT ![p].pc = "update", ![p].read = n]
  <2>1. writer' = [writer EXCEPT ![p].pc = "update", ![p].read = latest]
        /\ writer[p].expected = latest
    BY <1>2 DEF SourcesInv, VersionsInv, OneCurrentVersion, AsExpected
  <2> DEFINE w == [writer[p] EXCEPT !.pc = "update", !.read = latest]
  <2>2. writer' = [writer EXCEPT ![p] = w]
    BY <2>1 DEF SourcesInv, VersionsInv, SpecTypeOK
  <2>3. /\ w.pc = "update" /\ w.source = writer[p].source
        /\ w.expected = writer[p].expected
    BY DEF SourcesInv, VersionsInv, SpecTypeOK, Writer
  <2>4. SourceSound(p) /\ writer[p].pc = "current"
    BY DEF SourcesInv, ReadCurrent
  <2> HIDE DEF w
  <2> QED BY <1>0, <2>1, <2>2, <2>3, <2>4, OneLooks DEF SourceSound, Promoting
<1> QED BY <1>1, <1>2 DEF ReadCurrent

LEMMA UpdateStartsLooks ==
  ASSUME SourcesInv, NEW p \in Writers, UpdateStarts(p)
  PROVE  SourceUsedOnce' /\ \A q \in Writers : SourceSound(q)'
<1> DEFINE seen == IF Promoting(p) THEN Current \cap {writer[p].read} ELSE Current
<1> DEFINE w == [writer[p] EXCEPT !.pc = "wait", !.targets = seen]
<1>1. writer' = [writer EXCEPT ![p] = w]
  BY DEF UpdateStarts, SourcesInv, VersionsInv, SpecTypeOK
<1> HIDE DEF seen
<1>2. /\ w.pc = "wait" /\ w.source = writer[p].source /\ w.expected = writer[p].expected
      /\ w.read = writer[p].read
  BY DEF SourcesInv, VersionsInv, SpecTypeOK, Writer
<1>3. SourceSound(p) /\ Preparing(p)
  BY DEF SourcesInv, UpdateStarts, Preparing
<1>4. UNCHANGED <<versions, latest, elsewhere>>
  BY DEF UpdateStarts
<1> HIDE DEF w
<1> QED BY <1>1, <1>2, <1>3, <1>4, OneLooks DEF SourceSound, Promoting

\* A new specification is made of a file nobody works with.
LEMMA PublishNewLooks ==
  ASSUME SourcesInv, NEW f \in Files, PublishNew(f)
  PROVE  SourceUsedOnce' /\ \A q \in Writers : SourceSound(q)'
<1>1. /\ UNCHANGED <<versions, latest, writer>> /\ elsewhere' = elsewhere \cup {f}
      /\ MadeFrom(f) = {} /\ \A q \in Writers : writer[q].source # f
  BY DEF PublishNew, FileFree
<1>2. SourceUsedOnce'
  BY <1>1 DEF SourcesInv, SourceUsedOnce, Exists, MadeFrom
<1>3. ASSUME NEW q \in Writers PROVE SourceSound(q)'
  <2>1. SourceSound(q) /\ writer[q].source # f
    BY <1>1 DEF SourcesInv
  <2> QED BY <1>1, <2>1 DEF SourceSound, Promoting, Preparing, MadeFrom, Exists
<1> QED BY <1>2, <1>3

\* The version that is committed is the first one of its source, and whoever read
\* before it is late.
LEMMA CommitLooks ==
  ASSUME SourcesInv, NEW p \in Writers, Commit(p)
  PROVE  SourceUsedOnce' /\ \A q \in Writers : SourceSound(q)'
<1>0. /\ SpecTypeOK /\ OneCurrentVersion /\ LocksCurrent /\ SourceUsedOnce
      /\ \A q \in Writers : WriterSound(q) /\ SourceSound(q)
      /\ MaxNumber \in Nat /\ latest \in 1 .. MaxNumber /\ Numbers = 1 .. MaxNumber
  BY SpecAssumption DEF SourcesInv, VersionsInv, SpecTypeOK, Numbers
<1>1. /\ writer[p].read = latest /\ latest' = latest + 1 /\ UNCHANGED elsewhere
      /\ MadeFrom(writer[p].source) = {} /\ writer[p].source \notin elsewhere
      /\ writer' = [writer EXCEPT ![p] = NotWriting]
  BY <1>0 DEF Commit, WriterSound, SourceSound, Preparing, End
<1>2. PICK n \in Numbers : n = latest + 1 /\ ~Exists(n)
  <2>1. latest < MaxNumber
    BY <1>0, <1>1 DEF Commit, WriterSound, Preparing
  <2>2. latest + 1 \in Numbers /\ ~(latest + 1 <= latest)
    BY <1>0, <2>1
  <2> QED BY <1>0, <2>2 DEF OneCurrentVersion
<1>3. /\ Exists(n)' /\ versions'[n].source = writer[p].source
  BY <1>1, <1>2 DEF Commit, Exists
<1>4. ASSUME NEW m \in Numbers, m # n
      PROVE  (Exists(m)' <=> Exists(m)) /\ versions'[m].source = versions[m].source
  <2>1. CASE rowLock[m] = p
    <3>1. m = latest
      BY <1>0, <2>1, SpecAssumption DEF LocksCurrent, Nobody
    <3>2. Exists(m)
      BY <1>0, <3>1 DEF OneCurrentVersion
    <3>3. versions'[m] = [versions[m] EXCEPT !.state = "SUPERSEDED",
                                             !.history = @ \/ Promoting(p)]
      BY <1>1, <1>2, <1>4, <2>1 DEF Commit
    <3>4. versions[m] \in Version
      BY <1>0 DEF SpecTypeOK
    <3>5. versions'[m].state = "SUPERSEDED" /\ versions'[m].source = versions[m].source
      BY <3>3, <3>4 DEF Version
    <3> QED BY <3>2, <3>5 DEF Exists
  <2>2. CASE rowLock[m] # p
    <3>1. versions'[m] = versions[m]
      BY <1>1, <1>2, <1>4, <2>2 DEF Commit
    <3> QED BY <3>1 DEF Exists
  <2> QED BY <2>1, <2>2
<1>5. SourceUsedOnce'
  <2>1. ASSUME NEW k \in Numbers, NEW m \in Numbers, Exists(k)', Exists(m)',
               versions'[k].source = versions'[m].source
        PROVE  k = m
    BY <1>0, <1>1, <1>2, <1>3, <1>4, <2>1 DEF SourceUsedOnce, MadeFrom
  <2>2. ASSUME NEW f \in elsewhere' PROVE MadeFrom(f)' = {}
    <3>1. MadeFrom(f) = {} /\ f # writer[p].source
      BY <1>0, <1>1, <2>2 DEF SourceUsedOnce
    <3>2. ASSUME NEW m \in Numbers, Exists(m)', versions'[m].source = f PROVE FALSE
      BY <1>3, <1>4, <3>1, <3>2 DEF MadeFrom
    <3> QED BY <3>2 DEF MadeFrom
  <2> QED BY <2>1, <2>2 DEF SourceUsedOnce
<1>6. SourceSound(p)'
  <2>1. writer'[p] = NotWriting
    BY <1>0, <1>1 DEF SpecTypeOK
  <2>2. "seed" \notin AppiusEvents \cup elsewhere
    BY <1>0, SpecAssumption DEF SpecTypeOK
  <2> QED BY <1>1, <2>1, <2>2 DEF SourceSound, NotWriting, Promoting, Preparing
<1>7. ASSUME NEW q \in Writers, q # p PROVE SourceSound(q)'
  <2>1. writer'[q] = writer[q] /\ SourceSound(q) /\ WriterSound(q)
    BY <1>0, <1>1, <1>7 DEF SpecTypeOK
  <2>2. /\ Promoting(q) => writer[q].expected \in 1 .. latest
        /\ Preparing(q) => writer[q].read \in 1 .. latest
        /\ writer[q].pc = "current" => Promoting(q)
    BY <2>1 DEF SourceSound, WriterSound
  <2>3. \A x \in 1 .. latest : x \in 1 .. n /\ x # n
    BY <1>0, <1>2
  <2> QED BY <1>1, <1>2, <2>1, <2>2, <2>3 DEF SourceSound, Promoting, Preparing
<1> QED BY <1>5, <1>6, <1>7

\* Every step keeps the invariant.
LEMMA SourcesStep == SourcesInv /\ [SpecNext]_specVars => SourcesInv'
<1> SUFFICES ASSUME SourcesInv, [SpecNext]_specVars
             PROVE  SourceUsedOnce' /\ \A q \in Writers : SourceSound(q)'
  BY VersionsStep DEF SourcesInv
<1>1. ASSUME NEW p \in Writers, FindReceipt(p)
      PROVE  SourceUsedOnce' /\ \A q \in Writers : SourceSound(q)'
  BY <1>1, EndLooks, ProceedLooks DEF FindReceipt
<1>2. ASSUME NEW p \in Writers, UpdateEnds(p)
      PROVE  SourceUsedOnce' /\ \A q \in Writers : SourceSound(q)'
  <2>1. UNCHANGED <<versions, latest, elsewhere>> /\ Preparing(p)
    BY <1>2 DEF UpdateEnds, Preparing
  <2>2. Conflict(p) \/ Proceed(p, "insert")
    BY <1>2 DEF UpdateEnds
  <2> QED BY <2>1, <2>2, ConflictLooks, ProceedLooks
<1>3. ASSUME NEW p \in Writers, Insert(p)
      PROVE  SourceUsedOnce' /\ \A q \in Writers : SourceSound(q)'
  <2>1. UNCHANGED <<versions, latest, elsewhere>> /\ Preparing(p)
    BY <1>3 DEF Insert, Preparing
  <2>2. End(p) \/ Proceed(p, "commit")
    BY <1>3 DEF Insert
  <2> QED BY <2>1, <2>2, EndLooks, ProceedLooks
<1>4. ASSUME NEW p \in Writers, Rollback(p)
      PROVE  SourceUsedOnce' /\ \A q \in Writers : SourceSound(q)'
  BY <1>4, EndLooks DEF Rollback
<1>5. ASSUME UNCHANGED <<versions, latest, elsewhere, writer>>
      PROVE  SourceUsedOnce' /\ \A q \in Writers : SourceSound(q)'
  <2>1. SourceUsedOnce'
    BY <1>5 DEF SourcesInv, SourceUsedOnce, Exists, MadeFrom
  <2>2. ASSUME NEW q \in Writers PROVE SourceSound(q)'
    <3>1. SourceSound(q)
      BY DEF SourcesInv
    <3> QED BY <1>5, <3>1 DEF SourceSound, Promoting, Preparing, MadeFrom, Exists
  <2> QED BY <2>1, <2>2
<1>6. CASE UNCHANGED specVars
  BY <1>5, <1>6 DEF specVars
<1>7. ASSUME NEW f \in Files, CancelFile(f)
      PROVE  SourceUsedOnce' /\ \A q \in Writers : SourceSound(q)'
  BY <1>5, <1>7 DEF CancelFile
<1> QED BY <1>1, <1>2, <1>3, <1>4, <1>6, <1>7, PublishReadLooks, PublishNewLooks,
           DeliverEventLooks, ReadCurrentLooks, UpdateStartsLooks, CommitLooks DEF SpecNext

\* SpecVersions: a file becomes at most one version, or one specification, and an event
\* promotes at most one version, however often it is delivered and whoever else writes
\* (the receipt of promoteNextSpecificationVersion, the file's lock of
\* createVersionImport).
THEOREM SourcesUsedOnce == SpecSpec => []SourceUsedOnce
<1>1. SourcesInv => SourceUsedOnce
  BY DEF SourcesInv
<1> QED BY SourcesInit, SourcesStep, <1>1, PTL DEF SpecSpec

-----------------------------------------------------------------------------
(* Versions of the prompt.  PromptInForce asks of a change that is about to    *)
(* commit that it has the target, and, when it runs alone, everything else     *)
(* that is active.                                                             *)

\* An addition deactivates nothing; a change about to commit has its target; one
\* that has the table for itself has seen, or has no need to see, what is active.
AdminSound(a) ==
  /\ Busy(a) /\ admin[a].kind = "add"
       => admin[a].off = {} /\ admin[a].pc \in {"activate", "commit"}
  /\ admin[a].pc = "commit" => promptLock[admin[a].target] = a
  /\ admin[a].pc = "commit" /\ admin[a].kind \in {"create", "add"}
       => admin[a].target \notin Stored
  /\ admin[a].off \subseteq Stored
  /\ admin[a].alone /\ Busy(a) => \A b \in Admins \ {a} : ~Busy(b)
  /\ admin[a].alone /\ admin[a].pc \in {"locked", "activate", "commit"}
     /\ admin[a].kind # "add"
       => Active \ {admin[a].target} \subseteq admin[a].off

OneUnlessOverlapped ==
  /\ Active # {}
  /\ ~overlapped => \E p \in Prompts : Active = {p}

PromptsInv ==
  /\ PromptTypeOK
  /\ OneUnlessOverlapped
  /\ \A a \in Admins : AdminSound(a)

\* Bootstrap leaves one prompt active and nobody at work.
LEMMA PromptsInit == PromptInit => PromptsInv
<1> SUFFICES ASSUME PromptInit PROVE PromptsInv
  OBVIOUS
<1>1. NoChange \in Admin /\ Canonical005 \in Prompts
  BY PromptAssumption DEF NoChange, Admin
<1>2. PromptTypeOK
  BY <1>1 DEF PromptInit, PromptTypeOK, PromptStates
<1>3. Active = {Canonical005}
  BY <1>1 DEF PromptInit, Active
<1>4. \A a \in Admins : AdminSound(a)
  BY DEF PromptInit, AdminSound, Busy, NoChange
<1> QED BY <1>1, <1>2, <1>3, <1>4 DEF PromptsInv, OneUnlessOverlapped

\* The requests that take no step keep what they rely on.
LEMMA OtherAdmins ==
  ASSUME PromptsInv, NEW a \in Admins, NEW b \in Admins \ {a},
         \A c \in Admins \ {a} : admin'[c] = admin[c],
         Busy(a)' => Busy(a),
         \A p \in Prompts : promptLock[p] = b => promptLock'[p] = b,
         prompts' = prompts \/ CommitPrompts(a)
  PROVE  AdminSound(b)'
<1>0. /\ PromptTypeOK /\ AdminSound(a) /\ AdminSound(b) /\ admin'[b] = admin[b]
      /\ admin[a] \in Admin /\ admin[b] \in Admin
  BY DEF PromptsInv, PromptTypeOK
<1>1. admin[b].target \in Prompts /\ admin[a].target \in Prompts
  BY <1>0 DEF Admin
<1>2. admin[b].pc = "commit" => promptLock'[admin[b].target] = b
  BY <1>0, <1>1 DEF AdminSound
<1>3. admin[b].alone /\ Busy(b) => \A c \in Admins \ {b} : ~Busy(c)'
  BY <1>0 DEF AdminSound, Busy
<1>4. CASE prompts' = prompts
  BY <1>0, <1>2, <1>3, <1>4 DEF AdminSound, Stored, Active, Busy
<1>5. CASE CommitPrompts(a)
  <2>1. admin[a].pc = "commit" /\ Busy(a) /\ promptLock[admin[a].target] = a
    BY <1>0, <1>5 DEF CommitPrompts, AdminSound, Busy
  <2>2. Stored' = Stored \cup {admin[a].target}
    BY <1>0, <1>1, <1>5, <2>1 DEF CommitPrompts, Stored, PromptTypeOK, AdminSound
  <2>3. ~(admin[b].alone /\ Busy(b))
    BY <1>0, <2>1 DEF AdminSound
  <2>4. admin[b].pc = "commit" => admin[b].target # admin[a].target
    BY <1>0, <2>1 DEF AdminSound
  <2> QED BY <1>0, <1>2, <2>2, <2>3, <2>4 DEF AdminSound, Busy
<1> QED BY <1>4, <1>5

\* A change that begins marks the others, and itself beside them.
LEMMA BeginSound ==
  ASSUME PromptsInv, NEW a \in Admins, NEW p \in Prompts,
         NEW kind \in {"activate", "create", "add", "rollout"},
         NEW pc \in {"deactivate", "activate"},
         (kind = "add") <=> (pc = "activate"), Begin(a, kind, p, pc)
  PROVE  PromptsInv'
<1>0. /\ PromptTypeOK /\ OneUnlessOverlapped /\ ~Busy(a)
      /\ \A b \in Admins : AdminSound(b) /\ admin[b] \in Admin
      /\ UNCHANGED <<prompts, promptLock, overlapped>>
  BY DEF PromptsInv, PromptTypeOK, Begin
<1> DEFINE mine == [pc |-> pc, kind |-> kind, target |-> p, off |-> {},
                    alone |-> \A c \in Admins : ~Busy(c)]
           kept(b) == [admin[b] EXCEPT !.alone = @ /\ ~Busy(b)]
<1>1. /\ admin' = [b \in Admins |-> IF b = a THEN mine ELSE kept(b)]
  BY DEF Begin
<1>2. mine \in Admin
  BY DEF Admin
<1>3. ASSUME NEW b \in Admins
      PROVE  /\ kept(b) \in Admin
             /\ kept(b).pc = admin[b].pc /\ kept(b).kind = admin[b].kind
             /\ kept(b).target = admin[b].target /\ kept(b).off = admin[b].off
             /\ kept(b).alone = (admin[b].alone /\ ~Busy(b))
  BY <1>0 DEF Admin, Busy
<1>4. PromptTypeOK'
  <2>1. \A b \in Admins : admin'[b] \in Admin
    BY <1>1, <1>2, <1>3
  <2> HIDE DEF mine, kept
  <2> QED BY <1>0, <1>1, <2>1 DEF PromptTypeOK
<1>5. OneUnlessOverlapped'
  BY <1>0 DEF OneUnlessOverlapped, Active
<1>6. ASSUME NEW b \in Admins \ {a} PROVE AdminSound(b)'
  <2>1. admin'[b] = kept(b)
    BY <1>1
  <2>2. Busy(b)' = Busy(b) /\ ~(admin'[b].alone /\ Busy(b))
    BY <1>3, <2>1 DEF Busy
  <2> QED BY <1>0, <1>3, <2>1, <2>2 DEF AdminSound, Stored, Active, Busy
<1>7. AdminSound(a)'
  <2>1. admin'[a] = mine
    BY <1>1
  <2>2. \A b \in Admins \ {a} : Busy(b)' = Busy(b)
    BY <1>1, <1>3 DEF Busy
  <2> QED BY <2>1, <2>2 DEF AdminSound, Busy
<1> QED BY <1>4, <1>5, <1>6, <1>7 DEF PromptsInv

\* Every step of a change keeps a version in force, and just one when the change
\* had the table for itself.
LEMMA PromptsStep ==
  ASSUME PromptsInv, [PromptNext]_promptVars
  PROVE  PromptsInv'
<1>0. /\ PromptTypeOK /\ OneUnlessOverlapped /\ NoAdmin \notin Admins
      /\ \A b \in Admins : AdminSound(b) /\ admin[b] \in Admin /\ admin[b].target \in Prompts
      /\ Canonical005 \in Prompts /\ NoChange \in Admin
  BY PromptAssumption DEF PromptsInv, PromptTypeOK, NoAdmin, Admin, NoChange
<1>1. ASSUME NEW a \in Admins, NEW p \in Prompts, BeginActivate(a, p) PROVE PromptsInv'
  BY <1>1, BeginSound DEF BeginActivate
<1>2. ASSUME NEW a \in Admins, NEW p \in Prompts, NEW active \in BOOLEAN,
             BeginCreate(a, p, active)
      PROVE  PromptsInv'
  <2>1. CASE active
    BY <1>2, <2>1, BeginSound DEF BeginCreate
  <2>2. CASE ~active
    BY <1>2, <2>2, BeginSound DEF BeginCreate
  <2> QED BY <2>1, <2>2
<1>3. ASSUME NEW a \in Admins, BeginRollout(a) PROVE PromptsInv'
  BY <1>0, <1>3, BeginSound DEF BeginRollout
<1>4. ASSUME NEW a \in Admins, DeactivateSees(a) PROVE PromptsInv'
  <2> DEFINE seen == IF admin[a].kind = "activate" THEN Active \ {admin[a].target}
                     ELSE Stored
             mine == [admin[a] EXCEPT !.pc = "locked", !.off = seen]
  <2>1. /\ admin' = [admin EXCEPT ![a] = mine]
        /\ UNCHANGED <<prompts, promptLock, overlapped>> /\ admin[a].pc = "deactivate"
    BY <1>0, <1>4 DEF DeactivateSees, PromptTypeOK
  <2>2. seen \subseteq Stored /\ Active \ {admin[a].target} \subseteq seen
        /\ Stored \subseteq Prompts
    BY DEF Active, Stored
  <2>3. /\ mine \in Admin /\ mine.pc = "locked" /\ mine.off = seen
        /\ mine.kind = admin[a].kind /\ mine.target = admin[a].target
        /\ mine.alone = admin[a].alone
    BY <1>0, <2>2 DEF Admin
  <2>4. admin'[a] = mine /\ \A b \in Admins \ {a} : admin'[b] = admin[b]
    BY <1>0, <2>1 DEF PromptTypeOK
  <2>5. PromptTypeOK'
    BY <1>0, <2>1, <2>3 DEF PromptTypeOK
  <2>6. AdminSound(a)'
    BY <1>0, <2>1, <2>2, <2>3, <2>4 DEF AdminSound, Busy, Stored, Active
  <2>7. \A b \in Admins \ {a} : AdminSound(b)'
    BY <2>1, <2>4, OtherAdmins DEF Busy
  <2> QED BY <1>0, <2>1, <2>5, <2>6, <2>7 DEF PromptsInv, OneUnlessOverlapped, Active
<1>5. ASSUME NEW a \in Admins, DeactivateGets(a) PROVE PromptsInv'
  <2> DEFINE off == admin[a].off \cap IF admin[a].kind = "activate" THEN Active ELSE Stored
             mine == [admin[a] EXCEPT !.pc = "activate", !.off = off]
  <2>1. /\ admin' = [admin EXCEPT ![a] = mine]
        /\ promptLock' = [p \in Prompts |-> IF p \in off THEN a ELSE promptLock[p]]
        /\ UNCHANGED <<prompts, overlapped>> /\ admin[a].pc = "locked"
        /\ \A p \in admin[a].off : promptLock[p] \in {NoAdmin, a}
    BY <1>0, <1>5 DEF DeactivateGets, PromptTypeOK, LockFree
  <2>2. off \subseteq Stored /\ Active \subseteq Stored /\ Stored \subseteq Prompts
    BY <1>0 DEF Active, Stored, AdminSound
  <2>3. /\ mine \in Admin /\ mine.pc = "activate" /\ mine.off = off
        /\ mine.kind = admin[a].kind /\ mine.target = admin[a].target
        /\ mine.alone = admin[a].alone
    BY <1>0, <2>2 DEF Admin
  <2>4. admin'[a] = mine /\ \A b \in Admins \ {a} : admin'[b] = admin[b]
    BY <1>0, <2>1 DEF PromptTypeOK
  <2>5. PromptTypeOK'
    BY <1>0, <2>1, <2>3 DEF PromptTypeOK
  <2>6. admin[a].kind # "add"
    BY <1>0, <2>1 DEF AdminSound, Busy
  <2>7. admin[a].alone => Active \ {admin[a].target} \subseteq off
    BY <1>0, <2>1, <2>2, <2>6 DEF AdminSound
  <2>8. AdminSound(a)'
    BY <1>0, <2>1, <2>2, <2>3, <2>4, <2>6, <2>7 DEF AdminSound, Busy, Stored, Active
  <2>9. ASSUME NEW b \in Admins \ {a} PROVE AdminSound(b)'
    <3>1. \A p \in Prompts : promptLock[p] = b => promptLock'[p] = b
      BY <1>0, <2>1
    <3> QED BY <2>1, <2>4, <3>1, OtherAdmins DEF Busy
  <2> QED BY <1>0, <2>1, <2>5, <2>8, <2>9 DEF PromptsInv, OneUnlessOverlapped, Active
<1>6. ASSUME NEW a \in Admins, Activate(a) PROVE PromptsInv'
  <2> DEFINE mine == [admin[a] EXCEPT !.pc = "commit"]
  <2>1. /\ admin' = [admin EXCEPT ![a] = mine]
        /\ promptLock' = [promptLock EXCEPT ![admin[a].target] = a]
        /\ UNCHANGED <<prompts, overlapped>> /\ admin[a].pc = "activate"
        /\ promptLock[admin[a].target] \in {NoAdmin, a}
        /\ admin[a].kind \in {"create", "add"} => admin[a].target \notin Stored
    BY <1>0, <1>6 DEF Activate, InOneTransaction, PromptTypeOK, LockFree
  <2>3. /\ mine \in Admin /\ mine.pc = "commit" /\ mine.off = admin[a].off
        /\ mine.kind = admin[a].kind /\ mine.target = admin[a].target
        /\ mine.alone = admin[a].alone
    BY <1>0 DEF Admin
  <2>4. admin'[a] = mine /\ \A b \in Admins \ {a} : admin'[b] = admin[b]
    BY <1>0, <2>1 DEF PromptTypeOK
  <2>5. PromptTypeOK'
    BY <1>0, <2>1, <2>3 DEF PromptTypeOK
  <2>6. promptLock'[admin[a].target] = a
    BY <1>0, <2>1 DEF PromptTypeOK
  <2>8. AdminSound(a)'
    BY <1>0, <2>1, <2>3, <2>4, <2>6 DEF AdminSound, Busy, Stored, Active
  <2>9. ASSUME NEW b \in Admins \ {a} PROVE AdminSound(b)'
    <3>1. \A p \in Prompts : promptLock[p] = b => promptLock'[p] = b
      BY <1>0, <2>1 DEF PromptTypeOK
    <3> QED BY <2>1, <2>4, <3>1, OtherAdmins DEF Busy
  <2> QED BY <1>0, <2>1, <2>5, <2>8, <2>9 DEF PromptsInv, OneUnlessOverlapped, Active
<1>u. ASSUME NEW a \in Admins, promptLock' = PromptUnlocked(a), admin' = [admin EXCEPT ![a] = NoChange],
             prompts' = prompts \/ CommitPrompts(a)
      PROVE  /\ \A b \in Admins : AdminSound(b)'
             /\ promptLock' \in [Prompts -> Admins \cup {NoAdmin}]
             /\ admin' \in [Admins -> Admin]
  <2>1. admin'[a] = NoChange /\ \A b \in Admins \ {a} : admin'[b] = admin[b]
    BY <1>0, <1>u DEF PromptTypeOK
  <2>2. ~Busy(a)' /\ AdminSound(a)'
    BY <2>1 DEF AdminSound, Busy, NoChange
  <2>3. ASSUME NEW b \in Admins \ {a} PROVE AdminSound(b)'
    <3>1. \A p \in Prompts : promptLock[p] = b => promptLock'[p] = b
      BY <1>0, <1>u DEF PromptUnlocked
    <3> QED BY <1>u, <2>1, <2>2, <3>1, OtherAdmins
  <2> QED BY <1>0, <1>u, <2>2, <2>3 DEF PromptTypeOK, PromptUnlocked
<1>7. ASSUME NEW a \in Admins, CommitPrompts(a) PROVE PromptsInv'
  <2> DEFINE target == admin[a].target
  <2>1. /\ admin' = [admin EXCEPT ![a] = NoChange] /\ promptLock' = PromptUnlocked(a)
        /\ admin[a].pc = "commit"
        /\ prompts' = [p \in Prompts |->
             IF p = target
             THEN IF admin[a].kind = "add" THEN "inactive" ELSE "active"
             ELSE IF p \in admin[a].off THEN "inactive" ELSE prompts[p]]
        /\ overlapped' = IF admin[a].kind = "add" THEN overlapped ELSE ~admin[a].alone
    BY <1>7 DEF CommitPrompts
  <2>2. \A b \in Admins : AdminSound(b)'
    BY <1>7, <1>u, <2>1
  <2>3. PromptTypeOK'
    <3>1. prompts' \in [Prompts -> PromptStates]
      BY <1>0, <2>1 DEF PromptTypeOK, PromptStates
    <3>2. overlapped' \in BOOLEAN
      BY <1>0, <2>1 DEF PromptTypeOK, Admin
    <3> QED BY <1>7, <1>u, <2>1, <3>1, <3>2 DEF PromptTypeOK
  <2>4. OneUnlessOverlapped'
    <3>1. CASE admin[a].kind = "add"
      <4>1. target \notin Stored /\ admin[a].off = {}
        BY <1>0, <2>1, <3>1 DEF AdminSound, Busy
      <4>2. Active' = Active
        BY <2>1, <3>1, <4>1 DEF Active, Stored
      <4> QED BY <1>0, <2>1, <3>1, <4>2 DEF OneUnlessOverlapped
    <3>2. CASE admin[a].kind # "add"
      <4>1. target \in Active'
        BY <1>0, <2>1, <3>2 DEF Active
      <4>2. admin[a].alone => Active' = {target}
        <5>1. admin[a].alone => Active \ {target} \subseteq admin[a].off
          BY <1>0, <2>1, <3>2 DEF AdminSound
        <5> QED BY <2>1, <4>1, <5>1 DEF Active
      <4> QED BY <1>0, <2>1, <3>2, <4>1, <4>2 DEF OneUnlessOverlapped
    <3> QED BY <3>1, <3>2
  <2> QED BY <2>2, <2>3, <2>4 DEF PromptsInv
<1>8. ASSUME NEW a \in Admins, RollbackPrompts(a) PROVE PromptsInv'
  BY <1>0, <1>8, <1>u DEF RollbackPrompts, PromptsInv, PromptTypeOK, OneUnlessOverlapped, Active
<1>9. CASE UNCHANGED promptVars
  BY <1>0, <1>9 DEF promptVars, PromptsInv, PromptTypeOK, OneUnlessOverlapped, AdminSound,
                    Active, Stored, Busy
<1> QED BY <1>1, <1>2, <1>3, <1>4, <1>5, <1>6, <1>7, <1>8, <1>9 DEF PromptNext

\* Whatever changes of the prompt overlap, fail or die, an answer finds one in
\* force, and just one once a change has had the table for itself
\* (activatePromptVersion, createPromptVersion and upsertCanonicalPromptVersions,
\* against getActivePrompt).
THEOREM OnePromptInForce == PromptSpec => []PromptInForce
<1>1. PromptsInv => PromptInForce
  BY FS_Singleton DEF PromptsInv, OneUnlessOverlapped, PromptInForce
<1> QED BY PromptsInit, PromptsStep, <1>1, PTL DEF PromptSpec

-----------------------------------------------------------------------------
(* Images of a series.  SeriesIsOfOneBuild is not inductive: what a run says of *)
(* its images was compared when it was written down, and a series that is past  *)
(* a removal has nothing on the host.                                           *)

\* Before the containers of a run, and after they were found removed.
NothingOnHost ==
  {"start", "head", "hash", "build", "inspect", "attestor", "isolate", "run", "compare",
   "rehash", "attest", "chain", "gate", "script", "review", "judge", "verifier", "verify",
   "last", "passed"}

BeforeRuns == {"start", "head", "hash", "build", "inspect", "attestor", "isolate"}

Verified == {"last", "passed"}

\* Every run on record was made of the images that were inspected, and what is on
\* the host is of the present run.
SeriesSound(s) ==
  LET i == series[s]
  IN  /\ i.pc \notin Over \cup {"start", "head", "thrown"} => i.sha \in Commits
      /\ i.pc \in BeforeRuns => i.ran = <<>>
      /\ \A r \in DOMAIN i.ran : i.ran[r].observed = [j \in Services |-> i.digests[j]]
      /\ i.pc \in Verified => Len(i.ran) = REQUIRED_RUNS /\ i.reviewed = OwnScript(s)
      /\ i.pc \notin Over => project[s] \subseteq {i.ordinal}
      /\ i.pc \in NothingOnHost => project[s] = {}

SeriesInv == GateSeriesTypeOK /\ \A s \in Series : SeriesSound(s)

\* No series has begun.
LEMMA SeriesInit == GateSeriesInit => SeriesInv
<1> SUFFICES ASSUME GateSeriesInit PROVE SeriesInv
  OBVIOUS
<1>1. GateSeriesTypeOK
  BY DEF GateSeriesInit, GateSeriesTypeOK, Held, Invocation, NotBuilt, NoContainers, Pcs, NoTree,
         NoScript, Scripts, Tree
<1>2. ASSUME NEW s \in Series PROVE SeriesSound(s)
  <2>1. series[s] = Invocation("start") /\ project[s] = {}
    BY DEF GateSeriesInit
  <2> QED BY <2>1 DEF SeriesSound, Invocation, Over, BeforeRuns, Verified, NothingOnHost
<1> QED BY <1>1, <1>2 DEF SeriesInv

\* What one series does leaves the others as sound as they were: its own next state
\* is all there is to look at.
LEMMA OneSeriesMoves ==
  ASSUME SeriesInv, NEW s \in Series, NEW next \in Held,
         series' = [series EXCEPT ![s] = next],
         NEW left \in SUBSET Nat, project' = [project EXCEPT ![s] = left],
         tree' \in Tree, image' \in [Commits -> [Images -> Nat]],
         container' \in [Series -> [Services -> Nat]],
         next.pc \notin Over \cup {"start", "head", "thrown"} => next.sha \in Commits,
         next.pc \in BeforeRuns => next.ran = <<>>,
         \A r \in DOMAIN next.ran : next.ran[r].observed = [j \in Services |-> next.digests[j]],
         next.pc \in Verified =>
           Len(next.ran) = REQUIRED_RUNS /\ next.reviewed = [at |-> next.sha, edited |-> FALSE],
         next.pc \notin Over => left \subseteq {next.ordinal},
         next.pc \in NothingOnHost => left = {}
  PROVE  SeriesInv'
<1>0. GateSeriesTypeOK /\ \A t \in Series : SeriesSound(t)
  BY DEF SeriesInv
<1>1. GateSeriesTypeOK'
  BY <1>0 DEF GateSeriesTypeOK
<1>2. series'[s] = next /\ project'[s] = left
  BY <1>0 DEF GateSeriesTypeOK
<1>3. SeriesSound(s)'
  BY <1>2 DEF SeriesSound, OwnScript
<1>4. ASSUME NEW t \in Series, t # s PROVE SeriesSound(t)'
  <2>1. series'[t] = series[t] /\ project'[t] = project[t]
    BY <1>0, <1>4 DEF GateSeriesTypeOK
  <2>2. SeriesSound(t)
    BY <1>0
  <2> QED BY <2>1, <2>2 DEF SeriesSound, OwnScript
<1> QED BY <1>1, <1>3, <1>4 DEF SeriesInv

\* Most steps only take a series to its next place, or have it throw.
MayFollow(s, pc) ==
  /\ pc \in Pcs
  /\ series[s].pc \notin Over
  /\ pc \notin Over \cup {"start", "head", "thrown"} =>
       series[s].pc \notin {"start", "head", "thrown"}
  /\ pc \in BeforeRuns => series[s].pc \in BeforeRuns
  /\ pc \in Verified => series[s].pc \in Verified
  /\ pc \in NothingOnHost => series[s].pc \in NothingOnHost

LEMMA MovesOn ==
  ASSUME SeriesInv, NEW s \in Series, NEW pc, MayFollow(s, pc), Go(s, pc), UNCHANGED OnHost
  PROVE  SeriesInv'
<1>0. GateSeriesTypeOK /\ SeriesSound(s) /\ series[s] \in Held
  BY DEF SeriesInv, GateSeriesTypeOK
<1> DEFINE next == [series[s] EXCEPT !.pc = pc]
<1>1. next \in Held
  BY <1>0 DEF Held, MayFollow
<1>2. series' = [series EXCEPT ![s] = next]
  BY <1>0 DEF Go, GateSeriesTypeOK
<1>3. project' = [project EXCEPT ![s] = project[s]] /\ project[s] \in SUBSET Nat
  BY <1>0 DEF OnHost, GateSeriesTypeOK
<1>4. /\ next.pc = pc /\ next.sha = series[s].sha /\ next.ran = series[s].ran
      /\ next.digests = series[s].digests /\ next.reviewed = series[s].reviewed
      /\ next.ordinal = series[s].ordinal
  BY <1>0 DEF Held
<1>5. /\ tree' \in Tree /\ image' \in [Commits -> [Images -> Nat]]
      /\ container' \in [Series -> [Services -> Nat]]
  BY <1>0 DEF OnHost, GateSeriesTypeOK
<1>6. /\ next.pc \notin Over \cup {"start", "head", "thrown"} => next.sha \in Commits
      /\ next.pc \in BeforeRuns => next.ran = <<>>
      /\ \A r \in DOMAIN next.ran : next.ran[r].observed = [j \in Services |-> next.digests[j]]
  BY <1>0, <1>4 DEF SeriesSound, MayFollow
<1>7. /\ (next.pc \in Verified =>
           Len(next.ran) = REQUIRED_RUNS /\ next.reviewed = [at |-> next.sha, edited |-> FALSE])
      /\ (next.pc \notin Over => project[s] \subseteq {next.ordinal})
      /\ (next.pc \in NothingOnHost => project[s] = {})
  BY <1>0, <1>4 DEF SeriesSound, MayFollow, OwnScript
<1> HIDE DEF next
<1> QED BY <1>1, <1>2, <1>3, <1>5, <1>6, <1>7, OneSeriesMoves

\* The steps that look at something and go on, or throw.
LEMMA LooksOn ==
  ASSUME SeriesInv, NEW s \in Series,
         \/ BeginSeries(s) \/ CreateAttestor(s) \/ AttestIsolation(s) \/ StartRun(s)
         \/ CompareHead(s) \/ CopyArtifacts(s) \/ AttestRun(s) \/ CheckChain(s)
         \/ JudgeReview(s) \/ InspectVerifier(s) \/ LastCheck(s)
  PROVE  SeriesInv'
<1>1. PICK pc \in Pcs : Go(s, pc) /\ MayFollow(s, pc)
  <2>1. CASE BeginSeries(s)
    BY <2>1 DEF BeginSeries, Require, Pcs, MayFollow, Over, BeforeRuns, Verified, NothingOnHost
  <2>2. CASE CreateAttestor(s) \/ AttestIsolation(s) \/ StartRun(s) \/ CompareHead(s)
    BY <2>2 DEF CreateAttestor, AttestIsolation, StartRun, CompareHead, Command, Require, Pcs,
                MayFollow, Over, BeforeRuns, Verified, NothingOnHost
  <2>3. CASE CopyArtifacts(s) \/ AttestRun(s) \/ CheckChain(s) \/ JudgeReview(s)
    BY <2>3 DEF CopyArtifacts, AttestRun, CheckChain, JudgeReview, Command, Pcs,
                MayFollow, Over, BeforeRuns, Verified, NothingOnHost
  <2>4. CASE InspectVerifier(s) \/ LastCheck(s)
    BY <2>4 DEF InspectVerifier, LastCheck, Require, Pcs,
                MayFollow, Over, BeforeRuns, Verified, NothingOnHost
  <2> QED BY <2>1, <2>2, <2>3, <2>4
<1>2. UNCHANGED OnHost
  BY DEF BeginSeries, CreateAttestor, AttestIsolation, StartRun, CompareHead, CopyArtifacts,
         AttestRun, CheckChain, JudgeReview, InspectVerifier, LastCheck
<1> QED BY <1>1, <1>2, MovesOn

\* What throws may do so anywhere on the way.
LEMMA MayThrow ==
  ASSUME SeriesInv, NEW s \in Series, series[s].pc \notin Over, Go(s, "thrown"),
         UNCHANGED OnHost
  PROVE  SeriesInv'
<1>1. MayFollow(s, "thrown")
  BY DEF MayFollow, Pcs, Over, BeforeRuns, Verified, NothingOnHost
<1> QED BY <1>1, MovesOn

\* A step that leaves what is on the host alone and sets fields of one series.
LEMMA SetsFields ==
  ASSUME SeriesInv, NEW s \in Series, NEW next \in Held, UNCHANGED OnHost,
         series' = [series EXCEPT ![s] = next],
         next.pc \notin Over \cup {"start", "head", "thrown"} => next.sha \in Commits,
         next.pc \in BeforeRuns => next.ran = <<>>,
         \A r \in DOMAIN next.ran : next.ran[r].observed = [j \in Services |-> next.digests[j]],
         next.pc \in Verified =>
           Len(next.ran) = REQUIRED_RUNS /\ next.reviewed = [at |-> next.sha, edited |-> FALSE],
         next.pc \notin Over => project[s] \subseteq {next.ordinal},
         next.pc \in NothingOnHost => project[s] = {}
  PROVE  SeriesInv'
<1>0. GateSeriesTypeOK
  BY DEF SeriesInv
<1>1. project' = [project EXCEPT ![s] = project[s]] /\ project[s] \in SUBSET Nat
  BY <1>0 DEF OnHost, GateSeriesTypeOK
<1>2. /\ tree' \in Tree /\ image' \in [Commits -> [Images -> Nat]]
      /\ container' \in [Series -> [Services -> Nat]]
  BY <1>0 DEF OnHost, GateSeriesTypeOK
<1> QED BY <1>1, <1>2, OneSeriesMoves

\* What the invariant says of the series that moves.
LEMMA OfSeries ==
  ASSUME SeriesInv, NEW s \in Series
  PROVE  /\ series \in [Series -> Held] /\ series[s] \in Held
         /\ tree \in Tree /\ image \in [Commits -> [Images -> Nat]]
         /\ project \in [Series -> SUBSET Nat] /\ container \in [Series -> [Services -> Nat]]
         /\ SeriesSound(s)
BY DEF SeriesInv, GateSeriesTypeOK

\* A series that has not begun its runs yet.
LEMMA BeforeItsRuns ==
  ASSUME SeriesInv, NEW s \in Series, NEW next \in Held,
         series' = [series EXCEPT ![s] = next], UNCHANGED <<tree, project, container>>,
         image' \in [Commits -> [Images -> Nat]],
         next.pc \in BeforeRuns, next.sha \in Commits, next.ran = <<>>, project[s] = {}
  PROVE  SeriesInv'
<1>1. /\ project' = [project EXCEPT ![s] = {}] /\ tree' \in Tree
      /\ container' \in [Series -> [Services -> Nat]]
  BY DEF SeriesInv, GateSeriesTypeOK
<1>2. DOMAIN next.ran = {}
  <2>1. DOMAIN <<>> = {}
    OBVIOUS
  <2> QED BY <2>1
<1>3. next.pc \notin Verified
  BY DEF BeforeRuns, Verified
<1> QED BY <1>1, <1>2, <1>3, OneSeriesMoves

LEMMA ReadHeadKeeps ==
  ASSUME SeriesInv, NEW s \in Series, ReadHead(s)
  PROVE  SeriesInv'
<1> DEFINE next == [series[s] EXCEPT !.sha = tree.at, !.pc = "hash"]
<1>0. /\ series[s] \in Held /\ tree \in Tree /\ SeriesSound(s) /\ series[s].pc = "head"
      /\ UNCHANGED OnHost
  BY OfSeries DEF ReadHead
<1>1. CASE series' = [series EXCEPT ![s].sha = tree.at, ![s].pc = "hash"]
  <2>1. series' = [series EXCEPT ![s] = next]
    BY <1>1, OfSeries
  <2>2. next \in Held
    BY <1>0 DEF Held, Tree, Pcs
  <2>3. /\ next.pc = "hash" /\ next.sha = tree.at /\ next.ran = series[s].ran
        /\ next.digests = series[s].digests /\ next.ordinal = series[s].ordinal
    BY <1>0 DEF Held
  <2>4. /\ tree.at \in Commits /\ series[s].ran = <<>> /\ project[s] = {}
    BY <1>0 DEF SeriesSound, Tree, BeforeRuns, NothingOnHost
  <2> HIDE DEF next
  <2> QED BY <1>0, <2>1, <2>2, <2>3, <2>4, OfSeries, BeforeItsRuns DEF OnHost, BeforeRuns
<1>2. CASE Go(s, "thrown")
  BY <1>0, <1>2, MayThrow DEF Over
<1> QED BY <1>1, <1>2 DEF ReadHead

LEMMA HashTreeKeeps ==
  ASSUME SeriesInv, NEW s \in Series, HashTree(s)
  PROVE  SeriesInv'
<1> DEFINE next == [series[s] EXCEPT !.source = tree, !.pc = "build"]
<1>0. /\ series[s] \in Held /\ tree \in Tree /\ SeriesSound(s) /\ series[s].pc = "hash"
      /\ UNCHANGED OnHost
  BY OfSeries DEF HashTree
<1>1. CASE series' = [series EXCEPT ![s].source = tree, ![s].pc = "build"]
  <2>1. series' = [series EXCEPT ![s] = next]
    BY <1>1, OfSeries
  <2>2. next \in Held
    BY <1>0 DEF Held, Pcs
  <2>3. /\ next.pc = "build" /\ next.sha = series[s].sha /\ next.ran = series[s].ran
        /\ next.digests = series[s].digests /\ next.ordinal = series[s].ordinal
    BY <1>0 DEF Held
  <2>4. /\ series[s].sha \in Commits /\ series[s].ran = <<>> /\ project[s] = {}
    BY <1>0 DEF SeriesSound, Over, BeforeRuns, NothingOnHost
  <2> HIDE DEF next
  <2> QED BY <1>0, <2>1, <2>2, <2>3, <2>4, OfSeries, BeforeItsRuns DEF OnHost, BeforeRuns
<1>2. CASE Go(s, "thrown")
  BY <1>0, <1>2, MayThrow DEF Over
<1> QED BY <1>1, <1>2 DEF HashTree

\* An image of the commit is replaced, by this or by any other series.
LEMMA BuildImageKeeps ==
  ASSUME SeriesInv, NEW s \in Series, NEW i \in Images, BuildImage(s, i)
  PROVE  SeriesInv'
<1> DEFINE next == [series[s] EXCEPT !.todo = @ \ {i}]
<1>0. /\ series[s] \in Held /\ SeriesSound(s) /\ series[s].pc = "build"
      /\ image \in [Commits -> [Images -> Nat]]
  BY OfSeries DEF BuildImage
<1>1. /\ series' = [series EXCEPT ![s] = next] /\ UNCHANGED <<tree, project, container>>
  BY OfSeries DEF BuildImage
<1>2. next \in Held
  BY <1>0 DEF Held
<1>3. /\ next.pc = "build" /\ next.sha = series[s].sha /\ next.ran = series[s].ran
      /\ next.digests = series[s].digests /\ next.ordinal = series[s].ordinal
  BY <1>0 DEF Held
<1>4. /\ series[s].sha \in Commits /\ series[s].ran = <<>> /\ project[s] = {}
  BY <1>0 DEF SeriesSound, Over, BeforeRuns, NothingOnHost
<1>5. image' \in [Commits -> [Images -> Nat]]
  <2>1. PICK n \in 1 .. MaxBuilds : image' = [image EXCEPT ![series[s].sha][i] = n]
    BY DEF BuildImage
  <2>2. n \in Nat
    OBVIOUS
  <2> QED BY <2>1, <2>2, <1>0, <1>4
<1> HIDE DEF next
<1> QED BY <1>1, <1>2, <1>3, <1>4, <1>5, BeforeItsRuns DEF BeforeRuns

LEMMA ImagesBuiltKeeps ==
  ASSUME SeriesInv, NEW s \in Series, ImagesBuilt(s)
  PROVE  SeriesInv'
<1> DEFINE next == [series[s] EXCEPT !.pc = "inspect", !.todo = Images]
<1>0. series[s] \in Held /\ SeriesSound(s) /\ series[s].pc = "build" /\ UNCHANGED OnHost
  BY OfSeries DEF ImagesBuilt
<1>1. CASE series' = [series EXCEPT ![s].pc = "inspect", ![s].todo = Images]
  <2>1. series' = [series EXCEPT ![s] = next]
    BY <1>1, OfSeries
  <2>2. next \in Held
    BY <1>0 DEF Held, Pcs
  <2>3. /\ next.pc = "inspect" /\ next.sha = series[s].sha /\ next.ran = series[s].ran
        /\ next.digests = series[s].digests /\ next.ordinal = series[s].ordinal
    BY <1>0 DEF Held
  <2>4. /\ series[s].sha \in Commits /\ series[s].ran = <<>> /\ project[s] = {}
    BY <1>0 DEF SeriesSound, Over, BeforeRuns, NothingOnHost
  <2> HIDE DEF next
  <2> QED BY <1>0, <2>1, <2>2, <2>3, <2>4, OfSeries, BeforeItsRuns DEF OnHost, BeforeRuns
<1>2. CASE Go(s, "thrown")
  BY <1>0, <1>2, MayThrow DEF Over
<1> QED BY <1>1, <1>2 DEF ImagesBuilt

\* A digest is taken: no run is on record yet that could differ from it.
LEMMA InspectImageKeeps ==
  ASSUME SeriesInv, NEW s \in Series, NEW i \in Images, InspectImage(s, i)
  PROVE  SeriesInv'
<1> DEFINE next == [series[s] EXCEPT !.digests[i] = image[series[s].sha][i],
                                     !.todo = @ \ {i},
                                     !.pc = IF series[s].todo = {i} THEN "attestor" ELSE @]
<1>0. /\ series[s] \in Held /\ SeriesSound(s) /\ series[s].pc = "inspect" /\ UNCHANGED OnHost
      /\ image \in [Commits -> [Images -> Nat]]
  BY OfSeries DEF InspectImage
<1>1. CASE series' = [series EXCEPT ![s].digests[i] = image[series[s].sha][i],
                                    ![s].todo = @ \ {i},
                                    ![s].pc = IF series[s].todo = {i} THEN "attestor" ELSE @]
  <2>1. series' = [series EXCEPT ![s] = next]
    BY <1>1, OfSeries
  <2>2. /\ series[s].sha \in Commits /\ series[s].ran = <<>> /\ project[s] = {}
    BY <1>0 DEF SeriesSound, Over, BeforeRuns, NothingOnHost
  <2>3. image[series[s].sha][i] \in Nat
    BY <1>0, <2>2
  <2>4. next \in Held
    BY <1>0, <2>3 DEF Held, Pcs
  <2>5. /\ next.pc \in {"inspect", "attestor"} /\ next.sha = series[s].sha
        /\ next.ran = series[s].ran /\ next.ordinal = series[s].ordinal
    BY <1>0 DEF Held
  <2> HIDE DEF next
  <2> QED BY <1>0, <2>1, <2>2, <2>4, <2>5, OfSeries, BeforeItsRuns DEF OnHost, BeforeRuns
<1>2. CASE Go(s, "thrown")
  BY <1>0, <1>2, MayThrow DEF Over
<1> QED BY <1>1, <1>2 DEF InspectImage

LEMMA CompareSourceKeeps ==
  ASSUME SeriesInv, NEW s \in Series, CompareSource(s)
  PROVE  SeriesInv'
<1> DEFINE next == [series[s] EXCEPT !.pc = "up", !.active = TRUE, !.error = FALSE]
<1>0. series[s] \in Held /\ SeriesSound(s) /\ series[s].pc = "rehash" /\ UNCHANGED OnHost
  BY OfSeries DEF CompareSource
<1>1. CASE series' = [series EXCEPT ![s].pc = "up", ![s].active = TRUE, ![s].error = FALSE]
  <2>1. series' = [series EXCEPT ![s] = next]
    BY <1>1, OfSeries
  <2>2. next \in Held
    BY <1>0 DEF Held, Pcs
  <2>3. /\ next.pc = "up" /\ next.sha = series[s].sha /\ next.ran = series[s].ran
        /\ next.digests = series[s].digests /\ next.ordinal = series[s].ordinal
    BY <1>0 DEF Held
  <2>4. /\ series[s].sha \in Commits /\ project[s] = {}
        /\ \A r \in DOMAIN next.ran :
             next.ran[r].observed = [j \in Services |-> next.digests[j]]
    BY <1>0, <2>3 DEF SeriesSound, Over, NothingOnHost
  <2> HIDE DEF next
  <2> QED BY <1>0, <2>1, <2>2, <2>3, <2>4, SetsFields DEF BeforeRuns, Verified, NothingOnHost
<1>2. CASE Go(s, "thrown")
  BY <1>0, <1>2, MayThrow DEF Over
<1> QED BY <1>1, <1>2 DEF CompareSource

\* Containers of the present run appear.
LEMMA CreateContainerKeeps ==
  ASSUME SeriesInv, NEW s \in Series, NEW i \in Services, CreateContainer(s, i)
  PROVE  SeriesInv'
<1>0. /\ series[s] \in Held /\ SeriesSound(s) /\ series[s].pc = "up"
      /\ image \in [Commits -> [Images -> Nat]] /\ project \in [Series -> SUBSET Nat]
      /\ container \in [Series -> [Services -> Nat]] /\ tree \in Tree
      /\ series \in [Series -> Held]
  BY OfSeries DEF CreateContainer
<1>1. /\ container' = [container EXCEPT ![s][i] = image[series[s].sha][i]]
      /\ project' = [project EXCEPT ![s] = @ \cup {series[s].ordinal}]
      /\ UNCHANGED <<tree, image, series>>
  BY DEF CreateContainer
<1>2. series[s].sha \in Commits /\ series[s].ordinal \in Nat /\ i \in Images
  BY <1>0 DEF SeriesSound, Held, Over, Services
<1>3. image[series[s].sha][i] \in Nat
  BY <1>0, <1>2
<1>4. container' \in [Series -> [Services -> Nat]]
  BY <1>0, <1>1, <1>3
<1>5. /\ project' = [project EXCEPT ![s] = project[s] \cup {series[s].ordinal}]
      /\ project[s] \cup {series[s].ordinal} \in SUBSET Nat
  BY <1>0, <1>1, <1>2
<1>6. series' = [series EXCEPT ![s] = series[s]]
  BY <1>0, <1>1
<1>7. /\ project[s] \cup {series[s].ordinal} \subseteq {series[s].ordinal}
      /\ \A r \in DOMAIN series[s].ran :
           series[s].ran[r].observed = [j \in Services |-> series[s].digests[j]]
  BY <1>0 DEF SeriesSound, Over
<1>8. series[s].pc \notin Verified \cup BeforeRuns \cup NothingOnHost
  BY <1>0 DEF Verified, BeforeRuns, NothingOnHost
<1>9. image' \in [Commits -> [Images -> Nat]] /\ tree' \in Tree
  BY <1>0, <1>1
<1> QED BY <1>0, <1>2, <1>4, <1>5, <1>6, <1>7, <1>8, <1>9, OneSeriesMoves

LEMMA RunEndsKeeps ==
  ASSUME SeriesInv, NEW s \in Series, RunEnds(s)
  PROVE  SeriesInv'
<1>1. PICK error \in BOOLEAN :
        series' = [series EXCEPT ![s].error = error, ![s].pc = "capture"]
  BY DEF RunEnds
<1> DEFINE next == [series[s] EXCEPT !.error = error, !.pc = "capture"]
<1>0. /\ series[s] \in Held /\ SeriesSound(s) /\ series[s].pc = "up" /\ UNCHANGED OnHost
  BY OfSeries DEF RunEnds
<1>2. series' = [series EXCEPT ![s] = next]
  BY <1>1, OfSeries
<1>3. next \in Held
  BY <1>0 DEF Held, Pcs
<1>4. /\ next.pc = "capture" /\ next.sha = series[s].sha /\ next.ran = series[s].ran
      /\ next.digests = series[s].digests /\ next.ordinal = series[s].ordinal
  BY <1>0 DEF Held
<1>5. /\ series[s].sha \in Commits /\ project[s] \subseteq {next.ordinal}
      /\ \A r \in DOMAIN next.ran :
           next.ran[r].observed = [j \in Services |-> next.digests[j]]
  BY <1>0, <1>4 DEF SeriesSound, Over
<1> HIDE DEF next
<1> QED BY <1>0, <1>2, <1>3, <1>4, <1>5, SetsFields DEF BeforeRuns, Verified, NothingOnHost

\* A run goes on record only when its containers were created from the digests:
\* the one place where another series' tags could have come in.
LEMMA CaptureKeeps ==
  ASSUME SeriesInv, NEW s \in Series, Capture(s)
  PROVE  SeriesInv'
<1> DEFINE ran == [images |-> series[s].digests, observed |-> container[s]]
<1> DEFINE next == [series[s] EXCEPT !.pc = "copy", !.ran = Append(@, ran)]
<1>0. /\ series[s] \in Held /\ SeriesSound(s) /\ series[s].pc = "capture" /\ UNCHANGED OnHost
      /\ container[s] \in [Services -> Nat] /\ series[s].digests \in [Images -> Nat]
      /\ series[s].ran \in Seq([images : [Images -> Nat], observed : [Services -> Nat]])
  BY OfSeries DEF Capture, Held
<1>1. CASE Attested(s) /\ series' = [series EXCEPT
             ![s].pc = "copy",
             ![s].ran = Append(@, [images |-> series[s].digests, observed |-> container[s]])]
  <2>1. series' = [series EXCEPT ![s] = next]
    BY <1>1, OfSeries
  <2>2. ran \in [images : [Images -> Nat], observed : [Services -> Nat]]
    BY <1>0
  <2>3. container[s] = [j \in Services |-> series[s].digests[j]]
    BY <1>0, <1>1 DEF Attested
  <2>4. ran.observed = container[s]
    OBVIOUS
  <2> HIDE DEF ran
  <2>5. /\ Append(series[s].ran, ran)
             \in Seq([images : [Images -> Nat], observed : [Services -> Nat]])
        /\ \A r \in DOMAIN Append(series[s].ran, ran) :
             \/ r \in DOMAIN series[s].ran /\ Append(series[s].ran, ran)[r] = series[s].ran[r]
             \/ Append(series[s].ran, ran)[r] = ran
    BY <1>0, <2>2
  <2>6. next \in Held
    BY <1>0, <2>5 DEF Held, Pcs
  <2>7. /\ next.pc = "copy" /\ next.sha = series[s].sha
        /\ next.ran = Append(series[s].ran, ran)
        /\ next.digests = series[s].digests /\ next.ordinal = series[s].ordinal
    BY <1>0 DEF Held
  <2>8. /\ series[s].sha \in Commits /\ project[s] \subseteq {next.ordinal}
        /\ \A r \in DOMAIN series[s].ran :
             series[s].ran[r].observed = [j \in Services |-> series[s].digests[j]]
    BY <1>0, <2>7 DEF SeriesSound, Over
  <2> HIDE DEF next
  <2>9. \A r \in DOMAIN next.ran :
          next.ran[r].observed = [j \in Services |-> next.digests[j]]
    <3>1. TAKE r \in DOMAIN next.ran
    <3>2. CASE r \in DOMAIN series[s].ran /\ next.ran[r] = series[s].ran[r]
      BY <2>7, <2>8, <3>2
    <3>3. CASE next.ran[r] = ran
      BY <2>3, <2>4, <2>7, <3>3
    <3> QED BY <2>5, <2>7, <3>2, <3>3
  <2> QED BY <1>0, <2>1, <2>6, <2>7, <2>8, <2>9, SetsFields
             DEF BeforeRuns, Verified, NothingOnHost
<1>2. CASE Go(s, "thrown")
  BY <1>0, <1>2, MayThrow DEF Over
<1> QED BY <1>1, <1>2 DEF Capture

\* down leaves the project as it is, or without the run.
LEMMA DownLeaves ==
  ASSUME SeriesInv, NEW s \in Series, Down(s) \/ UNCHANGED <<project, container>>
  PROVE  /\ container' \in [Series -> [Services -> Nat]]
         /\ \E left \in SUBSET project[s] : project' = [project EXCEPT ![s] = left]
<1>0. project \in [Series -> SUBSET Nat] /\ container \in [Series -> [Services -> Nat]]
  BY OfSeries
<1>1. CASE UNCHANGED <<project, container>>
  <2>1. project' = [project EXCEPT ![s] = project[s]]
    BY <1>0, <1>1
  <2> QED BY <1>0, <1>1, <2>1
<1>2. ASSUME NEW kept \in SUBSET Services,
             container' = [container EXCEPT
               ![s] = [i \in Services |-> IF i \in kept THEN @[i] ELSE 0]],
             \/ UNCHANGED project
             \/ project' = [project EXCEPT ![s] = @ \ {series[s].ordinal}]
      PROVE  /\ container' \in [Series -> [Services -> Nat]]
             /\ \E left \in SUBSET project[s] : project' = [project EXCEPT ![s] = left]
  <2>1. [i \in Services |-> IF i \in kept THEN container[s][i] ELSE 0] \in [Services -> Nat]
    BY <1>0
  <2>2. container' \in [Series -> [Services -> Nat]]
    BY <1>0, <1>2, <2>1
  <2>3. CASE UNCHANGED project
    <3>1. project' = [project EXCEPT ![s] = project[s]]
      BY <1>0, <2>3
    <3> QED BY <2>2, <3>1
  <2>4. CASE project' = [project EXCEPT ![s] = @ \ {series[s].ordinal}]
    <3>1. project' = [project EXCEPT ![s] = project[s] \ {series[s].ordinal}]
      BY <1>0, <2>4
    <3>2. project[s] \ {series[s].ordinal} \in SUBSET project[s]
      OBVIOUS
    <3> QED BY <2>2, <3>1, <3>2
  <2> QED BY <1>2, <2>3, <2>4
<1> QED BY <1>1, <1>2 DEF Down

LEMMA CleanupKeeps ==
  ASSUME SeriesInv, NEW s \in Series, Cleanup(s)
  PROVE  SeriesInv'
<1> DEFINE next == [series[s] EXCEPT !.pc = "removed"]
<1>0. /\ series[s] \in Held /\ SeriesSound(s) /\ series[s].pc = "down"
      /\ image \in [Commits -> [Images -> Nat]] /\ project[s] \in SUBSET Nat /\ tree \in Tree
      /\ UNCHANGED <<tree, image>> /\ Down(s)
  BY OfSeries DEF Cleanup
<1>1. series' = [series EXCEPT ![s] = next]
  BY OfSeries DEF Cleanup, Go
<1>2. next \in Held
  BY <1>0 DEF Held, Pcs
<1>3. /\ next.pc = "removed" /\ next.sha = series[s].sha /\ next.ran = series[s].ran
      /\ next.digests = series[s].digests /\ next.ordinal = series[s].ordinal
  BY <1>0 DEF Held
<1>4. PICK left \in SUBSET project[s] : project' = [project EXCEPT ![s] = left]
  BY <1>0, DownLeaves
<1>5. container' \in [Series -> [Services -> Nat]]
  BY <1>0, DownLeaves
<1>6. /\ series[s].sha \in Commits /\ left \subseteq {next.ordinal} /\ left \in SUBSET Nat
      /\ \A r \in DOMAIN next.ran :
           next.ran[r].observed = [j \in Services |-> next.digests[j]]
  BY <1>0, <1>3 DEF SeriesSound, Over
<1> HIDE DEF next
<1>7. next.pc \notin Verified \cup BeforeRuns \cup NothingOnHost
  BY <1>3 DEF Verified, BeforeRuns, NothingOnHost
<1>8. image' \in [Commits -> [Images -> Nat]] /\ tree' \in Tree
  BY <1>0
<1> QED BY <1>1, <1>2, <1>3, <1>4, <1>5, <1>6, <1>7, <1>8, OneSeriesMoves

\* Nothing is left once the run is found removed: the containers were of this run.
LEMMA AssertRemovedKeeps ==
  ASSUME SeriesInv, NEW s \in Series, AssertRemoved(s)
  PROVE  SeriesInv'
<1> DEFINE next == [series[s] EXCEPT !.pc = IF series[s].error THEN "thrown" ELSE "attest",
                                     !.active = FALSE]
<1>0. series[s] \in Held /\ SeriesSound(s) /\ series[s].pc = "removed" /\ UNCHANGED OnHost
  BY OfSeries DEF AssertRemoved
<1>1. CASE /\ Removed(s)
           /\ series' = [series EXCEPT
                ![s].pc = IF series[s].error THEN "thrown" ELSE "attest", ![s].active = FALSE]
  <2>1. series' = [series EXCEPT ![s] = next]
    BY <1>1, OfSeries
  <2>2. next \in Held
    BY <1>0 DEF Held, Pcs
  <2>3. /\ next.pc \in {"thrown", "attest"} /\ next.sha = series[s].sha
        /\ next.ran = series[s].ran /\ next.digests = series[s].digests
        /\ next.ordinal = series[s].ordinal
    BY <1>0 DEF Held
  <2>4. /\ series[s].sha \in Commits /\ project[s] = {}
        /\ \A r \in DOMAIN next.ran :
             next.ran[r].observed = [j \in Services |-> next.digests[j]]
    BY <1>0, <1>1, <2>3 DEF SeriesSound, Over, Removed
  <2> HIDE DEF next
  <2>5. next.pc \notin Verified \cup BeforeRuns
    BY <2>3 DEF Verified, BeforeRuns
  <2> QED BY <1>0, <2>1, <2>2, <2>3, <2>4, <2>5, SetsFields
<1>2. CASE Go(s, "thrown")
  BY <1>0, <1>2, MayThrow DEF Over
<1> QED BY <1>1, <1>2 DEF AssertRemoved

LEMMA AcceptRunKeeps ==
  ASSUME SeriesInv, NEW s \in Series, AcceptRun(s)
  PROVE  SeriesInv'
<1> DEFINE next == [series[s] EXCEPT !.pc = "run", !.ordinal = @ + 1]
<1>0. series[s] \in Held /\ SeriesSound(s) /\ series[s].pc = "gate" /\ UNCHANGED OnHost
  BY OfSeries DEF AcceptRun
<1>1. CASE series' = [series EXCEPT ![s].pc = "run", ![s].ordinal = @ + 1]
  <2>1. series' = [series EXCEPT ![s] = next]
    BY <1>1, OfSeries
  <2>2. next \in Held
    <3>1. series[s].ordinal + 1 \in Nat
      BY <1>0 DEF Held
    <3> QED BY <1>0, <3>1 DEF Held, Pcs
  <2>3. /\ next.pc = "run" /\ next.sha = series[s].sha
        /\ next.ran = series[s].ran /\ next.digests = series[s].digests
    BY <1>0 DEF Held
  <2>4. /\ series[s].sha \in Commits /\ project[s] = {}
        /\ \A r \in DOMAIN next.ran :
             next.ran[r].observed = [j \in Services |-> next.digests[j]]
    BY <1>0, <2>3 DEF SeriesSound, Over, NothingOnHost
  <2> HIDE DEF next
  <2>5. next.pc \notin Verified \cup BeforeRuns
    BY <2>3 DEF Verified, BeforeRuns
  <2> QED BY <1>0, <2>1, <2>2, <2>3, <2>4, <2>5, SetsFields
<1>2. CASE Go(s, "thrown")
  BY <1>0, <1>2, MayThrow DEF Over
<1>3. CASE Go(s, "script")
  <2>1. MayFollow(s, "script")
    BY <1>0 DEF MayFollow, Pcs, Over, BeforeRuns, Verified, NothingOnHost
  <2> QED BY <1>0, <1>3, <2>1, MovesOn
<1> QED BY <1>1, <1>2, <1>3 DEF AcceptRun

LEMMA ScriptOfTree == ASSUME NEW t \in Tree PROVE Script(t) \in Scripts
BY DEF Tree, Script, Scripts

LEMMA HashScriptKeeps ==
  ASSUME SeriesInv, NEW s \in Series, HashScript(s)
  PROVE  SeriesInv'
<1> DEFINE next == [series[s] EXCEPT !.script = Script(tree), !.pc = "review"]
<1>0. /\ series[s] \in Held /\ SeriesSound(s) /\ series[s].pc = "script" /\ UNCHANGED OnHost
      /\ Script(tree) \in Scripts
  BY OfSeries, ScriptOfTree DEF HashScript
<1>1. CASE series' = [series EXCEPT ![s].script = Script(tree), ![s].pc = "review"]
  <2>1. series' = [series EXCEPT ![s] = next]
    BY <1>1, OfSeries
  <2>2. next \in Held
    BY <1>0 DEF Held, Pcs
  <2>3. /\ next.pc = "review" /\ next.sha = series[s].sha /\ next.ordinal = series[s].ordinal
        /\ next.ran = series[s].ran /\ next.digests = series[s].digests
    BY <1>0 DEF Held
  <2>4. /\ series[s].sha \in Commits /\ project[s] = {}
        /\ \A r \in DOMAIN next.ran :
             next.ran[r].observed = [j \in Services |-> next.digests[j]]
    BY <1>0, <2>3 DEF SeriesSound, Over, NothingOnHost
  <2> HIDE DEF next
  <2>5. next.pc \notin Verified \cup BeforeRuns
    BY <2>3 DEF Verified, BeforeRuns
  <2> QED BY <1>0, <2>1, <2>2, <2>3, <2>4, <2>5, SetsFields
<1>2. CASE Go(s, "thrown")
  BY <1>0, <1>2, MayThrow DEF Over
<1> QED BY <1>1, <1>2 DEF HashScript

LEMMA ReviewSeriesKeeps ==
  ASSUME SeriesInv, NEW s \in Series, ReviewSeries(s)
  PROVE  SeriesInv'
<1> DEFINE next == [series[s] EXCEPT !.reviewed = Script(tree), !.pc = "judge"]
<1>0. /\ series[s] \in Held /\ SeriesSound(s) /\ series[s].pc = "review" /\ UNCHANGED OnHost
      /\ Script(tree) \in Scripts
  BY OfSeries, ScriptOfTree DEF ReviewSeries
<1>1. CASE series' = [series EXCEPT ![s].reviewed = Script(tree), ![s].pc = "judge"]
  <2>1. series' = [series EXCEPT ![s] = next]
    BY <1>1, OfSeries
  <2>2. next \in Held
    BY <1>0 DEF Held, Pcs
  <2>3. /\ next.pc = "judge" /\ next.sha = series[s].sha /\ next.ordinal = series[s].ordinal
        /\ next.ran = series[s].ran /\ next.digests = series[s].digests
    BY <1>0 DEF Held
  <2>4. /\ series[s].sha \in Commits /\ project[s] = {}
        /\ \A r \in DOMAIN next.ran :
             next.ran[r].observed = [j \in Services |-> next.digests[j]]
    BY <1>0, <2>3 DEF SeriesSound, Over, NothingOnHost
  <2> HIDE DEF next
  <2>5. next.pc \notin Verified \cup BeforeRuns
    BY <2>3 DEF Verified, BeforeRuns
  <2> QED BY <1>0, <2>1, <2>2, <2>3, <2>4, <2>5, SetsFields
<1>2. CASE Go(s, "thrown")
  BY <1>0, <1>2, MayThrow DEF Over
<1> QED BY <1>1, <1>2 DEF ReviewSeries

\* The verifier counts the runs and knows the reviewer's script of the commit.
LEMMA OfflineVerifierKeeps ==
  ASSUME SeriesInv, NEW s \in Series, OfflineVerifier(s)
  PROVE  SeriesInv'
<1> DEFINE next == [series[s] EXCEPT !.pc = "last"]
<1>0. series[s] \in Held /\ SeriesSound(s) /\ series[s].pc = "verify" /\ UNCHANGED OnHost
  BY OfSeries DEF OfflineVerifier
<1>1. CASE PackageValid(s) /\ Go(s, "last")
  <2>1. series' = [series EXCEPT ![s] = next]
    BY <1>1, OfSeries DEF Go
  <2>2. next \in Held
    BY <1>0 DEF Held, Pcs
  <2>3. /\ next.pc = "last" /\ next.sha = series[s].sha /\ next.ordinal = series[s].ordinal
        /\ next.ran = series[s].ran /\ next.digests = series[s].digests
        /\ next.reviewed = series[s].reviewed
    BY <1>0 DEF Held
  <2>4. /\ series[s].sha \in Commits /\ project[s] = {}
        /\ \A r \in DOMAIN next.ran :
             next.ran[r].observed = [j \in Services |-> next.digests[j]]
    BY <1>0, <2>3 DEF SeriesSound, Over, NothingOnHost
  <2>5. Len(next.ran) = REQUIRED_RUNS /\ next.reviewed = [at |-> next.sha, edited |-> FALSE]
    BY <1>1, <2>3 DEF PackageValid, EnoughRuns, OwnScript
  <2> HIDE DEF next
  <2>6. next.pc \notin BeforeRuns
    BY <2>3 DEF BeforeRuns
  <2> QED BY <1>0, <2>1, <2>2, <2>3, <2>4, <2>5, <2>6, SetsFields
<1>2. CASE Go(s, "thrown")
  BY <1>0, <1>2, MayThrow DEF Over
<1> QED BY <1>1, <1>2 DEF OfflineVerifier, Require

\* What an invocation holds at its end.
LEMMA NewInvocation ==
  ASSUME NEW pc \in Pcs
  PROVE  Invocation(pc) \in Held /\ Invocation(pc).pc = pc /\ Invocation(pc).ran = <<>>
<1>1. /\ NotBuilt \in [Images -> Nat] /\ NoTree \in Tree \cup {NoTree} /\ NoScript \in Scripts
      /\ <<>> \in Seq([images : [Images -> Nat], observed : [Services -> Nat]])
  BY DEF NotBuilt, NoScript, Scripts
<1>2. Invocation(pc) \in Held
  BY <1>1 DEF Invocation, Held
<1>3. Invocation(pc).pc = pc /\ Invocation(pc).ran = <<>>
  BY DEF Invocation
<1> QED BY <1>2, <1>3

\* Whatever an invocation leaves behind when it is over is nobody's any more.
LEMMA IsOver ==
  ASSUME SeriesInv, NEW s \in Series, NEW next \in Held, next.pc \in Over,
         next.ran = <<>>,
         series' = [series EXCEPT ![s] = next], UNCHANGED <<tree, image>>,
         Down(s) \/ UNCHANGED <<project, container>>
  PROVE  SeriesInv'
<1>1. PICK left \in SUBSET project[s] : project' = [project EXCEPT ![s] = left]
  BY DownLeaves
<1>2. /\ container' \in [Series -> [Services -> Nat]] /\ left \in SUBSET Nat
      /\ image' \in [Commits -> [Images -> Nat]] /\ tree' \in Tree
  BY DownLeaves, OfSeries
<1>3. next.pc \notin BeforeRuns \cup Verified \cup NothingOnHost
  BY DEF Over, BeforeRuns, Verified, NothingOnHost
<1>4. DOMAIN next.ran = {}
  <2>1. DOMAIN <<>> = {}
    OBVIOUS
  <2> QED BY <2>1
<1> QED BY <1>1, <1>2, <1>3, <1>4, OneSeriesMoves

LEMMA AbandonKeeps ==
  ASSUME SeriesInv, NEW s \in Series, Abandon(s)
  PROVE  SeriesInv'
<1> DEFINE last == Invocation("failed")
<1> DEFINE next == [last EXCEPT !.active = series[s].active, !.ordinal = series[s].ordinal]
<1>1. series[s].active \in BOOLEAN /\ series[s].ordinal \in Nat
  BY OfSeries DEF Held
<1>2. last \in Held /\ last.pc = "failed" /\ last.ran = <<>>
  <2>1. "failed" \in Pcs
    BY DEF Pcs
  <2> QED BY <2>1, NewInvocation
<1>3. /\ series' = [series EXCEPT ![s] = next] /\ UNCHANGED <<tree, image>>
      /\ Down(s) \/ UNCHANGED <<project, container>>
  BY DEF Abandon
<1> HIDE DEF last
<1>4. next \in Held /\ next.pc = "failed" /\ next.ran = <<>>
  BY <1>1, <1>2 DEF Held
<1> HIDE DEF next
<1> QED BY <1>3, <1>4, IsOver DEF Over

\* After the signal a series counts as over, whatever it holds.
LEMMA SignalHandlerKeeps ==
  ASSUME SeriesInv, NEW s \in Series, SignalHandler(s)
  PROVE  SeriesInv'
<1> DEFINE next == [series[s] EXCEPT !.pc = "interrupted"]
<1>0. series[s] \in Held /\ SeriesSound(s)
  BY OfSeries
<1>1. /\ next \in Held /\ next.pc = "interrupted" /\ next.ran = series[s].ran
      /\ next.digests = series[s].digests
  BY <1>0 DEF Held, Pcs
<1>2. /\ series' = [series EXCEPT ![s] = next] /\ UNCHANGED <<tree, image>>
      /\ Down(s) \/ UNCHANGED <<project, container>>
  BY OfSeries DEF SignalHandler, Go
<1>3. PICK left \in SUBSET project[s] : project' = [project EXCEPT ![s] = left]
  BY <1>2, DownLeaves
<1>4. /\ container' \in [Series -> [Services -> Nat]] /\ left \in SUBSET Nat
      /\ image' \in [Commits -> [Images -> Nat]] /\ tree' \in Tree
  BY <1>2, DownLeaves, OfSeries
<1>5. \A r \in DOMAIN next.ran : next.ran[r].observed = [j \in Services |-> next.digests[j]]
  BY <1>0, <1>1 DEF SeriesSound
<1> HIDE DEF next
<1>6. next.pc \in Over /\ next.pc \notin BeforeRuns \cup Verified \cup NothingOnHost
  BY <1>1 DEF Over, BeforeRuns, Verified, NothingOnHost
<1> QED BY <1>1, <1>2, <1>3, <1>4, <1>5, <1>6, OneSeriesMoves

LEMMA KilledKeeps ==
  ASSUME SeriesInv, NEW s \in Series, Killed(s)
  PROVE  SeriesInv'
<1> DEFINE next == Invocation("killed")
<1>1. next \in Held /\ next.pc = "killed" /\ next.ran = <<>>
  <2>1. "killed" \in Pcs
    BY DEF Pcs
  <2> QED BY <2>1, NewInvocation
<1> HIDE DEF next
<1>2. series' = [series EXCEPT ![s] = next] /\ UNCHANGED OnHost
  BY DEF Killed, next
<1> QED BY <1>1, <1>2, IsOver DEF Over, OnHost

\* The working tree is nobody's: no series' record follows it.
LEMMA DevelopersKeep ==
  ASSUME SeriesInv, EditTree \/ \E c \in Commits : Checkout(c)
  PROVE  SeriesInv'
<1>0. GateSeriesTypeOK /\ \A t \in Series : SeriesSound(t)
  BY DEF SeriesInv
<1>1. UNCHANGED <<image, project, container, series>>
  BY DEF EditTree, Checkout
<1>2. tree' \in Tree
  BY <1>0 DEF GateSeriesTypeOK, EditTree, Checkout, Tree
<1>3. GateSeriesTypeOK'
  BY <1>0, <1>1, <1>2 DEF GateSeriesTypeOK
<1>4. ASSUME NEW t \in Series PROVE SeriesSound(t)'
  <2>1. SeriesSound(t)
    BY <1>0
  <2> QED BY <1>1, <2>1 DEF SeriesSound, OwnScript
<1> QED BY <1>3, <1>4 DEF SeriesInv

\* Every step of the gate's host keeps the invariant.
LEMMA SeriesStep == SeriesInv /\ [GateSeriesNext]_seriesVars => SeriesInv'
<1> SUFFICES ASSUME SeriesInv, [GateSeriesNext]_seriesVars PROVE SeriesInv'
  OBVIOUS
<1>1. CASE UNCHANGED seriesVars
  <2>0. GateSeriesTypeOK /\ \A t \in Series : SeriesSound(t)
    BY DEF SeriesInv
  <2>1. GateSeriesTypeOK'
    BY <1>1, <2>0 DEF GateSeriesTypeOK, seriesVars
  <2>2. ASSUME NEW t \in Series PROVE SeriesSound(t)'
    <3>1. SeriesSound(t)
      BY <2>0
    <3> QED BY <1>1, <3>1 DEF SeriesSound, OwnScript, seriesVars
  <2> QED BY <2>1, <2>2 DEF SeriesInv
<1>2. ASSUME NEW s \in Series,
             \/ BeginSeries(s) \/ CreateAttestor(s) \/ AttestIsolation(s) \/ StartRun(s)
             \/ CompareHead(s) \/ CopyArtifacts(s) \/ AttestRun(s) \/ CheckChain(s)
             \/ JudgeReview(s) \/ InspectVerifier(s) \/ LastCheck(s)
      PROVE  SeriesInv'
  BY <1>2, LooksOn
<1>3. ASSUME NEW s \in Series,
             \/ ReadHead(s) \/ HashTree(s) \/ ImagesBuilt(s)
             \/ \E i \in Images : BuildImage(s, i) \/ InspectImage(s, i)
      PROVE  SeriesInv'
  BY <1>3, ReadHeadKeeps, HashTreeKeeps, ImagesBuiltKeeps, BuildImageKeeps, InspectImageKeeps
<1>4. ASSUME NEW s \in Series,
             \/ CompareSource(s) \/ RunEnds(s) \/ Capture(s) \/ Cleanup(s)
             \/ AssertRemoved(s) \/ AcceptRun(s)
             \/ \E i \in Services : CreateContainer(s, i)
      PROVE  SeriesInv'
  BY <1>4, CompareSourceKeeps, RunEndsKeeps, CaptureKeeps, CleanupKeeps, AssertRemovedKeeps,
     AcceptRunKeeps, CreateContainerKeeps
<1>5. ASSUME NEW s \in Series,
             \/ HashScript(s) \/ ReviewSeries(s) \/ OfflineVerifier(s)
             \/ Abandon(s) \/ SignalHandler(s) \/ Killed(s)
      PROVE  SeriesInv'
  BY <1>5, HashScriptKeeps, ReviewSeriesKeeps, OfflineVerifierKeeps, AbandonKeeps,
     SignalHandlerKeeps, KilledKeeps
<1> QED BY <1>1, <1>2, <1>3, <1>4, <1>5, DevelopersKeep DEF GateSeriesNext

\* The invariant says what is promised of a series that passed, and of every other.
LEMMA SeriesInvIsOfOneBuild == SeriesInv => SeriesIsOfOneBuild
BY DEF SeriesInv, SeriesSound, SeriesIsOfOneBuild, Verified, NothingOnHost, Over

\* GateSeries: a series of the official gate that passed ran as often as required,
\* every time from the very images it had inspected, with the reviewer's script of
\* its commit, and left nothing on the host - however many series of however many
\* commits share the host and its tags, and whatever developers do to the tree.
THEOREM SeriesBuiltOnce == GateSeriesSpec => []SeriesIsOfOneBuild
<1>1. SeriesInv /\ [GateSeriesNext]_seriesVars => SeriesInv'
  BY SeriesStep
<1>2. GateSeriesInit => SeriesInv
  BY SeriesInit
<1>3. SeriesInv => SeriesIsOfOneBuild
  BY SeriesInvIsOfOneBuild
<1> QED BY <1>1, <1>2, <1>3, PTL DEF GateSeriesSpec

-----------------------------------------------------------------------------
(* The acceptance gate.  PassedRunIsAccountedFor is decided in the last step;  *)
(* what the five processes did before is what the verdict is about.            *)

\* How far a message has come: what is stored of it, what is answered, and what
\* the evaluator may think of that.
MessageSound(n) ==
  /\ asked[n] = "no" => journey[n] = "none"
  /\ journey[n] \in {"none", "sent", "forwarded"} => n \notin turns
  /\ journey[n] \in {"working", "replied"} => n \in turns
  /\ journey[n] = "replied" => n \in replies
  /\ status[n] # 0 => journey[n] \in {"answered", "recorded", "lost"}
  /\ status[n] = 201 => n \in replies
  /\ asked[n] = "fine" =>
       journey[n] \in {"recorded", "lost"} /\ (status[n] = 201 \/ n \in Refusable)

\* What the witness executed it has signed, and what is used was executed.
CallSound(n) == calls[n].pc = "done" => <<n, calls[n].capability>> \in Range(events)

\* The application is down when the records are closed, so that nothing is stored or
\* used any more; and the record of the witness then holds what was used before.
Closing == supervisor \in {"closeProxy", "closeWitness", "verify", "passed"}

GateInv ==
  /\ GateTypeOK
  /\ replies \subseteq turns
  /\ \A n \in Messages : MessageSound(n) /\ CallSound(n)
  /\ used \subseteq Range(events)
  /\ evaluator = "accepts" => \A n \in Messages : asked[n] = "fine"
  /\ Closing => ~served
  /\ supervisor \in {"verify", "passed"} => used \subseteq Range(testimony)
  /\ PassedRunIsAccountedFor

LEMMA GateBegins == GateInit => GateInv
<1> SUFFICES ASSUME GateInit PROVE GateInv
  OBVIOUS
<1> USE DEF GateInit
<1>1. GateTypeOK
  <2>1. entries \in Seq(Messages) /\ events \in Seq(Messages \X (Capabilities \cup {"none"}))
    OBVIOUS
  <2>2. transcript \in Seq(Messages \cup {0})
    BY DEF Open
  <2> QED
    BY <2>1, <2>2 DEF GateTypeOK, NoCall, Open
<1>2. ASSUME NEW n \in Messages PROVE MessageSound(n) /\ CallSound(n)
  BY DEF MessageSound, CallSound, NoCall
<1> QED
  BY <1>1, <1>2 DEF GateInv, Closing, PassedRunIsAccountedFor

-----------------------------------------------------------------------------
(* What a message, a call and the records may do to each other.                *)

\* A step that leaves a message, its answer and its rows alone leaves it sound.
LEMMA MessageAlone ==
  ASSUME NEW n \in Messages, MessageSound(n),
         asked'[n] = asked[n], journey'[n] = journey[n], status'[n] = status[n],
         n \in turns' <=> n \in turns, n \in replies' <=> n \in replies
  PROVE  MessageSound(n)'
BY DEF MessageSound

\* The verdict of a passed run is about what is closed.
LEMMA VerdictStands ==
  ASSUME PassedRunIsAccountedFor, supervisor' = "passed" => supervisor = "passed",
         UNCHANGED <<turns, replies, status, used, transcript, testimony>>
  PROVE  PassedRunIsAccountedFor'
BY DEF PassedRunIsAccountedFor

\* Nothing the application does is left when the verdict is told.
LEMMA NotYetPassed ==
  ASSUME GateInv, served, UNCHANGED supervisor
  PROVE  /\ ~Closing
         /\ PassedRunIsAccountedFor'
BY DEF GateInv, Closing, PassedRunIsAccountedFor

-----------------------------------------------------------------------------
(* The evaluator and the proxy                                                 *)


LEMMA EvaluatorKeeps ==
  ASSUME GateInv, NEW n \in Messages, SendNext(n) \/ GiveUp(n)
  PROVE  GateInv'
<1>1. /\ asked' \in [Messages -> {"no", "waits", "fine", "failed"}]
      /\ journey' \in [Messages -> {"none", "sent", "forwarded", "working", "replied",
                                    "answered", "recorded", "lost"}]
      /\ \A k \in Messages \ {n} : asked'[k] = asked[k] /\ journey'[k] = journey[k]
      /\ \/ asked[n] = "no" /\ asked'[n] = "waits" /\ journey'[n] = "sent"
         \/ asked[n] = "waits" /\ asked'[n] = "failed" /\ journey'[n] = journey[n]
      /\ asked[n] # "fine"
  <2>1. CASE SendNext(n)
    BY <2>1 DEF GateInv, GateTypeOK, SendNext, Learn, Move
  <2>2. CASE GiveUp(n)
    BY <2>2 DEF GateInv, GateTypeOK, GiveUp, Learn
  <2> QED
    BY <2>1, <2>2
<1>2. UNCHANGED <<evaluator, status, turns, replies, calls, used, served, entries, events,
                  transcript, testimony, supervisor>>
  BY DEF SendNext, GiveUp
<1>3. GateTypeOK'
  BY <1>1, <1>2 DEF GateInv, GateTypeOK
<1>4. ASSUME NEW k \in Messages PROVE MessageSound(k)' /\ CallSound(k)'
  <2>1. CallSound(k)'
    BY <1>2 DEF GateInv, CallSound
  <2>2. CASE k # n
    BY <1>1, <1>2, <2>1, <2>2, MessageAlone DEF GateInv
  <2>3. CASE k = n
    BY <1>1, <1>2, <2>1, <2>3 DEF GateInv, MessageSound
  <2> QED
    BY <2>2, <2>3
<1>5. PassedRunIsAccountedFor'
  BY <1>2, VerdictStands DEF GateInv
<1> QED
  BY <1>1, <1>2, <1>3, <1>4, <1>5 DEF GateInv, Closing

\* What an answer makes of what the evaluator knows.
LEMMA TakenAs ==
  ASSUME GateTypeOK, NEW n \in Messages, NEW code, NEW new, new = Taken(n, code)
  PROVE  /\ new \in [Messages -> {"no", "waits", "fine", "failed"}]
         /\ \A k \in Messages \ {n} : new[k] = asked[k]
         /\ asked[n] # "waits" => new[n] = asked[n]
         /\ new[n] = "fine" => asked[n] = "fine" \/ code = 201 \/ n \in Refusable
         /\ new[n] = "no" => asked[n] = "no"
<1>1. CASE asked[n] # "waits"
  BY <1>1 DEF GateTypeOK, Taken
<1>2. CASE asked[n] = "waits"
  <2>1. PICK what \in {"fine", "failed"} :
          /\ new = [asked EXCEPT ![n] = what]
          /\ what = "fine" => code = 201 \/ n \in Refusable
    BY <1>2 DEF Taken
  <2> QED
    BY <1>2, <2>1 DEF GateTypeOK
<1> QED
  BY <1>1, <1>2

LEMMA ProxyKeeps ==
  ASSUME GateInv, NEW n \in Messages, Forward(n) \/ NotAnswered(n) \/ PassOn(n)
  PROVE  GateInv'
<1>1. /\ asked' \in [Messages -> {"no", "waits", "fine", "failed"}]
      /\ \A k \in Messages \ {n} : asked'[k] = asked[k]
      /\ asked[n] # "waits" => asked'[n] = asked[n]
      /\ asked'[n] = "fine" => asked[n] = "fine" \/ status[n] = 201 \/ n \in Refusable
      /\ asked'[n] = "no" => asked[n] = "no"
      /\ journey'[n] = "forwarded" => UNCHANGED asked
  <2>1. CASE UNCHANGED asked
    BY <2>1 DEF GateInv, GateTypeOK
  <2>2. CASE asked' = Taken(n, 401) \/ asked' = Taken(n, 503) \/ asked' = Taken(n, 502)
             \/ asked' = Taken(n, status[n])
    <3>1. journey'[n] # "forwarded" \/ UNCHANGED asked
      BY DEF GateInv, GateTypeOK, Forward, NotAnswered, PassOn, Move
    <3> QED
      BY <2>2, <3>1, TakenAs DEF GateInv
  <2> QED
    BY <2>1, <2>2 DEF Forward, NotAnswered, PassOn
<1>2. /\ journey' \in [Messages -> {"none", "sent", "forwarded", "working", "replied",
                                    "answered", "recorded", "lost"}]
      /\ \A k \in Messages \ {n} : journey'[k] = journey[k]
      /\ journey[n] \notin {"none", "recorded", "lost"}
      /\ \/ journey[n] = "sent" /\ journey'[n] = "forwarded"
         \/ journey'[n] \in {"recorded", "lost"}
  <2>1. PICK place \in {"forwarded", "recorded", "lost"} :
          /\ journey' = [journey EXCEPT ![n] = place]
          /\ place = "forwarded" => journey[n] = "sent"
    BY DEF Forward, NotAnswered, PassOn, Move
  <2>2. journey[n] \in {"sent", "forwarded", "working", "replied", "answered"}
    BY DEF Forward, NotAnswered, PassOn
  <2> QED
    BY <2>1, <2>2 DEF GateInv, GateTypeOK
<1>3. UNCHANGED <<evaluator, status, turns, replies, calls, used, served, events, transcript,
                  testimony, supervisor>>
  BY DEF Forward, NotAnswered, PassOn
<1>4. entries' \in Seq(Messages)
  <2>1. CASE UNCHANGED entries
    BY <2>1 DEF GateInv, GateTypeOK
  <2>2. CASE entries' = Append(entries, n)
    BY <2>2 DEF GateInv, GateTypeOK
  <2> QED
    BY <2>1, <2>2 DEF Forward, NotAnswered, PassOn
<1>5. GateTypeOK'
  BY <1>1, <1>2, <1>3, <1>4 DEF GateInv, GateTypeOK
<1>6. ASSUME NEW k \in Messages PROVE MessageSound(k)' /\ CallSound(k)'
  <2>1. CallSound(k)'
    BY <1>3 DEF GateInv, CallSound
  <2>2. CASE k # n
    BY <1>1, <1>2, <1>3, <2>1, <2>2, MessageAlone DEF GateInv
  <2>3. CASE k = n
    BY <1>1, <1>2, <1>3, <2>1, <2>3 DEF GateInv, MessageSound
  <2> QED
    BY <2>2, <2>3
<1>7. PassedRunIsAccountedFor'
  BY <1>3, VerdictStands DEF GateInv
<1>8. evaluator' = "accepts" => \A k \in Messages : asked'[k] = "fine"
  BY <1>1, <1>3 DEF GateInv
<1> QED
  BY <1>3, <1>5, <1>6, <1>7, <1>8 DEF GateInv, Closing

LEMMA ExitKeeps ==
  ASSUME GateInv, Exit
  PROVE  GateInv'
<1>1. UNCHANGED <<asked, journey, status, turns, replies, calls, used, served, entries, events,
                  transcript, testimony, supervisor>>
  BY DEF Exit
<1>2. /\ evaluator' \in {"accepts", "rejects"}
      /\ evaluator' = "accepts" => \A n \in Messages : asked[n] = "fine"
  BY DEF Exit
<1>3. GateTypeOK'
  BY <1>1, <1>2 DEF GateInv, GateTypeOK
<1>4. ASSUME NEW n \in Messages PROVE MessageSound(n)' /\ CallSound(n)'
  BY <1>1 DEF GateInv, MessageSound, CallSound
<1>5. PassedRunIsAccountedFor'
  BY <1>1, VerdictStands DEF GateInv
<1> QED
  BY <1>1, <1>2, <1>3, <1>4, <1>5 DEF GateInv, Closing

-----------------------------------------------------------------------------
(* The capability calls                                                        *)

\* What is signed stays signed.
LEMMA EventsGrow ==
  ASSUME GateTypeOK, NEW e \in Messages \X (Capabilities \cup {"none"}),
         events' = Append(events, e)
  PROVE  /\ events' \in Seq(Messages \X (Capabilities \cup {"none"}))
         /\ Range(events) \subseteq Range(events')
         /\ e \in Range(events')
<1>1. events \in Seq(Messages \X (Capabilities \cup {"none"}))
  BY DEF GateTypeOK
<1>2. /\ events' \in Seq(Messages \X (Capabilities \cup {"none"}))
      /\ Len(events') = Len(events) + 1
      /\ \A i \in 1 .. Len(events) : events'[i] = events[i]
      /\ events'[Len(events) + 1] = e
  BY <1>1
<1>3. DOMAIN events = 1 .. Len(events) /\ DOMAIN events' = 1 .. Len(events) + 1
  BY <1>1, <1>2
<1>4. Len(events) \in Nat
  BY <1>1
<1> QED
  BY <1>2, <1>3, <1>4 DEF Range

CallPcs == {"none", "asked", "executing", "refused", "done"}

\* Moving a call on.
LEMMA CallMoves ==
  ASSUME NEW table, NEW n \in Messages, NEW pc \in CallPcs, NEW new,
         table \in [Messages -> [pc : CallPcs, capability : Capabilities \cup {"none"}]],
         new = [table EXCEPT ![n].pc = pc]
  PROVE  new = [table EXCEPT ![n] = [pc |-> pc, capability |-> table[n].capability]]
<1>1. table[n] \in [pc : CallPcs, capability : Capabilities \cup {"none"}]
  OBVIOUS
<1>2. ASSUME NEW r \in [pc : CallPcs, capability : Capabilities \cup {"none"}]
      PROVE  [r EXCEPT !.pc = pc] = [pc |-> pc, capability |-> r.capability]
  OBVIOUS
<1> QED
  BY <1>1, <1>2

\* A call goes on: if it is done now, what it asked for is signed.
LEMMA CallsKeep ==
  ASSUME GateInv, NEW n \in Messages,
         Gateway(n) \/ Witness(n) \/ AskWitness(n)
  PROVE  GateInv'
<1>1. UNCHANGED <<asked, evaluator, journey, status, turns, replies, used, served, entries,
                  transcript, testimony, supervisor>>
  BY DEF Gateway, Witness, AskWitness
<1>2. PICK pc \in CallPcs, capability \in Capabilities \cup {"none"} :
        /\ calls' = [calls EXCEPT ![n] = [pc |-> pc, capability |-> capability]]
        /\ pc = "done" =>
             /\ capability = calls[n].capability
             /\ events' = Append(events, <<n, calls[n].capability>>)
  <2>1. /\ calls \in [Messages -> [pc : CallPcs, capability : Capabilities \cup {"none"}]]
        /\ calls[n].capability \in Capabilities \cup {"none"}
    BY DEF GateInv, GateTypeOK, CallPcs
  <2>2. CASE Gateway(n)
    <3>1. PICK pc \in {"executing", "refused"} : calls' = [calls EXCEPT ![n].pc = pc]
      BY <2>2 DEF Gateway
    <3>2. calls' = [calls EXCEPT ![n] = [pc |-> pc, capability |-> calls[n].capability]]
      BY <2>1, <3>1, CallMoves DEF CallPcs
    <3> QED
      BY <2>1, <3>1, <3>2 DEF CallPcs
  <2>3. CASE Witness(n)
    <3>1. PICK pc \in {"done", "refused"} :
            /\ calls' = [calls EXCEPT ![n].pc = pc]
            /\ pc = "done" => events' = Append(events, <<n, calls[n].capability>>)
      BY <2>3 DEF Witness
    <3>2. calls' = [calls EXCEPT ![n] = [pc |-> pc, capability |-> calls[n].capability]]
      BY <2>1, <3>1, CallMoves DEF CallPcs
    <3> QED
      BY <2>1, <3>1, <3>2 DEF CallPcs
  <2>4. CASE AskWitness(n)
    BY <2>4 DEF AskWitness, CallPcs
  <2> QED
    BY <2>2, <2>3, <2>4
<1>3. /\ calls' \in [Messages -> [pc : {"none", "asked", "executing", "refused", "done"},
                                  capability : Capabilities \cup {"none"}]]
      /\ \A k \in Messages : calls'[k] # calls[k] =>
           /\ k = n
           /\ calls'[n].pc = "done" =>
                /\ calls'[n].capability = calls[n].capability
                /\ events' = Append(events, <<n, calls[n].capability>>)
  BY <1>2 DEF GateInv, GateTypeOK, CallPcs
<1>4. UNCHANGED events \/ events' = Append(events, <<n, calls[n].capability>>)
  BY DEF Gateway, Witness, AskWitness
<1>5. <<n, calls[n].capability>> \in Messages \X (Capabilities \cup {"none"})
  BY DEF GateInv, GateTypeOK
<1>6. /\ events' \in Seq(Messages \X (Capabilities \cup {"none"}))
      /\ Range(events) \subseteq Range(events')
      /\ events' = Append(events, <<n, calls[n].capability>>)
           => <<n, calls[n].capability>> \in Range(events')
  <2>1. CASE events' = Append(events, <<n, calls[n].capability>>)
    BY <1>5, <2>1, EventsGrow DEF GateInv
  <2>2. CASE UNCHANGED events /\ events' # Append(events, <<n, calls[n].capability>>)
    BY <2>2 DEF GateInv, GateTypeOK
  <2> QED
    BY <1>4, <2>1, <2>2
<1>7. GateTypeOK'
  BY <1>1, <1>3, <1>6 DEF GateInv, GateTypeOK
<1>8. ASSUME NEW k \in Messages PROVE MessageSound(k)' /\ CallSound(k)'
  <2>1. MessageSound(k)'
    BY <1>1 DEF GateInv, MessageSound
  <2>2. CASE calls'[k] = calls[k]
    BY <1>6, <2>1, <2>2 DEF GateInv, CallSound
  <2>3. CASE calls'[k] # calls[k]
    BY <1>3, <1>6, <2>1, <2>3 DEF CallSound
  <2> QED
    BY <2>2, <2>3
<1>9. PassedRunIsAccountedFor'
  BY <1>1, VerdictStands DEF GateInv
<1> QED
  BY <1>1, <1>6, <1>7, <1>8, <1>9 DEF GateInv, Closing

LEMMA UseKeeps ==
  ASSUME GateInv, NEW n \in Messages, Use(n)
  PROVE  GateInv'
<1>1. UNCHANGED <<asked, evaluator, journey, status, turns, replies, served, entries, events,
                  transcript, testimony, supervisor>> /\ served
  BY DEF Use
<1>2. /\ used' = used \cup {<<n, calls[n].capability>>}
      /\ <<n, calls[n].capability>> \in Range(events)
  BY DEF Use, GateInv, CallSound
<1>3. <<n, calls[n].capability>> \in Messages \X (Capabilities \cup {"none"})
  BY DEF GateInv, GateTypeOK
<1>4. /\ calls' \in [Messages -> [pc : {"none", "asked", "executing", "refused", "done"},
                                  capability : Capabilities \cup {"none"}]]
      /\ \A k \in Messages : calls'[k].pc = "done" => calls'[k] = calls[k]
  BY DEF GateInv, GateTypeOK, Use, NoCall
<1>5. GateTypeOK'
  BY <1>1, <1>2, <1>3, <1>4 DEF GateInv, GateTypeOK
<1>6. ASSUME NEW k \in Messages PROVE MessageSound(k)' /\ CallSound(k)'
  <2>1. MessageSound(k)'
    BY <1>1 DEF GateInv, MessageSound
  <2>2. CallSound(k)'
    BY <1>1, <1>4 DEF GateInv, CallSound
  <2> QED
    BY <2>1, <2>2
<1>7. PassedRunIsAccountedFor' /\ ~Closing
  BY <1>1, NotYetPassed
<1> QED
  BY <1>1, <1>2, <1>5, <1>6, <1>7 DEF GateInv, Closing

-----------------------------------------------------------------------------
(* The application                                                             *)

\* What the application stores and answers concerns one message, which it works on.
MessageWrites(n, place, code) ==
  /\ journey[n] \in {"forwarded", "working", "replied"}
  /\ journey' = [journey EXCEPT ![n] = place]
  /\ status' = [status EXCEPT ![n] = code]
  /\ turns' = IF place = "working" THEN turns \cup {n} ELSE turns
  /\ replies' = IF place = "replied" THEN replies \cup {n} ELSE replies
  /\ place # "answered" => code = 0
  /\ code = 201 => journey[n] = "replied"
  /\ place = "replied" => journey[n] = "working"

LEMMA ApplicationKeeps ==
  ASSUME GateInv, NEW n \in Messages, Accept(n) \/ Conclude(n) \/ Reply(n)
  PROVE  GateInv'
<1>1. UNCHANGED <<asked, evaluator, used, served, entries, events, transcript, testimony,
                  supervisor>> /\ served
  BY DEF Accept, Conclude, Reply
<1>2. PICK place \in {"working", "replied", "answered"}, code \in {0, 201, 401, 403, 404, 500} :
        MessageWrites(n, place, code)
  <2>1. status[n] = 0 /\ status = [status EXCEPT ![n] = 0]
    <3>1. status[n] = 0
      BY DEF GateInv, MessageSound, Accept, Conclude, Reply
    <3>2. status \in [Messages -> {0, 201, 401, 403, 404, 500}]
      BY DEF GateInv, GateTypeOK
    <3> QED
      BY <3>1, <3>2
  <2>2. CASE Accept(n)
    <3>1. \/ MessageWrites(n, "working", 0)
          \/ \E code \in {401, 403, 404, 500} : MessageWrites(n, "answered", code)
      BY <2>1, <2>2 DEF Accept, Move, MessageWrites
    <3> QED
      BY <3>1
  <2>3. CASE Conclude(n)
    <3>1. \/ MessageWrites(n, "replied", 0)
          \/ \E code \in {403, 500} : MessageWrites(n, "answered", code)
      BY <2>1, <2>3 DEF Conclude, Move, MessageWrites
    <3> QED
      BY <3>1
  <2>4. CASE Reply(n)
    <3>1. PICK code \in {201, 403, 500} : status' = [status EXCEPT ![n] = code]
      BY <2>4 DEF Reply
    <3>2. /\ journey[n] = "replied" /\ journey' = [journey EXCEPT ![n] = "answered"]
          /\ turns' = turns /\ replies' = replies
      BY <2>4 DEF Reply, Move
    <3>3. MessageWrites(n, "answered", code)
      BY <3>1, <3>2 DEF MessageWrites
    <3> QED
      BY <3>3
  <2> QED
    BY <2>2, <2>3, <2>4
<1>3. /\ calls' \in [Messages -> [pc : {"none", "asked", "executing", "refused", "done"},
                                  capability : Capabilities \cup {"none"}]]
      /\ \A k \in Messages : calls'[k].pc = "done" => calls'[k] = calls[k]
  BY DEF GateInv, GateTypeOK, Accept, Conclude, Reply, NoCall
<1>4. GateTypeOK'
  <2>1. turns' \subseteq Messages /\ replies' \subseteq Messages
    BY <1>2 DEF MessageWrites, GateInv, GateTypeOK
  <2>2. /\ journey' \in [Messages -> {"none", "sent", "forwarded", "working", "replied",
                                      "answered", "recorded", "lost"}]
        /\ status' \in [Messages -> {0, 201, 401, 403, 404, 500}]
    BY <1>2 DEF MessageWrites, GateInv, GateTypeOK
  <2> QED
    BY <1>1, <1>3, <2>1, <2>2 DEF GateInv, GateTypeOK
<1>5. ASSUME NEW k \in Messages PROVE MessageSound(k)' /\ CallSound(k)'
  <2>1. CallSound(k)'
    BY <1>1, <1>3 DEF GateInv, CallSound
  <2>2. CASE k # n
    BY <1>1, <1>2, <2>1, <2>2, MessageAlone DEF MessageWrites, GateInv, GateTypeOK
  <2>3. CASE k = n
    <3>1. journey'[n] = place /\ status'[n] = code /\ asked'[n] = asked[n]
      BY <1>1, <1>2 DEF MessageWrites, GateInv, GateTypeOK
    <3>2. MessageSound(n) /\ asked[n] \notin {"no", "fine"}
      BY <1>2 DEF MessageWrites, GateInv, MessageSound
    <3> QED
      BY <1>2, <2>1, <2>3, <3>1, <3>2 DEF MessageSound, MessageWrites
  <2> QED
    BY <2>2, <2>3
<1>6. replies' \subseteq turns'
  BY <1>2 DEF MessageWrites, GateInv, MessageSound
<1>7. PassedRunIsAccountedFor' /\ ~Closing
  BY <1>1, NotYetPassed
<1> QED
  BY <1>1, <1>4, <1>5, <1>6, <1>7 DEF GateInv, Closing

LEMMA DeathKeeps ==
  ASSUME GateInv, ApplicationDies
  PROVE  GateInv'
<1>1. UNCHANGED <<asked, evaluator, journey, status, turns, replies, calls, used, entries,
                  events, transcript, testimony, supervisor>> /\ served' = FALSE
  BY DEF ApplicationDies
<1>2. PassedRunIsAccountedFor'
  BY <1>1, VerdictStands DEF GateInv
<1>3. ASSUME NEW n \in Messages PROVE MessageSound(n)' /\ CallSound(n)'
  BY <1>1 DEF GateInv, MessageSound, CallSound
<1>4. GateTypeOK'
  BY <1>1 DEF GateInv, GateTypeOK
<1> QED
  BY <1>1, <1>2, <1>3, <1>4 DEF GateInv, Closing

-----------------------------------------------------------------------------
(* The verdict.  What is compared is the number of rows: with one message that *)
(* may be refused, no other rows than the right ones have that number.         *)

OneRefusable == \A m, n \in Refusable : m = n

LEMMA RowsAreRight ==
  ASSUME GateInv, OneRefusable, evaluator = "accepts", Scheduled, RowsTold
  PROVE  turns = Messages /\ replies = {n \in Messages : status[n] = 201}
<1> DEFINE told == {n \in Messages : status[n] = 201}
<1>1. /\ IsFiniteSet(Messages) /\ Cardinality(Messages) = Length
      /\ Length \in Nat
  BY GateAssumption, FS_Interval DEF Messages
<1>2. Len(transcript) = Length /\ AnswersTold = told
  BY <1>1 DEF Scheduled, AnswersTold, Messages
<1>3. told \subseteq replies /\ replies \subseteq turns /\ turns \subseteq Messages
  BY DEF GateInv, GateTypeOK, MessageSound
<1>4. IsFiniteSet(turns) /\ IsFiniteSet(replies) /\ IsFiniteSet(told)
  BY <1>1, <1>3, FS_Subset
<1>5. /\ Cardinality(told) \in Nat /\ Cardinality(replies) \in Nat /\ Cardinality(turns) \in Nat
      /\ Cardinality(told) <= Cardinality(replies)
      /\ Cardinality(replies) <= Cardinality(turns)
      /\ Cardinality(turns) <= Length
  BY <1>1, <1>3, <1>4, FS_Subset, FS_CardinalityType
<1>6. Cardinality(turns) + Cardinality(replies) = Length + Cardinality(told)
  BY <1>2 DEF RowsTold
<1>7. \A m, n \in Messages \ told : m = n
  BY DEF GateInv, MessageSound, OneRefusable
<1>8. Length - 1 <= Cardinality(told)
  <2>1. CASE told = Messages
    BY <1>1, <2>1
  <2>2. CASE told # Messages
    <3>1. PICK r \in Messages : r \notin told
      BY <2>2
    <3>2. told = Messages \ {r}
      BY <1>7, <3>1
    <3>3. Cardinality(Messages \ {r}) = Cardinality(Messages) - 1
      BY <1>1, FS_RemoveElement
    <3> QED
      BY <1>1, <3>2, <3>3
  <2> QED
    BY <2>1, <2>2
<1>9. Cardinality(turns) = Length /\ Cardinality(replies) = Cardinality(told)
  BY <1>1, <1>5, <1>6, <1>8
<1>10. turns = Messages
  BY <1>1, <1>3, <1>9, FS_Subset
<1>11. replies = told
  BY <1>3, <1>4, <1>9, FS_Subset
<1> QED
  BY <1>10, <1>11

-----------------------------------------------------------------------------
(* The supervisor                                                              *)

LEMMA SupervisorKeeps ==
  ASSUME GateInv, Gates \/ TargetState \/ CloseProxy \/ CloseWitness
  PROVE  GateInv'
<1>1. UNCHANGED <<asked, evaluator, journey, status, turns, replies, calls, used, entries,
                  events>> /\ supervisor' # "passed"
  BY DEF Gates, TargetState, CloseProxy, CloseWitness, Supervise
<1>2. GateTypeOK'
  <2>1. CASE Gates \/ TargetState
    <3>1. UNCHANGED <<transcript, testimony>> /\ served' \in BOOLEAN
      BY <2>1 DEF GateInv, GateTypeOK, Gates, TargetState
    <3>2. /\ supervisor \in {"evaluate", "state"}
          /\ supervisor' \in {"state", "closeProxy", "failed"}
      BY <2>1 DEF Gates, TargetState, Supervise
    <3> QED
      BY <1>1, <3>1, <3>2 DEF GateInv, GateTypeOK
  <2>2. CASE CloseProxy
    <3>1. entries \in Seq(Messages \cup {0})
      BY DEF GateInv, GateTypeOK
    <3> QED
      BY <2>2, <3>1 DEF GateInv, GateTypeOK, CloseProxy, Supervise
  <2>3. CASE CloseWitness
    BY <2>3 DEF GateInv, GateTypeOK, CloseWitness, Supervise
  <2> QED
    BY <2>1, <2>2, <2>3
<1>3. ASSUME NEW n \in Messages PROVE MessageSound(n)' /\ CallSound(n)'
  BY <1>1 DEF GateInv, MessageSound, CallSound
<1>4. Closing' => ~served'
  BY DEF GateInv, Closing, Gates, TargetState, CloseProxy, CloseWitness, Supervise
<1>5. supervisor' \in {"verify", "passed"} => used' \subseteq Range(testimony')
  BY DEF GateInv, Gates, TargetState, CloseProxy, CloseWitness, Supervise
<1>6. PassedRunIsAccountedFor'
  BY <1>1 DEF PassedRunIsAccountedFor
<1> QED
  BY <1>1, <1>2, <1>3, <1>4, <1>5, <1>6 DEF GateInv

LEMMA VerifyKeeps ==
  ASSUME GateInv, OneRefusable, Verify
  PROVE  GateInv'
<1>1. UNCHANGED <<asked, evaluator, journey, status, turns, replies, calls, used, served,
                  entries, events, transcript, testimony>> /\ supervisor = "verify"
  BY DEF Verify, Supervise
<1>2. /\ supervisor' \in {"passed", "failed"}
      /\ supervisor' = "passed" => evaluator = "accepts" /\ Scheduled /\ RowsTold
  BY DEF Verify, Supervise
<1>3. GateTypeOK'
  BY <1>1, <1>2 DEF GateInv, GateTypeOK
<1>4. ASSUME NEW n \in Messages PROVE MessageSound(n)' /\ CallSound(n)'
  BY <1>1 DEF GateInv, MessageSound, CallSound
<1>5. /\ Closing' => ~served'
      /\ used \subseteq Range(testimony)
  BY <1>1, <1>2 DEF GateInv, Closing
<1>6. PassedRunIsAccountedFor'
  <2>1. CASE supervisor' = "passed"
    <3>1. turns = Messages /\ replies = {n \in Messages : status[n] = 201}
      BY <1>2, <2>1, RowsAreRight
    <3> QED
      BY <1>1, <1>2, <1>5, <2>1, <3>1 DEF PassedRunIsAccountedFor, Scheduled
  <2>2. CASE supervisor' # "passed"
    BY <2>2 DEF PassedRunIsAccountedFor
  <2> QED
    BY <2>1, <2>2
<1> QED
  BY <1>1, <1>3, <1>4, <1>5, <1>6 DEF GateInv

\* Passed runs are accounted for: whatever is answered late, lost or refused while
\* the records are closed one after another, a run that passes has every message of
\* its schedule once and in order, their questions and exactly the answers that were
\* answered in the database, and every capability that was used in the testimony of
\* the witness, for every length of the schedule (executeOfficialRun).  The hypothesis
\* is that of the schedule: one message may be refused.
THEOREM PassedRunsAccountedFor == OneRefusable /\ GateSpec => []PassedRunIsAccountedFor
<1> SUFFICES ASSUME OneRefusable PROVE GateSpec => []PassedRunIsAccountedFor
  OBVIOUS
<1>1. GateInit => GateInv
  BY GateBegins
<1>2. GateInv /\ [GateNext]_gateVars => GateInv'
  <2> SUFFICES ASSUME GateInv, [GateNext]_gateVars PROVE GateInv'
    OBVIOUS
  <2>1. ASSUME NEW n \in Messages, SendNext(n) \/ GiveUp(n) PROVE GateInv'
    BY <2>1, EvaluatorKeeps
  <2>2. ASSUME NEW n \in Messages, Forward(n) \/ NotAnswered(n) \/ PassOn(n) PROVE GateInv'
    BY <2>2, ProxyKeeps
  <2>3. ASSUME NEW n \in Messages, Gateway(n) \/ Witness(n) \/ AskWitness(n) PROVE GateInv'
    BY <2>3, CallsKeep
  <2>4. ASSUME NEW n \in Messages, Use(n) PROVE GateInv'
    BY <2>4, UseKeeps
  <2>5. ASSUME NEW n \in Messages, Accept(n) \/ Conclude(n) \/ Reply(n) PROVE GateInv'
    BY <2>5, ApplicationKeeps
  <2>6. CASE Exit
    BY <2>6, ExitKeeps
  <2>7. CASE Gates \/ TargetState \/ CloseProxy \/ CloseWitness
    BY <2>7, SupervisorKeeps
  <2>8. CASE Verify
    BY <2>8, VerifyKeeps
  <2>9. CASE ApplicationDies
    BY <2>9, DeathKeeps
  <2>10. CASE UNCHANGED gateVars
    <3>1. ASSUME NEW n \in Messages PROVE MessageSound(n)' /\ CallSound(n)'
      BY <2>10 DEF GateInv, MessageSound, CallSound, gateVars
    <3> QED
      BY <2>10, <3>1, VerdictStands DEF GateInv, GateTypeOK, Closing, gateVars
  <2> QED
    BY <2>1, <2>2, <2>3, <2>4, <2>5, <2>6, <2>7, <2>8, <2>9, <2>10 DEF GateNext
<1>3. GateInv => PassedRunIsAccountedFor
  BY DEF GateInv
<1> QED
  BY <1>1, <1>2, <1>3, PTL DEF GateSpec
=============================================================================
