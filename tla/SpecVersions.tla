---------------------------- MODULE SpecVersions ----------------------------
(***************************************************************************)
(* The versions of one specification, published from uploaded files        *)
(* (publishSpecificationImport) and from Appius events                     *)
(* (processNewVersionEvent over promoteNextSpecificationVersion).          *)
(*                                                                         *)
(* Each is one transaction of several statements, run by PostgreSQL at its *)
(* default isolation: a statement sees what is committed when it starts;   *)
(* an UPDATE waits for a row another transaction has written and, once     *)
(* that has ended, looks at the row again; an INSERT waits for another one *)
(* of the same key.  Nothing locks the specification while a new version   *)
(* is prepared.                                                            *)
(*                                                                         *)
(* Abstractions: a version is its number, by which its row, its positions  *)
(* and the specification's latestVersionId are keyed; positions, names and *)
(* dates are left out.  A publication in mode NEW makes a specification of *)
(* its own, of which only the file it used up matters here.                *)
(***************************************************************************)
EXTENDS Integers

CONSTANTS
  Writers,     \* requests that may be in flight at once
  Files,       \* uploaded files
  AppiusEvents,\* durable event ids of Appius
  MaxNumber    \* bound: version numbers

ASSUME SpecAssumption ==
  /\ MaxNumber \in Nat \ {0}
  /\ Files \cap AppiusEvents = {}
  /\ "seed" \notin Files \cup AppiusEvents
  /\ "nobody" \notin Writers

VARIABLES
  versions,  \* the specification_versions rows that are committed, by number
  latest,    \* specifications.latestVersionNumber
  elsewhere, \* files that became a specification of their own
  cancelled, \* files whose parse_status is CANCELLED, not PARSED
  rowLock,   \* who has written a version row and not yet ended
  writer     \* local state of every request

specVars == <<versions, latest, elsewhere, cancelled, rowLock, writer>>

-----------------------------------------------------------------------------
(* Rows and local records *)

Numbers == 1 .. MaxNumber
Sources == Files \cup AppiusEvents \cup {"seed"}

\* source: the file (sourceFileId) or the event (eventId in audit_logs) that
\* the version was made from.  history: it has a historicSnapshot.
Version == [state : {"NONE", "CURRENT", "SUPERSEDED"}, history : BOOLEAN,
            source : Sources]
NoVersion == [state |-> "NONE", history |-> FALSE, source |-> "seed"]

\* expected: the expectedCurrentVersionId of a promotion; read: the number the
\* next version is counted from; targets: rows its UPDATE saw; again: the
\* promotion has been repeated.
Writer == [pc : {"idle", "publish", "deliver", "receipt", "current", "update",
                 "wait", "insert", "commit"},
           source : Sources, expected : 0 .. MaxNumber, read : 0 .. MaxNumber,
           targets : SUBSET Numbers, again : BOOLEAN]
NotWriting == [pc |-> "idle", source |-> "seed", expected |-> 0, read |-> 0,
               targets |-> {}, again |-> FALSE]

Nobody == "nobody"

SpecTypeOK ==
  /\ versions \in [Numbers -> Version]
  /\ latest \in Numbers
  /\ elsewhere \subseteq Files
  /\ cancelled \subseteq Files
  /\ rowLock \in [Numbers -> Writers \cup {Nobody}]
  /\ writer \in [Writers -> Writer]

\* The specification as bootstrap creates it.
SpecInit ==
  /\ versions = [n \in Numbers |->
                   IF n = 1 THEN [NoVersion EXCEPT !.state = "CURRENT"]
                            ELSE NoVersion]
  /\ latest = 1
  /\ elsewhere = {}
  /\ cancelled = {}
  /\ rowLock = [n \in Numbers |-> Nobody]
  /\ writer = [p \in Writers |-> NotWriting]

Current == {n \in Numbers : versions[n].state = "CURRENT"}
Exists(n) == versions[n].state # "NONE"
MadeFrom(s) == {n \in Numbers : Exists(n) /\ versions[n].source = s}

Promoting(p) == writer[p].source \in AppiusEvents
Publishing(p) == writer[p].source \in Files
Proceed(p, pc) == writer' = [writer EXCEPT ![p].pc = pc]

\* The end of p's transaction, or of its request.
Unlocked(p) == [n \in Numbers |-> IF rowLock[n] = p THEN Nobody ELSE rowLock[n]]
End(p) ==
  /\ writer' = [writer EXCEPT ![p] = NotWriting]
  /\ rowLock' = Unlocked(p)

\* OptimisticLockError: the adapter repeats a promotion once.
Conflict(p) ==
  /\ rowLock' = Unlocked(p)
  /\ writer' = [writer EXCEPT
                  ![p] = IF Promoting(p) /\ ~@.again
                         THEN [@ EXCEPT !.pc = "receipt", !.again = TRUE]
                         ELSE NotWriting]

-----------------------------------------------------------------------------
(* Publishing a file as the next version *)

\* SELECT ... FOR UPDATE on the file: one transaction at a time works with it.
FileFree(f) == \A p \in Writers : writer[p].source # f

\* The file is locked and must be PARSED; a file that has been published is
\* answered with what it became.  Then the latest number is read.
PublishRead(p, f) ==
  /\ writer[p].pc = "idle"
  /\ FileFree(f)
  /\ f \notin cancelled \cup elsewhere
  /\ MadeFrom(f) = {}
  /\ latest < MaxNumber
  /\ writer' = [writer EXCEPT ![p].pc = "update", ![p].source = f,
                              ![p].read = latest]
  /\ UNCHANGED <<versions, latest, elsewhere, cancelled, rowLock>>

\* The same in mode NEW, under a new id that nobody else can write.
PublishNew(f) ==
  /\ FileFree(f)
  /\ f \notin cancelled \cup elsewhere
  /\ MadeFrom(f) = {}
  /\ elsewhere' = elsewhere \cup {f}
  /\ UNCHANGED <<versions, latest, cancelled, rowLock, writer>>

\* DELETE of an upload; the UPDATE waits for the file's lock.
CancelFile(f) ==
  /\ FileFree(f)
  /\ cancelled' = cancelled \cup {f}
  /\ UNCHANGED <<versions, latest, elsewhere, rowLock, writer>>

-----------------------------------------------------------------------------
(* Promoting the current version by an Appius event *)

\* processNewVersionEvent: the version the event names, or the one that is
\* current, is the one expected to be replaced.
DeliverEvent(p, e) ==
  /\ writer[p].pc = "idle"
  /\ \E n \in 1 .. latest :
       writer' = [writer EXCEPT ![p].pc = "receipt", ![p].source = e,
                                ![p].expected = n]
  /\ UNCHANGED <<versions, latest, elsewhere, cancelled, rowLock>>

\* An event that has been promoted is answered with the recorded versions.
FindReceipt(p) ==
  /\ writer[p].pc = "receipt"
  /\ IF MadeFrom(writer[p].source) # {}
     THEN End(p)
     ELSE Proceed(p, "current") /\ UNCHANGED rowLock
  /\ UNCHANGED <<versions, latest, elsewhere, cancelled>>

\* Faulty variant: the version to be replaced is not compared.
AsFound(seen, expected) == TRUE

AsExpected(seen, expected) == seen = expected

\* LIMIT 1 without an order: any current version.
ReadCurrent(p) ==
  /\ writer[p].pc = "current"
  /\ \E n \in Current :
       IF AsExpected(n, writer[p].expected) /\ n < MaxNumber
       THEN /\ writer' = [writer EXCEPT ![p].pc = "update", ![p].read = n]
            /\ UNCHANGED rowLock
       ELSE Conflict(p)
  /\ UNCHANGED <<versions, latest, elsewhere, cancelled>>

-----------------------------------------------------------------------------
(* Statements both transactions have *)

\* The UPDATE that supersedes: it sees the current versions, a promotion only
\* the one it has read.
UpdateStarts(p) ==
  LET seen == IF Promoting(p) THEN Current \cap {writer[p].read} ELSE Current
  IN  /\ writer[p].pc = "update"
      /\ writer' = [writer EXCEPT ![p].pc = "wait", ![p].targets = seen]
      /\ UNCHANGED <<versions, latest, elsewhere, cancelled, rowLock>>

\* It gets the rows it saw, when their writers have ended, and takes those that
\* are current still.  A promotion that gets none gives up.
UpdateEnds(p) ==
  LET got == writer[p].targets \cap Current
  IN  /\ writer[p].pc = "wait"
      /\ \A n \in writer[p].targets : rowLock[n] \in {Nobody, p}
      /\ IF Promoting(p) /\ got = {}
         THEN Conflict(p)
         ELSE /\ rowLock' = [n \in Numbers |-> IF n \in got THEN p ELSE rowLock[n]]
              /\ Proceed(p, "insert")
      /\ UNCHANGED <<versions, latest, elsewhere, cancelled>>

\* Faulty variant: nothing makes the numbers of a specification's versions
\* unique.
NumberFree(n) == TRUE

\* spec_versions_number_uq, and the id made of the number.
NumberUnique(n) == ~Exists(n)

\* The INSERT of the next version waits for another one of its number, and
\* fails, with the transaction, if that is committed.
Insert(p) ==
  LET n == writer[p].read + 1
  IN  /\ writer[p].pc = "insert"
      /\ \A q \in Writers \ {p} :
           ~(writer[q].pc = "commit" /\ writer[q].read + 1 = n)
      /\ IF NumberUnique(n)
         THEN Proceed(p, "commit") /\ UNCHANGED rowLock
         ELSE End(p)
      /\ UNCHANGED <<versions, latest, elsewhere, cancelled>>

\* The specification's latest version is set, the audit event written, and all
\* of it committed.
Commit(p) ==
  LET n == writer[p].read + 1
      mine == {m \in Numbers : rowLock[m] = p}
  IN  /\ writer[p].pc = "commit"
      /\ versions' = [m \in Numbers |->
           IF m = n
           THEN [state |-> "CURRENT", history |-> FALSE,
                 source |-> writer[p].source]
           ELSE IF m \in mine
           THEN [versions[m] EXCEPT !.state = "SUPERSEDED",
                                    !.history = @ \/ Promoting(p)]
           ELSE versions[m]]
      /\ latest' = n
      /\ End(p)
      /\ UNCHANGED <<elsewhere, cancelled>>

\* Any statement may fail, or the request die: its transaction is rolled back.
Rollback(p) ==
  /\ writer[p].pc # "idle"
  /\ End(p)
  /\ UNCHANGED <<versions, latest, elsewhere, cancelled>>

-----------------------------------------------------------------------------
(* Specification *)

SpecNext ==
  \/ \E p \in Writers, f \in Files : PublishRead(p, f)
  \/ \E f \in Files : PublishNew(f) \/ CancelFile(f)
  \/ \E p \in Writers, e \in AppiusEvents : DeliverEvent(p, e)
  \/ \E p \in Writers : \/ FindReceipt(p)
                        \/ ReadCurrent(p)
                        \/ UpdateStarts(p)
                        \/ UpdateEnds(p)
                        \/ Insert(p)
                        \/ Commit(p)
                        \/ Rollback(p)

SpecSpec == SpecInit /\ [][SpecNext]_specVars

-----------------------------------------------------------------------------
(* Properties *)

\* However publications and promotions interleave, the versions of the
\* specification are numbered from one without gaps, the last is the only
\* current one and the one the specification points to (no statement of either
\* transaction locks the specification; the unique number is what decides).
OneCurrentVersion ==
  /\ \A n \in Numbers : Exists(n) <=> n <= latest
  /\ Current = {latest}

\* A file becomes at most one version, or one specification, and an event
\* promotes at most one version, however often and concurrently they are
\* delivered (appius-adapter.ts:263: a repeated promotion "cannot advance an
\* already-promoted specification to another version").
SourceUsedOnce ==
  /\ \A m, n \in Numbers :
       Exists(m) /\ Exists(n) /\ versions[m].source = versions[n].source
         => m = n
  /\ \A f \in elsewhere : MadeFrom(f) = {}
=============================================================================
