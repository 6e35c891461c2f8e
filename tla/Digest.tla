-------------------------------- MODULE Digest --------------------------------
(***************************************************************************)
(* The weekly digest of a user (WeeklyDigestService): what changed in the  *)
(* specifications, positions, metrics and tasks of a project in the week   *)
(* before today, compared with the week before that.  Days are those of    *)
(* the time zone the reader asks for, whose clocks may be moved.           *)
(*                                                                         *)
(* The four sources are read by queries of their own (the tasks by two),   *)
(* any of which may fail, while others change what is read.                *)
(*                                                                         *)
(* Abstractions: an item is one that belongs to the reader and the project *)
(* asked for; titles, links and the order within a section are left out.   *)
(* Every role of a project may read every source (domain/rbac.ts).  Tasks  *)
(* are as the tables and their writers allow; snapshots of metrics come    *)
(* from elsewhere (only tests insert them here) and may be anything.  A    *)
(* zone moves its clocks once, and never over a midnight.                  *)
(***************************************************************************)
EXTENDS Integers, FiniteSets, Sequences

CONSTANTS
  DigestItems,  \* versions, results, metric events and tasks
  DayLength,    \* units of time of a day
  WeekLength,   \* days of a week: 7 in the code
  LastMoment,   \* bound: of time
  MaxOffset     \* bound: on how far a zone is from UTC, and how far its clocks are moved

ASSUME DigestAssumption ==
  /\ DayLength \in Nat \ {0} /\ WeekLength \in Nat \ {0}
  /\ LastMoment \in Nat /\ MaxOffset \in Nat

VARIABLES
  item,    \* the rows: of what sort, what of it a role may be shown, and updated_at
  clock,   \* the time zone asked for
  reader,  \* roleView of the reader
  moment,  \* now
  digest   \* the request

digestVars == <<item, clock, reader, moment, digest>>

-----------------------------------------------------------------------------
(* Time *)

Moments == 0 .. LastMoment

\* From the moment at on, a zone is shift units further ahead of UTC than base.
Offsets == -MaxOffset .. MaxOffset
Zones == [base : Offsets, shift : Offsets, at : Moments]

Local(zone, t) == t + zone.base + IF t >= zone.at THEN zone.shift ELSE 0

\* zonedDateParts
DateOf(zone, t) == Local(zone, t) \div DayLength

\* The local times that are never shown, or twice, when the clocks are moved.
Moved(zone) ==
  LET before == zone.at + zone.base
      after  == before + zone.shift
  IN  before .. after - 1 \cup after .. before - 1

\* Every day begins, and begins once.
Usual(zone) == \A t \in Moved(zone) : t % DayLength # 0

\* One round of zonedMidnightToUtc: the guess is put right by what it is off.
Corrected(zone, date, guess) == guess + date * DayLength - Local(zone, guess)

\* Faulty variant: the offset of the first guess is taken for that of the midnight.
MidnightByOffset(zone, date) == Corrected(zone, date, date * DayLength)

\* zonedMidnightToUtc
Midnight(zone, date) ==
  LET round(guess) == Corrected(zone, date, guess)
  IN  round(round(round(round(date * DayLength))))

\* resolveCalendarPeriods
Periods(zone, t) ==
  LET weeksBefore(n) == Midnight(zone, DateOf(zone, t) - n * WeekLength)
  IN  [from |-> weeksBefore(1), to |-> weeksBefore(0), previousFrom |-> weeksBefore(2)]

-----------------------------------------------------------------------------
(* Items *)

Sorts == {"SPECIFICATIONS", "POSITIONS", "KPI", "TASKS"}
Roles == {"VIEWER", "ANALYST", "EXPERT", "MANAGER"}

\* What rows of a sort may be; one that is ODD is not understood, one that is SETTLED
\* is no longer selected.  Tasks are decisions on reviews and tasks assigned.
KindsOf(sort) ==
  CASE sort = "SPECIFICATIONS" -> {"PUBLISHED", "PROJECT"}
    [] sort = "POSITIONS" -> {"SHORTAGE", "EXPERT_REVIEW", "SETTLED"}
    [] sort = "KPI" -> {"PERSONAL", "EXPERT", "PROJECT", "ODD"}
    [] sort = "TASKS" -> {"REVIEW", "ASSIGNED"}

Row == UNION {[sort : {sort}, kind : KindsOf(sort), changed : Moments] : sort \in Sorts}

\* visibleSourceData, and readTasks, which reads nothing for a viewer.
Visible(role, row) ==
  CASE row.sort = "SPECIFICATIONS" -> role # "VIEWER" \/ row.kind = "PUBLISHED"
    [] row.sort = "POSITIONS" -> \/ role = "MANAGER"
                                 \/ role = "ANALYST" /\ row.kind = "SHORTAGE"
                                 \/ role = "EXPERT" /\ row.kind = "EXPERT_REVIEW"
    [] row.sort = "KPI" -> \/ role = "MANAGER"
                           \/ role \in {"ANALYST", "EXPERT"} /\ row.kind = "PERSONAL"
                           \/ role = "EXPERT" /\ row.kind = "EXPERT"
    [] row.sort = "TASKS" -> role # "VIEWER"

-----------------------------------------------------------------------------
(* The request *)

Unread == [sort \in Sorts |-> "UNREAD"]
NoDigest == [pc |-> "none", at |-> 0, period |-> [from |-> 0, to |-> 0, previousFrom |-> 0],
             sources |-> Unread, rows |-> {}]

\* generate
Generate ==
  /\ digest.pc = "none"
  /\ digest' = [NoDigest EXCEPT !.pc = "reading", !.at = moment,
                                !.period = Periods(clock, moment)]
  /\ UNCHANGED <<item, clock, reader, moment>>

Read(sort) == digest.sources[sort] \notin {"UNREAD", "HALF"}
AllRead == \A sort \in Sorts : Read(sort)

\* readSpecifications, readPositionChanges, readKpiChanges
Selected(sort) ==
  {e \in DigestItems :
     /\ item[e].sort = sort
     /\ item[e].kind # "SETTLED"
     /\ item[e].changed >= digest.period.previousFrom
     /\ item[e].changed < digest.period.to}

\* listAnalysisReviewTasksInProject, listAgentAssignedTasksInProject: tasks of all times.
Tasks(kind) == {e \in DigestItems : item[e].sort = "TASKS" /\ item[e].kind = kind}

\* metricChange
Odd(e) == item[e].kind = "ODD"

Learnt(sort, state, rows) ==
  digest' = [digest EXCEPT
    !.sources[sort] = state,
    !.rows = @ \cup {[name |-> e, row |-> item[e]] : e \in {k \in rows : ~Odd(k)}}]

\* Nothing is left of a source that failed, however far it was read.
Failed(sort) ==
  digest' = [digest EXCEPT !.sources[sort] = "UNAVAILABLE",
                           !.rows = {r \in @ : r.row.sort # sort}]

\* Promise.allSettled over the three.
ReadSource(sort) ==
  /\ digest.pc = "reading"
  /\ sort # "TASKS" /\ ~Read(sort)
  /\ LET odd == \E e \in Selected(sort) : Odd(e)
     IN  \/ Learnt(sort, IF odd THEN "PARTIAL" ELSE "COMPLETE", Selected(sort))
         \/ Failed(sort)
  /\ UNCHANGED <<item, clock, reader, moment>>

\* readTasks, and the first query of listPersonal.
ReadTasks ==
  /\ digest.pc = "reading"
  /\ digest.sources["TASKS"] = "UNREAD" /\ \A sort \in Sorts \ {"TASKS"} : Read(sort)
  /\ \/ reader = "VIEWER" /\ Learnt("TASKS", "COMPLETE", {})
     \/ reader # "VIEWER" /\ (Learnt("TASKS", "HALF", Tasks("REVIEW")) \/ Failed("TASKS"))
  /\ UNCHANGED <<item, clock, reader, moment>>

\* Its second query.
ReadAssigned ==
  /\ digest.sources["TASKS"] = "HALF"
  /\ Learnt("TASKS", "COMPLETE", Tasks("ASSIGNED")) \/ Failed("TASKS")
  /\ UNCHANGED <<item, clock, reader, moment>>

\* selectPeriod
Within(from, to) ==
  {r \in digest.rows : Visible(reader, r.row) /\ r.row.changed >= from /\ r.row.changed < to}
Current == Within(digest.period.from, digest.period.to)
Previous == Within(digest.period.previousFrom, digest.period.from)
OfSort(rows, sort) == {r \in rows : r.row.sort = sort}

\* buildComparison
Comparison ==
  [sort \in Sorts |->
     LET now == Cardinality(OfSort(Current, sort))
         before == Cardinality(OfSort(Previous, sort))
     IN  [current |-> now, previous |-> before, delta |-> now - before]]

\* digestStatus
DigestStatus ==
  IF \A sort \in Sorts : digest.sources[sort] = "COMPLETE" THEN "COMPLETE"
  ELSE IF Current = {} /\ \A sort \in Sorts : digest.sources[sort] = "UNAVAILABLE"
       THEN "UNAVAILABLE"
  ELSE "PARTIAL"

\* buildActions: the first three; the last three candidates are always there.
Recommended ==
  LET candidate(sort) == IF OfSort(Current, sort) # {} THEN <<sort>> ELSE <<>>
  IN  SubSeq(candidate("TASKS") \o candidate("POSITIONS") \o candidate("SPECIFICATIONS")
               \o candidate("KPI") \o <<"ANALYSIS", "DIGEST", "HELP">>, 1, 3)

-----------------------------------------------------------------------------
(* What changes meanwhile *)

\* A row is written; events of metrics are only ever inserted.
Touch(e) ==
  /\ digest.pc = "reading" /\ ~AllRead
  /\ item[e].sort # "KPI"
  /\ \E kind \in KindsOf(item[e].sort) :
       /\ item[e].sort = "TASKS" => kind = item[e].kind
       /\ item' = [item EXCEPT ![e] = [sort |-> @.sort, kind |-> kind, changed |-> moment]]
  /\ UNCHANGED <<clock, reader, moment, digest>>

Tick ==
  /\ digest.pc = "reading" /\ ~AllRead
  /\ moment < LastMoment
  /\ moment' = moment + 1
  /\ UNCHANGED <<item, clock, reader, digest>>

DigestInit ==
  /\ moment \in Moments
  /\ item \in [DigestItems -> {row \in Row : row.changed <= moment}]
  /\ clock \in {zone \in Zones : Usual(zone)}
  /\ reader \in Roles
  /\ digest = NoDigest

DigestNext ==
  \/ Generate
  \/ \E sort \in Sorts : ReadSource(sort)
  \/ ReadTasks \/ ReadAssigned
  \/ \E e \in DigestItems : Touch(e)
  \/ Tick

DigestSpec == DigestInit /\ [][DigestNext]_digestVars

-----------------------------------------------------------------------------
(* Properties *)

\* What of it is of some of the reader's days.
Dated(days) ==
  {r \in digest.rows : Visible(reader, r.row) /\ DateOf(clock, r.row.changed) \in days}

\* What could be known of a sort when the digest was asked for.
Lasting(sort) ==
  {e \in DigestItems : /\ item[e].sort = sort /\ item[e].kind \notin {"SETTLED", "ODD"}
                       /\ item[e].changed < digest.at /\ Visible(reader, item[e])}

\* docs/api-reference.md:470: a digest is of two complete calendar weeks.  What it
\* lists changed, as far as it had read, on one of the reader's days of the week that
\* ended last midnight; of a source that was read completely nothing of that week is
\* missing that was not changed again meanwhile; the numbers compared are those of
\* what is listed and of the week before, however the clocks were moved in between;
\* and what is recommended first is something listed, if anything is.
DigestHonest ==
  AllRead =>
    LET today == DateOf(clock, digest.at)
        week == today - WeekLength .. today - 1
        weekBefore == today - 2 * WeekLength .. today - WeekLength - 1
    IN  /\ Current = Dated(week)
        /\ \A sort \in Sorts :
             /\ digest.sources[sort] = "COMPLETE" =>
                  \A e \in Lasting(sort) :
                    /\ DateOf(clock, item[e].changed) \in week =>
                         [name |-> e, row |-> item[e]] \in Current
                    /\ DateOf(clock, item[e].changed) \in weekBefore =>
                         [name |-> e, row |-> item[e]] \in Previous
             /\ Comparison[sort].previous = Cardinality(OfSort(Dated(weekBefore), sort))
             /\ Comparison[sort].delta =
                  Cardinality(OfSort(Dated(week), sort)) - Comparison[sort].previous
        /\ DigestStatus = "UNAVAILABLE" => digest.rows = {}
        /\ Len(Recommended) = 3
        /\ Current # {} => OfSort(Current, Recommended[1]) # {}
=============================================================================
