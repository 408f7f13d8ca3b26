------------------------------ MODULE Cleanup ------------------------------
(***************************************************************************)
(* The worker's clean-up (internal/app/cleanupapp/service.go, scheduler.go)*)
(* and the deletions of the repositories it drives: DeleteExpired of the   *)
(* links, which pages through each table by (expire_at, id), and the       *)
(* limited deletions of old visits and daily statistics.                   *)
(*                                                                         *)
(* A ticker whose channel holds one tick starts the rounds; one round runs *)
(* at a time.  A round works through links, visits, statistics and the     *)
(* filter and ends at the first error.  Links are created, with an expiry  *)
(* that may be past already, and deleted by the lazy cleaner meanwhile;    *)
(* its clock is taken to be the worker's.                                  *)
(***************************************************************************)
EXTENDS Integers, FiniteSets

CONSTANTS
  Codes,       \* ids of links
  ShardCount,  \* number of tables
  Visits,      \* rows of visit_log
  Stats,       \* rows of link_stat_daily
  BatchSize,   \* Service.batchSize
  Retention,   \* how long visits and statistics are kept
  Day,         \* length of a day: the cut-off of statistics is a day's start
  MaxTime,     \* bound: the clock stops here
  MaxFails     \* bound: how often a round fails

ASSUME CleanupAssumption ==
  /\ Codes \subseteq Nat \ {0}
  /\ ShardCount \in Nat \ {0} /\ BatchSize \in Nat \ {0} /\ Day \in Nat \ {0}
  /\ Retention \in Nat /\ MaxTime \in Nat /\ MaxFails \in Nat
  /\ Visits \intersect Stats = {}

VARIABLES
  clock,       \* wall-clock time
  rows,        \* links in MySQL
  expireAt,    \* their expiry; Never stands for NULL
  logs,        \* visits and statistics in MySQL
  loggedAt,    \* visited_at or stat_date
  tick,        \* a tick waits in the ticker's channel
  pc,          \* what the round is doing; "idle" between rounds
  before,      \* RunOnce's `now`
  shard,       \* the table DeleteExpired is at
  cursorAt,    \* cursorExpireAt; Zero before the first page of a table
  cursorID,    \* cursorID
  page,        \* the page it has read and not yet deleted
  base,        \* history: expired rows present when the round began
  fails        \* how many rounds have failed

tableVars == <<rows, expireAt, logs, loggedAt>>
roundVars == <<pc, before, shard, cursorAt, cursorID, page, base>>
vars      == <<clock, tableVars, tick, roundVars, fails>>

Never == MaxTime + 1
Zero  == -1
Logs  == Visits \union Stats

Phases == {"idle", "select", "uncache", "delete", "visits", "stats", "rebuild"}

TypeOK ==
  /\ clock \in 0..MaxTime
  /\ rows \subseteq Codes
  /\ expireAt \in [Codes -> 0..Never]
  /\ logs \subseteq Logs
  /\ loggedAt \in [Logs -> Int]
  /\ tick \in BOOLEAN
  /\ pc \in Phases
  /\ before \in 0..clock
  /\ shard \in 0..ShardCount
  /\ cursorAt \in Zero..MaxTime
  /\ cursorID \in Codes \union {0}
  /\ page \subseteq Codes
  /\ base \subseteq Codes
  /\ fails \in 0..MaxFails

Init ==
  /\ clock = 0
  /\ rows = {} /\ expireAt = [c \in Codes |-> Never]
  /\ logs = {} /\ loggedAt = [l \in Logs |-> Never]
  /\ tick = FALSE
  /\ pc = "idle" /\ before = 0
  /\ shard = 0 /\ cursorAt = Zero /\ cursorID = 0
  /\ page = {} /\ base = {}
  /\ fails = 0

-----------------------------------------------------------------------------
(* Helpers                                                                 *)

ShardIndex(c) == c % ShardCount

ExpiredBy(c, time) == expireAt[c] # Never /\ expireAt[c] <= time

\* ORDER BY expire_at ASC, id ASC
Before(c, d) == \/ expireAt[c] < expireAt[d]
                \/ expireAt[c] = expireAt[d] /\ c < d

\* Wrong on purpose: rows that expire at one time are taken for one.
BeyondCursorByTime(c) == cursorAt = Zero \/ expireAt[c] > cursorAt

\* Past the last row of the previous page.
BeyondCursor(c) == \/ cursorAt = Zero
                   \/ expireAt[c] > cursorAt
                   \/ expireAt[c] = cursorAt /\ c > cursorID

\* The rows a page of DeleteExpired is taken from.
PageSource == {c \in rows : /\ ShardIndex(c) = shard
                            /\ ExpiredBy(c, before)
                            /\ BeyondCursor(c)}

\* The first BatchSize rows of S in that order.
FirstRows(S) ==
  {p \in SUBSET S : /\ \A c \in p, d \in S : Before(d, c) => d \in p
                    /\ \/ Cardinality(p) = BatchSize
                       \/ p = S /\ Cardinality(p) < BatchSize}

\* The start of the day, for statistics.
CutOff(l) == IF l \in Visits THEN before - Retention
             ELSE ((before - Retention) \div Day) * Day

\* Rows of a kind that DeleteVisitsBefore or DeleteDailyStatsBefore may delete.
Old(kind) == {l \in logs \intersect kind : loggedAt[l] < CutOff(l)}

\* Those the deletion at hand may take.
OldNow == CASE pc = "visits" -> Old(Visits)
            [] pc = "stats"  -> Old(Stats)
            [] OTHER         -> {}

\* Wrong on purpose: one deletion is enough.
LastDeletionFirst(deleted) == Cardinality(deleted) <= BatchSize

\* deleteAll stops after a deletion that was not limited.
LastDeletion(deleted) == Cardinality(deleted) < BatchSize

-----------------------------------------------------------------------------
(* The world around the worker                                             *)

Tick == /\ clock < MaxTime
        /\ clock' = clock + 1
        /\ UNCHANGED <<tableVars, tick, roundVars, fails>>

\* A link is created.
Insert(c) == /\ c \notin rows /\ expireAt[c] = Never
             /\ \E e \in 0..Never : expireAt' = [expireAt EXCEPT ![c] = e]
             /\ rows' = rows \union {c}
             /\ UNCHANGED <<clock, logs, loggedAt, tick, roundVars, fails>>

\* DeleteExpiredCode, for the lazy cleaner.
LazyDelete(c) == /\ c \in rows /\ ExpiredBy(c, clock)
                 /\ rows' = rows \ {c}
                 /\ UNCHANGED <<clock, expireAt, logs, loggedAt, tick, roundVars, fails>>

\* A visit is written, some time after it happened, or a daily statistic.
LogRow(l) == /\ l \notin logs /\ loggedAt[l] = Never
             /\ \E t \in (-Retention)..clock : loggedAt' = [loggedAt EXCEPT ![l] = t]
             /\ logs' = logs \union {l}
             /\ UNCHANGED <<clock, rows, expireAt, tick, roundVars, fails>>

-----------------------------------------------------------------------------
(* The scheduler and a round                                               *)

\* time.Ticker drops a tick when one is waiting.
TickerFires == /\ ~ tick
               /\ tick' = TRUE
               /\ UNCHANGED <<clock, tableVars, roundVars, fails>>

\* Wrong on purpose: the scheduler returns after a round that failed.
StartRoundUnlessFailed ==
  /\ pc = "idle" /\ tick /\ fails = 0
  /\ tick' = FALSE
  /\ pc' = "select"
  /\ before' = clock
  /\ shard' = 0 /\ cursorAt' = Zero /\ cursorID' = 0
  /\ base' = {c \in rows : ExpiredBy(c, clock)}
  /\ UNCHANGED <<clock, tableVars, page, fails>>

\* RunOnce begins, and with it DeleteExpired.
StartRound ==
  /\ pc = "idle" /\ tick
  /\ tick' = FALSE
  /\ pc' = "select"
  /\ before' = clock
  /\ shard' = 0 /\ cursorAt' = Zero /\ cursorID' = 0
  /\ base' = {c \in rows : ExpiredBy(c, clock)}
  /\ UNCHANGED <<clock, tableVars, page, fails>>

\* On to the next table, or past the last.
NextShard ==
  /\ shard' = shard + 1
  /\ cursorAt' = Zero /\ cursorID' = 0
  /\ pc' = IF shard + 1 = ShardCount THEN "visits" ELSE "select"

SelectPage ==
  /\ pc = "select"
  /\ \E p \in FirstRows(PageSource) :
       IF p = {}
       THEN NextShard /\ UNCHANGED page
       ELSE /\ page' = p /\ pc' = "uncache"
            /\ UNCHANGED <<shard, cursorAt, cursorID>>
  /\ UNCHANGED <<clock, tableVars, tick, before, base, fails>>

\* The page's entries are deleted from the shared cache.
UncachePage ==
  /\ pc = "uncache"
  /\ pc' = "delete"
  /\ UNCHANGED <<clock, tableVars, tick, before, shard, cursorAt, cursorID, page,
                 base, fails>>

\* The page's rows are deleted by id, and the cursor moves to its last row.
DeletePage ==
  /\ pc = "delete"
  /\ rows' = rows \ page
  /\ page' = {}
  /\ IF Cardinality(page) < BatchSize
     THEN NextShard
     ELSE \E last \in page :
            /\ \A c \in page : c = last \/ Before(c, last)
            /\ cursorAt' = expireAt[last] /\ cursorID' = last
            /\ pc' = "select"
            /\ UNCHANGED shard
  /\ UNCHANGED <<clock, expireAt, logs, loggedAt, tick, before, base, fails>>

\* One DELETE ... LIMIT of deleteAll: which rows it takes is up to MySQL.
DeleteLogs(kind, phase, next) ==
  /\ pc = phase
  /\ \E deleted \in SUBSET Old(kind) :
       /\ \/ Cardinality(deleted) = BatchSize
          \/ deleted = Old(kind) /\ Cardinality(deleted) < BatchSize
       /\ logs' = logs \ deleted
       /\ pc' = IF LastDeletion(deleted) THEN next ELSE phase
  /\ UNCHANGED <<clock, rows, expireAt, loggedAt, tick, before, shard, cursorAt,
                 cursorID, page, base, fails>>

\* The end of a round, in whatever way: its locals are out of scope.
EndRound == /\ pc' = "idle" /\ before' = 0
            /\ shard' = 0 /\ cursorAt' = Zero /\ cursorID' = 0
            /\ page' = {} /\ base' = {}

\* filter.Rebuild, and RunOnce returns.
RebuildFilter == /\ pc = "rebuild"
                 /\ EndRound
                 /\ UNCHANGED <<clock, tableVars, tick, fails>>

\* A command fails, applied or not, or the worker stops; what is left waits for
\* a later round.
RoundFails ==
  /\ pc # "idle" /\ fails < MaxFails
  /\ fails' = fails + 1
  /\ EndRound
  /\ rows' \in {rows, IF pc = "delete" THEN rows \ page ELSE rows}
  /\ \E deleted \in SUBSET OldNow : /\ Cardinality(deleted) <= BatchSize
                                   /\ logs' = logs \ deleted
  /\ tick' \in {tick, FALSE}
  /\ UNCHANGED <<clock, expireAt, loggedAt>>

-----------------------------------------------------------------------------
RoundStep == \/ SelectPage \/ UncachePage \/ DeletePage
             \/ DeleteLogs(Visits, "visits", "stats")
             \/ DeleteLogs(Stats, "stats", "rebuild")
             \/ RebuildFilter

Next == \/ Tick \/ TickerFires \/ StartRound
        \/ \E c \in Codes : Insert(c) \/ LazyDelete(c)
        \/ \E l \in Logs : LogRow(l)
        \/ RoundStep \/ RoundFails

Spec == Init /\ [][Next]_vars

\* The clock and the ticker go on, and so does a round, in which only finitely
\* many commands fail; the lazy cleaner need not run.
Fairness == WF_vars(Tick) /\ WF_vars(TickerFires) /\ WF_vars(StartRound)
              /\ WF_vars(RoundStep)

FairSpec == Spec /\ Fairness

-----------------------------------------------------------------------------
(* Properties                                                              *)

\* Passed: the part of the tables the round has gone through.
Passed(c) == \/ ShardIndex(c) < shard
             \/ ShardIndex(c) = shard /\ ~ BeyondCursor(c)

\* What was expired when the round began is gone once the cursor of
\* DeleteExpired is past it: no row is skipped at the end of a page, at the end
\* of a table or among rows that expire at the same moment, whatever is inserted
\* and deleted under the cursor.
NoneSkipped ==
  pc \in Phases \ {"idle"} =>
    \A c \in base \intersect rows : ~ Passed(c)

\* After deleteAll no row is left that was older than the cut-off and in the
\* table when the last deletion ran: a deletion of exactly batchSize rows is
\* followed by another.
RetentionKept ==
  [][\A kind \in {Visits, Stats} :
       pc = (IF kind = Visits THEN "visits" ELSE "stats")
         /\ pc' = (IF kind = Visits THEN "stats" ELSE "rebuild")
       => \A l \in logs' \intersect kind : loggedAt[l] >= CutOff(l)]_vars

\* Every row that expires is deleted in the end by the rounds alone, although a
\* round that fails starts again from the first table.
ExpiredRowsGo ==
  \A c \in Codes : c \in rows /\ expireAt[c] <= MaxTime ~> c \notin rows
=============================================================================
