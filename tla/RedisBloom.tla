----------------------------- MODULE RedisBloom -----------------------------
(***************************************************************************)
(* The Bloom filter that decides whether a short code may exist            *)
(* (internal/infrastructure/filter/bloom.go), together with the part of    *)
(* the MySQL repository a rebuild reads.                                   *)
(*                                                                         *)
(* A creator of a link inserts its row and then calls Add, which reads the *)
(* rebuild marker and writes the code to the live key and, if the marker   *)
(* named one, to the key under construction.  A rebuild sets the marker,   *)
(* lists the active codes page by page and shard by shard into its own     *)
(* temporary key, and installs that key over the live one by a script,     *)
(* provided the marker still names it.  linksvc, redirectsvc and the       *)
(* worker rebuild on their own schedules, so calls of Rebuild overlap with *)
(* each other and with every Add.                                          *)
(*                                                                         *)
(* Every command sent to Redis or MySQL is one step, and may fail.  There  *)
(* is one clock: that of the creators, the rebuilds and the deleters is    *)
(* taken to be the same.                                                   *)
(***************************************************************************)
EXTENDS Integers, FiniteSets

CONSTANTS
  Codes,       \* ids of the links that may be created; a code is Encode(id)
  Runs,        \* calls of Rebuild; a call's temporary key is named by the call
  Main,        \* the live filter key, defaultBloomFilterKey
  NoKey,       \* the marker when it is absent
  ShardCount,  \* number of tables the codes are spread over
  BatchSize,   \* page size of ListActiveCodes
  MaxTime,     \* bound: the clock stops here
  MaxLosses    \* bound: how often Redis may come back empty

ASSUME CodesAssumption == Codes \subseteq Nat \ {0}
ASSUME KeysAssumption == /\ Main \notin Runs /\ NoKey \notin Runs
                         /\ Main # NoKey
ASSUME SizesAssumption == /\ ShardCount \in Nat \ {0}
                          /\ BatchSize \in Nat \ {0}
                          /\ MaxTime \in Nat
                          /\ MaxLosses \in Nat

VARIABLES
  clock,       \* wall-clock time
  rows,        \* codes whose row is in MySQL
  expireAt,    \* the row's expire_at; Never stands for NULL
  pc,          \* where the creator of each code is
  target,      \* the temporary key its Add read from the marker, or NoKey
  marker,      \* the value of markerKey
  stored,      \* the codes added to each filter key
  run,         \* where each call of Rebuild is
  shard,       \* the table its listing is at; ShardCount once past the last
  lastID,      \* the listing's cursor in that table
  page,        \* the page it has read and not yet added
  started,     \* the listing's `now`
  base,        \* history: the rows present when the call set the marker
  lost,        \* history: codes whose membership of Main is not promised
  losses       \* how often Redis has come back empty

dbVars    == <<clock, rows, expireAt>>
addVars   == <<pc, target>>
redisVars == <<marker, stored, losses>>
runVars   == <<run, shard, lastID, page, started, base>>
vars      == <<dbVars, addVars, redisVars, runVars, lost>>

Never == MaxTime + 1

Keys == Runs \union {Main}

Creating == {"idle", "inserted", "addMain", "addTemp", "acked", "failed"}
Running  == {"idle", "reserve", "query", "add", "finish", "delTemp",
             "delMarker", "returned"}

-----------------------------------------------------------------------------
(* Helpers                                                                 *)

ShardIndex(c) == c % ShardCount

\* A row that FindActiveByCode would return now.
Active(c) == c \in rows /\ expireAt[c] > clock

\* Wrong on purpose: Add does not know of rebuilds.
AddKeysLiveOnly == NoKey

\* Where an Add writes after the live key.
AddKeys == marker

\* Wrong on purpose: the page starts with the row the last one ended with.
PageSourceAtCursor(r) == {c \in rows : /\ ShardIndex(c) = shard[r]
                                       /\ c >= lastID[r]
                                       /\ expireAt[c] > started[r]}

\* The rows a page of ListActiveCodes is taken from.
PageSource(r) == {c \in rows : /\ ShardIndex(c) = shard[r]
                               /\ c > lastID[r]
                               /\ expireAt[c] > started[r]}

\* ORDER BY id LIMIT BatchSize over the rows S.
FirstRows(S) ==
  {p \in SUBSET S : /\ \A c \in p, d \in S : d < c => d \in p
                    /\ \/ Cardinality(p) = BatchSize
                       \/ p = S /\ Cardinality(p) < BatchSize}

\* Wrong on purpose: a full page ends the table.
LastPageFull(p) == Cardinality(p) <= BatchSize

\* The last page of a table is one that is not full.
LastPage(p) == Cardinality(p) < BatchSize

\* Wrong on purpose: RENAME without the look at the marker.
MayInstallAlways(r) == TRUE

\* finishBloomRebuildScript installs only the key the marker names.
MayInstall(r) == marker = r

\* Codes that are between their two BF.ADDs, to be lost when r is installed:
\* the first went to the key that r replaces, the second comes too late.
Straddling(r) == {c \in Codes : pc[c] = "addTemp" /\ target[c] = r}

\* Codes whose creator has put them into the live key.
InMain == {c \in Codes : pc[c] \in {"addTemp", "acked"}}

-----------------------------------------------------------------------------
TypeOK ==
  /\ clock \in 0..MaxTime
  /\ rows \subseteq {c \in Codes : pc[c] # "idle"}
  /\ expireAt \in [Codes -> 0..Never]
  /\ pc \in [Codes -> Creating]
  /\ target \in [Codes -> Runs \union {NoKey}]
  /\ marker \in Runs \union {NoKey}
  /\ stored \in [Keys -> SUBSET Codes]
  /\ run \in [Runs -> Running]
  /\ shard \in [Runs -> 0..ShardCount]
  /\ lastID \in [Runs -> Codes \union {0}]
  /\ page \in [Runs -> SUBSET Codes]
  /\ started \in [Runs -> 0..clock]
  /\ base \in [Runs -> SUBSET {c \in Codes : pc[c] # "idle"}]
  /\ lost \subseteq Codes
  /\ losses \in 0..MaxLosses

Init ==
  /\ clock = 0
  /\ rows = {}
  /\ expireAt = [c \in Codes |-> Never]
  /\ pc = [c \in Codes |-> "idle"]
  /\ target = [c \in Codes |-> NoKey]
  /\ marker = NoKey
  /\ stored = [k \in Keys |-> {}]
  /\ run = [r \in Runs |-> "idle"]
  /\ shard = [r \in Runs |-> 0]
  /\ lastID = [r \in Runs |-> 0]
  /\ page = [r \in Runs |-> {}]
  /\ started = [r \in Runs |-> 0]
  /\ base = [r \in Runs |-> {}]
  /\ lost = {}
  /\ losses = 0

-----------------------------------------------------------------------------
(* Time and the table                                                      *)

Tick == /\ clock < MaxTime
        /\ clock' = clock + 1
        /\ UNCHANGED <<rows, expireAt, addVars, redisVars, runVars, lost>>

\* DeleteExpired (the worker) or DeleteExpiredCode (the lazy cleaner).
Purge(c) == /\ c \in rows
            /\ expireAt[c] <= clock
            /\ rows' = rows \ {c}
            /\ UNCHANGED <<clock, expireAt, addVars, redisVars, runVars, lost>>

-----------------------------------------------------------------------------
(* The creator of a code: CreateShortLink up to the return of filter.Add   *)

\* repo.Create.  An expiry in the past is accepted.
Insert(c) == /\ pc[c] = "idle"
             /\ \E e \in 0..Never : expireAt' = [expireAt EXCEPT ![c] = e]
             /\ rows' = rows \union {c}
             /\ pc' = [pc EXCEPT ![c] = "inserted"]
             /\ UNCHANGED <<clock, target, redisVars, runVars, lost>>

\* addKeys: GET markerKey.
ReadMarker(c) == /\ pc[c] = "inserted"
                 /\ target' = [target EXCEPT ![c] = AddKeys]
                 /\ pc' = [pc EXCEPT ![c] = "addMain"]
                 /\ UNCHANGED <<dbVars, redisVars, runVars, lost>>

\* addToKeys: BF.ADD on the live key.
AddMain(c) ==
  /\ pc[c] = "addMain"
  /\ stored' = [stored EXCEPT ![Main] = @ \union {c}]
  /\ pc' = [pc EXCEPT ![c] = IF target[c] = NoKey THEN "acked" ELSE "addTemp"]
  /\ UNCHANGED <<dbVars, target, marker, losses, runVars, lost>>

\* addToKeys: BF.ADD on the temporary key, which creates the key if it is
\* gone by now.
AddTemp(c) ==
  /\ pc[c] = "addTemp"
  /\ stored' = [stored EXCEPT ![target[c]] = @ \union {c}]
  /\ pc' = [pc EXCEPT ![c] = "acked"]
  /\ target' = [target EXCEPT ![c] = NoKey]
  /\ UNCHANGED <<dbVars, marker, losses, runVars, lost>>

\* A command of Add fails, with or without having taken effect, or the
\* creator's process stops; Add returns the error and the row stays.
AddFails(c) ==
  /\ pc[c] \in {"inserted", "addMain", "addTemp"}
  /\ pc' = [pc EXCEPT ![c] = "failed"]
  /\ target' = [target EXCEPT ![c] = NoKey]
  /\ \/ UNCHANGED stored
     \/ /\ pc[c] = "addMain"
        /\ stored' = [stored EXCEPT ![Main] = @ \union {c}]
     \/ /\ pc[c] = "addTemp"
        /\ stored' = [stored EXCEPT ![target[c]] = @ \union {c}]
  /\ UNCHANGED <<dbVars, marker, losses, runVars, lost>>

-----------------------------------------------------------------------------
(* A call of Rebuild                                                       *)

\* Move on to phase p, the locals of the listing being out of scope there.
Leave(r, p) == /\ run' = [run EXCEPT ![r] = p]
               /\ shard' = [shard EXCEPT ![r] = 0]
               /\ lastID' = [lastID EXCEPT ![r] = 0]
               /\ page' = [page EXCEPT ![r] = {}]
               /\ started' = [started EXCEPT ![r] = 0]
               /\ base' = [base EXCEPT ![r] = {}]

\* SET markerKey.  A SET that is reported as failed may have been applied.
SetMarker(r) ==
  /\ run[r] = "idle"
  /\ \/ /\ marker' = r
        /\ run' = [run EXCEPT ![r] = "reserve"]
        /\ base' = [base EXCEPT ![r] = rows]
        /\ UNCHANGED <<shard, lastID, page, started>>
     \/ /\ marker' \in {marker, r}
        /\ Leave(r, "returned")
  /\ UNCHANGED <<dbVars, addVars, stored, losses, lost>>

\* BF.RESERVE of the temporary key, and `now` of ListActiveCodes.
Reserve(r) ==
  /\ run[r] = "reserve"
  /\ \/ /\ run' = [run EXCEPT ![r] = "query"]
        /\ started' = [started EXCEPT ![r] = clock]
        /\ UNCHANGED <<shard, lastID, page, base>>
     \/ Leave(r, "delMarker")
  /\ UNCHANGED <<dbVars, addVars, redisVars, lost>>

\* Wrong on purpose: the cursor of one table is kept for the next.
NextShardKeepsCursor(r) ==
  /\ shard' = [shard EXCEPT ![r] = @ + 1]
  /\ run' = [run EXCEPT ![r] = IF shard[r] + 1 = ShardCount
                               THEN "finish" ELSE "query"]
  /\ UNCHANGED lastID

\* Move the listing to the next table, or to the end.
NextShard(r) ==
  /\ shard' = [shard EXCEPT ![r] = @ + 1]
  /\ lastID' = [lastID EXCEPT ![r] = 0]
  /\ run' = [run EXCEPT ![r] = IF shard[r] + 1 = ShardCount
                               THEN "finish" ELSE "query"]

\* The SELECT of one page.
QueryPage(r) ==
  /\ run[r] = "query"
  /\ \E p \in FirstRows(PageSource(r)) :
       IF p = {}
       THEN /\ NextShard(r)
            /\ UNCHANGED page
       ELSE /\ page' = [page EXCEPT ![r] = p]
            /\ run' = [run EXCEPT ![r] = "add"]
            /\ UNCHANGED <<shard, lastID>>
  /\ UNCHANGED <<dbVars, addVars, redisVars, started, base, lost>>

\* handle(codes): BF.MADD of the page; then the cursor moves.
AddPage(r) ==
  /\ run[r] = "add"
  /\ stored' = [stored EXCEPT ![r] = @ \union page[r]]
  /\ page' = [page EXCEPT ![r] = {}]
  /\ IF LastPage(page[r])
     THEN NextShard(r)
     ELSE \E m \in page[r] :
            /\ \A c \in page[r] : c <= m
            /\ lastID' = [lastID EXCEPT ![r] = m]
            /\ run' = [run EXCEPT ![r] = "query"]
            /\ UNCHANGED shard
  /\ UNCHANGED <<dbVars, addVars, marker, losses, started, base, lost>>

\* Wrong on purpose: the error of the listing is dropped.
ListingFailsUnseen(r) ==
  /\ run[r] \in {"query", "add"}
  /\ run' = [run EXCEPT ![r] = "finish"]
  /\ UNCHANGED <<shard, lastID, page, started, base>>
  /\ UNCHANGED <<dbVars, addVars, redisVars, lost>>

\* ListActiveCodes or its handler returns an error: Rebuild cleans up.
ListingFails(r) ==
  /\ run[r] \in {"query", "add"}
  /\ Leave(r, "delTemp")
  /\ \/ UNCHANGED stored
     \/ stored' = [stored EXCEPT ![r] = @ \union page[r]]
  /\ UNCHANGED <<dbVars, addVars, marker, losses, lost>>

\* DEL tempKey, whose error is dropped (it fails whenever ctx was cancelled).
DelTemp(r) ==
  /\ run[r] = "delTemp"
  /\ Leave(r, "delMarker")
  /\ \/ UNCHANGED stored
     \/ stored' = [stored EXCEPT ![r] = {}]
  /\ UNCHANGED <<dbVars, addVars, marker, losses, lost>>

\* DEL markerKey, whoever's it is by now; its error is dropped too.
DelMarker(r) ==
  /\ run[r] = "delMarker"
  /\ Leave(r, "returned")
  /\ marker' \in {marker, NoKey}
  /\ UNCHANGED <<dbVars, addVars, stored, losses, lost>>

\* The effect of RENAME temp main; DEL marker.  The key that is replaced is
\* gone, and so is every code that only it had.
Install(r) ==
  /\ stored' = [stored EXCEPT ![Main] = stored[r], ![r] = {}]
  /\ marker' = NoKey
  /\ lost' = (lost \union Straddling(r)) \ (base[r] \union stored[r])

\* EVAL of finishBloomRebuildScript; a refusal is not an error for the caller.
FinishRebuild(r) ==
  /\ run[r] = "finish"
  /\ Leave(r, "returned")
  /\ IF MayInstall(r) THEN Install(r) ELSE UNCHANGED <<stored, marker, lost>>
  /\ UNCHANGED <<dbVars, addVars, losses>>

\* The process making the call stops, or the EVAL fails: nothing is undone.
Crash(r) ==
  /\ run[r] \notin {"idle", "returned"}
  /\ Leave(r, "returned")
  /\ UNCHANGED <<dbVars, addVars, redisVars, lost>>

-----------------------------------------------------------------------------
\* Redis restarts without its data.
RedisLost ==
  /\ losses < MaxLosses
  /\ losses' = losses + 1
  /\ stored' = [k \in Keys |-> {}]
  /\ marker' = NoKey
  /\ lost' = lost \union InMain
  /\ UNCHANGED <<dbVars, addVars, runVars>>

-----------------------------------------------------------------------------
CreatorStep(c) == Insert(c) \/ ReadMarker(c) \/ AddMain(c) \/ AddTemp(c)
                    \/ AddFails(c)

RunStep(r) == \/ SetMarker(r) \/ Reserve(r) \/ QueryPage(r) \/ AddPage(r)
              \/ ListingFails(r) \/ DelTemp(r) \/ DelMarker(r)
              \/ FinishRebuild(r)

Next == \/ Tick
        \/ \E c \in Codes : Purge(c) \/ CreatorStep(c)
        \/ \E r \in Runs : RunStep(r) \/ Crash(r)
        \/ RedisLost

Spec == Init /\ [][Next]_vars

\* A call of Rebuild is a goroutine that runs until it returns or its process
\* stops; nothing else is promised to move.
Fairness == \A r \in Runs : WF_vars(RunStep(r))

FairSpec == Spec /\ Fairness

-----------------------------------------------------------------------------
(* What Resolve sees                                                       *)

\* How far a link is, for those who know of one filter only.
StageOf(p) == CASE p = "idle"                     -> "none"
                [] p \in {"inserted", "addMain"} -> "made"
                [] p = "addTemp"                  -> "adding"
                [] p = "acked"                    -> "added"
                [] p = "failed"                   -> "failed"

Stage == [c \in Codes |-> StageOf(pc[c])]

Alive == {c \in Codes : Active(c)}

Filter == INSTANCE ExistenceFilter WITH
            stage <- Stage, alive <- Alive, members <- stored[Main], excused <- lost

-----------------------------------------------------------------------------
(* Properties                                                              *)

\* The live key, written by every Add and exchanged by overlapping rebuilds, is an
\* existence filter: it gains codes by their Adds, is replaced as a whole by what still
\* has every active link, but for those that were between their two BF.ADDs, and never
\* lets a code through that was not made.
ImplementsFilter == Filter!Spec

\* Listing: the phases from which a call that holds the marker may still install.
Listing(r) == run[r] \in {"reserve", "query", "add", "finish"}

\* The part of the table r's cursor has gone past.
Passed(r, c) == \/ ShardIndex(c) < shard[r]
                \/ ShardIndex(c) = shard[r] /\ c <= lastID[r]

\* The live filter answers "may exist" for every link that is active and was
\* added to it (MightContain, Add), apart from those caught between their two
\* BF.ADDs when a rebuild that had already listed their table was installed,
\* and those lost with Redis itself, until the next rebuild that lists them.
\* So neither overlapping rebuilds, nor a failing one that deletes another's
\* marker, nor a crash in the middle of one ever lose any other code.
OnlyStraddledLost ==
  \A c \in InMain \ lost : Active(c) => c \in stored[Main]

\* A rebuild that still holds the marker has every link that was in the table
\* when it set the marker, is still active, and lies before its cursor: the
\* paging of ListActiveCodes skips nothing, whatever is inserted and deleted
\* between two pages.
ListingComplete ==
  \A r \in Runs : Listing(r) /\ marker = r =>
    \A c \in base[r] : Active(c) /\ Passed(r, c) => c \in stored[r]

\* Every active link whose Add has read the marker, and that the rebuild in
\* charge may have gone past, knows of that rebuild and has written to its key
\* before CreateShortLink goes on: the double write of addToKeys covers what
\* the listing cannot see.
DoubleWrite ==
  \A r \in Runs : Listing(r) /\ marker = r =>
    \A c \in Codes :
      Active(c) /\ pc[c] \in {"addMain", "addTemp", "acked"} =>
        \/ c \in base[r]
        \/ pc[c] = "acked" /\ c \in stored[r]
        \/ pc[c] # "acked" /\ target[c] = r

\* Installing a rebuilt filter (finishRebuild) repairs every earlier loss: each
\* link in the table when the rebuild set its marker and still active is in the
\* live filter afterwards, whether its own Add succeeded, failed or was lost.
InstallHeals ==
  [][\A r \in Runs : run[r] = "finish" /\ marker = r /\ marker' = NoKey
                       /\ run'[r] = "returned"
       => \A c \in base[r] : Active(c) => c \in stored'[Main]]_vars

\* A Rebuild whose process keeps running returns: the listing comes to an end
\* although codes are inserted while it goes on.
RebuildReturns ==
  \A r \in Runs : run[r] # "idle" ~> run[r] = "returned"

\* "RedisBloom filters codes that do not exist" (README.md:14) and "creation
\* updates the filter after MySQL" (README.md:15): a link whose creation was
\* acknowledged, and that is active, is not filtered out.
AckedStaysFound ==
  \A c \in Codes : pc[c] = "acked" /\ Active(c) => c \in stored[Main]
=============================================================================
