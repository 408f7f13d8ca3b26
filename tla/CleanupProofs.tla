--------------------------- MODULE CleanupProofs ---------------------------
(***************************************************************************)
(* A round of the worker's clean-up skips no expired link, for any number  *)
(* of links and tables and any page size.  The invariant adds to           *)
(* NoneSkipped what it needs of the page between its SELECT and its        *)
(* DELETE: the rows of the table that are not on it come after it.         *)
(* And a round leaves no visit or statistic that is past its retention.    *)
(***************************************************************************)
EXTENDS Cleanup, FiniteSetTheorems, TLAPS

Listing == {"select", "uncache", "delete"}
Later   == {"visits", "stats", "rebuild"}

\* Where the listing is, and what the round set out to delete.
RoundOK == /\ pc \in Listing => shard < ShardCount
           /\ pc \in Later => shard = ShardCount
           /\ \A c \in base : ExpiredBy(c, before)

\* The page holds the first rows of what is left of the table.
PageOK ==
  pc \in {"uncache", "delete"} =>
    /\ \A c \in page : ShardIndex(c) = shard /\ ExpiredBy(c, before)
    /\ \A c \in (base \intersect rows) \ page : ShardIndex(c) = shard =>
         Cardinality(page) = BatchSize /\ \A d \in page : Before(d, c)

Inv == TypeOK /\ RoundOK /\ PageOK /\ NoneSkipped

USE CleanupAssumption

\* A table index is below the number of tables.
LEMMA ShardIndexRange ==
  ASSUME NEW c \in Codes PROVE ShardIndex(c) \in 0..(ShardCount - 1)
  BY DEF ShardIndex

\* (expire_at, id) orders the rows totally.
LEMMA BeforeTotal ==
  ASSUME TypeOK, NEW c \in Codes, NEW d \in Codes, c # d
  PROVE  Before(c, d) \/ Before(d, c)
  BY DEF TypeOK, Before, Never

\* The first page is empty only if there is nothing to read; and what it leaves
\* out comes after it, which happens only to a full page.
LEMMA FirstPage ==
  ASSUME TypeOK, NEW S \in SUBSET Codes, NEW p \in FirstRows(S)
  PROVE  /\ p \subseteq S
         /\ p = {} => S = {}
         /\ \A c \in S \ p : Cardinality(p) = BatchSize /\ \A d \in p : Before(d, c)
<1>1. /\ p \subseteq S
      /\ \A d \in p, c \in S : Before(c, d) => c \in p
      /\ Cardinality(p) = BatchSize \/ p = S
  BY DEF FirstRows
<1>2. p = {} => S = {}
  BY <1>1, FS_EmptySet
<1>3. ASSUME NEW c \in S \ p
      PROVE  Cardinality(p) = BatchSize /\ \A d \in p : Before(d, c)
  <2>1. Cardinality(p) = BatchSize
    BY <1>1
  <2>2. ASSUME NEW d \in p PROVE Before(d, c)
    <3>1. c \in Codes /\ d \in Codes /\ c # d
      BY <1>1
    <3>2. ~ Before(c, d)
      BY <1>1
    <3> QED BY <3>1, <3>2, BeforeTotal
  <2> QED BY <2>1, <2>2
<1> QED BY <1>1, <1>2, <1>3

-----------------------------------------------------------------------------
(* Steps                                                                   *)

\* Steps of others: rows go away, or come that the round is not after.
LEMMA OthersStep ==
  ASSUME Inv, TypeOK', UNCHANGED roundVars,
         \A c \in Codes : ExpiredBy(c, before) => expireAt'[c] = expireAt[c],
         (base \intersect rows') \subseteq rows
  PROVE  Inv'
<1> USE DEF Inv, roundVars
<1>1. RoundOK'
  BY DEF RoundOK, ExpiredBy, TypeOK
<1>2. PageOK'
  <2> SUFFICES ASSUME pc \in {"uncache", "delete"} PROVE PageOK'
    BY DEF PageOK
  <2>1. \A c \in page : /\ ShardIndex(c) = shard /\ ExpiredBy(c, before)'
                        /\ expireAt'[c] = expireAt[c]
    BY DEF PageOK, ExpiredBy, TypeOK
  <2>2. ASSUME NEW c \in (base \intersect rows') \ page, ShardIndex(c) = shard
        PROVE  Cardinality(page) = BatchSize /\ \A d \in page : Before(d, c)'
    <3>1. Cardinality(page) = BatchSize /\ \A d \in page : Before(d, c)
      BY <2>2 DEF PageOK
    <3>2. expireAt'[c] = expireAt[c]
      BY <2>2 DEF RoundOK, TypeOK
    <3> QED BY <2>1, <3>1, <3>2 DEF Before
  <2> QED BY <2>1, <2>2 DEF PageOK, ShardIndex
<1>3. NoneSkipped'
  BY DEF RoundOK, TypeOK, NoneSkipped, Passed, BeyondCursor, ShardIndex
<1> QED BY <1>1, <1>2, <1>3

\* Leaving a table: nothing of it may be left.
LEMMA NextTable ==
  ASSUME Inv, TypeOK', NextShard, pc \in Listing, UNCHANGED <<expireAt, before, base>>,
         rows' \subseteq rows,
         \A c \in base \intersect rows' : ShardIndex(c) # shard
  PROVE  Inv'
<1> USE DEF Inv
<1>1. shard < ShardCount /\ shard \in Nat /\ shard' = shard + 1
  BY DEF RoundOK, TypeOK, NextShard
<1>2. pc' = (IF shard + 1 = ShardCount THEN "visits" ELSE "select")
  BY DEF NextShard
<1>3. RoundOK'
  BY <1>1, <1>2 DEF RoundOK, ExpiredBy, Listing, Later
<1>4. PageOK'
  BY <1>2 DEF PageOK
<1>5. ASSUME NEW c \in base' \intersect rows' PROVE ~ Passed(c)'
  <2>1. c \in Codes /\ ~ Passed(c) /\ ShardIndex(c) # shard
    BY DEF NoneSkipped, TypeOK, Phases, Listing
  <2>2. ShardIndex(c) > shard
    BY <2>1, <1>1, ShardIndexRange DEF Passed
  <2>3. ~ (ShardIndex(c) < shard') /\ BeyondCursor(c)'
    BY <2>1, <2>2, <1>1, ShardIndexRange DEF BeyondCursor, NextShard
  <2> QED BY <2>3 DEF Passed, ShardIndex
<1>6. NoneSkipped'
  BY <1>5 DEF NoneSkipped
<1> QED BY <1>3, <1>4, <1>6

\* The SELECT of a page.
LEMMA SelectStep == ASSUME Inv, TypeOK', SelectPage PROVE Inv'
<1> USE DEF Inv
<1>1. PICK p \in FirstRows(PageSource) :
        IF p = {} THEN NextShard /\ UNCHANGED page
        ELSE page' = p /\ pc' = "uncache" /\ UNCHANGED <<shard, cursorAt, cursorID>>
  BY DEF SelectPage
<1>2. pc = "select" /\ UNCHANGED <<rows, expireAt, before, base>>
  BY DEF SelectPage, tableVars
<1>3. PageSource \subseteq Codes
  BY DEF PageSource, TypeOK
<1>4. \A c \in base \intersect rows : ShardIndex(c) = shard => c \in PageSource
  BY <1>2 DEF NoneSkipped, RoundOK, PageSource, Passed, Phases
<1>5. CASE p = {}
  <2>1. \A c \in base \intersect rows' : ShardIndex(c) # shard
    BY <1>2, <1>3, <1>4, <1>5, FirstPage
  <2> QED BY <1>1, <1>2, <1>5, <2>1, NextTable DEF Listing
<1>6. CASE p # {}
  <2>1. page' = p /\ pc' = "uncache" /\ UNCHANGED <<shard, cursorAt, cursorID>>
    BY <1>1, <1>6
  <2>2. RoundOK'
    BY <1>2, <2>1 DEF RoundOK, Listing, Later, ExpiredBy
  <2>3. \A c \in p : ShardIndex(c) = shard /\ ExpiredBy(c, before)
    BY <1>3, FirstPage DEF PageSource
  <2>4. \A c \in (base \intersect rows) \ p : ShardIndex(c) = shard =>
          Cardinality(p) = BatchSize /\ \A d \in p : Before(d, c)
    BY <1>3, <1>4, FirstPage
  <2>5. PageOK'
    BY <1>2, <2>1, <2>3, <2>4 DEF PageOK, ShardIndex, ExpiredBy, Before
  <2>6. NoneSkipped'
    BY <1>2, <2>1 DEF NoneSkipped, Passed, BeyondCursor, ShardIndex, Phases
  <2> QED BY <2>2, <2>5, <2>6
<1> QED BY <1>5, <1>6

\* The DELETE of a page, and the move of the cursor.
LEMMA DeleteStep == ASSUME Inv, TypeOK', DeletePage PROVE Inv'
<1> USE DEF Inv
<1>1. /\ pc = "delete" /\ rows' = rows \ page
      /\ UNCHANGED <<expireAt, before, base>>
  BY DEF DeletePage
<1>2. CASE Cardinality(page) < BatchSize
  <2>1. NextShard
    BY <1>2 DEF DeletePage
  <2>2. \A c \in base \intersect rows' : ShardIndex(c) # shard
    BY <1>1, <1>2 DEF PageOK
  <2> QED BY <1>1, <2>1, <2>2, NextTable DEF Listing
<1>3. CASE ~ (Cardinality(page) < BatchSize)
  <2>1. PICK last \in page :
          /\ cursorAt' = expireAt[last] /\ cursorID' = last
          /\ pc' = "select" /\ UNCHANGED shard
    BY <1>3 DEF DeletePage
  <2>2. RoundOK'
    BY <1>1, <2>1 DEF RoundOK, Listing, Later, ExpiredBy
  <2>3. PageOK'
    BY <2>1 DEF PageOK
  <2>4. ASSUME NEW c \in base' \intersect rows' PROVE ~ Passed(c)'
    <3>1. c \in (base \intersect rows) \ page /\ c \in Codes /\ ~ Passed(c)
      BY <1>1 DEF NoneSkipped, TypeOK, Phases
    <3>2. CASE ShardIndex(c) = shard
      <4>1. Before(last, c)
        BY <1>1, <3>1, <3>2 DEF PageOK
      <4>2. last \in Codes /\ expireAt[last] \in Int /\ expireAt[c] \in Int
        BY <3>1 DEF TypeOK, Never
      <4>3. BeyondCursor(c)'
        BY <1>1, <2>1, <4>1, <4>2 DEF BeyondCursor, Before
      <4> QED BY <2>1, <3>2, <4>3, ShardIndexRange, <3>1 DEF Passed, ShardIndex
    <3>3. CASE ShardIndex(c) # shard
      BY <2>1, <3>1, <3>3 DEF Passed, ShardIndex
    <3> QED BY <3>2, <3>3
  <2>5. NoneSkipped'
    BY <2>4 DEF NoneSkipped
  <2> QED BY <2>2, <2>3, <2>5
<1> QED BY <1>2, <1>3

\* A round begins at the first row of the first table.
LEMMA StartStep == ASSUME Inv, TypeOK', StartRound PROVE Inv'
<1> USE DEF Inv, StartRound
<1>1. RoundOK' /\ PageOK'
  BY DEF RoundOK, PageOK, Listing, Later, ExpiredBy, tableVars
<1>2. ASSUME NEW c \in base' PROVE ~ Passed(c)'
  <2>1. c \in Codes
    BY DEF TypeOK
  <2> QED BY <2>1, ShardIndexRange DEF Passed, BeyondCursor, ShardIndex
<1>3. NoneSkipped'
  BY <1>2 DEF NoneSkipped
<1> QED BY <1>1, <1>3

\* However a round ends, nothing is left of it.
LEMMA EndStep == ASSUME TypeOK', EndRound PROVE Inv'
  BY DEF Inv, EndRound, RoundOK, PageOK, NoneSkipped, Listing, Later

\* Within a round, but not in the tables of links.
LEMMA LogStep ==
  ASSUME Inv, TypeOK', UNCHANGED <<rows, expireAt, before, shard, cursorAt, cursorID, base>>,
         pc \in Later, pc' \in Later
  PROVE  Inv'
  BY DEF Inv, RoundOK, PageOK, NoneSkipped, Passed, BeyondCursor, ShardIndex, ExpiredBy,
         Listing, Later, Phases

-----------------------------------------------------------------------------
(* Types                                                                   *)

LEMMA TypeInit == Init => TypeOK
<1> SUFFICES ASSUME Init PROVE TypeOK
  OBVIOUS
<1>1. Never \in Int /\ Never \in 0..Never /\ Zero \in Zero..MaxTime
  BY DEF Never, Zero
<1>2. expireAt \in [Codes -> 0..Never] /\ loggedAt \in [Logs -> Int]
  BY <1>1 DEF Init
<1>3. clock \in 0..MaxTime /\ before \in 0..clock /\ fails \in 0..MaxFails
      /\ shard \in 0..ShardCount
  BY DEF Init
<1> QED BY <1>1, <1>2, <1>3 DEF Init, TypeOK, Phases

\* What the last row of a page leaves in the cursor is a time of the clock.
LEMMA TypeStep == ASSUME Inv, [Next]_vars PROVE TypeOK'
<1> USE DEF Inv
<1>1. CASE Tick \/ TickerFires \/ StartRound
  <2>1. CASE Tick
    BY <2>1 DEF Tick, TypeOK, tableVars, roundVars
  <2>2. CASE TickerFires
    BY <2>2 DEF TickerFires, TypeOK, tableVars, roundVars
  <2>3. CASE StartRound
    <3>1. /\ Zero \in Zero..MaxTime /\ 0 \in 0..ShardCount /\ clock \in 0..clock
          /\ "select" \in Phases
      BY DEF TypeOK, Phases, Zero
    <3>2. base' \subseteq Codes
      BY <2>3 DEF StartRound, TypeOK
    <3> QED BY <2>3, <3>1, <3>2 DEF StartRound, TypeOK, tableVars
  <2> QED BY <1>1, <2>1, <2>2, <2>3
<1>2. ASSUME NEW c \in Codes, Insert(c) \/ LazyDelete(c) PROVE TypeOK'
  BY <1>2 DEF Insert, LazyDelete, TypeOK, roundVars
<1>3. ASSUME NEW l \in Logs, LogRow(l) PROVE TypeOK'
  <2>1. PICK t \in (-Retention)..clock : loggedAt' = [loggedAt EXCEPT ![l] = t]
    BY <1>3 DEF LogRow
  <2>2. t \in Int /\ clock \in Int
    BY DEF TypeOK
  <2>3. loggedAt' \in [Logs -> Int]
    BY <2>1, <2>2 DEF TypeOK
  <2> QED BY <1>3, <2>3 DEF LogRow, TypeOK, roundVars
<1>4. ASSUME NextShard, pc = "select" \/ pc = "delete"
      PROVE  /\ shard' \in 0..ShardCount /\ pc' \in Phases
             /\ cursorAt' \in Zero..MaxTime /\ cursorID' \in Codes \union {0}
  BY <1>4 DEF NextShard, RoundOK, Listing, Phases, TypeOK, Zero
<1>5. CASE SelectPage
  <2>1. PICK p \in FirstRows(PageSource) :
          IF p = {} THEN NextShard /\ UNCHANGED page
          ELSE page' = p /\ pc' = "uncache" /\ UNCHANGED <<shard, cursorAt, cursorID>>
    BY <1>5 DEF SelectPage
  <2>2. p \subseteq Codes
    BY DEF FirstRows, PageSource, TypeOK
  <2> QED BY <1>4, <1>5, <2>1, <2>2 DEF SelectPage, TypeOK, tableVars, Phases
<1>6. CASE UncachePage
  BY <1>6 DEF UncachePage, TypeOK, tableVars, Phases
<1>7. CASE DeletePage
  <2>1. CASE Cardinality(page) < BatchSize
    BY <1>4, <1>7, <2>1 DEF DeletePage, TypeOK
  <2>2. CASE ~ (Cardinality(page) < BatchSize)
    <3>1. PICK last \in page :
            /\ cursorAt' = expireAt[last] /\ cursorID' = last
            /\ pc' = "select" /\ UNCHANGED shard
      BY <1>7, <2>2 DEF DeletePage
    <3>2. last \in Codes /\ expireAt[last] \in Zero..MaxTime
      BY <1>7 DEF DeletePage, PageOK, ExpiredBy, TypeOK, Never, Zero
    <3> QED BY <1>7, <3>1, <3>2 DEF DeletePage, TypeOK, Phases
  <2> QED BY <2>1, <2>2
<1>8. ASSUME NEW kind, NEW phase, NEW next \in Phases, phase \in Phases,
             DeleteLogs(kind, phase, next)
      PROVE  TypeOK'
  BY <1>8 DEF DeleteLogs, TypeOK
<1>9. ASSUME EndRound, clock' = clock
      PROVE  /\ pc' \in Phases /\ before' \in 0..clock' /\ shard' \in 0..ShardCount
             /\ cursorAt' \in Zero..MaxTime /\ cursorID' \in Codes \union {0}
             /\ page' \subseteq Codes /\ base' \subseteq Codes
  BY <1>9 DEF EndRound, TypeOK, Phases, Zero
<1>10. CASE RebuildFilter
  BY <1>9, <1>10 DEF RebuildFilter, TypeOK, tableVars
<1>11. CASE RoundFails
  <2>1. rows' \subseteq Codes /\ logs' \subseteq Logs /\ tick' \in BOOLEAN
    BY <1>11 DEF RoundFails, TypeOK
  <2>2. fails' \in 0..MaxFails
    BY <1>11 DEF RoundFails, TypeOK
  <2>3. EndRound /\ UNCHANGED <<clock, expireAt, loggedAt>>
    BY <1>11 DEF RoundFails
  <2> QED BY <1>9, <2>1, <2>2, <2>3 DEF TypeOK
<1>12. CASE UNCHANGED vars
  BY <1>12 DEF vars, tableVars, roundVars, TypeOK
<1>13. CASE DeleteLogs(Visits, "visits", "stats") \/ DeleteLogs(Stats, "stats", "rebuild")
  BY <1>8, <1>13 DEF Phases
<1> QED BY <1>1, <1>2, <1>3, <1>5, <1>6, <1>7, <1>10, <1>11, <1>12, <1>13 DEF Next, RoundStep

-----------------------------------------------------------------------------
(* The invariant                                                           *)

LEMMA InvInit == Init => Inv
<1> SUFFICES ASSUME Init PROVE Inv
  OBVIOUS
<1>1. RoundOK /\ PageOK /\ NoneSkipped
  BY DEF Init, RoundOK, PageOK, NoneSkipped, Listing, Later
<1> QED BY <1>1, TypeInit DEF Inv

LEMMA InvStep == Inv /\ [Next]_vars => Inv'
<1> SUFFICES ASSUME Inv, [Next]_vars PROVE Inv'
  OBVIOUS
<1>1. TypeOK'
  BY TypeStep
<1>2. CASE Tick \/ TickerFires \/ UNCHANGED vars
  BY <1>1, <1>2, OthersStep DEF Tick, TickerFires, vars, tableVars
<1>3. CASE StartRound
  BY <1>1, <1>3, StartStep
<1>4. ASSUME NEW c \in Codes, Insert(c) PROVE Inv'
  <2>1. ~ ExpiredBy(c, before) /\ c \notin base
    BY <1>4 DEF Insert, ExpiredBy, Inv, RoundOK
  <2>2. \A d \in Codes : ExpiredBy(d, before) => expireAt'[d] = expireAt[d]
    BY <1>4, <2>1 DEF Insert, Inv, TypeOK
  <2> QED BY <1>1, <1>4, <2>1, <2>2, OthersStep DEF Insert
<1>5. ASSUME NEW c \in Codes, LazyDelete(c) PROVE Inv'
  BY <1>1, <1>5, OthersStep DEF LazyDelete
<1>6. ASSUME NEW l \in Logs, LogRow(l) PROVE Inv'
  BY <1>1, <1>6, OthersStep DEF LogRow
<1>7. CASE SelectPage
  BY <1>1, <1>7, SelectStep
<1>8. CASE UncachePage
  <2>1. RoundOK' /\ PageOK' /\ NoneSkipped'
    BY <1>8 DEF UncachePage, tableVars, Inv, RoundOK, PageOK, NoneSkipped, Passed,
                BeyondCursor, ShardIndex, ExpiredBy, Before, Listing, Later, Phases
  <2> QED BY <1>1, <2>1 DEF Inv
<1>9. CASE DeletePage
  BY <1>1, <1>9, DeleteStep
<1>10. CASE DeleteLogs(Visits, "visits", "stats") \/ DeleteLogs(Stats, "stats", "rebuild")
  <2>1. pc \in Later /\ pc' \in Later
    BY <1>10 DEF DeleteLogs, Later
  <2> QED BY <1>1, <1>10, <2>1, LogStep DEF DeleteLogs
<1>11. CASE RebuildFilter \/ RoundFails
  BY <1>1, <1>11, EndStep DEF RebuildFilter, RoundFails
<1> QED BY <1>2, <1>3, <1>4, <1>5, <1>6, <1>7, <1>8, <1>9, <1>10, <1>11 DEF Next, RoundStep

\* Every variable keeps its type; in particular the loop over the tables ends
\* at the last one, and the cursor never points past the clock.
THEOREM TypeCorrect == Spec => []TypeOK
<1>1. Inv => TypeOK
  BY DEF Inv
<1> QED BY <1>1, InvInit, InvStep, PTL DEF Spec

\* However many links and tables there are, and however large a page is: what
\* was expired when a round began is gone once DeleteExpired's cursor is past it.
THEOREM NothingSkipped == Spec => []NoneSkipped
<1>1. Inv => NoneSkipped
  BY DEF Inv
<1> QED BY <1>1, InvInit, InvStep, PTL DEF Spec

\* A DELETE that ends deleteAll was not limited, and has taken all it may.
LEMMA LastDeletionTakesAll ==
  ASSUME NEW kind, NEW phase, NEW next, next # phase,
         DeleteLogs(kind, phase, next), pc' = next
  PROVE  logs' = logs \ Old(kind)
<1>1. PICK deleted \in SUBSET Old(kind) :
        /\ \/ Cardinality(deleted) = BatchSize
           \/ deleted = Old(kind) /\ Cardinality(deleted) < BatchSize
        /\ logs' = logs \ deleted
        /\ pc' = IF LastDeletion(deleted) THEN next ELSE phase
  BY DEF DeleteLogs
<1>2. Cardinality(deleted) < BatchSize
  BY <1>1 DEF LastDeletion
<1>3. deleted = Old(kind)
  BY <1>1, <1>2
<1> QED BY <1>1, <1>3

\* Whatever else is written meanwhile, and whichever rows the limited deletions
\* take: when DeleteVisitsBefore or DeleteDailyStatsBefore is done, no row is
\* older than its cut-off (deleteAll).
THEOREM RetentionHolds == Spec => RetentionKept
<1> DEFINE From(kind) == IF kind = Visits THEN "visits" ELSE "stats"
           To(kind)   == IF kind = Visits THEN "stats" ELSE "rebuild"
           Kept == \A kind \in {Visits, Stats} :
                     pc = From(kind) /\ pc' = To(kind)
                       => \A l \in logs' \intersect kind : loggedAt[l] >= CutOff(l)
<1>1. TypeOK /\ [Next]_vars => [Kept]_vars
  <2> SUFFICES ASSUME TypeOK, Next, NEW kind \in {Visits, Stats},
                      pc = From(kind), pc' = To(kind),
                      NEW l \in logs' \intersect kind
               PROVE  loggedAt[l] >= CutOff(l)
    OBVIOUS
  <2>1. DeleteLogs(kind, From(kind), To(kind))
    <3>1. pc \in {"visits", "stats"} /\ pc' # pc /\ pc' # "idle"
      OBVIOUS
    <3>2. DeleteLogs(Visits, "visits", "stats") \/ DeleteLogs(Stats, "stats", "rebuild")
      BY <3>1 DEF Next, RoundStep, Tick, TickerFires, StartRound, Insert, LazyDelete,
                  LogRow, SelectPage, UncachePage, DeletePage, RebuildFilter,
                  RoundFails, EndRound, roundVars
    <3> QED BY <3>2 DEF DeleteLogs
  <2>2. logs' = logs \ Old(kind)
    <3>1. To(kind) # From(kind)
      OBVIOUS
    <3> HIDE DEF From, To
    <3> QED BY <2>1, <3>1, LastDeletionTakesAll
  <2>3. l \in Logs /\ ~ (loggedAt[l] < CutOff(l))
    BY <2>2 DEF Old, Logs
  <2>4. loggedAt[l] \in Int /\ CutOff(l) \in Int
    BY <2>3 DEF TypeOK, CutOff
  <2> QED BY <2>3, <2>4
<1> QED BY <1>1, TypeCorrect, PTL DEF Spec, RetentionKept

\* Nobody deletes what is not old: a row of a link goes only when the link has expired,
\* also when a page is deleted by ids chosen earlier or a command fails half-way, and a
\* visit or a statistic only when it is older than its cut-off (DeleteExpired,
\* DeleteExpiredCode, deleteAll).
THEOREM OnlyOldDeleted ==
  Spec => [][/\ \A c \in rows : c \in rows' \/ ExpiredBy(c, clock)
             /\ \A l \in logs : l \in logs' \/ loggedAt[l] < CutOff(l)]_vars
<1> DEFINE Due == \A c \in rows : c \in rows' \/ ExpiredBy(c, clock)
           Dated == \A l \in logs : l \in logs' \/ loggedAt[l] < CutOff(l)
<1>1. Inv /\ [Next]_vars => [Due /\ Dated]_vars
  <2> SUFFICES ASSUME Inv, Next PROVE Due /\ Dated
    OBVIOUS
  <2>1. Due
    <3>1. CASE DeletePage \/ RoundFails
      <4>1. pc = "delete" => \A c \in page : ExpiredBy(c, clock)
        BY DEF Inv, PageOK, TypeOK, ExpiredBy, Never
      <4> QED BY <3>1, <4>1 DEF DeletePage, RoundFails
    <3>2. CASE ~ (DeletePage \/ RoundFails)
      BY <3>2 DEF Next, RoundStep, Tick, TickerFires, StartRound, Insert, LazyDelete, LogRow,
                  SelectPage, UncachePage, DeleteLogs, RebuildFilter, tableVars
    <3> QED BY <3>1, <3>2
  <2>2. Dated
    <3>1. ASSUME NEW kind, NEW phase, NEW next, DeleteLogs(kind, phase, next) PROVE Dated
      BY <3>1 DEF DeleteLogs, Old
    <3>2. CASE RoundFails
      BY <3>2 DEF RoundFails, OldNow, Old
    <3>3. CASE /\ ~ RoundFails
               /\ ~ DeleteLogs(Visits, "visits", "stats")
               /\ ~ DeleteLogs(Stats, "stats", "rebuild")
      BY <3>3 DEF Next, RoundStep, Tick, TickerFires, StartRound, Insert, LazyDelete, LogRow,
                  SelectPage, UncachePage, DeletePage, RebuildFilter, tableVars
    <3> QED BY <3>1, <3>2, <3>3
  <2> QED BY <2>1, <2>2
<1> QED BY <1>1, InvInit, InvStep, PTL DEF Spec
=============================================================================
