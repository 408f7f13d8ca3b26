---------------------------- MODULE LinkService ----------------------------
(***************************************************************************)
(* Creating and resolving short links (internal/app/linkapp/service.go,    *)
(* lazy_cleaner.go), with the stores they go through and the worker that   *)
(* deletes expired links under them.                                       *)
(*                                                                         *)
(* The filter may do what RedisBloom shows it to do and ExistenceFilter    *)
(* states: a rebuild may lose a link whose Add it falls into, and Redis    *)
(* all of it.                                                              *)
(*                                                                         *)
(* linksvc creates a link: row, filter, shared (Redis) cache.  One process *)
(* of redirectsvc resolves links: filter, its local cache, then one loader *)
(* per code (singleflight) through the shared cache and MySQL, filling the *)
(* caches on the way back; expired rows it meets go to a bounded queue     *)
(* that its lazy cleaner works off.  The worker deletes expired rows page  *)
(* by page, their shared cache entries first.                              *)
(*                                                                         *)
(* Each command to Redis or MySQL is a step of its own, and time passes    *)
(* between steps; work inside the process between two commands is part of  *)
(* the step before it.  Any command may fail.  There is one clock: that of *)
(* linksvc, redirectsvc, the worker and Redis is taken to be the same.     *)
(***************************************************************************)
EXTENDS Integers, Sequences, FiniteSets

CONSTANTS
  Codes,       \* the codes that may be asked for
  Links,       \* those of them that are given to links
  Key,         \* what the tables tell of a code: its table, and the code but for case
  Calls,       \* calls of Resolve made at the redirect process
  Wants,       \* what the calls may ask for
  NoCall,      \* the loadGroup has no call for a code
  CacheTTL,    \* defaultCacheTTL
  QueueSize,   \* capacity of the lazy cleaner's queue
  Expiries,    \* the expiries a creator may give
  Rounding,    \* how far DATETIME(3) may move an expiry, either way
  MaxTime      \* bound: the clock stops here

ASSUME LinkAssumption == /\ NoCall \notin Calls
                         /\ Links \subseteq Codes
                         /\ Wants \subseteq [Calls -> Codes]
                         /\ Rounding \in Nat
                         /\ Expiries \subseteq 0..MaxTime
                         /\ CacheTTL \in Nat \ {0}
                         /\ QueueSize \in Nat \ {0}
                         /\ MaxTime \in Nat

VARIABLES
  clock,       \* wall-clock time
  expireAt,    \* expiry of each link as its creator gave it; Never stands for NULL
  rowExpireAt, \* the same as its row has it
  rows,        \* links whose row is in MySQL
  filter,      \* codes the existence filter holds
  excused,     \* history: links the filter may miss (ExistenceFilter)
  local,       \* the process's cache: until when an entry is kept, and the link's expiry
  remote,      \* the shared cache
  create,      \* where the creator of each link is
  warmTTL,     \* the TTL it has computed for the shared cache
  call,        \* where each Resolve is
  want,        \* the code it resolves
  begun,       \* history: when it started
  known,       \* history: creation of its code was acknowledged before it
  missed,      \* history: the filter rejected its code, and was excused
  leader,      \* the call whose load it waits for; itself if it loads
  source,      \* where its item came from: the "remote" cache or the "db"
  item,        \* the link it has found: code and expiry
  hold,        \* a local: the TTL computed for Set, or handleExpiredCode's before
  result,      \* what it returns
  flight,      \* loadGroup: the call loading each code
  queue,       \* LazyExpiredCleaner.queue
  worker,      \* where the worker is in DeleteExpired
  batch        \* the page of expired rows it has selected

linkVars   == <<clock, expireAt, rowExpireAt, rows>>
filterVars == <<filter, excused>>
cacheVars  == <<local, remote>>
askVars    == <<want, begun, known>>
loadVars   == <<source, item, hold>>
callVars   == <<call, askVars, missed, leader, loadVars, result>>
workerVars == <<worker, batch>>
createVars == <<create, warmTTL>>
storeVars  == <<linkVars, filterVars, createVars, workerVars>>
vars == <<linkVars, filterVars, cacheVars, createVars, callVars, flight, queue,
          workerVars>>

Never == MaxTime + Rounding + 1

\* What DATETIME(3) makes of an expiry.
Stored(e) == IF e = Never THEN {Never} ELSE {s \in 0..(e + Rounding) : e <= s + Rounding}

Creating == {"none", "inserted", "adding", "warming", "acked", "failed"}
Resolving == {"idle", "filter", "delStale", "join", "wait", "remote",
              "delStaleRemote", "db", "setLocal", "setRemote", "delExpired",
              "finish", "done"}
Results == {"none", "link", "notFound", "expired", "error"}

-----------------------------------------------------------------------------
(* Helpers                                                                 *)

\* Wrong on purpose: the link is still served at the moment it expires.
IsExpiredAfter(e) == e < clock

\* ShortLink.IsExpired of a copy or row with this expiry.
IsExpired(e) == e <= clock

\* Wrong on purpose: `before` is rounded up.
ExpiredByRounded(c, before) == rowExpireAt[c] # Never /\ rowExpireAt[c] <= before + 1

\* DeleteExpired and DeleteExpiredCode: expire_at IS NOT NULL AND <= before.
ExpiredBy(c, before) == rowExpireAt[c] # Never /\ rowExpireAt[c] <= before

\* The rows that `code = ?` finds in the table of a code; there is one at most.
RowsOf(c) == {r \in rows : Key[r] = Key[c]}

\* cacheTTLFor: 0 when the item is not to be cached.
TTLFor(e) == IF e = Never THEN CacheTTL
             ELSE IF e <= clock THEN 0
             ELSE IF e - clock < CacheTTL THEN e - clock
             ELSE CacheTTL

NoEntry == [until |-> 0, expireAt |-> 0]

\* Cache.Get finds an entry whose own lifetime is not over.
Hit(cache, c) == cache[c].until > clock

\* Wrong on purpose: a cached copy is not looked at again.
UsableUnchecked(cache, c) == Hit(cache, c)

\* Cache.Get followed by getCache's IsActive.
Usable(cache, c) == Hit(cache, c) /\ ~ IsExpired(cache[c].expireAt)

\* An entry whose lifetime is over is the same as none.
Aged(cache, now) == [c \in Codes |-> IF cache[c].until <= now THEN NoEntry ELSE cache[c]]

\* Set with a TTL computed earlier, unless cacheTTLFor said not to cache.  The key is
\* the item's code.
Entered(cache, it, ttl) ==
  IF ttl = 0 THEN cache
  ELSE [cache EXCEPT ![it.code] = [until |-> clock + ttl, expireAt |-> it.expireAt]]

Without(cache, codes) == [c \in Codes |-> IF c \in codes THEN NoEntry ELSE cache[c]]

\* The copy of a link that a cache has.
Copy(cache, c) == [code |-> c, expireAt |-> cache[c].expireAt]

\* The filter seen through a creation: the first BF.ADD has effect, the Add returns later.
AddStage == [c \in Codes |-> CASE create[c] = "none" -> "none"
                               [] create[c] = "inserted" -> "made"
                               [] create[c] = "adding" -> "adding"
                               [] create[c] = "failed" -> "failed"
                               [] OTHER -> "added"]

Filter == INSTANCE ExistenceFilter WITH
            stage <- AddStage, alive <- {c \in rows : rowExpireAt[c] > clock},
            members <- filter

Go(q, p) == call' = [call EXCEPT ![q] = p]

Return(q, r) == /\ Go(q, "done")
                /\ result' = [result EXCEPT ![q] = r]

-----------------------------------------------------------------------------
Entries == [until : 0..(MaxTime + CacheTTL), expireAt : 0..Never]

StoreTypes ==
  /\ clock \in 0..MaxTime
  /\ expireAt \in [Codes -> 0..Never] /\ rowExpireAt \in [Codes -> 0..Never]
  /\ rows \subseteq {c \in Codes : create[c] # "none"}
  /\ filter \subseteq {c \in Codes : create[c] # "none"}
  /\ excused \subseteq Codes
  /\ local \in [Codes -> Entries] /\ remote \in [Codes -> Entries]
  /\ create \in [Codes -> Creating]
  /\ warmTTL \in [Codes -> 0..CacheTTL]
  /\ worker \in {"idle", "selected", "uncached"}
  /\ batch \subseteq Codes

CallTypes ==
  /\ call \in [Calls -> Resolving]
  /\ want \in [Calls -> Codes]
  /\ begun \in [Calls -> 0..clock]
  /\ known \in [Calls -> BOOLEAN] /\ missed \in [Calls -> BOOLEAN]
  /\ leader \in [Calls -> Calls]
  /\ source \in [Calls -> {"none", "remote", "db"}]
  /\ item \in [Calls -> [code : Codes, expireAt : 0..Never]]
  /\ hold \in [Calls -> 0..(MaxTime + CacheTTL)]
  /\ result \in [Calls -> Results]
  /\ flight \in [Codes -> Calls \union {NoCall}]

QueueType == /\ queue \in Seq([code : Codes, before : 0..clock])
             /\ Len(queue) <= QueueSize

TypeOK == StoreTypes /\ CallTypes /\ QueueType

Init ==
  /\ clock = 0
  /\ expireAt = [c \in Codes |-> Never] /\ rowExpireAt = [c \in Codes |-> Never]
  /\ rows = {} /\ filter = {} /\ excused = {}
  /\ local = [c \in Codes |-> NoEntry] /\ remote = [c \in Codes |-> NoEntry]
  /\ create = [c \in Codes |-> "none"]
  /\ warmTTL = [c \in Codes |-> 0]
  /\ call = [q \in Calls |-> "idle"]
  /\ want \in Wants
  /\ begun = [q \in Calls |-> 0]
  /\ known = [q \in Calls |-> FALSE] /\ missed = [q \in Calls |-> FALSE]
  /\ leader = [q \in Calls |-> q]
  /\ source = [q \in Calls |-> "none"]
  /\ item = [q \in Calls |-> [code |-> want[q], expireAt |-> 0]]
  /\ hold = [q \in Calls |-> 0]
  /\ result = [q \in Calls |-> "none"]
  /\ flight = [c \in Codes |-> NoCall]
  /\ queue = <<>>
  /\ worker = "idle" /\ batch = {}

-----------------------------------------------------------------------------
(* Time, and what caches and Redis lose of their own accord                *)

Tick == /\ clock < MaxTime
        /\ clock' = clock + 1
        /\ local' = Aged(local, clock') /\ remote' = Aged(remote, clock')
        /\ UNCHANGED <<expireAt, rowExpireAt, rows, filterVars, createVars, callVars, flight,
                       queue, workerVars>>

\* evictOneLocked for another code, or Redis evicting or losing the key.
Evict(c) ==
  /\ \/ local[c] # NoEntry /\ local' = Without(local, {c}) /\ UNCHANGED remote
     \/ remote[c] # NoEntry /\ remote' = Without(remote, {c}) /\ UNCHANGED local
  /\ UNCHANGED <<linkVars, filterVars, createVars, callVars, flight, queue, workerVars>>

\* Redis comes back empty.
RedisLost ==
  /\ remote' = Without(remote, Codes)
  /\ UNCHANGED <<linkVars, local, createVars, callVars, flight, queue, workerVars>>
  /\ Filter!Lose

-----------------------------------------------------------------------------
(* CreateShortLink                                                         *)

Created(c, p) == create' = [create EXCEPT ![c] = p]

\* The unique key of the table refuses a second row.
Free(c) == RowsOf(c) = {}

\* repo.Create.  The row gets the expiry rounded.  An INSERT whose error hides that it
\* was applied is this step followed by the failure of StartAdd.
Insert(c) ==
  /\ create[c] = "none" /\ c \in Links
  /\ \/ /\ Free(c)
        /\ Created(c, "inserted") /\ rows' = rows \union {c}
        /\ \E e \in Expiries \union {Never} : \E s \in Stored(e) :
             /\ expireAt' = [expireAt EXCEPT ![c] = e]
             /\ rowExpireAt' = [rowExpireAt EXCEPT ![c] = s]
     \/ Created(c, "failed") /\ UNCHANGED <<expireAt, rowExpireAt, rows>>
  /\ UNCHANGED <<clock, filterVars, cacheVars, warmTTL, callVars, flight, queue,
                 workerVars>>

\* Wrong on purpose: the error of filter.Add is only logged.
StartAddUnchecked(c) ==
  /\ create[c] = "inserted"
  /\ Created(c, "adding") /\ filter' \in {filter, filter \union {c}}
  /\ UNCHANGED <<linkVars, excused, cacheVars, warmTTL, callVars, flight, queue,
                 workerVars>>

\* filter.Add has effect.  On an error the call returns it and the row stays.
StartAdd(c) ==
  /\ create[c] = "inserted"
  /\ \/ Created(c, "adding") /\ filter' = filter \union {c}
     \/ Created(c, "failed") /\ filter' \in {filter, filter \union {c}}
  /\ UNCHANGED <<linkVars, excused, cacheVars, warmTTL, callVars, flight, queue,
                 workerVars>>

\* filter.Add returns, or fails in its second BF.ADD.  setCache of the shared cache
\* begins with the TTL, of the item with the expiry that was asked for; the Set, which
\* may fail unnoticed, is left out for a link that has expired meanwhile.
EndAdd(c) ==
  /\ create[c] = "adding"
  /\ \/ Created(c, "warming") /\ warmTTL' = [warmTTL EXCEPT ![c] = TTLFor(expireAt[c])]
     \/ Created(c, "failed") /\ UNCHANGED warmTTL
  /\ UNCHANGED <<linkVars, filterVars, cacheVars, callVars, flight, queue, workerVars>>

WarmCache(c) ==
  /\ create[c] = "warming"
  /\ Created(c, "acked")
  /\ remote' \in {remote, Entered(remote, [code |-> c, expireAt |-> expireAt[c]], warmTTL[c])}
  /\ warmTTL' = [warmTTL EXCEPT ![c] = 0]
  /\ UNCHANGED <<linkVars, filterVars, local, callVars, flight, queue, workerVars>>

-----------------------------------------------------------------------------
(* Resolve                                                                 *)

Start(q) ==
  /\ call[q] = "idle"
  /\ Go(q, "filter")
  /\ begun' = [begun EXCEPT ![q] = clock]
  /\ known' = [known EXCEPT ![q] = create[want[q]] = "acked"]
  /\ UNCHANGED <<storeVars, cacheVars, want, missed, leader, loadVars, result, flight, queue>>

\* filter.MightContain rejects a code.
CheckFilter(q) ==
  /\ call[q] = "filter"
  /\ want[q] \notin filter
  /\ missed' = [missed EXCEPT ![q] = want[q] \in excused]
  /\ Return(q, "notFound")
  /\ UNCHANGED <<storeVars, cacheVars, askVars, leader, loadVars, flight, queue>>

\* getCache of the local cache, when the filter has let the code through: it may do so
\* with any code, as a false positive or because Redis fails.  A dead copy is deleted
\* from both caches.
ReadLocal(q) ==
  LET c == want[q] IN
  /\ call[q] = "filter"
  /\ \/ /\ Usable(local, c)
        /\ item' = [item EXCEPT ![q] = Copy(local, c)]
        /\ Return(q, "link") /\ UNCHANGED local
     \/ /\ Hit(local, c) /\ ~ Usable(local, c)
        /\ local' = Without(local, {c})
        /\ Go(q, "delStale") /\ UNCHANGED <<item, result>>
     \/ ~ Hit(local, c) /\ Go(q, "join") /\ UNCHANGED <<local, item, result>>
  /\ UNCHANGED <<storeVars, remote, askVars, missed, leader, source, hold, flight, queue>>

\* deleteCache of the shared cache; its error is dropped.
DeleteRemote(q, from, to) ==
  /\ call[q] = from
  /\ remote' \in {remote, Without(remote, {want[q]})}
  /\ Go(q, to)
  /\ UNCHANGED <<storeVars, local, askVars, missed, leader, loadVars, result, flight, queue>>

\* loadGroup.Do: load, or wait for the call that is loading the code.
Join(q) ==
  LET c == want[q] IN
  /\ call[q] = "join"
  /\ \/ /\ flight[c] = NoCall
        /\ flight' = [flight EXCEPT ![c] = q]
        /\ Go(q, "remote") /\ UNCHANGED leader
     \/ /\ flight[c] # NoCall
        /\ leader' = [leader EXCEPT ![q] = flight[c]]
        /\ Go(q, "wait") /\ UNCHANGED flight
  /\ UNCHANGED <<storeVars, cacheVars, askVars, missed, loadVars, result, queue>>

\* setCache: the TTL of the item is computed, the Set is the next step.
StartFill(q, it, cache) ==
  /\ hold' = [hold EXCEPT ![q] = TTLFor(it.expireAt)]
  /\ Go(q, cache)

\* An item has come from a cache or table.
Found(q, it, from) ==
  /\ item' = [item EXCEPT ![q] = it]
  /\ source' = [source EXCEPT ![q] = from]
  /\ result' = [result EXCEPT ![q] = "link"]
  /\ StartFill(q, it, "setLocal")

\* getCache of the shared cache.  An error counts as a miss; a dead copy is
\* deleted from both caches.
ReadRemote(q) ==
  LET c == want[q] IN
  /\ call[q] = "remote"
  /\ \/ /\ Usable(remote, c)
        /\ Found(q, Copy(remote, c), "remote") /\ UNCHANGED local
     \/ /\ Hit(remote, c) /\ ~ Usable(remote, c)
        /\ local' = Without(local, {c})
        /\ Go(q, "delStaleRemote") /\ UNCHANGED <<loadVars, result>>
     \/ Go(q, "db") /\ UNCHANGED <<local, loadVars, result>>
  /\ UNCHANGED <<storeVars, remote, askVars, missed, leader, flight, queue>>

\* repo.FindActiveByCode, which also finds the row of a code that differs by case.
\* An expired row starts handleExpiredCode, which drops the local copy first.
FindActive(q) ==
  /\ call[q] = "db"
  /\ \/ \E r \in RowsOf(want[q]) :
          /\ ~ IsExpired(rowExpireAt[r])
          /\ Found(q, [code |-> r, expireAt |-> rowExpireAt[r]], "db") /\ UNCHANGED local
     \/ /\ \E r \in RowsOf(want[q]) : IsExpired(rowExpireAt[r])
        /\ local' = Without(local, {want[q]})
        /\ result' = [result EXCEPT ![q] = "expired"]
        /\ hold' = [hold EXCEPT ![q] = clock]
        /\ Go(q, "delExpired") /\ UNCHANGED <<item, source>>
     \/ /\ \/ RowsOf(want[q]) = {} /\ result' = [result EXCEPT ![q] = "notFound"]
           \/ result' = [result EXCEPT ![q] = "error"]
        /\ Go(q, "finish") /\ UNCHANGED <<local, loadVars>>
  /\ UNCHANGED <<storeVars, remote, askVars, missed, leader, flight, queue>>

\* cache.Set of the local cache; then an item from MySQL goes to the shared one.
SetLocal(q) ==
  /\ call[q] = "setLocal"
  /\ local' = Entered(local, item[q], hold[q])
  /\ \/ source[q] = "db" /\ StartFill(q, item[q], "setRemote")
     \/ source[q] # "db" /\ Go(q, "finish") /\ hold' = [hold EXCEPT ![q] = 0]
  /\ source' = [source EXCEPT ![q] = "none"]
  /\ UNCHANGED <<storeVars, remote, askVars, missed, leader, item, result, flight, queue>>

\* cache.Set of the shared cache; its error is dropped.
SetRemote(q) ==
  /\ call[q] = "setRemote"
  /\ remote' \in {remote, Entered(remote, item[q], hold[q])}
  /\ hold' = [hold EXCEPT ![q] = 0]
  /\ Go(q, "finish")
  /\ UNCHANGED <<storeVars, local, askVars, missed, leader, source, item, result, flight,
                 queue>>

\* Wrong on purpose: a queue that blocks when it is full.
OfferedBlocking(entry) == {q \in {Append(queue, entry)} : Len(q) <= QueueSize}

\* Enqueue never blocks: with the queue full the entry is dropped.
Offered(entry) == IF Len(queue) < QueueSize THEN {Append(queue, entry)} ELSE {queue}

\* handleExpiredCode goes on with the shared cache, and Enqueue of the code that was
\* asked for.
DropExpired(q) ==
  /\ call[q] = "delExpired"
  /\ remote' \in {remote, Without(remote, {want[q]})}
  /\ queue' \in Offered([code |-> want[q], before |-> hold[q]])
  /\ hold' = [hold EXCEPT ![q] = 0]
  /\ Go(q, "finish")
  /\ UNCHANGED <<storeVars, local, askVars, missed, leader, source, item, result, flight>>

\* The loader and everyone waiting for it.
Served(q) == {q} \union {w \in Calls : call[w] = "wait" /\ leader[w] = q}

\* The load is over: the loader and everyone waiting for it get its result.
Finish(q) ==
  /\ call[q] = "finish"
  /\ flight' = [flight EXCEPT ![want[q]] = NoCall]
  /\ call' = [w \in Calls |-> IF w \in Served(q) THEN "done" ELSE call[w]]
  /\ result' = [w \in Calls |-> IF w \in Served(q) THEN result[q] ELSE result[w]]
  /\ item' = [w \in Calls |-> IF w \in Served(q) THEN item[q] ELSE item[w]]
  /\ UNCHANGED <<storeVars, cacheVars, askVars, missed, leader, source, hold, queue>>

-----------------------------------------------------------------------------
(* The lazy cleaner and the worker                                         *)

\* deleteOne; the error of DeleteExpiredCode is only logged.
LazyDelete ==
  /\ queue # <<>>
  /\ queue' = Tail(queue)
  /\ LET entry == Head(queue)
         gone == {r \in RowsOf(entry.code) : ExpiredBy(r, entry.before)}
     IN  rows' \in {rows, rows \ gone}
  /\ UNCHANGED <<clock, expireAt, rowExpireAt, filterVars, cacheVars, createVars, callVars,
                 flight, workerVars>>

\* The rows a round that began at `before` is to delete.
Expired(before) == {c \in rows : ExpiredBy(c, before)}

\* DeleteExpired: the SELECT of a page, with `before` read when RunOnce began.
SelectExpired ==
  /\ worker = "idle"
  /\ \E before \in 0..clock :
       /\ Expired(before) # {}
       /\ batch' \in SUBSET Expired(before) \ {{}}
  /\ worker' = "selected"
  /\ UNCHANGED <<linkVars, filterVars, cacheVars, createVars, callVars, flight, queue>>

\* handleCodes: the page's shared cache entries, in one DEL.
UncacheBatch ==
  /\ worker = "selected"
  /\ worker' = "uncached"
  /\ remote' = Without(remote, batch)
  /\ UNCHANGED <<linkVars, filterVars, local, createVars, callVars, flight, queue, batch>>

\* DELETE ... WHERE id IN the page.
DeleteBatch ==
  /\ worker = "uncached"
  /\ rows' = rows \ batch
  /\ worker' = "idle" /\ batch' = {}
  /\ UNCHANGED <<clock, expireAt, rowExpireAt, filterVars, cacheVars, createVars, callVars,
                 flight, queue>>

\* An error of either ends RunOnce until the next tick of the scheduler; the
\* command may have been applied.
WorkerFails ==
  /\ worker \in {"selected", "uncached"}
  /\ remote' \in {remote, Without(remote, batch)}
  /\ rows' \in {rows, IF worker = "uncached" THEN rows \ batch ELSE rows}
  /\ worker' = "idle" /\ batch' = {}
  /\ UNCHANGED <<clock, expireAt, rowExpireAt, filterVars, local, createVars, callVars, flight,
                 queue>>

\* The script of a rebuild (worker, linksvc or redirectsvc) installs its filter, which
\* misses no more than links that were missed and links whose Add it falls into.
RebuildFilter ==
  /\ UNCHANGED <<linkVars, cacheVars, createVars, callVars, flight, queue, workerVars>>
  /\ Filter!Replace

-----------------------------------------------------------------------------
CreatorStep(c) == Insert(c) \/ StartAdd(c) \/ EndAdd(c) \/ WarmCache(c)

LoadStep(q) == \/ ReadRemote(q) \/ DeleteRemote(q, "delStaleRemote", "db")
               \/ FindActive(q) \/ SetLocal(q) \/ SetRemote(q)
               \/ DropExpired(q) \/ Finish(q)

ResolveStep(q) == \/ CheckFilter(q) \/ ReadLocal(q)
                  \/ DeleteRemote(q, "delStale", "join") \/ Join(q)
                  \/ LoadStep(q)

Next == \/ Tick \/ RedisLost
        \/ \E c \in Codes : Evict(c) \/ CreatorStep(c)
        \/ \E q \in Calls : Start(q) \/ ResolveStep(q)
        \/ LazyDelete
        \/ SelectExpired \/ UncacheBatch \/ DeleteBatch \/ WorkerFails
        \/ RebuildFilter

Spec == Init /\ [][Next]_vars

\* Commands have timeouts, so a call that has started goes on.  Nothing is assumed of
\* the clock, the creators, the lazy cleaner and the worker.
Fairness == \A q \in Calls : WF_vars(ResolveStep(q))

FairSpec == Spec /\ Fairness

-----------------------------------------------------------------------------
(* What callers see                                                        *)

Stage == [c \in Codes |-> IF create[c] \in {"none", "acked"} THEN create[c] ELSE "made"]

Phase == [q \in Calls |-> IF call[q] = "idle" THEN "idle"
                          ELSE IF call[q] = "done" THEN "answered" ELSE "asking"]

Answer == [q \in Calls |-> IF call[q] = "done" THEN result[q] ELSE "none"]

\* The link that a call is redirected to, whatever code it asked for.
Target == [q \in Calls |-> IF Answer[q] = "link" THEN item[q].code ELSE want[q]]

Directory == INSTANCE LinkDirectory WITH
               stage <- Stage, hidden <- excused, phase <- Phase, since <- begun,
               answer <- Answer, target <- Target

-----------------------------------------------------------------------------
(* Properties                                                              *)

\* To their callers CreateShortLink and Resolve, with their filter, two caches,
\* shared loads and deleters, are a directory of links: a call gets one answer, and
\* what a load found for several calls was right for the one that led it.
ImplementsDirectory == Directory!Spec

\* No redirect to a link that was already expired, by the expiry its creator gave it or
\* by the row's, when the load that served it began (Resolve, getCache,
\* FindActiveByCode), although a cache entry may outlive its link: the TTL is computed
\* before the Set that uses it.
NoStaleRedirect ==
  \A q \in Calls : call[q] = "done" /\ result[q] = "link"
    => /\ item[q].expireAt \in {expireAt[item[q].code], rowExpireAt[item[q].code]}
       /\ item[q].expireAt > begun[leader[q]]

\* A link whose creation was acknowledged before the load that answers began is
\* reported missing or expired only if its row has expired, or if the filter rejects it
\* after losing it as filters may: by a rebuild installed in the middle of its Add
\* (addToKeys), or with Redis.  No other rebuild, cache fill, clean-up, eviction or
\* deletion under a running load hides it (Resolve, CreateShortLink).
AckedResolves ==
  \A q \in Calls :
    call[q] = "done" /\ result[q] \in {"notFound", "expired"} /\ known[leader[q]]
      => rowExpireAt[want[q]] <= clock \/ missed[q]

\* Where a copy of a link is that would still be served: in a cache, or with a loader.
LiveCopy(c) ==
  \/ \E cache \in {local, remote} : Hit(cache, c) /\ cache[c].expireAt > clock
  \/ \E q \in Calls : result[q] = "link" /\ item[q].code = c /\ item[q].expireAt > clock

\* The two deleters (worker and lazy cleaner) never remove a row under a copy that is
\* alive, though neither looks at the expiry again between choosing a row and deleting
\* it: a copy that would still be served has its row, or its row had its expiry rounded
\* down when it was stored, and has expired for less than was taken off
\* (DeleteExpired, DeleteExpiredCode, CreateShortLink's setCache).
CopiesHaveRows ==
  /\ TypeOK
  /\ \A c \in Codes :
       LiveCopy(c) => \/ c \in rows
                      \/ rowExpireAt[c] <= clock /\ clock < rowExpireAt[c] + Rounding

\* Every Resolve returns, even when the lazy cleaner has stopped and its queue
\* is full (Enqueue does not block).
ResolveReturns == \A q \in Calls : call[q] = "filter" ~> call[q] = "done"
=============================================================================
