# FlashLink in TLA+

FlashLink is a short-link service in Go: it creates short codes, redirects them
through two caches and a Bloom filter, records visits, and cleans up what has
expired. This directory holds TLA+ models of it, the TLC runs that check them on
small instances, and proofs, checked by TLAPS, of what holds for every value of
the constants. Paths below are relative to the repository.

## The system

| component | state | operations | talks to |
| --- | --- | --- | --- |
| link service, `internal/app/linkapp/service.go` | `loadGroup` (singleflight), caches, lazy queue | `CreateShortLink`, `Resolve` | repository, filter, both caches, lazy cleaner, id generator |
| lazy cleaner, `linkapp/lazy_cleaner.go` | a bounded channel | `Enqueue`, `run`, `deleteOne` | repository |
| RedisBloom, `infrastructure/filter/bloom.go` | Redis keys: live filter, temporary filters, rebuild marker | `Add`, `MightContain`, `Rebuild` | Redis; the repository through `ListActiveCodes` |
| repository, `infrastructure/mysql/short_link_repository.go` | 16 tables of links | `Create`, `CreateBatch`, `FindByCode`, `FindActiveByCode`, `ListActiveCodes`, `DeleteExpired`, `DeleteExpiredCode` | MySQL |
| caches, `infrastructure/cache` | an LRU list with lifetimes; Redis keys with TTLs | `Get`, `Set`, `Delete` | Redis |
| id generator, `domain/link/snowflake.go` | `lastMs`, `sequence` | `NextID`, `ParseSnowflake` | the host's clock |
| codes, `domain/link/{base62,code,shard}.go` | none | `Encode`, `Decode`, `ShardIndexFromCode` | |
| cleanup, `internal/app/cleanupapp` | a ticker | `RunOnce`, `deleteAll`, `run` | repositories, Redis cache, filter |
| visit recorder, `internal/app/statapp/recorder.go` | a bounded channel, a batch | `Record`, `run` | visit repository, id generator |
| statistics, `statapp/service.go`, `mysql/visit_repository.go` | visit log | `GetLinkStats`, `CreateBatch`, retention deletes | MySQL |
| async writer, `linkapp/async_writer.go` | a bounded channel, worker batches | `Create`, `Wait` | repository; wired into no command |
| registry and resolver, `infrastructure/etcd` | leases; a map of instances fed by snapshots and a watch | `Register`, `List`, `Build`, `ResolveNow`, `watch` | etcd, gRPC |
| gateway, `interfaces/{httpapi,grpcapi}`, `cmd/gateway` | three connections, the requests under way | `createShortLink`, `redirect`, `getLinkStats`, `NewGatewayClient`, `Close`; `Serve` in the services | the three services; HTTP clients |
| load test, `cmd/loadtest` | a pool of codes, counts per worker, a channel | `seed`, `runLevel`, `run` | the gateway, over HTTP |

Five processes: `gateway` turns HTTP requests into gRPC calls of `linksvc`, which
creates links, of `redirectsvc`, which resolves them, and of `statsvc`, which
records visits and counts them; `worker` cleans up. A redirection is two calls,
one to `redirectsvc` and one to `statsvc`. All but the gateway use MySQL, and all but
the gateway and `statsvc` Redis. `linksvc` and `redirectsvc` rebuild the filter when they start, `worker` after each
clean-up; nothing keeps these rebuilds apart.

### What is hard here

* **Concurrent rebuilds and writes of the filter.** `Add` reads the marker and
  then writes one or two keys; a rebuild pages through the tables meanwhile and
  ends with an atomic exchange. Rebuilds overlap, fail half-way and delete each
  other's marker.
* **Copies in three places.** A link lives in MySQL and in two caches, is filled
  by one call and deleted by others; lifetimes are computed before the write
  that uses them; two deleters remove rows without looking at them again.
* **Shared loads.** Callers of `Resolve` that join a load get what it saw earlier.
* **Clocks.** Ids come from a clock that may be stepped back; expiry is compared
  with clocks read at different moments.
* **Bounded queues and shutdown.** The lazy queue drops, the recorder rejects,
  the async writer blocks; each drains or not when its context ends.
* **Calls that time out.** A visit may reach the recorder after the gateway has
  given up on it; both processes may be stopped with calls under way, and neither
  waits for its own goroutines.
* **Discovery.** Snapshots, watched events and updates of gRPC overtake each
  other, a lost lease is never taken again, and a dead watch is not restarted.
* **Paging while the tables change**, by id for the filter and by expiry and id
  for the clean-up, with rows that expire together.
* **Case.** Codes tell upper from lower case, the columns that hold them do not.
* **Two expiries.** The row has the expiry as `DATETIME(3)` rounds it, the copy that
  a creation puts into the shared cache as it was given.

PROJECT.json lists the hazards line by line with the properties that cover them.

### What makes each component correct

* Filter: it never rejects an active link whose creation succeeded (it does: see
  *The findings*), and a rebuild repairs whatever was lost.
* Link service: no redirect to an expired link, no "not found" for an acknowledged
  link that is alive, but for what the filter loses, no copy that outlives its row
  while it can be served, but for the rounding of the row, and every call returns.
* Deletion: every expired row goes, no other does.
* Id generator: ids are unique, increase, and can be read back.
* Recorder and async writer: what was accepted before shutdown is written, or
  refused by MySQL, exactly once.
* Local cache: a bounded cache that answers the last Set and evicts the least
  recently used.
* Resolver: gRPC leaves ended instances and finds new ones; where it may be wrong
  is said exactly.
* Cleanup: paging skips no expired row; a failed round is made up for; nothing too
  old is left.
* Gateway: every request is answered or cut off by the gateway's own end, whatever
  becomes of statsvc; only redirections are counted; errors keep their meaning;
  shutdowns end.
* Load test: a level ends, and its figures are what its workers did.
* Codes: an id is read back from its code; links whose codes differ by case refuse
  each other, or share their statistics, as the tables have it.

## The modules

| module | models | composes with |
| --- | --- | --- |
| `ExistenceFilter` | what `Resolve` may rely on in a filter (abstract) | |
| `RedisBloom` | `bloom.go`, `ListActiveCodes`, the inserts and purges under it | implements `ExistenceFilter` |
| `MCRedisBloom` | instances of it | |
| `RedisBloomProofs` | its theorems | |
| `LinkDirectory` | what creating and resolving promise their callers (abstract) | |
| `LinkService`, `MCLinkService`, `LinkServiceProofs` | `service.go`, `lazy_cleaner.go`, both caches, `FindByCode` and the worker's link deletion; instances; theorems | implements `LinkDirectory`; its filter is an instance of `ExistenceFilter` |
| `Snowflake` | `snowflake.go` | |
| `ShortCodes` | `base62.go`, `code.go`, `shard.go`, the schema's collation: operators only | |
| `LinkIds`, `MCLinkIds`, `LinkIdsProofs` | from ids to codes and tables, as `CreateShortLink` goes, with the unique keys and `CountVisits` under that collation; instances; theorems about ids and codes | extends `Snowflake` and `ShortCodes` |
| `VisitRecorder` | `recorder.go`, the ways in which `statsvc` ends | |
| `Gateway`, `GatewayProofs` | `router.go`, `api.go`, `cmd/gateway`, `cmd/statsvc`; theorems about it, `VisitRecorder` and `LoadTest` | extends `VisitRecorder`, and is shown to implement it |
| `AsyncWriter`, `AsyncWriterProofs` | `async_writer.go`, `CreateBatch`; theorems | |
| `Cleanup`, `CleanupProofs` | `cleanupapp`, `DeleteExpired`, the deletions of visits and statistics; theorems | the filter's rebuild, as `RedisBloom` models it |
| `BoundedCache` | what the services rely on in a local cache (abstract) | |
| `LocalCache`, `MCLocalCache`, `LocalCacheProofs` | `cache/local.go`; instances; theorems | implements `BoundedCache` |
| `EtcdResolver`, `EtcdResolverProofs` | `etcd/registry.go`, `etcd/resolver.go`; theorem | |
| `LoadTest`, `MCLoadTest` | `cmd/loadtest/main.go`; instances | |

### RedisBloom

One creator per link (`pc[c]`) runs `CreateShortLink` up to the return of
`filter.Add`: `Insert` is the row, `ReadMarker` is `addKeys` (GET), `AddMain` and
`AddTemp` are the two BF.ADDs of `addToKeys`, `AddFails` is an error of any of the
three, applied or not. `target[c]` is the temporary key the Add has read.

One call of `Rebuild` per element of `Runs` (`run[r]`): `SetMarker`, `Reserve`,
then `QueryPage` / `AddPage` alternate with `shard`, `lastID` and `page` as the
locals of `ListActiveCodes`, then `FinishRebuild` evaluates the script, which
either installs (`Install`) or refuses. The error paths are `ListingFails`,
`DelTemp`, `DelMarker`; a call that stops where it is, is `Crash`. A call's
temporary key is named by the call (in the code by `UnixNano`), so
`stored[r]` is its content and `stored[Main]` the live filter. `RedisLost`
empties Redis. Codes are ids: `id > lastID` and `id % ShardCount` are computed as
in the code. `base`, `lost` and `losses` are history variables: no guard of the
program's steps reads them (`losses` bounds `RedisLost`).

Filters are modelled as the set of codes added. A Bloom filter also answers
"maybe" for others; that never makes it reject a code, and the properties are
about rejection. False positives appear in `LinkService`.

`ExistenceFilter` is a filter without a second key: a link is let through from its
Add on, the content is replaced as a whole or lost, and what may be missed is
`excused` by name: links whose Add was under way at a replacement (`Replace`), or
that had been added when everything was lost (`Lose`), until new content has them
again. An Add that fails may have had its effect (`Fail`). `ImplementsFilter` maps
`members` to the live key and `excused` to `lost`; a creation is "adding" between its
two writes (`StageOf`), an `Install` is `Replace`, and what happens to temporary keys,
marker and listing stutters.

### LinkService

Each of `Links` has a creator (`create[c]`): `Insert`, `StartAdd` and `EndAdd` (the
effect of `filter.Add` and its return, with the TTL of the copy for the shared cache
computed), `WarmCache` (the Set). `Codes` also has codes that are given to no link
but may be asked for. Each call of `Resolve` (`call[q]`) goes through `CheckFilter`,
`ReadLocal`, `Join`, and as the loader through `ReadRemote`, `FindActive`, `SetLocal`,
`SetRemote` or, on an expired row, `DropExpired` (the deletion from the shared cache
and `Enqueue`); `Finish` hands the result to everyone who joined. A cache is a function
from codes to an expiry and the time the entry lives until. `ReadLocal` is `getCache`
including its deletion of a dead copy from both caches (`DeleteRemote`). `LazyDelete`
is the lazy cleaner; `SelectExpired`, `UncacheBatch`, `DeleteBatch`, `WorkerFails` are
a page of the worker's `DeleteExpired`. Time advances in `Tick` between any two steps.

The filter does what `ExistenceFilter` allows: `RebuildFilter` is its `Replace`, which
may also miss a link whose Add is under way, as in `bloom_straddle`, and `RedisLost` is
its `Lose`, with the shared cache emptied at once; `StartAdd` and `EndAdd` are, read
side by side, its `Add`, `Complete` and `Fail` (`AddStage`). `excused` are the links
that may be missed, and `missed[q]` says that the filter has rejected one. A code that
is not in the filter may pass as a false positive, or because Redis fails.

A link has two expiries. `expireAt` is what its creator gave, and what the copy that
`WarmCache` makes has; `rowExpireAt` is what `DATETIME(3)` made of it (`Stored`), up to
`Rounding` earlier or later, and what copies made of the row have. `code = ?` does not
tell case: `RowsOf(c)` are the rows of the table of `c` that it finds, one at most, since
the unique key compares in the same way (`Free`), and `FindActive` may answer with the
link of a code that differs by case (`item[q].code`), which is then cached under its own.

There is one clock for linksvc, redirectsvc, the worker, Redis and whoever chooses
expiries. In the program each host has its own; properties that compare moments hold
for hosts that agree. A process whose clock is ahead takes a link for expired earlier
than others do, and deletes its row under copies others would still serve. `RedisBloom`
and `Cleanup` have one clock, too. In `Snowflake` each process has its own.

`LinkDirectory` has neither filter, caches, rows nor loads. A link is made with its two
expiries and may be acknowledged; links may come out of sight, as the filter's do
(`Reorder`, `Lose`); a call asks and is answered, alone or together with others that ask
for the same code, with what is right for one of them (`Right`). `ImplementsDirectory`
maps a creation to "made" from its row on and to "acked" when it has returned (`Stage`),
a call to "asking" until it has returned (`Phase`), and hides what a loader holds until
then (`Answer`, `Target`); everything else stutters.

Work inside one process between two commands to Redis or MySQL is folded into
the step before it: nothing another actor does can be observed in between except
the clock, and the two places where the clock matters (the TTL before the Set,
the `before` of the lazy queue) are separate steps.

### Snowflake

A process has a clock (`wall[p]`) and a generator (`lastMs`, `sequence`).
`NextID` is one step under its mutex, except that it may wait: `NextIDNewMs`,
`NextIDSameMs`, `WaitNextMillis`. `Restart` is a new process with `lastMs` zero.
`StepBack` moves a clock back, also to before the epoch, where `NextID` stays at
millisecond 0. Shifts and masks are products and remainders by the constants'
ranges, `MaxNode + 1` and `MaxSequence + 1`.

### VisitRecorder and AsyncWriter

`VisitRecorder`: `Record` is one step; `run` is the goroutine's place (main loop,
inner loop, last flush, returned, or killed with its process), and a flush is two
steps, `flushing` and `Flush`, so that Records, the cancellation and the end of
`main` fall into a running INSERT. Go's `select` takes any ready case, hence
`Receive`, `TickFlush` and `SeeCancel` are alternatives. `Exit` is the end
of `statsvc`, whose `main` returns, or fails, without waiting for `Recorder.Done`:
what the process had in memory is gone. Visits are
identified, so that a second copy would be noticed; their contents are left out.

`AsyncWriter`: a Create waits (`sending`) for room; the batches of the workers are
`batch[w]`, and `pc[w]` says where in `popBatch`, `drain` or one of the three
flushes a worker is. `Flush` is `CreateBatch`: any set of the batch's tables may
commit. Both modules follow an item from the caller to the table.

What the code does not promise is visible in the models and not a property: an
item accepted after the context is over may stay in the channel for ever, and a
visit of a killed process is lost.

### Cleanup

`TickerFires` and `StartRound` are the scheduler; `pc` says where in `RunOnce` the
round is, and `shard`, `cursorAt`, `cursorID` and `page` are the locals of
`DeleteExpired`. `SelectPage`, `UncachePage`, `DeletePage` are its three commands
and the cursor's move; `DeleteLogs` is one limited DELETE of `deleteAll`, which
leaves MySQL the choice of rows. `RoundFails` ends a round at any command,
applied or not. `Insert` creates links with any expiry, also one that has passed
already (the service does not refuse it), so rows appear behind the cursor.
`base` is a history variable. In `LinkService`, where the worker's deletion meets
the caches, paging is left out; here the caches are.

### LocalCache and BoundedCache

`items` and `lru` are the map and the list; an entry is in `items`. `Set` is two
steps, since it reads the clock before it takes the mutex. `MovedToFront` is what an
operation does to the list: `Without` takes codes out and keeps the order of the
rest (`Nth` is the position of the n-th that stays, found by counting with `Rank`).
`BoundedCache` says what a caller may rely on, without any list: the last value put
is answered, nothing expired is, an entry disappears only when deleted, expired or
evicted, and eviction takes one entry, from a full cache, dead ones first.
`ImplementsBoundedCache` maps the abstract store to `items`.

### EtcdResolver

`serving` are running instances, `present` the keys in etcd and `events` their
history, whose length is the revision. `Register` is Grant and Put; `Stop`
revokes or does not; `LoseLease` and `ExpireLease` delete the key of a running
and of an ended instance. A ResolveNow goroutine is `ResolveNow` (the Get),
`Install`, `ReadAddresses`, `Push`; the watch is `Watch` (any number of waiting
events in one response, applied one after the other by `AppliedAll`),
`ReadAddresses`, `Push`. The first snapshot of `Build` is
one step, for nobody has the resolver before it returns. Addresses are keys:
`serviceKey` differs from the address only in its slashes. `behind` and
`overlapped` are history variables.

### ShortCodes and LinkIds

A code is the sequence of its digits. `Left` is what each round of `EncodeBase62`'s
loop leaves of the number, `Rounds` how many there are; a round more than the buffer
has bytes would be the end of the process, and makes the code too long here.
`DecodeBase62` wraps like a 64-bit word; `Folded` is what the collation
compares. `LinkIds` looks at the ids the generators of `Snowflake` give out, at the
codes they become and the tables these choose. Two codes that differ by case only are
`CountedTogether`, since all visits are in one table; they `Refuse` each other if they
are in the same one of the sixteen tables of links. What becomes of a call that
asks for such a code is `LinkService`'s.

### Gateway

`phase[v]` is where the handler of a request is, `at[v]` whether its RecordVisit may
still reach statsvc: `Resolved` sends it, `RecordVisit` is its arrival at the
recorder, `LoseCall` the loss of it, and `RecordReturns` the end of the call in the
gateway, which comes before or after. The answers of the other calls reach the
gateway in the step that decides them, for nothing here depends on when a service
has decided; their outcomes are `LinkService`'s. `Dial`, `DialFails`, `Shutdown` and
`GatewayExit` are `runGateway`; `GatewayExit` does not wait for the handlers, as
`ListenAndServe` returns when `Shutdown` begins. `Register`, `Listen`,
`StopServing`, `ServeReturns` and `Fatal` are statsvc's `main` with `Serve`, and
`RecorderStep` its recorder. An error becomes a status in `toStatus`, and an error
again in `fromStatus`, where two are told apart by a word of the message (`url`).

### LoadTest

`pc` is where `run` is; `worker[w]` where each worker is in its loop. A creation has
two steps after it is sent, the status and the body, since the level may end between
them. Writes and reads are counted together, as `stable` and `totalQPS` do.
`StoppedByLevelTimeout` is looked at when a request has failed, with the context as
it is then. The load test's reads of a hot key differ from others in which code they
choose, which nothing here depends on.

## The runs

| run | instance | question | size |
| --- | --- | --- | --- |
| `bloom_overlap` | 2 links, 2 rebuilds, 1 table, pages of 1, 1 loss of Redis | can overlapping, failing, crashing rebuilds lose a link, and does the next one repair it? | 3.3 million states, up to symmetry |
| `bloom_paging` | 2 links that expire, 1 rebuild, 2 tables, pages of 1, 1 loss | does paging under inserts, purges and failures skip anything, are the keys one existence filter to callers, and does Rebuild come to an end? | 0.7 million |
| `bloom_straddle` | 1 link, 1 rebuild | is a link whose creation succeeded always let through? No | small |
| `link_service` | 1 link and a code that differs from its by case, 2 calls, TTL 1, queue of 1, time 0..1, expiries rounded by up to 1 | what may Resolve answer, which copies may exist, is it a directory of links to its callers, do calls return? | 0.7 million |
| `async_writer` | 3 links, 2 workers, a channel of 1, batches of 2, 2 tables | does each accepted link reach CreateBatch, and only once? | 23 thousand |
| `cleanup` | 2 links of one of 2 tables, 2 visits and a statistic, deletions of 1, time 0..1, 1 failure | does the listing skip a row, do expired rows go, is anything too old left? | 0.6 million |
| `local_cache` | 3 codes for 2 places, 2 contents, 2 Sets at once, TTL 0..1, time 1..3 | is it a bounded LRU cache? | 95 thousand, up to symmetry |
| `resolver` | 2 instances, 2 starts, 1 ResolveNow at a time and the watch | what may the resolver be wrong about, does gRPC leave ended instances and find new ones? | 0.2 million |
| `visit_path` | 3 requests, a channel of 1, batches of 2 | is any visit lost, counted twice, or counted without a redirection; do requests and shutdowns end; do errors keep their meaning? | 0.3 million |
| `link_ids` | 2 processes, 1-bit sequences, clocks -1..1, 1 step back, 1 restart each; base 62, 16 tables | are ids unique, increasing, readable, and is a waiting call released; are codes read back, which links refuse each other, and which share their statistics? | 0.3 million |
| `load_test` | levels of 1 and 2 workers, 2 requests of each, 1 seed code | does a level end, what does it report, and which level is best? | 0.1 million |
| `load_cutoff` | one level, 1 worker, 1 request | is a request that the level's end cuts off never counted as a failure? No | small |

Bounds. With pages of one row two links of one table (`bloom_overlap`) make the
cursor move within a table, and two of different tables (`bloom_paging`) make it
start again in the next. Two rebuilds are enough for one to overwrite, delete or
outlive the other's marker. Links meet in `LinkService` only in
the queue, in the worker's page and as variants of each other, so one link with a queue
of one, filled by two calls, reaches "full"; two calls are a loader and one that joins
or comes later, and either both ask for the link's code (`Wants`) or one for the
variant in the same table (`Key`), which makes two loads of one row. A link is given
the expiry 1 or none, and its row 0, 1 or 2 for the former: it is rounded down to a
time that has passed when the copy is made, or up to one that is not reached, and with a
TTL of one cache entries end with their link and, when their Set is delayed, after it. One-bit sequence numbers wrap on the second id of a
millisecond. `MaxTime`, `MaxBack`, `MaxRestarts`, `MaxLosses`, `MaxStarts` and
`MaxFails` bound the environment only. Deadlock is not checked, except in
`local_cache`, which never comes to rest: creators, calls, rebuilds, visits and
restarts are finitely many and clocks are bounded, so every other instance does;
that calls and rebuilds do not hang is checked by the liveness properties.

`visit_path` has requests enough for one visit in the channel, one refused or late,
and one that meets the end of a process. In `load_test` a worker may succeed, fail
and be cut off within one level, the second level has two workers for a channel
that must hold both, and a level may take one unit of time or two, so that rates
and totals rank levels differently. The types of a module are a conjunct of an
invariant of its run (`CopiesHaveRows`, `ReportExplained`, `VisitsAreRedirects`, ...)
or proved.

In `visit_path` and `async_writer` the channel is smaller than the number of items,
batches fill and do not fill, and there are enough items for a batch to be in each
place at once. `cleanup` has two links in one table, which may expire together,
and a page of one, so that a tie lies at the end of a page; a deletion of visits
may hit exactly its limit. Two instances and two starts let one instance start,
stop and start again, or two meet; a ResolveNow and the watch are two updates that
may overtake each other. `link_ids` uses the real alphabet and table count, because
which case variants share a table depends on 62 modulo 16: a change of case adds 26 times a power of 62, which is divisible by 16
from the fourth digit on. The node ids are chosen so that ids of the two processes
differ in the case of the last digit, and those of neighbouring milliseconds in that
of the fourth from the right. Its word
has 30 bits, and its buffer, as in the code, just the digits of the largest one.

Fairness. `RedisBloom`: weak fairness of the steps of each call of Rebuild: a
goroutine that runs, or whose process stops; nothing is assumed of creators.
`LinkService`: weak fairness of each started `Resolve`, because every command has
a timeout. The clock, the creators, the worker and the lazy cleaner get none, which is
how a stopped cleaner is covered; that expired rows go is `Cleanup`'s. `Snowflake`: clocks advance and the loop in
`waitNextMillis` polls them. `Gateway`, `AsyncWriter`: goroutines run, timers
fire, MySQL answers, and every call ends by its deadline (`withTimeout`) or Serve's
five seconds, while no call need arrive anywhere; `LoadTest`: workers run, every
request has a timeout and the level's timer fires; nobody has to give up or to stop. `Cleanup`: the clock, the
ticker and the steps of a round go on; at most `MaxFails` rounds fail.
`EtcdResolver`: leases nobody renews expire, goroutines run, the watch delivers
while it is open, and gRPC asks for a new resolution while it works with the
address of an ended process, which is what it does when a connection fails;
ResolveNow for any other reason is not assumed.

### Properties worth a remark

* `OnlyStraddledLost` says exactly which links the live filter may reject: those
  whose Add was between its two writes when a rebuild that had already passed
  them was installed, and those lost with Redis, until a rebuild lists them.
* `AckedResolves` and `NoStaleRedirect` compare with the call that did the load,
  not with the call that joined it. The stronger forms are false: a caller that
  joins a load gets a "not found" for a link acknowledged after that load had
  read MySQL, and a redirect to a link that expired between the load and its own
  call. This is what sharing a load means; it is listed as a hazard.
* `AckedResolves` excepts what the filter loses: a link whose Add a rebuild was
  installed in (the finding `bloom_straddle`), and, after a loss of Redis, any link
  until a rebuild. `missed` is set only when it is the filter that rejects; once a
  rebuild lists the link, or a copy is in a cache, nothing excuses an answer.
* `CopiesHaveRows` is the reason no invalidation is needed when rows are
  deleted: a row goes only when every copy made of it is past its expiry. The copy that
  a creation puts into the shared cache has the expiry before it was rounded: its row
  may go first, by what was taken off, half a millisecond at most. `OnlyExpiredDeleted`
  says the rest: by the row's own expiry no row goes early.

* `VisitsAreRedirects` with `CountedOnce` is what PV means: a redirection, at most
  once. It may be less: the gateway drops the errors of RecordVisit, and statsvc ends
  with visits in memory. The exception is a gateway that is stopped between the two
  calls and the reply: its client gets no redirection and is counted.
* `ErrorsSurviveGrpc` holds for the five errors of the domain. A full queue and any
  failure of a call or a database are the same reply, 500.
* `ShutdownsEnd` does not say that requests are completed before: `runGateway` closes
  its connections as soon as the listener is closed, under the requests `Shutdown`
  would wait for.
* `ReportExplained` says which cut-off requests a level counts as failures after all:
  creations whose status 201 had arrived when the level ended, but whose body had
  not, at most one of each worker. `CutOffIsNoFailure`, that there are none, is what the
  document says, and the finding `load_cutoff`.
* `EarlyVisitsSettle` and `DrainedOnWait` speak of items accepted before the
  context was over: the drains stop at the first moment at which the channel is
  empty.
* `OnlyOvertakenStale` says that a snapshot can do harm only if it was taken
  before, and installed after, an event the watch had delivered; a snapshot ahead
  of the watch heals itself. What gRPC uses may then be wrong until the next event
  or resolution. An ended instance leads to failures and so to a resolution
  (`DeadAddressLeaves`); a new one that is hidden does not, which is why
  `JoinedIsPushed` excepts it.
* `RefusedForUpperDigits`: two links whose codes differ by case cannot both be
  created if they share a table, and they share one exactly if the last three
  digits agree. If those differ, as in AAAAA and AAAAa, the codes of ids 26 apart, both
  exist, and the statistics of either count the visits of both (`CountVisits`, while
  README.md:9 speaks of those of one code). The run sees this for the ids of its
  instance, `LowDigitsTell` proves it for all.
* `ImplementsDirectory` adds to `NoStaleRedirect` and `AckedResolves` that a call is
  answered once, that all calls a load serves get one answer, and that a redirection or
  an "expired" is owed to a link that was made: the one asked for or, since MySQL does
  not tell case, one in its table whose code differs by case. Such an answer a call gets
  for a code that was never made, if the filter lets it through, and never for an
  acknowledged link that is alive.
* `ImplementsFilter` adds to `OnlyStraddledLost` that nothing but an installation, an
  Add or a loss changes what the live filter lets through, that it lets nothing through
  that was not made (but for false positives), and that a rebuild newly excuses no link
  whose Add had not begun or was complete.

### The findings

`bloom_straddle`: a link is inserted after a rebuild has listed its table; its
Add writes the live key; the rebuild is installed; its Add writes the temporary
key, which no longer exists. The creation succeeds and the link is rejected until
the next rebuild. Writing the temporary key first would close the gap. README.md:14-15
describe the filter as rejecting codes that do not exist and as updated when a
link is created.

`load_cutoff`: the level ends after a creation's status 201 has arrived and before its
body has been read. `doCreate` returns the status without a code (main.go:379-381),
`stoppedByLevelTimeout` asks for status 0, and the creation is recorded as a failure.
docs/loadtest-qps.md:34 says that what the end of a level cancels is no longer counted
as one.

## The proofs

`RedisBloomProofs` proves, from `CodesAssumption` (ids are positive),
`KeysAssumption` (the live key, the temporary keys and "no marker" differ) and
`SizesAssumption` (positive table count and page size), for any number of links,
rebuilds, tables and losses:

* `TypeCorrect`: the types, that a rebuild's locals are cleared outside their
  scope, and that an Add holds a target only between its read and its last write;
* `DoubleWriteHolds`, `ListingIsComplete`, `OnlyStraddledAreLost`,
  `InstallationHeals`;
* `IsExistenceFilter`: it implements `ExistenceFilter`.

`OnlyStraddledLost` is not inductive: it says nothing about the key that is about
to replace the live one. The argument is in layers, each using those before it.
(1) While a rebuild holds the marker, every active link added after it set the
marker has read that marker (`DoubleWrite`), since reading the marker and setting
it are single commands; links added before are in `base`, the rows it will list.
(2) Every active row of `base` behind the cursor is in the temporary key
(`ListingComplete`): a page holds the first rows after the cursor, so what lies
between two cursors was on the page; rows inserted behind the cursor are not in
`base`. (3) At `finish` the cursor is past all tables, so the temporary key holds
every active link except those between their two writes, which is what `Install`
adds to `lost` (`InstallContents`). (4) Hence the live key holds every other
active link whenever it is replaced, and otherwise only grows. `InvInductive`
puts the four together; `LocalsStable`, `ActiveStable` and `TempGrows` say what
one step can change, so that the layers need one case per action that matters.

`IsExistenceFilter` takes the steps from there. What a creator does to the live key and
to its stage is `CreatorMaps`; that an installation is a `Replace` is
`InstallReplaces`: what the new content misses was missed before or is "adding"
(`InstallContents`), and it lets nothing through that was not made, for which no key and
no page may hold the code of a link still to be made (`ContentsOK`). Purges and the
clock only end the life of links (`AliveShrinks`), and a loss excuses exactly what had
been promised (`PromisedIsInMain`).

`LinkServiceProofs` proves, from `LinkAssumption` (positive cache TTL and queue size, any
rounding), for any number of codes, links and calls, any lifetimes and any clock the
types (`TypeCorrect`), `NoStaleRedirect` (`NoneStale`), `AckedResolves`
(`AcknowledgedResolve`) and `CopiesHaveRows` (`RowsUnderCopies`). None of the three is
inductive: they speak of answers and copies, which come out of loads that other calls
share, and out of tables that two deleters work on. The invariant has a part for each.
(1) Who loads (`LoadsOK`): a code has one loader, the calls that wait for it want its
code and have it as their leader. (2) What a call has in its variables on its way
(`LocalsOK`): a lifetime no longer than the cache's, a `before` that has passed. (3) What
the stores hold (`StoresOK`, `CopiesOK`): a link whose creation went well has its row
until the row has expired, because whatever a deleter has in hand has expired already,
and it is in the filter until then, unless it is excused; the rows that a code finds are
one at most; a copy is of a link that had its row, and has one of its two expiries.
(4) What has been found out (`AnswersOK`): an item is compared with the moment at which
the load of the call's leader began, and a "not found" or "expired" with what was
acknowledged then. With (3) a loader that finds neither copy nor row may say so.

`OnlyExpiredDeleted` is what the deleters owe the rest, as an action property: no step
removes a row before its own expiry. `IsDirectory` is the refinement. The step in
which a load returns is one `Answer` of the directory, to the leader and to all that
joined: that it is right for the leader is (4). Of the other steps of a call the first
is `Ask`, one that returns from the filter or the local cache is an `Answer` of its own,
and the rest stutter; the row and the return of a creation are `Make` and `Acknowledge`,
a rebuild is `Reorder`, a loss of Redis `Lose`, and caches and cleaners are invisible.

`LinkIdsProofs` proves for all node ids and field widths that
ids increase per generator (`IncreasingIds`), that an id is repeated only by
processes sharing a node id or by one that restarted with its clock not past what
it had used (`UniqueIds`), and that `ParseSnowflake` inverts the composition
(`ParseIsInverse`). The arithmetic (`ComposeOrder`, `ComposeInjective`,
`ParseCompose`) is separated from the state machine; the invariant says that
every id issued in this life is at most the last one, and that `high` bounds the
earlier lives.

`CodesAreIds` is `CodesRoundTrip` for any alphabet of at least two digits. It is about
the two loops: after k rounds of the encoder `Left` holds what the decoder computes
from all digits but the last k, so the decoder's values are the encoder's, backwards
(`RoundTrip`). It rests on `BufferAssumption`, that the largest number of the word
leaves nothing after as many rounds as the buffer has bytes (11 for 64 bits), with
division being monotonic (`LeftBounded`), and on `WordAssumption`, that ids up to
`MaxTime` are numbers of the word (until 2095 in the code), for which no generator is
ever past `MaxTime` (`InTime`).

`LowDigitsTell` is `RefusedForUpperDigits`, both ways, for any ids, under
`CodeParameters`, the facts about the code's alphabet and tables that it depends on: ten numerals, 26 letters,
16 tables, a buffer of at least three digits and three digits that tell. Digits that the
collation takes for equal differ by 0 or 26 in value (`SameInEveryDigit`), so two such
numbers differ by a sum of 26 times powers of 62, taken with a sign or left out. From the
fourth digit on each of these is divisible by 16, and of the lowest three no choice but
none at all adds up to a multiple of 16 (`LowDigitsDecide`), which a common table asks for.

`CleanupProofs` proves, from `CleanupAssumption`, for any number of links and
tables and any page size that the types are kept (`TypeCorrect`) and that no row
is skipped (`NothingSkipped`). `NoneSkipped` speaks of the cursor, which moves when
a page is deleted; in between the invariant has to know what the page is: `PageOK`
says that what is left of the table beyond the page comes after all of it, and that
the page is full if there is such a rest. `FirstPage` derives that from the ORDER BY
and the LIMIT, using that (expire_at, id) orders rows totally (`BeforeTotal`).
Inserts disturb nothing because a new row is not in `base`, and its expiry is set
once. `RetentionHolds` is the action property `RetentionKept`: the deletion that ends
`deleteAll` was not limited (`LastDeletionTakesAll`). `OnlyOldDeleted` is the other half:
a step takes a link only if it has expired, also the rest of a page whose ids were
chosen long before, and a visit or a statistic only if it is older than its cut-off.

`GatewayProofs` proves first of the recorder by itself, from positive sizes of channel
and batch (`SizesAssumption`), the types, `CountedOnce` (`CountsOnce`) and `DrainedOnReturn`
(`DrainsOnReturn`). `CountedOnce` counts positions in the concatenation of three
sequences; inductive is that each of them is injective, and that their ranges and
the dropped visits are disjoint and make up the accepted ones (`Placed`).
`Appending`, `Taking` and `Joining` say what the operations on sequences do to ranges
and injectivity, and `Counting` and `PlacedCounts` lead back to positions.
`DrainedOnReturn` needs that early visits are complete once the goroutine drains
(`RunOK`: the context is over) and what the last flush has left to do (`EarlyOK`).

Then it proves that every step of `Gateway` is one of `VisitRecorder` or leaves its
variables alone (`StepIsRecorderStep`), hence `GatewaySpec => Spec`
(`ImplementsRecorder`), and the recorder's invariants behind the gateway.
`OnlyRedirectsCount` needs the call under way: a RecordVisit that may still arrive is
part of a redirection (`CallsAreRedirects`). `ErrorsKeepMeaning` is `FaithfulReports`, a
case for each error, and that nothing else writes the history variable.

About `LoadTest` it proves, from `LoadAssumption` (at least one level, each with workers;
a percentage as the share of successes), `ReportExplained` (`ReportsAreExplained`) and
`BestIsBest` (`BestLevelIsBest`) for any levels and any number of requests. The report is
made of sums over the workers, some of which have ended and sent their counts while
others go on; the invariant (`LoadInv`) follows these sums through a level (`Measuring`):
the channel holds what the ended workers counted, and requests are successes, failures,
or torn after the end of the level, once for each worker at most, for none begins another
then (`Places` says who is where). `Sum` is a recursive function over a sequence; how it
grows with one of its numbers (`SumGrows`) is what the steps need of it.

`AsyncWriterProofs` proves, from `WriterAssumption` (positive sizes, at least one
worker: the options' zero values are replaced by defaults), `HandedOnce`
(`HandsOverOnce`) and `DrainedOnWait` (`DrainsOnWait`). As with the recorder, a count
over channel, batches and calls becomes disjointness: a link is in one place of the
channel, in the batch of one worker, or has been handed over (`Placed`); a batch has
room wherever its worker may receive (`Batches`). `DrainedOnWait` is about several
workers, each of which returns when it sees the channel empty, while others still hold
links; so what a returned worker knows can only be that no early link is in the
channel, nor will be (`Ending`). That all have returned leaves none in a batch.

`LocalCacheProofs` proves, from `CacheAssumption` (room for an entry), for any number of
codes and callers `ListMatchesMap` (`ListAlwaysMatches`), `EvictsLeastRecent`
(`LeastRecentEvicted`) and the refinement (`IsBoundedCache`). The list is in the order
of use (`InOrder`): whatever stands before an element was used after it; so the last one
is the victim when nothing has expired, and the length of a list without repetition is
the number of its codes (`Counted`), which bounds it. The work is in the list:
`WithoutKeeps` says that taking codes out keeps the order of the others and nothing
else, from counting (`RankNext`, `Positions`), and `Moved` that a use leaves list and
order of use in agreement. Each operation is then a step of `BoundedCache`:
`FinishSetPuts` with the entry that was made before the mutex was taken, which the
clock may have overtaken.

`EtcdResolverProofs` proves, from `ResolverAssumption`, `OnlyOvertakenStale`
(`OnlyOvertaken`) for any number of instances, resolutions and events. The property
speaks of the moment at which the watch has delivered everything; the invariant of any
moment: an instance that no late snapshot has set back is known as it was registered
at some revision from the one the watch has reached onwards (`KnownOK`), the current
one included when a snapshot is ahead. That a snapshot is what was registered at its
revision (`SnapshotsOK`), and that a response leaves what its last event on each key
says (`ResponseApplied`), carry this over a step; when the watch is at the last
revision, only that one is left.

Numbers, lists and loops. The theorems of the library about induction and recursive
functions take operators as parameters, which the provers do not instantiate. The
modules prove in their place that a set of numbers has a least element (`Least`), from
the library's theorem that < is well founded, and reason about the least
counterexample; that a recursive function exists is shown in the same way
(`ResponseApplied`, `LeftRounds`). This reaches definitions written as recursive
functions or by counting, which is how `AppliedAll`, `Left`, `DecodeBase62` and `Without`
are written.

Only model-checked is liveness (`RebuildReturns`, `ResolveReturns`, `ExpiredRowsGo`,
`WaitEnds`, `EarlyVisitsSettle`, `RequestsEnd`,
`ShutdownsEnd`, `EarlyItemsWritten`, `DeadAddressLeaves`, `JoinedIsPushed`, `LevelEnds`),
since the prover reaches neither fairness nor ENABLED. Every invariant and every other
action property or refinement that a passing run checks is the statement of a theorem.

## Not modelled

* Retries inside the Redis client that could apply a command after a later one of
  the same call; two calls of Rebuild in the same nanosecond, which would share a
  temporary key; the expiry of keys by Redis' memory policy one by one; that a TTL is
  cut to whole milliseconds when it is sent to Redis.
* Clocks of linksvc, redirectsvc, the worker and Redis that differ (`LinkService`,
  `RedisBloom`, `Cleanup` have one). That expired rows go, in spite of a lazy queue that
  drops them, is checked in `Cleanup`, without caches and callers.
* The `status` column: no code sets any value but active.
* Ids beyond 63 bits (year 2095), which `WordAssumption` excludes; codes with
  characters outside the alphabet.
* The async writer without a batch writer, which inserts one by one; `Discover` and
  `List` of the registry, which no command calls.
* The four queries of `GetLinkStats`, which see four moments: PV, UV and today's
  visits need not fit together, and nothing says they do.
* That a running instance whose lease is lost never registers again is modelled, and
  no property: nobody promises the contrary.
* `RedisSet` and the in-memory filter, which no command uses.
* JSON and protobuf field by field, configuration, logging, health checks, pprof, the
  clients of MySQL, Redis and etcd; of the load test its flags, latencies and output.
* The connections of gRPC: which instance of a service a call goes to, and how a
  connection is made again. `EtcdResolver` ends where addresses are handed to gRPC.

## Plan

1. `LinkService` behind `Gateway`, so that a redirection's two calls are both in
   detail; `LinkDirectory` is what the composition needs of it.
2. Clocks of their own for the processes of `LinkService` with a bound on their
   difference, so that the properties say what a difference costs.
3. `RedisSet` and the in-memory filter as further implementations of
   `ExistenceFilter`, should a command come to use them.
