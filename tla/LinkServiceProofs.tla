------------------------- MODULE LinkServiceProofs -------------------------
(***************************************************************************)
(* What Resolve may answer, and which copies of a link may exist, for any  *)
(* number of links and calls, any lifetimes and any queue.                 *)
(*                                                                         *)
(* Behind the answers stand the loads: which call loads which code, who    *)
(* waits for whom (LoadsOK), and what the locals of a loader hold on its   *)
(* way (LocalsOK).  Behind the copies stand the tables: a link whose       *)
(* creation went well has its row, and is in the filter or excused, until  *)
(* it expires (StoresOK), because whatever a deleter has in hand has       *)
(* expired already; and a copy is of a link that has had its row           *)
(* (CopiesOK), which stays true whatever happens (HasRow).                 *)
(*                                                                         *)
(* From the same invariant every step is a step of LinkDirectory: a call   *)
(* that returns, with those that waited for it, is answered there, links   *)
(* come out of its sight with the filter, and all that goes on between     *)
(* stores and caches is not seen.                                          *)
(***************************************************************************)
EXTENDS LinkService, SequenceTheorems, TLAPS

\* Before loadGroup.Do, in the load.
Entering == {"idle", "filter", "delStale", "join"}
Loading  == {"remote", "delStaleRemote", "db", "setLocal", "setRemote", "delExpired", "finish"}
Filling  == {"setLocal", "setRemote"}
Asking   == Entering \union {"wait", "remote", "delStaleRemote", "db"}

\* A code has one loader, which serves the calls that wait for it.
LoadsOK ==
  /\ \A c \in Codes : flight[c] # NoCall => /\ want[flight[c]] = c
                                            /\ call[flight[c]] \in Loading
  /\ \A q \in Calls :
       /\ call[q] \in Loading => flight[want[q]] = q
       /\ call[q] \in Entering \union Loading => leader[q] = q
       /\ call[q] = "wait" => call[leader[q]] \in Loading
       /\ call[q] # "idle" => call[leader[q]] # "idle"
       /\ want[leader[q]] = want[q]

\* What a call has in its variables.
LocalsOK ==
  \A q \in Calls :
    /\ call[q] \in Asking => result[q] = "none"
    /\ call[q] \in Filling => result[q] = "link" /\ hold[q] <= CacheTTL
    /\ call[q] = "delExpired" => result[q] = "expired" /\ hold[q] <= clock
    /\ call[q] = "finish" => result[q] # "none"
    /\ call[q] # "done" => ~ missed[q]

RowExpired(c) == rowExpireAt[c] <= clock

\* MySQL and the filter hold what was created until it expires.
StoresOK ==
  /\ \A c \in Codes :
       /\ create[c] = "none" => expireAt[c] = Never /\ rowExpireAt[c] = Never
       /\ expireAt[c] <= rowExpireAt[c] + Rounding /\ rowExpireAt[c] <= expireAt[c] + Rounding
       /\ expireAt[c] = Never <=> rowExpireAt[c] = Never
       /\ create[c] \in {"inserted", "adding", "warming", "acked"}
            => c \in rows \/ RowExpired(c)
       /\ create[c] \in {"adding", "warming", "acked"}
            => c \in filter \/ c \in excused \/ RowExpired(c)
  /\ \A r, s \in rows : Key[r] = Key[s] => r = s
  /\ \A c \in batch : RowExpired(c)

\* A link that has been in its table.
HasRow(c) == create[c] # "none" /\ (c \in rows \/ RowExpired(c))

\* An expiry that a copy of a link may have.
ExpiryOf(c) == {expireAt[c], rowExpireAt[c]}

\* What the caches keep has been in its table.
CopiesOK ==
  \A c \in Codes : \A cache \in {local, remote} :
    Hit(cache, c) => HasRow(c) /\ cache[c].expireAt \in ExpiryOf(c)

\* The link that a call has found is one for its code, and not another's while its own is
\* there.
ItemOK(q) ==
  LET c == item[q].code IN
  /\ HasRow(c) /\ item[q].expireAt \in ExpiryOf(c)
  /\ Key[c] = Key[want[q]]
  /\ item[q].expireAt > begun[leader[q]]
  /\ known[leader[q]] => c = want[q] \/ RowExpired(want[q])

\* What a call has found out about its link, itself or by the call it waited for.
AnswerOK(q) ==
  /\ known[q] => create[want[q]] = "acked"
  /\ result[q] = "link" => ItemOK(q)
  /\ result[q] = "expired"
       => \E r \in Codes : Key[r] = Key[want[q]] /\ HasRow(r) /\ RowExpired(r)
  /\ result[q] \in {"notFound", "expired"} /\ known[leader[q]]
       => RowExpired(want[q]) \/ missed[q]

AnswersOK == \A q \in Calls : AnswerOK(q)

Inv == TypeOK /\ LoadsOK /\ LocalsOK /\ StoresOK /\ CopiesOK /\ AnswersOK

USE LinkAssumption

\* The steps of time, creators, deleters and the filter.
StoreStep == \/ Tick \/ RedisLost \/ LazyDelete \/ SelectExpired \/ UncacheBatch \/ DeleteBatch
             \/ WorkerFails \/ RebuildFilter
             \/ \E c \in Codes : Evict(c) \/ CreatorStep(c)

-----------------------------------------------------------------------------
(* Helpers                                                                 *)

\* A lifetime given to a copy is that of the cache or shorter.
LEMMA Lifetimes ==
  ASSUME StoreTypes, NEW e \in 0..Never
  PROVE  TTLFor(e) \in 0..CacheTTL
BY DEF TTLFor, StoreTypes, Never

\* A Set moves one entry, to a moment the clock can reach.
LEMMA Sets ==
  ASSUME StoreTypes, NEW cache \in [Codes -> Entries],
         NEW it \in [code : Codes, expireAt : 0..Never], NEW ttl \in 0..CacheTTL
  PROVE  /\ Entered(cache, it, ttl) \in [Codes -> Entries]
         /\ \A d \in Codes \ {it.code} : Entered(cache, it, ttl)[d] = cache[d]
         /\ Entered(cache, it, ttl)[it.code] # cache[it.code]
              => Entered(cache, it, ttl)[it.code].expireAt = it.expireAt
<1>1. [until |-> clock + ttl, expireAt |-> it.expireAt] \in Entries
  BY DEF Entries, StoreTypes
<1> QED BY <1>1 DEF Entered

\* Deletion empties entries.
LEMMA Deletes ==
  ASSUME NEW cache \in [Codes -> Entries], NEW codes
  PROVE  /\ Without(cache, codes) \in [Codes -> Entries]
         /\ \A c \in Codes : Without(cache, codes)[c] \in {cache[c], NoEntry}
<1>1. NoEntry \in Entries
  BY DEF NoEntry, Entries, Never
<1> QED BY <1>1 DEF Without

\* What waits in the queue is as old as before; a step adds or takes one.
LEMMA Queued ==
  ASSUME QueueType, clock \in Nat, clock' \in Nat, clock <= clock',
         \/ UNCHANGED queue
         \/ queue # <<>> /\ queue' = Tail(queue)
         \/ \E entry \in [code : Codes, before : 0..clock] : queue' \in Offered(entry)
  PROVE  QueueType'
<1> DEFINE S == [code : Codes, before : 0..clock]
           T == [code : Codes, before : 0..clock']
<1>1. S \subseteq T
  OBVIOUS
<1>2. queue \in Seq(S) /\ Len(queue) <= QueueSize
  BY DEF QueueType
<1>3. \/ UNCHANGED queue
      \/ queue # <<>> /\ queue' = Tail(queue)
      \/ \E entry \in S : queue' \in Offered(entry)
  OBVIOUS
<1> SUFFICES queue' \in Seq(T) /\ Len(queue') <= QueueSize
  BY DEF QueueType
<1> HIDE DEF S, T
<1>4. queue \in Seq(T)
  BY <1>1, <1>2, SeqMonotonic
<1>5. CASE queue # <<>> /\ queue' = Tail(queue)
  BY <1>2, <1>4, <1>5
<1>6. ASSUME NEW entry \in S, queue' \in Offered(entry)
      PROVE  queue' \in Seq(T) /\ Len(queue') <= QueueSize
  <2>1. entry \in T
    BY <1>1
  <2> QED BY <1>2, <1>4, <1>6, <2>1 DEF Offered
<1> QED BY <1>2, <1>3, <1>4, <1>5, <1>6

-----------------------------------------------------------------------------
(* Types                                                                   *)

LEMMA InitType == Init => TypeOK
<1> SUFFICES ASSUME Init PROVE TypeOK
  OBVIOUS
<1>1. StoreTypes
  BY DEF Init, StoreTypes, Never, Creating, Entries, NoEntry
<1>2. CallTypes
  <2>1. want \in [Calls -> Codes]
    BY DEF Init
  <2>2. item \in [Calls -> [code : Codes, expireAt : 0..Never]]
    BY <2>1 DEF Init, Never
  <2> QED BY <2>1, <2>2 DEF Init, CallTypes, Resolving, Results
<1>3. QueueType
  BY DEF Init, QueueType
<1> QED BY <1>1, <1>2, <1>3 DEF TypeOK

\* Nobody but calls writes the variables of calls.
LEMMA StoreLeavesCalls ==
  ASSUME StoreStep
  PROVE  UNCHANGED <<callVars, flight>> /\ clock' \in {clock, clock + 1}
BY DEF StoreStep, Tick, RedisLost, LazyDelete, SelectExpired, UncacheBatch, DeleteBatch,
       WorkerFails, RebuildFilter, Evict, CreatorStep, Insert, StartAdd, EndAdd, WarmCache,
       linkVars, callVars

\* A step of the filter keeps it among the links that were made.
LEMMA FilterTypes ==
  ASSUME StoreTypes, UNCHANGED create, Filter!Replace \/ Filter!Lose
  PROVE  filter' \subseteq {c \in Codes : create[c] # "none"} /\ excused' \subseteq Codes
BY DEF StoreTypes, Creating, Filter!Replace, Filter!Lose, Filter!Promised, AddStage

LEMMA StoreType == ASSUME TypeOK, StoreStep PROVE TypeOK'
<1> USE DEF StoreStep, TypeOK, linkVars, filterVars, cacheVars, workerVars, createVars
<1>1. CallTypes' /\ clock' \in Nat /\ clock \in Nat /\ clock <= clock'
  <2>1. UNCHANGED <<callVars, flight>> /\ clock' \in {clock, clock + 1}
    BY StoreLeavesCalls
  <2>2. clock \in Nat
    BY DEF StoreTypes
  <2> QED BY <2>1, <2>2 DEF CallTypes, callVars, askVars, loadVars
<1>2. QueueType'
  <2>1. \/ UNCHANGED queue
        \/ queue # <<>> /\ queue' = Tail(queue)
    BY DEF Tick, RedisLost, LazyDelete, SelectExpired, UncacheBatch, DeleteBatch, WorkerFails,
           RebuildFilter, Evict, CreatorStep, Insert, StartAdd, EndAdd, WarmCache
  <2> QED BY <1>1, <2>1, Queued
<1> SUFFICES StoreTypes'
  BY <1>1, <1>2
<1>3. local \in [Codes -> Entries] /\ remote \in [Codes -> Entries]
  BY DEF StoreTypes
<1>4. CASE Tick
  <2>1. NoEntry \in Entries
    BY DEF NoEntry, Entries, Never
  <2>2. local' \in [Codes -> Entries] /\ remote' \in [Codes -> Entries]
    BY <1>3, <1>4, <2>1 DEF Tick, Aged
  <2> QED BY <1>4, <2>2 DEF Tick, StoreTypes
<1>5. CASE LazyDelete \/ SelectExpired \/ DeleteBatch
  BY <1>5 DEF LazyDelete, SelectExpired, DeleteBatch, Expired, StoreTypes
<1>6. CASE UncacheBatch \/ WorkerFails
  <2>1. remote' \in [Codes -> Entries]
    BY <1>3, <1>6, Deletes DEF UncacheBatch, WorkerFails
  <2> QED BY <1>6, <2>1 DEF UncacheBatch, WorkerFails, StoreTypes
<1>7. CASE RebuildFilter \/ RedisLost
  <2>1. remote' \in [Codes -> Entries]
    BY <1>3, <1>7, Deletes DEF RebuildFilter, RedisLost
  <2>2. filter' \subseteq {c \in Codes : create[c] # "none"} /\ excused' \subseteq Codes
    BY <1>7, FilterTypes DEF RebuildFilter, RedisLost
  <2> QED BY <1>7, <2>1, <2>2 DEF RebuildFilter, RedisLost, StoreTypes
<1>8. ASSUME NEW c \in Codes, Evict(c) PROVE StoreTypes'
  <2>1. local' \in [Codes -> Entries] /\ remote' \in [Codes -> Entries]
    BY <1>3, <1>8, Deletes DEF Evict
  <2> QED BY <1>8, <2>1 DEF Evict, StoreTypes
<1>9. ASSUME NEW c \in Codes, Insert(c) PROVE StoreTypes'
  <2>1. \A e \in Expiries \union {Never} : e \in 0..Never /\ Stored(e) \subseteq 0..Never
    BY DEF Stored, Never
  <2>2. expireAt' \in [Codes -> 0..Never] /\ rowExpireAt' \in [Codes -> 0..Never]
    BY <1>9, <2>1 DEF Insert, StoreTypes
  <2> QED BY <1>9, <2>2 DEF Insert, Created, Creating, StoreTypes
<1>10. ASSUME NEW c \in Codes, StartAdd(c) PROVE StoreTypes'
  BY <1>10 DEF StartAdd, Created, Creating, StoreTypes
<1>11. ASSUME NEW c \in Codes, EndAdd(c) PROVE StoreTypes'
  <2>1. TTLFor(expireAt[c]) \in 0..CacheTTL
    BY Lifetimes DEF StoreTypes
  <2> QED BY <1>11, <2>1 DEF EndAdd, Created, Creating, StoreTypes
<1>12. ASSUME NEW c \in Codes, WarmCache(c) PROVE StoreTypes'
  <2>1. Entered(remote, [code |-> c, expireAt |-> expireAt[c]], warmTTL[c])
          \in [Codes -> Entries]
    BY Sets DEF StoreTypes
  <2> QED BY <1>12, <2>1 DEF WarmCache, Created, Creating, StoreTypes
<1> QED BY <1>4, <1>5, <1>6, <1>7, <1>8, <1>9, <1>10, <1>11, <1>12 DEF CreatorStep

\* Calls write neither tables nor filter, and tell nothing of the time.
LEMMA CallsLeaveStores ==
  ASSUME NEW q \in Calls, Start(q) \/ ResolveStep(q)
  PROVE  UNCHANGED storeVars
BY DEF Start, ResolveStep, LoadStep, CheckFilter, ReadLocal, DeleteRemote, Join, ReadRemote,
       FindActive, SetLocal, SetRemote, DropExpired, Finish

\* The steps of a call.
LEMMA CallType ==
  ASSUME TypeOK, LocalsOK, NEW q \in Calls, Start(q) \/ ResolveStep(q)
  PROVE  TypeOK'
<1> USE DEF TypeOK, cacheVars, Go, Return
<1>1. UNCHANGED <<linkVars, filterVars, createVars, workerVars>>
  BY CallsLeaveStores DEF storeVars
<1>2. clock' = clock /\ clock \in Nat /\ want[q] \in Codes
  BY <1>1 DEF linkVars, StoreTypes, CallTypes
<1>3. QueueType'
  <2>1. CASE DropExpired(q)
    <3>1. [code |-> want[q], before |-> hold[q]] \in [code : Codes, before : 0..clock]
      BY <1>2, <2>1 DEF DropExpired, LocalsOK, CallTypes
    <3>2. queue' \in Offered([code |-> want[q], before |-> hold[q]])
      BY <2>1 DEF DropExpired
    <3> QED BY <1>2, <3>1, <3>2, Queued
  <2>2. CASE ~ DropExpired(q)
    <3>1. UNCHANGED queue
      BY <2>2 DEF Start, ResolveStep, LoadStep, CheckFilter, ReadLocal, DeleteRemote, Join,
                  ReadRemote, FindActive, SetLocal, SetRemote, Finish
    <3> QED BY <1>2, <3>1, Queued
  <2> QED BY <2>1, <2>2
<1>4. StoreTypes'
  <2>1. local \in [Codes -> Entries] /\ remote \in [Codes -> Entries]
    BY DEF StoreTypes
  <2>2. CASE SetLocal(q) \/ SetRemote(q)
    <3>1. hold[q] \in 0..CacheTTL /\ item[q] \in [code : Codes, expireAt : 0..Never]
      BY <2>2 DEF SetLocal, SetRemote, LocalsOK, Filling, CallTypes
    <3>2. \A cache \in {local, remote} : Entered(cache, item[q], hold[q]) \in [Codes -> Entries]
      BY <2>1, <3>1, Sets
    <3>3. local' \in [Codes -> Entries] /\ remote' \in [Codes -> Entries]
      BY <2>1, <2>2, <3>2 DEF SetLocal, SetRemote
    <3> QED BY <1>1, <3>3 DEF StoreTypes, linkVars, filterVars, createVars, workerVars
  <2>3. CASE ~ (SetLocal(q) \/ SetRemote(q))
    <3>1. /\ local' \in {local, Without(local, {want[q]})}
          /\ remote' \in {remote, Without(remote, {want[q]})}
      BY <2>3 DEF Start, ResolveStep, LoadStep, CheckFilter, ReadLocal, DeleteRemote, Join,
                  ReadRemote, FindActive, DropExpired, Finish, Found
    <3>2. local' \in [Codes -> Entries] /\ remote' \in [Codes -> Entries]
      BY <2>1, <3>1, Deletes
    <3> QED BY <1>1, <3>2 DEF StoreTypes, linkVars, filterVars, createVars, workerVars
  <2> QED BY <2>2, <2>3
<1> SUFFICES CallTypes'
  BY <1>3, <1>4
<1> USE DEF CallTypes, Resolving, Results, askVars, loadVars
<1>5. /\ \A e \in 0..Never : TTLFor(e) \in 0..(MaxTime + CacheTTL)
      /\ 0 \in 0..(MaxTime + CacheTTL) /\ clock \in 0..(MaxTime + CacheTTL)
  BY Lifetimes DEF StoreTypes
<1>6. CASE Start(q)
  BY <1>2, <1>6 DEF Start
<1>7. CASE CheckFilter(q)
  BY <1>2, <1>7 DEF CheckFilter
<1>8. \A cache \in {local, remote} : Copy(cache, want[q]) \in [code : Codes, expireAt : 0..Never]
  BY <1>2 DEF StoreTypes, Copy, Entries
<1>9. CASE ReadLocal(q)
  <2>1. /\ \E to \in Resolving : call' = [call EXCEPT ![q] = to]
        /\ \E r \in Results : result' = [result EXCEPT ![q] = r]
        /\ \E it \in [code : Codes, expireAt : 0..Never] : item' = [item EXCEPT ![q] = it]
    <3>1. CASE Usable(local, want[q])
      BY <1>8, <1>9, <3>1 DEF ReadLocal
    <3>2. CASE ~ Usable(local, want[q])
      BY <1>8, <1>9, <3>2 DEF ReadLocal
    <3> QED BY <3>1, <3>2
  <2> QED BY <1>2, <1>9, <2>1 DEF ReadLocal
<1>10. ASSUME NEW from, NEW to \in Resolving, DeleteRemote(q, from, to) PROVE CallTypes'
  BY <1>2, <1>10 DEF DeleteRemote
<1>11. CASE Join(q)
  <2>1. call' \in [Calls -> Resolving]
    BY <1>11 DEF Join
  <2>2. flight' \in [Codes -> Calls \union {NoCall}] /\ leader' \in [Calls -> Calls]
    <3>1. CASE flight[want[q]] = NoCall
      BY <1>2, <1>11, <3>1 DEF Join
    <3>2. CASE flight[want[q]] # NoCall
      <4>1. flight[want[q]] \in Calls
        BY <1>2, <3>2
      <4> QED BY <1>2, <1>11, <3>2, <4>1 DEF Join
    <3> QED BY <3>1, <3>2
  <2> QED BY <1>2, <1>11, <2>1, <2>2 DEF Join
<1>12. ASSUME NEW it \in [code : Codes, expireAt : 0..Never], NEW from \in {"remote", "db"},
              Found(q, it, from), UNCHANGED <<askVars, missed, leader, flight>>
       PROVE  CallTypes'
  BY <1>2, <1>5, <1>12 DEF Found, StartFill
<1>13. CASE ReadRemote(q)
  <2>1. CASE Found(q, Copy(remote, want[q]), "remote")
    BY <1>8, <1>12, <1>13, <2>1 DEF ReadRemote
  <2>2. CASE ~ Found(q, Copy(remote, want[q]), "remote")
    BY <1>2, <1>13, <2>2 DEF ReadRemote
  <2> QED BY <2>1, <2>2
<1>14. CASE FindActive(q)
  <2>1. ASSUME NEW r \in RowsOf(want[q]),
               Found(q, [code |-> r, expireAt |-> rowExpireAt[r]], "db")
        PROVE  CallTypes'
    <3>1. [code |-> r, expireAt |-> rowExpireAt[r]] \in [code : Codes, expireAt : 0..Never]
      BY DEF RowsOf, StoreTypes
    <3> QED BY <1>12, <1>14, <2>1, <3>1 DEF FindActive
  <2>2. CASE ~ \E r \in RowsOf(want[q]) : Found(q, [code |-> r, expireAt |-> rowExpireAt[r]], "db")
    <3>1. /\ \E to \in Resolving : call' = [call EXCEPT ![q] = to]
          /\ \E r \in Results : result' = [result EXCEPT ![q] = r]
          /\ hold' \in {hold, [hold EXCEPT ![q] = clock]}
          /\ UNCHANGED <<askVars, missed, leader, flight, item, source>>
      BY <1>14, <2>2 DEF FindActive
    <3>2. hold' \in [Calls -> 0..(MaxTime + CacheTTL)]
      BY <1>5, <3>1
    <3>3. call' \in [Calls -> Resolving] /\ result' \in [Calls -> Results]
      BY <3>1
    <3> QED BY <1>2, <3>1, <3>2, <3>3
  <2> QED BY <2>1, <2>2
<1>15. CASE SetLocal(q) \/ SetRemote(q)
  <2>1. item[q].expireAt \in 0..Never
    OBVIOUS
  <2>2. /\ call' \in [Calls -> Resolving] /\ source' \in [Calls -> {"none", "remote", "db"}]
        /\ \E h \in {0, TTLFor(item[q].expireAt)} : hold' = [hold EXCEPT ![q] = h]
        /\ UNCHANGED <<askVars, missed, leader, flight, item, result>>
    <3>1. CASE SetLocal(q) /\ source[q] = "db"
      BY <3>1 DEF SetLocal, StartFill
    <3>2. CASE SetLocal(q) /\ source[q] # "db"
      BY <3>2 DEF SetLocal
    <3>3. CASE SetRemote(q)
      BY <3>3 DEF SetRemote
    <3> QED BY <1>15, <3>1, <3>2, <3>3
  <2>3. hold' \in [Calls -> 0..(MaxTime + CacheTTL)]
    BY <1>5, <2>1, <2>2
  <2> QED BY <1>2, <2>2, <2>3
<1>16. CASE DropExpired(q)
  BY <1>2, <1>5, <1>16 DEF DropExpired
<1>17. CASE Finish(q)
  BY <1>2, <1>17 DEF Finish
<1> QED BY <1>6, <1>7, <1>9, <1>10, <1>11, <1>13, <1>14, <1>15, <1>16, <1>17
        DEF ResolveStep, LoadStep


-----------------------------------------------------------------------------
(* Loads and locals                                                        *)

\* What a call changes of the loads: its own place, but for the end of a load.
LEMMA CallMoves ==
  ASSUME TypeOK, NEW q \in Calls, Start(q) \/ ResolveStep(q)
  PROVE  /\ want' = want
         /\ \/ Finish(q)
            \/ Join(q)
            \/ /\ call[q] \in Entering /\ call'[q] \in (Entering \ {"idle"}) \union {"done"}
               /\ call' = [call EXCEPT ![q] = call'[q]] /\ UNCHANGED <<leader, flight>>
            \/ /\ call[q] \in Loading /\ call'[q] \in Loading
               /\ call' = [call EXCEPT ![q] = call'[q]] /\ UNCHANGED <<leader, flight>>
<1> USE DEF Go, Return, Entering, Loading, TypeOK, CallTypes, askVars
<1>1. CASE Start(q) \/ CheckFilter(q) \/ ReadLocal(q) \/ DeleteRemote(q, "delStale", "join")
  BY <1>1 DEF Start, CheckFilter, ReadLocal, DeleteRemote
<1>2. CASE ReadRemote(q) \/ DeleteRemote(q, "delStaleRemote", "db") \/ FindActive(q)
  BY <1>2 DEF ReadRemote, DeleteRemote, FindActive, Found, StartFill
<1>3. CASE SetLocal(q) \/ SetRemote(q) \/ DropExpired(q)
  BY <1>3 DEF SetLocal, SetRemote, DropExpired, StartFill
<1>4. CASE Join(q) \/ Finish(q)
  BY <1>4 DEF Join, Finish
<1> QED BY <1>1, <1>2, <1>3, <1>4 DEF ResolveStep, LoadStep

LEMMA LoadsStep ==
  ASSUME TypeOK, LoadsOK, NEW q \in Calls, Start(q) \/ ResolveStep(q)
  PROVE  LoadsOK'
<1>1. /\ want' = want
      /\ call \in [Calls -> Resolving] /\ want \in [Calls -> Codes]
      /\ leader \in [Calls -> Calls] /\ flight \in [Codes -> Calls \union {NoCall}]
  BY CallMoves DEF TypeOK, CallTypes
<1> USE DEF Entering, Loading
<1>2. CASE Finish(q)
  <2>1. /\ flight' = [flight EXCEPT ![want[q]] = NoCall] /\ leader' = leader
        /\ call' = [w \in Calls |-> IF w \in Served(q) THEN "done" ELSE call[w]]
        /\ call[q] = "finish"
    BY <1>2 DEF Finish
  <2>2. \A w \in Calls : call[w] \in Loading /\ want[w] = want[q] => w = q
    BY <2>1 DEF LoadsOK
  <2> QED BY <1>1, <2>1, <2>2 DEF LoadsOK, Served
<1>3. CASE Join(q)
  <2>1. CASE flight[want[q]] = NoCall
    BY <1>1, <1>3, <2>1 DEF Join, LoadsOK, Go
  <2>2. CASE flight[want[q]] # NoCall
    BY <1>1, <1>3, <2>2 DEF Join, LoadsOK, Go
  <2> QED BY <2>1, <2>2
<1>4. CASE /\ call[q] \in Entering /\ call'[q] \in (Entering \ {"idle"}) \union {"done"}
           /\ call' = [call EXCEPT ![q] = call'[q]] /\ UNCHANGED <<leader, flight>>
  BY <1>1, <1>4 DEF LoadsOK
<1>5. CASE /\ call[q] \in Loading /\ call'[q] \in Loading
           /\ call' = [call EXCEPT ![q] = call'[q]] /\ UNCHANGED <<leader, flight>>
  BY <1>1, <1>5 DEF LoadsOK
<1> QED BY <1>2, <1>3, <1>4, <1>5, CallMoves

LEMMA LocalsStep ==
  ASSUME TypeOK, LocalsOK, NEW q \in Calls, Start(q) \/ ResolveStep(q)
  PROVE  LocalsOK'
<1> USE DEF TypeOK, CallTypes, LocalsOK, Entering, Filling, Asking, Go, Return, loadVars
<1>1. clock' = clock /\ clock \in Nat
  BY CallsLeaveStores DEF storeVars, linkVars, StoreTypes
<1>2. \A e \in 0..Never : TTLFor(e) \in 0..CacheTTL
  BY Lifetimes
<1>3. CASE Start(q) \/ CheckFilter(q) \/ ReadLocal(q) \/ Join(q) \/ DropExpired(q)
  BY <1>1, <1>3 DEF Start, CheckFilter, ReadLocal, Join, DropExpired
<1>4. CASE DeleteRemote(q, "delStale", "join") \/ DeleteRemote(q, "delStaleRemote", "db")
  BY <1>1, <1>4 DEF DeleteRemote
<1>5. ASSUME NEW it \in [code : Codes, expireAt : 0..Never], NEW from, Found(q, it, from),
             call[q] \in Loading, UNCHANGED missed
      PROVE  LocalsOK'
  BY <1>1, <1>2, <1>5 DEF Found, StartFill, Loading
<1>6. CASE ReadRemote(q)
  <2>1. CASE Found(q, Copy(remote, want[q]), "remote")
    <3>1. Copy(remote, want[q]) \in [code : Codes, expireAt : 0..Never]
      BY DEF StoreTypes, Copy, Entries
    <3> QED BY <1>5, <1>6, <2>1, <3>1 DEF ReadRemote, Loading
  <2>2. CASE ~ Found(q, Copy(remote, want[q]), "remote")
    BY <1>1, <1>6, <2>2 DEF ReadRemote
  <2> QED BY <2>1, <2>2
<1>7. CASE FindActive(q)
  <2>1. ASSUME NEW r \in RowsOf(want[q]),
               Found(q, [code |-> r, expireAt |-> rowExpireAt[r]], "db")
        PROVE  LocalsOK'
    <3>1. [code |-> r, expireAt |-> rowExpireAt[r]] \in [code : Codes, expireAt : 0..Never]
      BY DEF RowsOf, StoreTypes
    <3> QED BY <1>5, <1>7, <2>1, <3>1 DEF FindActive, Loading
  <2>2. CASE ~ \E r \in RowsOf(want[q]) : Found(q, [code |-> r, expireAt |-> rowExpireAt[r]], "db")
    BY <1>1, <1>7, <2>2 DEF FindActive
  <2> QED BY <2>1, <2>2
<1>8. CASE SetLocal(q) \/ SetRemote(q)
  <2>1. item[q].expireAt \in 0..Never
    OBVIOUS
  <2> QED BY <1>1, <1>2, <1>8, <2>1 DEF SetLocal, SetRemote, StartFill
<1>9. CASE Finish(q)
  BY <1>1, <1>9 DEF Finish, Served
<1> QED BY <1>3, <1>4, <1>6, <1>7, <1>8, <1>9 DEF ResolveStep, LoadStep

-----------------------------------------------------------------------------
(* Tables                                                                  *)

\* A link that exists keeps its expiries, and what has expired stays expired.
LEMMA ExpiryFixed ==
  ASSUME TypeOK, StoresOK, StoreStep \/ \E q \in Calls : Start(q) \/ ResolveStep(q)
  PROVE  \A c \in Codes :
           /\ create[c] # "none" => /\ create'[c] # "none"
                                    /\ expireAt'[c] = expireAt[c]
                                    /\ rowExpireAt'[c] = rowExpireAt[c]
           /\ RowExpired(c) => RowExpired(c)'
<1> USE DEF TypeOK, StoreTypes, linkVars, createVars, RowExpired
<1>1. ASSUME NEW c \in Codes, Insert(c)
      PROVE  /\ create[c] = "none" /\ rowExpireAt[c] = Never /\ clock' = clock
             /\ \A d \in Codes \ {c} : /\ create'[d] = create[d]
                                       /\ expireAt'[d] = expireAt[d]
                                       /\ rowExpireAt'[d] = rowExpireAt[d]
  BY <1>1 DEF Insert, StoresOK, Created
<1>2. CASE \E c \in Codes : Insert(c)
  BY <1>1, <1>2 DEF Never
<1>3. CASE ~ \E c \in Codes : Insert(c)
  <2>1. UNCHANGED <<expireAt, rowExpireAt>> /\ clock' \in {clock, clock + 1}
    BY <1>3, CallsLeaveStores
       DEF storeVars, StoreStep, Tick, RedisLost, LazyDelete, SelectExpired, UncacheBatch,
           DeleteBatch, WorkerFails, RebuildFilter, Evict, CreatorStep, StartAdd, EndAdd,
           WarmCache
  <2>2. \A c \in Codes : create[c] # "none" => create'[c] # "none"
    <3>1. ASSUME NEW c \in Codes, CreatorStep(c), ~ Insert(c)
          PROVE  \E p \in Creating \ {"none"} : create' = [create EXCEPT ![c] = p]
      BY <3>1 DEF CreatorStep, StartAdd, EndAdd, WarmCache, Created, Creating
    <3>2. CASE ~ \E c \in Codes : CreatorStep(c)
      BY <3>2, CallsLeaveStores
         DEF storeVars, StoreStep, Tick, RedisLost, LazyDelete, SelectExpired, UncacheBatch,
             DeleteBatch, WorkerFails, RebuildFilter, Evict
    <3> QED BY <1>3, <3>1, <3>2
  <2> QED BY <2>1, <2>2
<1> QED BY <1>2, <1>3

\* Deleters take rows that have expired.
LEMMA RowsStay ==
  ASSUME TypeOK, StoresOK, StoreStep
  PROVE  \A c \in rows : c \in rows' \/ RowExpired(c)
<1> USE DEF TypeOK, StoreTypes
<1>1. CASE LazyDelete
  <2> DEFINE S == [code : Codes, before : 0..clock]
  <2>1. queue \in Seq(S) /\ queue # <<>>
    BY <1>1 DEF LazyDelete, QueueType
  <2> HIDE DEF S
  <2>2. Head(queue) \in S
    BY <2>1
  <2>3. Head(queue).code \in Codes /\ Head(queue).before \in 0..clock
    BY <2>2 DEF S
  <2>4. ASSUME NEW c \in rows, c \notin rows'
        PROVE  ExpiredBy(c, Head(queue).before)
    BY <1>1, <2>4 DEF LazyDelete
  <2> QED BY <2>3, <2>4 DEF ExpiredBy, RowExpired
<1>2. CASE DeleteBatch \/ WorkerFails
  BY <1>2 DEF DeleteBatch, WorkerFails, StoresOK
<1>3. CASE ~ (LazyDelete \/ DeleteBatch \/ WorkerFails)
  BY <1>3 DEF StoreStep, Tick, RedisLost, SelectExpired, UncacheBatch, RebuildFilter, Evict,
              CreatorStep, Insert, StartAdd, EndAdd, WarmCache, linkVars
<1> QED BY <1>1, <1>2, <1>3

\* A link that has had its row has had it for good.
LEMMA RowsHad ==
  ASSUME TypeOK, StoresOK, StoreStep
  PROVE  \A c \in Codes : HasRow(c) => HasRow(c)'
BY ExpiryFixed, RowsStay DEF HasRow

LEMMA StoresStep ==
  ASSUME TypeOK, TypeOK', StoresOK, StoreStep
  PROVE  StoresOK'
<1> USE DEF Created
<1>1. \A c \in Codes :
         /\ create[c] # "none" => /\ expireAt'[c] = expireAt[c]
                                  /\ rowExpireAt'[c] = rowExpireAt[c]
         /\ RowExpired(c) => RowExpired(c)'
  BY ExpiryFixed
<1>2. \A c \in rows : c \in rows' \/ RowExpired(c)
  BY RowsStay
<1>3. /\ rows \subseteq Codes /\ \A c \in rows : create[c] # "none"
      /\ create \in [Codes -> Creating]
  BY DEF TypeOK, StoreTypes
<1>4. \A c \in batch' : RowExpired(c)'
  <2>1. CASE SelectExpired
    BY <2>1 DEF SelectExpired, Expired, ExpiredBy, RowExpired, linkVars, TypeOK, StoreTypes
  <2>2. CASE ~ SelectExpired
    <3>1. batch' \subseteq batch
      BY <2>2 DEF StoreStep, Tick, RedisLost, LazyDelete, UncacheBatch, DeleteBatch,
             WorkerFails, RebuildFilter, Evict, CreatorStep, Insert, StartAdd, EndAdd,
             WarmCache, workerVars
    <3> QED BY <1>1, <3>1 DEF TypeOK, StoreTypes, StoresOK
  <2> QED BY <2>1, <2>2
<1>5. CASE RebuildFilter
  <2>1. UNCHANGED <<linkVars, createVars, workerVars>> /\ Filter!Replace
    BY <1>5 DEF RebuildFilter
  <2>2. ASSUME NEW c \in Codes, create[c] \in {"adding", "warming", "acked"},
               c \in rows, rowExpireAt[c] > clock
        PROVE  c \in filter' \/ c \in excused'
    <3>1. c \in Filter!Promised
      BY <2>2 DEF Filter!Promised, AddStage
    <3>2. (Filter!Promised \intersect {d \in rows : rowExpireAt[d] > clock}) \ excused'
            \subseteq filter'
      BY <2>1 DEF Filter!Replace
    <3> QED BY <2>2, <3>1, <3>2
  <2>3. \A c \in Codes : RowExpired(c) \/ rowExpireAt[c] > clock
    BY DEF RowExpired, TypeOK, StoreTypes
  <2> QED BY <2>1, <2>2, <2>3 DEF StoresOK, linkVars, createVars, workerVars, RowExpired
<1>6. CASE RedisLost
  <2>1. UNCHANGED <<linkVars, createVars, workerVars>> /\ Filter!Lose
    BY <1>6 DEF RedisLost
  <2>2. \A c \in Codes : create[c] \in {"adding", "warming", "acked"} => c \in excused'
    BY <2>1 DEF Filter!Lose, Filter!Promised, AddStage
  <2> QED BY <2>1, <2>2 DEF StoresOK, linkVars, createVars, workerVars, RowExpired
<1>7. ASSUME NEW c \in Codes, Insert(c) PROVE StoresOK'
  <2>1. /\ UNCHANGED <<clock, filter, excused>> /\ create[c] = "none"
        /\ \A d \in Codes \ {c} : create'[d] = create[d]
    BY <1>3, <1>7 DEF Insert, filterVars
  <2>2. CASE Free(c) /\ create'[c] = "inserted" /\ rows' = rows \union {c}
    <3>1. \A r, s \in rows' : Key[r] = Key[s] => r = s
      BY <2>2 DEF Free, RowsOf, StoresOK
    <3> PICK e \in Expiries \union {Never} :
          \E s \in Stored(e) : /\ expireAt' = [expireAt EXCEPT ![c] = e]
                               /\ rowExpireAt' = [rowExpireAt EXCEPT ![c] = s]
      BY <1>3, <1>7, <2>2 DEF Insert
    <3> PICK s \in Stored(e) : /\ expireAt' = [expireAt EXCEPT ![c] = e]
                               /\ rowExpireAt' = [rowExpireAt EXCEPT ![c] = s]
      OBVIOUS
    <3>2. /\ e \in 0..Never /\ s \in 0..Never
          /\ e <= s + Rounding /\ s <= e + Rounding
          /\ e = Never <=> s = Never
      BY DEF Stored, Never
    <3>3. /\ expireAt'[c] = e /\ rowExpireAt'[c] = s
          /\ \A d \in Codes \ {c} : expireAt'[d] = expireAt[d] /\ rowExpireAt'[d] = rowExpireAt[d]
      BY DEF TypeOK, StoreTypes
    <3> QED BY <1>1, <1>2, <1>4, <2>1, <2>2, <3>1, <3>2, <3>3 DEF StoresOK
  <2>3. CASE create'[c] = "failed" /\ UNCHANGED <<expireAt, rowExpireAt, rows>>
    BY <1>1, <1>2, <1>4, <2>1, <2>3 DEF StoresOK
  <2> QED BY <1>3, <1>7, <2>2, <2>3 DEF Insert
<1>8. ASSUME NEW c \in Codes, StartAdd(c) \/ EndAdd(c) \/ WarmCache(c)
      PROVE  StoresOK'
  <2>1. /\ UNCHANGED <<linkVars, excused>> /\ filter \subseteq filter'
        /\ \A d \in Codes \ {c} : create'[d] = create[d]
    BY <1>3, <1>8 DEF StartAdd, EndAdd, WarmCache, filterVars
  <2>2. \/ create[c] = "inserted" /\ create'[c] = "adding" /\ c \in filter'
        \/ create[c] = "adding" /\ create'[c] = "warming"
        \/ create[c] = "warming" /\ create'[c] = "acked"
        \/ create'[c] = "failed" /\ create[c] # "none"
    BY <1>3, <1>8 DEF StartAdd, EndAdd, WarmCache
  <2> QED BY <1>1, <1>4, <2>1, <2>2 DEF StoresOK, linkVars
<1>9. CASE \/ Tick \/ LazyDelete \/ SelectExpired \/ UncacheBatch \/ DeleteBatch
           \/ WorkerFails \/ \E c \in Codes : Evict(c)
  <2>1. UNCHANGED <<create, filter, excused, expireAt, rowExpireAt>> /\ rows' \subseteq rows
    BY <1>9 DEF Tick, LazyDelete, SelectExpired, UncacheBatch, DeleteBatch, WorkerFails,
                Evict, createVars, linkVars, filterVars
  <2> QED BY <1>1, <1>2, <1>3, <1>4, <2>1 DEF StoresOK
<1> QED BY <1>5, <1>6, <1>7, <1>8, <1>9 DEF StoreStep, CreatorStep

\* Nobody but a creator and calls makes a copy: of a link that has had its row.
LEMMA CopiesKept == ASSUME Inv, TypeOK', StoreStep PROVE CopiesOK'
<1>1. /\ \A c \in Codes : HasRow(c) => HasRow(c)' /\ ExpiryOf(c)' = ExpiryOf(c)
      /\ clock' \in {clock, clock + 1} /\ clock \in Nat
  BY RowsHad, ExpiryFixed, StoreLeavesCalls DEF Inv, HasRow, ExpiryOf, TypeOK, StoreTypes
<1>2. local \in [Codes -> Entries] /\ remote \in [Codes -> Entries]
  BY DEF Inv, TypeOK, StoreTypes
<1>3. NoEntry.until = 0 /\ \A c \in Codes : local[c].until \in Nat /\ remote[c].until \in Nat
  BY <1>2 DEF NoEntry, Entries
<1>4. ASSUME NEW c \in Codes, local'[c] \in {local[c], NoEntry}, remote'[c] \in {remote[c], NoEntry}
      PROVE  \A cache \in {local', remote'} :
               cache[c].until > clock' => HasRow(c)' /\ cache[c].expireAt \in ExpiryOf(c)'
  <2>1. SUFFICES ASSUME NEW old \in {local, remote}, NEW entry \in {old[c], NoEntry},
                        entry.until > clock'
                 PROVE  HasRow(c)' /\ entry.expireAt \in ExpiryOf(c)'
    BY <1>4
  <2>2. entry = old[c] /\ Hit(old, c)
    BY <1>1, <1>3, <2>1 DEF Hit
  <2> QED BY <1>1, <2>2 DEF Inv, CopiesOK
<1>5. CASE ~ \E c \in Codes : WarmCache(c)
  <2>1. \A c \in Codes : local'[c] \in {local[c], NoEntry} /\ remote'[c] \in {remote[c], NoEntry}
    <3>1. CASE Tick
      BY <3>1 DEF Tick, Aged
    <3>2. CASE UncacheBatch \/ WorkerFails \/ RedisLost
      BY <1>2, <3>2, Deletes DEF UncacheBatch, WorkerFails, RedisLost
    <3>3. ASSUME NEW d \in Codes, Evict(d)
          PROVE  \A c \in Codes : /\ local'[c] \in {local[c], NoEntry}
                                  /\ remote'[c] \in {remote[c], NoEntry}
      BY <1>2, <3>3, Deletes DEF Evict
    <3>4. CASE ~ (Tick \/ UncacheBatch \/ WorkerFails \/ RedisLost \/ \E d \in Codes : Evict(d))
      BY <1>5, <3>4 DEF StoreStep, LazyDelete, SelectExpired, DeleteBatch, RebuildFilter,
                        CreatorStep, Insert, StartAdd, EndAdd, cacheVars
    <3> QED BY <3>1, <3>2, <3>3, <3>4
  <2> QED BY <1>4, <2>1 DEF CopiesOK, Hit
<1>6. ASSUME NEW d \in Codes, WarmCache(d) PROVE CopiesOK'
  <2> DEFINE it == [code |-> d, expireAt |-> expireAt[d]]
  <2>1. it \in [code : Codes, expireAt : 0..Never] /\ warmTTL[d] \in 0..CacheTTL
    BY DEF Inv, TypeOK, StoreTypes
  <2>2. HasRow(d) /\ expireAt[d] \in ExpiryOf(d)
    BY <1>6 DEF WarmCache, Inv, StoresOK, HasRow, ExpiryOf
  <2>3. local' = local /\ remote' \in {remote, Entered(remote, it, warmTTL[d])} /\ clock' = clock
    BY <1>6 DEF WarmCache, linkVars
  <2>4. /\ \A c \in Codes \ {d} : remote'[c] = remote[c]
        /\ remote'[d] # remote[d] => remote'[d].expireAt = expireAt[d]
    BY <1>2, <2>3 DEF Entered
  <2>5. ASSUME NEW c \in Codes, remote'[c] = remote[c]
        PROVE  \A cache \in {local', remote'} :
                 cache[c].until > clock' => HasRow(c)' /\ cache[c].expireAt \in ExpiryOf(c)'
    BY <1>4, <2>3, <2>5
  <2>6. CASE remote'[d] = remote[d]
    BY <2>4, <2>5, <2>6 DEF CopiesOK, Hit
  <2>7. CASE remote'[d] # remote[d]
    <3>1. \A cache \in {local', remote'} :
            cache[d].until > clock' => HasRow(d)' /\ cache[d].expireAt \in ExpiryOf(d)'
      BY <1>1, <2>2, <2>3, <2>4, <2>7 DEF Inv, CopiesOK, Hit
    <3> QED BY <2>4, <2>5, <3>1 DEF CopiesOK, Hit
  <2> QED BY <2>6, <2>7
<1> QED BY <1>5, <1>6

\* Every copy is made of another copy or of a row.
LEMMA CopiesSpread ==
  ASSUME Inv, NEW q \in Calls, Start(q) \/ ResolveStep(q)
  PROVE  CopiesOK'
<1>1. UNCHANGED storeVars
  BY CallsLeaveStores
<1>2. clock' = clock /\ \A c \in Codes : HasRow(c)' = HasRow(c) /\ ExpiryOf(c)' = ExpiryOf(c)
  BY <1>1 DEF storeVars, linkVars, createVars, HasRow, ExpiryOf, RowExpired
<1>3. /\ local \in [Codes -> Entries] /\ remote \in [Codes -> Entries]
      /\ want[q] \in Codes /\ item[q].code \in Codes /\ clock \in Nat
  BY DEF Inv, TypeOK, StoreTypes, CallTypes
<1>4. CASE SetLocal(q) \/ SetRemote(q)
  <2>1. HasRow(item[q].code) /\ item[q].expireAt \in ExpiryOf(item[q].code)
    BY <1>4 DEF Inv, SetLocal, SetRemote, LocalsOK, Filling, AnswersOK, AnswerOK, ItemOK
  <2>2. /\ local' \in {local, Entered(local, item[q], hold[q])}
        /\ remote' \in {remote, Entered(remote, item[q], hold[q])}
    BY <1>4 DEF SetLocal, SetRemote
  <2>3. \A c \in Codes :
           /\ \/ local'[c] = local[c]
              \/ c = item[q].code /\ local'[c].expireAt = item[q].expireAt
           /\ \/ remote'[c] = remote[c]
              \/ c = item[q].code /\ remote'[c].expireAt = item[q].expireAt
    BY <1>3, <2>2 DEF Entered
  <2> QED BY <1>2, <2>1, <2>3 DEF Inv, CopiesOK, Hit
<1>5. CASE ~ (SetLocal(q) \/ SetRemote(q))
  <2>1. /\ local' \in {local, Without(local, {want[q]})}
        /\ remote' \in {remote, Without(remote, {want[q]})}
    BY <1>5 DEF Start, ResolveStep, LoadStep, CheckFilter, ReadLocal, DeleteRemote, Join,
                ReadRemote, FindActive, DropExpired, Finish, Found, cacheVars
  <2>2. \A c \in Codes : local'[c] \in {local[c], NoEntry} /\ remote'[c] \in {remote[c], NoEntry}
    BY <1>3, <2>1, Deletes
  <2> QED BY <1>2, <1>3, <2>2 DEF Inv, CopiesOK, Hit, NoEntry
<1> QED BY <1>4, <1>5

-----------------------------------------------------------------------------
(* Answers                                                                 *)

\* What has been found out stays true.
LEMMA AnswersKept == ASSUME Inv, StoreStep PROVE AnswersOK'
<1>1. UNCHANGED callVars
  BY StoreLeavesCalls
<1>2. \A c \in Codes : /\ HasRow(c) => HasRow(c)' /\ ExpiryOf(c)' = ExpiryOf(c)
                       /\ RowExpired(c) => RowExpired(c)'
  BY RowsHad, ExpiryFixed DEF Inv, HasRow, ExpiryOf
<1>3. \A c \in Codes : create[c] = "acked" => create'[c] = "acked"
  <2>1. ASSUME NEW d \in Codes, CreatorStep(d)
        PROVE  create[d] # "acked" /\ \A c \in Codes \ {d} : create'[c] = create[c]
    BY <2>1 DEF Inv, TypeOK, StoreTypes, CreatorStep, Insert, StartAdd, EndAdd, WarmCache, Created
  <2>2. CASE ~ \E c \in Codes : CreatorStep(c)
    BY <2>2 DEF StoreStep, Tick, RedisLost, LazyDelete, SelectExpired, UncacheBatch,
                DeleteBatch, WorkerFails, RebuildFilter, Evict, createVars
  <2> QED BY <2>1, <2>2
<1>4. ASSUME NEW q \in Calls PROVE AnswerOK(q)'
  <2>1. AnswerOK(q) /\ want[q] \in Codes /\ item[q].code \in Codes
    BY DEF Inv, AnswersOK, TypeOK, CallTypes
  <2> QED BY <1>1, <1>2, <1>3, <2>1 DEF AnswerOK, ItemOK, callVars, askVars, loadVars
<1> QED BY <1>4 DEF AnswersOK

\* A call whose answer and loader are as before.
LEMMA SameAnswer ==
  ASSUME AnswersOK, UNCHANGED storeVars, want' = want, NEW w \in Calls,
         result'[w] = result[w], item'[w] = item[w], leader'[w] = leader[w],
         known'[w] = known[w], missed'[w] = missed[w],
         known'[leader[w]] = known[leader[w]], begun'[leader[w]] = begun[leader[w]]
  PROVE  AnswerOK(w)'
<1>1. UNCHANGED <<clock, expireAt, rowExpireAt, rows, create>>
  BY DEF storeVars, linkVars, createVars
<1>2. \A c \in Codes : HasRow(c)' = HasRow(c) /\ ExpiryOf(c)' = ExpiryOf(c)
                       /\ RowExpired(c)' = RowExpired(c)
  BY <1>1 DEF HasRow, ExpiryOf, RowExpired
<1>3. AnswerOK(w)
  BY DEF AnswersOK
<1> QED BY <1>1, <1>3 DEF AnswerOK, ItemOK, HasRow, ExpiryOf, RowExpired

\* What the stores say of a link that was acknowledged.
LEMMA Acknowledged ==
  ASSUME Inv, NEW q \in Calls, known[q]
  PROVE  /\ want[q] \in rows \/ RowExpired(want[q])
         /\ want[q] \in filter \/ want[q] \in excused \/ RowExpired(want[q])
<1>1. want[q] \in Codes /\ create[want[q]] = "acked"
  BY DEF Inv, TypeOK, CallTypes, AnswersOK, AnswerOK
<1> QED BY <1>1 DEF Inv, StoresOK

\* A link read from a cache or from its table is one to answer with.
LEMMA FoundInCache ==
  ASSUME Inv, NEW q \in Calls, NEW cache \in {local, remote}, Usable(cache, want[q])
  PROVE  LET it == Copy(cache, want[q]) IN
         /\ it.code = want[q] /\ HasRow(want[q]) /\ it.expireAt \in ExpiryOf(want[q])
         /\ it.expireAt > begun[q]
<1>1. want[q] \in Codes /\ begun[q] \in 0..clock /\ clock \in Nat
      /\ cache \in [Codes -> Entries]
  BY DEF Inv, TypeOK, StoreTypes, CallTypes
<1>2. cache[want[q]].expireAt \in Nat
  BY <1>1 DEF Entries, Never
<1> QED BY <1>1, <1>2 DEF Inv, CopiesOK, Usable, IsExpired, Copy

LEMMA FoundInTable ==
  ASSUME Inv, NEW q \in Calls, NEW r \in RowsOf(want[q])
  PROVE  /\ r \in Codes /\ HasRow(r) /\ Key[r] = Key[want[q]]
         /\ rowExpireAt[r] \in Nat
         /\ ~ IsExpired(rowExpireAt[r]) => rowExpireAt[r] > begun[q]
         /\ known[q] => r = want[q] \/ RowExpired(want[q])
<1>1. /\ want[q] \in Codes /\ begun[q] \in 0..clock /\ clock \in Nat
      /\ r \in rows /\ r \in Codes /\ create[r] # "none" /\ rowExpireAt[r] \in Nat
      /\ Key[r] = Key[want[q]]
  BY DEF Inv, TypeOK, StoreTypes, CallTypes, RowsOf, Never
<1> QED BY <1>1, Acknowledged DEF Inv, StoresOK, HasRow, IsExpired

\* What a load finds out is right for the call that loads and for those waiting.
LEMMA AnswersFound ==
  ASSUME Inv, NEW q \in Calls, Start(q) \/ ResolveStep(q)
  PROVE  AnswersOK'
<1> USE DEF Go, Return, askVars
<1>1. UNCHANGED storeVars /\ want' = want
  BY CallsLeaveStores, CallMoves DEF Inv
<1>2. UNCHANGED <<clock, expireAt, rowExpireAt, rows, filter, excused, create>>
  BY <1>1 DEF storeVars, linkVars, filterVars, createVars
<1>3. /\ call \in [Calls -> Resolving] /\ leader \in [Calls -> Calls]
      /\ begun \in [Calls -> 0..clock] /\ known \in [Calls -> BOOLEAN]
      /\ missed \in [Calls -> BOOLEAN] /\ result \in [Calls -> Results]
      /\ item \in [Calls -> [code : Codes, expireAt : 0..Never]]
      /\ want[q] \in Codes
  BY DEF Inv, TypeOK, CallTypes
<1>4. CASE Start(q)
  <2>1. ASSUME NEW w \in Calls, call[w] # "idle" PROVE AnswerOK(w)'
    <3>1. w # q /\ leader[w] # q
      BY <1>4, <2>1 DEF Start, Inv, LoadsOK
    <3>2. /\ UNCHANGED <<result, item, leader, missed>>
          /\ known'[w] = known[w]
          /\ known'[leader[w]] = known[leader[w]] /\ begun'[leader[w]] = begun[leader[w]]
      BY <1>3, <1>4, <3>1 DEF Start, loadVars
    <3> QED BY <1>1, <3>2, SameAnswer DEF Inv
  <2>2. ASSUME NEW w \in Calls, call[w] = "idle" PROVE AnswerOK(w)'
    <3>1. result'[w] = "none"
      BY <1>4, <2>2 DEF Start, Inv, LocalsOK, Asking, Entering
    <3>2. known'[w] => create[want[w]] = "acked"
      BY <1>3, <1>4 DEF Start, Inv, AnswersOK, AnswerOK
    <3> QED BY <1>1, <1>2, <3>1, <3>2 DEF AnswerOK
  <2> QED BY <2>1, <2>2 DEF AnswersOK
<1>5. CASE Join(q)
  <2>1. /\ UNCHANGED <<result, item, missed, known, begun>>
        /\ \A w \in Calls \ {q} : leader'[w] = leader[w]
    BY <1>3, <1>5 DEF Join, loadVars
  <2>2. ASSUME NEW w \in Calls \ {q} PROVE AnswerOK(w)'
    BY <1>1, <2>1, SameAnswer DEF Inv
  <2>3. AnswerOK(q)'
    <3>1. result'[q] = "none" /\ (known[q] => create[want[q]] = "acked")
      BY <1>5, <2>1 DEF Join, Inv, LocalsOK, Asking, Entering, AnswersOK, AnswerOK
    <3> QED BY <1>1, <1>2, <2>1, <3>1 DEF AnswerOK
  <2> QED BY <2>2, <2>3 DEF AnswersOK
<1>6. CASE Finish(q)
  <2>1. /\ UNCHANGED <<missed, known, begun, leader>> /\ call[q] = "finish"
        /\ \A w \in Calls : /\ result'[w] = IF w \in Served(q) THEN result[q] ELSE result[w]
                            /\ item'[w] = IF w \in Served(q) THEN item[q] ELSE item[w]
    BY <1>6 DEF Finish
  <2>2. ASSUME NEW w \in Calls, w \notin Served(q) PROVE AnswerOK(w)'
    BY <1>1, <2>1, <2>2, SameAnswer DEF Inv
  <2>3. ASSUME NEW w \in Served(q) PROVE AnswerOK(w)'
    <3>1. /\ w \in Calls /\ leader[w] = q /\ leader[q] = q /\ want[w] = want[q]
          /\ ~ missed[q]
      BY <2>1, <2>3 DEF Served, Inv, LoadsOK, Loading, LocalsOK
    <3>2. AnswerOK(q) /\ (known[w] => create[want[w]] = "acked")
      BY <3>1 DEF Inv, AnswersOK, AnswerOK
    <3>3. \A c \in Codes : HasRow(c)' = HasRow(c) /\ ExpiryOf(c)' = ExpiryOf(c)
                           /\ RowExpired(c)' = RowExpired(c)
      BY <1>2 DEF HasRow, ExpiryOf, RowExpired
    <3>4. /\ result'[w] = result[q] /\ item'[w] = item[q] /\ item[q].code \in Codes
          /\ want' = want /\ create' = create
      BY <1>1, <1>2, <1>3, <2>1, <2>3, <3>1
    <3> QED BY <1>3, <2>1, <3>1, <3>2, <3>3, <3>4 DEF AnswerOK, ItemOK
  <2> QED BY <2>2, <2>3 DEF AnswersOK
<1>7. ASSUME UNCHANGED <<begun, known, leader>>,
             \A w \in Calls \ {q} : /\ result'[w] = result[w] /\ item'[w] = item[w]
                                    /\ missed'[w] = missed[w],
             AnswerOK(q)'
      PROVE  AnswersOK'
  <2>1. ASSUME NEW w \in Calls \ {q} PROVE AnswerOK(w)'
    BY <1>1, <1>7, SameAnswer DEF Inv
  <2> QED BY <1>7, <2>1 DEF AnswersOK
<1>8. CASE ~ (Start(q) \/ Join(q) \/ Finish(q))
  <2>1. UNCHANGED <<begun, known, leader>>
    BY <1>8 DEF ResolveStep, LoadStep, CheckFilter, ReadLocal, DeleteRemote, ReadRemote,
                FindActive, SetLocal, SetRemote, DropExpired
  <2>2. /\ \A w \in Calls \ {q} : result'[w] = result[w] /\ item'[w] = item[w]
                                  /\ missed'[w] = missed[w]
        /\ \/ UNCHANGED <<result, item, missed>>
           \/ CheckFilter(q) \/ ReadLocal(q) \/ ReadRemote(q) \/ FindActive(q)
    BY <1>3, <1>8 DEF ResolveStep, LoadStep, CheckFilter, ReadLocal, DeleteRemote, ReadRemote,
                FindActive, Found, SetLocal, SetRemote, DropExpired, loadVars
  <2>3. SUFFICES AnswerOK(q)'
    BY <1>7, <2>1, <2>2
  <2>4. CASE UNCHANGED <<result, item, missed>>
    BY <1>1, <2>1, <2>4, SameAnswer DEF Inv
  <2>5. AnswerOK(q)
    BY DEF Inv, AnswersOK
  <2>6. CASE CheckFilter(q)
    <3>1. result'[q] = "notFound" /\ leader[q] = q
      BY <1>3, <2>6 DEF CheckFilter, Inv, LoadsOK, Entering
    <3>2. missed'[q] <=> want[q] \in excused
      BY <1>3, <2>6, Zenon DEF CheckFilter
    <3>3. known[q] => want[q] \in excused \/ RowExpired(want[q])
      BY <2>6, Acknowledged DEF CheckFilter
    <3> QED BY <1>1, <1>2, <2>1, <2>5, <3>1, <3>2, <3>3 DEF AnswerOK, RowExpired
  <2>7. ASSUME leader[q] = q, result'[q] = "link", NEW it, item'[q] = it, it.code \in Codes,
               HasRow(it.code), it.expireAt \in ExpiryOf(it.code), Key[it.code] = Key[want[q]],
               it.expireAt > begun[q], known[q] => it.code = want[q] \/ RowExpired(want[q])
        PROVE  AnswerOK(q)'
    BY <1>1, <1>2, <2>1, <2>5, <2>7 DEF AnswerOK, ItemOK, HasRow, ExpiryOf, RowExpired
  <2>8. CASE ReadLocal(q) \/ ReadRemote(q)
    <3>1. leader[q] = q /\ call[q] \in Asking
      BY <2>8 DEF ReadLocal, ReadRemote, Inv, LoadsOK, Entering, Loading, Asking
    <3>2. CASE \E cache \in {local, remote} :
                 /\ Usable(cache, want[q])
                 /\ result'[q] = "link" /\ item'[q] = Copy(cache, want[q])
      BY <1>3, <2>7, <3>1, <3>2, FoundInCache
    <3>3. CASE result' = result
      BY <1>1, <1>2, <2>1, <3>1, <3>3, <2>5 DEF Inv, LocalsOK, AnswerOK
    <3>4. \/ \E cache \in {local, remote} :
                 /\ Usable(cache, want[q])
                 /\ result'[q] = "link" /\ item'[q] = Copy(cache, want[q])
          \/ result' = result
      BY <1>3, <2>8 DEF ReadLocal, ReadRemote, Found, loadVars
    <3> QED BY <3>2, <3>3, <3>4
  <2>9. CASE FindActive(q)
    <3>1. leader[q] = q
      BY <2>9 DEF FindActive, Inv, LoadsOK, Loading
    <3>2. ASSUME NEW r \in RowsOf(want[q]), ~ IsExpired(rowExpireAt[r]),
                 Found(q, [code |-> r, expireAt |-> rowExpireAt[r]], "db")
          PROVE  AnswerOK(q)'
      <4>1. result'[q] = "link" /\ item'[q] = [code |-> r, expireAt |-> rowExpireAt[r]]
        BY <1>3, <3>2 DEF Found
      <4> QED BY <2>7, <3>1, <3>2, <4>1, FoundInTable DEF ExpiryOf
    <3>3. ASSUME NEW r \in RowsOf(want[q]), IsExpired(rowExpireAt[r]), result'[q] = "expired"
          PROVE  AnswerOK(q)'
      <4>1. /\ r \in Codes /\ HasRow(r) /\ Key[r] = Key[want[q]] /\ RowExpired(r)
            /\ known[q] => RowExpired(want[q])
        BY <3>3, FoundInTable DEF IsExpired, RowExpired
      <4> QED BY <1>1, <1>2, <2>1, <2>5, <3>1, <3>3, <4>1 DEF AnswerOK, HasRow, RowExpired
    <3>4. CASE RowsOf(want[q]) = {} /\ result'[q] = "notFound"
      <4>1. known[q] => RowExpired(want[q])
        BY <3>4, Acknowledged DEF RowsOf
      <4> QED BY <1>1, <1>2, <2>1, <2>5, <3>1, <3>4, <4>1 DEF AnswerOK, RowExpired
    <3>5. CASE result'[q] = "error"
      BY <1>1, <1>2, <2>1, <2>5, <3>5 DEF AnswerOK
    <3> QED BY <1>3, <2>9, <3>2, <3>3, <3>4, <3>5 DEF FindActive
  <2> QED BY <2>2, <2>4, <2>6, <2>8, <2>9
<1> QED BY <1>4, <1>5, <1>6, <1>8

-----------------------------------------------------------------------------
(* The theorems                                                            *)

LEMMA InitInv == Init => Inv
<1> SUFFICES ASSUME Init PROVE Inv
  OBVIOUS
<1>1. LoadsOK
  BY DEF Init, LoadsOK, Entering, Loading
<1>2. LocalsOK
  BY DEF Init, LocalsOK, Asking, Entering, Filling
<1>3. StoresOK /\ CopiesOK
  BY DEF Init, StoresOK, CopiesOK, Hit, NoEntry, Never
<1>4. AnswersOK
  BY DEF Init, AnswersOK, AnswerOK
<1> QED BY InitType, <1>1, <1>2, <1>3, <1>4 DEF Inv

LEMMA NextInv == Inv /\ [Next]_vars => Inv'
<1> SUFFICES ASSUME Inv, [Next]_vars PROVE Inv'
  OBVIOUS
<1>1. CASE StoreStep
  <2>1. TypeOK'
    BY <1>1, StoreType DEF Inv
  <2>2. LoadsOK' /\ LocalsOK'
    <3>1. UNCHANGED <<callVars, flight>> /\ clock' \in {clock, clock + 1} /\ clock \in Nat
      BY <1>1, StoreLeavesCalls DEF Inv, TypeOK, StoreTypes
    <3>2. UNCHANGED <<call, want, leader, flight, result, hold, missed>>
      BY <3>1 DEF callVars, askVars, loadVars
    <3>3. hold \in [Calls -> 0..(MaxTime + CacheTTL)]
      BY DEF Inv, TypeOK, CallTypes
    <3> QED BY <3>1, <3>2, <3>3 DEF Inv, LoadsOK, LocalsOK
  <2> QED BY <1>1, <2>1, <2>2, StoresStep, CopiesKept, AnswersKept DEF Inv
<1>2. ASSUME NEW q \in Calls, Start(q) \/ ResolveStep(q) PROVE Inv'
  <2>1. StoresOK'
    <3>1. UNCHANGED <<clock, expireAt, rowExpireAt, rows, filter, excused, create, batch>>
      BY <1>2, CallsLeaveStores DEF storeVars, linkVars, filterVars, createVars, workerVars
    <3> QED BY <3>1 DEF Inv, StoresOK, RowExpired
  <2> QED BY <1>2, <2>1, CallType, LoadsStep, LocalsStep, CopiesSpread, AnswersFound DEF Inv
<1>3. CASE UNCHANGED vars
  <2> USE <1>3 DEF vars, linkVars, filterVars, cacheVars, callVars, askVars, loadVars, workerVars,
                   createVars, HasRow, ExpiryOf, RowExpired, Inv
  <2>1. TypeOK'
    BY DEF TypeOK, StoreTypes, CallTypes, QueueType
  <2>2. LoadsOK' /\ LocalsOK'
    BY DEF LoadsOK, LocalsOK
  <2>3. AnswersOK'
    BY DEF AnswersOK, AnswerOK, ItemOK
  <2>4. StoresOK' /\ CopiesOK'
    BY DEF StoresOK, CopiesOK, Hit
  <2> QED BY <2>1, <2>2, <2>3, <2>4
<1> QED BY <1>1, <1>2, <1>3 DEF Next, StoreStep

LEMMA Invariance == Spec => []Inv
BY InitInv, NextInv, PTL DEF Spec

\* Every variable of the service, of its stores and of the two deleters keeps its
\* type; no code's queue entry is from the future (Enqueue, handleExpiredCode).
THEOREM TypeCorrect == Spec => []TypeOK
<1>1. Inv => TypeOK
  BY DEF Inv
<1> QED BY <1>1, Invariance, PTL

\* Resolve redirects to no link that had expired when the load that served it
\* began, whatever lifetimes the caches have given their copies (getCache,
\* FindActiveByCode, loadGroup.Do).
THEOREM NoneStale == Spec => []NoStaleRedirect
<1>1. Inv => NoStaleRedirect
  BY DEF Inv, AnswersOK, AnswerOK, ItemOK, ExpiryOf, NoStaleRedirect
<1> QED BY <1>1, Invariance, PTL

\* Resolve reports a link missing or expired, when its creation was acknowledged before
\* the load began, only if its row has expired or the filter rejects it after a
\* rebuild that its Add straddled, or a loss of Redis (CreateShortLink, Resolve,
\* addToKeys).
THEOREM AcknowledgedResolve == Spec => []AckedResolves
<1>1. Inv => AckedResolves
  BY DEF Inv, AnswersOK, AnswerOK, AckedResolves, RowExpired
<1> QED BY <1>1, Invariance, PTL

\* No row is deleted under a copy that could still be served, but for the fraction by
\* which the row's expiry was rounded down (DeleteExpired, DeleteExpiredCode,
\* CreateShortLink).
THEOREM RowsUnderCopies == Spec => []CopiesHaveRows
<1>1. ASSUME Inv, NEW c \in Codes, LiveCopy(c), c \notin rows
      PROVE  rowExpireAt[c] <= clock /\ clock < rowExpireAt[c] + Rounding
  <2>1. HasRow(c) /\ \E e \in ExpiryOf(c) : e > clock
    BY <1>1 DEF Inv, CopiesOK, AnswersOK, AnswerOK, ItemOK, LiveCopy
  <2>2. /\ expireAt[c] \in Nat /\ rowExpireAt[c] \in Nat /\ clock \in Nat
        /\ expireAt[c] <= rowExpireAt[c] + Rounding
    <3>1. expireAt[c] \in Nat /\ rowExpireAt[c] \in Nat /\ clock \in Nat
      BY <1>1 DEF Never, Inv, TypeOK, StoreTypes
    <3> QED BY <1>1, <3>1 DEF Inv, StoresOK
  <2> QED BY <1>1, <2>1, <2>2 DEF HasRow, ExpiryOf, RowExpired
<1>2. Inv => CopiesHaveRows
  BY <1>1 DEF Inv, CopiesHaveRows
<1> QED BY <1>2, Invariance, PTL

\* The worker deletes by ids it chose earlier and the lazy cleaner by a time that was
\* read earlier, and still every row they take has expired when it goes
\* (DeleteExpired, DeleteExpiredCode).
THEOREM OnlyExpiredDeleted ==
  Spec => [][\A c \in rows : c \in rows' \/ rowExpireAt[c] <= clock]_vars
<1>1. Inv /\ [Next]_vars => [\A c \in rows : c \in rows' \/ rowExpireAt[c] <= clock]_vars
  <2> SUFFICES ASSUME Inv, Next
               PROVE  \A c \in rows : c \in rows' \/ rowExpireAt[c] <= clock
    OBVIOUS
  <2>1. CASE StoreStep
    BY <2>1, RowsStay DEF Inv, RowExpired
  <2>2. ASSUME NEW q \in Calls, Start(q) \/ ResolveStep(q) PROVE rows' = rows
    BY <2>2, CallsLeaveStores DEF storeVars, linkVars
  <2> QED BY <2>1, <2>2 DEF Next, StoreStep
<1> QED BY <1>1, Invariance, PTL DEF Spec

-----------------------------------------------------------------------------
(* The directory that callers see                                          *)

\* Calls that return together with the one that leads them are answered.
LEMMA ReturnAnswers ==
  ASSUME Inv, Inv', NEW q \in Calls, NEW together \in SUBSET Calls, q \in together,
         leader'[q] = q, result'[q] \in Results \ {"none"},
         missed'[q] => result'[q] = "notFound" /\ want[q] \in excused,
         \A w \in together : call[w] \notin {"idle", "done"} /\ want[w] = want[q],
         call' = [w \in Calls |-> IF w \in together THEN "done" ELSE call[w]],
         \A w \in Calls : result'[w] = IF w \in together THEN result'[q] ELSE result[w],
         \A w \in Calls : item'[w] = IF w \in together THEN item'[q] ELSE item[w],
         UNCHANGED <<clock, expireAt, rowExpireAt, create, excused, want, begun, known>>
  PROVE  Directory!Answer(q, result'[q], Target'[q])
<1> PICK a \in Results \ {"none"} : a = result'[q]
  OBVIOUS
<1> PICK r : r = Target'[q]
  OBVIOUS
<1> PICK e : e = item'[q].expireAt
  OBVIOUS
<1>1. /\ r = IF a = "link" THEN item'[q].code ELSE want[q]
      /\ want[q] \in Codes
  BY DEF Target, Answer, Inv, TypeOK, CallTypes
<1>2. \A c \in Codes : Stage[c] # "none" <=> create[c] # "none"
  BY DEF Stage
<1>3. /\ a = "link" => /\ r \in Codes /\ create[r] # "none" /\ Key[r] = Key[want[q]]
                       /\ e \in ExpiryOf(r) /\ e > begun[q]
                       /\ known[q] => r = want[q] \/ RowExpired(want[q])
      /\ a = "expired" => \E s \in Codes : /\ Key[s] = Key[want[q]] /\ create[s] # "none"
                                           /\ RowExpired(s)
      /\ a \in {"expired", "notFound"} /\ known[q]
           => RowExpired(want[q]) \/ (a = "notFound" /\ want[q] \in excused)
  <2>1. AnswerOK(q)' /\ item'[q].code \in Codes
    BY DEF Inv, AnswersOK, TypeOK, CallTypes
  <2>2. UNCHANGED <<clock, expireAt, rowExpireAt, create, want, begun, known>> /\ leader'[q] = q
    OBVIOUS
  <2> USE DEF HasRow, RowExpired, ExpiryOf
  <2>3. CASE a = "link"
    BY <1>1, <2>1, <2>2, <2>3 DEF AnswerOK, ItemOK
  <2>4. CASE a = "expired"
    <3>1. \E s \in Codes : /\ Key[s] = Key[want[q]] /\ create[s] # "none" /\ RowExpired(s)
      BY <2>1, <2>2, <2>4 DEF AnswerOK
    <3>2. known[q] => RowExpired(want[q]) \/ missed'[q]
      BY <2>1, <2>2, <2>4 DEF AnswerOK
    <3>3. ~ missed'[q]
      BY <2>4
    <3> QED BY <2>4, <3>1, <3>2, <3>3
  <2>5. CASE a = "notFound"
    <3>1. known[q] => RowExpired(want[q]) \/ missed'[q]
      BY <2>1, <2>2, <2>5 DEF AnswerOK
    <3> QED BY <2>5, <3>1
  <2> QED BY <2>3, <2>4, <2>5
<1>4. Directory!Right(q, a, r)
  BY <1>1, <1>2, <1>3 DEF Directory!Right, Directory!Alike, Directory!Gone, Results, RowExpired,
                         ExpiryOf
<1>5. \A w \in together : Phase[w] = "asking" /\ want[w] = want[q]
  BY DEF Phase
<1>6. Phase' = [w \in Calls |-> IF w \in together THEN "answered" ELSE Phase[w]]
  BY DEF Phase
<1>7. Answer' = [w \in Calls |-> IF w \in together THEN a ELSE Answer[w]]
  BY DEF Answer
<1>8. Target' = [w \in Calls |-> IF w \in together THEN r ELSE Target[w]]
  BY <1>1, <1>7 DEF Target, Answer
<1>9. Stage' = Stage
  BY DEF Stage
<1> QED BY <1>4, <1>5, <1>6, <1>7, <1>8, <1>9 DEF Directory!Answer, Directory!linkVars

\* A call that goes on is still asking.
LEMMA GoingOnStutters ==
  ASSUME CallTypes, NEW q \in Calls, call[q] \notin {"idle", "done"},
         NEW to \in Resolving \ {"idle", "done"}, call' = [call EXCEPT ![q] = to],
         \A w \in Calls \ {q} : result'[w] = result[w] /\ item'[w] = item[w],
         UNCHANGED <<clock, expireAt, rowExpireAt, create, excused, want, begun, known>>
  PROVE  UNCHANGED Directory!ldVars
<1>1. Phase' = Phase
  BY DEF Phase, CallTypes
<1>2. Answer' = Answer
  BY DEF Answer, CallTypes
<1>3. Target' = Target
  BY DEF Target, Answer, CallTypes
<1>4. Stage' = Stage
  BY DEF Stage
<1> QED BY <1>1, <1>2, <1>3, <1>4
        DEF Directory!ldVars, Directory!linkVars, Directory!askVars

LEMMA StoreStepsMap ==
  ASSUME Inv, StoreStep
  PROVE  [Directory!Next]_Directory!ldVars
<1> USE DEF Created
<1>1. UNCHANGED <<want, begun, known, Phase, Answer, Target>>
  BY StoreLeavesCalls DEF callVars, askVars, loadVars, Phase, Answer, Target
<1>2. UNCHANGED Directory!askVars
  BY <1>1 DEF Directory!askVars
<1>3. /\ create \in [Codes -> Creating]
      /\ expireAt \in [Codes -> 0..Never] /\ rowExpireAt \in [Codes -> 0..Never]
      /\ \A c \in Codes : create[c] = "none" => expireAt[c] = Never /\ rowExpireAt[c] = Never
  BY DEF Inv, TypeOK, StoreTypes, StoresOK
<1>4. CASE Tick
  <2>1. Stage' = Stage
    BY <1>4 DEF Tick, createVars, Stage
  <2>2. Directory!Tick
    BY <1>2, <1>4, <2>1 DEF Tick, filterVars, Directory!Tick, Directory!linkVars
  <2> QED BY <2>2 DEF Directory!Next
<1>5. ASSUME NEW c \in Codes, Insert(c) PROVE Directory!Next
  <2>1. Stage[c] = "none" /\ Stage' = [Stage EXCEPT ![c] = "made"]
    BY <1>3, <1>5 DEF Insert, Stage
  <2>2. c \in Links /\ UNCHANGED <<clock, excused>>
    BY <1>5 DEF Insert, filterVars
  <2>3. \E e, s \in 0..Never : /\ e = Never <=> s = Never
                               /\ s - Rounding <= e /\ e <= s + Rounding
                               /\ expireAt' = [expireAt EXCEPT ![c] = e]
                               /\ rowExpireAt' = [rowExpireAt EXCEPT ![c] = s]
    <3>1. CASE UNCHANGED <<expireAt, rowExpireAt>>
      <4>1. /\ expireAt' = [expireAt EXCEPT ![c] = Never]
            /\ rowExpireAt' = [rowExpireAt EXCEPT ![c] = Never]
        BY <1>3, <1>5, <3>1 DEF Insert
      <4>2. Never \in 0..Never /\ Never - Rounding <= Never /\ Never <= Never + Rounding
        BY DEF Never
      <4> QED BY <4>1, <4>2
    <3>2. CASE ~ UNCHANGED <<expireAt, rowExpireAt>>
      <4> PICK e \in Expiries \union {Never} :
            \E s \in Stored(e) : /\ expireAt' = [expireAt EXCEPT ![c] = e]
                                 /\ rowExpireAt' = [rowExpireAt EXCEPT ![c] = s]
        BY <1>5, <3>2 DEF Insert
      <4> PICK s \in Stored(e) : /\ expireAt' = [expireAt EXCEPT ![c] = e]
                                 /\ rowExpireAt' = [rowExpireAt EXCEPT ![c] = s]
        OBVIOUS
      <4>1. /\ e \in 0..Never /\ s \in 0..Never
            /\ s - Rounding <= e /\ e <= s + Rounding
            /\ e = Never <=> s = Never
        BY DEF Stored, Never
      <4> QED BY <4>1
    <3> QED BY <3>1, <3>2
  <2>4. Directory!Make(c)
    BY <1>2, <2>1, <2>2, <2>3 DEF Directory!Make, Directory!Never, Never
  <2> QED BY <2>4 DEF Directory!Next
<1>6. ASSUME NEW c \in Codes, WarmCache(c) PROVE Directory!Next
  <2>1. Stage[c] = "made" /\ Stage' = [Stage EXCEPT ![c] = "acked"]
    BY <1>3, <1>6 DEF WarmCache, Stage
  <2>2. Directory!Acknowledge(c)
    BY <1>2, <1>6, <2>1 DEF WarmCache, Directory!Acknowledge, linkVars, filterVars
  <2> QED BY <2>2 DEF Directory!Next
<1>7. CASE RebuildFilter
  <2>1. UNCHANGED <<linkVars, createVars>> /\ Filter!Replace
    BY <1>7 DEF RebuildFilter
  <2>2. Stage' = Stage
    BY <2>1 DEF createVars, Stage
  <2>3. {c \in Codes : AddStage[c] = "adding"} \subseteq {c \in Codes : Stage[c] = "made"}
    BY DEF AddStage, Stage
  <2>4. excused' \subseteq excused \union {c \in Codes : AddStage[c] = "adding"}
    BY <2>1 DEF Filter!Replace
  <2>5. Directory!Reorder
    BY <1>2, <2>1, <2>2, <2>3, <2>4 DEF Directory!Reorder, Directory!linkVars, linkVars
  <2> QED BY <2>5 DEF Directory!Next
<1>8. CASE RedisLost
  <2>1. UNCHANGED <<linkVars, createVars>> /\ Filter!Lose
    BY <1>8 DEF RedisLost
  <2>2. Stage' = Stage
    BY <2>1 DEF createVars, Stage
  <2> DEFINE others == {c \in Codes : create[c] \in {"adding", "warming"}}
  <2>3. Filter!Promised = {c \in Codes : Stage[c] = "acked"} \union others
    BY <1>3 DEF Filter!Promised, AddStage, Stage, Creating
  <2>4. others \in SUBSET {c \in Codes : Stage[c] = "made"}
    BY DEF Stage
  <2>5. excused' = excused \union {c \in Codes : Stage[c] = "acked"} \union others
    BY <2>1, <2>3 DEF Filter!Lose
  <2> HIDE DEF others
  <2>6. Directory!Lose
    BY <1>2, <2>1, <2>2, <2>4, <2>5 DEF Directory!Lose, Directory!linkVars, linkVars
  <2> QED BY <2>6 DEF Directory!Next
<1>9. CASE ~ (Tick \/ RebuildFilter \/ RedisLost \/ \E c \in Codes : Insert(c) \/ WarmCache(c))
  <2>1. UNCHANGED <<clock, expireAt, rowExpireAt, excused>>
    BY <1>9 DEF StoreStep, LazyDelete, SelectExpired, UncacheBatch, DeleteBatch, WorkerFails,
                Evict, CreatorStep, StartAdd, EndAdd, linkVars, filterVars
  <2>2. Stage' = Stage
    <3>1. ASSUME NEW c \in Codes, StartAdd(c) \/ EndAdd(c) PROVE Stage' = Stage
      BY <1>3, <3>1 DEF StartAdd, EndAdd, Stage
    <3>2. CASE ~ \E c \in Codes : StartAdd(c) \/ EndAdd(c)
      BY <1>9, <3>2 DEF StoreStep, LazyDelete, SelectExpired, UncacheBatch, DeleteBatch,
                  WorkerFails, Evict, CreatorStep, createVars, Stage
    <3> QED BY <3>1, <3>2
  <2> QED BY <1>2, <2>1, <2>2 DEF Directory!ldVars, Directory!linkVars
<1> QED BY <1>4, <1>5, <1>6, <1>7, <1>8, <1>9

LEMMA CallStepsMap ==
  ASSUME Inv, Inv', NEW q \in Calls, Start(q) \/ ResolveStep(q)
  PROVE  [Directory!Next]_Directory!ldVars
<1> USE DEF Go, Return, askVars
<1>1. /\ UNCHANGED <<clock, expireAt, rowExpireAt, create, excused>> /\ want' = want
      /\ CallTypes
  BY CallsLeaveStores, CallMoves
     DEF Inv, TypeOK, storeVars, linkVars, createVars, filterVars
<1>2. CASE Start(q)
  <2>1. Phase[q] = "idle" /\ Phase' = [Phase EXCEPT ![q] = "asking"]
    BY <1>1, <1>2 DEF Start, Phase, CallTypes
  <2>2. Answer' = Answer /\ Target' = Target
    BY <1>1, <1>2 DEF Start, Answer, Target, CallTypes, loadVars
  <2>3. Stage' = Stage /\ (Stage[want[q]] = "acked" <=> create[want[q]] = "acked")
    BY <1>1 DEF Stage, CallTypes
  <2>4. Directory!Ask(q)
    BY <1>1, <1>2, <2>1, <2>2, <2>3 DEF Start, Directory!Ask, Directory!linkVars
  <2> QED BY <2>4 DEF Directory!Next
<1>3. ASSUME NEW a \in {"link", "notFound"}, call[q] = "filter", Return(q, a),
             UNCHANGED <<begun, known, leader>>,
             \A w \in Calls \ {q} : item'[w] = item[w],
             missed'[q] => a = "notFound" /\ want[q] \in excused
      PROVE  Directory!Next
  <2>1. leader'[q] = q /\ result'[q] = a /\ a \in Results \ {"none"}
    BY <1>1, <1>3 DEF Inv, LoadsOK, Entering, Results, CallTypes
  <2>2. call' = [w \in Calls |-> IF w \in {q} THEN "done" ELSE call[w]]
    BY <1>1, <1>3 DEF CallTypes
  <2>3. \A w \in Calls : result'[w] = IF w \in {q} THEN result'[q] ELSE result[w]
    BY <1>1, <1>3 DEF CallTypes
  <2>4. \A w \in Calls : item'[w] = IF w \in {q} THEN item'[q] ELSE item[w]
    BY <1>3
  <2>5. Directory!Answer(q, result'[q], Target'[q])
    <3>1. /\ {q} \in SUBSET Calls /\ q \in {q}
          /\ \A w \in {q} : call[w] \notin {"idle", "done"} /\ want[w] = want[q]
      BY <1>3
    <3>2. UNCHANGED <<clock, expireAt, rowExpireAt, create, excused, want, begun, known>>
      BY <1>1, <1>3
    <3>3. /\ result'[q] \in Results \ {"none"}
          /\ missed'[q] => result'[q] = "notFound" /\ want[q] \in excused
      BY <1>3, <2>1
    <3> QED BY <2>1, <2>2, <2>3, <2>4, <3>1, <3>2, <3>3, ReturnAnswers
  <2>6. Target'[q] \in Codes
    BY DEF Inv, TypeOK, CallTypes, Target
  <2> QED BY <2>1, <2>5, <2>6 DEF Directory!Next, Results
<1>4. CASE Finish(q)
  <2>1. /\ \A w \in Served(q) : /\ w \in Calls /\ want[w] = want[q]
                                /\ call[w] \notin {"idle", "done"}
        /\ q \in Served(q)
    BY <1>4 DEF Finish, Served, Inv, LoadsOK
  <2>2. /\ call' = [w \in Calls |-> IF w \in Served(q) THEN "done" ELSE call[w]]
        /\ \A w \in Calls : result'[w] = IF w \in Served(q) THEN result[q] ELSE result[w]
        /\ \A w \in Calls : item'[w] = IF w \in Served(q) THEN item[q] ELSE item[w]
        /\ UNCHANGED <<begun, known, leader, missed>>
    BY <1>4 DEF Finish
  <2>3. /\ leader'[q] = q /\ result'[q] = result[q] /\ result[q] \in Results \ {"none"}
        /\ item'[q] = item[q] /\ ~ missed'[q]
    BY <1>1, <1>4, <2>1, <2>2 DEF Finish, Inv, LoadsOK, Loading, LocalsOK, CallTypes
  <2>4. Directory!Answer(q, result'[q], Target'[q])
    <3>1. Served(q) \in SUBSET Calls /\ q \in Served(q)
      BY <2>1
    <3>2. /\ \A w \in Calls : result'[w] = IF w \in Served(q) THEN result'[q] ELSE result[w]
          /\ \A w \in Calls : item'[w] = IF w \in Served(q) THEN item'[q] ELSE item[w]
      BY <2>2, <2>3
    <3> QED BY <1>1, <2>1, <2>2, <2>3, <3>1, <3>2, ReturnAnswers
  <2>5. Target'[q] \in Codes
    BY DEF Inv, TypeOK, CallTypes, Target
  <2> QED BY <2>3, <2>4, <2>5 DEF Directory!Next, Results
<1>5. CASE CheckFilter(q)
  <2>1. missed'[q] => want[q] \in excused
    BY <1>1, <1>5, Zenon DEF CheckFilter, CallTypes
  <2> QED BY <1>3, <1>5, <2>1 DEF CheckFilter, loadVars
<1>6. CASE ReadLocal(q) /\ Usable(local, want[q])
  <2>1. /\ call[q] = "filter" /\ Return(q, "link") /\ UNCHANGED <<begun, known, leader>>
        /\ \A w \in Calls \ {q} : item'[w] = item[w]
        /\ missed' = missed /\ call[q] # "done"
    BY <1>1, <1>6 DEF ReadLocal, CallTypes, Usable
  <2>2. ~ missed'[q]
    BY <2>1 DEF Inv, LocalsOK
  <2> QED BY <1>3, <2>1, <2>2
<1>7. CASE ~ (Start(q) \/ Finish(q) \/ CheckFilter(q) \/ (ReadLocal(q) /\ Usable(local, want[q])))
  <2>1. UNCHANGED <<begun, known>>
    BY <1>7 DEF ResolveStep, LoadStep, ReadLocal, DeleteRemote, Join, ReadRemote, FindActive,
                SetLocal, SetRemote, DropExpired
  <2>2. \A w \in Calls \ {q} : result'[w] = result[w] /\ item'[w] = item[w]
    BY <1>1, <1>7 DEF ResolveStep, LoadStep, ReadLocal, DeleteRemote, Join, ReadRemote, FindActive,
                Found, SetLocal, SetRemote, DropExpired, loadVars, CallTypes
  <2>3. /\ call[q] \notin {"idle", "done"}
        /\ \E to \in Resolving \ {"idle", "done"} : call' = [call EXCEPT ![q] = to]
    BY <1>7 DEF ResolveStep, LoadStep, ReadLocal, DeleteRemote, Join, ReadRemote, FindActive,
                Found, SetLocal, SetRemote, DropExpired, StartFill, Resolving
  <2> QED BY <1>1, <2>1, <2>2, <2>3, GoingOnStutters
<1> QED BY <1>2, <1>4, <1>5, <1>6, <1>7

\* Creating and resolving, with all that stands behind them, implement the directory
\* of links: each call gets one answer, and one that is right for the call that
\* led its load; a link it misses out of sight was hidden by a filter that lost it
\* (CreateShortLink, Resolve, loadGroup.Do, DeleteExpired, addToKeys).
THEOREM IsDirectory == Spec => ImplementsDirectory
<1>1. Init => Directory!Init
  BY DEF Init, Directory!Init, Directory!Never, Never, Stage, Phase, Answer, Target
<1>2. Inv /\ Inv' /\ [Next]_vars => [Directory!Next]_Directory!ldVars
  <2> SUFFICES ASSUME Inv, Inv', [Next]_vars PROVE [Directory!Next]_Directory!ldVars
    OBVIOUS
  <2>1. CASE UNCHANGED vars
    BY <2>1 DEF vars, linkVars, filterVars, callVars, askVars, loadVars, createVars, Stage, Phase,
                Answer, Target, Directory!ldVars, Directory!linkVars, Directory!askVars
  <2>2. CASE StoreStep
    BY <2>2, StoreStepsMap
  <2>3. ASSUME NEW q \in Calls, Start(q) \/ ResolveStep(q)
        PROVE  [Directory!Next]_Directory!ldVars
    BY <2>3, CallStepsMap
  <2> QED BY <2>1, <2>2, <2>3 DEF Next, StoreStep
<1> QED BY <1>1, <1>2, Invariance, PTL DEF Spec, ImplementsDirectory, Directory!Spec
=============================================================================
