------------------------------ MODULE LoadTest ------------------------------
(***************************************************************************)
(* The load test (cmd/loadtest/main.go): codes are seeded, then one level  *)
(* of concurrency after the other is measured for a fixed time, and the    *)
(* best stable level is reported.                                          *)
(*                                                                         *)
(* The workers of a level send requests until its context is over, by its  *)
(* timer or by a signal, and put what they have counted into a channel;    *)
(* main waits for all of them, then reads the channel.  A request that the *)
(* end of the level cuts off is not counted, unless it is a creation whose *)
(* answer has begun.                                                       *)
(*                                                                         *)
(* Codes are numbered as they enter the pool.  Writes and reads are        *)
(* counted together; latencies and statuses are left out.                  *)
(***************************************************************************)
EXTENDS Naturals, Sequences

CONSTANTS
  Levels,      \* concurrency of each level, a sequence
  SeedCodes,   \* codes to be created first
  MinSuccess,  \* success rate of a stable level, in percent
  MaxRequests, \* bound: requests of a worker in a level
  MaxElapsed   \* bound: how long a level takes, at least 1

ASSUME LoadAssumption ==
  /\ Levels \in Seq(Nat \ {0}) /\ Levels # <<>>
  /\ SeedCodes \in Nat /\ MinSuccess \in 0..100
  /\ MaxRequests \in Nat /\ MaxElapsed \in Nat \ {0}

VARIABLES
  pc,          \* where run is
  seeded,      \* how many creations seed has tried
  pool,        \* how many codes there are
  level,       \* index of the level that is measured
  signalled,   \* the context of run is over
  over,        \* the context of the level is over
  worker,      \* where each worker is
  local,       \* what each worker has counted
  results,     \* the channel
  merged,      \* what runLevel has returned, per level
  best,        \* index of the best level, or 0
  failures,    \* history: requests of this level that failed of themselves
  torn         \* history: creations whose answer the level's end cut short

mainVars == <<pc, seeded, level, merged, best>>
workVars == <<pool, worker, local, results, failures, torn>>
loadVars == <<mainVars, workVars, signalled, over>>

Workers == UNION {1..Levels[i] : i \in DOMAIN Levels}

\* The workers of the current level.
Active == 1..Levels[level]

None == [total |-> 0, success |-> 0]

LoadTypeOK ==
  /\ pc \in {"seed", "level", "wait", "done", "failed"}
  /\ seeded \in 0..SeedCodes /\ pool \in Nat
  /\ level \in 1..(Len(Levels) + 1) /\ level = Len(merged) + 1
  /\ signalled \in BOOLEAN /\ over \in BOOLEAN
  /\ worker \in [Workers -> {"idle", "loop", "create", "read", "body", "send", "finished"}]
  /\ local \in [Workers -> [total : Nat, success : Nat]]
  /\ results \in Seq([total : Nat, success : Nat])
  /\ merged \in Seq([total : Nat, success : Nat, elapsed : 1..MaxElapsed])
  /\ best \in 0..Len(merged)
  /\ failures \in Nat /\ torn \in Nat

LoadInit ==
  /\ pc = "seed" /\ seeded = 0 /\ pool = 0 /\ level = 1
  /\ signalled = FALSE /\ over = FALSE
  /\ worker = [w \in Workers |-> "idle"]
  /\ local = [w \in Workers |-> None]
  /\ results = <<>> /\ merged = <<>> /\ best = 0
  /\ failures = 0 /\ torn = 0

-----------------------------------------------------------------------------
(* run                                                                     *)

\* One creation of seed; it does not look at the context.
Seed ==
  /\ pc = "seed" /\ seeded < SeedCodes
  /\ seeded' = seeded + 1
  /\ pool' \in IF signalled THEN {pool} ELSE {pool, pool + 1}
  /\ UNCHANGED <<pc, level, merged, best, worker, local, results, failures, torn,
                 signalled, over>>

\* Without any code run fails.
SeedEnds ==
  /\ pc = "seed" /\ seeded = SeedCodes
  /\ pc' = IF SeedCodes > 0 /\ pool = 0 THEN "failed" ELSE "level"
  /\ UNCHANGED <<seeded, level, merged, best, workVars, signalled, over>>

\* runLevel: the workers start.
StartLevel ==
  /\ pc = "level"
  /\ pc' = "wait"
  /\ over' = signalled
  /\ worker' = [w \in Workers |-> IF w \in Active THEN "loop" ELSE "idle"]
  /\ local' = [w \in Workers |-> None]
  /\ results' = <<>>
  /\ failures' = 0 /\ torn' = 0
  /\ UNCHANGED <<seeded, level, merged, best, pool, signalled>>

Sum(s) ==
  LET sum[i \in 0..Len(s)] == IF i = 0 THEN 0 ELSE sum[i - 1] + s[i]
  IN  sum[Len(s)]

Merge(rs) == [total   |-> Sum([i \in 1..Len(rs) |-> rs[i].total]),
              success |-> Sum([i \in 1..Len(rs) |-> rs[i].success])]

Stable(r) == r.total > 0 /\ r.success * 100 >= MinSuccess * r.total

\* Wrong on purpose: the time a level took is left out.
HigherTotal(r, s) == r.total > s.total

\* r has more requests in a second than s.
HigherQPS(r, s) == r.total * s.elapsed > s.total * r.elapsed

\* WaitGroup.Wait, the merging of the results, and run's comparison.
EndLevel ==
  /\ pc = "wait"
  /\ \A w \in Active : worker[w] = "finished"
  /\ \E e \in 1..MaxElapsed :
       LET sum == Merge(results)
           r   == [total |-> sum.total, success |-> sum.success, elapsed |-> e]
       IN  /\ merged' = Append(merged, r)
           /\ best' = IF /\ Stable(r)
                         /\ best = 0 \/ HigherQPS(r, merged[best])
                      THEN level ELSE best
  /\ level' = level + 1
  /\ pc' = IF signalled \/ level = Len(Levels) THEN "done" ELSE "level"
  /\ UNCHANGED <<seeded, workVars, signalled, over>>

-----------------------------------------------------------------------------
(* The contexts                                                            *)

Timeout ==
  /\ pc = "wait" /\ ~ over
  /\ over' = TRUE
  /\ UNCHANGED <<mainVars, workVars, signalled>>

Interrupt ==
  /\ pc \notin {"done", "failed"} /\ ~ signalled
  /\ signalled' = TRUE /\ over' = TRUE
  /\ UNCHANGED <<mainVars, workVars>>

-----------------------------------------------------------------------------
(* Workers                                                                 *)

\* A worker sends a request; without codes to read it creates one.
Request(w) ==
  /\ worker[w] = "loop" /\ ~ over
  /\ local[w].total < MaxRequests
  /\ \E op \in {"create"} \union (IF pool > 0 THEN {"read"} ELSE {}) :
       worker' = [worker EXCEPT ![w] = op]
  /\ UNCHANGED <<pool, local, results, failures, torn, mainVars, signalled, over>>

\* The loop is left.
Leave(w) ==
  /\ worker[w] = "loop" /\ over
  /\ worker' = [worker EXCEPT ![w] = "send"]
  /\ UNCHANGED <<pool, local, results, failures, torn, mainVars, signalled, over>>

\* opStats.record, and on with the loop.
Recorded(w, ok) ==
  /\ local' = [local EXCEPT ![w] =
       [total |-> @.total + 1, success |-> IF ok THEN @.success + 1 ELSE @.success]]
  /\ worker' = [worker EXCEPT ![w] = "loop"]

\* A read is answered with a redirection, a creation with 201; the answer's body
\* is read next, and of a read it does not matter.
AnswerComes(w) ==
  /\ \/ worker[w] = "read" /\ Recorded(w, TRUE)
     \/ worker[w] = "create" /\ worker' = [worker EXCEPT ![w] = "body"] /\ UNCHANGED local
  /\ UNCHANGED <<pool, results, failures, torn, mainVars, signalled, over>>

\* Wrong on purpose: a request that the level's end has cut off is a failure.
StoppedNever(status) == FALSE

StoppedByLevelTimeout(status) == status = 0 /\ over

\* No answer (status 0), or another one than expected.
Refused(w) ==
  /\ worker[w] \in {"create", "read"}
  /\ \E status \in {0, 500} :
       IF StoppedByLevelTimeout(status)
       THEN /\ worker' = [worker EXCEPT ![w] = "send"]
            /\ UNCHANGED <<local, failures>>
       ELSE /\ Recorded(w, FALSE)
            /\ failures' = IF status = 0 /\ over THEN failures ELSE failures + 1
  /\ UNCHANGED <<pool, results, torn, mainVars, signalled, over>>

\* The body of a creation's answer is read and has the code.
BodyRead(w) ==
  /\ worker[w] = "body"
  /\ Recorded(w, TRUE)
  /\ pool' = pool + 1
  /\ UNCHANGED <<results, failures, torn, mainVars, signalled, over>>

\* It cannot be read: the status is 201, and the code is missing.
BodyFails(w) ==
  /\ worker[w] = "body"
  /\ Recorded(w, FALSE)
  /\ IF over THEN torn' = torn + 1 /\ UNCHANGED failures
             ELSE failures' = failures + 1 /\ UNCHANGED torn
  /\ UNCHANGED <<pool, results, mainVars, signalled, over>>

\* Wrong on purpose: the channel has no buffer, and main does not read yet.
NoRoom == FALSE

\* The buffer has a place for each worker.
Room == Len(results) < Levels[level]

Deliver(w) ==
  /\ worker[w] = "send"
  /\ Room
  /\ results' = Append(results, local[w])
  /\ worker' = [worker EXCEPT ![w] = "finished"]
  /\ UNCHANGED <<pool, local, failures, torn, mainVars, signalled, over>>

WorkerStep(w) == \/ Leave(w) \/ AnswerComes(w) \/ Refused(w)
                 \/ BodyRead(w) \/ BodyFails(w) \/ Deliver(w)

LoadNext == \/ Seed \/ SeedEnds \/ StartLevel \/ EndLevel \/ Timeout \/ Interrupt
            \/ \E w \in Workers : \/ Request(w) \/ Leave(w) \/ AnswerComes(w) \/ Refused(w)
                                  \/ BodyRead(w) \/ BodyFails(w) \/ Deliver(w)

LoadSpec == LoadInit /\ [][LoadNext]_loadVars

\* The timer fires, goroutines run, and every request has a timeout.
LoadFairness == /\ WF_loadVars(Timeout) /\ WF_loadVars(EndLevel)
                /\ \A w \in Workers : WF_loadVars(WorkerStep(w))

LoadFairSpec == LoadSpec /\ LoadFairness

-----------------------------------------------------------------------------
(* Properties                                                              *)

\* runLevel returns: no worker waits for main, which waits for all workers.
LevelEnds == pc = "wait" ~> pc # "wait"

\* What a level reports is what its workers have counted, each of them once; its
\* failures are requests that failed of themselves, but for at most one of each
\* worker: a creation whose answer had begun when the level ended (runLevel,
\* stoppedByLevelTimeout, doCreate).
ReportExplained ==
  /\ LoadTypeOK
  /\ pc \in {"level", "done"} /\ merged # <<>> =>
       LET r == merged[Len(merged)] IN
       /\ r.total = Sum([w \in 1..Levels[Len(merged)] |-> local[w].total])
       /\ r.total - r.success = failures + torn
       /\ torn <= Levels[Len(merged)]

\* What docs/loadtest-qps.md:34 says: a request that the end of its level has cut off is
\* not counted as a failure (stoppedByLevelTimeout, doCreate).
CutOffIsNoFailure ==
  pc \in {"level", "done"} /\ merged # <<>> =>
    LET r == merged[Len(merged)] IN r.total - r.success = failures

\* The level reported as best is stable, and no stable one had a higher rate of
\* requests, also if a signal cut it short (run).
BestIsBest ==
  /\ best # 0 => Stable(merged[best])
  /\ \A i \in DOMAIN merged :
       Stable(merged[i]) =>
         /\ best # 0
         /\ merged[best].total * merged[i].elapsed >= merged[i].total * merged[best].elapsed
=============================================================================
