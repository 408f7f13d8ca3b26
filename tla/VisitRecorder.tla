--------------------------- MODULE VisitRecorder ---------------------------
(***************************************************************************)
(* The recorder of visits (internal/app/statapp/recorder.go) and the way   *)
(* statsvc stops it (cmd/statsvc/main.go).                                 *)
(*                                                                         *)
(* Record puts a visit into a bounded channel or refuses it.  One          *)
(* goroutine takes visits from the channel into a batch and writes it when *)
(* it is full or at a tick; once its context is cancelled it empties the   *)
(* channel and returns.  statsvc cancels that context and leaves main when *)
(* its gRPC server has stopped, without waiting for the goroutine; calls   *)
(* of Record still come in meanwhile.                                      *)
(***************************************************************************)
EXTENDS Naturals, FiniteSets, SequencesExt

CONSTANTS
  Visits,      \* visits that are reported; equal events count separately
  QueueSize,   \* capacity of the channel
  BatchSize    \* visits written together

ASSUME SizesAssumption == QueueSize \in Nat \ {0} /\ BatchSize \in Nat \ {0}

VARIABLES
  visit,       \* what Record said of each visit
  queue,       \* Recorder.queue
  batch,       \* the visits run has taken from it
  run,         \* where the goroutine is
  flushing,    \* it is in flush, waiting for CreateBatch
  cancelled,   \* the context of run is over
  log,         \* the rows of visit_log, in the order written
  dropped,     \* visits of batches that could not be written
  early        \* history: visits accepted before the context was over

vars == <<visit, queue, batch, run, flushing, cancelled, log, dropped, early>>

\* "select" is the main loop and "drain" the inner one; "last" is the flush
\* before the return; "killed" is a goroutine that main did not wait for.
Running == {"select", "drain", "last", "returned", "killed"}

Accepted == {v \in Visits : visit[v] = "accepted"}

\* Visits that are in the table, or whose batch was refused by MySQL.
Settled == ToSet(log) \union dropped

TypeOK ==
  /\ visit \in [Visits -> {"new", "accepted", "refused"}]
  /\ queue \in Seq(Visits) /\ Len(queue) <= QueueSize
  /\ batch \in Seq(Visits) /\ Len(batch) <= BatchSize
  /\ run \in Running
  /\ flushing \in BOOLEAN
  /\ cancelled \in BOOLEAN
  /\ log \in Seq(Visits)
  /\ dropped \subseteq Visits
  /\ early \subseteq Visits

Init ==
  /\ visit = [v \in Visits |-> "new"]
  /\ queue = <<>> /\ batch = <<>> /\ log = <<>>
  /\ run = "select" /\ flushing = FALSE /\ cancelled = FALSE
  /\ dropped = {} /\ early = {}

-----------------------------------------------------------------------------
\* The channel takes another visit.
HasRoom == Len(queue) < QueueSize

\* Record: with room the visit is accepted, or refused when the caller's own
\* context is over; without room it is refused.
Record(v) ==
  /\ visit[v] = "new" /\ run # "killed"
  /\ \/ /\ HasRoom
        /\ queue' = Append(queue, v)
        /\ visit' = [visit EXCEPT ![v] = "accepted"]
        /\ early' = IF cancelled THEN early ELSE early \union {v}
     \/ /\ visit' = [visit EXCEPT ![v] = "refused"]
        /\ UNCHANGED <<queue, early>>
  /\ UNCHANGED <<batch, run, flushing, cancelled, log, dropped>>

Cancel == /\ ~ cancelled
          /\ cancelled' = TRUE
          /\ UNCHANGED <<visit, queue, batch, run, flushing, log, dropped, early>>

\* A receive, in either loop; a full batch is flushed at once.
Receive ==
  /\ run \in {"select", "drain"} /\ ~ flushing
  /\ queue # <<>>
  /\ batch' = Append(batch, Head(queue))
  /\ queue' = Tail(queue)
  /\ flushing' = (Len(batch') >= BatchSize)
  /\ UNCHANGED <<visit, run, cancelled, log, dropped, early>>

\* Wrong on purpose: only full batches are written.
TickFlushFull ==
  /\ run = "select" /\ ~ flushing
  /\ Len(batch) >= BatchSize
  /\ flushing' = TRUE
  /\ UNCHANGED <<visit, queue, batch, run, cancelled, log, dropped, early>>

\* The ticker fires with something to write.
TickFlush ==
  /\ run = "select" /\ ~ flushing
  /\ batch # <<>>
  /\ flushing' = TRUE
  /\ UNCHANGED <<visit, queue, batch, run, cancelled, log, dropped, early>>

\* The select sees that the context is over.
SeeCancel ==
  /\ run = "select" /\ ~ flushing
  /\ cancelled
  /\ run' = "drain"
  /\ UNCHANGED <<visit, queue, batch, flushing, cancelled, log, dropped, early>>

\* Wrong on purpose: the goroutine returns with the last batch unwritten.
DrainEmptyUnflushed ==
  /\ run = "drain" /\ ~ flushing
  /\ queue = <<>>
  /\ run' = "returned"
  /\ UNCHANGED <<visit, queue, batch, flushing, cancelled, log, dropped, early>>

\* The inner loop finds the channel empty: the rest is written, then return.
DrainEmpty ==
  /\ run = "drain" /\ ~ flushing
  /\ queue = <<>>
  /\ IF batch = <<>> THEN run' = "returned" /\ UNCHANGED flushing
                     ELSE run' = "last" /\ flushing' = TRUE
  /\ UNCHANGED <<visit, queue, batch, cancelled, log, dropped, early>>

\* CreateBatch is one INSERT; its error is dropped, applied or not.
Write(b) == \/ log' = log \o b /\ UNCHANGED dropped
            \/ dropped' = dropped \union ToSet(b) /\ UNCHANGED log

\* Wrong on purpose: the batch is not reset.
FlushKeepingBatch ==
  /\ flushing /\ run # "killed"
  /\ Write(batch)
  /\ flushing' = FALSE
  /\ run' = IF run = "last" THEN "returned" ELSE run
  /\ UNCHANGED <<visit, queue, batch, cancelled, early>>

\* flush, then on with the loop, or return.
Flush ==
  /\ flushing /\ run # "killed"
  /\ Write(batch)
  /\ batch' = <<>>
  /\ flushing' = FALSE
  /\ run' = IF run = "last" THEN "returned" ELSE run
  /\ UNCHANGED <<visit, queue, cancelled, early>>

\* main returns or fails, and the process ends with what it had in memory; a
\* running INSERT has either outcome.
Exit ==
  /\ run \notin {"returned", "killed"}
  /\ run' = "killed"
  /\ queue' = <<>> /\ batch' = <<>> /\ flushing' = FALSE
  /\ \/ UNCHANGED log
     \/ flushing /\ log' = log \o batch
  /\ UNCHANGED <<visit, cancelled, dropped, early>>

-----------------------------------------------------------------------------
RunStep == Receive \/ TickFlush \/ SeeCancel \/ DrainEmpty \/ Flush

Next == \/ \E v \in Visits : Record(v)
        \/ Cancel \/ Exit
        \/ Receive \/ TickFlush \/ SeeCancel \/ DrainEmpty \/ Flush

Spec == Init /\ [][Next]_vars

\* The goroutine runs while its process does, the ticker fires, and MySQL
\* answers; nobody is obliged to report a visit or to stop.
Fairness == WF_vars(RunStep)

FairSpec == Spec /\ Fairness

-----------------------------------------------------------------------------
(* Properties                                                              *)

\* Every visit that Record accepted is in exactly one place, once: in the
\* channel, in the batch, in the table, or among those whose INSERT failed.
\* No visit is counted twice, and none that was refused is counted (run, flush).
CountedOnce ==
  run # "killed" =>
    LET places == queue \o batch \o log IN
    /\ \A v \in Accepted :
         Cardinality({i \in DOMAIN places : places[i] = v})
           = IF v \in dropped THEN 0 ELSE 1
    /\ ToSet(places) \union dropped = Accepted

\* When the goroutine returns, every visit accepted before its context was over
\* has been written, or MySQL has refused it (TestRecorderDrainsOnCancel).  Those
\* accepted later may be left in the channel for ever.
DrainedOnReturn == run = "returned" => early \subseteq Settled

\* Such visits get there in any case, unless the process ends before: a batch
\* that does not fill up is written at a tick, or by the drain.
EarlyVisitsSettle ==
  early # {} ~> early \subseteq Settled \/ run = "killed"
=============================================================================
