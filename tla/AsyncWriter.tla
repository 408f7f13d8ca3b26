---------------------------- MODULE AsyncWriter ----------------------------
(***************************************************************************)
(* The asynchronous writer of short links (internal/app/linkapp/           *)
(* async_writer.go) over the repository's CreateBatch.                     *)
(*                                                                         *)
(* Create puts a link into a bounded channel, waiting for room as long as  *)
(* the caller's context allows.  Several workers take links from it into   *)
(* batches of their own, each written when it is full or when a timer that *)
(* started with its first link fires.  When the writer's context is over   *)
(* each worker writes what it has, empties the channel and returns.        *)
(***************************************************************************)
EXTENDS Naturals, FiniteSets, SequencesExt

CONSTANTS
  Items,       \* ids of the links
  Workers,
  QueueSize,   \* capacity of the channel
  BatchSize,   \* links written together
  ShardCount   \* number of tables

ASSUME WriterAssumption == /\ Items \subseteq Nat
                           /\ Workers # {}
                           /\ QueueSize \in Nat \ {0}
                           /\ BatchSize \in Nat \ {0}
                           /\ ShardCount \in Nat \ {0}

VARIABLES
  create,      \* where the Create of each link is
  queue,       \* AsyncShortLinkWriter.queue
  batch,       \* the batch of each worker
  pc,          \* where each worker is
  cancelled,   \* the writer's context is over
  rows,        \* links in MySQL
  tries,       \* how many batches given to CreateBatch held the link
  early        \* history: links accepted before the context was over

vars == <<create, queue, batch, pc, cancelled, rows, tries, early>>

\* popBatch waits for a first link ("pop") and for more ("fill"); the three
\* flushes differ in where the worker goes on.
Flushing == {"flush", "drainFlush", "lastFlush"}
Working  == {"pop", "fill", "drain", "done"} \union Flushing

Accepted == {i \in Items : create[i] = "accepted"}
Stopped  == \A w \in Workers : pc[w] = "done"

TypeOK ==
  /\ create \in [Items -> {"new", "sending", "accepted", "gaveUp"}]
  /\ queue \in Seq(Items) /\ Len(queue) <= QueueSize
  /\ batch \in [Workers -> SUBSET Items]
  /\ \A w \in Workers : Cardinality(batch[w]) <= BatchSize
  /\ pc \in [Workers -> Working]
  /\ cancelled \in BOOLEAN
  /\ rows \subseteq Items
  /\ tries \in [Items -> Nat]
  /\ early \subseteq Items

Init ==
  /\ create = [i \in Items |-> "new"]
  /\ queue = <<>>
  /\ batch = [w \in Workers |-> {}]
  /\ pc = [w \in Workers |-> "pop"]
  /\ cancelled = FALSE
  /\ rows = {} /\ tries = [i \in Items |-> 0]
  /\ early = {}

-----------------------------------------------------------------------------
(* Create                                                                  *)

Call(i) == /\ create[i] = "new"
           /\ create' = [create EXCEPT ![i] = "sending"]
           /\ UNCHANGED <<queue, batch, pc, cancelled, rows, tries, early>>

\* The channel has room, and takes the link whether or not anyone will read it.
Send(i) ==
  /\ create[i] = "sending"
  /\ Len(queue) < QueueSize
  /\ queue' = Append(queue, i)
  /\ create' = [create EXCEPT ![i] = "accepted"]
  /\ early' = IF cancelled THEN early ELSE early \union {i}
  /\ UNCHANGED <<batch, pc, cancelled, rows, tries>>

\* The caller's context is over first.
GiveUp(i) == /\ create[i] = "sending"
             /\ create' = [create EXCEPT ![i] = "gaveUp"]
             /\ UNCHANGED <<queue, batch, pc, cancelled, rows, tries, early>>

Cancel == /\ ~ cancelled
          /\ cancelled' = TRUE
          /\ UNCHANGED <<create, queue, batch, pc, rows, tries, early>>

-----------------------------------------------------------------------------
(* A worker                                                                *)

Full(b) == Cardinality(b) >= BatchSize

\* A receive in popBatch or in drain.
Receive(w) ==
  LET b == batch[w] \union {Head(queue)} IN
  /\ pc[w] \in {"pop", "fill", "drain"}
  /\ queue # <<>>
  /\ queue' = Tail(queue)
  /\ batch' = [batch EXCEPT ![w] = b]
  /\ pc' = [pc EXCEPT ![w] = IF pc[w] = "drain"
                             THEN IF Full(b) THEN "drainFlush" ELSE "drain"
                             ELSE IF Full(b) THEN "flush" ELSE "fill"]
  /\ UNCHANGED <<create, cancelled, rows, tries, early>>

\* Wrong on purpose: only full batches are written.
TimerFiresFull(w) == /\ pc[w] = "fill" /\ Full(batch[w])
                     /\ pc' = [pc EXCEPT ![w] = "flush"]
                     /\ UNCHANGED <<create, queue, batch, cancelled, rows, tries, early>>

TimerFires(w) == /\ pc[w] = "fill"
                 /\ pc' = [pc EXCEPT ![w] = "flush"]
                 /\ UNCHANGED <<create, queue, batch, cancelled, rows, tries, early>>

\* Wrong on purpose: a worker that is filling a batch drops it.
SeeCancelDropping(w) ==
  /\ pc[w] \in {"pop", "fill"}
  /\ cancelled
  /\ pc' = [pc EXCEPT ![w] = "drain"]
  /\ batch' = [batch EXCEPT ![w] = {}]
  /\ UNCHANGED <<create, queue, cancelled, rows, tries, early>>

\* popBatch returns the context's error, and run calls drain.
SeeCancel(w) ==
  /\ pc[w] \in {"pop", "fill"}
  /\ cancelled
  /\ pc' = [pc EXCEPT ![w] = IF batch[w] = {} THEN "drain" ELSE "drainFlush"]
  /\ UNCHANGED <<create, queue, batch, cancelled, rows, tries, early>>

\* drain finds the channel empty.
DrainEmpty(w) ==
  /\ pc[w] = "drain"
  /\ queue = <<>>
  /\ pc' = [pc EXCEPT ![w] = IF batch[w] = {} THEN "done" ELSE "lastFlush"]
  /\ UNCHANGED <<create, queue, batch, cancelled, rows, tries, early>>

\* Wrong on purpose: after one batch the drain is over.
AfterFlushOnce(w) == IF pc[w] = "flush" THEN "pop" ELSE "done"

\* Where a worker goes after a flush.
AfterFlush(w) == CASE pc[w] = "flush"      -> "pop"
                   [] pc[w] = "drainFlush" -> "drain"
                   [] pc[w] = "lastFlush"  -> "done"

\* CreateBatch: one transaction per table; those that fail, or are cancelled by
\* the first that does, leave no row, and the error is dropped.
Flush(w) ==
  /\ pc[w] \in Flushing
  /\ \E done \in SUBSET {i % ShardCount : i \in batch[w]} :
       rows' = rows \union {i \in batch[w] : i % ShardCount \in done}
  /\ tries' = [i \in Items |-> IF i \in batch[w] THEN tries[i] + 1 ELSE tries[i]]
  /\ batch' = [batch EXCEPT ![w] = {}]
  /\ pc' = [pc EXCEPT ![w] = AfterFlush(w)]
  /\ UNCHANGED <<create, queue, cancelled, early>>

-----------------------------------------------------------------------------
WorkerStep(w) == Receive(w) \/ TimerFires(w) \/ SeeCancel(w) \/ DrainEmpty(w)
                   \/ Flush(w)

Next == \/ \E i \in Items : Call(i) \/ Send(i) \/ GiveUp(i)
        \/ Cancel
        \/ \E w \in Workers : WorkerStep(w)

Spec == Init /\ [][Next]_vars

\* Goroutines run, timers fire and CreateBatch returns; no caller has to wait or to give
\* up, and nobody has to stop the writer.
Fairness == \A w \in Workers : WF_vars(WorkerStep(w))

FairSpec == Spec /\ Fairness

-----------------------------------------------------------------------------
(* Properties                                                              *)

\* A link that Create accepted is in one place: in the channel, in the batch of
\* one worker, or handed to CreateBatch once.  No two workers write it, however
\* their receives, timers and drains interleave; no batch and no channel outgrows
\* its limit.
HandedOnce ==
  /\ TypeOK
  /\ \A i \in Items :
       Cardinality({k \in DOMAIN queue : queue[k] = i})
         + Cardinality({w \in Workers : i \in batch[w]}) + tries[i]
         = IF i \in Accepted THEN 1 ELSE 0

\* When Wait returns, every link accepted before the context was over has been
\* handed to CreateBatch (TestAsyncShortLinkWriterDrainsOnCancel), although each
\* worker stops at the first moment at which it sees the channel empty.
DrainedOnWait == Stopped => \A i \in early : tries[i] = 1

\* Such a link is handed over in any case, also when its batch never fills.
EarlyItemsWritten == \A i \in Items : i \in early ~> tries[i] = 1
=============================================================================
