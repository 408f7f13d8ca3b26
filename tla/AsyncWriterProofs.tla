------------------------- MODULE AsyncWriterProofs -------------------------
(***************************************************************************)
(* The writer hands every accepted link to CreateBatch once, and those     *)
(* accepted in time before Wait returns, for any number of links and       *)
(* workers and any sizes of channel and batch.                             *)
(*                                                                         *)
(* HandedOnce adds up three counts; what is inductive is that a link is in *)
(* one place of the channel, in one batch, or handed over, and nowhere     *)
(* else (Placed).  A worker returns although others still hold links, so   *)
(* what it knows is said of the channel alone (Ending).                    *)
(***************************************************************************)
EXTENDS AsyncWriter, FiniteSetTheorems, TLAPS

\* A batch has room wherever its worker may receive.
Batches ==
  \A w \in Workers :
    /\ IsFiniteSet(batch[w])
    /\ pc[w] \in {"pop", "fill", "drain"} => Cardinality(batch[w]) < BatchSize
    /\ pc[w] = "done" => batch[w] = {}

\* Every accepted link is in one place.
Placed ==
  /\ IsInjective(queue)
  /\ \A i \in Items :
       /\ tries[i] \in {0, 1}
       /\ i \in ToSet(queue) => tries[i] = 0 /\ \A w \in Workers : i \notin batch[w]
       /\ \A w \in Workers :
            i \in batch[w] => tries[i] = 0 /\ \A v \in Workers \ {w} : i \notin batch[v]
       /\ i \in Accepted <=>
            i \in ToSet(queue) \/ (\E w \in Workers : i \in batch[w]) \/ tries[i] = 1

\* Once a worker has seen the channel empty, no early link is in it, nor will be.
Ending ==
  /\ early \subseteq Accepted
  /\ \A w \in Workers :
       /\ pc[w] \in {"drain", "drainFlush", "lastFlush", "done"} => cancelled
       /\ pc[w] \in {"lastFlush", "done"} => early \intersect ToSet(queue) = {}

Inv == TypeOK /\ Batches /\ Placed /\ Ending

USE WriterAssumption

-----------------------------------------------------------------------------
(* The channel                                                             *)

\* A link that is not in the channel is put at its end.
LEMMA Sent ==
  ASSUME queue \in Seq(Items), IsInjective(queue),
         NEW i \in Items, i \notin ToSet(queue), queue' = Append(queue, i)
  PROVE  /\ queue' \in Seq(Items) /\ Len(queue') = Len(queue) + 1
         /\ IsInjective(queue') /\ ToSet(queue') = ToSet(queue) \union {i}
<1>1. /\ queue' \in Seq(Items) /\ Len(queue') = Len(queue) + 1 /\ Len(queue) \in Nat
      /\ DOMAIN queue' = 1..(Len(queue) + 1) /\ DOMAIN queue = 1..Len(queue)
      /\ \A k \in 1..Len(queue) : queue'[k] = queue[k]
      /\ queue'[Len(queue) + 1] = i
  OBVIOUS
<1>2. ToSet(queue') = ToSet(queue) \union {i}
  BY <1>1, SMTT(30) DEF ToSet
<1>3. IsInjective(queue')
  BY <1>1, SMTT(30) DEF IsInjective, ToSet
<1> QED BY <1>1, <1>2, <1>3

\* Its first link is taken.
LEMMA Received ==
  ASSUME queue \in Seq(Items), IsInjective(queue), queue # <<>>, queue' = Tail(queue)
  PROVE  /\ Head(queue) \in Items
         /\ queue' \in Seq(Items) /\ Len(queue') < Len(queue) /\ IsInjective(queue')
         /\ Head(queue) \in ToSet(queue) /\ ToSet(queue') = ToSet(queue) \ {Head(queue)}
<1>1. /\ Head(queue) \in Items /\ Head(queue) = queue[1]
      /\ queue' \in Seq(Items) /\ Len(queue') = Len(queue) - 1
      /\ Len(queue) \in Nat \ {0} /\ DOMAIN queue = 1..Len(queue)
      /\ DOMAIN queue' = 1..(Len(queue) - 1)
      /\ \A k \in 1..(Len(queue) - 1) : queue'[k] = queue[k + 1]
  OBVIOUS
<1>2. IsInjective(queue')
  BY <1>1 DEF IsInjective
<1>3. \A k \in 1..(Len(queue) - 1) : queue'[k] \in ToSet(queue) \ {Head(queue)}
  BY <1>1 DEF IsInjective, ToSet
<1>4. ASSUME NEW k \in 1..Len(queue), queue[k] # Head(queue) PROVE queue[k] \in ToSet(queue')
  <2>1. k - 1 \in 1..(Len(queue) - 1) /\ queue'[k - 1] = queue[k]
    BY <1>1, <1>4
  <2> QED BY <1>1, <2>1 DEF ToSet
<1>5. ToSet(queue') = ToSet(queue) \ {Head(queue)}
  BY <1>1, <1>3, <1>4 DEF ToSet
<1>6. Head(queue) \in ToSet(queue)
  BY <1>1 DEF ToSet
<1> QED BY <1>1, <1>2, <1>5, <1>6

-----------------------------------------------------------------------------
(* The invariant                                                           *)

LEMMA InitInv == Init => Inv
<1> SUFFICES ASSUME Init PROVE Inv
  OBVIOUS
<1>1. queue \in Seq(Items) /\ Len(queue) = 0 /\ ToSet(queue) = {} /\ IsInjective(queue)
  BY DEF Init, ToSet, IsInjective
<1>2. IsFiniteSet({}) /\ Cardinality({}) = 0
  BY FS_EmptySet
<1>3. TypeOK
  <2>1. Len(queue) <= QueueSize /\ \A w \in Workers : Cardinality(batch[w]) <= BatchSize
    BY <1>1, <1>2 DEF Init
  <2>2. /\ create \in [Items -> {"new", "sending", "accepted", "gaveUp"}]
        /\ batch \in [Workers -> SUBSET Items] /\ tries \in [Items -> Nat]
    BY DEF Init
  <2>3. pc \in [Workers -> Working]
    BY DEF Init, Working
  <2> QED BY <1>1, <2>1, <2>2, <2>3 DEF Init, TypeOK
<1>4. Batches
  BY <1>2 DEF Init, Batches
<1>5. Placed
  BY <1>1 DEF Init, Placed, Accepted
<1>6. Ending
  BY <1>1 DEF Init, Ending, Accepted
<1> QED BY <1>3, <1>4, <1>5, <1>6 DEF Inv

\* The callers.
LEMMA CallInv ==
  ASSUME Inv, NEW i \in Items, Call(i) \/ GiveUp(i)
  PROVE  Inv'
<1>1. Accepted' = Accepted
  BY DEF Call, GiveUp, Accepted, Inv, TypeOK
<1>2. UNCHANGED <<queue, batch, pc, cancelled, rows, tries, early>>
  BY DEF Call, GiveUp
<1>3. TypeOK'
  BY <1>2 DEF Call, GiveUp, Inv, TypeOK
<1> QED BY <1>1, <1>2, <1>3 DEF Inv, Batches, Placed, Ending

LEMMA SendInv ==
  ASSUME Inv, NEW i \in Items, Send(i)
  PROVE  Inv'
<1>1. /\ create[i] = "sending" /\ Len(queue) < QueueSize
      /\ queue' = Append(queue, i)
      /\ create' = [create EXCEPT ![i] = "accepted"]
      /\ early' = IF cancelled THEN early ELSE early \union {i}
      /\ UNCHANGED <<batch, pc, cancelled, rows, tries>>
  BY DEF Send
<1>2. i \notin Accepted /\ Accepted' = Accepted \union {i}
  BY <1>1 DEF Accepted, Inv, TypeOK
<1>3. /\ i \notin ToSet(queue) /\ tries[i] # 1 /\ tries[i] \in {0, 1}
      /\ \A w \in Workers : i \notin batch[w]
  BY <1>2 DEF Inv, Placed
<1>4. /\ queue' \in Seq(Items) /\ Len(queue') = Len(queue) + 1
      /\ IsInjective(queue') /\ ToSet(queue') = ToSet(queue) \union {i}
  BY <1>1, <1>3, Sent DEF Inv, TypeOK, Placed
<1>5. TypeOK'
  <2>1. Len(queue') <= QueueSize
    BY <1>1, <1>4 DEF Inv, TypeOK
  <2>2. create' \in [Items -> {"new", "sending", "accepted", "gaveUp"}] /\ early' \subseteq Items
    BY <1>1 DEF Inv, TypeOK
  <2> QED BY <1>1, <1>4, <2>1, <2>2 DEF Inv, TypeOK
<1>6. Batches'
  BY <1>1 DEF Inv, Batches
<1>7. Placed'
  BY <1>1, <1>2, <1>3, <1>4 DEF Inv, Placed
<1>8. Ending'
  BY <1>1, <1>2, <1>4 DEF Inv, Ending
<1> QED BY <1>5, <1>6, <1>7, <1>8 DEF Inv

LEMMA CancelInv == ASSUME Inv, Cancel PROVE Inv'
BY DEF Cancel, Inv, TypeOK, Batches, Placed, Ending, Accepted

\* A link leaves the channel and enters a batch that has room for it.
LEMMA ReceiveInv ==
  ASSUME Inv, NEW w \in Workers, Receive(w)
  PROVE  Inv'
<1> DEFINE i == Head(queue)
           b == batch[w] \union {i}
<1>1. /\ pc[w] \in {"pop", "fill", "drain"} /\ queue # <<>>
      /\ queue' = Tail(queue)
      /\ batch' = [batch EXCEPT ![w] = b]
      /\ pc' = [pc EXCEPT ![w] = IF pc[w] = "drain"
                                 THEN IF Full(b) THEN "drainFlush" ELSE "drain"
                                 ELSE IF Full(b) THEN "flush" ELSE "fill"]
      /\ UNCHANGED <<create, cancelled, rows, tries, early>>
  BY DEF Receive
<1>2. /\ i \in Items /\ i \in ToSet(queue) /\ ToSet(queue') = ToSet(queue) \ {i}
      /\ queue' \in Seq(Items) /\ Len(queue') < Len(queue) /\ IsInjective(queue')
  BY <1>1, Received DEF Inv, TypeOK, Placed
<1>3. tries[i] = 0 /\ \A v \in Workers : i \notin batch[v]
  BY <1>2 DEF Inv, Placed
<1>4. /\ IsFiniteSet(batch[w]) /\ Cardinality(batch[w]) < BatchSize
      /\ IsFiniteSet(b) /\ Cardinality(b) = Cardinality(batch[w]) + 1
      /\ Cardinality(batch[w]) \in Nat
  <2>1. IsFiniteSet(batch[w]) /\ Cardinality(batch[w]) < BatchSize
    BY <1>1 DEF Inv, Batches
  <2> QED BY <1>3, <2>1, FS_AddElement, FS_CardinalityType
<1> HIDE DEF i
<1>5. /\ batch' \in [Workers -> SUBSET Items] /\ pc' \in [Workers -> Working]
      /\ batch'[w] = b /\ \A v \in Workers \ {w} : batch'[v] = batch[v] /\ pc'[v] = pc[v]
      /\ pc'[w] \in {"drain", "drainFlush", "flush", "fill"}
      /\ pc'[w] \in {"drain", "fill"} => ~ Full(b)
      /\ pc'[w] \in {"drain", "drainFlush"} => pc[w] = "drain"
  BY <1>1, <1>2 DEF Inv, TypeOK, Working, Flushing
<1> HIDE DEF b
<1>6. TypeOK'
  <2>1. Cardinality(b) <= BatchSize
    BY <1>4
  <2>2. \A v \in Workers : Cardinality(batch'[v]) <= BatchSize
    BY <1>5, <2>1 DEF Inv, TypeOK
  <2>3. Len(queue') <= QueueSize
    BY <1>2 DEF Inv, TypeOK
  <2> QED BY <1>1, <1>2, <1>5, <2>2, <2>3 DEF Inv, TypeOK
<1>7. Batches'
  <2>1. ~ Full(b) => Cardinality(b) < BatchSize
    BY <1>4 DEF Full
  <2> QED BY <1>4, <1>5, <2>1 DEF Inv, Batches
<1>8. Placed'
  <2>1. Accepted' = Accepted
    BY <1>1 DEF Accepted
  <2>2. \A j \in Items, v \in Workers : j \in batch'[v] <=> j \in batch[v] \/ (j = i /\ v = w)
    <3> SUFFICES ASSUME NEW j \in Items, NEW v \in Workers
                 PROVE  j \in batch'[v] <=> j \in batch[v] \/ (j = i /\ v = w)
      OBVIOUS
    <3>1. CASE v = w
      BY <1>5, <3>1 DEF b
    <3>2. CASE v # w
      <4>1. batch'[v] = batch[v]
        BY <1>5, <3>2
      <4> QED BY <3>2, <4>1
    <3> QED BY <3>1, <3>2
  <2>3. \A j \in Items : j \in ToSet(queue') <=> j \in ToSet(queue) /\ j # i
    BY <1>2
  <2>4. \A j \in Items : tries'[j] = tries[j]
    BY <1>1
  <2> SUFFICES ASSUME NEW j \in Items
               PROVE  /\ tries[j] \in {0, 1}
                      /\ j \in ToSet(queue') =>
                           tries[j] = 0 /\ \A v \in Workers : j \notin batch'[v]
                      /\ \A v \in Workers :
                           j \in batch'[v] =>
                             tries[j] = 0 /\ \A u \in Workers \ {v} : j \notin batch'[u]
                      /\ j \in Accepted <=>
                           \/ j \in ToSet(queue') \/ tries[j] = 1
                           \/ \E v \in Workers : j \in batch'[v]
    BY <1>2, <2>1, <2>4 DEF Placed
  <2>5. CASE j = i
    <3>1. j \in Accepted /\ j \notin ToSet(queue') /\ tries[j] = 0
      BY <1>2, <1>3, <2>3, <2>5 DEF Inv, Placed
    <3>2. \A v \in Workers : j \in batch'[v] <=> v = w
      BY <1>3, <2>2, <2>5
    <3> QED BY <3>1, <3>2
  <2>6. CASE j # i
    <3>1. /\ j \in ToSet(queue') <=> j \in ToSet(queue)
          /\ \A v \in Workers : j \in batch'[v] <=> j \in batch[v]
      BY <2>2, <2>3, <2>6
    <3> QED BY <3>1 DEF Inv, Placed
  <2> QED BY <2>5, <2>6
<1>9. Ending'
  <2>1. Accepted' = Accepted
    BY <1>1 DEF Accepted
  <2> QED BY <1>1, <1>2, <1>5, <2>1 DEF Inv, Ending
<1> QED BY <1>6, <1>7, <1>8, <1>9 DEF Inv

\* A worker moves on without touching a link: its timer fires, or it sees the end
\* of the context or an empty channel.
LEMMA MoveInv ==
  ASSUME Inv, NEW w \in Workers, TimerFires(w) \/ SeeCancel(w) \/ DrainEmpty(w)
  PROVE  Inv'
<1>1. UNCHANGED <<create, queue, batch, cancelled, rows, tries, early>>
  BY DEF TimerFires, SeeCancel, DrainEmpty
<1>2. /\ pc' \in [Workers -> Working]
      /\ \A v \in Workers \ {w} : pc'[v] = pc[v]
      /\ pc'[w] \in {"flush", "drain", "drainFlush", "lastFlush", "done"}
  BY DEF TimerFires, SeeCancel, DrainEmpty, Working, Flushing, Inv, TypeOK
<1>3. TypeOK'
  BY <1>1, <1>2 DEF Inv, TypeOK
<1>4. Batches'
  <2>1. /\ pc'[w] = "drain" => pc[w] \in {"pop", "fill"}
        /\ pc'[w] = "done" => batch[w] = {}
    BY DEF TimerFires, SeeCancel, DrainEmpty, Inv, TypeOK
  <2> QED BY <1>1, <1>2, <2>1 DEF Inv, Batches
<1>5. Placed'
  BY <1>1 DEF Inv, Placed, Accepted
<1>6. Ending'
  <2>1. /\ pc'[w] # "flush" => cancelled
        /\ pc'[w] \in {"lastFlush", "done"} => queue = <<>>
    BY DEF TimerFires, SeeCancel, DrainEmpty, Inv, TypeOK, Ending
  <2>2. queue = <<>> => ToSet(queue) = {}
    BY DEF ToSet
  <2> QED BY <1>1, <1>2, <2>1, <2>2 DEF Inv, Ending, Accepted
<1> QED BY <1>3, <1>4, <1>5, <1>6 DEF Inv

\* The links of a batch are handed over, and it is empty.
LEMMA FlushInv ==
  ASSUME Inv, NEW w \in Workers, Flush(w)
  PROVE  Inv'
<1>1. /\ pc[w] \in Flushing
      /\ \E done \in SUBSET {i % ShardCount : i \in batch[w]} :
           rows' = rows \union {i \in batch[w] : i % ShardCount \in done}
      /\ tries' = [i \in Items |-> IF i \in batch[w] THEN tries[i] + 1 ELSE tries[i]]
      /\ batch' = [batch EXCEPT ![w] = {}]
      /\ pc' = [pc EXCEPT ![w] = AfterFlush(w)]
      /\ UNCHANGED <<create, queue, cancelled, early>>
  BY DEF Flush
<1>2. /\ \/ pc[w] = "flush" /\ AfterFlush(w) = "pop"
         \/ pc[w] = "drainFlush" /\ AfterFlush(w) = "drain"
         \/ pc[w] = "lastFlush" /\ AfterFlush(w) = "done"
      /\ AfterFlush(w) \in Working
  BY <1>1 DEF AfterFlush, Flushing, Working
<1>3. /\ batch'[w] = {} /\ pc'[w] = AfterFlush(w)
      /\ \A v \in Workers \ {w} : batch'[v] = batch[v] /\ pc'[v] = pc[v]
      /\ batch' \in [Workers -> SUBSET Items] /\ pc' \in [Workers -> Working]
  BY <1>1, <1>2 DEF Inv, TypeOK
<1>4. IsFiniteSet({}) /\ Cardinality({}) = 0
  BY FS_EmptySet
<1>5. rows' \subseteq Items
  BY <1>1 DEF Inv, TypeOK
<1>6. TypeOK'
  <2>1. tries' \in [Items -> Nat]
    BY <1>1 DEF Inv, TypeOK
  <2>2. \A v \in Workers : Cardinality(batch'[v]) <= BatchSize
    <3>1. Cardinality(batch'[w]) <= BatchSize
      BY <1>3, <1>4
    <3>2. \A v \in Workers \ {w} : Cardinality(batch'[v]) <= BatchSize
      BY <1>3 DEF Inv, TypeOK
    <3> QED BY <3>1, <3>2
  <2> QED BY <1>1, <1>3, <1>5, <2>1, <2>2 DEF Inv, TypeOK
<1>7. Batches'
  BY <1>2, <1>3, <1>4 DEF Inv, Batches
<1>8. Placed'
  <2> SUFFICES ASSUME NEW j \in Items
               PROVE  /\ tries'[j] \in {0, 1}
                      /\ j \in ToSet(queue) =>
                           tries'[j] = 0 /\ \A v \in Workers : j \notin batch'[v]
                      /\ \A v \in Workers :
                           j \in batch'[v] =>
                             tries'[j] = 0 /\ \A u \in Workers \ {v} : j \notin batch'[u]
                      /\ j \in Accepted <=>
                           \/ j \in ToSet(queue) \/ tries'[j] = 1
                           \/ \E v \in Workers : j \in batch'[v]
    BY <1>1 DEF Inv, Placed, Accepted
  <2>1. \A v \in Workers : j \in batch'[v] <=> j \in batch[v] /\ v # w
    BY <1>3
  <2>2. CASE j \in batch[w]
    <3>1. /\ tries[j] = 0 /\ j \in Accepted /\ j \notin ToSet(queue)
          /\ \A v \in Workers \ {w} : j \notin batch[v]
      BY <2>2 DEF Inv, Placed
    <3>2. tries'[j] = 1
      BY <1>1, <2>2, <3>1
    <3>3. \A v \in Workers : j \notin batch'[v]
      BY <2>1, <3>1
    <3> QED BY <3>1, <3>2, <3>3
  <2>3. CASE j \notin batch[w]
    <3>1. tries'[j] = tries[j]
      BY <1>1, <2>3
    <3>2. \A v \in Workers : j \in batch'[v] <=> j \in batch[v]
      BY <2>1, <2>3
    <3> QED BY <3>1, <3>2 DEF Inv, Placed
  <2> QED BY <2>2, <2>3
<1>9. Ending'
  BY <1>1, <1>2, <1>3 DEF Inv, Ending, Accepted
<1> QED BY <1>6, <1>7, <1>8, <1>9 DEF Inv

LEMMA NextInv == Inv /\ [Next]_vars => Inv'
<1> SUFFICES ASSUME Inv, [Next]_vars PROVE Inv'
  OBVIOUS
<1>1. CASE \E i \in Items : Call(i) \/ GiveUp(i)
  BY <1>1, CallInv
<1>2. CASE \E i \in Items : Send(i)
  BY <1>2, SendInv
<1>3. CASE Cancel
  BY <1>3, CancelInv
<1>4. CASE \E w \in Workers : Receive(w)
  BY <1>4, ReceiveInv
<1>5. CASE \E w \in Workers : TimerFires(w) \/ SeeCancel(w) \/ DrainEmpty(w)
  BY <1>5, MoveInv
<1>6. CASE \E w \in Workers : Flush(w)
  BY <1>6, FlushInv
<1>7. CASE UNCHANGED vars
  BY <1>7 DEF vars, Inv, TypeOK, Batches, Placed, Ending, Accepted
<1> QED BY <1>1, <1>2, <1>3, <1>4, <1>5, <1>6, <1>7 DEF Next, WorkerStep

LEMMA Invariance == Spec => []Inv
BY InitInv, NextInv, PTL DEF Spec

-----------------------------------------------------------------------------
(* The theorems                                                            *)

\* An accepted link is counted in one place.
LEMMA PlacedOnce == Inv => HandedOnce
<1> SUFFICES ASSUME Inv, NEW i \in Items
             PROVE  Cardinality({k \in DOMAIN queue : queue[k] = i})
                      + Cardinality({w \in Workers : i \in batch[w]}) + tries[i]
                      = IF i \in Accepted THEN 1 ELSE 0
  BY DEF Inv, HandedOnce
<1> DEFINE waiting == {k \in DOMAIN queue : queue[k] = i}
           holders == {w \in Workers : i \in batch[w]}
<1>1. Cardinality({}) = 0
  BY FS_EmptySet
<1>2. Cardinality(waiting) = IF i \in ToSet(queue) THEN 1 ELSE 0
  <2>1. CASE i \in ToSet(queue)
    <3>1. PICK k \in DOMAIN queue : queue[k] = i
      BY <2>1 DEF ToSet
    <3>2. waiting = {k}
      BY <3>1 DEF Inv, Placed, IsInjective
    <3> QED BY <2>1, <3>2, FS_Singleton
  <2>2. CASE i \notin ToSet(queue)
    <3>1. waiting = {}
      BY <2>2 DEF ToSet
    <3> QED BY <1>1, <2>2, <3>1
  <2> QED BY <2>1, <2>2
<1>3. Cardinality(holders) = IF \E w \in Workers : i \in batch[w] THEN 1 ELSE 0
  <2>1. CASE \E w \in Workers : i \in batch[w]
    <3>1. PICK w \in Workers : i \in batch[w]
      BY <2>1
    <3>2. holders = {w}
      BY <3>1 DEF Inv, Placed
    <3> QED BY <2>1, <3>2, FS_Singleton
  <2>2. CASE ~ \E w \in Workers : i \in batch[w]
    <3>1. holders = {}
      BY <2>2
    <3> QED BY <1>1, <2>2, <3>1
  <2> QED BY <2>1, <2>2
<1> HIDE DEF waiting, holders
<1>4. Cardinality(waiting) + Cardinality(holders) + tries[i]
        = IF i \in Accepted THEN 1 ELSE 0
  <2>1. /\ tries[i] \in {0, 1}
        /\ i \in ToSet(queue) => tries[i] = 0 /\ \A w \in Workers : i \notin batch[w]
        /\ \A w \in Workers : i \in batch[w] => tries[i] = 0
        /\ i \in Accepted <=>
             i \in ToSet(queue) \/ (\E w \in Workers : i \in batch[w]) \/ tries[i] = 1
    BY DEF Inv, Placed
  <2>2. CASE i \in ToSet(queue)
    BY <1>2, <1>3, <2>1, <2>2
  <2>3. CASE \E w \in Workers : i \in batch[w]
    BY <1>2, <1>3, <2>1, <2>3
  <2>4. CASE i \notin ToSet(queue) /\ ~ \E w \in Workers : i \in batch[w]
    BY <1>2, <1>3, <2>1, <2>4
  <2> QED BY <2>2, <2>3, <2>4
<1> QED BY <1>4 DEF waiting, holders

\* Every link that Create accepted is in the channel, in the batch of one worker,
\* or handed to CreateBatch, once, for any number of workers (popBatch, flush).
THEOREM HandsOverOnce == Spec => []HandedOnce
BY Invariance, PlacedOnce, PTL

\* When Wait returns, the links accepted before the context was over have all been
\* handed to CreateBatch: each worker that returned saw the channel without them,
\* and all have written what they held (drain, Wait).
THEOREM DrainsOnWait == Spec => []DrainedOnWait
<1>1. Inv => DrainedOnWait
  <2> SUFFICES ASSUME Inv, Stopped, NEW i \in early PROVE tries[i] = 1
    BY DEF DrainedOnWait
  <2>1. PICK w \in Workers : pc[w] = "done"
    BY DEF Stopped
  <2>2. i \in Items /\ i \in Accepted /\ i \notin ToSet(queue)
    BY <2>1 DEF Inv, TypeOK, Ending
  <2>3. \A v \in Workers : i \notin batch[v]
    BY DEF Stopped, Inv, Batches
  <2> QED BY <2>2, <2>3 DEF Inv, Placed
<1> QED BY <1>1, Invariance, PTL
=============================================================================
