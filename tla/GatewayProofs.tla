--------------------------- MODULE GatewayProofs ---------------------------
(***************************************************************************)
(* The recorder counts no visit twice and loses none but by MySQL's        *)
(* refusal or the end of its process, for any number of visits and any     *)
(* sizes of channel and batch.                                             *)
(*                                                                         *)
(* CountedOnce speaks of positions in three sequences; what is inductive   *)
(* is that each of them is injective and that their ranges and the dropped *)
(* visits are pairwise disjoint (Placed).                                  *)
(*                                                                         *)
(* Behind the gateway the recorder goes on keeping its promises: every     *)
(* step of Gateway is a step of VisitRecorder or leaves its variables      *)
(* alone.  And only redirections are counted, for which the call that is   *)
(* under way has to be followed (CallsAreRedirects).                       *)
(***************************************************************************)
EXTENDS Gateway, LoadTest, FiniteSetTheorems, WellFoundedInduction, TLAPS

-----------------------------------------------------------------------------
(* The recorder by itself                                                  *)

\* Where the goroutine is, and what its batch may be there.
RunOK ==
  /\ run \in {"select", "drain"} /\ ~ flushing => Len(batch) < BatchSize
  /\ run = "last" => flushing
  /\ run = "returned" => ~ flushing /\ batch = <<>>
  /\ run \in {"drain", "last", "returned"} => cancelled
  /\ run = "killed" => ~ flushing

\* Every accepted visit is in one place.
Placed ==
  run # "killed" =>
    /\ IsInjective(queue) /\ IsInjective(batch) /\ IsInjective(log)
    /\ ToSet(queue) \intersect ToSet(batch) = {}
    /\ ToSet(queue) \intersect Settled = {}
    /\ ToSet(batch) \intersect Settled = {}
    /\ ToSet(log) \intersect dropped = {}
    /\ ToSet(queue) \union ToSet(batch) \union Settled = Accepted

\* What the last flush has left to do.
EarlyOK ==
  /\ early \subseteq Accepted
  /\ run = "last" => early \subseteq ToSet(batch) \union Settled
  /\ DrainedOnReturn

Inv == TypeOK /\ RunOK /\ Placed /\ EarlyOK

USE SizesAssumption

-----------------------------------------------------------------------------
(* Sequences                                                               *)

\* A visit is put at the end of the channel or of the batch.
LEMMA Appending ==
  ASSUME NEW S, NEW s \in Seq(S), NEW x \in S
  PROVE  /\ Append(s, x) \in Seq(S) /\ Len(Append(s, x)) = Len(s) + 1
         /\ ToSet(Append(s, x)) = ToSet(s) \union {x}
         /\ IsInjective(s) /\ x \notin ToSet(s) => IsInjective(Append(s, x))
<1>1. /\ Append(s, x) \in Seq(S) /\ Len(Append(s, x)) = Len(s) + 1
      /\ DOMAIN Append(s, x) = 1..(Len(s) + 1) /\ DOMAIN s = 1..Len(s)
      /\ Len(s) \in Nat
      /\ \A i \in 1..Len(s) : Append(s, x)[i] = s[i]
      /\ Append(s, x)[Len(s) + 1] = x
  OBVIOUS
<1>2. ToSet(Append(s, x)) = ToSet(s) \union {x}
  BY <1>1, SMTT(30) DEF ToSet
<1>3. ASSUME IsInjective(s), x \notin ToSet(s) PROVE IsInjective(Append(s, x))
  BY <1>1, <1>3, SMTT(30) DEF IsInjective, ToSet
<1>4. QED BY <1>1, <1>2, <1>3

\* A visit is taken from the front of the channel.
LEMMA Taking ==
  ASSUME NEW S, NEW s \in Seq(S), s # <<>>
  PROVE  /\ Head(s) \in S /\ Tail(s) \in Seq(S) /\ Len(Tail(s)) = Len(s) - 1
         /\ ToSet(s) = {Head(s)} \union ToSet(Tail(s))
         /\ IsInjective(s) => Head(s) \notin ToSet(Tail(s)) /\ IsInjective(Tail(s))
<1>1. /\ Head(s) \in S /\ Tail(s) \in Seq(S) /\ Len(Tail(s)) = Len(s) - 1
      /\ Len(s) \in Nat \ {0} /\ DOMAIN s = 1..Len(s)
      /\ DOMAIN Tail(s) = 1..(Len(s) - 1)
      /\ Head(s) = s[1]
      /\ \A i \in 1..(Len(s) - 1) : Tail(s)[i] = s[i + 1]
  OBVIOUS
<1>2. ToSet(s) = {Head(s)} \union ToSet(Tail(s))
  <2>1. ASSUME NEW i \in 1..Len(s) PROVE s[i] \in {Head(s)} \union ToSet(Tail(s))
    <3>1. CASE i = 1
      BY <1>1, <3>1
    <3>2. CASE i # 1
      <4>1. i - 1 \in 1..(Len(s) - 1) /\ Tail(s)[i - 1] = s[i]
        BY <1>1, <3>2
      <4>2. QED BY <1>1, <4>1 DEF ToSet
    <3>3. QED BY <3>1, <3>2
  <2>2. ASSUME NEW i \in 1..(Len(s) - 1) PROVE Tail(s)[i] \in ToSet(s)
    BY <1>1 DEF ToSet
  <2>3. Head(s) \in ToSet(s)
    BY <1>1 DEF ToSet
  <2>4. QED BY <1>1, <2>1, <2>2, <2>3 DEF ToSet
<1>3. ASSUME IsInjective(s)
      PROVE  Head(s) \notin ToSet(Tail(s)) /\ IsInjective(Tail(s))
  BY <1>1, <1>3, SMTT(30) DEF IsInjective, ToSet
<1>4. QED BY <1>1, <1>2, <1>3

\* A batch is put at the end of the table; queue, batch and table are looked at
\* as one.
LEMMA Joining ==
  ASSUME NEW S, NEW s \in Seq(S), NEW t \in Seq(S)
  PROVE  /\ s \o t \in Seq(S)
         /\ ToSet(s \o t) = ToSet(s) \union ToSet(t)
         /\ IsInjective(s) /\ IsInjective(t) /\ ToSet(s) \intersect ToSet(t) = {}
              => IsInjective(s \o t)
<1>1. /\ s \o t \in Seq(S)
      /\ Len(s) \in Nat /\ Len(t) \in Nat
      /\ DOMAIN s = 1..Len(s) /\ DOMAIN t = 1..Len(t)
      /\ DOMAIN (s \o t) = 1..(Len(s) + Len(t))
      /\ \A i \in 1..Len(s) : (s \o t)[i] = s[i]
      /\ \A i \in (Len(s) + 1)..(Len(s) + Len(t)) : (s \o t)[i] = t[i - Len(s)]
  OBVIOUS
<1>2. ToSet(s \o t) = ToSet(s) \union ToSet(t)
  <2>1. ASSUME NEW i \in 1..(Len(s) + Len(t)) PROVE (s \o t)[i] \in ToSet(s) \union ToSet(t)
    <3>1. CASE i \in 1..Len(s)
      BY <1>1, <3>1 DEF ToSet
    <3>2. CASE i \notin 1..Len(s)
      <4>1. i - Len(s) \in 1..Len(t) /\ (s \o t)[i] = t[i - Len(s)]
        BY <1>1, <3>2
      <4>2. QED BY <1>1, <4>1 DEF ToSet
    <3>3. QED BY <3>1, <3>2
  <2>2. ASSUME NEW i \in 1..Len(s) PROVE s[i] \in ToSet(s \o t)
    BY <1>1 DEF ToSet
  <2>3. ASSUME NEW i \in 1..Len(t) PROVE t[i] \in ToSet(s \o t)
    <3>1. i + Len(s) \in 1..(Len(s) + Len(t)) /\ (s \o t)[i + Len(s)] = t[i]
      BY <1>1
    <3>2. QED BY <1>1, <3>1 DEF ToSet
  <2>4. QED BY <1>1, <2>1, <2>2, <2>3 DEF ToSet
<1>3. ASSUME IsInjective(s), IsInjective(t), ToSet(s) \intersect ToSet(t) = {}
      PROVE  IsInjective(s \o t)
  <2>1. SUFFICES ASSUME NEW i \in 1..(Len(s) + Len(t)), NEW j \in 1..(Len(s) + Len(t)),
                        (s \o t)[i] = (s \o t)[j]
                 PROVE  i = j
    BY <1>1 DEF IsInjective
  <2>2. CASE i <= Len(s) /\ j <= Len(s)
    BY <1>1, <1>3, <2>1, <2>2 DEF IsInjective
  <2>3. CASE i > Len(s) /\ j > Len(s)
    <3>1. /\ i - Len(s) \in 1..Len(t) /\ j - Len(s) \in 1..Len(t)
          /\ t[i - Len(s)] = t[j - Len(s)]
      BY <1>1, <2>1, <2>3
    <3>2. i - Len(s) = j - Len(s)
      BY <1>1, <1>3, <3>1 DEF IsInjective
    <3>3. QED BY <1>1, <3>2
  <2>4. ASSUME NEW k \in 1..Len(s), NEW l \in 1..Len(t) PROVE s[k] # t[l]
    BY <1>1, <1>3 DEF ToSet
  <2>5. CASE i <= Len(s) /\ j > Len(s)
    BY <1>1, <2>1, <2>4, <2>5
  <2>6. CASE i > Len(s) /\ j <= Len(s)
    BY <1>1, <2>1, <2>4, <2>6
  <2>7. QED BY <1>1, <2>2, <2>3, <2>5, <2>6
<1>4. QED BY <1>1, <1>2, <1>3

\* A sequence without repetitions has each of its values in one position.
LEMMA Counting ==
  ASSUME NEW S, NEW s \in Seq(S), IsInjective(s), NEW x
  PROVE  Cardinality({i \in DOMAIN s : s[i] = x}) = IF x \in ToSet(s) THEN 1 ELSE 0
<1>1. CASE x \in ToSet(s)
  <2>1. PICK i \in DOMAIN s : s[i] = x
    BY <1>1 DEF ToSet
  <2>2. {j \in DOMAIN s : s[j] = x} = {i}
    BY <2>1 DEF IsInjective
  <2>3. QED BY <1>1, <2>2, FS_Singleton
<1>2. CASE x \notin ToSet(s)
  <2>1. {i \in DOMAIN s : s[i] = x} = {}
    BY <1>2 DEF ToSet
  <2>2. QED BY <1>2, <2>1, FS_EmptySet
<1>3. QED BY <1>1, <1>2

-----------------------------------------------------------------------------
(* The invariant                                                           *)

LEMMA InitInv == Init => Inv
<1>1. SUFFICES ASSUME Init PROVE Inv
  OBVIOUS
<1>1a. /\ queue = <<>> /\ batch = <<>> /\ log = <<>>
       /\ visit = [v \in Visits |-> "new"]
       /\ dropped = {} /\ early = {}
       /\ run = "select" /\ flushing = FALSE /\ cancelled = FALSE
  BY <1>1 DEF Init
<1>1b. /\ queue \in Seq(Visits) /\ batch \in Seq(Visits) /\ log \in Seq(Visits)
       /\ Len(queue) = 0 /\ Len(batch) = 0
  BY <1>1a
<1>2. /\ ToSet(queue) = {} /\ ToSet(batch) = {} /\ ToSet(log) = {}
      /\ IsInjective(queue) /\ IsInjective(batch) /\ IsInjective(log)
      /\ Accepted = {}
  BY <1>1a DEF ToSet, IsInjective, Accepted
<1>3. TypeOK
  <2>1. visit \in [Visits -> {"new", "accepted", "refused"}] /\ run \in Running
    BY <1>1a DEF Running
  <2>2. flushing \in BOOLEAN /\ cancelled \in BOOLEAN
    BY <1>1a
  <2>3. Len(queue) <= QueueSize /\ Len(batch) <= BatchSize
    BY <1>1b
  <2>4. dropped \subseteq Visits /\ early \subseteq Visits
    BY <1>1a
  <2>5. QED BY <1>1b, <2>1, <2>2, <2>3, <2>4 DEF TypeOK
<1>4. RunOK
  BY <1>1a, <1>1b DEF RunOK
<1>5. Placed /\ EarlyOK
  BY <1>1a, <1>2 DEF Placed, EarlyOK, DrainedOnReturn, Settled
<1>6. QED BY <1>3, <1>4, <1>5 DEF Inv

\* The settled visits are those in the table and those dropped.
LEMMA WriteSettles ==
  ASSUME TypeOK, Write(batch)
  PROVE  /\ log' \in Seq(Visits) /\ dropped' \subseteq Visits
         /\ Settled' = Settled \union ToSet(batch)
         /\ /\ IsInjective(log) /\ IsInjective(batch)
            /\ ToSet(batch) \intersect Settled = {}
            /\ ToSet(log) \intersect dropped = {}
            => IsInjective(log') /\ ToSet(log') \intersect dropped' = {}
<1>1. /\ log \in Seq(Visits) /\ batch \in Seq(Visits) /\ dropped \subseteq Visits
      /\ ToSet(batch) \subseteq Visits
  BY DEF TypeOK, ToSet
<1>2. CASE log' = log \o batch /\ UNCHANGED dropped
  <2>1. /\ log' \in Seq(Visits)
        /\ ToSet(log') = ToSet(log) \union ToSet(batch)
        /\ IsInjective(log) /\ IsInjective(batch) /\ ToSet(log) \intersect ToSet(batch) = {}
             => IsInjective(log')
    BY <1>1, <1>2, Joining
  <2>2. QED BY <1>1, <1>2, <2>1 DEF Settled
<1>3. CASE dropped' = dropped \union ToSet(batch) /\ UNCHANGED log
  BY <1>1, <1>3 DEF Settled
<1>4. QED BY <1>2, <1>3 DEF Write

LEMMA RecordInv == ASSUME Inv, NEW v \in Visits, Record(v) PROVE Inv'
<1> USE DEF Inv
<1>0. /\ visit[v] = "new" /\ run # "killed" /\ v \notin Accepted
      /\ UNCHANGED <<batch, run, flushing, cancelled, log, dropped>>
      /\ UNCHANGED Settled
  BY DEF Record, Accepted, Settled
<1>1. CASE /\ HasRoom /\ queue' = Append(queue, v)
           /\ visit' = [visit EXCEPT ![v] = "accepted"]
           /\ early' = IF cancelled THEN early ELSE early \union {v}
  <2>1. /\ queue' \in Seq(Visits) /\ Len(queue') = Len(queue) + 1
        /\ ToSet(queue') = ToSet(queue) \union {v}
        /\ IsInjective(queue) /\ v \notin ToSet(queue) => IsInjective(queue')
    BY <1>1, Appending DEF TypeOK
  <2>2. Accepted' = Accepted \union {v}
    BY <1>1 DEF TypeOK, Accepted
  <2>3. TypeOK'
    BY <1>0, <1>1, <2>1 DEF TypeOK, HasRoom
  <2>4. RunOK'
    BY <1>0 DEF RunOK
  <2>5. Placed'
    BY <1>0, <2>1, <2>2 DEF Placed
  <2>6. EarlyOK'
    BY <1>0, <1>1, <2>2 DEF EarlyOK, DrainedOnReturn, RunOK
  <2>7. QED BY <2>3, <2>4, <2>5, <2>6
<1>2. CASE visit' = [visit EXCEPT ![v] = "refused"] /\ UNCHANGED <<queue, early>>
  <2>1. Accepted' = Accepted
    BY <1>0, <1>2 DEF TypeOK, Accepted
  <2>2. TypeOK'
    BY <1>0, <1>2 DEF TypeOK
  <2>3. RunOK' /\ Placed' /\ EarlyOK'
    BY <1>0, <1>2, <2>1 DEF RunOK, Placed, EarlyOK, DrainedOnReturn
  <2>4. QED BY <2>2, <2>3
<1>3. QED BY <1>1, <1>2 DEF Record

LEMMA ReceiveInv == ASSUME Inv, Receive PROVE Inv'
<1> USE DEF Inv
<1>0. /\ run \in {"select", "drain"} /\ ~ flushing /\ queue # <<>>
      /\ batch' = Append(batch, Head(queue)) /\ queue' = Tail(queue)
      /\ flushing' = (Len(batch') >= BatchSize)
      /\ UNCHANGED <<visit, run, cancelled, log, dropped, early>>
      /\ UNCHANGED <<Accepted, Settled>>
  BY DEF Receive, Accepted, Settled
<1>1. /\ Head(queue) \in Visits /\ queue' \in Seq(Visits) /\ Len(queue') = Len(queue) - 1
      /\ ToSet(queue) = {Head(queue)} \union ToSet(queue')
      /\ IsInjective(queue) => Head(queue) \notin ToSet(queue') /\ IsInjective(queue')
  BY <1>0, Taking DEF TypeOK
<1>2. /\ batch' \in Seq(Visits) /\ Len(batch') = Len(batch) + 1
      /\ ToSet(batch') = ToSet(batch) \union {Head(queue)}
      /\ IsInjective(batch) /\ Head(queue) \notin ToSet(batch) => IsInjective(batch')
  BY <1>0, <1>1, Appending DEF TypeOK
<1>3. Len(queue) \in Nat /\ Len(batch) \in Nat
  BY DEF TypeOK
<1>4. TypeOK'
  BY <1>0, <1>1, <1>2, <1>3 DEF TypeOK, RunOK
<1>5. RunOK'
  <2>1. ~ flushing' => Len(batch') < BatchSize
    <3>1. CASE Len(batch') >= BatchSize
      BY <1>0, <3>1, Zenon
    <3>2. Len(batch') < BatchSize \/ Len(batch') >= BatchSize
      BY <1>2, <1>3
    <3>3. QED BY <3>1, <3>2
  <2>2. QED BY <1>0, <2>1 DEF RunOK
<1>6. Placed'
  BY <1>0, <1>1, <1>2 DEF Placed
<1>7. EarlyOK'
  BY <1>0 DEF EarlyOK, DrainedOnReturn
<1>8. QED BY <1>4, <1>5, <1>6, <1>7

LEMMA DrainEmptyInv == ASSUME Inv, DrainEmpty PROVE Inv'
<1> USE DEF Inv
<1>0. /\ run = "drain" /\ ~ flushing /\ queue = <<>>
      /\ UNCHANGED <<visit, queue, batch, cancelled, log, dropped, early>>
      /\ UNCHANGED <<Accepted, Settled>>
      /\ IF batch = <<>> THEN run' = "returned" /\ UNCHANGED flushing
                         ELSE run' = "last" /\ flushing' = TRUE
  BY DEF DrainEmpty, Accepted, Settled
<1>1. ToSet(queue) = {} /\ (batch = <<>> => ToSet(batch) = {})
  BY <1>0 DEF ToSet
<1>2. TypeOK'
  BY <1>0 DEF TypeOK, Running
<1>3. RunOK'
  BY <1>0 DEF RunOK
<1>4. Placed'
  BY <1>0 DEF Placed
<1>5. EarlyOK'
  BY <1>0, <1>1 DEF EarlyOK, DrainedOnReturn, Placed
<1>6. QED BY <1>2, <1>3, <1>4, <1>5

LEMMA FlushInv == ASSUME Inv, Flush PROVE Inv'
<1> USE DEF Inv
<1>0. /\ flushing /\ run # "killed" /\ Write(batch)
      /\ batch' = <<>> /\ flushing' = FALSE
      /\ run' = IF run = "last" THEN "returned" ELSE run
      /\ UNCHANGED <<visit, queue, cancelled, early>>
      /\ UNCHANGED Accepted
  BY DEF Flush, Accepted
<1>1. ToSet(batch') = {} /\ IsInjective(batch') /\ batch' \in Seq(Visits) /\ Len(batch') = 0
  BY <1>0 DEF ToSet, IsInjective
<1>2. /\ log' \in Seq(Visits) /\ dropped' \subseteq Visits
      /\ Settled' = Settled \union ToSet(batch)
      /\ /\ IsInjective(log) /\ IsInjective(batch)
         /\ ToSet(batch) \intersect Settled = {}
         /\ ToSet(log) \intersect dropped = {}
         => IsInjective(log') /\ ToSet(log') \intersect dropped' = {}
  BY <1>0, WriteSettles
<1>3. TypeOK'
  <2>1. batch' \in Seq(Visits) /\ Len(batch') <= BatchSize /\ run' \in Running
    BY <1>0, <1>1 DEF TypeOK, Running
  <2>2. flushing' \in BOOLEAN /\ UNCHANGED <<visit, queue, cancelled, early>>
    BY <1>0
  <2>3. QED BY <1>2, <2>1, <2>2 DEF TypeOK
<1>4. RunOK'
  BY <1>0, <1>1 DEF RunOK, TypeOK, Running
<1>5. Placed'
  BY <1>0, <1>1, <1>2 DEF Placed
<1>6. EarlyOK'
  BY <1>0, <1>2 DEF EarlyOK, DrainedOnReturn, RunOK
<1>7. QED BY <1>3, <1>4, <1>5, <1>6

LEMMA ExitInv == ASSUME Inv, Exit PROVE Inv'
<1> USE DEF Inv
<1>0. /\ run' = "killed" /\ queue' = <<>> /\ batch' = <<>> /\ flushing' = FALSE
      /\ log' \in {log, log \o batch}
      /\ UNCHANGED <<visit, cancelled, dropped, early>>
      /\ UNCHANGED Accepted
  BY DEF Exit, Accepted
<1>1. log' \in Seq(Visits)
  <2>1. log \in Seq(Visits) /\ batch \in Seq(Visits)
    BY DEF TypeOK
  <2>2. log \o batch \in Seq(Visits)
    BY <2>1, Joining
  <2>3. QED BY <1>0, <2>1, <2>2
<1>2. TypeOK'
  <2>1. /\ queue' \in Seq(Visits) /\ Len(queue') <= QueueSize
        /\ batch' \in Seq(Visits) /\ Len(batch') <= BatchSize
    BY <1>0
  <2>2. run' \in Running /\ flushing' \in BOOLEAN
    BY <1>0 DEF Running
  <2>3. UNCHANGED <<visit, cancelled, dropped, early>>
    BY <1>0
  <2>4. QED BY <1>1, <2>1, <2>2, <2>3 DEF TypeOK
<1>3. RunOK' /\ Placed' /\ EarlyOK'
  BY <1>0 DEF RunOK, Placed, EarlyOK, DrainedOnReturn
<1>4. QED BY <1>2, <1>3

\* Every step keeps the invariant.
LEMMA NextInv == Inv /\ [Next]_vars => Inv'
<1>1. SUFFICES ASSUME Inv, [Next]_vars PROVE Inv'
  OBVIOUS
<1>2. ASSUME NEW v \in Visits, Record(v) PROVE Inv'
  BY <1>1, <1>2, RecordInv
<1>3. CASE Cancel
  <2>1. UNCHANGED <<Accepted, Settled>>
    BY <1>3 DEF Cancel, Accepted, Settled
  <2>2. QED BY <1>1, <1>3, <2>1
         DEF Cancel, Inv, TypeOK, RunOK, Placed, EarlyOK, DrainedOnReturn
<1>4. CASE Exit
  BY <1>1, <1>4, ExitInv
<1>5. CASE Receive
  BY <1>1, <1>5, ReceiveInv
<1>6. CASE TickFlush
  <2>1. UNCHANGED <<Accepted, Settled>>
    BY <1>6 DEF TickFlush, Accepted, Settled
  <2>2. QED BY <1>1, <1>6, <2>1
         DEF TickFlush, Inv, TypeOK, RunOK, Placed, EarlyOK, DrainedOnReturn
<1>7. CASE SeeCancel
  <2>1. UNCHANGED <<Accepted, Settled>>
    BY <1>7 DEF SeeCancel, Accepted, Settled
  <2>2. QED BY <1>1, <1>7, <2>1
         DEF SeeCancel, Inv, TypeOK, Running, RunOK, Placed, EarlyOK, DrainedOnReturn
<1>8. CASE DrainEmpty
  BY <1>1, <1>8, DrainEmptyInv
<1>9. CASE Flush
  BY <1>1, <1>9, FlushInv
<1>10. CASE UNCHANGED vars
  <2>1. UNCHANGED <<Accepted, Settled>>
    BY <1>10 DEF vars, Accepted, Settled
  <2>2. QED BY <1>1, <1>10, <2>1
         DEF vars, Inv, TypeOK, RunOK, Placed, EarlyOK, DrainedOnReturn
<1>11. QED BY <1>1, <1>2, <1>3, <1>4, <1>5, <1>6, <1>7, <1>8, <1>9, <1>10 DEF Next

LEMMA Invariance == Spec => []Inv
<1>1. QED BY InitInv, NextInv, PTL DEF Spec

\* Injective pieces with disjoint ranges count every visit once.
LEMMA PlacedCounts == Inv => CountedOnce
<1>1. SUFFICES ASSUME Inv, run # "killed" PROVE CountedOnce
  BY DEF CountedOnce
<1> DEFINE places == queue \o batch \o log
<1>2. /\ queue \in Seq(Visits) /\ batch \in Seq(Visits) /\ log \in Seq(Visits)
      /\ Placed
  BY <1>1 DEF Inv, TypeOK
<1>3. /\ IsInjective(queue) /\ IsInjective(batch) /\ IsInjective(log)
      /\ ToSet(queue) \intersect ToSet(batch) = {}
      /\ ToSet(queue) \intersect ToSet(log) = {}
      /\ ToSet(batch) \intersect ToSet(log) = {}
      /\ (ToSet(queue) \union ToSet(batch) \union ToSet(log)) \intersect dropped = {}
      /\ ToSet(queue) \union ToSet(batch) \union ToSet(log) \union dropped = Accepted
  BY <1>1, <1>2 DEF Placed, Settled
<1>4. /\ queue \o batch \in Seq(Visits) /\ IsInjective(queue \o batch)
      /\ ToSet(queue \o batch) = ToSet(queue) \union ToSet(batch)
  BY <1>2, <1>3, Joining
<1>5. /\ places \in Seq(Visits) /\ IsInjective(places)
      /\ ToSet(places) = ToSet(queue) \union ToSet(batch) \union ToSet(log)
  <2>1. PICK s \in Seq(Visits) : s = queue \o batch
    BY <1>4
  <2>2. IsInjective(s) /\ ToSet(s) = ToSet(queue) \union ToSet(batch)
    BY <1>4, <2>1
  <2>3. /\ s \o log \in Seq(Visits) /\ ToSet(s \o log) = ToSet(s) \union ToSet(log)
        /\ IsInjective(s \o log)
    BY <1>2, <1>3, <2>2, Joining
  <2>4. QED BY <2>1, <2>2, <2>3
<1>6. ToSet(places) \union dropped = Accepted
  BY <1>3, <1>5
<1>7. ASSUME NEW v \in Accepted
      PROVE  Cardinality({i \in DOMAIN places : places[i] = v}) = IF v \in dropped THEN 0 ELSE 1
  <2>1. v \in ToSet(places) <=> v \notin dropped
    BY <1>3, <1>5
  <2>2. QED BY <1>5, <2>1, Counting
<1>8. QED BY <1>6, <1>7 DEF CountedOnce

-----------------------------------------------------------------------------
\* Every variable keeps its type; the channel and the batch never outgrow their
\* limits (Record, run).
THEOREM TypeCorrect == Spec => []TypeOK
<1>1. Inv => TypeOK
  BY DEF Inv
<1>2. QED BY <1>1, Invariance, PTL

\* For any number of visits and any sizes of channel and batch, every accepted
\* visit is in one place, once, as long as the process lives (run, flush).
THEOREM CountsOnce == Spec => []CountedOnce
<1>1. QED BY PlacedCounts, Invariance, PTL

\* What was accepted before the context was over is settled when the goroutine
\* returns (run).
THEOREM DrainsOnReturn == Spec => []DrainedOnReturn
<1>1. Inv => DrainedOnReturn
  BY DEF Inv, EarlyOK
<1>2. QED BY <1>1, Invariance, PTL

-----------------------------------------------------------------------------
(* The recorder behind the gateway                                         *)

\* The handler of v redirects, or has been cut off on its way there.
Redirecting(v) ==
  \/ phase[v] \in {"record", "redirected"}
  \/ phase[v] = "cut" /\ gateway = "gone"

\* A call of RecordVisit that may still reach the recorder is part of one.
CallsAreRedirects == \A v \in Visits : at[v] = "sent" => Redirecting(v)

\* A visit that the recorder has accepted is that of a redirection.
CountedAreRedirects ==
  \A v \in Accepted :
    \/ phase[v] \in {"record", "redirected"}
    \/ phase[v] = "cut" /\ gateway = "gone"

GatewayInv == GatewayTypeOK /\ CallsAreRedirects /\ CountedAreRedirects

-----------------------------------------------------------------------------
(* Steps                                                                   *)

\* The steps of the gateway and of statsvc's main leave the recorder alone, or
\* end its process; the rest are its own.
LEMMA StepIsRecorderStep == [GatewayNext]_allVars => [Next]_vars
<1>1. SUFFICES ASSUME [GatewayNext]_allVars PROVE [Next]_vars
  OBVIOUS
<1>2. CASE Dial \/ DialFails \/ Shutdown \/ GatewayExit
  BY <1>2 DEF Dial, DialFails, Shutdown, GatewayExit
<1>3. ASSUME NEW v \in Visits,
             \/ Arrive(v) \/ Answer(v) \/ Resolved(v) \/ ResolveFails(v)
             \/ RecordReturns(v) \/ LoseCall(v)
      PROVE  UNCHANGED vars
  BY <1>3 DEF Arrive, Answer, Resolved, ResolveFails, RecordReturns, LoseCall, Goes
<1>4. ASSUME NEW v \in Visits, RecordVisit(v) PROVE Next
  BY <1>4 DEF RecordVisit, Next
<1>5. CASE Register \/ Listen \/ StopServing
  BY <1>5 DEF Register, Listen, StopServing
<1>6. CASE ServeReturns \/ Fatal
  BY <1>6 DEF ServeReturns, Fatal, ProcessEnds, Next
<1>7. CASE RecorderStep \/ Signal
  BY <1>7 DEF RecorderStep, Signal, Next
<1>8. CASE UNCHANGED allVars
  BY <1>8 DEF allVars
<1>9. QED BY <1>1, <1>2, <1>3, <1>4, <1>5, <1>6, <1>7, <1>8 DEF GatewayNext

LEMMA GatewayInitInv == GatewayInit => GatewayInv
<1>1. SUFFICES ASSUME GatewayInit PROVE GatewayInv
  OBVIOUS
<1>2. TypeOK
  BY <1>1, InitInv DEF GatewayInit, Inv
<1>3. /\ gateway \in {"dialing", "serving", "closing", "gone"}
      /\ conns \in 0..Connections /\ (gateway = "dialing" => conns < Connections)
      /\ server \in {"starting", "registered", "serving", "stopping", "stopped"}
      /\ phase \in [Visits -> Phases] /\ at \in [Visits -> {"none", "sent"}]
      /\ misreported \subseteq Visits
      /\ \A v \in Visits : at[v] = "none" /\ v \notin Accepted
  BY <1>1 DEF GatewayInit, Connections, Phases, Open, Init, Accepted
<1>4. GatewayTypeOK
  BY <1>2, <1>3 DEF GatewayTypeOK
<1>5. CallsAreRedirects /\ CountedAreRedirects
  BY <1>3 DEF CallsAreRedirects, CountedAreRedirects, Accepted
<1>6. QED BY <1>4, <1>5 DEF GatewayInv

\* The steps that leave the requests alone, and a gateway that has ended.
LEMMA ProcessSteps ==
  ASSUME GatewayInv, TypeOK',
         UNCHANGED <<phase, at, misreported, Accepted>>,
         gateway' \in {"dialing", "serving", "closing", "gone"},
         conns' \in 0..Connections, gateway' = "dialing" => conns' < Connections,
         server' \in {"starting", "registered", "serving", "stopping", "stopped"},
         gateway = "gone" => gateway' = "gone"
  PROVE  GatewayInv'
<1>1. GatewayTypeOK'
  BY DEF GatewayInv, GatewayTypeOK
<1>2. CallsAreRedirects' /\ CountedAreRedirects'
  BY DEF GatewayInv, CallsAreRedirects, CountedAreRedirects, Redirecting
<1>3. QED BY <1>1, <1>2 DEF GatewayInv

\* A handler goes on, from where its visit cannot have been counted or towards a
\* redirection.
LEMMA HandlerSteps ==
  ASSUME GatewayInv, NEW v \in Visits, NEW p \in Phases, NEW c \in {"none", "sent"},
         Goes(v, p, c), misreported' \subseteq Visits,
         phase[v] \in {"new", "call", "resolve"} \/ p = "redirected",
         c = "sent" => p \in {"record", "redirected"}
  PROVE  GatewayInv'
<1>1. /\ gateway # "gone" /\ UNCHANGED <<vars, gateway, conns, server>>
      /\ phase' = [phase EXCEPT ![v] = p] /\ at' = [at EXCEPT ![v] = c]
  BY DEF Goes
<1>2. UNCHANGED Accepted /\ TypeOK'
  BY <1>1 DEF vars, Accepted, GatewayInv, GatewayTypeOK, TypeOK
<1>3. phase \in [Visits -> Phases] /\ at \in [Visits -> {"none", "sent"}]
  BY DEF GatewayInv, GatewayTypeOK
<1>4. GatewayTypeOK'
  BY <1>1, <1>2, <1>3 DEF GatewayInv, GatewayTypeOK
<1>5. CallsAreRedirects'
  BY <1>1, <1>3 DEF GatewayInv, CallsAreRedirects, Redirecting
<1>6. CountedAreRedirects'
  <2>1. ASSUME NEW u \in Accepted, u # v
        PROVE  phase[u]' = phase[u] /\ gateway' = gateway
    BY <1>1, <1>3, <2>1 DEF Accepted
  <2>2. v \in Accepted => p = "redirected"
    BY <1>1 DEF GatewayInv, CountedAreRedirects
  <2>3. phase'[v] = p
    BY <1>1, <1>3
  <2>4. QED BY <1>1, <1>2, <2>1, <2>2, <2>3 DEF GatewayInv, CountedAreRedirects
<1>7. QED BY <1>4, <1>5, <1>6 DEF GatewayInv

LEMMA GatewayExitInv == ASSUME GatewayInv, GatewayExit PROVE GatewayInv'
<1>1. /\ gateway' = "gone" /\ conns' = 0 /\ UNCHANGED <<vars, misreported, server, at>>
      /\ phase' = [v \in Visits |-> IF phase[v] \in Open THEN "cut" ELSE phase[v]]
  BY DEF GatewayExit
<1>2. UNCHANGED Accepted /\ TypeOK'
  BY <1>1 DEF vars, Accepted, GatewayInv, GatewayTypeOK, TypeOK
<1>3. ASSUME NEW v \in Visits
      PROVE  /\ phase'[v] \in Phases
             /\ Redirecting(v) => Redirecting(v)'
             /\ phase[v] \in {"record", "redirected", "cut"}
                  => phase'[v] \in {"record", "redirected", "cut"}
  BY <1>1 DEF GatewayInv, GatewayTypeOK, Phases, Open, Redirecting
<1>4. phase' \in [Visits -> Phases]
  BY <1>1, <1>3
<1>5. GatewayTypeOK'
  BY <1>1, <1>2, <1>3, <1>4 DEF GatewayInv, GatewayTypeOK, Connections
<1>6. CallsAreRedirects'
  BY <1>1, <1>3 DEF GatewayInv, CallsAreRedirects
<1>7. CountedAreRedirects'
  BY <1>2, <1>3 DEF GatewayInv, CountedAreRedirects, Redirecting, Accepted
<1>8. QED BY <1>5, <1>6, <1>7 DEF GatewayInv

\* The visit was under way, so its request redirects.
LEMMA RecordVisitInv ==
  ASSUME GatewayInv, TypeOK', NEW v \in Visits, RecordVisit(v) PROVE GatewayInv'
<1>1. /\ at[v] = "sent" /\ Record(v) /\ at' = [at EXCEPT ![v] = "none"]
      /\ UNCHANGED <<gatewayVars, server>>
  BY DEF RecordVisit
<1>2. at \in [Visits -> {"none", "sent"}]
  BY DEF GatewayInv, GatewayTypeOK
<1>3. Accepted' \subseteq Accepted \union {v}
  BY <1>1 DEF Record, Accepted, GatewayInv, GatewayTypeOK, TypeOK
<1>4. Redirecting(v)
  BY <1>1 DEF GatewayInv, CallsAreRedirects
<1>5. GatewayTypeOK'
  BY <1>1, <1>2 DEF gatewayVars, GatewayInv, GatewayTypeOK
<1>6. CallsAreRedirects'
  BY <1>1, <1>2 DEF gatewayVars, GatewayInv, CallsAreRedirects, Redirecting
<1>7. CountedAreRedirects'
  BY <1>1, <1>3, <1>4 DEF gatewayVars, GatewayInv, CountedAreRedirects, Redirecting
<1>8. QED BY <1>5, <1>6, <1>7 DEF GatewayInv

LEMMA LoseCallInv ==
  ASSUME GatewayInv, NEW v \in Visits, LoseCall(v) PROVE GatewayInv'
<1>1. /\ at' = [at EXCEPT ![v] = "none"] /\ UNCHANGED <<vars, gatewayVars, server>>
  BY DEF LoseCall
<1>2. UNCHANGED Accepted /\ TypeOK'
  BY <1>1 DEF vars, Accepted, GatewayInv, GatewayTypeOK, TypeOK
<1>3. at \in [Visits -> {"none", "sent"}]
  BY DEF GatewayInv, GatewayTypeOK
<1>4. GatewayTypeOK'
  BY <1>1, <1>2, <1>3 DEF gatewayVars, GatewayInv, GatewayTypeOK
<1>5. CallsAreRedirects' /\ CountedAreRedirects'
  BY <1>1, <1>2, <1>3
     DEF gatewayVars, GatewayInv, CallsAreRedirects, CountedAreRedirects, Redirecting
<1>6. QED BY <1>4, <1>5 DEF GatewayInv

\* A failed call is reported as a service of the same process would report it.
LEMMA FaithfulReports ==
  ASSUME NEW failure \in Failures
  PROVE  writeError(ClientError(failure)) = writeError(DirectError(failure))
<1>1. CASE failure \in ServiceErrors
  <2>1. CASE failure \in {"ErrInvalidCode", "ErrInvalidURL"}
    <3>1. /\ toStatus(failure).code = "InvalidArgument"
          /\ toStatus(failure).url = (failure = "ErrInvalidURL")
      BY <2>1 DEF toStatus
    <3>2. fromStatus(toStatus(failure)) = failure
      BY <2>1, <3>1 DEF fromStatus
    <3>3. QED BY <1>1, <3>2 DEF ClientError, DirectError
  <2>2. CASE failure \in {"ErrNotFound", "ErrExpired", "ErrQueueFull", "other"}
    <3>1. fromStatus(toStatus(failure)) = failure
      BY <2>2 DEF fromStatus, toStatus
    <3>2. QED BY <1>1, <3>1 DEF ClientError, DirectError
  <2>3. QED BY <1>1, <2>1, <2>2 DEF ServiceErrors
<1>2. CASE failure \in TransportFailures
  <2>1. failure \notin ServiceErrors
    BY <1>2 DEF TransportFailures, ServiceErrors
  <2>2. fromStatus([code |-> failure, url |-> FALSE]) = "other"
    BY <1>2 DEF TransportFailures, fromStatus
  <2>3. QED BY <2>1, <2>2 DEF ClientError, DirectError
<1>3. QED BY <1>1, <1>2 DEF Failures

LEMMA ReportsNothingElse ==
  ASSUME NEW v \in Visits, UNCHANGED misreported \/ Reports(v) PROVE UNCHANGED misreported
  BY FaithfulReports DEF Reports

\* Every step keeps the invariant; a step that leaves the recorder's state type
\* correct is needed for its own part.
LEMMA GatewayNextInv == GatewayInv /\ TypeOK' /\ [GatewayNext]_allVars => GatewayInv'
<1>1. SUFFICES ASSUME GatewayInv, TypeOK', [GatewayNext]_allVars PROVE GatewayInv'
  OBVIOUS
<1>2. /\ gateway \in {"dialing", "serving", "closing", "gone"}
      /\ conns \in 0..Connections /\ (gateway = "dialing" => conns < Connections)
      /\ server \in {"starting", "registered", "serving", "stopping", "stopped"}
      /\ at \in [Visits -> {"none", "sent"}] /\ misreported \subseteq Visits
  BY <1>1 DEF GatewayInv, GatewayTypeOK
<1>3. CASE Dial
  <2>1. conns' \in 0..Connections /\ (gateway' = "dialing" => conns' < Connections)
    BY <1>2, <1>3 DEF Dial, Connections
  <2>2. QED BY <1>1, <1>2, <1>3, <2>1, ProcessSteps DEF Dial, vars, Accepted
<1>4. CASE DialFails
  BY <1>1, <1>2, <1>4, ProcessSteps DEF DialFails, vars, Accepted, Connections
<1>5. CASE Shutdown
  BY <1>1, <1>2, <1>5, ProcessSteps DEF Shutdown, vars, Accepted
<1>6. CASE GatewayExit
  BY <1>1, <1>6, GatewayExitInv
<1>7. ASSUME NEW v \in Visits,
             \/ Arrive(v) \/ Answer(v) \/ Resolved(v) \/ ResolveFails(v) \/ RecordReturns(v)
      PROVE  GatewayInv'
  <2>1. misreported' = misreported
    BY <1>7, ReportsNothingElse
       DEF Arrive, Answer, Resolved, ResolveFails, RecordReturns
  <2>2. CASE Arrive(v)
    BY <1>1, <1>2, <2>1, <2>2, HandlerSteps DEF Arrive, Phases, Open
  <2>3. CASE Answer(v)
    BY <1>1, <1>2, <2>1, <2>3, HandlerSteps DEF Answer, Phases
  <2>4. CASE Resolved(v)
    BY <1>1, <1>2, <2>1, <2>4, HandlerSteps DEF Resolved, Phases, Open
  <2>5. CASE ResolveFails(v)
    BY <1>1, <1>2, <2>1, <2>5, HandlerSteps DEF ResolveFails, Phases
  <2>6. CASE RecordReturns(v)
    BY <1>1, <1>2, <2>1, <2>6, HandlerSteps DEF RecordReturns, Phases
  <2>7. QED BY <1>7, <2>2, <2>3, <2>4, <2>5, <2>6
<1>8. ASSUME NEW v \in Visits, RecordVisit(v) PROVE GatewayInv'
  BY <1>1, <1>8, RecordVisitInv
<1>9. ASSUME NEW v \in Visits, LoseCall(v) PROVE GatewayInv'
  BY <1>1, <1>9, LoseCallInv
<1>10. CASE Register \/ Listen \/ StopServing
  BY <1>1, <1>2, <1>10, ProcessSteps
     DEF Register, Listen, StopServing, vars, gatewayVars, Accepted
<1>11. CASE ServeReturns \/ Fatal
  <2>1. ProcessEnds
    BY <1>11 DEF ServeReturns, Fatal
  <2>2. UNCHANGED visit
    BY <2>1 DEF ProcessEnds, Exit, vars
  <2>3. QED BY <1>1, <1>2, <2>1, <2>2, ProcessSteps DEF ProcessEnds, gatewayVars, Accepted
<1>12. CASE RecorderStep \/ Signal
  <2>1. UNCHANGED visit /\ UNCHANGED <<gatewayVars, server, at>>
    BY <1>12 DEF RecorderStep, Signal, Receive, TickFlush, SeeCancel, DrainEmpty, Flush,
                 Cancel
  <2>2. QED BY <1>1, <1>2, <2>1, ProcessSteps DEF gatewayVars, Accepted
<1>13. CASE UNCHANGED allVars
  BY <1>1, <1>2, <1>13, ProcessSteps DEF allVars, vars, gatewayVars, Accepted
<1>14. QED BY <1>1, <1>3, <1>4, <1>5, <1>6, <1>7, <1>8, <1>9, <1>10, <1>11, <1>12, <1>13
           DEF GatewayNext

-----------------------------------------------------------------------------
\* The recorder behind the gateway is the recorder: what it promises wherever
\* visits come from holds in statsvc (RecordVisit, main).
THEOREM ImplementsRecorder == GatewaySpec => Spec
<1>1. GatewayInit => Init
  BY DEF GatewayInit
<1>2. QED BY <1>1, StepIsRecorderStep, PTL DEF GatewaySpec, Spec

\* No visit is counted twice, whichever calls are late or lost.
THEOREM GatewayCountsOnce == GatewaySpec => []CountedOnce
<1>1. QED BY ImplementsRecorder, CountsOnce, PTL

\* No early visit is left behind when the recorder returns, with the gateway's
\* calls still coming in.
THEOREM GatewayDrains == GatewaySpec => []DrainedOnReturn
<1>1. QED BY ImplementsRecorder, DrainsOnReturn, PTL

LEMMA GatewayInvariance == GatewaySpec => []GatewayInv
<1>1. GatewaySpec => []TypeOK
  BY ImplementsRecorder, TypeCorrect, PTL
<1>2. QED BY <1>1, GatewayInitInv, GatewayNextInv, PTL DEF GatewaySpec

\* Every variable of Gateway keeps its type.
THEOREM GatewayTypeCorrect == GatewaySpec => []GatewayTypeOK
<1>1. GatewayInv => GatewayTypeOK
  BY DEF GatewayInv
<1>2. QED BY <1>1, GatewayInvariance, PTL

\* For any number of requests: only redirections are counted (redirect, Record).
THEOREM OnlyRedirectsCount == GatewaySpec => []VisitsAreRedirects
<1>1. GatewayInv => VisitsAreRedirects
  BY DEF GatewayInv, CountedAreRedirects, VisitsAreRedirects
<1>2. QED BY <1>1, GatewayInvariance, PTL

\* No failure changes its meaning on the way to the client (toStatus, fromStatus,
\* writeError).
THEOREM ErrorsKeepMeaning == GatewaySpec => []ErrorsSurviveGrpc
<1>1. GatewayInit => ErrorsSurviveGrpc
  BY DEF GatewayInit, ErrorsSurviveGrpc
<1>2. ErrorsSurviveGrpc /\ [GatewayNext]_allVars => ErrorsSurviveGrpc'
  <2>1. SUFFICES ASSUME [GatewayNext]_allVars PROVE UNCHANGED misreported
    BY DEF ErrorsSurviveGrpc
  <2>2. ASSUME NEW v \in Visits,
               \/ Arrive(v) \/ Answer(v) \/ Resolved(v) \/ ResolveFails(v)
               \/ RecordReturns(v) \/ RecordVisit(v) \/ LoseCall(v)
        PROVE  UNCHANGED misreported
    BY <2>2, ReportsNothingElse DEF Arrive, Answer, Resolved, ResolveFails, RecordReturns,
                                    RecordVisit, LoseCall, gatewayVars
  <2>3. CASE Dial \/ DialFails \/ Shutdown \/ GatewayExit
    BY <2>3 DEF Dial, DialFails, Shutdown, GatewayExit
  <2>4. CASE Register \/ Listen \/ StopServing \/ ServeReturns \/ Fatal
    BY <2>4 DEF Register, Listen, StopServing, ServeReturns, Fatal, ProcessEnds, gatewayVars
  <2>5. CASE RecorderStep \/ Signal
    BY <2>5 DEF RecorderStep, Signal, gatewayVars
  <2>6. CASE UNCHANGED allVars
    BY <2>6 DEF allVars, gatewayVars
  <2>7. QED BY <2>1, <2>2, <2>3, <2>4, <2>5, <2>6 DEF GatewayNext
<1>3. QED BY <1>1, <1>2, PTL DEF GatewaySpec

-----------------------------------------------------------------------------
(* Numbers and their sums                                                  *)

HIDE SizesAssumption

\* A set of numbers has a least one.
LEMMA Least ==
  ASSUME NEW T \in SUBSET Nat, T # {}
  PROVE  \E x \in T : \A y \in T : x <= y
<1> DEFINE R == OpToRel(<, Nat)
<1>1. IsWellFoundedOn(R, Nat)
  BY NatLessThanWellFounded
<1>2. \A x, y \in Nat : x < y => <<x, y>> \in R
  BY DEF OpToRel
<1> HIDE DEF R
<1>3. PICK x \in T : \A y \in T : ~ (<<y, x>> \in R)
  BY <1>1, WFMin
<1> SUFFICES ASSUME NEW y \in T PROVE x <= y
  BY <1>3
<1>4. x \in Nat /\ y \in Nat
  BY <1>3
<1>5. ~ (y < x)
  BY <1>2, <1>3, <1>4
<1> QED BY <1>4, <1>5

\* A property of 0 that each number passes on to the next holds up to n.
LEMMA UpTo ==
  ASSUME NEW n \in Nat, NEW T, 0 \in T, \A i \in 1..n : i - 1 \in T => i \in T
  PROVE  \A i \in 0..n : i \in T
<1> DEFINE F == {i \in 0..n : i \notin T}
<1>1. F \in SUBSET Nat /\ 0 \notin F
  OBVIOUS
<1>2. SUFFICES ASSUME F # {} PROVE FALSE
  OBVIOUS
<1>3. PICK m \in F : \A i \in F : m <= i
  <2> HIDE DEF F
  <2> QED BY <1>1, <1>2, Least
<1>4. m \in 1..n /\ m - 1 \in 0..n /\ ~ (m <= m - 1) /\ m \notin T
  BY <1>1, <1>3
<1>5. m - 1 \in T
  BY <1>3, <1>4
<1> QED BY <1>4, <1>5

\* The recursive function of Sum exists, and so its equations hold.
LEMMA SumAddsUp ==
  ASSUME NEW n \in Nat, NEW s \in [1..n -> Nat]
  PROVE  \E f \in [0..n -> Nat] : /\ f[0] = 0
                                  /\ \A i \in 1..n : f[i] = f[i - 1] + s[i]
                                  /\ Sum(s) = f[n]
<1> DEFINE Adds(f, m) == f[0] = 0 /\ \A i \in 1..m : f[i] = f[i - 1] + s[i]
           T == {m \in 0..n : \E g \in [0..m -> Nat] : Adds(g, m)}
           sum == CHOOSE f : f = [i \in 0..n |-> IF i = 0 THEN 0 ELSE f[i - 1] + s[i]]
<1>1. Len(s) = n
  <2> DEFINE r == [i \in 1..n |-> s[i]]
  <2>1. Len(r) = n
    OBVIOUS
  <2>2. r = s
    OBVIOUS
  <2> QED BY <2>1, <2>2
<1>2. Sum(s) = sum[n]
  BY <1>1 DEF Sum
<1>3. 0 \in T
  <2> DEFINE g == [i \in 0..0 |-> 0]
  <2>1. g \in [0..0 -> Nat] /\ Adds(g, 0)
    OBVIOUS
  <2>2. 0 \in 0..n
    OBVIOUS
  <2> HIDE DEF g
  <2> QED BY <2>1, <2>2
<1>4. ASSUME NEW m \in 1..n, m - 1 \in T PROVE m \in T
  <2>1. PICK g \in [0..(m - 1) -> Nat] : Adds(g, m - 1)
    BY <1>4
  <2>2. /\ m \in Nat /\ m # 0 /\ m - 1 \in 0..(m - 1) /\ 0 \in 0..m /\ m \in 0..n
        /\ \A i \in 1..m : i \in 0..m /\ i - 1 \in 0..m /\ i - 1 # m
        /\ \A i \in 0..m : i # m => i \in 0..(m - 1)
        /\ \A i \in 1..m : i # m => i \in 1..(m - 1) /\ i - 1 \in 0..(m - 1)
    OBVIOUS
  <2>3. g[m - 1] + s[m] \in Nat
    BY <2>2
  <2> DEFINE h == [i \in 0..m |-> IF i = m THEN g[m - 1] + s[m] ELSE g[i]]
  <2>4. h \in [0..m -> Nat]
    BY <2>2, <2>3
  <2>5. h[0] = 0
    BY <2>1, <2>2
  <2>6. h[m] = h[m - 1] + s[m]
    BY <2>2
  <2>7. \A i \in 1..m : i # m => h[i] = g[i] /\ h[i - 1] = g[i - 1]
    BY <2>2
  <2> HIDE DEF h
  <2>8. Adds(h, m)
    BY <2>1, <2>2, <2>5, <2>6, <2>7
  <2> QED BY <2>2, <2>4, <2>8
<1>5. n \in T
  <2> HIDE DEF T
  <2>1. \A i \in 0..n : i \in T
    BY <1>3, <1>4, UpTo
  <2> QED BY <2>1
<1>6. PICK g \in [0..n -> Nat] : Adds(g, n)
  BY <1>5
<1>7. g = [i \in 0..n |-> IF i = 0 THEN 0 ELSE g[i - 1] + s[i]]
  <2>1. \A i \in 0..n : i = 0 \/ i \in 1..n
    OBVIOUS
  <2>2. \A i \in 0..n : g[i] = IF i = 0 THEN 0 ELSE g[i - 1] + s[i]
    BY <1>6, <2>1
  <2> QED BY <2>2
<1>8. sum = [i \in 0..n |-> IF i = 0 THEN 0 ELSE sum[i - 1] + s[i]]
  BY <1>7
<1> HIDE DEF sum
<1>9. sum[0] = 0 /\ \A i \in 1..n : sum[i] = sum[i - 1] + s[i]
  <2>1. 0 \in 0..n /\ \A i \in 1..n : i \in 0..n /\ i # 0
    OBVIOUS
  <2> QED BY <1>8, <2>1
<1>10. \A i \in 0..n : sum[i] = g[i]
  <2> DEFINE E == {i \in 0..n : sum[i] = g[i]}
  <2>1. 0 \in E
    BY <1>6, <1>9
  <2>2. ASSUME NEW i \in 1..n, i - 1 \in E PROVE i \in E
    BY <1>6, <1>9, <2>2
  <2> HIDE DEF E
  <2>3. \A i \in 0..n : i \in E
    BY <2>1, <2>2, UpTo
  <2> QED BY <2>3 DEF E
<1>11. Sum(s) = g[n]
  BY <1>2, <1>10
<1> QED BY <1>6, <1>11

\* A sum grows by what one of its numbers grows by.
LEMMA SumGrows ==
  ASSUME NEW n \in Nat, NEW s \in [1..n -> Nat], NEW t \in [1..n -> Nat],
         NEW w \in 1..n, NEW d \in Nat,
         t[w] = s[w] + d, \A i \in 1..n : i # w => t[i] = s[i]
  PROVE  Sum(t) = Sum(s) + d
<1>1. PICK f \in [0..n -> Nat] : /\ f[0] = 0 /\ \A i \in 1..n : f[i] = f[i - 1] + s[i]
                                 /\ Sum(s) = f[n]
  BY SumAddsUp
<1>2. PICK g \in [0..n -> Nat] : /\ g[0] = 0 /\ \A i \in 1..n : g[i] = g[i - 1] + t[i]
                                 /\ Sum(t) = g[n]
  BY SumAddsUp
<1> DEFINE E == {i \in 0..n : g[i] = f[i] + (IF i >= w THEN d ELSE 0)}
<1>3. 0 \in E
  BY <1>1, <1>2
<1>4. ASSUME NEW i \in 1..n, i - 1 \in E PROVE i \in E
  <2>1. /\ i \in 0..n /\ i - 1 \in 0..n /\ f[i - 1] \in Nat /\ f[i] \in Nat /\ s[i] \in Nat
        /\ g[i - 1] = f[i - 1] + (IF i - 1 >= w THEN d ELSE 0)
        /\ f[i] = f[i - 1] + s[i] /\ g[i] = g[i - 1] + t[i]
        /\ IF i = w THEN t[i] = s[i] + d ELSE t[i] = s[i]
    <3>1. i \in 0..n /\ i - 1 \in 0..n
      OBVIOUS
    <3> QED BY <1>1, <1>2, <1>4, <3>1
  <2>2. CASE i = w
    BY <2>1, <2>2
  <2>3. CASE i < w
    BY <2>1, <2>3
  <2>4. CASE i > w
    BY <2>1, <2>4
  <2> QED BY <2>1, <2>2, <2>3, <2>4
<1> HIDE DEF E
<1>5. \A i \in 0..n : i \in E
  BY <1>3, <1>4, UpTo
<1>6. n \in E
  BY <1>5
<1> QED BY <1>1, <1>2, <1>6 DEF E

\* Nothing adds up to nothing.
LEMMA SumOfZeros ==
  ASSUME NEW n \in Nat, NEW s \in [1..n -> Nat], \A i \in 1..n : s[i] = 0
  PROVE  Sum(s) = 0
<1>1. PICK f \in [0..n -> Nat] : /\ f[0] = 0 /\ \A i \in 1..n : f[i] = f[i - 1] + s[i]
                                 /\ Sum(s) = f[n]
  BY SumAddsUp
<1> DEFINE E == {i \in 0..n : f[i] = 0}
<1>2. 0 \in E
  BY <1>1
<1>3. ASSUME NEW i \in 1..n, i - 1 \in E PROVE i \in E
  BY <1>1, <1>3
<1> HIDE DEF E
<1>4. \A i \in 0..n : i \in E
  BY <1>2, <1>3, UpTo
<1>5. n \in E
  BY <1>4
<1> QED BY <1>1, <1>5 DEF E

\* Ones add up to their number at most.
LEMMA SumOfOnes ==
  ASSUME NEW n \in Nat, NEW s \in [1..n -> Nat], \A i \in 1..n : s[i] <= 1
  PROVE  Sum(s) \in Nat /\ Sum(s) <= n
<1>1. PICK f \in [0..n -> Nat] : /\ f[0] = 0 /\ \A i \in 1..n : f[i] = f[i - 1] + s[i]
                                 /\ Sum(s) = f[n]
  BY SumAddsUp
<1> DEFINE E == {i \in 0..n : f[i] <= i}
<1>2. 0 \in E
  BY <1>1
<1>3. ASSUME NEW i \in 1..n, i - 1 \in E PROVE i \in E
  <2>1. /\ i \in 0..n /\ i - 1 \in 0..n /\ f[i - 1] \in Nat /\ f[i - 1] <= i - 1
        /\ s[i] \in Nat /\ s[i] <= 1 /\ f[i] = f[i - 1] + s[i]
    BY <1>1, <1>3
  <2> QED BY <2>1
<1> HIDE DEF E
<1>4. \A i \in 0..n : i \in E
  BY <1>2, <1>3, UpTo
<1>5. n \in E
  BY <1>4
<1> QED BY <1>1, <1>5 DEF E

\* One more number.
LEMMA SumOfMore ==
  ASSUME NEW n \in Nat, NEW s \in [1..n -> Nat], NEW t \in [1..(n + 1) -> Nat],
         \A i \in 1..n : t[i] = s[i]
  PROVE  Sum(t) = Sum(s) + t[n + 1]
<1>1. PICK f \in [0..n -> Nat] : /\ f[0] = 0 /\ \A i \in 1..n : f[i] = f[i - 1] + s[i]
                                 /\ Sum(s) = f[n]
  BY SumAddsUp
<1>2. PICK g \in [0..(n + 1) -> Nat] :
        /\ g[0] = 0 /\ \A i \in 1..(n + 1) : g[i] = g[i - 1] + t[i]
        /\ Sum(t) = g[n + 1]
  <2> DEFINE m == n + 1
  <2>1. m \in Nat /\ t \in [1..m -> Nat]
    OBVIOUS
  <2> HIDE DEF m
  <2>2. \E g \in [0..m -> Nat] : /\ g[0] = 0 /\ \A i \in 1..m : g[i] = g[i - 1] + t[i]
                                 /\ Sum(t) = g[m]
    BY <2>1, SumAddsUp
  <2> QED BY <2>2 DEF m
<1> DEFINE E == {i \in 0..n : g[i] = f[i]}
<1>3. 0 \in E
  BY <1>1, <1>2
<1>4. ASSUME NEW i \in 1..n, i - 1 \in E PROVE i \in E
  <2>1. i \in 1..(n + 1) /\ i \in 0..n /\ i - 1 \in 0..n
    OBVIOUS
  <2> QED BY <1>1, <1>2, <1>4, <2>1
<1> HIDE DEF E
<1>5. \A i \in 0..n : i \in E
  BY <1>3, <1>4, UpTo
<1>6. g[n] = f[n]
  <2>1. n \in E
    BY <1>5
  <2> QED BY <2>1 DEF E
<1>7. n + 1 \in 1..(n + 1) /\ (n + 1) - 1 = n
  OBVIOUS
<1> QED BY <1>1, <1>2, <1>6, <1>7

-----------------------------------------------------------------------------
(* The load test                                                           *)

\* What the workers of a level of n have counted, what those of them have counted
\* that have put it into the channel, and who has let go of its last request.
Totals(n) == [w \in 1..n |-> local[w].total]
Successes(n) == [w \in 1..n |-> local[w].success]
Reported(n) == [w \in 1..n |-> IF worker[w] = "finished" THEN local[w].total ELSE 0]
ReportedSuccess(n) ==
  [w \in 1..n |-> IF worker[w] = "finished" THEN local[w].success ELSE 0]
Ended(n) ==
  [w \in 1..n |-> IF worker[w] \in {"loop", "send", "finished"} THEN 1 ELSE 0]

\* What the channel holds.
TotalsIn(rs) == [i \in 1..Len(rs) |-> rs[i].total]
SuccessesIn(rs) == [i \in 1..Len(rs) |-> rs[i].success]

\* Where run is, and its workers while it does not measure.
Places ==
  /\ pc \in {"level", "wait"} => level \in DOMAIN Levels
  /\ pc \in {"seed", "failed"} => merged = <<>>
  /\ pc # "wait" => \A w \in Workers : worker[w] \in {"idle", "finished"}
  /\ pc = "wait" => \A w \in Workers : w \notin Active => worker[w] = "idle"

\* The channel holds what the finished workers have counted; what has not succeeded
\* is accounted for.  No request begins when the level is over, so each worker lets
\* go of one at most after that.
Measuring ==
  pc = "wait" =>
    LET n == Levels[level] IN
    /\ Sum(TotalsIn(results)) = Sum(Reported(n))
    /\ Sum(SuccessesIn(results)) = Sum(ReportedSuccess(n))
    /\ Sum(Totals(n)) = Sum(Successes(n)) + failures + torn
    /\ IF over THEN torn <= Sum(Ended(n)) ELSE torn = 0

LoadInv == LoadTypeOK /\ Places /\ Measuring /\ ReportExplained /\ BestIsBest

\* Nothing of what the invariant speaks of.
Unmeasured == <<level, merged, best, worker, local, results, failures, torn>>

LEMMA LevelFacts ==
  ASSUME LoadTypeOK, level \in DOMAIN Levels
  PROVE  /\ Levels[level] \in Nat \ {0} /\ level \in Nat /\ level >= 1
         /\ level <= Len(Levels) /\ Len(Levels) \in Nat
         /\ \A w \in 1..Levels[level] : w \in Workers
         /\ \A w \in Workers : w \in Active <=> w \in 1..Levels[level]
BY LoadAssumption DEF LoadTypeOK, Workers, Active

\* The counts of a level are numbers.
LEMMA CountTypes ==
  ASSUME LoadTypeOK, NEW n \in Nat, \A w \in 1..n : w \in Workers
  PROVE  /\ Totals(n) \in [1..n -> Nat] /\ Successes(n) \in [1..n -> Nat]
         /\ Reported(n) \in [1..n -> Nat] /\ ReportedSuccess(n) \in [1..n -> Nat]
         /\ Ended(n) \in [1..n -> Nat]
         /\ \A w \in 1..n : Ended(n)[w] <= 1
         /\ Sum(Totals(n)) \in Nat /\ Sum(Successes(n)) \in Nat
         /\ Sum(Ended(n)) \in Nat /\ Sum(Ended(n)) <= n
<1>1. \A w \in 1..n : local[w].total \in Nat /\ local[w].success \in Nat
  BY DEF LoadTypeOK
<1>2. /\ Totals(n) \in [1..n -> Nat] /\ Successes(n) \in [1..n -> Nat]
      /\ Reported(n) \in [1..n -> Nat] /\ ReportedSuccess(n) \in [1..n -> Nat]
      /\ Ended(n) \in [1..n -> Nat]
  BY <1>1 DEF Totals, Successes, Reported, ReportedSuccess, Ended
<1>3. \A w \in 1..n : Ended(n)[w] <= 1
  BY DEF Ended
<1>4. \A s \in [1..n -> Nat] : Sum(s) \in Nat
  <2> SUFFICES ASSUME NEW s \in [1..n -> Nat] PROVE Sum(s) \in Nat
    OBVIOUS
  <2>1. \E f \in [0..n -> Nat] : Sum(s) = f[n]
    BY SumAddsUp
  <2>2. n \in 0..n
    OBVIOUS
  <2> QED BY <2>1, <2>2
<1>5. Sum(Ended(n)) <= n
  BY <1>2, <1>3, SumOfOnes
<1> QED BY <1>2, <1>3, <1>4, <1>5

\* r has at least the rate of requests of s.
AtLeastQPS(r, s) == r.total * s.elapsed >= s.total * r.elapsed

\* Rates compare transitively, as times are positive.
LEMMA RatesCompare ==
  ASSUME NEW a \in Nat, NEW b \in Nat, NEW c \in Nat,
         NEW d \in Nat \ {0}, NEW e \in Nat \ {0}, NEW f \in Nat \ {0},
         a * e >= b * d, b * f >= c * e
  PROVE  a * f >= c * d
<1>1. (a * e) * f >= (b * d) * f
  <2> DEFINE x == a * e
             y == b * d
  <2>1. x \in Nat /\ y \in Nat /\ x >= y
    OBVIOUS
  <2> HIDE DEF x, y
  <2>2. PICK z \in Nat : x = y + z
    <3>1. x - y \in Nat /\ x = y + (x - y)
      BY <2>1
    <3> QED BY <3>1
  <2>3. x * f = y * f + z * f /\ z * f \in Nat /\ y * f \in Nat
    BY <2>1, <2>2
  <2>4. x * f >= y * f
    BY <2>3
  <2> QED BY <2>4 DEF x, y
<1>2. (b * f) * d >= (c * e) * d
  <2> DEFINE x == b * f
             y == c * e
  <2>1. x \in Nat /\ y \in Nat /\ x >= y
    OBVIOUS
  <2> HIDE DEF x, y
  <2>2. PICK z \in Nat : x = y + z
    <3>1. x - y \in Nat /\ x = y + (x - y)
      BY <2>1
    <3> QED BY <3>1
  <2>3. x * d = y * d + z * d /\ z * d \in Nat /\ y * d \in Nat
    BY <2>1, <2>2
  <2>4. x * d >= y * d
    BY <2>3
  <2> QED BY <2>4 DEF x, y
<1>3. /\ (a * e) * f = e * (a * f) /\ (b * d) * f = (b * f) * d
      /\ (c * e) * d = e * (c * d)
  OBVIOUS
<1> DEFINE p == a * f
           q == c * d
           z == (b * f) * d
<1>4. p \in Nat /\ q \in Nat /\ z \in Nat /\ e * p >= z /\ z >= e * q
  BY <1>1, <1>2, <1>3
<1> HIDE DEF p, q, z
<1>5. e * p \in Nat /\ e * q \in Nat /\ e * p >= e * q
  BY <1>4
<1>6. p >= q
  <2> SUFFICES ASSUME p < q PROVE FALSE
    BY <1>4
  <2>1. PICK g \in Nat : q = p + 1 + g
    <3>1. q - p - 1 \in Nat /\ q = p + 1 + (q - p - 1)
      BY <1>4
    <3> QED BY <3>1
  <2>2. e * q = e * p + e + e * g /\ e * g \in Nat
    BY <1>4, <2>1
  <2> QED BY <1>5, <2>2
<1> QED BY <1>6 DEF p, q

\* A worker that is neither idle nor finished is one of the level that is measured.
LEMMA BusyWorkers ==
  ASSUME Places, LoadTypeOK, NEW w \in Workers, worker[w] \notin {"idle", "finished"}
  PROVE  /\ pc = "wait" /\ level \in DOMAIN Levels
         /\ Levels[level] \in Nat \ {0} /\ w \in 1..Levels[level]
         /\ \A u \in 1..Levels[level] : u \in Workers
<1>1. pc = "wait"
  BY DEF Places
<1>2. level \in DOMAIN Levels /\ w \in Active
  BY <1>1 DEF Places
<1> QED BY <1>1, <1>2, LevelFacts

\* While the workers are measured nothing has to be reported.
LEMMA ReportsKept ==
  ASSUME LoadInv, LoadTypeOK', pc' = "wait" \/ UNCHANGED <<pc, local, failures, torn>>,
         UNCHANGED <<merged, best>>
  PROVE  ReportExplained' /\ BestIsBest'
<1>1. BestIsBest'
  BY DEF LoadInv, BestIsBest, Stable
<1>2. CASE pc' = "wait"
  BY <1>1, <1>2 DEF ReportExplained
<1>3. CASE UNCHANGED <<pc, local, failures, torn>>
  BY <1>1, <1>3 DEF LoadInv, ReportExplained
<1> QED BY <1>2, <1>3

\* The sums grow with what one worker counts.
LEMMA TotalsGrow ==
  ASSUME NEW n \in Nat, NEW w \in 1..n, NEW d \in Nat,
         Totals(n) \in [1..n -> Nat], Totals(n)' \in [1..n -> Nat],
         \A u \in 1..n : local'[u].total = IF u = w THEN local[u].total + d ELSE local[u].total
  PROVE  Sum(Totals(n)') = Sum(Totals(n)) + d
<1>1. ASSUME NEW x \in [1..n -> Nat], NEW y \in [1..n -> Nat],
             y[w] = x[w] + d, \A i \in 1..n : i # w => y[i] = x[i]
      PROVE  Sum(y) = Sum(x) + d
  BY <1>1, SumGrows
<1> PICK s \in [1..n -> Nat] : s = Totals(n)
  OBVIOUS
<1> PICK t \in [1..n -> Nat] : t = Totals(n)'
  OBVIOUS
<1>2. t[w] = s[w] + d /\ \A i \in 1..n : i # w => t[i] = s[i]
  BY DEF Totals
<1> QED BY <1>1, <1>2

LEMMA SuccessesGrow ==
  ASSUME NEW n \in Nat, NEW w \in 1..n, NEW d \in Nat,
         Successes(n) \in [1..n -> Nat], Successes(n)' \in [1..n -> Nat],
         \A u \in 1..n : local'[u].success = IF u = w THEN local[u].success + d ELSE local[u].success
  PROVE  Sum(Successes(n)') = Sum(Successes(n)) + d
<1>1. ASSUME NEW x \in [1..n -> Nat], NEW y \in [1..n -> Nat],
             y[w] = x[w] + d, \A i \in 1..n : i # w => y[i] = x[i]
      PROVE  Sum(y) = Sum(x) + d
  BY <1>1, SumGrows
<1> PICK s \in [1..n -> Nat] : s = Successes(n)
  OBVIOUS
<1> PICK t \in [1..n -> Nat] : t = Successes(n)'
  OBVIOUS
<1>2. t[w] = s[w] + d /\ \A i \in 1..n : i # w => t[i] = s[i]
  BY DEF Successes
<1> QED BY <1>1, <1>2

LEMMA EndedGrow ==
  ASSUME NEW n \in Nat, NEW w \in 1..n,
         Ended(n) \in [1..n -> Nat], Ended(n)' \in [1..n -> Nat],
         \A u \in 1..n : LET before == worker[u] \in {"loop", "send", "finished"}
                             after == worker'[u] \in {"loop", "send", "finished"}
                         IN  IF u = w THEN ~ before /\ after ELSE after = before
  PROVE  Sum(Ended(n)') = Sum(Ended(n)) + 1
<1>1. ASSUME NEW x \in [1..n -> Nat], NEW y \in [1..n -> Nat],
             y[w] = x[w] + 1, \A i \in 1..n : i # w => y[i] = x[i]
      PROVE  Sum(y) = Sum(x) + 1
  <2>1. 1 \in Nat
    OBVIOUS
  <2> QED BY <1>1, <2>1, SumGrows
<1> PICK s \in [1..n -> Nat] : s = Ended(n)
  OBVIOUS
<1> PICK t \in [1..n -> Nat] : t = Ended(n)'
  OBVIOUS
<1>2. t[w] = s[w] + 1 /\ \A i \in 1..n : i # w => t[i] = s[i]
  BY DEF Ended
<1> QED BY <1>1, <1>2

LEMMA ReportedGrow ==
  ASSUME NEW n \in Nat, NEW w \in 1..n, NEW d \in Nat,
         Reported(n) \in [1..n -> Nat], Reported(n)' \in [1..n -> Nat],
         Reported(n)'[w] = Reported(n)[w] + d,
         \A i \in 1..n : i # w => Reported(n)'[i] = Reported(n)[i]
  PROVE  Sum(Reported(n)') = Sum(Reported(n)) + d
<1>1. ASSUME NEW x \in [1..n -> Nat], NEW y \in [1..n -> Nat],
             y[w] = x[w] + d, \A i \in 1..n : i # w => y[i] = x[i]
      PROVE  Sum(y) = Sum(x) + d
  BY <1>1, SumGrows
<1> QED BY <1>1

LEMMA ReportedSuccessGrow ==
  ASSUME NEW n \in Nat, NEW w \in 1..n, NEW d \in Nat,
         ReportedSuccess(n) \in [1..n -> Nat], ReportedSuccess(n)' \in [1..n -> Nat],
         ReportedSuccess(n)'[w] = ReportedSuccess(n)[w] + d,
         \A i \in 1..n : i # w => ReportedSuccess(n)'[i] = ReportedSuccess(n)[i]
  PROVE  Sum(ReportedSuccess(n)') = Sum(ReportedSuccess(n)) + d
<1>1. ASSUME NEW x \in [1..n -> Nat], NEW y \in [1..n -> Nat],
             y[w] = x[w] + d, \A i \in 1..n : i # w => y[i] = x[i]
      PROVE  Sum(y) = Sum(x) + d
  BY <1>1, SumGrows
<1> QED BY <1>1

\* What all steps of a worker but the delivery do: d requests are counted, e of them
\* with success, and the rest is accounted for.
LEMMA CountingInv ==
  ASSUME LoadInv, NEW w \in Workers, worker[w] \notin {"idle", "finished"},
         NEW d \in {0, 1}, NEW e \in {0, 1},
         NEW to \in {"loop", "create", "read", "body", "send"},
         worker' = [worker EXCEPT ![w] = to],
         local' \in [Workers -> [total : Nat, success : Nat]],
         local'[w].total = local[w].total + d, local'[w].success = local[w].success + e,
         \A u \in Workers : u # w => local'[u] = local[u],
         failures' \in Nat, torn' \in Nat, pool' \in Nat,
         failures' + torn' + e = failures + torn + d,
         IF ~ over THEN torn' = torn
         ELSE IF to \notin {"loop", "send"} THEN /\ worker[w] \notin {"loop", "send"}
                                                /\ torn' = torn
         ELSE torn' = torn \/ (worker[w] \notin {"loop", "send"} /\ torn' <= torn + 1),
         UNCHANGED <<mainVars, results, signalled, over>>
  PROVE  LoadInv'
<1> PICK n : n = Levels[level]
  OBVIOUS
<1>1. /\ LoadTypeOK /\ Places /\ Measuring /\ ReportExplained /\ BestIsBest
      /\ UNCHANGED <<pc, seeded, level, merged, best>>
  BY DEF LoadInv, mainVars
<1>2. /\ pc = "wait" /\ level \in DOMAIN Levels
      /\ n \in Nat \ {0} /\ w \in 1..n /\ \A u \in 1..n : u \in Workers
  BY <1>1, BusyWorkers
<1>3. LoadTypeOK'
  BY <1>1 DEF LoadTypeOK
<1>4. Places'
  <2>1. \A u \in Workers : u # w => worker'[u] = worker[u]
    BY <1>1 DEF LoadTypeOK
  <2>2. w \in Active /\ Active' = Active
    BY <1>1, <1>2, LevelFacts DEF Active
  <2> QED BY <1>1, <1>2, <2>1, <2>2 DEF Places
<1>5. ReportExplained' /\ BestIsBest'
  BY <1>1, <1>2, <1>3, ReportsKept
<1>6. \A u \in 1..n : /\ worker'[u] = IF u = w THEN to ELSE worker[u]
                      /\ local[u].total \in Nat /\ local[u].success \in Nat
  BY <1>1, <1>2 DEF LoadTypeOK
<1>7. /\ Totals(n) \in [1..n -> Nat] /\ Successes(n) \in [1..n -> Nat]
      /\ Ended(n) \in [1..n -> Nat] /\ Sum(Totals(n)) \in Nat
      /\ Sum(Successes(n)) \in Nat /\ Sum(Ended(n)) \in Nat
  BY <1>1, <1>2, CountTypes
<1>8. /\ Totals(n)' \in [1..n -> Nat] /\ Successes(n)' \in [1..n -> Nat]
      /\ Ended(n)' \in [1..n -> Nat]
  <2>1. \A u \in 1..n : local'[u].total \in Nat /\ local'[u].success \in Nat
    BY <1>2, <1>3 DEF LoadTypeOK
  <2> QED BY <2>1 DEF Totals, Successes, Ended
<1>9. Sum(Totals(n)') = Sum(Totals(n)) + d
  <2>1. \A u \in 1..n : local'[u].total = IF u = w THEN local[u].total + d ELSE local[u].total
    BY <1>2
  <2>2. d \in Nat /\ n \in Nat /\ w \in 1..n
    BY <1>2
  <2> QED BY <1>7, <1>8, <2>1, <2>2, TotalsGrow
<1>10. Sum(Successes(n)') = Sum(Successes(n)) + e
  <2>1. \A u \in 1..n : local'[u].success = IF u = w THEN local[u].success + e ELSE local[u].success
    BY <1>2
  <2>2. e \in Nat /\ n \in Nat /\ w \in 1..n
    BY <1>2
  <2> QED BY <1>7, <1>8, <2>1, <2>2, SuccessesGrow
<1>11. /\ Reported(n)' = Reported(n)
       /\ ReportedSuccess(n)' = ReportedSuccess(n)
  BY <1>2, <1>6 DEF Reported, ReportedSuccess
<1>12. over => torn' <= Sum(Ended(n)')
  <2> SUFFICES ASSUME over PROVE torn' <= Sum(Ended(n)')
    OBVIOUS
  <2>1. torn <= Sum(Ended(n)) /\ torn \in Nat
    BY <1>1, <1>2 DEF Measuring, LoadTypeOK
  <2>2. CASE to \in {"loop", "send"} /\ worker[w] \notin {"loop", "send"}
    <3>1. \A u \in 1..n : LET before == worker[u] \in {"loop", "send", "finished"}
                              after == worker'[u] \in {"loop", "send", "finished"}
                          IN  IF u = w THEN ~ before /\ after ELSE after = before
      BY <1>2, <1>6, <2>2
    <3>2. Sum(Ended(n)') = Sum(Ended(n)) + 1
      <4>1. n \in Nat /\ 1 \in Nat
        BY <1>2
      <4> QED BY <1>2, <1>7, <1>8, <3>1, <4>1, EndedGrow
    <3>3. torn' <= torn + 1
      BY <2>1, <2>2
    <3> QED BY <1>7, <2>1, <3>2, <3>3
  <2>3. CASE to \in {"loop", "send"} /\ worker[w] \in {"loop", "send"}
    <3>1. Ended(n)' = Ended(n)
      BY <1>2, <1>6, <2>3 DEF Ended
    <3> QED BY <2>1, <2>3, <3>1
  <2>4. CASE to \notin {"loop", "send"}
    <3>1. worker[w] \notin {"loop", "send"} /\ torn' = torn
      BY <2>4
    <3>2. Ended(n)' = Ended(n)
      BY <1>2, <1>6, <2>4, <3>1 DEF Ended
    <3> QED BY <2>1, <3>1, <3>2
  <2> QED BY <2>2, <2>3, <2>4
<1>13. Measuring'
  <2>1. /\ Sum(TotalsIn(results)) = Sum(Reported(n))
        /\ Sum(SuccessesIn(results)) = Sum(ReportedSuccess(n))
        /\ Sum(Totals(n)) = Sum(Successes(n)) + failures + torn
        /\ ~ over => torn = 0
    BY <1>1, <1>2 DEF Measuring
  <2>2. results' = results /\ Levels[level'] = n /\ over' = over
    BY <1>1
  <2>3. Sum(Totals(n)') = Sum(Successes(n)') + failures' + torn'
    <3>1. failures \in Nat /\ torn \in Nat /\ d \in Nat /\ e \in Nat
      BY <1>1 DEF LoadTypeOK
    <3>2. failures' + torn' + e = failures + torn + d /\ failures' \in Nat /\ torn' \in Nat
      OBVIOUS
    <3>3. Sum(Totals(n)) + d = Sum(Successes(n)) + e + failures' + torn'
      <4> PICK x \in Nat : x = Sum(Totals(n))
        BY <1>7
      <4> PICK y \in Nat : y = Sum(Successes(n))
        BY <1>7
      <4> PICK f \in Nat : f = failures'
        BY <3>2
      <4> PICK t \in Nat : t = torn'
        BY <3>2
      <4>1. x = y + failures + torn /\ f + t + e = failures + torn + d
        BY <2>1, <3>2
      <4>2. x + d = y + e + f + t
        BY <3>1, <4>1
      <4> QED BY <4>2
    <3> QED BY <1>9, <1>10, <3>3
  <2>4. ~ over => torn' = 0
    <3> SUFFICES ASSUME ~ over PROVE torn' = 0
      OBVIOUS
    <3>1. torn = 0
      BY <2>1
    <3> QED BY <3>1
  <2> QED BY <1>1, <1>2, <1>11, <1>12, <2>1, <2>2, <2>3, <2>4 DEF Measuring, TotalsIn, SuccessesIn
<1> QED BY <1>3, <1>4, <1>5, <1>13 DEF LoadInv

\* Steps of main and of the contexts that leave alone what is measured.
LEMMA ContextInv ==
  ASSUME LoadInv, Seed \/ SeedEnds \/ Timeout \/ Interrupt \/ UNCHANGED loadVars
  PROVE  LoadInv'
<1>1. /\ LoadTypeOK /\ Places /\ Measuring /\ ReportExplained /\ BestIsBest
      /\ UNCHANGED <<level, merged, best, worker, local, results, failures, torn>>
  BY DEF LoadInv, Seed, SeedEnds, Timeout, Interrupt, loadVars, mainVars, workVars
<1>2. LoadTypeOK' /\ (pc = "wait" <=> pc' = "wait")
  <2> USE DEF LoadTypeOK, mainVars, workVars
  <2>1. CASE Seed
    <3>1. pool' \in Nat /\ seeded' \in 0..SeedCodes
      BY <1>1, <2>1, LoadAssumption DEF Seed
    <3> QED BY <1>1, <2>1, <3>1 DEF Seed
  <2>2. CASE SeedEnds
    BY <1>1, <2>2 DEF SeedEnds
  <2>3. CASE Timeout
    BY <1>1, <2>3 DEF Timeout
  <2>4. CASE Interrupt
    BY <1>1, <2>4 DEF Interrupt
  <2>5. CASE UNCHANGED loadVars
    BY <1>1, <2>5 DEF loadVars
  <2> QED
    BY <2>1, <2>2, <2>3, <2>4, <2>5
<1>3. Places'
  <2>1. CASE pc' = pc
    BY <1>1, <2>1 DEF Places, Active
  <2>2. CASE SeedEnds
    <3>1. merged = <<>> /\ level = 1 /\ 1 \in DOMAIN Levels
      BY <1>1, <2>2, LoadAssumption DEF SeedEnds, Places, LoadTypeOK
    <3> QED BY <1>1, <2>2, <3>1 DEF SeedEnds, Places
  <2> QED
    BY <2>1, <2>2 DEF Seed, Timeout, Interrupt, loadVars, mainVars
<1>4. ReportExplained' /\ BestIsBest'
  <2>1. CASE pc' = pc \/ pc' = "wait"
    BY <1>1, <1>2, <2>1, ReportsKept
  <2>2. CASE SeedEnds
    <3>1. merged' = <<>> /\ merged = <<>>
      BY <1>1, <2>2 DEF SeedEnds, Places
    <3> QED BY <1>1, <1>2, <3>1 DEF ReportExplained, BestIsBest, LoadTypeOK
  <2> QED
    BY <2>1, <2>2 DEF Seed, Timeout, Interrupt, loadVars, mainVars
<1>5. Measuring'
  <2> SUFFICES ASSUME pc' = "wait" PROVE Measuring'
    BY DEF Measuring
  <2> PICK n : n = Levels[level]
    OBVIOUS
  <2>1. pc = "wait" /\ level \in DOMAIN Levels
    BY <1>1, <1>2 DEF Places
  <2>2. n \in Nat /\ \A w \in 1..n : w \in Workers
    BY <1>1, <2>1, LevelFacts
  <2>3. /\ Sum(TotalsIn(results)) = Sum(Reported(n))
        /\ Sum(SuccessesIn(results)) = Sum(ReportedSuccess(n))
        /\ Sum(Totals(n)) = Sum(Successes(n)) + failures + torn
        /\ IF over THEN torn <= Sum(Ended(n)) ELSE torn = 0
    BY <1>1, <2>1 DEF Measuring
  <2>4. /\ Reported(n)' = Reported(n) /\ ReportedSuccess(n)' = ReportedSuccess(n)
        /\ Totals(n)' = Totals(n) /\ Successes(n)' = Successes(n) /\ Ended(n)' = Ended(n)
        /\ results' = results /\ Levels[level'] = n /\ failures' = failures /\ torn' = torn
    BY <1>1 DEF Reported, ReportedSuccess, Totals, Successes, Ended
  <2>5. Sum(Ended(n)) \in Nat
    BY <1>1, <2>2, CountTypes
  <2>6. IF over' THEN torn <= Sum(Ended(n)) ELSE torn = 0
    <3>1. over => over'
      BY DEF Seed, SeedEnds, Timeout, Interrupt, loadVars
    <3> QED BY <2>3, <2>5, <3>1
  <2> QED BY <2>3, <2>4, <2>6 DEF Measuring, TotalsIn, SuccessesIn
<1> QED BY <1>2, <1>3, <1>4, <1>5 DEF LoadInv

\* Nothing has been counted when a level starts.
LEMMA StartLevelInv == ASSUME LoadInv, StartLevel PROVE LoadInv'
<1>1. /\ LoadTypeOK /\ Places /\ ReportExplained /\ BestIsBest
      /\ UNCHANGED <<level, merged, best>>
  BY DEF LoadInv, StartLevel
<1>2. LoadTypeOK'
  <2>1. None \in [total : Nat, success : Nat]
    BY DEF None
  <2>2. <<>> \in Seq([total : Nat, success : Nat])
    OBVIOUS
  <2> QED BY <1>1, <2>1, <2>2 DEF StartLevel, LoadTypeOK
<1>3. ReportExplained' /\ BestIsBest'
  BY <1>1, <1>2, ReportsKept DEF StartLevel
<1>4. level \in DOMAIN Levels
  BY <1>1 DEF StartLevel, Places
<1>5. Places'
  BY <1>1, <1>4 DEF StartLevel, Places, Active
<1>6. Measuring'
  <2> PICK n : n = Levels[level]
    OBVIOUS
  <2>1. /\ n \in Nat /\ \A w \in 1..n : w \in Workers /\ w \in Active
        /\ level' \in DOMAIN Levels /\ Levels[level'] = n
    BY <1>1, <1>4, LevelFacts
  <2>2. \A w \in 1..n : worker'[w] = "loop" /\ local'[w] = None
    BY <2>1 DEF StartLevel
  <2>3. \A s \in [1..n -> Nat] : (\A i \in 1..n : s[i] = 0) => Sum(s) = 0
    BY <2>1, SumOfZeros
  <2>4. /\ Totals(n)' \in [1..n -> Nat] /\ \A i \in 1..n : Totals(n)'[i] = 0
        /\ Successes(n)' \in [1..n -> Nat] /\ \A i \in 1..n : Successes(n)'[i] = 0
        /\ Reported(n)' \in [1..n -> Nat] /\ \A i \in 1..n : Reported(n)'[i] = 0
        /\ ReportedSuccess(n)' \in [1..n -> Nat]
        /\ \A i \in 1..n : ReportedSuccess(n)'[i] = 0
    BY <2>2 DEF Totals, Successes, Reported, ReportedSuccess, None
  <2>5. /\ Sum(Totals(n)') = 0 /\ Sum(Successes(n)') = 0
        /\ Sum(Reported(n)') = 0 /\ Sum(ReportedSuccess(n)') = 0
    BY <2>3, <2>4
  <2>6. Ended(n)' \in [1..n -> Nat] /\ \A i \in 1..n : Ended(n)'[i] <= 1
    BY DEF Ended
  <2>7. Sum(Ended(n)') \in Nat
    BY <2>1, <2>6, SumOfOnes
  <2>8. Sum(TotalsIn(results')) = 0 /\ Sum(SuccessesIn(results')) = 0
    <3>1. results' = <<>> /\ Len(<<>>) = 0 /\ 0 \in Nat
      BY DEF StartLevel
    <3>2. TotalsIn(results') \in [1..0 -> Nat] /\ SuccessesIn(results') \in [1..0 -> Nat]
      BY <3>1 DEF TotalsIn, SuccessesIn
    <3>3. \A s \in [1..0 -> Nat] : Sum(s) = 0
      <4> SUFFICES ASSUME NEW s \in [1..0 -> Nat] PROVE Sum(s) = 0
        OBVIOUS
      <4>1. \A i \in 1..0 : s[i] = 0
        OBVIOUS
      <4> QED BY <3>1, <4>1, SumOfZeros
    <3> QED BY <3>2, <3>3
  <2>9. failures' = 0 /\ torn' = 0
    BY DEF StartLevel
  <2> QED BY <2>1, <2>5, <2>7, <2>8, <2>9 DEF Measuring, TotalsIn, SuccessesIn
<1> QED BY <1>2, <1>3, <1>5, <1>6 DEF LoadInv

\* The channel takes one more report.
LEMMA OneMoreReport ==
  ASSUME NEW rs \in Seq([total : Nat, success : Nat]), NEW r \in [total : Nat, success : Nat]
  PROVE  /\ Sum(TotalsIn(Append(rs, r))) = Sum(TotalsIn(rs)) + r.total
         /\ Sum(SuccessesIn(Append(rs, r))) = Sum(SuccessesIn(rs)) + r.success
<1> PICK n \in Nat : n = Len(rs)
  OBVIOUS
<1>1. /\ TotalsIn(rs) \in [1..n -> Nat] /\ SuccessesIn(rs) \in [1..n -> Nat]
      /\ TotalsIn(Append(rs, r)) \in [1..(n + 1) -> Nat]
      /\ SuccessesIn(Append(rs, r)) \in [1..(n + 1) -> Nat]
  <2>1. /\ \A i \in 1..n : rs[i].total \in Nat /\ rs[i].success \in Nat
        /\ r.total \in Nat /\ r.success \in Nat
    <3> DEFINE R == [total : Nat, success : Nat]
    <3>1. \A i \in 1..n : rs[i] \in R
      <4> rs \in Seq(R)
        OBVIOUS
      <4> HIDE DEF R
      <4> QED OBVIOUS
    <3> QED BY <3>1
  <2>2. /\ Len(Append(rs, r)) = n + 1 /\ Append(rs, r)[n + 1] = r
        /\ \A i \in 1..(n + 1) : i # n + 1 => i \in 1..n /\ Append(rs, r)[i] = rs[i]
    OBVIOUS
  <2>3. \A i \in 1..(n + 1) : /\ Append(rs, r)[i].total \in Nat
                              /\ Append(rs, r)[i].success \in Nat
    BY <2>1, <2>2
  <2> QED BY <2>1, <2>2, <2>3 DEF TotalsIn, SuccessesIn
<1>2. /\ TotalsIn(Append(rs, r))[n + 1] = r.total
      /\ SuccessesIn(Append(rs, r))[n + 1] = r.success
      /\ \A i \in 1..n : /\ TotalsIn(Append(rs, r))[i] = TotalsIn(rs)[i]
                         /\ SuccessesIn(Append(rs, r))[i] = SuccessesIn(rs)[i]
  BY DEF TotalsIn, SuccessesIn
<1>3. ASSUME NEW x \in [1..n -> Nat], NEW y \in [1..(n + 1) -> Nat],
             \A i \in 1..n : y[i] = x[i]
      PROVE  Sum(y) = Sum(x) + y[n + 1]
  BY <1>3, SumOfMore
<1> QED BY <1>1, <1>2, <1>3

\* What a worker has counted goes into the channel, once.
LEMMA DeliverInv == ASSUME LoadInv, NEW w \in Workers, Deliver(w) PROVE LoadInv'
<1> PICK n : n = Levels[level]
  OBVIOUS
<1>1. /\ LoadTypeOK /\ Places /\ Measuring /\ ReportExplained /\ BestIsBest
      /\ UNCHANGED <<pc, seeded, level, merged, best, pool, local, failures, torn,
                     signalled, over>>
      /\ worker[w] = "send" /\ worker' = [worker EXCEPT ![w] = "finished"]
      /\ results' = Append(results, local[w])
  BY DEF LoadInv, mainVars, Deliver
<1>2. /\ pc = "wait" /\ level \in DOMAIN Levels
      /\ n \in Nat \ {0} /\ w \in 1..n /\ \A u \in 1..n : u \in Workers
  BY <1>1, BusyWorkers
<1>3. /\ results \in Seq([total : Nat, success : Nat])
      /\ local[w] \in [total : Nat, success : Nat]
  BY <1>1 DEF LoadTypeOK
<1>4. LoadTypeOK'
  <2>1. results' \in Seq([total : Nat, success : Nat])
    <3> DEFINE R == [total : Nat, success : Nat]
    <3>1. results \in Seq(R) /\ local[w] \in R
      BY <1>3
    <3> HIDE DEF R
    <3>2. results' \in Seq(R)
      BY <1>1, <3>1
    <3> QED BY <3>2 DEF R
  <2> QED BY <1>1, <2>1 DEF LoadTypeOK
<1>5. Places'
  <2>1. \A u \in Workers : u # w => worker'[u] = worker[u]
    BY <1>1 DEF LoadTypeOK
  <2>2. w \in Active /\ Active' = Active
    BY <1>1, <1>2, LevelFacts DEF Active
  <2> QED BY <1>1, <1>2, <2>1, <2>2 DEF Places
<1>6. ReportExplained' /\ BestIsBest'
  BY <1>1, <1>2, <1>4, ReportsKept
<1>7. \A u \in 1..n : /\ worker'[u] = IF u = w THEN "finished" ELSE worker[u]
                      /\ local[u].total \in Nat /\ local[u].success \in Nat
  BY <1>1, <1>2 DEF LoadTypeOK
<1>8. /\ Sum(TotalsIn(results')) = Sum(TotalsIn(results)) + local[w].total
      /\ Sum(SuccessesIn(results')) = Sum(SuccessesIn(results)) + local[w].success
  BY <1>1, <1>3, OneMoreReport
<1>9. /\ Reported(n) \in [1..n -> Nat] /\ Reported(n)' \in [1..n -> Nat]
      /\ ReportedSuccess(n) \in [1..n -> Nat] /\ ReportedSuccess(n)' \in [1..n -> Nat]
  BY <1>1, <1>7 DEF Reported, ReportedSuccess
<1>10. n \in Nat /\ local[w].total \in Nat /\ local[w].success \in Nat
  BY <1>2, <1>7
<1>11. Sum(Reported(n)') = Sum(Reported(n)) + local[w].total
  <2>1. /\ Reported(n)'[w] = Reported(n)[w] + local[w].total
        /\ \A i \in 1..n : i # w => Reported(n)'[i] = Reported(n)[i]
    BY <1>1, <1>2, <1>7 DEF Reported
  <2> QED BY <1>2, <1>9, <1>10, <2>1, ReportedGrow
<1>12. Sum(ReportedSuccess(n)') = Sum(ReportedSuccess(n)) + local[w].success
  <2>1. /\ ReportedSuccess(n)'[w] = ReportedSuccess(n)[w] + local[w].success
        /\ \A i \in 1..n : i # w => ReportedSuccess(n)'[i] = ReportedSuccess(n)[i]
    BY <1>1, <1>2, <1>7 DEF ReportedSuccess
  <2> QED BY <1>2, <1>9, <1>10, <2>1, ReportedSuccessGrow
<1>13. Totals(n)' = Totals(n) /\ Successes(n)' = Successes(n) /\ Ended(n)' = Ended(n)
  BY <1>1, <1>7 DEF Totals, Successes, Ended
<1>14. Measuring'
  <2>1. /\ Sum(TotalsIn(results)) = Sum(Reported(n))
        /\ Sum(SuccessesIn(results)) = Sum(ReportedSuccess(n))
        /\ Sum(Totals(n)) = Sum(Successes(n)) + failures + torn
        /\ IF over THEN torn <= Sum(Ended(n)) ELSE torn = 0
    BY <1>1, <1>2 DEF Measuring
  <2> QED BY <1>1, <1>8, <1>11, <1>12, <1>13, <2>1 DEF Measuring, TotalsIn, SuccessesIn
<1> QED BY <1>4, <1>5, <1>6, <1>14 DEF LoadInv

\* Every step of a worker keeps the invariant.
LEMMA WorkerInv ==
  ASSUME LoadInv, NEW w \in Workers,
         \/ Request(w) \/ Leave(w) \/ AnswerComes(w) \/ Refused(w)
         \/ BodyRead(w) \/ BodyFails(w) \/ Deliver(w)
  PROVE  LoadInv'
<1>1. /\ local \in [Workers -> [total : Nat, success : Nat]]
      /\ worker \in [Workers -> {"idle", "loop", "create", "read", "body", "send", "finished"}]
      /\ failures \in Nat /\ torn \in Nat /\ pool \in Nat
      /\ local[w].total \in Nat /\ local[w].success \in Nat
  BY DEF LoadInv, LoadTypeOK
<1>2. local[w].total = local[w].total + 0 /\ local[w].success = local[w].success + 0
  BY <1>1
<1>3. ASSUME NEW ok \in BOOLEAN, Recorded(w, ok)
      PROVE  /\ local' \in [Workers -> [total : Nat, success : Nat]]
             /\ local'[w].total = local[w].total + 1
             /\ local'[w].success = local[w].success + (IF ok THEN 1 ELSE 0)
             /\ \A u \in Workers : u # w => local'[u] = local[u]
             /\ worker' = [worker EXCEPT ![w] = "loop"]
  <2> DEFINE r == [total |-> local[w].total + 1,
                   success |-> IF ok THEN local[w].success + 1 ELSE local[w].success]
  <2>1. r \in [total : Nat, success : Nat]
    BY <1>1
  <2>2. local' = [local EXCEPT ![w] = r]
    BY <1>3 DEF Recorded
  <2>3. worker' = [worker EXCEPT ![w] = "loop"]
    BY <1>3 DEF Recorded
  <2>4. local'[w] = r /\ \A u \in Workers : u # w => local'[u] = local[u]
    BY <1>1, <2>2
  <2>5. local' \in [Workers -> [total : Nat, success : Nat]]
    BY <1>1, <2>1, <2>2
  <2>6. r.total = local[w].total + 1 /\ r.success = local[w].success + (IF ok THEN 1 ELSE 0)
    BY <1>1
  <2> QED BY <2>3, <2>4, <2>5, <2>6
<1>4. CASE Request(w)
  <2>1. PICK op \in {"create", "read"} : worker' = [worker EXCEPT ![w] = op]
    BY <1>4 DEF Request
  <2>2. worker[w] = "loop" /\ ~ over
        /\ UNCHANGED <<pool, local, results, failures, torn, mainVars, signalled, over>>
    BY <1>4 DEF Request
  <2> QED BY <1>1, <1>2, <2>1, <2>2, CountingInv
<1>5. CASE Leave(w)
  <2>1. /\ worker' = [worker EXCEPT ![w] = "send"] /\ worker[w] = "loop" /\ over
        /\ UNCHANGED <<pool, local, results, failures, torn, mainVars, signalled, over>>
    BY <1>5 DEF Leave
  <2> QED BY <1>1, <1>2, <2>1, CountingInv
<1>6. CASE AnswerComes(w) /\ worker[w] = "create"
  <2>1. /\ worker' = [worker EXCEPT ![w] = "body"]
        /\ UNCHANGED <<pool, local, results, failures, torn, mainVars, signalled, over>>
    BY <1>6 DEF AnswerComes
  <2> QED BY <1>1, <1>2, <1>6, <2>1, CountingInv
<1>7. CASE AnswerComes(w) /\ worker[w] = "read"
  <2>1. /\ Recorded(w, TRUE)
        /\ UNCHANGED <<pool, results, failures, torn, mainVars, signalled, over>>
    BY <1>7 DEF AnswerComes
  <2>2. /\ local' \in [Workers -> [total : Nat, success : Nat]]
        /\ local'[w].total = local[w].total + 1
        /\ local'[w].success = local[w].success + 1
        /\ \A u \in Workers : u # w => local'[u] = local[u]
        /\ worker' = [worker EXCEPT ![w] = "loop"]
    BY <1>3, <2>1
  <2> QED BY <1>1, <1>7, <2>1, <2>2, CountingInv
<1>8. CASE Refused(w)
  <2>1. PICK status \in {0, 500} :
          IF StoppedByLevelTimeout(status)
          THEN /\ worker' = [worker EXCEPT ![w] = "send"]
               /\ UNCHANGED <<local, failures>>
          ELSE /\ Recorded(w, FALSE)
               /\ failures' = IF status = 0 /\ over THEN failures ELSE failures + 1
    BY <1>8 DEF Refused
  <2>2. /\ worker[w] \in {"create", "read"}
        /\ UNCHANGED <<pool, results, torn, mainVars, signalled, over>>
    BY <1>8 DEF Refused
  <2>3. CASE StoppedByLevelTimeout(status)
    BY <1>1, <1>2, <2>1, <2>2, <2>3, CountingInv
  <2>4. CASE ~ StoppedByLevelTimeout(status)
    <3>1. Recorded(w, FALSE) /\ failures' = failures + 1
      BY <2>1, <2>4 DEF StoppedByLevelTimeout
    <3>2. /\ local' \in [Workers -> [total : Nat, success : Nat]]
          /\ local'[w].total = local[w].total + 1
          /\ local'[w].success = local[w].success + 0
          /\ \A u \in Workers : u # w => local'[u] = local[u]
          /\ worker' = [worker EXCEPT ![w] = "loop"]
      BY <1>3, <3>1
    <3>3. /\ failures' \in Nat /\ torn' = torn
          /\ failures' + torn' + 0 = failures + torn + 1
          /\ worker[w] \notin {"idle", "finished", "loop", "send"}
          /\ pool' \in Nat /\ torn' \in Nat
      BY <1>1, <2>2, <3>1
    <3>4. /\ IF ~ over THEN torn' = torn ELSE torn' <= torn + 1
          /\ UNCHANGED <<mainVars, results, signalled, over>>
      BY <1>1, <2>2, <3>3
    <3> QED BY <3>2, <3>3, <3>4, CountingInv
  <2> QED BY <2>3, <2>4
<1>9. CASE BodyRead(w)
  <2>1. /\ Recorded(w, TRUE) /\ worker[w] = "body" /\ pool' = pool + 1
        /\ UNCHANGED <<results, failures, torn, mainVars, signalled, over>>
    BY <1>9 DEF BodyRead
  <2>2. /\ local' \in [Workers -> [total : Nat, success : Nat]]
        /\ local'[w].total = local[w].total + 1
        /\ local'[w].success = local[w].success + 1
        /\ \A u \in Workers : u # w => local'[u] = local[u]
        /\ worker' = [worker EXCEPT ![w] = "loop"]
    BY <1>3, <2>1
  <2>3. pool' \in Nat
    BY <1>1, <2>1
  <2> QED BY <1>1, <2>1, <2>2, <2>3, CountingInv
<1>10. CASE BodyFails(w)
  <2>1. /\ Recorded(w, FALSE) /\ worker[w] = "body"
        /\ IF over THEN torn' = torn + 1 /\ UNCHANGED failures
                   ELSE failures' = failures + 1 /\ UNCHANGED torn
        /\ UNCHANGED <<pool, results, mainVars, signalled, over>>
    BY <1>10 DEF BodyFails
  <2>2. /\ local' \in [Workers -> [total : Nat, success : Nat]]
        /\ local'[w].total = local[w].total + 1
        /\ local'[w].success = local[w].success + 0
        /\ \A u \in Workers : u # w => local'[u] = local[u]
        /\ worker' = [worker EXCEPT ![w] = "loop"]
    BY <1>3, <2>1
  <2>3. /\ failures' \in Nat /\ torn' \in Nat /\ pool' \in Nat
        /\ failures' + torn' + 0 = failures + torn + 1
        /\ IF ~ over THEN torn' = torn ELSE torn' <= torn + 1
    BY <1>1, <2>1
  <2> QED BY <1>1, <2>1, <2>2, <2>3, CountingInv
<1> QED
  BY <1>4, <1>5, <1>6, <1>7, <1>8, <1>9, <1>10, DeliverInv DEF AnswerComes

\* When all workers have finished, the channel holds all that was counted.
LEMMA AllReported ==
  ASSUME LoadInv, EndLevel
  PROVE  LET n == Levels[level] IN
         /\ level \in DOMAIN Levels /\ n \in Nat
         /\ Merge(results).total = Sum(Totals(n)) /\ Merge(results).total \in Nat
         /\ Merge(results).success = Sum(Successes(n)) /\ Merge(results).success \in Nat
         /\ Merge(results).total = Merge(results).success + failures + torn
         /\ torn <= n
<1> PICK n : n = Levels[level]
  OBVIOUS
<1>1. /\ LoadTypeOK /\ Places /\ Measuring /\ pc = "wait"
      /\ \A w \in Active : worker[w] = "finished"
  BY DEF LoadInv, EndLevel
<1>2. /\ level \in DOMAIN Levels /\ n \in Nat
      /\ \A w \in 1..n : w \in Workers /\ worker[w] = "finished"
  <2>1. level \in DOMAIN Levels
    BY <1>1 DEF Places
  <2> QED BY <1>1, <2>1, LevelFacts
<1>3. Reported(n) = Totals(n) /\ ReportedSuccess(n) = Successes(n)
  BY <1>2 DEF Reported, ReportedSuccess, Totals, Successes
<1>4. /\ Sum(Totals(n)) \in Nat /\ Sum(Successes(n)) \in Nat
      /\ Sum(Ended(n)) \in Nat /\ Sum(Ended(n)) <= n
  BY <1>1, <1>2, CountTypes
<1>5. /\ Sum(TotalsIn(results)) = Sum(Reported(n))
      /\ Sum(SuccessesIn(results)) = Sum(ReportedSuccess(n))
      /\ Sum(Totals(n)) = Sum(Successes(n)) + failures + torn
      /\ IF over THEN torn <= Sum(Ended(n)) ELSE torn = 0
  BY <1>1 DEF Measuring
<1>6. /\ Merge(results).total = Sum(TotalsIn(results))
      /\ Merge(results).success = Sum(SuccessesIn(results))
  BY DEF Merge, TotalsIn, SuccessesIn
<1>7. torn \in Nat
  BY <1>1 DEF LoadTypeOK
<1>8. torn <= n
  BY <1>2, <1>4, <1>5, <1>7
<1> QED BY <1>2, <1>3, <1>4, <1>5, <1>6, <1>8

\* What runLevel may return; and that it has returned r and run has compared it.
LevelResults == [total : Nat, success : Nat, elapsed : 1..MaxElapsed]

Compared(r) ==
  /\ merged \in Seq(LevelResults) /\ best \in 0..Len(merged) /\ level = Len(merged) + 1
  /\ r \in LevelResults /\ merged' \in Seq(LevelResults) /\ Len(merged') = level
  /\ merged'[level] = r
  /\ \A i \in 1..Len(merged) : merged'[i] = merged[i]
  /\ best' = IF Stable(r) /\ (best = 0 \/ HigherQPS(r, merged[best]))
             THEN level ELSE best

LEMMA Products == \A x, y \in Nat : x * y \in Nat
OBVIOUS

\* The comparison keeps the best of the stable levels.
LEMMA BestKept ==
  ASSUME BestIsBest, NEW r, Compared(r)
  PROVE  BestIsBest' /\ best' \in 0..Len(merged')
<1> PICK n : n = Len(merged)
  OBVIOUS
<1>0. n \in Nat /\ best \in 0..n /\ level = n + 1 /\ r \in LevelResults
  BY DEF Compared
<1>1. /\ Len(merged') = n + 1 /\ merged'[n + 1] = r
      /\ DOMAIN merged' = 1..(n + 1) /\ DOMAIN merged = 1..n
      /\ \A i \in 1..n : merged'[i] = merged[i] /\ merged[i] \in LevelResults
  <2>1. merged' \in Seq(LevelResults) /\ merged \in Seq(LevelResults)
    BY DEF Compared
  <2>2. DOMAIN merged' = 1..Len(merged') /\ DOMAIN merged = 1..n
    BY <2>1
  <2>3. \A i \in 1..n : merged[i] \in LevelResults
    BY <2>1
  <2> QED BY <1>0, <2>2, <2>3 DEF Compared
<1>2. /\ Stable(r) /\ (best = 0 \/ HigherQPS(r, merged[best])) => best' = n + 1
      /\ ~ (Stable(r) /\ (best = 0 \/ HigherQPS(r, merged[best]))) => best' = best
      /\ best' \in 0..(n + 1)
  BY <1>0 DEF Compared
<1>3. \A x \in LevelResults : /\ x.total \in Nat /\ x.success \in Nat
                              /\ x.elapsed \in Nat /\ x.elapsed # 0
  BY LoadAssumption DEF LevelResults
<1>4. best' # 0 => Stable(merged'[best'])
  <2>1. CASE best' = n + 1 /\ Stable(r)
    BY <1>1, <2>1
  <2>2. CASE best' = best
    <3>1. best # 0 => best \in 1..n
      BY <1>0
    <3> QED BY <1>1, <2>2, <3>1 DEF BestIsBest
  <2> QED BY <1>2, <2>1, <2>2
<1>5. ASSUME NEW i \in 1..(n + 1), Stable(merged'[i])
      PROVE  best' # 0 /\ AtLeastQPS(merged'[best'], merged'[i])
  <2>1. \A k \in 1..n : merged'[k] = merged[k] /\ k \in DOMAIN merged
    BY <1>1
  <2>2. i \in 1..n \/ i = n + 1
    BY <1>0
  <2>3. CASE Stable(r) /\ (best = 0 \/ HigherQPS(r, merged[best]))
    <3>1. best' = n + 1 /\ best' # 0 /\ merged'[best'] = r
      BY <1>0, <1>1, <1>2, <2>3
    <3>2. CASE i = n + 1
      <4>1. r.total * r.elapsed \in Nat
        BY <1>0, <1>3, Products
      <4>2. r.total * r.elapsed >= r.total * r.elapsed
        BY <4>1
      <4> QED BY <1>1, <3>1, <3>2, <4>2 DEF AtLeastQPS
    <3>3. CASE i \in 1..n
      <4>1. best # 0 /\ AtLeastQPS(merged[best], merged[i])
        BY <1>5, <2>1, <3>3 DEF BestIsBest, AtLeastQPS
      <4>2. HigherQPS(r, merged[best]) /\ best \in 1..n
        BY <1>0, <2>3, <4>1
      <4> PICK b \in LevelResults : b = merged[best]
        BY <1>1, <4>2
      <4> PICK c \in LevelResults : c = merged[i]
        BY <1>1, <3>3
      <4>3. r.total * b.elapsed > b.total * r.elapsed
        BY <4>2 DEF HigherQPS
      <4>4. r.total * b.elapsed \in Nat /\ b.total * r.elapsed \in Nat
        BY <1>0, <1>3, Products
      <4>5. r.total * b.elapsed >= b.total * r.elapsed
        BY <4>3, <4>4
      <4>6. b.total * c.elapsed >= c.total * b.elapsed
        BY <4>1 DEF AtLeastQPS
      <4>7. /\ r.total \in Nat /\ b.total \in Nat /\ c.total \in Nat
            /\ r.elapsed \in Nat \ {0} /\ b.elapsed \in Nat \ {0} /\ c.elapsed \in Nat \ {0}
        BY <1>0, <1>3
      <4>8. r.total * c.elapsed >= c.total * r.elapsed
        BY <4>5, <4>6, <4>7, RatesCompare
      <4> QED BY <2>1, <3>1, <3>3, <4>8 DEF AtLeastQPS
    <3> QED BY <2>2, <3>2, <3>3
  <2>4. CASE ~ Stable(r)
    <3>1. best' = best
      BY <1>2, <2>4
    <3>2. i \in 1..n
      BY <1>1, <1>5, <2>2, <2>4
    <3>3. best # 0 /\ AtLeastQPS(merged[best], merged[i])
      BY <1>5, <2>1, <3>2 DEF BestIsBest, AtLeastQPS
    <3>4. best \in 1..n
      BY <1>0, <3>3
    <3> QED BY <2>1, <3>1, <3>2, <3>3, <3>4
  <2>5. CASE Stable(r) /\ best # 0 /\ ~ HigherQPS(r, merged[best])
    <3>1. best' = best /\ best \in 1..n
      BY <1>0, <1>2, <2>5
    <3>2. CASE i = n + 1
      <4> PICK b \in LevelResults : b = merged[best]
        BY <1>1, <3>1
      <4>1. r.total * b.elapsed \in Nat /\ b.total * r.elapsed \in Nat
        BY <1>0, <1>3, Products
      <4>2. ~ (r.total * b.elapsed > b.total * r.elapsed)
        BY <2>5 DEF HigherQPS
      <4>3. b.total * r.elapsed >= r.total * b.elapsed
        BY <4>1, <4>2
      <4> QED BY <1>1, <2>1, <2>5, <3>1, <3>2, <4>3 DEF AtLeastQPS
    <3>3. CASE i \in 1..n
      <4>1. AtLeastQPS(merged[best], merged[i])
        BY <1>5, <2>1, <3>3 DEF BestIsBest, AtLeastQPS
      <4> QED BY <2>1, <2>5, <3>1, <3>3, <4>1
    <3> QED BY <2>2, <3>2, <3>3
  <2> QED BY <2>3, <2>4, <2>5
<1>6. BestIsBest'
  BY <1>1, <1>4, <1>5 DEF BestIsBest, AtLeastQPS, Stable
<1> QED BY <1>1, <1>2, <1>6

LEMMA EndLevelInv == ASSUME LoadInv, EndLevel PROVE LoadInv'
<1> PICK n : n = Levels[level]
  OBVIOUS
<1>1. /\ LoadTypeOK /\ Places /\ BestIsBest /\ pc = "wait" /\ pc' \in {"level", "done"}
      /\ (pc' = "level" => level # Len(Levels))
      /\ UNCHANGED <<seeded, pool, worker, local, results, failures, torn, signalled, over>>
      /\ level' = level + 1
      /\ \A w \in Active : worker[w] = "finished"
  BY DEF LoadInv, EndLevel, workVars
<1>2. /\ level \in DOMAIN Levels /\ n \in Nat
      /\ Merge(results).total = Sum(Totals(n)) /\ Merge(results).total \in Nat
      /\ Merge(results).success \in Nat
      /\ Merge(results).total = Merge(results).success + failures + torn
      /\ torn <= n
  BY AllReported
<1>3. PICK e \in 1..MaxElapsed :
        LET r == [total |-> Merge(results).total, success |-> Merge(results).success,
                  elapsed |-> e]
        IN  /\ merged' = Append(merged, r)
            /\ best' = IF /\ Stable(r)
                          /\ best = 0 \/ HigherQPS(r, merged[best])
                       THEN level ELSE best
  BY DEF EndLevel
<1> DEFINE r == [total |-> Merge(results).total, success |-> Merge(results).success,
                 elapsed |-> e]
<1>4. /\ r \in LevelResults /\ merged \in Seq(LevelResults) /\ best \in 0..Len(merged) /\ level = Len(merged) + 1
      /\ r.total = Sum(Totals(n)) /\ r.total = r.success + failures + torn
      /\ r.total \in Nat /\ r.success \in Nat
  BY <1>1, <1>2 DEF LoadTypeOK, LevelResults
<1>5. /\ merged' = Append(merged, r)
      /\ best' = IF /\ Stable(r)
                    /\ best = 0 \/ HigherQPS(r, merged[best])
                 THEN level ELSE best
  BY <1>3
<1> HIDE DEF r
<1>6. /\ Len(merged') = level /\ merged'[level] = r /\ merged' \in Seq(LevelResults)
      /\ \A i \in 1..Len(merged) : merged'[i] = merged[i]
  BY <1>4, <1>5
<1>7. BestIsBest' /\ best' \in 0..Len(merged')
  <2>1. Compared(r)
    BY <1>4, <1>5, <1>6 DEF Compared
  <2> QED BY <1>1, <2>1, BestKept
<1>8. /\ level \in Nat /\ level >= 1 /\ level <= Len(Levels) /\ Len(Levels) \in Nat
      /\ DOMAIN Levels = 1..Len(Levels)
  BY <1>1, <1>2, LevelFacts, LoadAssumption
<1>9. LoadTypeOK'
  <2>1. level' = level + 1 /\ Len(merged') = level
    BY <1>1, <1>6
  <2>2. level' \in 1..(Len(Levels) + 1) /\ level' = Len(merged') + 1
    BY <1>8, <2>1
  <2> QED BY <1>1, <1>5, <1>6, <1>7, <2>2 DEF LoadTypeOK, LevelResults
<1>10. Places'
  <2>1. pc' = "level" => level' \in DOMAIN Levels
    <3> SUFFICES ASSUME pc' = "level" PROVE level' \in DOMAIN Levels
      OBVIOUS
    <3>1. level # Len(Levels) /\ level' = level + 1
      BY <1>1
    <3>2. level + 1 \in 1..Len(Levels)
      <4>1. \A k, l \in Nat : k >= 1 /\ k <= l /\ k # l => k + 1 \in 1..l
        OBVIOUS
      <4> QED BY <1>8, <3>1, <4>1, Zenon
    <3> QED BY <1>8, <3>1, <3>2, Zenon
  <2>2. \A w \in Workers : worker'[w] \in {"idle", "finished"}
    BY <1>1 DEF Places
  <2> QED BY <1>1, <2>1, <2>2 DEF Places
<1>11. ReportExplained'
  <2>1. Totals(n) = [w \in 1..Levels[Len(merged')] |-> local'[w].total]
    BY <1>1, <1>6 DEF Totals
  <2>2. r.total - r.success = failures' + torn'
    <3>1. failures \in Nat /\ torn \in Nat
      BY <1>1 DEF LoadTypeOK
    <3> QED BY <1>1, <1>4, <3>1
  <2> QED BY <1>1, <1>2, <1>4, <1>6, <1>9, <2>1, <2>2 DEF ReportExplained
<1>12. Measuring'
  BY <1>1 DEF Measuring
<1> QED BY <1>7, <1>9, <1>10, <1>11, <1>12 DEF LoadInv

LEMMA LoadInitInv == LoadInit => LoadInv
<1> SUFFICES ASSUME LoadInit PROVE LoadInv
  OBVIOUS
<1>1. Len(Levels) \in Nat /\ Len(Levels) >= 1
  BY LoadAssumption
<1>2. None \in [total : Nat, success : Nat]
  BY DEF None
<1>3. /\ <<>> \in Seq([total : Nat, success : Nat])
      /\ <<>> \in Seq([total : Nat, success : Nat, elapsed : 1..MaxElapsed])
      /\ Len(<<>>) = 0
  OBVIOUS
<1>4. LoadTypeOK
  <2>1. 1 \in 1..(Len(Levels) + 1) /\ 0 \in 0..0 /\ 0 \in 0..SeedCodes /\ 1 = 0 + 1
    BY <1>1, LoadAssumption
  <2> QED BY <1>2, <1>3, <2>1 DEF LoadInit, LoadTypeOK
<1> QED
  BY <1>4 DEF LoadInit, LoadInv, Places, Measuring, ReportExplained, BestIsBest

LEMMA LoadInvariance == LoadSpec => []LoadInv
<1>1. LoadInv /\ [LoadNext]_loadVars => LoadInv'
  BY ContextInv, StartLevelInv, EndLevelInv, WorkerInv DEF LoadNext
<1> QED BY <1>1, LoadInitInv, PTL DEF LoadSpec

\* A level's report is what its workers have counted, and its failures are requests
\* that failed of themselves, but for one of each worker at most (runLevel,
\* doCreate), for any levels and any numbers of workers and requests.
THEOREM ReportsAreExplained == LoadSpec => []ReportExplained
BY LoadInvariance, PTL DEF LoadInv

\* The level reported as best is stable and of the highest rate among the stable
\* ones (run), for any levels, times and rates.
THEOREM BestLevelIsBest == LoadSpec => []BestIsBest
BY LoadInvariance, PTL DEF LoadInv
=============================================================================
