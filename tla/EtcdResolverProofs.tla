------------------------ MODULE EtcdResolverProofs ------------------------
(***************************************************************************)
(* Once the watch has caught up, the resolver knows the registered         *)
(* instances but for those a late snapshot has set back, for any number of *)
(* instances, of concurrent resolutions and of events.                     *)
(*                                                                         *)
(* What is inductive speaks of etcd's history: an instance that no late    *)
(* snapshot has set back is known as it was registered at some revision    *)
(* from the one the watch has reached onwards (KnownOK).                   *)
(***************************************************************************)
EXTENDS EtcdResolver, WellFoundedInduction, TLAPS

\* No event of s from m to n is about k; the last one that is registers it.
Quiet(s, m, n, k)   == \A j \in m..n : s[j].key # k
LastPut(s, m, n, k) == \E i \in m..n : /\ s[i].key = k /\ s[i].type = "put"
                                       /\ \A j \in (i + 1)..n : s[j].key # k

\* At revision n instance k was registered.
Registered(n, k) == LastPut(events, 1, n, k)

PresentOK == \A k \in Keys : k \in present <=> Registered(Revision, k)

SnapshotsOK ==
  \A t \in Resolves :
    pc[t] = "install" => \A k \in Keys : k \in snapshot[t] <=> Registered(snapRev[t], k)

KnownOK ==
  Built => \A k \in Keys \ behind :
             \E r \in seen..Revision : k \in instances <=> Registered(r, k)

\* Nothing happens in the resolver before Build.
BuiltOK == (watching \/ \E t \in Resolves : pc[t] = "install") => Built

Inv == TypeOK /\ PresentOK /\ SnapshotsOK /\ KnownOK /\ BuiltOK

USE ResolverAssumption

-----------------------------------------------------------------------------
(* Events                                                                  *)

\* A set of numbers has a least one.
LEMMA Least ==
  ASSUME NEW T \in SUBSET Nat, T # {}
  PROVE  \E x \in T : \A y \in T : x <= y
<1> DEFINE R == OpToRel(<, Nat)
<1>1. IsWellFoundedOn(R, Nat)
  BY NatLessThanWellFounded
<1>2. \A x, y \in Nat : x < y => <<x, y>> \in R
  BY DEF OpToRel
<1> HIDE DEF R
<1>3. PICK x \in T : \A y \in T : ~ (<<y, x>> \in R)
  BY <1>1, WFMin
<1> SUFFICES ASSUME NEW y \in T PROVE x <= y
  BY <1>3
<1>4. x \in Nat /\ y \in Nat
  BY <1>3
<1>5. ~ (y < x)
  BY <1>2, <1>3, <1>4
<1> QED BY <1>4, <1>5

\* One event registers its key or takes it out, and leaves the others.
LEMMA OneEvent ==
  ASSUME NEW S, NEW e \in Event
  PROVE  /\ e.key \in Keys
         /\ S \subseteq Keys => Applied(S, e) \subseteq Keys
         /\ \A k : k \in Applied(S, e) <=> IF e.key = k THEN e.type = "put" ELSE k \in S
<1>1. e.key \in Keys /\ e.type \in {"put", "delete"}
  BY DEF Event
<1> QED BY <1>1 DEF Applied

\* Events that come one after the other leave what their last one on each key says.
LEMMA LastCounts ==
  ASSUME NEW s, NEW m \in Int, NEW n \in Int, m <= n, NEW k
  PROVE  /\ Quiet(s, m, n, k) <=> Quiet(s, m, n - 1, k) /\ s[n].key # k
         /\ LastPut(s, m, n, k) <=> IF s[n].key = k THEN s[n].type = "put"
                                                    ELSE LastPut(s, m, n - 1, k)
<1>1. \A l \in Int : \A j \in l..n : j \in l..(n - 1) \/ j = n
  OBVIOUS
<1>2. Quiet(s, m, n, k) <=> Quiet(s, m, n - 1, k) /\ s[n].key # k
  BY <1>1 DEF Quiet
<1>3. CASE s[n].key = k
  <2>1. \A i \in m..n : i # n => n \in (i + 1)..n
    OBVIOUS
  <2>2. LastPut(s, m, n, k) => s[n].type = "put"
    BY <1>3, <2>1 DEF LastPut
  <2>3. s[n].type = "put" => LastPut(s, m, n, k)
    <3>1. n \in m..n /\ (n + 1)..n = {}
      OBVIOUS
    <3> QED BY <1>3, <3>1 DEF LastPut
  <2> QED BY <1>2, <1>3, <2>2, <2>3
<1>4. CASE s[n].key # k
  <2>1. ASSUME LastPut(s, m, n, k) PROVE LastPut(s, m, n - 1, k)
    <3>1. PICK i \in m..n : /\ s[i].key = k /\ s[i].type = "put"
                            /\ \A j \in (i + 1)..n : s[j].key # k
      BY <2>1 DEF LastPut
    <3>2. i \in m..(n - 1) /\ \A j \in (i + 1)..(n - 1) : j \in (i + 1)..n
      BY <1>4, <3>1
    <3> QED BY <3>1, <3>2 DEF LastPut
  <2>2. ASSUME LastPut(s, m, n - 1, k) PROVE LastPut(s, m, n, k)
    <3>1. PICK i \in m..(n - 1) : /\ s[i].key = k /\ s[i].type = "put"
                                  /\ \A j \in (i + 1)..(n - 1) : s[j].key # k
      BY <2>2 DEF LastPut
    <3>2. i \in m..n /\ \A j \in (i + 1)..n : s[j].key # k
      BY <1>1, <1>4, <3>1
    <3> QED BY <3>1, <3>2 DEF LastPut
  <2> QED BY <1>2, <1>4, <2>1, <2>2
<1> QED BY <1>2, <1>3, <1>4

\* Two stretches of events, one after the other.
LEMMA TwoStretches ==
  ASSUME NEW s, NEW r \in Nat, NEW n \in Nat, r <= n, NEW k
  PROVE  /\ LastPut(s, 1, n, k) <=>
              LastPut(s, r + 1, n, k) \/ (LastPut(s, 1, r, k) /\ Quiet(s, r + 1, n, k))
         /\ Quiet(s, r + 1, n, k) => ~ LastPut(s, r + 1, n, k)
<1>1. Quiet(s, r + 1, n, k) => ~ LastPut(s, r + 1, n, k)
  BY DEF Quiet, LastPut
<1>2. ASSUME LastPut(s, r + 1, n, k) PROVE LastPut(s, 1, n, k)
  <2>1. \A i \in (r + 1)..n : i \in 1..n
    OBVIOUS
  <2> QED BY <1>2, <2>1 DEF LastPut
<1>3. ASSUME LastPut(s, 1, r, k), Quiet(s, r + 1, n, k) PROVE LastPut(s, 1, n, k)
  <2>1. PICK i \in 1..r : /\ s[i].key = k /\ s[i].type = "put"
                          /\ \A j \in (i + 1)..r : s[j].key # k
    BY <1>3 DEF LastPut
  <2>2. i \in 1..n /\ \A j \in (i + 1)..n : j \in (i + 1)..r \/ j \in (r + 1)..n
    OBVIOUS
  <2>3. \A j \in (i + 1)..n : s[j].key # k
    BY <1>3, <2>1, <2>2 DEF Quiet
  <2> QED BY <2>1, <2>2, <2>3 DEF LastPut
<1>4. ASSUME LastPut(s, 1, n, k), ~ LastPut(s, r + 1, n, k)
      PROVE  LastPut(s, 1, r, k) /\ Quiet(s, r + 1, n, k)
  <2>1. PICK i \in 1..n : /\ s[i].key = k /\ s[i].type = "put"
                          /\ \A j \in (i + 1)..n : s[j].key # k
    BY <1>4 DEF LastPut
  <2>2. i \in 1..r
    <3>1. i \notin (r + 1)..n
      BY <1>4, <2>1 DEF LastPut
    <3> QED BY <3>1
  <2>3. /\ \A j \in (i + 1)..r : j \in (i + 1)..n
        /\ \A j \in (r + 1)..n : j \in (i + 1)..n
    BY <2>2
  <2> QED BY <2>1, <2>2, <2>3 DEF LastPut, Quiet
<1> QED BY <1>1, <1>2, <1>3, <1>4

\* The instances after a response: the last event on each key decides, and keys
\* without one stay as they were.
LEMMA ResponseApplied ==
  ASSUME NEW S \in SUBSET Keys, NEW batch \in Seq(Event)
  PROVE  /\ AppliedAll(S, batch) \in SUBSET Keys
         /\ \A k \in Keys : k \in AppliedAll(S, batch) <=>
              \/ LastPut(batch, 1, Len(batch), k)
              \/ k \in S /\ Quiet(batch, 1, Len(batch), k)
<1> DEFINE n == Len(batch)
           Loop(f, m) == /\ f[0] = S
                         /\ \A i \in 1..m : f[i] = Applied(f[i - 1], batch[i])
           after == CHOOSE f : f = [i \in 0..n |-> IF i = 0 THEN S
                                                   ELSE Applied(f[i - 1], batch[i])]
<1>1. n \in Nat /\ \A i \in 1..n : batch[i] \in Event
  OBVIOUS
<1>2. AppliedAll(S, batch) = after[n]
  BY DEF AppliedAll
<1> HIDE DEF n
<1>3. \E g : DOMAIN g = 0..n /\ g = [i \in 0..n |-> g[i]] /\ Loop(g, n)
  <2> DEFINE Run(m) == \E g : DOMAIN g = 0..m /\ g = [i \in 0..m |-> g[i]] /\ Loop(g, m)
             T == {m \in 0..n : ~ Run(m)}
  <2>1. T = {}
    <3> SUFFICES ASSUME T # {} PROVE FALSE
      OBVIOUS
    <3>1. PICK m \in T : \A l \in T : m <= l
      <4>1. T \in SUBSET Nat
        BY <1>1
      <4> HIDE DEF T
      <4> QED BY <4>1, Least
    <3>2. m # 0
      <4>1. Run(0)
        <5> DEFINE g == [i \in 0..0 |-> S]
        <5>1. DOMAIN g = 0..0 /\ g = [i \in 0..0 |-> g[i]] /\ Loop(g, 0)
          OBVIOUS
        <5> QED BY <5>1
      <4> QED BY <3>1, <4>1
    <3>3. m \in 1..n /\ m - 1 \in 0..n /\ ~ (m <= m - 1)
      BY <1>1, <3>1, <3>2
    <3>4. PICK g : DOMAIN g = 0..(m - 1) /\ Loop(g, m - 1)
      BY <3>1, <3>3
    <3> DEFINE h == [i \in 0..m |-> IF i = m THEN Applied(g[m - 1], batch[m]) ELSE g[i]]
    <3>5. DOMAIN h = 0..m /\ h = [i \in 0..m |-> h[i]] /\ Loop(h, m)
      <4>1. 0 \in 0..m /\ 0 # m /\ \A i \in 1..m : i \in 0..m /\ i - 1 \in 0..m /\ i - 1 # m
        BY <1>1, <3>3
      <4>2. h[m] = Applied(h[m - 1], batch[m])
        BY <3>3, <4>1
      <4>3. \A i \in 1..m : i # m => i \in 1..(m - 1) /\ h[i] = g[i] /\ h[i - 1] = g[i - 1]
        BY <3>3, <4>1
      <4>4. h[0] = S
        BY <3>4, <4>1
      <4> HIDE DEF h
      <4>5. \A i \in 1..m : h[i] = Applied(h[i - 1], batch[i])
        BY <3>4, <4>2, <4>3
      <4> QED BY <4>4, <4>5 DEF h
    <3> QED BY <3>1, <3>5
  <2>2. Run(n)
    BY <1>1, <2>1
  <2> QED BY <2>2
<1>4. Loop(after, n)
  <2>1. PICK g : g = [i \in 0..n |-> g[i]] /\ Loop(g, n)
    BY <1>3
  <2>2. g = [i \in 0..n |-> IF i = 0 THEN S ELSE Applied(g[i - 1], batch[i])]
    <3>1. \A i \in 0..n : g[i] = IF i = 0 THEN S ELSE Applied(g[i - 1], batch[i])
      <4>1. \A i \in 0..n : i = 0 \/ i \in 1..n
        BY <1>1
      <4> QED BY <2>1, <4>1
    <3> QED BY <2>1, <3>1
  <2>3. after = [i \in 0..n |-> IF i = 0 THEN S ELSE Applied(after[i - 1], batch[i])]
    BY <2>2
  <2> HIDE DEF after
  <2> QED BY <1>1, <2>3
<1> HIDE DEF after
<1> DEFINE Right(m) == /\ after[m] \in SUBSET Keys
                       /\ \A k \in Keys : k \in after[m] <=>
                            LastPut(batch, 1, m, k) \/ (k \in S /\ Quiet(batch, 1, m, k))
           T == {m \in 0..n : ~ Right(m)}
<1>5. Right(0)
  BY <1>4 DEF LastPut, Quiet
<1>6. ASSUME NEW m \in 1..n, Right(m - 1) PROVE Right(m)
  <2>1. after[m] = Applied(after[m - 1], batch[m]) /\ batch[m] \in Event
    BY <1>1, <1>4
  <2>2. /\ after[m] \in SUBSET Keys
        /\ \A k : k \in after[m] <=> IF batch[m].key = k THEN batch[m].type = "put"
                                                         ELSE k \in after[m - 1]
    BY <1>6, <2>1, OneEvent
  <2>3. m \in Int /\ 1 <= m
    BY <1>1
  <2>4. \A k : /\ Quiet(batch, 1, m, k) <=> Quiet(batch, 1, m - 1, k) /\ batch[m].key # k
               /\ LastPut(batch, 1, m, k) <=> IF batch[m].key = k THEN batch[m].type = "put"
                                              ELSE LastPut(batch, 1, m - 1, k)
    BY <2>3, LastCounts
  <2> QED BY <1>6, <2>2, <2>4
<1>7. T = {}
  <2> SUFFICES ASSUME T # {} PROVE FALSE
    OBVIOUS
  <2>1. PICK m \in T : \A l \in T : m <= l
    <3>1. T \in SUBSET Nat
      BY <1>1
    <3> HIDE DEF T
    <3> QED BY <3>1, Least
  <2>2. m \in 0..n /\ ~ Right(m) /\ m # 0
    BY <1>5, <2>1
  <2>3. m \in 1..n /\ m - 1 \in 0..n /\ ~ (m <= m - 1)
    BY <1>1, <2>2
  <2>4. Right(m - 1)
    BY <2>1, <2>3
  <2> QED BY <1>6, <2>2, <2>3, <2>4
<1>8. Right(n)
  BY <1>1, <1>7
<1> QED BY <1>2, <1>8 DEF n

\* A response holds the events from the last one seen onwards.
LEMMA ResponseEvents ==
  ASSUME events \in Seq(Event), NEW m \in Nat, NEW n \in Nat, m < n, n <= Revision,
         NEW batch, batch = SubSeq(events, m + 1, n)
  PROVE  /\ batch \in Seq(Event)
         /\ \A k : /\ LastPut(batch, 1, Len(batch), k) <=> LastPut(events, m + 1, n, k)
                   /\ Quiet(batch, 1, Len(batch), k) <=> Quiet(events, m + 1, n, k)
                   /\ k \in {e.key : e \in ToSet(batch)} <=> ~ Quiet(events, m + 1, n, k)
<1>1. /\ batch \in Seq(Event) /\ Len(batch) = n - m /\ DOMAIN batch = 1..(n - m)
      /\ \A i \in 1..(n - m) : batch[i] = events[m + i]
  BY DEF Revision
<1>2. /\ \A i \in 1..(n - m) : m + i \in (m + 1)..n
      /\ \A i \in (m + 1)..n : i - m \in 1..(n - m) /\ batch[i - m] = events[i]
  BY <1>1
<1> SUFFICES ASSUME NEW k
             PROVE  /\ LastPut(batch, 1, n - m, k) <=> LastPut(events, m + 1, n, k)
                    /\ Quiet(batch, 1, n - m, k) <=> Quiet(events, m + 1, n, k)
                    /\ k \in {e.key : e \in ToSet(batch)} <=> ~ Quiet(events, m + 1, n, k)
  BY <1>1
<1>3. Quiet(batch, 1, n - m, k) <=> Quiet(events, m + 1, n, k)
  BY <1>1, <1>2 DEF Quiet
<1>4. k \in {e.key : e \in ToSet(batch)} <=> ~ Quiet(batch, 1, n - m, k)
  BY <1>1 DEF ToSet, Quiet
<1>5. ASSUME LastPut(batch, 1, n - m, k) PROVE LastPut(events, m + 1, n, k)
  <2>1. PICK i \in 1..(n - m) : /\ batch[i].key = k /\ batch[i].type = "put"
                                /\ \A j \in (i + 1)..(n - m) : batch[j].key # k
    BY <1>5 DEF LastPut
  <2>2. \A j \in (m + i + 1)..n : j - m \in (i + 1)..(n - m) /\ j \in (m + 1)..n
    BY <2>1
  <2>3. m + i \in (m + 1)..n /\ events[m + i].key = k /\ events[m + i].type = "put"
    BY <1>1, <1>2, <2>1
  <2>4. \A j \in (m + i + 1)..n : events[j].key # k
    BY <1>2, <2>1, <2>2
  <2> QED BY <2>3, <2>4 DEF LastPut
<1>6. ASSUME LastPut(events, m + 1, n, k) PROVE LastPut(batch, 1, n - m, k)
  <2>1. PICK i \in (m + 1)..n : /\ events[i].key = k /\ events[i].type = "put"
                                /\ \A j \in (i + 1)..n : events[j].key # k
    BY <1>6 DEF LastPut
  <2>2. \A j \in (i - m + 1)..(n - m) : m + j \in (i + 1)..n /\ j \in 1..(n - m)
    BY <2>1
  <2>3. i - m \in 1..(n - m) /\ batch[i - m].key = k /\ batch[i - m].type = "put"
    BY <1>2, <2>1
  <2>4. \A j \in (i - m + 1)..(n - m) : batch[j].key # k
    BY <1>1, <2>1, <2>2
  <2> QED BY <2>3, <2>4 DEF LastPut
<1> QED BY <1>3, <1>4, <1>5, <1>6

\* A further event changes nothing about earlier revisions.
LEMMA FurtherEvent ==
  ASSUME NEW s \in Seq(Event), NEW e \in Event, NEW t \in Seq(Event),
         Len(t) = Len(s) + 1, \A i \in 1..Len(s) : t[i] = s[i], t[Len(t)] = e
  PROVE  /\ \A r \in 0..Len(s) : \A k : LastPut(t, 1, r, k) <=> LastPut(s, 1, r, k)
         /\ \A k : LastPut(t, 1, Len(t), k) <=>
                     IF e.key = k THEN e.type = "put" ELSE LastPut(s, 1, Len(s), k)
<1>1. Len(s) \in Nat
  OBVIOUS
<1>2. ASSUME NEW r \in 0..Len(s), NEW k
      PROVE  LastPut(t, 1, r, k) <=> LastPut(s, 1, r, k)
  <2>1. \A i \in 1..r : i \in 1..Len(s) /\ \A j \in (i + 1)..r : j \in 1..Len(s)
    BY <1>1
  <2> QED BY <2>1 DEF LastPut
<1>3. ASSUME NEW k
      PROVE  LastPut(t, 1, Len(t), k) <=>
               IF e.key = k THEN e.type = "put" ELSE LastPut(s, 1, Len(s), k)
  <2> DEFINE n == Len(t)
  <2>1. n \in Int /\ 1 \in Int /\ 1 <= n /\ n - 1 = Len(s) /\ Len(s) \in 0..Len(s) /\ t[n] = e
    BY <1>1
  <2> HIDE DEF n
  <2>2. \A l : /\ Quiet(t, 1, n, l) <=> Quiet(t, 1, n - 1, l) /\ t[n].key # l
               /\ LastPut(t, 1, n, l) <=> IF t[n].key = l THEN t[n].type = "put"
                                          ELSE LastPut(t, 1, n - 1, l)
    BY <2>1, LastCounts
  <2> QED BY <1>1, <1>2, <2>1, <2>2 DEF n
<1> QED BY <1>1, <1>2, <1>3

-----------------------------------------------------------------------------
(* The invariant                                                           *)

LEMMA InitInv == Init => Inv
<1> SUFFICES ASSUME Init PROVE Inv
  OBVIOUS
<1>1. events = <<>> /\ events \in Seq(Event) /\ Revision = 0
  BY DEF Init, Revision
<1>2. TypeOK
  <2>1. /\ pc \in [Threads -> Phases] /\ pc[Watcher] # "install"
        /\ addrs \in [Threads -> SUBSET Keys]
    BY DEF Init, Threads, Phases
  <2>2. /\ snapshot \in [Resolves -> SUBSET Keys] /\ snapRev \in [Resolves -> 0..Revision]
        /\ starts \in 0..MaxStarts /\ seen \in NotBuilt..Revision
    BY <1>1 DEF Init, NotBuilt
  <2> QED BY <1>1, <2>1, <2>2 DEF Init, TypeOK
<1>3. PresentOK
  BY <1>1 DEF Init, PresentOK, Registered, LastPut
<1>4. SnapshotsOK /\ KnownOK /\ BuiltOK
  BY DEF Init, SnapshotsOK, KnownOK, BuiltOK, Built, Threads
<1> QED BY <1>2, <1>3, <1>4 DEF Inv

\* An instance registers or leaves; the resolver does not know yet.
LEMMA EtcdInv ==
  ASSUME Inv, UNCHANGED resolverVars, NEW k \in Keys, PutKey(k) \/ DeleteKey(k),
         serving' \subseteq Keys, starts' \in 0..MaxStarts
  PROVE  Inv'
<1> DEFINE e == [key |-> k, type |-> IF PutKey(k) THEN "put" ELSE "delete"]
<1>1. /\ events' = Append(events, e)
      /\ present' = IF e.type = "put" THEN present \union {k} ELSE present \ {k}
  BY DEF PutKey, DeleteKey
<1>2. e \in Event /\ e.key = k
  BY DEF Event
<1> HIDE DEF e
<1>3. /\ events' \in Seq(Event) /\ Revision' = Revision + 1 /\ Revision \in Nat
      /\ \A i \in 1..Revision : events'[i] = events[i]
      /\ events'[Revision'] = e
  BY <1>1, <1>2 DEF Inv, TypeOK, Revision
<1>4. /\ events' \in Seq(Event) /\ Revision' = Revision + 1 /\ Revision \in Nat
      /\ \A r \in 0..Revision : \A l : Registered(r, l) <=> LastPut(events', 1, r, l)
      /\ \A l : LastPut(events', 1, Revision', l) <=>
                  IF e.key = l THEN e.type = "put" ELSE Registered(Revision, l)
  <2>1. events \in Seq(Event)
    BY DEF Inv, TypeOK
  <2> QED BY <1>2, <1>3, <2>1, FurtherEvent DEF Revision, Registered
<1>5. TypeOK'
  <2>1. 0..Revision \subseteq 0..Revision' /\ NotBuilt..Revision \subseteq NotBuilt..Revision'
    BY <1>4 DEF NotBuilt
  <2>2. snapRev \in [Resolves -> 0..Revision'] /\ seen \in NotBuilt..Revision'
    BY <2>1 DEF Inv, TypeOK
  <2>3. present' \subseteq Keys
    BY <1>1 DEF Inv, TypeOK
  <2> QED BY <1>4, <2>2, <2>3 DEF Inv, TypeOK, resolverVars
<1>6. PresentOK'
  <2>1. \A l \in Keys : l \in present' <=> IF k = l THEN e.type = "put" ELSE l \in present
    BY <1>1
  <2> QED BY <1>2, <1>4, <2>1 DEF Inv, PresentOK, Registered
<1>7. SnapshotsOK'
  <2>1. \A t \in Resolves : snapRev[t] \in 0..Revision
    BY DEF Inv, TypeOK
  <2> QED BY <1>4, <2>1 DEF Inv, SnapshotsOK, Registered, resolverVars
<1>8. KnownOK'
  <2> SUFFICES ASSUME Built, NEW l \in Keys \ behind
               PROVE  \E r \in seen..Revision' : l \in instances <=> LastPut(events', 1, r, l)
    BY DEF KnownOK, Built, Registered, resolverVars
  <2>1. PICK r \in seen..Revision : l \in instances <=> Registered(r, l)
    BY DEF Inv, KnownOK
  <2>2. r \in 0..Revision /\ r \in seen..Revision'
    BY <1>4 DEF Built, NotBuilt, Inv, TypeOK
  <2> QED BY <1>4, <2>1, <2>2
<1>9. BuiltOK'
  BY DEF Inv, BuiltOK, Built, resolverVars
<1> QED BY <1>5, <1>6, <1>7, <1>8, <1>9 DEF Inv

LEMMA BuildInv == ASSUME Inv, Build PROVE Inv'
<1>1. /\ ~ Built /\ instances' = present /\ pushed' = present /\ seen' = Revision
      /\ watching' = TRUE
      /\ UNCHANGED <<serving, present, events, starts, pc, snapshot, snapRev, addrs,
                     closed, behind, overlapped>>
      /\ Revision' = Revision /\ Revision \in Nat
  BY DEF Build, Known, etcdVars, Revision, Inv, TypeOK
<1>2. TypeOK'
  <2>1. seen' \in NotBuilt..Revision
    BY <1>1 DEF NotBuilt
  <2> QED BY <1>1, <2>1 DEF Inv, TypeOK
<1>3. PresentOK' /\ SnapshotsOK'
  BY <1>1 DEF Inv, PresentOK, SnapshotsOK, Registered
<1>4. KnownOK'
  <2> SUFFICES ASSUME NEW k \in Keys
               PROVE  \E r \in Revision..Revision : k \in present <=> Registered(r, k)
    BY <1>1 DEF KnownOK, Registered
  <2>1. Revision \in Revision..Revision
    BY <1>1
  <2> QED BY <2>1 DEF Inv, PresentOK
<1>5. BuiltOK'
  BY <1>1 DEF BuiltOK, Built, NotBuilt
<1> QED BY <1>2, <1>3, <1>4, <1>5 DEF Inv

LEMMA ResolveNowInv == ASSUME Inv, NEW t \in Resolves, ResolveNow(t) PROVE Inv'
<1>1. /\ Built /\ pc[t] = "idle"
      /\ snapshot' = [snapshot EXCEPT ![t] = present]
      /\ snapRev' = [snapRev EXCEPT ![t] = Revision]
      /\ pc' = [pc EXCEPT ![t] = "install"]
      /\ UNCHANGED <<serving, present, events, starts, instances, pushed, addrs, seen,
                     watching, closed, behind, overlapped>>
      /\ Revision' = Revision /\ Revision \in 0..Revision
  BY DEF ResolveNow, etcdVars, Revision, Inv, TypeOK
<1>2. TypeOK'
  <2>1. pc' \in [Threads -> Phases] /\ pc'[Watcher] # "install"
    BY <1>1 DEF Inv, TypeOK, Threads, Phases
  <2>2. /\ snapshot' \in [Resolves -> SUBSET Keys]
        /\ snapRev' \in [Resolves -> 0..Revision]
    BY <1>1 DEF Inv, TypeOK
  <2> QED BY <1>1, <2>1, <2>2 DEF Inv, TypeOK
<1>3. SnapshotsOK'
  <2> SUFFICES ASSUME NEW u \in Resolves, pc'[u] = "install", NEW k \in Keys
               PROVE  k \in snapshot'[u] <=> Registered(snapRev'[u], k)
    BY <1>1 DEF SnapshotsOK, Registered
  <2>1. CASE u = t
    BY <1>1, <2>1 DEF Inv, TypeOK, PresentOK
  <2>2. CASE u # t
    BY <1>1, <2>2 DEF Inv, TypeOK, SnapshotsOK, Threads
  <2> QED BY <2>1, <2>2
<1>4. PresentOK' /\ KnownOK'
  BY <1>1 DEF Inv, PresentOK, KnownOK, Registered, Built
<1>5. BuiltOK'
  BY <1>1 DEF BuiltOK, Built
<1> QED BY <1>2, <1>3, <1>4, <1>5 DEF Inv

\* A snapshot replaces the instances; what it sets back is behind.
LEMMA InstallInv == ASSUME Inv, NEW t \in Resolves, Install(t) PROVE Inv'
<1>1. /\ pc[t] = "install"
      /\ instances' = snapshot[t]
      /\ behind' = {k \in Keys : \E i \in (snapRev[t] + 1)..seen : events[i].key = k}
      /\ pc' = [pc EXCEPT ![t] = "read"]
      /\ snapshot' = [snapshot EXCEPT ![t] = {}] /\ snapRev' = [snapRev EXCEPT ![t] = 0]
      /\ UNCHANGED <<serving, present, events, starts, pushed, addrs, seen, watching,
                     closed, overlapped>>
      /\ Revision' = Revision /\ Revision \in Nat /\ 0 \in 0..Revision
  BY DEF Install, SnapshotOf, etcdVars, Revision, Inv, TypeOK
<1>2. TypeOK'
  <2>1. pc' \in [Threads -> Phases] /\ pc'[Watcher] # "install"
    BY <1>1 DEF Inv, TypeOK, Threads, Phases
  <2>2. /\ snapshot' \in [Resolves -> SUBSET Keys] /\ instances' \subseteq Keys
        /\ behind' \subseteq Keys
    BY <1>1 DEF Inv, TypeOK
  <2>3. snapRev' \in [Resolves -> 0..Revision]
    BY <1>1 DEF Inv, TypeOK
  <2> QED BY <1>1, <2>1, <2>2, <2>3 DEF Inv, TypeOK
<1>3. PresentOK'
  BY <1>1 DEF Inv, PresentOK, Registered
<1>4. SnapshotsOK'
  <2> SUFFICES ASSUME NEW u \in Resolves, pc'[u] = "install", NEW k \in Keys
               PROVE  k \in snapshot'[u] <=> Registered(snapRev'[u], k)
    BY <1>1 DEF SnapshotsOK, Registered
  <2>1. u # t
    BY <1>1 DEF Inv, TypeOK, Threads
  <2> QED BY <1>1, <2>1 DEF Inv, TypeOK, SnapshotsOK, Threads
<1>5. KnownOK'
  <2> DEFINE m == snapRev[t]
  <2> SUFFICES ASSUME NEW k \in Keys, ~ \E i \in (m + 1)..seen : events[i].key = k
               PROVE  \E r \in seen..Revision : k \in snapshot[t] <=> Registered(r, k)
    BY <1>1 DEF KnownOK, Registered
  <2>1. k \in snapshot[t] <=> Registered(m, k)
    BY <1>1 DEF Inv, SnapshotsOK
  <2>2. m \in 0..Revision /\ seen \in 0..Revision
    BY <1>1 DEF Inv, TypeOK, BuiltOK, Built, NotBuilt
  <2>3. CASE seen <= m
    BY <2>1, <2>2, <2>3
  <2>4. CASE m < seen
    <3>1. Quiet(events, m + 1, seen, k)
      BY DEF Quiet
    <3>2. m \in Nat /\ seen \in Nat /\ m <= seen /\ seen \in seen..Revision
      BY <2>2, <2>4
    <3> HIDE DEF m
    <3>3. Registered(seen, k) <=> Registered(m, k)
      BY <3>1, <3>2, TwoStretches DEF Registered
    <3> QED BY <2>1, <3>2, <3>3
  <2> QED BY <2>2, <2>3, <2>4
<1>6. BuiltOK'
  BY <1>1 DEF Inv, TypeOK, BuiltOK, Built, Threads
<1> QED BY <1>2, <1>3, <1>4, <1>5, <1>6 DEF Inv

\* The keys of a response are as they were registered at its last revision.
LEMMA WatchInv == ASSUME Inv, Watch PROVE Inv'
<1>1. PICK next \in (seen + 1)..Revision :
        /\ instances' = AppliedAll(instances, SubSeq(events, seen + 1, next))
        /\ behind' = behind \ {e.key : e \in ToSet(SubSeq(events, seen + 1, next))}
        /\ seen' = next
        /\ pc' = [pc EXCEPT ![Watcher] = IF Changed(SubSeq(events, seen + 1, next))
                                         THEN "read" ELSE "idle"]
  BY DEF Watch
<1>2. /\ watching
      /\ UNCHANGED <<serving, present, events, starts, pushed, snapshot, snapRev, addrs,
                     watching, closed, overlapped>>
      /\ Revision' = Revision /\ Revision \in Nat
  BY DEF Watch, etcdVars, Revision, Inv, TypeOK
<1>3. seen \in Nat /\ Built /\ next \in Nat /\ seen < next /\ next <= Revision
  BY <1>1, <1>2 DEF Inv, TypeOK, BuiltOK, Built, NotBuilt
<1> DEFINE batch == SubSeq(events, seen + 1, next)
<1>4. /\ batch \in Seq(Event)
      /\ \A k : /\ LastPut(batch, 1, Len(batch), k) <=> LastPut(events, seen + 1, next, k)
                /\ Quiet(batch, 1, Len(batch), k) <=> Quiet(events, seen + 1, next, k)
                /\ k \in {e.key : e \in ToSet(batch)} <=> ~ Quiet(events, seen + 1, next, k)
  <2>1. events \in Seq(Event) /\ batch = SubSeq(events, seen + 1, next)
    BY DEF Inv, TypeOK
  <2> HIDE DEF batch
  <2> QED BY <1>3, <2>1, ResponseEvents
<1> HIDE DEF batch
<1>5. /\ instances' \in SUBSET Keys
      /\ \A k \in Keys : k \in instances' <=>
           \/ LastPut(events, seen + 1, next, k)
           \/ k \in instances /\ Quiet(events, seen + 1, next, k)
  <2>1. instances \in SUBSET Keys /\ instances' = AppliedAll(instances, batch)
    BY <1>1 DEF Inv, TypeOK, batch
  <2> QED BY <1>4, <2>1, ResponseApplied
<1>6. /\ behind' = behind \ {e.key : e \in ToSet(batch)} /\ seen' = next
      /\ \/ pc' = [pc EXCEPT ![Watcher] = "read"]
         \/ pc' = [pc EXCEPT ![Watcher] = "idle"]
  BY <1>1 DEF batch
<1>7. TypeOK'
  <2>1. pc' \in [Threads -> Phases] /\ pc'[Watcher] # "install"
    BY <1>6 DEF Inv, TypeOK, Threads, Phases
  <2>2. seen' \in NotBuilt..Revision
    BY <1>3, <1>6 DEF NotBuilt
  <2> QED BY <1>2, <1>5, <1>6, <2>1, <2>2 DEF Inv, TypeOK
<1>8. \A u \in Resolves : pc'[u] = pc[u]
  BY <1>6 DEF Inv, TypeOK, Threads
<1>9. PresentOK' /\ SnapshotsOK'
  BY <1>2, <1>8 DEF Inv, PresentOK, SnapshotsOK, Registered
<1>10. KnownOK'
  <2> SUFFICES ASSUME NEW k \in Keys, k \notin behind'
               PROVE  \E r \in next..Revision : k \in instances' <=> Registered(r, k)
    BY <1>2, <1>6 DEF KnownOK, Registered
  <2>1. next \in next..Revision
    BY <1>3
  <2>2. CASE ~ Quiet(events, seen + 1, next, k)
    <3>1. Registered(next, k) <=> LastPut(events, seen + 1, next, k)
      BY <1>3, <2>2, TwoStretches DEF Registered
    <3> QED BY <1>5, <2>1, <2>2, <3>1
  <2>3. CASE Quiet(events, seen + 1, next, k)
    <3>1. k \in Keys \ behind
      BY <1>4, <1>6, <2>3
    <3>2. PICK r \in seen..Revision : k \in instances <=> Registered(r, k)
      BY <1>3, <3>1 DEF Inv, KnownOK
    <3>3. k \in instances' <=> k \in instances
      BY <1>3, <1>5, <2>3, TwoStretches
    <3>4. CASE next <= r
      BY <1>3, <3>2, <3>3, <3>4
    <3>5. CASE r < next
      <4>1. r \in Nat /\ r <= next
        BY <1>3, <3>5
      <4>2. Quiet(events, r + 1, next, k)
        <5>1. \A j \in (r + 1)..next : j \in (seen + 1)..next
          BY <1>3, <4>1
        <5> QED BY <2>3, <5>1 DEF Quiet
      <4>3. Registered(next, k) <=> Registered(r, k)
        BY <1>3, <4>1, <4>2, TwoStretches DEF Registered
      <4> QED BY <2>1, <3>2, <3>3, <4>3
    <3> QED BY <1>3, <3>4, <3>5
  <2> QED BY <2>2, <2>3
<1>11. BuiltOK'
  BY <1>3, <1>6 DEF BuiltOK, Built, NotBuilt
<1> QED BY <1>7, <1>9, <1>10, <1>11 DEF Inv

\* updateState, and the ends of the watch and of the resolver.
LEMMA OtherInv ==
  ASSUME Inv, (\E t \in Threads : ThreadStep(t)) \/ EndWatch \/ Close
  PROVE  Inv'
<1>1. /\ UNCHANGED <<serving, present, events, starts, instances, snapshot, snapRev,
                     seen, behind>>
      /\ Revision' = Revision
  BY DEF ThreadStep, ReadAddresses, Push, EndWatch, Close, etcdVars, Revision
<1>2. /\ pushed' \subseteq Keys /\ addrs' \in [Threads -> SUBSET Keys]
      /\ overlapped' \in BOOLEAN /\ closed' \in BOOLEAN /\ watching' \in BOOLEAN
      /\ watching' => watching
  <2>1. ASSUME NEW t \in Threads, ReadAddresses(t) \/ Push(t)
        PROVE  /\ pushed' \subseteq Keys /\ addrs' \in [Threads -> SUBSET Keys]
               /\ overlapped' \in BOOLEAN
    BY <2>1 DEF ReadAddresses, Push, Inv, TypeOK
  <2>2. (\E t \in Threads : ThreadStep(t)) => UNCHANGED <<closed, watching>>
    BY DEF ThreadStep, ReadAddresses, Push
  <2>3. CASE \E t \in Threads : ThreadStep(t)
    BY <2>1, <2>2, <2>3 DEF ThreadStep, Inv, TypeOK
  <2>4. CASE EndWatch \/ Close
    BY <2>4 DEF EndWatch, Close, Inv, TypeOK
  <2> QED BY <2>3, <2>4
<1>3. /\ pc' \in [Threads -> Phases]
      /\ \A t \in Threads : pc'[t] = "install" => pc[t] = "install"
  BY DEF ThreadStep, ReadAddresses, Push, EndWatch, Close, Inv, TypeOK, Phases
<1>4. TypeOK'
  BY <1>1, <1>2, <1>3 DEF Inv, TypeOK, Threads
<1> QED BY <1>1, <1>2, <1>3, <1>4
        DEF Inv, PresentOK, SnapshotsOK, KnownOK, BuiltOK, Built, Registered, Threads

LEMMA NextInv == Inv /\ [Next]_vars => Inv'
<1> SUFFICES ASSUME Inv, [Next]_vars PROVE Inv'
  OBVIOUS
<1>1. CASE \E k \in Keys : Register(k) \/ LoseLease(k) \/ Stop(k) \/ ExpireLease(k)
  <2>1. PICK k \in Keys : Register(k) \/ LoseLease(k) \/ Stop(k) \/ ExpireLease(k)
    BY <1>1
  <2>2. /\ UNCHANGED resolverVars /\ serving' \subseteq Keys /\ starts' \in 0..MaxStarts
        /\ PutKey(k) \/ DeleteKey(k) \/ UNCHANGED <<present, events>>
    BY <2>1 DEF Register, LoseLease, Stop, ExpireLease, Inv, TypeOK
  <2>3. CASE PutKey(k) \/ DeleteKey(k)
    BY <2>2, <2>3, EtcdInv
  <2>4. CASE UNCHANGED <<present, events>>
    BY <2>2, <2>4 DEF resolverVars, Revision, Inv, TypeOK, PresentOK, SnapshotsOK, KnownOK,
                      BuiltOK, Built, Registered
  <2> QED BY <2>2, <2>3, <2>4
<1>2. CASE Build
  BY <1>2, BuildInv
<1>3. CASE Watch
  BY <1>3, WatchInv
<1>4. CASE (\E t \in Threads : ThreadStep(t)) \/ EndWatch \/ Close
  BY <1>4, OtherInv
<1>5. CASE \E t \in Resolves : ResolveNow(t) \/ Install(t)
  BY <1>5, ResolveNowInv, InstallInv
<1>6. CASE UNCHANGED vars
  BY <1>6 DEF vars, etcdVars, resolverVars, Revision, Inv, TypeOK, PresentOK, SnapshotsOK,
              KnownOK, BuiltOK, Built, Registered
<1> QED BY <1>1, <1>2, <1>3, <1>4, <1>5, <1>6 DEF Next

\* Once the watch has delivered everything, the resolver's instances are exactly
\* the registered ones, but for those a snapshot that came in too late has set
\* back (resolveNow, watch), for any number of concurrent resolutions.
THEOREM OnlyOvertaken == Spec => []OnlyOvertakenStale
<1>1. Inv => OnlyOvertakenStale
  <2> SUFFICES ASSUME Inv, watching, seen = Revision, NEW k \in Keys \ behind
               PROVE  k \in instances <=> k \in present
    BY DEF Inv, OnlyOvertakenStale
  <2>1. PICK r \in seen..Revision : k \in instances <=> Registered(r, k)
    BY DEF Inv, KnownOK, BuiltOK
  <2>2. r = Revision
    BY DEF Inv, TypeOK, Revision
  <2> QED BY <2>1, <2>2 DEF Inv, PresentOK
<1> QED BY <1>1, InitInv, NextInv, PTL DEF Spec
=============================================================================
