--------------------------- MODULE EtcdResolver ---------------------------
(***************************************************************************)
(* Service discovery (internal/infrastructure/etcd/): instances of one     *)
(* service keep a key in etcd while their lease lives, and a gateway's     *)
(* gRPC connection learns their addresses from a resolver that takes a     *)
(* snapshot, watches etcd from there on, and takes further snapshots when  *)
(* gRPC asks for them (ResolveNow).                                        *)
(*                                                                         *)
(* The resolver's instances are guarded by a mutex, but a snapshot is read *)
(* before the mutex is taken, and updateState reads the addresses under it *)
(* and hands them to gRPC after releasing it: snapshots, events and updates*)
(* overtake each other.                                                    *)
(***************************************************************************)
EXTENDS Integers, FiniteSets, SequencesExt

CONSTANTS
  Keys,        \* instances, known by key and address alike
  Resolves,    \* goroutines that ResolveNow starts
  Watcher,     \* the goroutine of watch
  MaxStarts    \* bound: how often instances are started

ASSUME ResolverAssumption == Watcher \notin Resolves /\ MaxStarts \in Nat

VARIABLES
  serving,     \* instances whose process runs
  present,     \* keys in etcd
  events,      \* etcd's history of these keys; its length is the revision
  starts,      \* how often instances have been started
  instances,   \* watchResolver.instances
  pushed,      \* the addresses gRPC works with
  pc,          \* where each goroutine is
  snapshot,    \* what Get has returned to a goroutine
  snapRev,     \* its revision
  addrs,       \* what addresses() has returned to a goroutine
  seen,        \* the revision up to which the watch has delivered
  watching,    \* the watch channel is open
  closed,      \* the resolver is closed
  behind,      \* history: keys that a late snapshot has set back
  overlapped   \* history: two updateStates ran at once

etcdVars     == <<serving, present, events, starts>>
resolverVars == <<instances, pushed, pc, snapshot, snapRev, addrs, seen, watching,
                  closed, behind, overlapped>>
vars         == <<etcdVars, resolverVars>>

Threads  == Resolves \union {Watcher}
NotBuilt == -1
Built    == seen # NotBuilt
Revision == Len(events)

\* A goroutine has a snapshot ("install"), has changed the instances ("read")
\* or has read the addresses and not yet pushed them ("push").
Phases == {"idle", "install", "read", "push"}

Event == [key : Keys, type : {"put", "delete"}]

TypeOK ==
  /\ serving \subseteq Keys /\ present \subseteq Keys
  /\ events \in Seq(Event)
  /\ starts \in 0..MaxStarts
  /\ instances \subseteq Keys /\ pushed \subseteq Keys
  /\ pc \in [Threads -> Phases] /\ pc[Watcher] # "install"
  /\ snapshot \in [Resolves -> SUBSET Keys]
  /\ snapRev \in [Resolves -> 0..Revision]
  /\ addrs \in [Threads -> SUBSET Keys]
  /\ seen \in NotBuilt..Revision
  /\ watching \in BOOLEAN /\ closed \in BOOLEAN /\ overlapped \in BOOLEAN
  /\ behind \subseteq Keys

Init ==
  /\ serving = {} /\ present = {} /\ events = <<>> /\ starts = 0
  /\ instances = {} /\ pushed = {}
  /\ pc = [t \in Threads |-> "idle"]
  /\ snapshot = [t \in Resolves |-> {}] /\ snapRev = [t \in Resolves |-> 0]
  /\ addrs = [t \in Threads |-> {}]
  /\ seen = NotBuilt /\ watching = FALSE /\ closed = FALSE
  /\ behind = {} /\ overlapped = FALSE

-----------------------------------------------------------------------------
(* Instances and etcd                                                      *)

PutKey(k)    == /\ present' = present \union {k}
                /\ events' = Append(events, [key |-> k, type |-> "put"])
DeleteKey(k) == /\ present' = present \ {k}
                /\ events' = Append(events, [key |-> k, type |-> "delete"])

\* An instance starts and registers, with a lease of its own.
Register(k) == /\ k \notin serving /\ starts < MaxStarts
               /\ serving' = serving \union {k}
               /\ starts' = starts + 1
               /\ PutKey(k)
               /\ UNCHANGED resolverVars

\* The lease is lost while the process runs; it never registers again.
LoseLease(k) == /\ k \in serving /\ k \in present
                /\ DeleteKey(k)
                /\ UNCHANGED <<serving, starts, resolverVars>>

\* The process ends.  The lease is revoked, unless etcd is out of reach, the
\* process crashed, or main was faster than the goroutine that revokes it.
Stop(k) == /\ k \in serving
           /\ serving' = serving \ {k}
           /\ \/ k \in present /\ DeleteKey(k)
              \/ UNCHANGED <<present, events>>
           /\ UNCHANGED <<starts, resolverVars>>

\* Nobody keeps the lease alive.
ExpireLease(k) == /\ k \in present /\ k \notin serving
                  /\ DeleteKey(k)
                  /\ UNCHANGED <<serving, starts, resolverVars>>

-----------------------------------------------------------------------------
(* The resolver                                                            *)

\* What the watch need not deliver: it begins at the snapshot's revision plus one.
Known == Revision

\* Build: a first snapshot, installed and pushed before anyone else has the
\* resolver, and a watch that goes on from its revision.
Build == /\ ~ Built
         /\ instances' = present /\ pushed' = present
         /\ seen' = Known /\ watching' = TRUE
         /\ UNCHANGED <<etcdVars, pc, snapshot, snapRev, addrs, closed, behind,
                        overlapped>>

\* ResolveNow starts a goroutine, and its Get is answered.
ResolveNow(t) ==
  /\ Built /\ ~ closed
  /\ pc[t] = "idle"
  /\ snapshot' = [snapshot EXCEPT ![t] = present]
  /\ snapRev' = [snapRev EXCEPT ![t] = Revision]
  /\ pc' = [pc EXCEPT ![t] = "install"]
  /\ UNCHANGED <<etcdVars, instances, pushed, addrs, seen, watching, closed,
                 behind, overlapped>>

\* Wrong on purpose: the snapshot is added to what was known.
SnapshotMerged(t) == instances \union snapshot[t]

\* The map that replaces the instances.
SnapshotOf(t) == snapshot[t]

\* The instances become the snapshot, however old it is.
Install(t) ==
  /\ pc[t] = "install"
  /\ instances' = SnapshotOf(t)
  /\ behind' = {k \in Keys : \E i \in (snapRev[t] + 1)..seen : events[i].key = k}
  /\ pc' = [pc EXCEPT ![t] = "read"]
  /\ snapshot' = [snapshot EXCEPT ![t] = {}] /\ snapRev' = [snapRev EXCEPT ![t] = 0]
  /\ UNCHANGED <<etcdVars, pushed, addrs, seen, watching, closed, overlapped>>

\* Wrong on purpose: deletions are not applied.
AppliedPutsOnly(S, event) == IF event.type = "put" THEN S \union {event.key} ELSE S

\* One event of a response.
Applied(S, event) ==
  IF event.type = "put" THEN S \union {event.key} ELSE S \ {event.key}

\* The events of a response, one after the other.
AppliedAll(S, batch) ==
  LET after[n \in 0..Len(batch)] ==
        IF n = 0 THEN S ELSE Applied(after[n - 1], batch[n])
  IN  after[Len(batch)]

\* Wrong on purpose: gRPC hears only of instances that leave.
ChangedByDelete(batch) == \E i \in DOMAIN batch : batch[i].type = "delete"

\* Whether a response calls for updateState; each event does.
Changed(batch) == batch # <<>>

\* A response of the watch: one or more events, applied together.
Watch ==
  /\ watching /\ pc[Watcher] = "idle"
  /\ \E next \in (seen + 1)..Revision :
       LET batch == SubSeq(events, seen + 1, next) IN
       /\ instances' = AppliedAll(instances, batch)
       /\ behind' = behind \ {e.key : e \in ToSet(batch)}
       /\ seen' = next
       /\ pc' = [pc EXCEPT ![Watcher] = IF Changed(batch) THEN "read" ELSE "idle"]
  /\ UNCHANGED <<etcdVars, pushed, snapshot, snapRev, addrs, watching, closed,
                 overlapped>>

\* updateState, first part: addresses().
ReadAddresses(t) ==
  /\ pc[t] = "read"
  /\ addrs' = [addrs EXCEPT ![t] = instances]
  /\ overlapped' = \E u \in Threads \ {t} : pc[u] = "push"
  /\ pc' = [pc EXCEPT ![t] = "push"]
  /\ UNCHANGED <<etcdVars, instances, pushed, snapshot, snapRev, seen, watching,
                 closed, behind>>

\* updateState, second part: cc.UpdateState.
Push(t) ==
  /\ pc[t] = "push"
  /\ pushed' = addrs[t]
  /\ pc' = [pc EXCEPT ![t] = "idle"]
  /\ addrs' = [addrs EXCEPT ![t] = {}]
  /\ UNCHANGED <<etcdVars, instances, snapshot, snapRev, seen, watching, closed,
                 behind, overlapped>>

\* etcd ends the watch (the revision it asks for is compacted); nobody starts
\* another.
EndWatch == /\ watching
            /\ watching' = FALSE
            /\ UNCHANGED <<etcdVars, instances, pushed, pc, snapshot, snapRev, addrs,
                           seen, closed, behind, overlapped>>

\* Close cancels the context of the Gets and of the watch.
Close == /\ Built /\ ~ closed
         /\ closed' = TRUE /\ watching' = FALSE
         /\ UNCHANGED <<etcdVars, instances, pushed, pc, snapshot, snapRev, addrs,
                        seen, behind, overlapped>>

-----------------------------------------------------------------------------
ThreadStep(t) == ReadAddresses(t) \/ Push(t)

Next ==
  \/ \E k \in Keys : Register(k) \/ LoseLease(k) \/ Stop(k) \/ ExpireLease(k)
  \/ Build \/ Watch \/ EndWatch \/ Close
  \/ \E t \in Resolves : ResolveNow(t) \/ Install(t)
  \/ \E t \in Threads : ThreadStep(t)

Spec == Init /\ [][Next]_vars

\* gRPC works with the address of a process that is gone, so a connection
\* fails, and gRPC asks for a new resolution.
ResolveAfterFailure == /\ pushed \ serving # {}
                       /\ \E t \in Resolves : ResolveNow(t)

\* Leases that nobody renews expire, goroutines run, the watch delivers, and
\* gRPC re-resolves after failures; no instance has to start, to stop or to keep
\* its lease.
Fairness == /\ \A k \in Keys : WF_vars(ExpireLease(k))
            /\ WF_vars(Watch)
            /\ WF_vars(ResolveAfterFailure)
            /\ \A t \in Resolves : WF_vars(Install(t))
            /\ \A t \in Threads : WF_vars(ThreadStep(t))

FairSpec == Spec /\ Fairness

-----------------------------------------------------------------------------
(* Properties                                                              *)

\* Once the watch has delivered everything, the resolver knows exactly the
\* registered instances, except for keys that a snapshot taken before, and
\* installed after, their last event has set back (resolveNow, watch).  Snapshots
\* that are ahead of the watch do no harm, although it replays older events.
OnlyOvertakenStale ==
  /\ TypeOK
  /\ watching /\ seen = Revision =>
       \A k \in Keys \ behind : k \in instances <=> k \in present

\* gRPC stops using the address of a process that has ended, although late
\* snapshots may bring it back and the watch may be gone: there is always
\* another resolution.
DeadAddressLeaves ==
  \A k \in Keys : k \in pushed \ serving ~> k \notin pushed \/ k \in serving \/ closed

\* An instance that registers is used, unless it loses its registration, a late
\* snapshot hides it, updates overlap, or the watch is over.
JoinedIsPushed ==
  \A k \in Keys :
    Built /\ k \in present
      ~> k \in pushed \/ k \notin present \/ k \in behind \/ overlapped \/ ~ watching
=============================================================================
