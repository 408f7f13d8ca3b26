----------------------------- MODULE Snowflake -----------------------------
(***************************************************************************)
(* The id generator (internal/domain/link/snowflake.go).  A process holds  *)
(* the last millisecond and sequence number in memory only; its clock may  *)
(* be stepped back, also to before the generator's epoch, and the process  *)
(* may be restarted.  Two processes share ids exactly when they are given  *)
(* the same node id, which the code leaves to configuration.               *)
(*                                                                         *)
(* NextID runs under a mutex, so one call is one step, save that it may    *)
(* wait for the next millisecond with the mutex held.                      *)
(***************************************************************************)
EXTENDS Integers

CONSTANTS
  Procs,       \* processes with a generator
  NodeOf,      \* the node id each is configured with
  MaxNode,     \* snowflakeMaxNode, 2^10 - 1
  MaxSequence, \* snowflakeMaxSequence, 2^12 - 1
  Early,       \* bound: how many ms before the epoch a clock may be
  MaxTime,     \* bound: the latest clock reading, in ms since the epoch
  MaxBack,     \* bound: how often clocks are stepped back
  MaxRestarts  \* bound: how often processes restart

\* NewSnowflake refuses other node ids.
ASSUME NodeAssumption == /\ MaxNode \in Nat /\ MaxSequence \in Nat
                         /\ NodeOf \in [Procs -> 0..MaxNode]
ASSUME TimeAssumption == /\ Early \in Nat /\ MaxTime \in Nat
                         /\ MaxBack \in Nat /\ MaxRestarts \in Nat

VARIABLES
  wall,        \* clock of each process, ms since the epoch
  lastMs,      \* Snowflake.lastMs
  sequence,    \* Snowflake.sequence
  waiting,     \* NextID is in waitNextMillis
  life,        \* how often the process has restarted
  back,        \* how often a clock has been stepped back
  issued,      \* history: ids returned, with the process and its life
  count,       \* history: how many have been
  high,        \* history: latest ms used in an earlier life; -1 if none
  rewound      \* history: an id was issued at a ms not after `high`

genVars == <<lastMs, sequence, waiting>>
issueVars == <<issued, count, rewound>>
vars == <<wall, genVars, life, back, issueVars, high>>

Times == (-Early)..MaxTime

-----------------------------------------------------------------------------
\* Wrong on purpose: the node is not masked when it is read back.
ParseNodeUnmasked(id) == id \div (MaxSequence + 1)

\* Wrong on purpose: the node id is left out.
ComposeNoNode(ms, node, seq) == ms * (MaxNode + 1) * (MaxSequence + 1) + seq

\* The shifts and masks of NextID and ParseSnowflake.
Compose(ms, node, seq) == (ms * (MaxNode + 1) + node) * (MaxSequence + 1) + seq

ParseSequence(id) == id % (MaxSequence + 1)
ParseNode(id)     == (id \div (MaxSequence + 1)) % (MaxNode + 1)
ParseMs(id)       == id \div ((MaxSequence + 1) * (MaxNode + 1))

\* Wrong on purpose: the clock is trusted.
NowMsOfClock(p) == wall[p]

\* The millisecond of a call: never before the last one used.
NowMs(p) == IF wall[p] < lastMs[p] THEN lastMs[p] ELSE wall[p]

\* The sequence number after the last one, modulo its width.
NextSequence(p) == (sequence[p] + 1) % (MaxSequence + 1)

-----------------------------------------------------------------------------
Ids == [proc : Procs, life : 0..MaxRestarts, ms : Nat, seq : 0..MaxSequence,
        id : Nat, no : Nat]

TypeOK ==
  /\ wall \in [Procs -> Times]
  /\ lastMs \in [Procs -> Nat]
  /\ sequence \in [Procs -> 0..MaxSequence]
  /\ waiting \in [Procs -> BOOLEAN]
  /\ life \in [Procs -> 0..MaxRestarts]
  /\ back \in 0..MaxBack
  /\ issued \subseteq Ids
  /\ count \in Nat
  /\ high \in [Procs -> Nat \union {-1}]
  /\ rewound \subseteq Procs

Init ==
  /\ wall \in [Procs -> Times]
  /\ lastMs = [p \in Procs |-> 0]
  /\ sequence = [p \in Procs |-> 0]
  /\ waiting = [p \in Procs |-> FALSE]
  /\ life = [p \in Procs |-> 0]
  /\ back = 0
  /\ issued = {}
  /\ count = 0
  /\ high = [p \in Procs |-> -1]
  /\ rewound = {}

-----------------------------------------------------------------------------
Tick(p) == /\ wall[p] < MaxTime
           /\ wall' = [wall EXCEPT ![p] = @ + 1]
           /\ UNCHANGED <<genVars, life, back, issueVars, high>>

\* The clock is corrected to an earlier time.
StepBack(p) == /\ back < MaxBack
               /\ \E t \in Times : t < wall[p] /\ wall' = [wall EXCEPT ![p] = t]
               /\ back' = back + 1
               /\ UNCHANGED <<genVars, life, issueVars, high>>

\* The end of NextID: remember ms and return the id.
Issue(p, ms, seq) ==
  /\ lastMs' = [lastMs EXCEPT ![p] = ms]
  /\ issued' = issued \union
       {[proc |-> p, life |-> life[p], ms |-> ms, seq |-> seq,
         id |-> Compose(ms, NodeOf[p], seq), no |-> count]}
  /\ count' = count + 1
  /\ rewound' = IF ms <= high[p] THEN rewound \union {p} ELSE rewound

\* NextID in a later millisecond than the last one.
NextIDNewMs(p) ==
  /\ ~ waiting[p]
  /\ NowMs(p) # lastMs[p]
  /\ sequence' = [sequence EXCEPT ![p] = 0]
  /\ Issue(p, NowMs(p), 0)
  /\ UNCHANGED <<wall, waiting, life, back, high>>

\* NextID in the same millisecond, or with the clock behind it.
NextIDSameMs(p) ==
  /\ ~ waiting[p]
  /\ NowMs(p) = lastMs[p]
  /\ sequence' = [sequence EXCEPT ![p] = NextSequence(p)]
  /\ IF NextSequence(p) = 0
     THEN /\ waiting' = [waiting EXCEPT ![p] = TRUE]
          /\ UNCHANGED <<lastMs, issueVars>>
     ELSE /\ Issue(p, lastMs[p], NextSequence(p))
          /\ UNCHANGED waiting
  /\ UNCHANGED <<wall, life, back, high>>

\* Wrong on purpose: the clock is read once, when the wait begins and it is
\* at the last millisecond.
MayStopWaitingUnread(p) == lastMs[p] > lastMs[p]

\* waitNextMillis is left when the clock is past the last millisecond.
MayStopWaiting(p) == wall[p] > lastMs[p]

\* waitNextMillis returns, and NextID with it.
WaitNextMillis(p) ==
  /\ waiting[p]
  /\ MayStopWaiting(p)
  /\ waiting' = [waiting EXCEPT ![p] = FALSE]
  /\ Issue(p, wall[p], sequence[p])
  /\ UNCHANGED <<wall, sequence, life, back, high>>

\* The process stops, also in the middle of a wait, and starts with a new
\* generator: NewSnowflake.
Restart(p) ==
  /\ life[p] < MaxRestarts
  /\ life' = [life EXCEPT ![p] = @ + 1]
  /\ high' = [high EXCEPT ![p] =
                IF /\ lastMs[p] > @
                   /\ \E i \in issued : i.proc = p /\ i.life = life[p]
                THEN lastMs[p] ELSE @]
  /\ lastMs' = [lastMs EXCEPT ![p] = 0]
  /\ sequence' = [sequence EXCEPT ![p] = 0]
  /\ waiting' = [waiting EXCEPT ![p] = FALSE]
  /\ UNCHANGED <<wall, back, issueVars>>

Next == \E p \in Procs : \/ Tick(p) \/ StepBack(p)
                         \/ NextIDNewMs(p) \/ NextIDSameMs(p) \/ WaitNextMillis(p)
                         \/ Restart(p)

Spec == Init /\ [][Next]_vars

\* Clocks advance, and the loop of waitNextMillis polls them.
Fairness == \A p \in Procs : WF_vars(Tick(p)) /\ WF_vars(WaitNextMillis(p))

FairSpec == Spec /\ Fairness

-----------------------------------------------------------------------------
(* Properties                                                              *)

\* Ids grow strictly over the life of a generator (NextID), also across the wrap
\* of the sequence and while the clock is behind: whatever is issued next is
\* above everything the same generator has issued.
IdsIncrease ==
  [][\A i \in issued' \ issued : \A j \in issued :
       j.proc = i.proc /\ j.life = i.life => j.id < i.id]_vars

\* An id is never issued twice, by any process in any of its lives, unless two
\* processes have the same node id or one of them restarted with its clock not
\* past what it had used before (lastMs is not persisted).
IdsUnique ==
  \A i, j \in issued :
    i.id = j.id => \/ i = j
                   \/ i.proc # j.proc /\ NodeOf[i.proc] = NodeOf[j.proc]
                   \/ i.proc = j.proc /\ i.life # j.life /\ i.proc \in rewound

\* ParseSnowflake reads back from every id the millisecond, node and sequence it
\* was issued with: no field of NextID's composition runs into another.
ParseRoundTrip ==
  \A i \in issued : /\ ParseMs(i.id) = i.ms
                    /\ ParseNode(i.id) = NodeOf[i.proc]
                    /\ ParseSequence(i.id) = i.seq

\* NextID leaves waitNextMillis, in which it holds the mutex, once the clock has
\* caught up with the last millisecond used.
WaitEnds ==
  \A p \in Procs : waiting[p] /\ lastMs[p] < MaxTime ~> ~ waiting[p]
=============================================================================
