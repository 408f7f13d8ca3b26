--------------------------- MODULE LinkIdsProofs ---------------------------
(***************************************************************************)
(* The generator's ids are unique, increase and are read back, and their   *)
(* codes lead back to them and to their tables, for any number of          *)
(* processes, any widths of the fields and any alphabet, word and buffer   *)
(* that fit each other.                                                    *)
(***************************************************************************)
EXTENDS LinkIds, WellFoundedInduction, TLAPS

-----------------------------------------------------------------------------
(* Arithmetic of an id: high digit x, base b, low digit s                  *)

\* A larger high digit outweighs any low digit.
LEMMA HighDigit ==
  ASSUME NEW b \in Nat \ {0}, NEW x \in Nat, NEW y \in Nat,
         NEW s \in 0..(b - 1), NEW t \in Nat, x < y
  PROVE  x * b + s < y * b + t
<1> DEFINE d == y - x - 1
<1>1. d \in Nat /\ y = x + 1 + d
  OBVIOUS
<1> HIDE DEF d
<1>2. d * b \in Nat /\ x * b \in Nat
  BY <1>1
<1>3. y * b = x * b + b + d * b
  BY <1>1
<1> QED
  BY <1>2, <1>3

\* NextID's composition orders ids by millisecond, then node, then sequence.
LEMMA ComposeOrder ==
  ASSUME NEW m \in Nat, NEW n \in Nat, NEW k \in 0..MaxNode, NEW l \in 0..MaxNode,
         NEW s \in 0..MaxSequence, NEW t \in 0..MaxSequence,
         \/ m < n
         \/ m = n /\ k < l
         \/ m = n /\ k = l /\ s < t
  PROVE  Compose(m, k, s) < Compose(n, l, t)
<1> DEFINE a == MaxNode + 1
           b == MaxSequence + 1
           x == m * a + k
           y == n * a + l
<1>1. a \in Nat \ {0} /\ b \in Nat \ {0} /\ k \in 0..(a - 1) /\ s \in 0..(b - 1)
  BY NodeAssumption
<1>2. x \in Nat /\ y \in Nat
  BY <1>1
<1>3. CASE m < n
  <2>1. x < y
    BY <1>1, <1>3, HighDigit
  <2> QED
    BY <1>1, <1>2, <2>1, HighDigit DEF Compose
<1>4. CASE m = n /\ k < l
  <2>1. x < y
    BY <1>1, <1>4
  <2> QED
    BY <1>1, <1>2, <2>1, HighDigit DEF Compose
<1>5. CASE m = n /\ k = l /\ s < t
  BY <1>1, <1>2, <1>5 DEF Compose
<1> QED
  BY <1>3, <1>4, <1>5

\* Equal ids agree in every field.
LEMMA ComposeInjective ==
  ASSUME NEW m \in Nat, NEW n \in Nat, NEW k \in 0..MaxNode, NEW l \in 0..MaxNode,
         NEW s \in 0..MaxSequence, NEW t \in 0..MaxSequence,
         Compose(m, k, s) = Compose(n, l, t)
  PROVE  m = n /\ k = l /\ s = t
<1>1. Compose(m, k, s) \in Int
  BY NodeAssumption DEF Compose
<1>2. MaxNode \in Nat /\ MaxSequence \in Nat
  BY NodeAssumption
<1>3. ~ (m < n) /\ ~ (n < m)
  BY <1>1, ComposeOrder
<1>4. m = n
  BY <1>3
<1>5. ~ (k < l) /\ ~ (l < k)
  BY <1>1, <1>4, ComposeOrder
<1>6. k = l
  BY <1>2, <1>5
<1>7. ~ (s < t) /\ ~ (t < s)
  BY <1>1, <1>4, <1>6, ComposeOrder
<1> QED
  BY <1>2, <1>4, <1>6, <1>7

\* Division by the base takes the two parts apart again.
LEMMA DivMod ==
  ASSUME NEW b \in Nat \ {0}, NEW x \in Nat, NEW s \in 0..(b - 1)
  PROVE  (x * b + s) \div b = x /\ (x * b + s) % b = s
OBVIOUS

\* ParseSnowflake undoes the composition.
LEMMA ParseCompose ==
  ASSUME NEW m \in Nat, NEW k \in 0..MaxNode, NEW s \in 0..MaxSequence
  PROVE  /\ ParseMs(Compose(m, k, s)) = m
         /\ ParseNode(Compose(m, k, s)) = k
         /\ ParseSequence(Compose(m, k, s)) = s
<1> DEFINE a == MaxNode + 1
           b == MaxSequence + 1
           x == m * a + k
<1>1. a \in Nat \ {0} /\ b \in Nat \ {0} /\ k \in 0..(a - 1) /\ s \in 0..(b - 1)
  BY NodeAssumption
<1>2. x \in Nat /\ x \div a = m /\ x % a = k
  <2>1. x \in Nat
    BY <1>1
  <2> HIDE DEF a
  <2>2. x \div a = m /\ x % a = k
    BY <1>1, DivMod
  <2> QED
    BY <2>1, <2>2
<1>3. Compose(m, k, s) = x * b + s
  BY DEF Compose
<1>4. (x * b + s) \div b = x /\ (x * b + s) % b = s
  BY <1>1, <1>2, DivMod
<1>5. (x * b + s) \div (b * a) = m
  <2> DEFINE r == k * b + s
  <2>1. r \in 0..(b * a - 1)
    <3>1. k * b + s < (k + 1) * b /\ (k + 1) * b <= a * b
      BY <1>1
    <3> QED
      BY <1>1, <3>1
  <2>2. x * b + s = m * (b * a) + r
    BY <1>1
  <2>3. b * a \in Nat \ {0}
    BY <1>1
  <2> HIDE DEF r
  <2> QED
    BY <2>1, <2>2, <2>3
<1> QED
  BY <1>2, <1>3, <1>4, <1>5 DEF ParseMs, ParseNode, ParseSequence

-----------------------------------------------------------------------------
(* The invariant                                                           *)

\* What was issued is composed of its fields, and numbered.
IssuedOK ==
  \A i \in issued : /\ i.id = Compose(i.ms, NodeOf[i.proc], i.seq)
                    /\ i.no < count
                    /\ i.life <= life[i.proc]

\* No two have the same number.
NumberedOnce == \A i, j \in issued : i.no = j.no => i = j

\* The fields of a generator are past everything it has issued.
Ahead ==
  \A i \in issued : i.life = life[i.proc] =>
    \/ i.ms < lastMs[i.proc]
    \/ /\ i.ms = lastMs[i.proc]
       /\ waiting[i.proc] \/ i.seq <= sequence[i.proc]

\* What a process used in its earlier lives is not later than `high`.
EarlierLives ==
  \A i \in issued : i.life < life[i.proc] => i.ms <= high[i.proc]

\* A generator waits only when its sequence has wrapped.
WaitsAtZero == \A p \in Procs : waiting[p] => sequence[p] = 0

Inv == /\ TypeOK /\ IssuedOK /\ NumberedOnce /\ Ahead /\ EarlierLives
       /\ WaitsAtZero /\ IdsUnique

\* The id issued by a step, if it issues one.
NewId(p, ms, seq) ==
  [proc |-> p, life |-> life[p], ms |-> ms, seq |-> seq,
   id |-> Compose(ms, NodeOf[p], seq), no |-> count]

\* What the three ways to issue an id have in common.
IssuesAt(p, ms, seq) ==
  /\ Issue(p, ms, seq)
  /\ ms \in Nat /\ seq \in 0..MaxSequence
  /\ \/ lastMs[p] < ms
     \/ lastMs[p] = ms /\ ~ waiting[p] /\ sequence[p] < seq
  /\ sequence' = [sequence EXCEPT ![p] = seq]
  /\ waiting' = [waiting EXCEPT ![p] = FALSE]
  /\ UNCHANGED <<wall, life, back, high>>

\* Every step that issues an id moves the generator strictly ahead.
LEMMA Issuing ==
  ASSUME TypeOK, WaitsAtZero, NEW p \in Procs,
         NextIDNewMs(p) \/ NextIDSameMs(p) \/ WaitNextMillis(p)
  PROVE  \/ \E ms \in Nat, seq \in 0..MaxSequence : IssuesAt(p, ms, seq)
         \/ /\ ~ waiting[p]
            /\ waiting' = [waiting EXCEPT ![p] = TRUE]
            /\ sequence' = [sequence EXCEPT ![p] = 0]
            /\ UNCHANGED <<wall, lastMs, life, back, high, issueVars>>
<1>1. /\ wall \in [Procs -> Times] /\ wall[p] \in Int
      /\ lastMs \in [Procs -> Nat] /\ lastMs[p] \in Nat
      /\ sequence \in [Procs -> 0..MaxSequence] /\ sequence[p] \in 0..MaxSequence
      /\ waiting \in [Procs -> BOOLEAN]
      /\ MaxSequence \in Nat
  BY NodeAssumption, TimeAssumption DEF TypeOK, Times
<1>2. CASE NextIDNewMs(p)
  <2>1. NowMs(p) \in Nat /\ lastMs[p] < NowMs(p)
    BY <1>1, <1>2 DEF NextIDNewMs, NowMs
  <2>2. waiting' = [waiting EXCEPT ![p] = FALSE]
    BY <1>1, <1>2 DEF NextIDNewMs
  <2>3. 0 \in 0..MaxSequence
    BY <1>1
  <2>4. IssuesAt(p, NowMs(p), 0)
    BY <1>2, <2>1, <2>2, <2>3 DEF NextIDNewMs, IssuesAt
  <2> QED
    BY <2>1, <2>3, <2>4
<1>3. CASE NextIDSameMs(p) /\ NextSequence(p) = 0
  BY <1>3 DEF NextIDSameMs
<1>4. CASE NextIDSameMs(p) /\ NextSequence(p) # 0
  <2>1. NextSequence(p) \in 0..MaxSequence /\ sequence[p] < NextSequence(p)
    BY <1>1, <1>4 DEF NextSequence
  <2>2. waiting' = [waiting EXCEPT ![p] = FALSE]
    BY <1>1, <1>4 DEF NextIDSameMs
  <2>3. IssuesAt(p, lastMs[p], NextSequence(p))
    BY <1>1, <1>4, <2>1, <2>2 DEF NextIDSameMs, IssuesAt
  <2> QED
    BY <1>1, <2>1, <2>3
<1>5. CASE WaitNextMillis(p)
  <2>1. wall[p] \in Nat /\ lastMs[p] < wall[p]
    BY <1>1, <1>5 DEF WaitNextMillis, MayStopWaiting
  <2>2. sequence' = [sequence EXCEPT ![p] = sequence[p]]
    BY <1>1, <1>5 DEF WaitNextMillis
  <2>3. IssuesAt(p, wall[p], sequence[p])
    BY <1>1, <1>5, <2>1, <2>2 DEF WaitNextMillis, IssuesAt
  <2> QED
    BY <1>1, <2>1, <2>3
<1> QED
  BY <1>2, <1>3, <1>4, <1>5

\* An id issued next is above all earlier ones of the same life.
LEMMA NewIdAbove ==
  ASSUME Inv, NEW p \in Procs, NEW ms \in Nat, NEW seq \in 0..MaxSequence,
         IssuesAt(p, ms, seq),
         NEW j \in issued, j.proc = p, j.life = life[p]
  PROVE  j.id < Compose(ms, NodeOf[p], seq)
<1>1. /\ j.ms \in Nat /\ j.seq \in 0..MaxSequence /\ NodeOf[p] \in 0..MaxNode
      /\ lastMs[p] \in Nat /\ sequence[p] \in 0..MaxSequence
      /\ MaxSequence \in Nat
  BY NodeAssumption DEF Inv, TypeOK, Ids
<1>2. \/ j.ms < lastMs[p]
      \/ j.ms = lastMs[p] /\ (waiting[p] \/ j.seq <= sequence[p])
  BY DEF Inv, Ahead
<1>3. j.ms < ms \/ (j.ms = ms /\ j.seq < seq)
  BY <1>1, <1>2 DEF IssuesAt
<1>4. j.id = Compose(j.ms, NodeOf[p], j.seq)
  BY DEF Inv, IssuedOK
<1> QED
  BY <1>1, <1>3, <1>4, ComposeOrder

\* An id issued next differs from every earlier one, save for those the
\* exceptions of IdsUnique name.
LEMMA NewIdFresh ==
  ASSUME Inv, NEW p \in Procs, NEW ms \in Nat, NEW seq \in 0..MaxSequence,
         IssuesAt(p, ms, seq),
         NEW j \in issued, j.id = Compose(ms, NodeOf[p], seq)
  PROVE  \/ j.proc # p /\ NodeOf[j.proc] = NodeOf[p]
         \/ j.proc = p /\ j.life # life[p] /\ p \in rewound'
<1>1. /\ j.ms \in Nat /\ j.seq \in 0..MaxSequence /\ j.proc \in Procs
      /\ j.life \in Nat /\ life[p] \in Nat /\ j.id \in Nat
      /\ NodeOf[p] \in 0..MaxNode /\ NodeOf[j.proc] \in 0..MaxNode
      /\ j.id = Compose(j.ms, NodeOf[j.proc], j.seq)
      /\ j.life <= life[j.proc]
  BY NodeAssumption, TimeAssumption DEF Inv, TypeOK, Ids, IssuedOK
<1>2. j.ms = ms /\ NodeOf[j.proc] = NodeOf[p]
  <2>1. Compose(j.ms, NodeOf[j.proc], j.seq) = Compose(ms, NodeOf[p], seq)
    BY <1>1
  <2>2. /\ j.ms \in Nat /\ j.seq \in 0..MaxSequence
        /\ NodeOf[p] \in 0..MaxNode /\ NodeOf[j.proc] \in 0..MaxNode
    BY <1>1
  <2>3. ASSUME NEW n \in Nat, NEW t \in 0..MaxSequence,
               NEW k \in 0..MaxNode, NEW l \in 0..MaxNode,
               Compose(n, l, t) = Compose(ms, k, seq)
        PROVE  n = ms /\ l = k
    BY <2>3, ComposeInjective
  <2> QED
    BY <2>1, <2>2, <2>3
<1>3. CASE j.proc = p
  <2>1. j.life # life[p]
    <3>1. ~ (j.id < Compose(ms, NodeOf[p], seq))
      BY <1>1
    <3> QED
      BY <1>3, <3>1, NewIdAbove
  <2>2. ms <= high[p]
    BY <1>1, <1>2, <1>3, <2>1 DEF Inv, EarlierLives
  <2> QED
    BY <1>3, <2>1, <2>2 DEF IssuesAt, Issue
<1> QED
  BY <1>2, <1>3

\* Issuing an id keeps the invariant.
LEMMA IssueKeepsInv ==
  ASSUME Inv, NEW p \in Procs, NEW ms \in Nat, NEW seq \in 0..MaxSequence,
         IssuesAt(p, ms, seq)
  PROVE  Inv'
<1> DEFINE new == NewId(p, ms, seq)
<1>1. /\ issued' = issued \union {new}
      /\ count' = count + 1
      /\ lastMs' = [lastMs EXCEPT ![p] = ms]
      /\ rewound' = IF ms <= high[p] THEN rewound \union {p} ELSE rewound
      /\ sequence' = [sequence EXCEPT ![p] = seq]
      /\ waiting' = [waiting EXCEPT ![p] = FALSE]
      /\ UNCHANGED <<wall, life, back, high>>
  BY DEF IssuesAt, Issue, NewId
<1>2. /\ new \in Ids
      /\ new.proc = p /\ new.life = life[p] /\ new.ms = ms /\ new.seq = seq
      /\ new.id = Compose(ms, NodeOf[p], seq) /\ new.no = count
  <2>1. NodeOf[p] \in Nat /\ MaxNode \in Nat /\ MaxSequence \in Nat
    BY NodeAssumption
  <2>2. Compose(ms, NodeOf[p], seq) \in Nat
    <3>1. ms * (MaxNode + 1) \in Nat
      BY <2>1
    <3>2. ms * (MaxNode + 1) + NodeOf[p] \in Nat
      BY <2>1, <3>1
    <3>3. (ms * (MaxNode + 1) + NodeOf[p]) * (MaxSequence + 1) \in Nat
      BY <2>1, <3>2
    <3> QED
      BY <2>1, <3>3 DEF Compose
  <2>3. life[p] \in 0..MaxRestarts /\ count \in Nat
    BY DEF Inv, TypeOK
  <2> QED
    BY <2>2, <2>3 DEF NewId, Ids
<1> HIDE DEF new
<1>3. TypeOK'
  BY <1>1, <1>2 DEF Inv, TypeOK
<1>4. \A j \in issued : /\ j.no \in Nat /\ j.no < count /\ j.proc \in Procs
                         /\ j.ms \in Nat /\ j.seq \in 0..MaxSequence
                         /\ j.life \in Nat
  BY TimeAssumption DEF Inv, TypeOK, Ids, IssuedOK
<1>5. /\ count \in Nat /\ lastMs \in [Procs -> Nat] /\ MaxSequence \in Nat
      /\ sequence \in [Procs -> 0..MaxSequence] /\ waiting \in [Procs -> BOOLEAN]
      /\ life \in [Procs -> 0..MaxRestarts] /\ MaxRestarts \in Nat
  BY NodeAssumption, TimeAssumption DEF Inv, TypeOK
<1>6. IssuedOK'
  BY <1>1, <1>2, <1>4, <1>5 DEF Inv, IssuedOK
<1>7. NumberedOnce'
  BY <1>1, <1>2, <1>4, <1>5 DEF Inv, NumberedOnce
<1>8. Ahead'
  <2> SUFFICES ASSUME NEW i \in issued', i.life = life[i.proc]
               PROVE  \/ i.ms < lastMs'[i.proc]
                      \/ /\ i.ms = lastMs'[i.proc]
                         /\ waiting'[i.proc] \/ i.seq <= sequence'[i.proc]
    BY <1>1 DEF Ahead
  <2>1. CASE i = new
    BY <1>1, <1>2, <1>5, <2>1
  <2>2. CASE i \in issued /\ i.proc # p
    BY <1>1, <1>4, <2>2 DEF Inv, TypeOK, Ahead
  <2>3. CASE i \in issued /\ i.proc = p
    <3>1. \/ i.ms < lastMs[p]
          \/ i.ms = lastMs[p] /\ (waiting[p] \/ i.seq <= sequence[p])
      BY <2>3 DEF Inv, Ahead
    <3>2. lastMs'[p] = ms /\ sequence'[p] = seq /\ lastMs[p] \in Nat
          /\ sequence[p] \in 0..MaxSequence /\ i.ms \in Nat
          /\ i.seq \in 0..MaxSequence
      BY <1>1, <1>4, <1>5, <2>3
    <3> QED
      BY <1>5, <2>3, <3>1, <3>2 DEF IssuesAt
  <2> QED
    BY <1>1, <2>1, <2>2, <2>3
<1>9. EarlierLives'
  BY <1>1, <1>2, <1>5 DEF Inv, EarlierLives
<1>10. WaitsAtZero'
  BY <1>1, <1>5 DEF Inv, WaitsAtZero
<1>11. IdsUnique'
  <2>1. ASSUME NEW j \in issued, j.id = new.id
        PROVE  \/ j.proc # p /\ NodeOf[j.proc] = NodeOf[p]
               \/ j.proc = p /\ j.life # life[p] /\ p \in rewound'
    BY <1>2, <2>1, NewIdFresh
  <2>2. rewound \subseteq rewound'
    BY <1>1
  <2>3. ASSUME NEW i \in issued', NEW j \in issued', i.id = j.id
        PROVE  \/ i = j
               \/ i.proc # j.proc /\ NodeOf[i.proc] = NodeOf[j.proc]
               \/ i.proc = j.proc /\ i.life # j.life /\ i.proc \in rewound'
    <3>1. CASE i \in issued /\ j \in issued
      BY <2>2, <2>3, <3>1 DEF Inv, IdsUnique
    <3>2. CASE i = new \/ j = new
      BY <1>1, <1>2, <2>1, <2>3, <3>2
    <3> QED
      BY <1>1, <3>1, <3>2
  <2> QED
    BY <2>3 DEF IdsUnique
<1> QED
  BY <1>3, <1>6, <1>7, <1>8, <1>9, <1>10, <1>11 DEF Inv

\* Every step keeps the invariant.
LEMMA InvStep == Inv /\ [Next]_vars => Inv'
<1> SUFFICES ASSUME Inv, [Next]_vars PROVE Inv'
  OBVIOUS
<1>1. TypeOK
  BY DEF Inv
<1>2. CASE UNCHANGED vars
  BY <1>2 DEF vars, genVars, issueVars, Inv, TypeOK, IssuedOK, NumberedOnce, Ahead,
     EarlierLives, WaitsAtZero, IdsUnique
<1>3. ASSUME NEW p \in Procs, Tick(p) \/ StepBack(p) PROVE Inv'
  <2>1. wall' \in [Procs -> Times]
    BY <1>3, TimeAssumption DEF Inv, TypeOK, Tick, StepBack, Times
  <2>2. back' \in 0..MaxBack
    BY <1>3, TimeAssumption DEF Inv, TypeOK, Tick, StepBack
  <2>3. UNCHANGED <<genVars, life, issueVars, high>>
    BY <1>3 DEF Tick, StepBack
  <2> QED
    BY <2>1, <2>2, <2>3 DEF genVars, issueVars, Inv, TypeOK, IssuedOK, NumberedOnce,
       Ahead, EarlierLives, WaitsAtZero, IdsUnique
<1>4. ASSUME NEW p \in Procs,
             NextIDNewMs(p) \/ NextIDSameMs(p) \/ WaitNextMillis(p)
      PROVE  Inv'
  <2>1. CASE \E ms \in Nat, seq \in 0..MaxSequence : IssuesAt(p, ms, seq)
    BY <2>1, IssueKeepsInv
  <2>2. CASE /\ ~ waiting[p]
             /\ waiting' = [waiting EXCEPT ![p] = TRUE]
             /\ sequence' = [sequence EXCEPT ![p] = 0]
             /\ UNCHANGED <<wall, lastMs, life, back, high, issueVars>>
    <3>1. TypeOK' /\ WaitsAtZero'
      BY <2>2, NodeAssumption DEF Inv, TypeOK, WaitsAtZero, issueVars
    <3>2. Ahead'
      <4> SUFFICES ASSUME NEW i \in issued, i.life = life[i.proc]
                   PROVE  \/ i.ms < lastMs[i.proc]
                          \/ /\ i.ms = lastMs[i.proc]
                             /\ waiting'[i.proc] \/ i.seq <= sequence'[i.proc]
        BY <2>2 DEF Ahead, issueVars
      <4>1. i.proc \in Procs
        BY DEF Inv, TypeOK, Ids
      <4> QED
        BY <2>2, <4>1 DEF Inv, TypeOK, Ahead
    <3> QED
      BY <2>2, <3>1, <3>2
         DEF Inv, IssuedOK, NumberedOnce, EarlierLives, IdsUnique, issueVars
  <2> QED
    BY <1>4, <2>1, <2>2, Issuing DEF Inv
<1>5. ASSUME NEW p \in Procs, Restart(p) PROVE Inv'
  <2>1. /\ life' = [life EXCEPT ![p] = life[p] + 1]
        /\ life[p] + 1 \in 0..MaxRestarts /\ life[p] \in Nat
        /\ lastMs[p] \in Nat /\ high[p] \in Nat \union {-1}
        /\ UNCHANGED <<wall, back, issued, count, rewound>>
    BY <1>5, TimeAssumption DEF Restart, Inv, TypeOK, issueVars
  <2>2. high'[p] \in Nat \union {-1} /\ high'[p] >= high[p]
        /\ \A q \in Procs : q # p => high'[q] = high[q]
    BY <1>5, <2>1 DEF Restart, Inv, TypeOK
  <2>3. TypeOK'
    <3>1. high' \in [Procs -> Nat \union {-1}]
      BY <1>5, <2>1 DEF Restart, Inv, TypeOK
    <3>2. /\ lastMs' \in [Procs -> Nat]
          /\ sequence' \in [Procs -> 0..MaxSequence]
          /\ waiting' \in [Procs -> BOOLEAN]
      BY <1>5, NodeAssumption DEF Restart, Inv, TypeOK
    <3>3. life' \in [Procs -> 0..MaxRestarts]
      BY <2>1 DEF Inv, TypeOK
    <3> QED
      BY <2>1, <3>1, <3>2, <3>3 DEF Inv, TypeOK
  <2>4. \A i \in issued : /\ i.proc \in Procs /\ i.life \in Nat /\ i.ms \in Nat
                           /\ i.life <= life[i.proc] /\ life[i.proc] \in Nat
    BY TimeAssumption DEF Inv, TypeOK, Ids, IssuedOK
  <2>5. IssuedOK'
    BY <2>1, <2>4 DEF Inv, TypeOK, IssuedOK
  <2>6. Ahead'
    <3> SUFFICES ASSUME NEW i \in issued, i.life = life'[i.proc]
                 PROVE  \/ i.ms < lastMs'[i.proc]
                        \/ /\ i.ms = lastMs'[i.proc]
                           /\ waiting'[i.proc] \/ i.seq <= sequence'[i.proc]
      BY <2>1 DEF Ahead
    <3>1. i.proc # p
      BY <2>1, <2>4, <2>3 DEF Inv, TypeOK
    <3> QED
      BY <1>5, <2>1, <2>4, <3>1 DEF Restart, Inv, TypeOK, Ahead
  <2>7. EarlierLives'
    <3> SUFFICES ASSUME NEW i \in issued, i.life < life'[i.proc]
                 PROVE  i.ms <= high'[i.proc]
      BY <2>1 DEF EarlierLives
    <3>1. CASE i.proc # p
      BY <2>1, <2>2, <2>4, <3>1 DEF Inv, TypeOK, EarlierLives
    <3>2. CASE i.proc = p /\ i.life < life[p]
      <4>1. i.ms <= high[p]
        BY <3>2 DEF Inv, EarlierLives
      <4> QED
        BY <2>1, <2>2, <2>4, <3>2, <4>1
    <3>3. CASE i.proc = p /\ i.life = life[p]
      <4>1. i.ms <= lastMs[p]
        BY <2>1, <2>4, <3>3 DEF Inv, Ahead
      <4>2. high'[p] = IF lastMs[p] > high[p] THEN lastMs[p] ELSE high[p]
        BY <1>5, <3>3 DEF Restart, Inv, TypeOK
      <4> QED
        BY <2>1, <2>4, <3>3, <4>1, <4>2
    <3> QED
      BY <2>4, <3>1, <3>2, <3>3
  <2>8. WaitsAtZero' /\ NumberedOnce' /\ IdsUnique'
    BY <1>5, <2>1
       DEF Restart, Inv, TypeOK, WaitsAtZero, NumberedOnce, IdsUnique
  <2> QED
    BY <2>3, <2>5, <2>6, <2>7, <2>8 DEF Inv
<1> QED
  BY <1>2, <1>3, <1>4, <1>5 DEF Next

-----------------------------------------------------------------------------
(* Theorems                                                                *)

\* Inv is inductive.
LEMMA InvHolds == Spec => []Inv
<1>1. Init => Inv
  BY NodeAssumption, TimeAssumption
     DEF Init, Inv, TypeOK, IssuedOK, NumberedOnce, Ahead, EarlierLives,
         WaitsAtZero, IdsUnique
<1> QED
  BY <1>1, InvStep, PTL DEF Spec

\* An id is never issued twice, except under a shared node id or a rewound clock.
THEOREM UniqueIds == Spec => []IdsUnique
BY InvHolds, PTL DEF Inv

\* ParseSnowflake recovers what every id was issued with.
THEOREM ParseIsInverse == Spec => []ParseRoundTrip
<1>1. Inv => ParseRoundTrip
  <2> SUFFICES ASSUME Inv, NEW i \in issued
               PROVE  /\ ParseMs(i.id) = i.ms
                      /\ ParseNode(i.id) = NodeOf[i.proc]
                      /\ ParseSequence(i.id) = i.seq
    BY DEF ParseRoundTrip
  <2>1. /\ i.ms \in Nat /\ i.seq \in 0..MaxSequence
        /\ NodeOf[i.proc] \in 0..MaxNode
        /\ i.id = Compose(i.ms, NodeOf[i.proc], i.seq)
    BY NodeAssumption DEF Inv, TypeOK, Ids, IssuedOK
  <2> QED
    BY <2>1, ParseCompose
<1> QED
  BY <1>1, InvHolds, PTL

\* The ids of one generator increase strictly.
THEOREM IncreasingIds == Spec => IdsIncrease
<1> DEFINE Increases ==
      \A i \in issued' \ issued : \A j \in issued :
        j.proc = i.proc /\ j.life = i.life => j.id < i.id
<1>1. Inv /\ [Next]_vars => [Increases]_vars
  <2> SUFFICES ASSUME Inv, [Next]_vars, NEW i \in issued' \ issued,
                      NEW j \in issued, j.proc = i.proc, j.life = i.life
               PROVE  j.id < i.id
    OBVIOUS
  <2>1. PICK p \in Procs :
          NextIDNewMs(p) \/ NextIDSameMs(p) \/ WaitNextMillis(p)
    BY DEF Next, Tick, StepBack, Restart, vars, issueVars
  <2>2. PICK ms \in Nat, seq \in 0..MaxSequence : IssuesAt(p, ms, seq)
    BY <2>1, Issuing DEF Inv, issueVars
  <2>3. i = NewId(p, ms, seq)
    BY <2>2 DEF IssuesAt, Issue, NewId
  <2> QED
    BY <2>2, <2>3, NewIdAbove DEF NewId
<1> QED
  BY <1>1, InvHolds, PTL DEF Spec, IdsIncrease

-----------------------------------------------------------------------------
(* Numbers                                                                 *)

\* A set of numbers has a least one.
LEMMA Least ==
  ASSUME NEW T \in SUBSET Nat, T # {}
  PROVE  \E x \in T : \A y \in T : x <= y
<1> DEFINE R == OpToRel(<, Nat)
<1>1. IsWellFoundedOn(R, Nat)
  BY NatLessThanWellFounded
<1>2. \A x, y \in Nat : x < y => <<x, y>> \in R
  BY DEF OpToRel
<1> HIDE DEF R
<1>3. PICK x \in T : \A y \in T : ~ (<<y, x>> \in R)
  BY <1>1, WFMin
<1> SUFFICES ASSUME NEW y \in T PROVE x <= y
  BY <1>3
<1>4. x \in Nat /\ y \in Nat
  BY <1>3
<1>5. ~ (y < x)
  BY <1>2, <1>3, <1>4
<1> QED BY <1>4, <1>5

-----------------------------------------------------------------------------
(* Codes                                                                   *)

\* A property of 0 that each number passes on to the next holds up to n.
LEMMA UpTo ==
  ASSUME NEW n \in Nat, NEW T, 0 \in T, \A i \in 1..n : i - 1 \in T => i \in T
  PROVE  \A i \in 0..n : i \in T
<1> DEFINE F == {i \in 0..n : i \notin T}
<1>1. F \in SUBSET Nat /\ 0 \notin F
  OBVIOUS
<1>2. SUFFICES ASSUME F # {} PROVE FALSE
  OBVIOUS
<1>3. PICK m \in F : \A i \in F : m <= i
  <2> HIDE DEF F
  <2> QED BY <1>1, <1>2, Least
<1>4. m \in 1..n /\ m - 1 \in 0..n /\ ~ (m <= m - 1) /\ m \notin T
  BY <1>1, <1>3
<1>5. m - 1 \in T
  BY <1>3, <1>4
<1> QED BY <1>4, <1>5

\* The round that would leave the buffer.
Beyond == BufLen + 1

LEMMA CodeConstants ==
  /\ Base \in Nat /\ Base > 1 /\ WordSize \in Nat /\ WordSize > 0
  /\ BufLen \in Nat /\ BufLen > 0 /\ Beyond \in Nat
BY AlphabetAssumption, BufferAssumption DEF Base, Beyond

\* A round of the loop.
LEMMA Division ==
  ASSUME NEW x \in Nat
  PROVE  /\ x \div Base \in Nat /\ x \div Base <= x /\ x % Base \in Nat
         /\ x = (x \div Base) * Base + (x % Base)
         /\ \A y \in Nat : y <= x => y \div Base <= x \div Base
<1> DEFINE b == Base
<1>1. b \in Nat /\ b > 1
  BY CodeConstants
<1> HIDE DEF b
<1>2. /\ x \div b \in Nat /\ x % b \in 0..(b - 1)
      /\ x = b * (x \div b) + (x % b)
  BY <1>1
<1>3. x \div b <= b * (x \div b)
  <2> DEFINE q == x \div b
  <2>1. q \in Nat
    BY <1>2
  <2> HIDE DEF q
  <2>2. q <= b * q
    BY <1>1, <2>1
  <2> QED BY <2>2 DEF q
<1>4. x \div b <= x
  BY <1>1, <1>2, <1>3
<1>5. ASSUME NEW y \in Nat, y <= x PROVE y \div b <= x \div b
  <2> DEFINE q == x \div b
             r == y \div b
  <2>1. q \in Nat /\ r \in Nat /\ b * r <= y /\ x < b * q + b
    BY <1>1, <1>2
  <2> HIDE DEF q, r
  <2>2. b * r < b * (q + 1)
    BY <1>1, <1>5, <2>1
  <2>3. r < q + 1
    <3> SUFFICES ASSUME r >= q + 1 PROVE FALSE
      BY <2>1
    <3>1. PICK d \in Nat : r = q + 1 + d
      BY <2>1
    <3>2. b * r = b * (q + 1) + b * d /\ b * d \in Nat /\ b * (q + 1) \in Nat
      BY <1>1, <2>1, <3>1
    <3> QED BY <2>2, <3>2
  <2> QED BY <2>1, <2>3 DEF q, r
<1> QED BY <1>1, <1>2, <1>4, <1>5 DEF b

\* The recursive function Left(n) exists, and so its equations hold.
LEMMA LeftRounds ==
  ASSUME NEW n \in Nat
  PROVE  /\ Left(n) \in [0..Beyond -> Nat] /\ Left(n)[0] = n
         /\ \A k \in 1..Beyond : Left(n)[k] = Left(n)[k - 1] \div Base
<1> DEFINE Loop(f, m) == f[0] = n /\ \A i \in 1..m : f[i] = f[i - 1] \div Base
           T == {m \in Nat : \E g \in [0..m -> Nat] : Loop(g, m)}
           left == CHOOSE f : f = [k \in 0..Beyond |-> IF k = 0 THEN n ELSE f[k - 1] \div Base]
<1>1. Left(n) = left
  BY DEF Left, Beyond
<1>2. Beyond \in Nat
  BY CodeConstants
<1>3. 0 \in T
  <2> DEFINE g == [i \in 0..0 |-> n]
  <2>1. g \in [0..0 -> Nat] /\ Loop(g, 0)
    OBVIOUS
  <2> QED BY <2>1
<1>4. ASSUME NEW m \in 1..Beyond, m - 1 \in T PROVE m \in T
  <2>1. PICK g \in [0..(m - 1) -> Nat] : Loop(g, m - 1)
    BY <1>4
  <2>2. /\ m \in Nat /\ m # 0 /\ m - 1 \in 0..(m - 1) /\ 0 \in 0..m
        /\ \A i \in 1..m : i \in 0..m /\ i - 1 \in 0..m /\ i - 1 # m
        /\ \A i \in 0..m : i # m => i \in 0..(m - 1)
        /\ \A i \in 1..m : i # m => i \in 1..(m - 1) /\ i - 1 \in 0..(m - 1)
    BY <1>2
  <2>3. g[m - 1] \div Base \in Nat
    BY <2>2, Division
  <2> DEFINE h == [i \in 0..m |-> IF i = m THEN g[m - 1] \div Base ELSE g[i]]
  <2>4. h \in [0..m -> Nat]
    BY <2>2, <2>3
  <2>5. h[0] = n
    BY <2>1, <2>2
  <2>6. h[m] = h[m - 1] \div Base
    BY <2>2
  <2>7. \A i \in 1..m : i # m => h[i] = g[i] /\ h[i - 1] = g[i - 1]
    BY <2>2
  <2> HIDE DEF h
  <2>8. Loop(h, m)
    BY <2>1, <2>2, <2>5, <2>6, <2>7
  <2> QED BY <2>2, <2>4, <2>8
<1>5. Beyond \in T
  <2> HIDE DEF T
  <2> QED BY <1>2, <1>3, <1>4, UpTo
<1>6. PICK g \in [0..Beyond -> Nat] : Loop(g, Beyond)
  BY <1>5
<1>7. g = [k \in 0..Beyond |-> IF k = 0 THEN n ELSE g[k - 1] \div Base]
  <2>1. \A k \in 0..Beyond : g[k] = IF k = 0 THEN n ELSE g[k - 1] \div Base
    <3>1. \A k \in 0..Beyond : k = 0 \/ k \in 1..Beyond
      BY <1>2
    <3> QED BY <1>6, <3>1
  <2> QED BY <2>1
<1>8. left = [k \in 0..Beyond |-> IF k = 0 THEN n ELSE left[k - 1] \div Base]
  BY <1>7
<1> HIDE DEF left
<1>9. DOMAIN left = 0..Beyond /\ left = [k \in 0..Beyond |-> left[k]]
  BY <1>8
<1>10. left[0] = n /\ \A k \in 1..Beyond : left[k] = left[k - 1] \div Base
  <2>1. 0 \in 0..Beyond /\ \A k \in 1..Beyond : k \in 0..Beyond /\ k # 0
    BY <1>2
  <2> QED BY <1>8, <2>1
<1>11. \A k \in 0..Beyond : left[k] \in Nat
  <2> DEFINE N == {k \in 0..Beyond : left[k] \in Nat}
  <2>1. 0 \in N
    BY <1>2, <1>10
  <2>2. ASSUME NEW k \in 1..Beyond, k - 1 \in N PROVE k \in N
    <3>1. left[k - 1] \in Nat /\ left[k] = left[k - 1] \div Base /\ k \in 0..Beyond
      BY <1>2, <1>10, <2>2
    <3>2. left[k - 1] \div Base \in Nat
      BY <3>1, Division
    <3> QED BY <3>1, <3>2
  <2>3. \A k \in 0..Beyond : k \in N
    <3> HIDE DEF N
    <3> QED BY <1>2, <2>1, <2>2, UpTo
  <2> QED BY <2>3
<1> QED BY <1>1, <1>9, <1>10, <1>11

\* No round leaves more than there was, or more than it leaves of a larger number.
LEMMA LeftBounded ==
  ASSUME NEW n \in Nat, NEW m \in Nat, m <= n
  PROVE  \A k \in 0..Beyond : Left(n)[k] <= n /\ Left(m)[k] <= Left(n)[k]
<1> DEFINE T == {k \in 0..Beyond : Left(n)[k] <= n /\ Left(m)[k] <= Left(n)[k]}
<1>1. Beyond \in Nat
  BY CodeConstants
<1>2. 0 \in T
  <2>1. Left(n)[0] = n /\ Left(m)[0] = m
    BY LeftRounds
  <2> QED BY <1>1, <2>1
<1>3. ASSUME NEW k \in 1..Beyond, k - 1 \in T PROVE k \in T
  <2> DEFINE x == Left(n)[k - 1]
             y == Left(m)[k - 1]
  <2>1. k \in 0..Beyond /\ k - 1 \in 0..Beyond
    BY <1>1
  <2>2. x \in Nat /\ y \in Nat /\ x <= n /\ y <= x
    BY <1>3, <2>1, LeftRounds
  <2>3. Left(n)[k] = x \div Base /\ Left(m)[k] = y \div Base
    BY LeftRounds
  <2> HIDE DEF x, y
  <2>4. x \div Base \in Nat /\ x \div Base <= x /\ y \div Base <= x \div Base
    BY <2>2, Division
  <2>5. x \div Base <= n
    BY <2>2, <2>4
  <2> QED BY <2>1, <2>3, <2>4, <2>5
<1> HIDE DEF T
<1>4. \A k \in 0..Beyond : k \in T
  BY <1>1, <1>2, <1>3, UpTo
<1> QED BY <1>4 DEF T

\* The buffer takes the code of a number of the word, which ends where nothing is
\* left.
LEMMA CodeFits ==
  ASSUME NEW n \in Nat, n < WordSize
  PROVE  /\ Rounds(Left(n)) \in 1..BufLen
         /\ Left(n)[Rounds(Left(n))] = 0
<1> DEFINE left == Left(n)
           T == {k \in 1..BufLen : left[k] = 0}
           Ends(k) == /\ left[k] = 0 \/ k > BufLen
                      /\ \A j \in 1..(k - 1) : left[j] # 0
<1>1. left[BufLen] = 0
  <2>1. n <= WordSize - 1 /\ WordSize - 1 \in Nat /\ BufLen \in 0..Beyond
    BY CodeConstants DEF Beyond
  <2>2. left[BufLen] <= Left(WordSize - 1)[BufLen] /\ left[BufLen] \in Nat
    BY <2>1, LeftBounded, LeftRounds
  <2> QED BY <2>2, BufferAssumption
<1> HIDE DEF left
<1>2. BufLen \in Nat /\ BufLen > 0 /\ BufLen \in T
  BY <1>1, CodeConstants
<1>3. PICK m \in T : \A k \in T : m <= k
  <2>1. T \in SUBSET Nat /\ T # {}
    BY <1>2
  <2> HIDE DEF T
  <2> QED BY <2>1, Least
<1>4. m \in 1..BufLen /\ m \in 1..(BufLen + 1) /\ Ends(m)
  <2>1. \A j \in 1..(m - 1) : j \in 1..BufLen /\ ~ (m <= j)
    BY <1>2, <1>3
  <2> QED BY <1>2, <1>3, <2>1
<1>5. ASSUME NEW k \in 1..(BufLen + 1), Ends(k) PROVE k = m
  <2>1. ~ (m < k)
    <3>1. m < k => m \in 1..(k - 1)
      BY <1>2, <1>4
    <3> QED BY <1>3, <1>5, <3>1
  <2>2. ~ (k < m)
    <3>1. k < m => k \in 1..(m - 1) /\ ~ (k > BufLen)
      BY <1>2, <1>4
    <3> QED BY <1>4, <1>5, <3>1
  <2> QED BY <1>2, <1>4, <2>1, <2>2
<1>6. Rounds(left) = m
  BY <1>4, <1>5 DEF Rounds
<1> QED BY <1>3, <1>4, <1>6 DEF left

\* Values that obey the equations of the recursive function of DecodeBase62 are
\* the ones it computes.
LEMMA Decodes ==
  ASSUME NEW s \in Seq(Nat), NEW f \in [0..Len(s) -> Nat], f[0] = 0,
         \A i \in 1..Len(s) : f[i] = (f[i - 1] * Base + s[i]) % WordSize
  PROVE  DecodeBase62(s) = f[Len(s)]
<1> DEFINE n == Len(s)
           value == CHOOSE v : v = [i \in 0..n |-> IF i = 0 THEN 0
                                        ELSE (v[i - 1] * Base + s[i]) % WordSize]
<1>1. DecodeBase62(s) = value[n]
  BY DEF DecodeBase62
<1>2. n \in Nat
  OBVIOUS
<1> HIDE DEF n
<1>3. f = [i \in 0..n |-> IF i = 0 THEN 0 ELSE (f[i - 1] * Base + s[i]) % WordSize]
  <2>1. \A i \in 0..n : i = 0 \/ i \in 1..n
    BY <1>2
  <2>2. \A i \in 0..n : f[i] = IF i = 0 THEN 0 ELSE (f[i - 1] * Base + s[i]) % WordSize
    BY <2>1 DEF n
  <2> QED BY <2>2 DEF n
<1>4. value = [i \in 0..n |-> IF i = 0 THEN 0 ELSE (value[i - 1] * Base + s[i]) % WordSize]
  BY <1>3
<1> HIDE DEF value
<1>5. /\ value[0] = 0
      /\ \A i \in 1..n : value[i] = (value[i - 1] * Base + s[i]) % WordSize
  <2>1. 0 \in 0..n /\ \A i \in 1..n : i \in 0..n /\ i # 0
    BY <1>2
  <2> QED BY <1>4, <2>1
<1> DEFINE T == {i \in 0..n : value[i] = f[i]}
<1>6. 0 \in T
  BY <1>2, <1>5
<1>7. ASSUME NEW i \in 1..n, i - 1 \in T PROVE i \in T
  <2>1. value[i - 1] = f[i - 1] /\ i \in 0..n
    BY <1>2, <1>7
  <2> QED BY <1>5, <2>1 DEF n
<1>8. \A i \in 0..n : i \in T
  <2> HIDE DEF T
  <2> QED BY <1>2, <1>6, <1>7, UpTo
<1> QED BY <1>1, <1>2, <1>8 DEF n

\* DecodeBase62 undoes EncodeBase62 for the numbers of the word.
LEMMA RoundTrip ==
  ASSUME NEW n \in Nat, n < WordSize
  PROVE  Len(EncodeBase62(n)) <= BufLen /\ DecodeBase62(EncodeBase62(n)) = n
<1> DEFINE left == Left(n)
           size == Rounds(left)
           s == EncodeBase62(n)
           f == [i \in 0..size |-> left[size - i]]
<1>1. size \in 1..BufLen /\ left[size] = 0 /\ BufLen \in Nat /\ WordSize \in Nat
  BY CodeFits, CodeConstants
<1>2. /\ \A k \in 0..size : k \in 0..Beyond /\ left[k] \in Nat /\ left[k] < WordSize
      /\ \A k \in 1..size : left[k] = left[k - 1] \div Base
      /\ left[0] = n
  <2>1. \A k \in 0..size : k \in 0..Beyond
    BY <1>1 DEF Beyond
  <2>2. \A k \in 1..size : k \in 1..Beyond
    BY <1>1 DEF Beyond
  <2>3. \A k \in 0..Beyond : left[k] \in Nat /\ left[k] <= n
    <3>1. left \in [0..Beyond -> Nat]
      BY LeftRounds
    <3>2. \A k \in 0..Beyond : left[k] <= n
      BY LeftBounded
    <3> QED BY <3>1, <3>2
  <2>4. \A k \in 0..Beyond : left[k] < WordSize
    BY <1>1, <2>3
  <2> QED BY <2>1, <2>2, <2>3, <2>4, LeftRounds
<1>3. s = [i \in 1..size |-> left[size - i] % Base]
  BY DEF EncodeBase62
<1> HIDE DEF left, size, s
<1>4. \A i \in 1..size : left[size - i] % Base \in Nat
  <2> SUFFICES ASSUME NEW i \in 1..size PROVE left[size - i] % Base \in Nat
    OBVIOUS
  <2>1. size - i \in 0..size
    BY <1>1
  <2> QED BY <1>2, <2>1, Division
<1>5. s \in Seq(Nat) /\ Len(s) = size
  BY <1>1, <1>3, <1>4
<1>6. f \in [0..size -> Nat] /\ f[0] = 0 /\ f[size] = n
  <2>1. \A i \in 0..size : size - i \in 0..size
    BY <1>1
  <2>2. 0 \in 0..size /\ size \in 0..size /\ size - 0 = size /\ size - size = 0
    BY <1>1
  <2> QED BY <1>1, <1>2, <2>1, <2>2
<1>7. ASSUME NEW i \in 1..size
      PROVE  f[i] = (f[i - 1] * Base + s[i]) % WordSize
  <2> DEFINE x == left[size - i]
  <2>1. /\ i \in 0..size /\ i - 1 \in 0..size /\ size - i \in 0..size
        /\ size - (i - 1) \in 1..size /\ (size - (i - 1)) - 1 = size - i
    BY <1>1
  <2>2. x \in Nat /\ x < WordSize
    BY <1>2, <2>1
  <2>3. left[size - (i - 1)] = x \div Base
    BY <1>2, <2>1
  <2>4. f[i] = x /\ f[i - 1] = x \div Base /\ s[i] = x % Base
    BY <1>3, <2>1, <2>3
  <2> HIDE DEF x, f
  <2>5. x = (x \div Base) * Base + (x % Base)
    BY <2>2, Division
  <2>6. x % WordSize = x
    BY <1>1, <2>2
  <2> QED BY <2>4, <2>5, <2>6
<1> HIDE DEF f
<1>8. DecodeBase62(s) = f[Len(s)]
  BY <1>5, <1>6, <1>7, Decodes
<1> QED BY <1>1, <1>5, <1>6, <1>8 DEF s

-----------------------------------------------------------------------------
(* Codes of ids                                                            *)

\* No id is of a millisecond after MaxTime.
InTime == /\ \A p \in Procs : lastMs[p] <= MaxTime
          /\ \A i \in issued : i.ms <= MaxTime

LEMMA InTimeStep == TypeOK /\ InTime /\ [Next]_vars => InTime'
<1> SUFFICES ASSUME TypeOK, InTime, [Next]_vars PROVE InTime'
  OBVIOUS
<1>1. MaxTime \in Nat /\ lastMs \in [Procs -> Nat] /\ wall \in [Procs -> Times]
  BY TimeAssumption DEF TypeOK
<1>2. \A p \in Procs : lastMs[p] \in Nat /\ wall[p] \in Int /\ wall[p] <= MaxTime
  BY <1>1, TimeAssumption DEF Times
<1>3. ASSUME NEW p \in Procs, NEW ms, NEW seq, Issue(p, ms, seq), ms <= MaxTime
      PROVE  InTime'
  <2>1. \A q \in Procs : lastMs'[q] <= MaxTime
    BY <1>1, <1>3 DEF InTime, Issue
  <2>2. ASSUME NEW i \in issued' PROVE i.ms <= MaxTime
    <3>1. CASE i \in issued
      BY <3>1 DEF InTime
    <3>2. CASE i \notin issued
      BY <1>3, <3>2 DEF Issue
    <3> QED BY <3>1, <3>2
  <2> QED BY <2>1, <2>2 DEF InTime
<1>4. ASSUME NEW p \in Procs, NextIDNewMs(p) PROVE InTime'
  <2>1. NowMs(p) <= MaxTime
    BY <1>2 DEF NowMs, InTime
  <2> QED BY <1>3, <1>4, <2>1 DEF NextIDNewMs
<1>5. ASSUME NEW p \in Procs, NextIDSameMs(p) PROVE InTime'
  <2>1. lastMs[p] <= MaxTime
    BY DEF InTime
  <2>2. CASE UNCHANGED <<lastMs, issueVars>>
    BY <2>2 DEF InTime, issueVars
  <2> QED BY <1>3, <1>5, <2>1, <2>2 DEF NextIDSameMs
<1>6. ASSUME NEW p \in Procs, WaitNextMillis(p) PROVE InTime'
  BY <1>2, <1>3, <1>6 DEF WaitNextMillis
<1>7. ASSUME NEW p \in Procs, Restart(p) PROVE InTime'
  <2>1. issued' = issued /\ \A q \in Procs : lastMs'[q] = IF q = p THEN 0 ELSE lastMs[q]
    BY <1>1, <1>7 DEF Restart, issueVars
  <2> QED BY <1>1, <2>1 DEF InTime
<1>8. ASSUME NEW p \in Procs, Tick(p) \/ StepBack(p) PROVE InTime'
  BY <1>8 DEF Tick, StepBack, genVars, issueVars, InTime
<1>9. CASE UNCHANGED vars
  BY <1>9 DEF vars, genVars, issueVars, InTime
<1> QED BY <1>4, <1>5, <1>6, <1>7, <1>8, <1>9 DEF Next

\* Ids of these milliseconds are numbers of the word.
LEMMA IdInWord ==
  ASSUME NEW m \in Nat, m <= MaxTime, NEW k \in 0..MaxNode, NEW s \in 0..MaxSequence
  PROVE  Compose(m, k, s) < WordSize
<1>1. MaxTime \in Nat /\ MaxTime + 1 \in Nat /\ m < MaxTime + 1
  BY TimeAssumption
<1>2. 0 \in 0..MaxNode /\ 0 \in 0..MaxSequence /\ MaxNode \in Nat /\ MaxSequence \in Nat
  BY NodeAssumption
<1>3. Compose(m, k, s) < Compose(MaxTime + 1, 0, 0)
  BY <1>1, <1>2, ComposeOrder
<1>4. Compose(MaxTime + 1, 0, 0) = (MaxTime + 1) * (MaxNode + 1) * (MaxSequence + 1)
  <2> DEFINE x == (MaxTime + 1) * (MaxNode + 1)
  <2>1. x \in Nat
    BY <1>1, <1>2
  <2> HIDE DEF x
  <2>2. x + 0 = x /\ x * (MaxSequence + 1) \in Nat
    BY <1>2, <2>1
  <2>3. (x + 0) * (MaxSequence + 1) + 0 = x * (MaxSequence + 1)
    BY <2>2
  <2> QED BY <2>3 DEF Compose, x
<1>5. Compose(m, k, s) \in Int /\ Compose(MaxTime + 1, 0, 0) \in Int /\ WordSize \in Int
  BY <1>1, <1>2, AlphabetAssumption DEF Compose
<1> QED BY <1>3, <1>4, <1>5, WordAssumption

\* The code of every id that is given out fits the buffer of EncodeBase62, and
\* DecodeBase62 and ShardIndexFromCode find the id and the table of the link.
THEOREM CodesAreIds == Spec => []CodesRoundTrip
<1>1. Init => InTime
  BY TimeAssumption DEF Init, InTime
<1>2. Inv => TypeOK
  BY DEF Inv
<1>3. Inv /\ InTime => CodesRoundTrip
  <2> SUFFICES ASSUME Inv, InTime, NEW i \in issued
               PROVE  /\ Len(CodeOf(i)) <= BufLen
                      /\ DecodeBase62(CodeOf(i)) = i.id
                      /\ ShardIndexFromCode(CodeOf(i)) = ShardIndexFromID(i.id)
    BY DEF CodesRoundTrip
  <2>1. /\ i.ms \in Nat /\ i.seq \in 0..MaxSequence /\ i.id \in Nat
        /\ NodeOf[i.proc] \in 0..MaxNode /\ i.ms <= MaxTime
        /\ i.id = Compose(i.ms, NodeOf[i.proc], i.seq)
    BY NodeAssumption DEF Inv, TypeOK, Ids, IssuedOK, InTime
  <2>2. i.id < WordSize
    BY <2>1, IdInWord
  <2>3. Len(EncodeBase62(i.id)) <= BufLen /\ DecodeBase62(EncodeBase62(i.id)) = i.id
    BY <2>1, <2>2, RoundTrip
  <2> QED BY <2>3 DEF CodeOf, ShardIndexFromCode
<1> QED BY <1>1, <1>2, <1>3, InvHolds, InTimeStep, PTL DEF Spec

-----------------------------------------------------------------------------
(* Codes that differ by case                                               *)

\* The alphabet and the tables of the code, and a buffer that takes a few digits.
CodeParameters ==
  /\ Numerals = 10 /\ Letters = 26 /\ ShardCount = 16 /\ BufLen >= 3
  /\ TellingDigits = 3

\* The digits of n from the lowest on, zeros after the highest.
DigitAt(n, k) == Left(n)[k] % Base

\* Two digits that the collation does not tell apart.
SameLetter(x, y) == x = y \/ x = y + Letters \/ y = x + Letters

LEMMA FoldedDigits ==
  ASSUME NEW x \in 0..(Base - 1), NEW y \in 0..(Base - 1),
         (IF x >= Numerals + Letters THEN x - Letters ELSE x)
           = (IF y >= Numerals + Letters THEN y - Letters ELSE y)
  PROVE  SameLetter(x, y)
BY AlphabetAssumption DEF Base, SameLetter

\* What the code of a number of the word is made of.
LEMMA CodeDigits ==
  ASSUME NEW n \in Nat, n < WordSize
  PROVE  /\ Len(EncodeBase62(n)) \in 1..BufLen
         /\ DOMAIN EncodeBase62(n) = 1..Len(EncodeBase62(n))
         /\ \A d \in 0..(Len(EncodeBase62(n)) - 1) :
              EncodeBase62(n)[Len(EncodeBase62(n)) - d] = DigitAt(n, d)
         /\ Left(n)[Len(EncodeBase62(n))] = 0
<1> DEFINE left == Left(n)
           size == Rounds(left)
           s == EncodeBase62(n)
<1>1. size \in 1..BufLen /\ left[size] = 0 /\ BufLen \in Nat
  BY CodeFits, CodeConstants
<1>2. s = [i \in 1..size |-> left[size - i] % Base]
  BY DEF EncodeBase62
<1>3. \A k \in 0..Beyond : DigitAt(n, k) = left[k] % Base
  BY DEF DigitAt
<1>4. BufLen <= Beyond
  BY <1>1 DEF Beyond
<1> HIDE DEF left, size, s
<1>5. Len(s) = size /\ DOMAIN s = 1..size
  BY <1>1, <1>2
<1>6. ASSUME NEW d \in 0..(size - 1) PROVE s[size - d] = DigitAt(n, d)
  <2>1. size - d \in 1..size /\ size - (size - d) = d /\ d \in 0..Beyond
    BY <1>1, <1>4 DEF Beyond
  <2> QED BY <1>2, <1>3, <2>1
<1> QED BY <1>1, <1>5, <1>6 DEF s, left

\* A number is its digits: division by the base takes one after the other.
LEMMA NextDigit ==
  ASSUME NEW n \in Nat, NEW k \in 0..BufLen
  PROVE  /\ Left(n)[k] \in Nat /\ Left(n)[k + 1] \in Nat
         /\ DigitAt(n, k) \in 0..(Base - 1)
         /\ Left(n)[k] = Left(n)[k + 1] * Base + DigitAt(n, k)
<1>1. k \in 0..Beyond /\ k + 1 \in 1..Beyond /\ k + 1 \in 0..Beyond /\ (k + 1) - 1 = k
  BY CodeConstants DEF Beyond
<1>2. Left(n)[k] \in Nat /\ Left(n)[k + 1] \in Nat /\ Left(n)[k + 1] = Left(n)[k] \div Base
  BY <1>1, LeftRounds
<1> DEFINE x == Left(n)[k]
<1>3. x \in Nat
  BY <1>2
<1> HIDE DEF x
<1>4. x = (x \div Base) * Base + (x % Base) /\ x % Base \in 0..(Base - 1)
  BY <1>3, CodeConstants, Division
<1> QED BY <1>2, <1>4 DEF x, DigitAt

\* After the highest digit nothing but zeros follows.
LEMMA ZerosAbove ==
  ASSUME NEW n \in Nat, NEW k \in 0..Beyond, Left(n)[k] = 0
  PROVE  \A j \in 0..Beyond : j >= k => Left(n)[j] = 0
<1> DEFINE T == {j \in 0..Beyond : j >= k => Left(n)[j] = 0}
<1>1. Beyond \in Nat
  BY CodeConstants
<1>2. 0 \in T
  BY <1>1
<1>3. ASSUME NEW j \in 1..Beyond, j - 1 \in T PROVE j \in T
  <2>1. j \in 0..Beyond /\ j - 1 \in 0..Beyond
    BY <1>1
  <2>2. CASE j = k
    BY <2>1, <2>2
  <2>3. CASE j > k
    <3>1. Left(n)[j - 1] = 0 /\ Left(n)[j] = Left(n)[j - 1] \div Base
      BY <1>3, <2>1, <2>3, LeftRounds
    <3>2. 0 \div Base = 0
      BY CodeConstants
    <3> QED BY <2>1, <3>1, <3>2
  <2> QED BY <2>1, <2>2, <2>3
<1> HIDE DEF T
<1>4. \A j \in 0..Beyond : j \in T
  BY <1>1, <1>2, <1>3, UpTo
<1> QED BY <1>4 DEF T

\* Codes that the collation does not tell apart do so in no digit.
LEMMA SameInEveryDigit ==
  ASSUME NEW n \in Nat, NEW m \in Nat, n < WordSize, m < WordSize,
         SameToMySQL(EncodeBase62(n), EncodeBase62(m))
  PROVE  /\ Len(EncodeBase62(n)) = Len(EncodeBase62(m))
         /\ \A k \in 0..BufLen : SameLetter(DigitAt(n, k), DigitAt(m, k))
<1> DEFINE s == EncodeBase62(n)
           t == EncodeBase62(m)
<1>1. /\ Len(s) \in 1..BufLen /\ DOMAIN s = 1..Len(s) /\ Left(n)[Len(s)] = 0
      /\ \A d \in 0..(Len(s) - 1) : s[Len(s) - d] = DigitAt(n, d)
  BY CodeDigits
<1>2. /\ Len(t) \in 1..BufLen /\ DOMAIN t = 1..Len(t) /\ Left(m)[Len(t)] = 0
      /\ \A d \in 0..(Len(t) - 1) : t[Len(t) - d] = DigitAt(m, d)
  BY CodeDigits
<1>3. Folded(s) = Folded(t)
  BY DEF SameToMySQL
<1> HIDE DEF s, t
<1>4. DOMAIN s = DOMAIN t
  BY <1>3 DEF Folded
<1>5. Len(s) = Len(t)
  <2> DEFINE k == Len(s)
             l == Len(t)
  <2>1. k \in Nat /\ l \in Nat /\ k >= 1 /\ l >= 1 /\ 1..k = 1..l
    <3>1. k \in 1..BufLen /\ l \in 1..BufLen /\ 1..k = 1..l
      BY <1>1, <1>2, <1>4
    <3> HIDE DEF k, l
    <3> QED BY <3>1, CodeConstants
  <2> HIDE DEF k, l
  <2>2. k \in 1..k /\ l \in 1..l
    BY <2>1
  <2>3. k \in 1..l /\ l \in 1..k
    BY <2>1, <2>2
  <2>4. k = l
    BY <2>1, <2>3
  <2> QED BY <2>4 DEF k, l
<1>6. ASSUME NEW k \in 0..BufLen PROVE SameLetter(DigitAt(n, k), DigitAt(m, k))
  <2>1. CASE k < Len(s)
    <3>1. k \in 0..(Len(s) - 1) /\ Len(s) - k \in DOMAIN s
      BY <1>1, <2>1, CodeConstants
    <3>2. s[Len(s) - k] = DigitAt(n, k) /\ t[Len(s) - k] = DigitAt(m, k)
      BY <1>1, <1>2, <1>5, <3>1
    <3> DEFINE i == Len(s) - k
    <3>3. /\ Folded(s)[i] = IF s[i] >= Numerals + Letters THEN s[i] - Letters ELSE s[i]
          /\ Folded(t)[i] = IF t[i] >= Numerals + Letters THEN t[i] - Letters ELSE t[i]
      BY <1>4, <3>1 DEF Folded
    <3>4. s[i] \in 0..(Base - 1) /\ t[i] \in 0..(Base - 1)
      BY <3>2, NextDigit
    <3> HIDE DEF i
    <3>5. SameLetter(s[i], t[i])
      BY <1>3, <3>3, <3>4, FoldedDigits
    <3> QED BY <3>2, <3>5 DEF i
  <2>2. CASE ~ (k < Len(s))
    <3>1. k \in 0..Beyond /\ Len(s) \in 0..Beyond /\ k >= Len(s)
      BY <1>1, <2>2, CodeConstants DEF Beyond
    <3>2. Left(n)[k] = 0 /\ Left(m)[k] = 0
      BY <1>1, <1>2, <1>5, <3>1, ZerosAbove
    <3> QED BY <3>2 DEF DigitAt, SameLetter
  <2> QED BY <2>1, <2>2
<1> QED BY <1>5, <1>6 DEF s, t

\* The arithmetic of 62, 26 and 16.
LEMMA LowDigitsDecide ==
  ASSUME NEW q \in Int, NEW e0 \in {-26, 0, 26}, NEW e1 \in {-26, 0, 26},
         NEW e2 \in {-26, 0, 26}, NEW e3 \in {-26, 0, 26}, NEW z \in Int,
         (((q * 62 + e3) * 62 + e2) * 62 + e1) * 62 + e0 = 16 * z
  PROVE  e0 = 0 /\ e1 = 0 /\ e2 = 0
OBVIOUS

\* The other way round: the cases of the fourth digit lie a multiple of 16 apart.
LEMMA UpperDigitsPass ==
  ASSUME NEW q \in Int, NEW e3 \in {-26, 0, 26}, NEW x \in Int,
         x = (((q * 62 + e3) * 62) * 62) * 62
  PROVE  x % 16 = 0
<1>1. PICK h \in {-13, 0, 13} : e3 = 2 * h
  OBVIOUS
<1>2. x = 16 * ((q * 31 + h) * 29791)
  BY <1>1
<1> QED BY <1>1, <1>2

\* Two numbers whose codes differ by case at most belong to one table just if they
\* agree in their three lowest digits.
LEMMA LowDigitsShard ==
  ASSUME CodeParameters, NEW n \in Nat, NEW m \in Nat, n < WordSize, m < WordSize,
         SameToMySQL(EncodeBase62(n), EncodeBase62(m))
  PROVE  ShardIndexFromID(n) = ShardIndexFromID(m)
           <=> \A d \in 0..2 : DigitAt(n, d) = DigitAt(m, d)
<1> DEFINE a(k) == DigitAt(n, k)
           b(k) == DigitAt(m, k)
<1>1. Base = 62 /\ BufLen \in Nat /\ BufLen >= 3 /\ Letters = 26
  BY CodeConstants DEF CodeParameters, Base
<1>2. \A k \in 0..3 : k \in 0..BufLen
  BY <1>1
<1>3. \A k \in 0..3 : /\ Left(n)[k] \in Nat /\ Left(n)[k + 1] \in Nat /\ a(k) \in Nat
                      /\ Left(n)[k] = Left(n)[k + 1] * 62 + a(k)
                      /\ Left(m)[k] \in Nat /\ Left(m)[k + 1] \in Nat /\ b(k) \in Nat
                      /\ Left(m)[k] = Left(m)[k + 1] * 62 + b(k)
  <2> SUFFICES ASSUME NEW k \in 0..3
               PROVE  /\ Left(n)[k] \in Nat /\ Left(n)[k + 1] \in Nat /\ a(k) \in Nat
                      /\ Left(n)[k] = Left(n)[k + 1] * 62 + a(k)
                      /\ Left(m)[k] \in Nat /\ Left(m)[k + 1] \in Nat /\ b(k) \in Nat
                      /\ Left(m)[k] = Left(m)[k + 1] * 62 + b(k)
    OBVIOUS
  <2>1. k \in 0..BufLen
    BY <1>2
  <2>2. \A x \in 0..(Base - 1) : x \in Nat
    BY <1>1
  <2> QED BY <1>1, <2>1, <2>2, NextDigit
<1>4. \A k \in 0..3 : a(k) - b(k) \in {-26, 0, 26}
  <2>1. \A k \in 0..3 : SameLetter(a(k), b(k))
    BY <1>2, SameInEveryDigit
  <2> HIDE DEF a, b
  <2> QED BY <1>1, <1>3, <2>1 DEF SameLetter
<1>5. Left(n)[0] = n /\ Left(m)[0] = m
  BY LeftRounds
<1>6. ShardIndexFromID(n) = n % 16 /\ ShardIndexFromID(m) = m % 16
  BY DEF ShardIndexFromID, CodeParameters
<1> HIDE DEF a, b
<1> DEFINE e(k) == a(k) - b(k)
           q == Left(n)[4] - Left(m)[4]
<1>7. \A k \in 0..2 : e(k) = 0 <=> a(k) = b(k)
  <2> SUFFICES ASSUME NEW k \in 0..2 PROVE e(k) = 0 <=> a(k) = b(k)
    OBVIOUS
  <2>1. a(k) \in Nat /\ b(k) \in Nat
    BY <1>3
  <2> DEFINE x == a(k)
             y == b(k)
  <2>2. x \in Nat /\ y \in Nat
    BY <2>1
  <2> HIDE DEF x, y
  <2>3. x - y = 0 <=> x = y
    BY <2>2
  <2> QED BY <2>3 DEF x, y
<1>8. q \in Int /\ n - m = (((q * 62 + e(3)) * 62 + e(2)) * 62 + e(1)) * 62 + e(0)
  <2>1. /\ Left(n)[3] = Left(n)[4] * 62 + a(3) /\ Left(m)[3] = Left(m)[4] * 62 + b(3)
        /\ Left(n)[2] = Left(n)[3] * 62 + a(2) /\ Left(m)[2] = Left(m)[3] * 62 + b(2)
        /\ Left(n)[1] = Left(n)[2] * 62 + a(1) /\ Left(m)[1] = Left(m)[2] * 62 + b(1)
        /\ n = Left(n)[1] * 62 + a(0) /\ m = Left(m)[1] * 62 + b(0)
    BY <1>3, <1>5
  <2>2. /\ Left(n)[4] \in Nat /\ Left(m)[4] \in Nat
        /\ a(0) \in Nat /\ a(1) \in Nat /\ a(2) \in Nat /\ a(3) \in Nat
        /\ b(0) \in Nat /\ b(1) \in Nat /\ b(2) \in Nat /\ b(3) \in Nat
    BY <1>3
  <2>3. /\ Left(n)[3] \in Nat /\ Left(n)[2] \in Nat /\ Left(n)[1] \in Nat
        /\ Left(m)[3] \in Nat /\ Left(m)[2] \in Nat /\ Left(m)[1] \in Nat
    BY <1>3
  <2>4. Left(n)[3] - Left(m)[3] = q * 62 + e(3)
    BY <2>1, <2>2, <2>3
  <2>5. Left(n)[2] - Left(m)[2] = (q * 62 + e(3)) * 62 + e(2)
    BY <2>1, <2>2, <2>3, <2>4
  <2>6. Left(n)[1] - Left(m)[1] = ((q * 62 + e(3)) * 62 + e(2)) * 62 + e(1)
    BY <2>1, <2>2, <2>3, <2>5
  <2>7. n - m = (Left(n)[1] - Left(m)[1]) * 62 + e(0)
    <3> DEFINE x == Left(n)[1]
               y == Left(m)[1]
    <3>1. x \in Nat /\ y \in Nat /\ n = x * 62 + a(0) /\ m = y * 62 + b(0)
      BY <2>1, <2>3
    <3> HIDE DEF x, y
    <3>2. n - m = (x - y) * 62 + (a(0) - b(0))
      BY <2>2, <3>1
    <3> QED BY <3>2 DEF x, y
  <2>8. q \in Int
    BY <2>2
  <2> HIDE DEF e, q
  <2> QED BY <2>6, <2>7, <2>8
<1>9. /\ e(0) \in {-26, 0, 26} /\ e(1) \in {-26, 0, 26}
      /\ e(2) \in {-26, 0, 26} /\ e(3) \in {-26, 0, 26}
  BY <1>4
<1> HIDE DEF e, q
<1>10. CASE n % 16 = m % 16
  <2> DEFINE z == (n \div 16) - (m \div 16)
  <2>1. z \in Int /\ n - m = 16 * z
    BY <1>10
  <2> HIDE DEF z
  <2>2. e(0) = 0 /\ e(1) = 0 /\ e(2) = 0
    BY <1>8, <1>9, <2>1, LowDigitsDecide
  <2>3. \A d \in 0..2 : a(d) = b(d)
    BY <1>7, <2>2
  <2> QED BY <1>6, <1>10, <2>3 DEF a, b
<1>11. CASE \A d \in 0..2 : a(d) = b(d)
  <2>1. e(0) = 0 /\ e(1) = 0 /\ e(2) = 0
    BY <1>7, <1>11
  <2>2. n - m \in Int /\ n - m = (((q * 62 + e(3)) * 62) * 62) * 62
    BY <1>8, <1>9, <2>1
  <2>3. (n - m) % 16 = 0
    BY <1>8, <1>9, <2>2, UpperDigitsPass
  <2>4. n % 16 = m % 16
    BY <2>3
  <2> QED BY <1>6, <1>11, <2>4 DEF a, b
<1>12. CASE n % 16 # m % 16 /\ ~ \A d \in 0..2 : a(d) = b(d)
  BY <1>6, <1>12 DEF a, b
<1> QED BY <1>10, <1>11, <1>12

\* With the alphabet and the tables of the code, one of two links whose codes differ
\* by case is refused for the other if, and only if, the codes agree in their last
\* three digits (ShardIndexFromID, the tables' unique keys).
THEOREM LowDigitsTell == CodeParameters => (Spec => []RefusedForUpperDigits)
<1>1. Init => InTime
  BY TimeAssumption DEF Init, InTime
<1>2. Inv => TypeOK
  BY DEF Inv
<1>3. CodeParameters /\ Inv /\ InTime => RefusedForUpperDigits
  <2> SUFFICES ASSUME CodeParameters, Inv, InTime,
                      NEW i \in issued, NEW j \in issued, CountedTogether(i, j)
               PROVE  Refuse(i, j) <=> LastDigitsAgree(CodeOf(i), CodeOf(j))
    BY DEF RefusedForUpperDigits
  <2>1. /\ i.ms \in Nat /\ i.seq \in 0..MaxSequence /\ i.id \in Nat
        /\ NodeOf[i.proc] \in 0..MaxNode /\ i.ms <= MaxTime
        /\ i.id = Compose(i.ms, NodeOf[i.proc], i.seq)
    BY NodeAssumption DEF Inv, TypeOK, Ids, IssuedOK, InTime
  <2>2. /\ j.ms \in Nat /\ j.seq \in 0..MaxSequence /\ j.id \in Nat
        /\ NodeOf[j.proc] \in 0..MaxNode /\ j.ms <= MaxTime
        /\ j.id = Compose(j.ms, NodeOf[j.proc], j.seq)
    BY NodeAssumption DEF Inv, TypeOK, Ids, IssuedOK, InTime
  <2>3. i.id < WordSize /\ j.id < WordSize
    BY <2>1, <2>2, IdInWord
  <2> DEFINE n == i.id
             m == j.id
  <2>4. /\ n \in Nat /\ m \in Nat /\ n < WordSize /\ m < WordSize
        /\ SameToMySQL(EncodeBase62(n), EncodeBase62(m))
        /\ Refuse(i, j) <=> ShardIndexFromID(n) = ShardIndexFromID(m)
        /\ CodeOf(i) = EncodeBase62(n) /\ CodeOf(j) = EncodeBase62(m)
    BY <2>1, <2>2, <2>3 DEF Refuse, CountedTogether, CodeOf
  <2> HIDE DEF n, m
  <2> DEFINE k == Len(EncodeBase62(n))
  <2>5. /\ Len(EncodeBase62(m)) = k /\ k \in 1..BufLen
        /\ Left(n)[k] = 0 /\ Left(m)[k] = 0
    BY <2>4, SameInEveryDigit, CodeDigits
  <2>6. \A d \in 0..(k - 1) : /\ EncodeBase62(n)[k - d] = DigitAt(n, d)
                             /\ EncodeBase62(m)[k - d] = DigitAt(m, d)
    BY <2>4, <2>5, CodeDigits
  <2>7. \A d \in 0..2 : d >= k => DigitAt(n, d) = DigitAt(m, d)
    <3> SUFFICES ASSUME NEW d \in 0..2, d >= k PROVE DigitAt(n, d) = DigitAt(m, d)
      OBVIOUS
    <3>1. k \in 0..Beyond /\ d \in 0..Beyond
      BY <2>5, CodeConstants DEF CodeParameters, Beyond
    <3>2. Left(n)[d] = 0 /\ Left(m)[d] = 0
      BY <2>4, <2>5, <3>1, ZerosAbove
    <3> QED BY <3>2 DEF DigitAt
  <2> HIDE DEF k
  <2>8. LastDigitsAgree(EncodeBase62(n), EncodeBase62(m))
          <=> \A d \in 0..2 : DigitAt(n, d) = DigitAt(m, d)
    <3>1. LastDigitsAgree(EncodeBase62(n), EncodeBase62(m))
            <=> \A d \in 0..2 : d < k => EncodeBase62(n)[k - d] = EncodeBase62(m)[k - d]
      BY <2>5 DEF LastDigitsAgree, CodeParameters, k
    <3>2. \A d \in 0..2 : d < k => d \in 0..(k - 1)
      BY <2>5, CodeConstants
    <3>3. \A d \in 0..2 : d < k \/ d >= k
      BY <2>5, CodeConstants
    <3> QED BY <2>6, <2>7, <3>1, <3>2, <3>3
  <2> QED BY <2>4, <2>8, LowDigitsShard
<1>4. SUFFICES ASSUME CodeParameters PROVE Spec => []RefusedForUpperDigits
  OBVIOUS
<1>5. Inv /\ InTime => RefusedForUpperDigits
  BY <1>3, <1>4
<1> QED BY <1>1, <1>2, <1>5, InvHolds, InTimeStep, PTL DEF Spec
=============================================================================
