-------------------------- MODULE LocalCacheProofs --------------------------
(***************************************************************************)
(* The cache is the bounded cache of BoundedCache, and evicts the entry    *)
(* least recently used, for any number of codes, callers and entries.      *)
(*                                                                         *)
(* Its list is always in the order of use (InOrder): whatever stands       *)
(* before an element was used after it.  So the last element is the right  *)
(* victim when nothing has expired.                                        *)
(***************************************************************************)
EXTENDS LocalCache, Integers, FiniteSetTheorems, WellFoundedInduction, TLAPS

InOrder == \A i, j \in DOMAIN lru : i < j => <<lru[i], lru[j]>> \in usedAfter

\* No Set under way keeps its entry for longer than the longest TTL from now on.
SetsBounded ==
  \A s \in Callers : setting[s] # NoSet => setting[s].entry.expireAt <= clock + MaxTTL

Inv == ListMatchesMap /\ InOrder /\ SetsBounded

\* The code of a Set under way, and what has to go for it.
CodeOf(s) == setting[s].code
Gone(s)   == IF Full(CodeOf(s)) THEN {Victim} ELSE {}

USE CacheAssumption

-----------------------------------------------------------------------------
(* Positions                                                               *)

\* A set of numbers has a least one.
LEMMA Least ==
  ASSUME NEW T \in SUBSET Nat, T # {}
  PROVE  \E x \in T : \A y \in T : x <= y
<1> DEFINE R == OpToRel(<, Nat)
<1>1. IsWellFoundedOn(R, Nat)
  BY NatLessThanWellFounded
<1>2. \A x, y \in Nat : x < y => <<x, y>> \in R
  BY DEF OpToRel
<1> HIDE DEF R
<1>3. PICK x \in T : \A y \in T : ~ (<<y, x>> \in R)
  BY <1>1, WFMin
<1> SUFFICES ASSUME NEW y \in T PROVE x <= y
  BY <1>3
<1>4. x \in Nat /\ y \in Nat
  BY <1>3
<1>5. ~ (y < x)
  BY <1>2, <1>3, <1>4
<1> QED BY <1>4, <1>5

\* A bounded one has a greatest, which is its Max.
LEMMA Greatest ==
  ASSUME NEW n \in Nat, NEW T \in SUBSET (1..n), T # {}
  PROVE  Max(T) \in T /\ \A y \in T : y <= Max(T)
<1> DEFINE U == {n - y : y \in T}
<1>1. U \in SUBSET Nat /\ U # {}
  <2>1. \A y \in T : n - y \in Nat
    OBVIOUS
  <2> QED BY <2>1
<1>2. PICK u \in U : \A v \in U : u <= v
  <2> HIDE DEF U
  <2> QED BY <1>1, Least
<1>3. PICK x \in T : u = n - x
  OBVIOUS
<1>4. \A y \in T : y <= x
  BY <1>2, <1>3
<1> QED BY <1>4 DEF Max

\* Counting up to the next number.
LEMMA RankNext ==
  ASSUME NEW n \in Nat, NEW K, \A j \in K : j \in 1..n
  PROVE  /\ Cardinality(K) \in 0..n
         /\ \A i \in 0..n : Rank(K, i) \in Nat
         /\ Rank(K, 0) = 0 /\ Rank(K, n) = Cardinality(K)
         /\ \A i \in 1..n : Rank(K, i) = IF i \in K THEN Rank(K, i - 1) + 1
                                                    ELSE Rank(K, i - 1)
<1>1. IsFiniteSet(K) /\ Cardinality(K) \in 0..n
  <2>1. IsFiniteSet(1..n) /\ Cardinality(1..n) = n
    BY FS_Interval
  <2>2. IsFiniteSet(K) /\ Cardinality(K) <= n
    BY <2>1, FS_Subset
  <2> QED BY <2>2, FS_CardinalityType
<1>2. \A i \in 0..n : IsFiniteSet({j \in K : j <= i})
  BY <1>1, FS_Subset
<1>3. \A i \in 0..n : Rank(K, i) \in Nat
  BY <1>2, FS_CardinalityType DEF Rank
<1>4. Rank(K, 0) = 0
  <2>1. \A j \in K : ~ (j <= 0)
    OBVIOUS
  <2>2. {j \in K : j <= 0} = {}
    BY <2>1, Zenon
  <2> QED BY <2>2, FS_EmptySet DEF Rank
<1>5. Rank(K, n) = Cardinality(K)
  <2>1. \A j \in K : j <= n
    OBVIOUS
  <2>2. {j \in K : j <= n} = K
    BY <2>1, Zenon
  <2> QED BY <2>2 DEF Rank
<1>6. ASSUME NEW i \in 1..n
      PROVE  Rank(K, i) = IF i \in K THEN Rank(K, i - 1) + 1 ELSE Rank(K, i - 1)
  <2> DEFINE below == {j \in K : j <= i - 1}
             upto  == {j \in K : j <= i}
  <2>1. i - 1 \in 0..n /\ i \in 0..n /\ i \notin below
    OBVIOUS
  <2>2. IsFiniteSet(below) /\ Rank(K, i - 1) = Cardinality(below)
    BY <1>2, <2>1 DEF Rank
  <2>3. upto = IF i \in K THEN below \union {i} ELSE below
    <3>1. \A j \in K : j <= i <=> j <= i - 1 \/ j = i
      OBVIOUS
    <3> QED BY <3>1
  <2>4. Rank(K, i) = Cardinality(upto)
    BY DEF Rank
  <2> HIDE DEF below, upto
  <2>5. Cardinality(below \union {i}) = Cardinality(below) + 1
    BY <2>1, <2>2, FS_AddElement
  <2> QED BY <2>2, <2>3, <2>4, <2>5
<1> QED BY <1>1, <1>3, <1>4, <1>5, <1>6

LEMMA RanksGrow ==
  ASSUME NEW n \in Nat, NEW K, \A j \in K : j \in 1..n, NEW i \in 0..n
  PROVE  \A j \in 0..n : i < j => /\ Rank(K, i) <= Rank(K, j)
                                  /\ j \in K => Rank(K, i) < Rank(K, j)
<1>1. /\ \A j \in 0..n : Rank(K, j) \in Nat
      /\ \A j \in 1..n : Rank(K, j) = IF j \in K THEN Rank(K, j - 1) + 1
                                                 ELSE Rank(K, j - 1)
  BY RankNext
<1> DEFINE T == {j \in 0..n : i <= j /\ Rank(K, i) > Rank(K, j)}
<1>2. T = {}
  <2> SUFFICES ASSUME T # {} PROVE FALSE
    OBVIOUS
  <2>1. PICK j \in T : \A l \in T : j <= l
    <3>1. T \in SUBSET Nat
      OBVIOUS
    <3> HIDE DEF T
    <3> QED BY <3>1, Least
  <2>2. j \in 1..n /\ j - 1 \in 0..n /\ i <= j - 1 /\ ~ (j <= j - 1)
    BY <1>1, <2>1
  <2>3. Rank(K, i) <= Rank(K, j - 1)
    BY <1>1, <2>1, <2>2
  <2>4. Rank(K, j - 1) <= Rank(K, j)
    BY <1>1, <2>2
  <2> QED BY <1>1, <2>1, <2>2, <2>3, <2>4
<1>3. \A j \in 0..n : i <= j => Rank(K, i) <= Rank(K, j)
  BY <1>1, <1>2
<1>4. ASSUME NEW j \in 0..n, i < j, j \in K PROVE Rank(K, i) < Rank(K, j)
  <2>1. j - 1 \in 0..n /\ i <= j - 1 /\ j \in 1..n
    BY <1>4
  <2> QED BY <1>1, <1>3, <1>4, <2>1
<1> QED BY <1>3, <1>4

\* The elements of K, in order.
LEMMA Positions ==
  ASSUME NEW n \in Nat, NEW K, \A j \in K : j \in 1..n
  PROVE  /\ Cardinality(K) \in 0..n
         /\ \A k \in 1..Cardinality(K) : Nth(K, k) \in K
         /\ \A k, l \in 1..Cardinality(K) : k < l => Nth(K, k) < Nth(K, l)
         /\ \A i \in K : \E k \in 1..Cardinality(K) : Nth(K, k) = i
<1> DEFINE m == Cardinality(K)
<1>1. /\ m \in 0..n
      /\ \A i \in 0..n : Rank(K, i) \in Nat
      /\ Rank(K, 0) = 0 /\ Rank(K, n) = m
      /\ \A i \in 1..n : Rank(K, i) = IF i \in K THEN Rank(K, i - 1) + 1
                                                 ELSE Rank(K, i - 1)
  BY RankNext
<1>2. \A i, j \in 0..n : i < j => /\ Rank(K, i) <= Rank(K, j)
                                  /\ j \in K => Rank(K, i) < Rank(K, j)
  BY RanksGrow
<1> HIDE DEF m
<1>3. \A k \in 1..m : Nth(K, k) \in K /\ Nth(K, k) \in 0..n /\ Rank(K, Nth(K, k)) = k
  <2> SUFFICES ASSUME NEW k \in 1..m PROVE \E i \in K : Rank(K, i) = k
    <3>1. \A i \in K : i \in 0..n
      OBVIOUS
    <3> QED BY <3>1 DEF Nth
  <2> DEFINE T == {i \in 0..n : Rank(K, i) >= k}
  <2>1. T \in SUBSET Nat /\ n \in T
    BY <1>1
  <2>2. PICK i \in T : \A j \in T : i <= j
    <3> HIDE DEF T
    <3> QED BY <2>1, Least
  <2>3. i \in 1..n /\ i - 1 \in 0..n /\ ~ (i <= i - 1)
    BY <1>1, <2>2
  <2>4. Rank(K, i - 1) < k /\ Rank(K, i) >= k
    BY <1>1, <2>2, <2>3
  <2>5. Rank(K, i) = IF i \in K THEN Rank(K, i - 1) + 1 ELSE Rank(K, i - 1)
    BY <1>1, <2>3
  <2>6. Rank(K, i) \in Nat /\ Rank(K, i - 1) \in Nat
    BY <1>1, <2>3
  <2> QED BY <2>4, <2>5, <2>6
<1>4. ASSUME NEW k \in 1..m, NEW l \in 1..m, k < l PROVE Nth(K, k) < Nth(K, l)
  <2>1. /\ Nth(K, k) \in 0..n /\ Nth(K, l) \in 0..n
        /\ Rank(K, Nth(K, k)) = k /\ Rank(K, Nth(K, l)) = l
    BY <1>3
  <2>2. ~ (Nth(K, l) < Nth(K, k)) /\ Nth(K, k) # Nth(K, l)
    BY <1>1, <1>2, <1>4, <2>1
  <2> QED BY <2>1, <2>2
<1>5. ASSUME NEW i \in K PROVE \E k \in 1..m : Nth(K, k) = i
  <2>1. i \in 1..n /\ i - 1 \in 0..n /\ i - 1 < i /\ i \in 0..n /\ n \in 0..n
    OBVIOUS
  <2>2. Rank(K, i) \in 1..m
    <3>1. Rank(K, i) > 0
      BY <1>1, <2>1
    <3>2. Rank(K, i) <= m
      BY <1>1, <1>2, <2>1
    <3> QED BY <1>1, <2>1, <3>1, <3>2
  <2>3. PICK k \in 1..m : k = Rank(K, i)
    BY <2>2
  <2>4. Nth(K, k) \in K /\ Nth(K, k) \in 0..n /\ Rank(K, Nth(K, k)) = Rank(K, i)
    BY <1>3, <2>3
  <2>5. ~ (Nth(K, k) < i) /\ ~ (i < Nth(K, k))
    BY <1>1, <1>2, <2>1, <2>4
  <2>6. Nth(K, k) \in Int /\ i \in Int
    BY <2>1, <2>4
  <2>7. Nth(K, k) = i
    BY <2>5, <2>6
  <2> QED BY <2>7
<1> QED BY <1>1, <1>3, <1>4, <1>5 DEF m

-----------------------------------------------------------------------------
(* The list                                                                *)

\* A list without repetition is as long as its set of codes is large.
LEMMA Counted ==
  ASSUME NEW s \in Seq(Codes), IsInjective(s)
  PROVE  IsFiniteSet(ToSet(s)) /\ Cardinality(ToSet(s)) = Len(s)
<1>1. Len(s) \in Nat /\ DOMAIN s = 1..Len(s) /\ s \in [1..Len(s) -> ToSet(s)]
  BY DEF ToSet
<1>2. IsFiniteSet(1..Len(s)) /\ Cardinality(1..Len(s)) = Len(s)
  BY <1>1, FS_Interval
<1>3. s \in Surjection(1..Len(s), ToSet(s)) /\ s \in Injection(1..Len(s), ToSet(s))
  BY <1>1 DEF Surjection, Injection, IsInjective, ToSet
<1> QED BY <1>2, <1>3, FS_Surjection

\* What is left keeps its order.
LEMMA WithoutKeeps ==
  ASSUME lru \in Seq(Codes), NEW S
  PROVE  /\ Without(S) \in Seq(Codes) /\ Len(Without(S)) <= Len(lru)
         /\ ToSet(Without(S)) = ToSet(lru) \ S
         /\ IsInjective(lru) => IsInjective(Without(S))
         /\ \A k, l \in DOMAIN Without(S) : k < l =>
              \E i, j \in DOMAIN lru :
                i < j /\ lru[i] = Without(S)[k] /\ lru[j] = Without(S)[l]
<1> DEFINE kept == {i \in DOMAIN lru : lru[i] \notin S}
           m    == Cardinality(kept)
           w    == [k \in 1..m |-> lru[Nth(kept, k)]]
<1>1. Len(lru) \in Nat /\ DOMAIN lru = 1..Len(lru) /\ \A i \in 1..Len(lru) : lru[i] \in Codes
  OBVIOUS
<1>2. /\ m \in 0..Len(lru) /\ \A k \in 1..m : Nth(kept, k) \in kept
      /\ \A k, l \in 1..m : k < l => Nth(kept, k) < Nth(kept, l)
      /\ \A i \in kept : \E k \in 1..m : Nth(kept, k) = i
  <2>1. \A i \in kept : i \in 1..Len(lru)
    BY <1>1
  <2> HIDE DEF kept
  <2> QED BY <1>1, <2>1, Positions
<1>3. Without(S) = w
  BY DEF Without
<1>4. \A i \in kept : i \in 1..Len(lru) /\ lru[i] \notin S
  BY <1>1
<1>5. \A i \in 1..Len(lru) : lru[i] \notin S => i \in kept
  BY <1>1
<1> HIDE DEF kept, m
<1>6. \A k \in 1..m : /\ Nth(kept, k) \in 1..Len(lru) /\ Nth(kept, k) \in kept
                      /\ w[k] = lru[Nth(kept, k)] /\ w[k] \notin S /\ w[k] \in Codes
  BY <1>1, <1>2, <1>4
<1>7. w \in Seq(Codes) /\ Len(w) = m /\ DOMAIN w = 1..m
  BY <1>2, <1>6
<1>8. ToSet(w) = ToSet(lru) \ S
  <2>1. ASSUME NEW c \in ToSet(lru) \ S PROVE c \in ToSet(w)
    <3>1. PICK i \in 1..Len(lru) : c = lru[i]
      BY <1>1, <2>1 DEF ToSet
    <3>2. PICK k \in 1..m : Nth(kept, k) = i
      BY <1>2, <1>5, <2>1, <3>1
    <3> QED BY <1>6, <1>7, <3>1, <3>2 DEF ToSet
  <2>2. ASSUME NEW k \in 1..m PROVE w[k] \in ToSet(lru) \ S
    BY <1>1, <1>6 DEF ToSet
  <2> QED BY <1>7, <2>1, <2>2 DEF ToSet
<1>9. ASSUME IsInjective(lru) PROVE IsInjective(w)
  <2> SUFFICES ASSUME NEW k \in 1..m, NEW l \in 1..m, w[k] = w[l] PROVE k = l
    BY <1>7 DEF IsInjective
  <2>1. Nth(kept, k) = Nth(kept, l)
    BY <1>1, <1>6, <1>9 DEF IsInjective
  <2>2. ~ (k < l) /\ ~ (l < k)
    BY <1>2, <1>6, <2>1
  <2> QED BY <1>2, <2>2
<1>10. ASSUME NEW k \in 1..m, NEW l \in 1..m, k < l
       PROVE  \E i, j \in DOMAIN lru : i < j /\ lru[i] = w[k] /\ lru[j] = w[l]
  BY <1>1, <1>2, <1>6, <1>10
<1> HIDE DEF w
<1> QED BY <1>2, <1>3, <1>7, <1>8, <1>9, <1>10

\* A use puts its code at the front, and keeps the list in order.
LEMMA Moved ==
  ASSUME lru \in Seq(Codes), IsInjective(lru), InOrder, NEW c \in Codes, NEW gone,
         lru' = MovedToFront(c, gone), Used(c)
  PROVE  /\ lru' \in Seq(Codes) /\ IsInjective(lru') /\ InOrder'
         /\ ToSet(lru') = {c} \union (ToSet(lru) \ gone)
<1> DEFINE t == Without({c} \union gone)
<1>1. /\ t \in Seq(Codes) /\ ToSet(t) = ToSet(lru) \ ({c} \union gone) /\ IsInjective(t)
      /\ \A k, l \in DOMAIN t : k < l =>
           \E i, j \in DOMAIN lru : i < j /\ lru[i] = t[k] /\ lru[j] = t[l]
  BY WithoutKeeps
<1>2. lru' = <<c>> \o t
  BY DEF MovedToFront
<1> HIDE DEF t
<1>3. /\ Len(t) \in Nat /\ DOMAIN t = 1..Len(t)
      /\ lru' \in Seq(Codes) /\ DOMAIN lru' = 1..(Len(t) + 1)
      /\ lru'[1] = c /\ \A k \in 2..(Len(t) + 1) : lru'[k] = t[k - 1]
  BY <1>1, <1>2
<1>4. \A k \in 1..Len(t) : t[k] \in ToSet(t) /\ t[k] # c /\ t[k] \in Codes
  <2>1. \A k \in 1..Len(t) : t[k] \in ToSet(t)
    BY <1>3 DEF ToSet
  <2> QED BY <1>1, <2>1, <1>3
<1>5. \A k \in 2..(Len(t) + 1) : k - 1 \in 1..Len(t)
  BY <1>3
<1>6. IsInjective(lru')
  <2> SUFFICES ASSUME NEW k \in 1..(Len(t) + 1), NEW l \in 1..(Len(t) + 1),
                      lru'[k] = lru'[l]
               PROVE  k = l
    BY <1>3 DEF IsInjective
  <2>1. CASE k = 1 \/ l = 1
    BY <1>3, <1>4, <1>5, <2>1
  <2>2. CASE k # 1 /\ l # 1
    <3>1. k \in 2..(Len(t) + 1) /\ l \in 2..(Len(t) + 1)
      BY <1>3, <2>2
    <3>2. k - 1 \in DOMAIN t /\ l - 1 \in DOMAIN t /\ t[k - 1] = t[l - 1]
      BY <1>3, <1>5, <3>1
    <3>3. k - 1 = l - 1
      BY <1>1, <3>2 DEF IsInjective
    <3> QED BY <1>3, <3>3
  <2> QED BY <2>1, <2>2
<1>7. InOrder'
  <2> SUFFICES ASSUME NEW k \in 1..(Len(t) + 1), NEW l \in 1..(Len(t) + 1), k < l
               PROVE  <<lru'[k], lru'[l]>> \in usedAfter'
    BY <1>3 DEF InOrder
  <2>1. l \in 2..(Len(t) + 1) /\ l - 1 \in 1..Len(t) /\ lru'[l] = t[l - 1]
    BY <1>3
  <2>2. t[l - 1] \in Codes \ {c}
    BY <1>4, <2>1
  <2>3. CASE k = 1
    BY <1>3, <2>1, <2>2, <2>3 DEF Used
  <2>4. CASE k # 1
    <3>1. k - 1 \in 1..Len(t) /\ lru'[k] = t[k - 1] /\ k - 1 < l - 1
      BY <1>3, <2>1, <2>4
    <3>2. <<t[k - 1], t[l - 1]>> \in usedAfter
      <4>1. PICK i \in DOMAIN lru, j \in DOMAIN lru :
              i < j /\ lru[i] = t[k - 1] /\ lru[j] = t[l - 1]
        BY <1>1, <1>3, <2>1, <3>1
      <4> QED BY <4>1 DEF InOrder
    <3> QED BY <2>1, <2>2, <3>1, <3>2 DEF Used
  <2> QED BY <2>3, <2>4
<1>8. ToSet(lru') = {c} \union ToSet(t)
  <2>1. \A k \in 1..Len(t) : t[k] = lru'[k + 1] /\ k + 1 \in 1..(Len(t) + 1)
    BY <1>3
  <2>2. \A k \in 1..(Len(t) + 1) : lru'[k] \in {c} \union ToSet(t)
    <3> SUFFICES ASSUME NEW k \in 1..(Len(t) + 1) PROVE lru'[k] \in {c} \union ToSet(t)
      OBVIOUS
    <3>1. CASE k = 1
      BY <1>3, <3>1
    <3>2. CASE k # 1
      BY <1>3, <1>4, <1>5, <3>2
    <3> QED BY <3>1, <3>2
  <2>3. c \in ToSet(lru') /\ \A k \in 1..Len(t) : t[k] \in ToSet(lru')
    <3>1. 1 \in DOMAIN lru'
      BY <1>3
    <3> QED BY <1>3, <2>1, <3>1 DEF ToSet
  <2> QED BY <1>3, <2>2, <2>3 DEF ToSet
<1> QED BY <1>1, <1>3, <1>6, <1>7, <1>8

\* A removal keeps the rest in order.
LEMMA Shortened ==
  ASSUME lru \in Seq(Codes), IsInjective(lru), InOrder, NEW S, Removed(S),
         usedAfter' = usedAfter
  PROVE  /\ lru' \in Seq(Codes) /\ IsInjective(lru') /\ InOrder'
         /\ Len(lru') <= Len(lru) /\ ToSet(lru') = ToSet(lru) \ S
<1> DEFINE t == Without(S)
<1>1. /\ t \in Seq(Codes) /\ ToSet(t) = ToSet(lru) \ S /\ IsInjective(t)
      /\ Len(t) <= Len(lru)
      /\ \A k, l \in DOMAIN t : k < l =>
           \E i, j \in DOMAIN lru : i < j /\ lru[i] = t[k] /\ lru[j] = t[l]
  BY WithoutKeeps
<1>2. lru' = t
  BY DEF Removed
<1> HIDE DEF t
<1>3. ASSUME NEW k \in DOMAIN t, NEW l \in DOMAIN t, k < l
      PROVE  <<t[k], t[l]>> \in usedAfter
  BY <1>1, <1>3 DEF InOrder
<1>4. InOrder'
  BY <1>2, <1>3 DEF InOrder
<1> QED BY <1>1, <1>2, <1>4

-----------------------------------------------------------------------------
(* The victim                                                              *)

LEMMA Sizes ==
  ASSUME ListMatchesMap
  PROVE  /\ IsFiniteSet(DOMAIN items) /\ Cardinality(DOMAIN items) = Len(lru)
         /\ Len(lru) \in 0..MaxEntries
<1>1. lru \in Seq(Codes) /\ IsInjective(lru) /\ ToSet(lru) = DOMAIN items
  BY DEF ListMatchesMap, TypeOK
<1>2. IsFiniteSet(ToSet(lru)) /\ Cardinality(ToSet(lru)) = Len(lru)
  BY <1>1, Counted
<1>3. Len(lru) \in Nat /\ Len(lru) <= MaxEntries
  BY <1>1 DEF ListMatchesMap, TypeOK
<1> QED BY <1>1, <1>2, <1>3

\* The victim is an entry, an expired one if there is one, and otherwise the
\* one all others were used after.
LEMMA VictimChosen ==
  ASSUME ListMatchesMap, InOrder, DOMAIN items # {}
  PROVE  /\ Victim \in DOMAIN items
         /\ (\E d \in DOMAIN items : Expired(items[d])) => Expired(items[Victim])
         /\ (\A d \in DOMAIN items : ~ Expired(items[d])) =>
              \A d \in DOMAIN items \ {Victim} : <<d, Victim>> \in usedAfter
<1> DEFINE dead == {i \in DOMAIN lru : Expired(items[lru[i]])}
           n    == Len(lru)
<1>1. n \in Nat /\ DOMAIN lru = 1..n
  BY DEF ListMatchesMap, TypeOK
<1>2. DOMAIN items = {lru[i] : i \in 1..n}
  BY <1>1 DEF ListMatchesMap, ToSet
<1>3. Victim = IF dead # {} THEN lru[Max(dead)] ELSE Last(lru)
  BY DEF Victim
<1>4. CASE dead # {}
  <2>1. Max(dead) \in dead
    <3>1. dead \in SUBSET (1..n)
      BY <1>1
    <3> HIDE DEF dead, n
    <3> QED BY <1>1, <1>4, <3>1, Greatest
  <2>2. Victim = lru[Max(dead)]
    BY <1>3, <1>4
  <2> QED BY <1>1, <1>2, <2>1, <2>2
<1>5. CASE dead = {}
  <2>1. \A d \in DOMAIN items : ~ Expired(items[d])
    BY <1>1, <1>2, <1>5
  <2>2. Victim = lru[n] /\ n \in 1..n
    <3>1. n \in 1..n
      BY <1>1, <1>2
    <3> QED BY <1>3, <1>5, <3>1 DEF Last
  <2>3. ASSUME NEW d \in DOMAIN items \ {Victim} PROVE <<d, Victim>> \in usedAfter
    <3>1. PICK i \in 1..n : d = lru[i]
      BY <1>2
    <3>2. i < n
      BY <1>1, <2>2, <2>3, <3>1
    <3> QED BY <1>1, <2>2, <3>1, <3>2 DEF InOrder
  <2> QED BY <1>2, <2>1, <2>2, <2>3
<1> QED BY <1>4, <1>5

\* What a Set under the mutex does to map and list.
LEMMA Finished ==
  ASSUME Inv, NEW s \in Callers, FinishSet(s)
  PROVE  /\ CodeOf(s) \in Codes /\ setting[s].entry \in Entries
         /\ Gone(s) \subseteq DOMAIN items /\ CodeOf(s) \notin Gone(s)
         /\ items' = [d \in (DOMAIN items \ Gone(s)) \union {CodeOf(s)} |->
                        IF d = CodeOf(s) THEN setting[s].entry ELSE items[d]]
         /\ lru' = MovedToFront(CodeOf(s), Gone(s)) /\ Used(CodeOf(s))
         /\ setting' = [setting EXCEPT ![s] = NoSet]
         /\ clock' = clock /\ answer' = answer
<1> DEFINE c    == CodeOf(s)
           gone == Gone(s)
<1>1. setting[s] \in [code : Codes, entry : Entries]
  BY DEF Inv, ListMatchesMap, TypeOK, FinishSet
<1>2. c \in Codes /\ setting[s].entry \in Entries
  <2> DEFINE E == Entries
  <2>1. setting[s] \in [code : Codes, entry : E]
    BY <1>1
  <2> HIDE DEF E
  <2>2. c \in Codes /\ setting[s].entry \in E
    BY <2>1 DEF CodeOf
  <2> QED BY <2>2 DEF E
<1>3. gone \subseteq DOMAIN items /\ c \notin gone
  <2>1. CASE ~ Full(c)
    BY <2>1 DEF Gone
  <2>2. CASE Full(c)
    <3>1. Cardinality(DOMAIN items) >= MaxEntries /\ c \notin DOMAIN items
      BY <2>2 DEF Full
    <3>2. DOMAIN items # {}
      BY <3>1, FS_EmptySet
    <3>3. Victim \in DOMAIN items
      BY <3>2, VictimChosen DEF Inv
    <3> QED BY <2>2, <3>1, <3>3 DEF Gone
  <2> QED BY <2>1, <2>2
<1> QED BY <1>2, <1>3 DEF FinishSet, CodeOf, Gone

\* Making room takes out exactly one entry of a cache that was full.
LEMMA RoomMade ==
  ASSUME Inv, NEW c
  PROVE  Full(c) <=> c \notin DOMAIN items /\ Cardinality(DOMAIN items) = MaxEntries
BY Sizes DEF Full, Inv

-----------------------------------------------------------------------------
(* The invariant                                                           *)

LEMMA InitInv == Init => Inv
<1> SUFFICES ASSUME Init PROVE Inv
  OBVIOUS
<1>1. items = <<>> /\ lru = <<>> /\ DOMAIN items = {} /\ DOMAIN lru = {}
  BY DEF Init
<1>2. items \in [DOMAIN items -> Entries]
  BY <1>1
<1>3. lru \in Seq(Codes) /\ Len(lru) <= MaxEntries
  BY <1>1
<1>4. setting \in [Callers -> [code : Codes, entry : Entries] \union {NoSet}]
  BY DEF Init
<1>5. TypeOK
  BY <1>1, <1>2, <1>3, <1>4 DEF TypeOK, Init
<1>6. ToSet(lru) = DOMAIN items /\ IsInjective(lru)
  BY <1>1 DEF ToSet, IsInjective
<1>7. InOrder
  BY <1>1 DEF InOrder
<1>8. SetsBounded
  BY DEF SetsBounded, Init
<1> QED BY <1>5, <1>6, <1>7, <1>8 DEF Inv, ListMatchesMap

\* A removal, by Delete or by a Get of an expired entry.
LEMMA RemovalInv ==
  ASSUME Inv, NEW S, Removed(S), UNCHANGED <<clock, setting, usedAfter>>,
         answer' \in Values \union {Miss}
  PROVE  Inv'
<1>1. items' = [d \in DOMAIN items \ S |-> items[d]]
  BY DEF Removed, Restrict
<1>2. /\ lru' \in Seq(Codes) /\ IsInjective(lru') /\ InOrder'
      /\ Len(lru') <= Len(lru) /\ ToSet(lru') = ToSet(lru) \ S
  BY Shortened DEF Inv, ListMatchesMap, TypeOK
<1>3. DOMAIN items' = DOMAIN items \ S /\ DOMAIN items \subseteq Codes
  BY <1>1 DEF Inv, ListMatchesMap, TypeOK
<1>4. items' \in [DOMAIN items' -> Entries]
  <2>1. items \in [DOMAIN items -> Entries]
    BY DEF Inv, ListMatchesMap, TypeOK
  <2> QED BY <1>1, <1>3, <2>1
<1>5. Len(lru') <= MaxEntries
  <2>1. Len(lru) \in Nat /\ Len(lru') \in Nat /\ Len(lru) <= MaxEntries
    BY <1>2 DEF Inv, ListMatchesMap, TypeOK
  <2> QED BY <1>2, <2>1
<1>6. TypeOK'
  BY <1>2, <1>3, <1>4, <1>5 DEF Inv, ListMatchesMap, TypeOK
<1>7. ToSet(lru') = DOMAIN items'
  BY <1>2, <1>3 DEF Inv, ListMatchesMap
<1>8. SetsBounded'
  BY DEF Inv, SetsBounded
<1> QED BY <1>2, <1>6, <1>7, <1>8 DEF Inv, ListMatchesMap

LEMMA TickInv == Inv /\ Tick => Inv'
<1> SUFFICES ASSUME Inv, Tick PROVE Inv'
  OBVIOUS
<1>1. TypeOK'
  <2>1. clock' \in 1..MaxTime
    BY DEF Inv, ListMatchesMap, TypeOK, Tick
  <2> QED BY <2>1 DEF Inv, ListMatchesMap, TypeOK, Tick
<1>2. ListMatchesMap'
  BY <1>1 DEF Inv, ListMatchesMap, Tick
<1>3. InOrder'
  BY DEF Inv, InOrder, Tick
<1>4. SetsBounded'
  <2> SUFFICES ASSUME NEW s \in Callers, setting[s] # NoSet
               PROVE  setting[s].entry.expireAt <= clock + 1 + MaxTTL
    BY DEF SetsBounded, Tick
  <2>1. setting[s].entry.expireAt <= clock + MaxTTL
    BY DEF Inv, SetsBounded
  <2>2. setting[s].entry.expireAt \in Nat
    <3>1. setting[s] \in [code : Codes, entry : Entries]
      BY DEF Inv, ListMatchesMap, TypeOK
    <3>2. \A e \in Entries : e.expireAt \in Nat
      BY DEF Entries, Inv, ListMatchesMap, TypeOK
    <3> HIDE DEF Inv
    <3> DEFINE E == Entries
    <3> HIDE DEF E
    <3>3. setting[s] \in [code : Codes, entry : E] /\ \A e \in E : e.expireAt \in Nat
      BY <3>1, <3>2 DEF E
    <3> QED BY <3>3
  <2>3. clock \in Nat
    BY DEF Inv, ListMatchesMap, TypeOK
  <2> QED BY <2>1, <2>2, <2>3
<1> QED BY <1>2, <1>3, <1>4 DEF Inv

LEMMA GetInv == ASSUME Inv, NEW c \in Codes, Get(c) PROVE Inv'
<1>1. CASE c \in DOMAIN items /\ ~ Expired(items[c])
  <2>1. /\ lru' = MovedToFront(c, {}) /\ answer' = items[c].value /\ Used(c)
        /\ UNCHANGED <<items, clock, setting>>
    BY <1>1 DEF Get
  <2>2. /\ lru' \in Seq(Codes) /\ IsInjective(lru') /\ InOrder'
        /\ ToSet(lru') = {c} \union ToSet(lru)
    <3>1. lru \in Seq(Codes) /\ IsInjective(lru) /\ InOrder
      BY DEF Inv, ListMatchesMap, TypeOK
    <3>2. ToSet(lru') = {c} \union (ToSet(lru) \ {})
      BY <2>1, <3>1, Moved
    <3> QED BY <2>1, <3>1, <3>2, Moved
  <2>3. ToSet(lru') = DOMAIN items'
    BY <1>1, <2>1, <2>2 DEF Inv, ListMatchesMap
  <2>4. Len(lru') <= MaxEntries
    BY <2>1, <2>2, <2>3, Counted, Sizes DEF Inv
  <2>5. answer' \in Values
    <3>1. items[c] \in Entries
      BY <1>1 DEF Inv, ListMatchesMap, TypeOK
    <3> QED BY <2>1, <3>1 DEF Entries
  <2>6. usedAfter' \subseteq Codes \X Codes
    BY <2>1 DEF Used, Inv, ListMatchesMap, TypeOK
  <2>7. TypeOK'
    BY <2>1, <2>2, <2>4, <2>5, <2>6 DEF Inv, ListMatchesMap, TypeOK
  <2>8. SetsBounded'
    BY <2>1 DEF Inv, SetsBounded
  <2> QED BY <2>2, <2>3, <2>7, <2>8 DEF Inv, ListMatchesMap
<1>2. CASE c \in DOMAIN items /\ Expired(items[c])
  BY <1>2, RemovalInv DEF Get
<1>3. CASE c \notin DOMAIN items
  BY <1>3 DEF Get, Inv, ListMatchesMap, TypeOK, InOrder, SetsBounded
<1> QED BY <1>1, <1>2, <1>3

LEMMA StartSetInv ==
  ASSUME Inv, NEW s \in Callers, NEW c \in Codes, NEW v \in Values, NEW ttl \in 0..MaxTTL,
         StartSet(s, c, v, ttl)
  PROVE  Inv'
<1> DEFINE entry == [value |-> v, expireAt |-> IF ttl > 0 THEN clock + ttl ELSE Zero]
           call  == [code |-> c, entry |-> entry]
<1>1. clock \in 1..MaxTime
  BY DEF Inv, ListMatchesMap, TypeOK
<1>2. entry \in Entries /\ entry.expireAt <= clock + MaxTTL
  BY <1>1 DEF Entries, Zero
<1>3. setting' = [setting EXCEPT ![s] = call]
  BY DEF StartSet
<1> HIDE DEF entry
<1>4. setting' \in [Callers -> [code : Codes, entry : Entries] \union {NoSet}]
  <2> DEFINE Calls == [code : Codes, entry : Entries]
  <2>1. call \in Calls
    BY <1>2
  <2>2. setting \in [Callers -> Calls \union {NoSet}]
    BY DEF Inv, ListMatchesMap, TypeOK
  <2> HIDE DEF Calls, call
  <2>3. setting' \in [Callers -> Calls \union {NoSet}]
    BY <1>3, <2>1, <2>2
  <2> QED BY <2>3 DEF Calls
<1>5. TypeOK'
  BY <1>4 DEF Inv, ListMatchesMap, TypeOK, StartSet
<1>6. SetsBounded'
  <2> SUFFICES ASSUME NEW r \in Callers, setting'[r] # NoSet
               PROVE  setting'[r].entry.expireAt <= clock + MaxTTL
    BY DEF SetsBounded, StartSet
  <2>1. CASE r = s
    <3>1. setting'[r] = call
      BY <1>3, <2>1 DEF Inv, ListMatchesMap, TypeOK
    <3> QED BY <1>2, <3>1
  <2>2. CASE r # s
    <3>1. setting'[r] = setting[r]
      BY <1>3, <2>2 DEF Inv, ListMatchesMap, TypeOK
    <3> QED BY <3>1 DEF Inv, SetsBounded
  <2> QED BY <2>1, <2>2
<1> QED BY <1>5, <1>6 DEF Inv, ListMatchesMap, InOrder, StartSet

LEMMA FinishSetInv == ASSUME Inv, NEW s \in Callers, FinishSet(s) PROVE Inv'
<1> DEFINE c    == CodeOf(s)
           gone == Gone(s)
<1>1. /\ c \in Codes /\ setting[s].entry \in Entries
      /\ gone \subseteq DOMAIN items /\ c \notin gone
      /\ items' = [d \in (DOMAIN items \ gone) \union {c} |->
                     IF d = c THEN setting[s].entry ELSE items[d]]
      /\ lru' = MovedToFront(c, gone) /\ Used(c)
      /\ setting' = [setting EXCEPT ![s] = NoSet]
      /\ clock' = clock /\ answer' = answer
  BY Finished
<1>2. Full(c) => \E d \in DOMAIN items : gone = {d}
  BY <1>1 DEF Gone
<1>3. ~ Full(c) => gone = {}
  BY DEF Gone
<1>4. Full(c) <=> c \notin DOMAIN items /\ Cardinality(DOMAIN items) = MaxEntries
  BY RoomMade
<1> HIDE DEF c, gone
<1>5. /\ lru' \in Seq(Codes) /\ IsInjective(lru') /\ InOrder'
      /\ ToSet(lru') = {c} \union (ToSet(lru) \ gone)
  <2>1. lru \in Seq(Codes) /\ IsInjective(lru) /\ InOrder
    BY DEF Inv, ListMatchesMap, TypeOK
  <2> QED BY <1>1, <2>1, Moved
<1>6. DOMAIN items' = (DOMAIN items \ gone) \union {c} /\ ToSet(lru') = DOMAIN items'
  BY <1>1, <1>5 DEF Inv, ListMatchesMap
<1>7. items' \in [DOMAIN items' -> Entries] /\ DOMAIN items' \subseteq Codes
  <2>1. items \in [DOMAIN items -> Entries] /\ DOMAIN items \subseteq Codes
    BY DEF Inv, ListMatchesMap, TypeOK
  <2> QED BY <1>1, <1>6, <2>1
<1>8. Len(lru') <= MaxEntries
  <2>1. /\ IsFiniteSet(DOMAIN items) /\ Cardinality(DOMAIN items) \in 0..MaxEntries
    BY Sizes DEF Inv
  <2>2. Cardinality(DOMAIN items') = Len(lru')
    BY <1>5, <1>6, Counted
  <2>3. CASE c \in DOMAIN items
    <3>1. DOMAIN items' = DOMAIN items
      BY <1>3, <1>4, <1>6, <2>3
    <3> QED BY <2>1, <2>2, <3>1
  <2>4. CASE c \notin DOMAIN items /\ Full(c)
    <3>1. PICK d \in DOMAIN items : gone = {d}
      BY <1>2, <2>4
    <3>2. /\ IsFiniteSet(DOMAIN items \ {d})
          /\ Cardinality(DOMAIN items \ {d}) = Cardinality(DOMAIN items) - 1
      BY <2>1, FS_RemoveElement
    <3>3. Cardinality((DOMAIN items \ {d}) \union {c}) = Cardinality(DOMAIN items)
      <4> DEFINE rest == DOMAIN items \ {d}
      <4>1. c \notin rest /\ IsFiniteSet(rest)
        BY <2>4, <3>2
      <4> HIDE DEF rest
      <4>2. Cardinality(rest \union {c}) = Cardinality(rest) + 1
        BY <4>1, FS_AddElement
      <4> QED BY <2>1, <3>2, <4>2 DEF rest
    <3> QED BY <1>6, <2>1, <2>2, <3>1, <3>3
  <2>5. CASE c \notin DOMAIN items /\ ~ Full(c)
    <3>1. gone = {} /\ Cardinality(DOMAIN items) < MaxEntries
      BY <1>3, <1>4, <2>1, <2>5
    <3>2. Cardinality(DOMAIN items \union {c}) = Cardinality(DOMAIN items) + 1
      BY <2>1, <2>5, FS_AddElement
    <3>3. DOMAIN items' = DOMAIN items \union {c}
      BY <1>6, <3>1
    <3> QED BY <2>1, <2>2, <3>1, <3>2, <3>3
  <2> QED BY <2>3, <2>4, <2>5
<1>9. setting' \in [Callers -> [code : Codes, entry : Entries] \union {NoSet}]
  <2> DEFINE Calls == [code : Codes, entry : Entries]
  <2>1. setting \in [Callers -> Calls \union {NoSet}]
    BY DEF Inv, ListMatchesMap, TypeOK
  <2> HIDE DEF Calls
  <2>2. setting' \in [Callers -> Calls \union {NoSet}]
    BY <1>1, <2>1
  <2> QED BY <2>2 DEF Calls
<1>10. usedAfter' \subseteq Codes \X Codes
  BY <1>1 DEF Used, Inv, ListMatchesMap, TypeOK
<1>11. TypeOK'
  BY <1>1, <1>5, <1>7, <1>8, <1>9, <1>10 DEF Inv, ListMatchesMap, TypeOK
<1>12. SetsBounded'
  BY <1>1 DEF Inv, SetsBounded, ListMatchesMap, TypeOK
<1> QED BY <1>5, <1>6, <1>11, <1>12 DEF Inv, ListMatchesMap

LEMMA NextInv == Inv /\ [Next]_vars => Inv'
<1> SUFFICES ASSUME Inv, [Next]_vars PROVE Inv'
  OBVIOUS
<1>1. CASE Tick
  BY <1>1, TickInv
<1>2. CASE \E c \in Codes : Get(c)
  BY <1>2, GetInv
<1>3. CASE \E s \in Callers, c \in Codes, v \in Values, ttl \in 0..MaxTTL :
             StartSet(s, c, v, ttl)
  BY <1>3, StartSetInv
<1>4. CASE \E s \in Callers : FinishSet(s)
  BY <1>4, FinishSetInv
<1>5. CASE \E codes \in SUBSET Codes \ {{}} : Delete(codes)
  <2>1. answer \in Values \union {Miss}
    BY DEF Inv, ListMatchesMap, TypeOK
  <2> QED BY <1>5, <2>1, RemovalInv DEF Delete
<1>6. CASE UNCHANGED vars
  BY <1>6 DEF Inv, ListMatchesMap, TypeOK, InOrder, SetsBounded, vars
<1> QED BY <1>1, <1>2, <1>3, <1>4, <1>5, <1>6 DEF Next

LEMMA Invariance == Spec => []Inv
BY InitInv, NextInv, PTL DEF Spec

\* Map and list always hold the same codes, each once and never more than
\* maxEntries (Set, Get, Delete and their helpers).
THEOREM ListAlwaysMatches == Spec => []ListMatchesMap
<1>1. Inv => ListMatchesMap
  BY DEF Inv
<1> QED BY <1>1, Invariance, PTL

-----------------------------------------------------------------------------
(* Eviction                                                                *)

\* No operation but a Set under the mutex brings in a code.
LEMMA OnlySetsAdd ==
  ASSUME Inv, [Next]_vars, DOMAIN items' \ DOMAIN items # {}
  PROVE  \E s \in Callers : FinishSet(s)
<1>1. ASSUME NEW S, Removed(S) PROVE DOMAIN items' \subseteq DOMAIN items
  BY <1>1 DEF Removed, Restrict
<1>2. ~ UNCHANGED items
  OBVIOUS
<1>3. CASE \E c \in Codes : Get(c)
  BY <1>1, <1>2, <1>3 DEF Get
<1>4. CASE \E codes \in SUBSET Codes \ {{}} : Delete(codes)
  BY <1>1, <1>4 DEF Delete
<1> QED BY <1>2, <1>3, <1>4 DEF Next, Tick, StartSet, vars

\* A Set that makes room takes an expired entry, or the least recently used one
\* when all are live (evictOneLocked).
THEOREM LeastRecentEvicted == Spec => EvictsLeastRecent
<1> DEFINE Evicts ==
      DOMAIN items' \ DOMAIN items # {} =>
        \A c \in DOMAIN items \ DOMAIN items' :
          \/ Expired(items[c])
          \/ \A d \in DOMAIN items \ {c} : /\ ~ Expired(items[d])
                                          /\ <<d, c>> \in usedAfter
<1>1. Inv /\ [Next]_vars => Evicts
  <2> SUFFICES ASSUME Inv, [Next]_vars, DOMAIN items' \ DOMAIN items # {},
                      NEW c \in DOMAIN items \ DOMAIN items', ~ Expired(items[c]),
                      NEW d \in DOMAIN items \ {c}
               PROVE  ~ Expired(items[d]) /\ <<d, c>> \in usedAfter
    OBVIOUS
  <2>1. PICK s \in Callers : FinishSet(s)
    BY OnlySetsAdd
  <2>2. c \in Gone(s)
    <3>1. DOMAIN items' = (DOMAIN items \ Gone(s)) \union {CodeOf(s)}
      BY <2>1, Finished
    <3> QED BY <3>1
  <2>3. c = Victim
    BY <2>2 DEF Gone
  <2>4. /\ (\E e \in DOMAIN items : Expired(items[e])) => Expired(items[Victim])
        /\ (\A e \in DOMAIN items : ~ Expired(items[e])) =>
             \A e \in DOMAIN items \ {Victim} : <<e, Victim>> \in usedAfter
    BY VictimChosen DEF Inv
  <2> QED BY <2>3, <2>4
<1>2. Inv /\ [Next]_vars => [Evicts]_vars
  BY <1>1
<1> QED BY <1>2, Invariance, PTL DEF Spec, EvictsLeastRecent

-----------------------------------------------------------------------------
(* The bounded cache                                                       *)

LEMMA LiveOrExpired ==
  ASSUME ListMatchesMap, NEW d \in DOMAIN items
  PROVE  Cache!Live(items[d]) <=> ~ Expired(items[d])
<1>1. items[d].expireAt \in Nat /\ clock \in Nat
  <2>1. items[d] \in Entries
    BY DEF ListMatchesMap, TypeOK
  <2> QED BY <2>1 DEF Entries, ListMatchesMap, TypeOK
<1> QED BY <1>1 DEF Cache!Live, Cache!Forever, Expired, Zero

\* Removing nothing changes nothing.
LEMMA RestrictAll ==
  ASSUME ListMatchesMap, NEW S, S \intersect DOMAIN items = {}
  PROVE  Restrict(items, DOMAIN items \ S) = items
<1>1. DOMAIN items \ S = DOMAIN items /\ items = [d \in DOMAIN items |-> items[d]]
  BY DEF ListMatchesMap, TypeOK
<1> QED BY <1>1 DEF Restrict

\* The two modules count alike.
LEMMA SameCount == \A S : Cache!Cardinality(S) = Cardinality(S)
BY DEF Cache!Cardinality, Cardinality

LEMMA GetLooksUp ==
  ASSUME ListMatchesMap, NEW c \in Codes, Get(c)
  PROVE  Cache!Lookup(c)
<1>1. CASE c \in DOMAIN items /\ ~ Expired(items[c])
  BY <1>1, LiveOrExpired DEF Get, Cache!Lookup
<1>2. CASE c \in DOMAIN items /\ Expired(items[c])
  BY <1>2, LiveOrExpired DEF Get, Removed, Restrict, Cache!Lookup, Cache!Restrict
<1>3. CASE c \notin DOMAIN items
  <2>1. Restrict(items, DOMAIN items \ {c}) = items
    BY <1>3, RestrictAll
  <2>2. Cache!Restrict(items, DOMAIN items \ {c}) = items
    BY <2>1 DEF Restrict, Cache!Restrict
  <2> QED BY <1>3, <2>2 DEF Get, Cache!Lookup
<1> QED BY <1>1, <1>2, <1>3

\* The entry that leaves is one that may.
LEMMA FinishSetPuts ==
  ASSUME Inv, NEW s \in Callers, FinishSet(s)
  PROVE  CodeOf(s) \in Codes /\ \E entry \in Cache!Entries : Cache!Put(CodeOf(s), entry)
<1> DEFINE c     == CodeOf(s)
           gone  == Gone(s)
           entry == setting[s].entry
<1>1. /\ c \in Codes /\ entry \in Entries
      /\ gone \subseteq DOMAIN items
      /\ items' = [d \in (DOMAIN items \ gone) \union {c} |->
                     IF d = c THEN entry ELSE items[d]]
      /\ clock' = clock /\ answer' = answer
  BY Finished
<1>2. entry.expireAt <= clock + MaxTTL
  BY DEF Inv, SetsBounded, FinishSet
<1>3. Full(c) <=> c \notin DOMAIN items /\ Cardinality(DOMAIN items) = MaxEntries
  BY RoomMade
<1>4. gone \in SUBSET Cache!Victims
  <2>1. CASE ~ Full(c)
    BY <2>1 DEF Gone
  <2>2. CASE Full(c)
    <3>1. DOMAIN items # {}
      BY <1>3, <2>2, FS_EmptySet
    <3>2. /\ Victim \in DOMAIN items
          /\ (\E d \in DOMAIN items : Expired(items[d])) => Expired(items[Victim])
      BY <3>1, VictimChosen DEF Inv
    <3>3. \A d \in DOMAIN items : Cache!Live(items[d]) <=> ~ Expired(items[d])
      BY LiveOrExpired DEF Inv
    <3>4. Victim \in Cache!Victims
      BY <3>2, <3>3 DEF Cache!Victims
    <3> QED BY <2>2, <3>4 DEF Gone
  <2> QED BY <2>1, <2>2
<1>5. IF c \notin DOMAIN items /\ Cardinality(DOMAIN items) = MaxEntries
      THEN Cardinality(gone) = 1
      ELSE gone = {}
  BY <1>3, FS_Singleton DEF Gone
<1>6. entry \in Cache!Entries
  BY <1>1 DEF Entries, Cache!Entries
<1> HIDE DEF c, gone, entry
<1>7. Cache!Put(c, entry)
  <2> SUFFICES \E g \in SUBSET Cache!Victims :
                 /\ IF c \notin DOMAIN items /\ Cardinality(DOMAIN items) = MaxEntries
                    THEN Cardinality(g) = 1
                    ELSE g = {}
                 /\ items' = [d \in (DOMAIN items \ g) \union {c} |->
                                IF d = c THEN entry ELSE items[d]]
    BY <1>1, <1>2, SameCount DEF Cache!Put
  <2> WITNESS gone \in SUBSET Cache!Victims
  <2> QED BY <1>1, <1>5
<1> QED BY <1>1, <1>6, <1>7 DEF c

\* Every operation is one of the bounded cache, or none: a Set takes effect under
\* the mutex, with the expiry it read the clock for before.
THEOREM IsBoundedCache == Spec => ImplementsBoundedCache
<1>1. Init => Cache!Init
  BY DEF Init, Cache!Init
<1>2. Inv /\ [Next]_vars => [Cache!Next]_Cache!bcVars
  <2> SUFFICES ASSUME Inv, [Next]_vars PROVE [Cache!Next]_Cache!bcVars
    OBVIOUS
  <2>1. CASE Tick
    BY <2>1 DEF Tick, Cache!Tick, Cache!Next
  <2>2. CASE \E c \in Codes : Get(c)
    BY <2>2, GetLooksUp DEF Inv, Cache!Next
  <2>3. CASE \E s \in Callers, c \in Codes, v \in Values, ttl \in 0..MaxTTL :
               StartSet(s, c, v, ttl)
    BY <2>3 DEF StartSet, Cache!bcVars
  <2>4. CASE \E s \in Callers : FinishSet(s)
    BY <2>4, FinishSetPuts DEF Cache!Next
  <2>5. CASE \E codes \in SUBSET Codes \ {{}} : Delete(codes)
    BY <2>5 DEF Delete, Removed, Restrict, Cache!Drop, Cache!Restrict, Cache!Next
  <2>6. CASE UNCHANGED vars
    BY <2>6 DEF vars, Cache!bcVars
  <2> QED BY <2>1, <2>2, <2>3, <2>4, <2>5, <2>6 DEF Next
<1> QED BY <1>1, <1>2, Invariance, PTL DEF Spec, ImplementsBoundedCache, Cache!Spec
=============================================================================
