---------------------------- MODULE LocalCache ----------------------------
(***************************************************************************)
(* The in-process LRU cache (internal/infrastructure/cache/local.go): a    *)
(* map from codes to entries and a list of the same entries, most recently *)
(* used first, under one mutex.  Set reads the clock before it takes the   *)
(* mutex, so Sets may come in with the clock readings of earlier moments.  *)
(***************************************************************************)
EXTENDS Naturals, FiniteSets, SequencesExt

CONSTANTS
  Codes,
  Values,      \* contents of a link
  Callers,     \* goroutines inside Set
  MaxEntries,  \* Local.maxEntries
  MaxTTL,      \* bound: the longest TTL asked for
  MaxTime,     \* bound: the clock stops here
  Miss,        \* what Get answers when it has nothing
  NoSet        \* a caller that is not inside Set

ASSUME CacheAssumption ==
  /\ MaxEntries \in Nat \ {0} /\ MaxTTL \in Nat /\ MaxTime \in Nat \ {0}
  /\ Miss \notin Values

VARIABLES
  clock,
  items,       \* Local.items, and the entries its elements hold
  lru,         \* Local.lru, front first
  setting,     \* Sets that have read the clock and wait for the mutex
  answer,      \* what the last Get returned
  usedAfter    \* history: <<c, d>> when c was used after d

vars == <<clock, items, lru, setting, answer, usedAfter>>

Zero    == 0                          \* the zero time: no expiry
Entries == [value : Values, expireAt : 0..(MaxTime + MaxTTL)]

TypeOK ==
  /\ clock \in 1..MaxTime
  /\ DOMAIN items \subseteq Codes /\ items \in [DOMAIN items -> Entries]
  /\ lru \in Seq(Codes) /\ Len(lru) <= MaxEntries
  /\ setting \in [Callers -> [code : Codes, entry : Entries] \union {NoSet}]
  /\ answer \in Values \union {Miss}
  /\ usedAfter \subseteq Codes \X Codes

Init ==
  /\ clock = 1
  /\ items = <<>> /\ lru = <<>>
  /\ setting = [s \in Callers |-> NoSet]
  /\ answer = Miss
  /\ usedAfter = {}

-----------------------------------------------------------------------------
(* Helpers                                                                 *)

\* Wrong on purpose: an entry expires after its last moment.
ExpiredLate(entry) == entry.expireAt # Zero /\ entry.expireAt < clock

Expired(entry) == entry.expireAt # Zero /\ entry.expireAt <= clock

\* How many of K are up to i, and which is the k-th of K.
Rank(K, i) == Cardinality({j \in K : j <= i})
Nth(K, k)  == CHOOSE i \in K : Rank(K, i) = k

\* The list without the elements of S: its k-th element is the k-th one kept.
Without(S) == LET kept == {i \in DOMAIN lru : lru[i] \notin S}
              IN  [k \in 1..Cardinality(kept) |-> lru[Nth(kept, k)]]

\* Wrong on purpose: a hit does not move the element.
MovedToFrontNot(c, gone) == IF c \in ToSet(lru) THEN lru ELSE <<c>> \o Without(gone)

\* MoveToFront, and PushFront of a new element when those of gone have left.
MovedToFront(c, gone) == <<c>> \o Without({c} \union gone)

\* Wrong on purpose: the element stays in the list.
RemovedFromMap(S) == /\ items' = Restrict(items, DOMAIN items \ S)
                     /\ UNCHANGED lru

\* removeElementLocked, for each of S.
Removed(S) == /\ items' = Restrict(items, DOMAIN items \ S)
              /\ lru' = Without(S)

\* evictOneLocked: the first expired element from the back, or the last one.
Victim == LET dead == {i \in DOMAIN lru : Expired(items[lru[i]])}
          IN  IF dead # {} THEN lru[Max(dead)] ELSE Last(lru)

\* Set has to make room.
Full(c) == c \notin DOMAIN items /\ Cardinality(DOMAIN items) >= MaxEntries

Used(c) ==
  usedAfter' = {p \in usedAfter : p[2] # c} \union {<<c, d>> : d \in Codes \ {c}}

-----------------------------------------------------------------------------
(* Operations                                                              *)

Tick == /\ clock < MaxTime
        /\ clock' = clock + 1
        /\ UNCHANGED <<items, lru, setting, answer, usedAfter>>

\* Get
Get(c) ==
  /\ \/ /\ c \in DOMAIN items /\ ~ Expired(items[c])
        /\ lru' = MovedToFront(c, {})
        /\ answer' = items[c].value
        /\ Used(c)
        /\ UNCHANGED items
     \/ /\ c \in DOMAIN items /\ Expired(items[c])
        /\ Removed({c})
        /\ answer' = Miss
        /\ UNCHANGED usedAfter
     \/ /\ c \notin DOMAIN items
        /\ answer' = Miss
        /\ UNCHANGED <<items, lru, usedAfter>>
  /\ UNCHANGED <<clock, setting>>

\* Set computes the expiry; a TTL that is not positive means none.
StartSet(s, c, v, ttl) ==
  /\ setting[s] = NoSet
  /\ LET entry == [value |-> v, expireAt |-> IF ttl > 0 THEN clock + ttl ELSE Zero]
     IN  setting' = [setting EXCEPT ![s] = [code |-> c, entry |-> entry]]
  /\ UNCHANGED <<clock, items, lru, answer, usedAfter>>

\* Set under the mutex.
FinishSet(s) ==
  /\ setting[s] # NoSet
  /\ LET c    == setting[s].code
         gone == IF Full(c) THEN {Victim} ELSE {}
     IN  /\ items' = [d \in (DOMAIN items \ gone) \union {c} |->
                        IF d = c THEN setting[s].entry ELSE items[d]]
         /\ lru' = MovedToFront(c, gone)
         /\ Used(c)
  /\ setting' = [setting EXCEPT ![s] = NoSet]
  /\ UNCHANGED <<clock, answer>>

\* Delete
Delete(codes) == /\ Removed(codes)
                 /\ UNCHANGED <<clock, setting, answer, usedAfter>>

-----------------------------------------------------------------------------
Next == \/ Tick
        \/ \E c \in Codes : Get(c)
        \/ \E s \in Callers, c \in Codes, v \in Values, ttl \in 0..MaxTTL :
             StartSet(s, c, v, ttl)
        \/ \E s \in Callers : FinishSet(s)
        \/ \E codes \in SUBSET Codes \ {{}} : Delete(codes)

Spec == Init /\ [][Next]_vars

-----------------------------------------------------------------------------
(* Properties                                                              *)

\* The map and the list hold the same codes, each once: no operation updates one
\* without the other, although the list is edited in several places
\* (removeElementLocked, MoveToFront, PushFront), and there are never more than
\* maxEntries.
ListMatchesMap == TypeOK /\ ToSet(lru) = DOMAIN items /\ IsInjective(lru)

\* A Set that makes room takes an expired entry if there is one, and otherwise
\* the one whose last hit or Set lies furthest back (evictOneLocked,
\* TestLocalCacheEvictsLeastRecentlyUsed).
EvictsLeastRecent ==
  [][DOMAIN items' \ DOMAIN items # {} =>
       \A c \in DOMAIN items \ DOMAIN items' :
         \/ Expired(items[c])
         \/ \A d \in DOMAIN items \ {c} : /\ ~ Expired(items[d])
                                         /\ <<d, c>> \in usedAfter]_vars

Cache == INSTANCE BoundedCache WITH store <- items

\* The cache is the bounded cache the services rely on: whatever callers race,
\* a Get answers the Set that had the mutex last, even one that read the clock before
\* another, never an expired entry, and no entry disappears but by Delete, expiry or
\* for want of room.
ImplementsBoundedCache == Cache!Spec
=============================================================================
