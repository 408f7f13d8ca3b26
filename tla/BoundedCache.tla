--------------------------- MODULE BoundedCache ---------------------------
(***************************************************************************)
(* What the services may rely on when they use the in-process cache        *)
(* (linkapp.Cache as cache.Local provides it): a lookup answers what was   *)
(* put last, unless that has been deleted, has outlived its TTL or had to  *)
(* make room for another code.  Room is made one entry at a time, only in  *)
(* a full cache, and at the cost of a live entry only if all are live.     *)
(***************************************************************************)
EXTENDS Naturals, FiniteSets, Functions

CONSTANTS Codes, Values, MaxEntries, MaxTTL, MaxTime, Miss

VARIABLES clock, store, answer

bcVars == <<clock, store, answer>>

Forever == 0

Live(entry) == entry.expireAt = Forever \/ entry.expireAt > clock

Init == clock = 1 /\ store = <<>> /\ answer = Miss

Tick == /\ clock < MaxTime
        /\ clock' = clock + 1
        /\ UNCHANGED <<store, answer>>

\* Whom a new code may cost its place.
Victims == LET dead == {d \in DOMAIN store : ~ Live(store[d])}
           IN  IF dead # {} THEN dead ELSE DOMAIN store

\* No entry outlives the longest TTL.
Put(code, entry) ==
  /\ entry.expireAt <= clock + MaxTTL
  /\ \E gone \in SUBSET Victims :
       /\ IF code \notin DOMAIN store /\ Cardinality(DOMAIN store) = MaxEntries
          THEN Cardinality(gone) = 1
          ELSE gone = {}
       /\ store' = [d \in (DOMAIN store \ gone) \union {code} |->
                      IF d = code THEN entry ELSE store[d]]
  /\ UNCHANGED <<clock, answer>>

Lookup(code) ==
  /\ \/ /\ code \in DOMAIN store /\ Live(store[code])
        /\ answer' = store[code].value
        /\ UNCHANGED store
     \/ /\ ~ (code \in DOMAIN store /\ Live(store[code]))
        /\ answer' = Miss
        /\ store' = Restrict(store, DOMAIN store \ {code})
  /\ UNCHANGED clock

Drop(codes) == /\ store' = Restrict(store, DOMAIN store \ codes)
               /\ UNCHANGED <<clock, answer>>

Entries == [value : Values, expireAt : 0..(MaxTime + MaxTTL)]

Next == \/ Tick
        \/ \E code \in Codes : Lookup(code) \/ \E entry \in Entries : Put(code, entry)
        \/ \E codes \in SUBSET Codes : Drop(codes)

Spec == Init /\ [][Next]_bcVars
=============================================================================
