-------------------------- MODULE RedisBloomProofs --------------------------
(***************************************************************************)
(* Proofs about RedisBloom, for any set of codes, any number of            *)
(* overlapping rebuilds, any number of tables and any page size.           *)
(*                                                                         *)
(* The invariant is proved in three layers, each using the ones before it: *)
(* the types and the phase of each listing (TypeInv); what an Add and the  *)
(* listing have put into the key of the rebuild that holds the marker      *)
(* (DoubleWrite and ListingInv); what the live key contains.  With it      *)
(* every step is one of ExistenceFilter or leaves its variables alone.     *)
(***************************************************************************)
EXTENDS RedisBloom, FiniteSetTheorems, TLAPS

\* Where the cursor may be in each phase of a listing.
PhaseOK ==
  \A r \in Runs :
    /\ run[r] \in {"idle", "reserve"} => shard[r] = 0 /\ lastID[r] = 0
    /\ run[r] \in {"query", "add"} => shard[r] < ShardCount
    /\ run[r] = "finish" => shard[r] = ShardCount

\* An Add that is about to write a temporary key has the name of one.
TargetOK == \A c \in Codes : pc[c] = "addTemp" => target[c] \in Runs

TypeInv == TypeOK /\ PhaseOK /\ TargetOK

\* A page that has been read holds every row the listing still owes the table,
\* or is full and holds the first of them.
PageComplete ==
  \A r \in Runs : run[r] = "add" =>
    \A c \in base[r] :
      Active(c) /\ ShardIndex(c) = shard[r] /\ c > lastID[r] =>
        \/ c \in page[r]
        \/ ~ LastPage(page[r]) /\ \A d \in page[r] : d < c

ListingInv == PageComplete /\ ListingComplete

-----------------------------------------------------------------------------
\* A code belongs to one of the tables (ShardIndexFromCode).
LEMMA ShardIndexRange ==
  ASSUME NEW c \in Codes
  PROVE  ShardIndex(c) \in 0..(ShardCount - 1)
<1>1. c \in Nat /\ ShardCount \in Nat \ {0}
  BY CodesAssumption, SizesAssumption
<1> QED
  BY <1>1 DEF ShardIndex

\* A row is still active after a step only if it was before, or has just been
\* inserted: deleted and expired rows do not come back.
LEMMA ActiveStable ==
  ASSUME TypeInv, [Next]_vars, NEW c \in Codes, Active(c)', pc[c] # "idle"
  PROVE  Active(c)
<1> USE SizesAssumption DEF Active, TypeInv, TypeOK, Never
<1>1. CASE Tick
  BY <1>1 DEF Tick
<1>2. ASSUME NEW d \in Codes, Purge(d) PROVE Active(c)
  BY <1>2 DEF Purge
<1>3. ASSUME NEW d \in Codes, Insert(d) PROVE Active(c)
  BY <1>3 DEF Insert
<1>4. CASE UNCHANGED dbVars
  BY <1>4 DEF dbVars
<1>5. QED
  BY <1>1, <1>2, <1>3, <1>4 DEF Next, CreatorStep, RunStep, ReadMarker, AddMain,
     AddTemp, AddFails, SetMarker, Reserve, QueryPage, AddPage, ListingFails,
     DelTemp, DelMarker, FinishRebuild, Crash, RedisLost, vars

-----------------------------------------------------------------------------
(* Types and phases                                                        *)

\* The initial state is well typed.
LEMMA TypeInit == Init => TypeInv
BY SizesAssumption, KeysAssumption
   DEF Init, TypeInv, TypeOK, PhaseOK, TargetOK, Creating, Running, Never, Keys

\* Every step keeps the types, the phases and the targets.
LEMMA TypeStep == TypeInv /\ [Next]_vars => TypeInv'
<1> SUFFICES ASSUME TypeInv, [Next]_vars PROVE TypeInv'
  OBVIOUS
<1> USE CodesAssumption, SizesAssumption, KeysAssumption
    DEF TypeInv, TypeOK, PhaseOK, TargetOK, Creating, Running, Never, Keys,
        dbVars, addVars, redisVars, runVars
<1>1. CASE UNCHANGED vars
  BY <1>1 DEF vars
<1>2. CASE Tick
  BY <1>2 DEF Tick
<1>3. ASSUME NEW c \in Codes, Purge(c) PROVE TypeInv'
  BY <1>3 DEF Purge
<1>4. ASSUME NEW c \in Codes, Insert(c) PROVE TypeInv'
  BY <1>4 DEF Insert
<1>5. ASSUME NEW c \in Codes, ReadMarker(c) PROVE TypeInv'
  BY <1>5 DEF ReadMarker, AddKeys
<1>6. ASSUME NEW c \in Codes, AddMain(c) PROVE TypeInv'
  BY <1>6 DEF AddMain
<1>7. ASSUME NEW c \in Codes, AddTemp(c) PROVE TypeInv'
  BY <1>7 DEF AddTemp
<1>8. ASSUME NEW c \in Codes, AddFails(c) PROVE TypeInv'
  BY <1>8 DEF AddFails
<1>9. ASSUME NEW r \in Runs, SetMarker(r) PROVE TypeInv'
  <2>1. rows \in SUBSET {c \in Codes : pc[c] # "idle"}
    OBVIOUS
  <2>2. CASE Leave(r, "returned")
    BY <1>9, <2>2 DEF SetMarker, Leave
  <2>3. CASE run' = [run EXCEPT ![r] = "reserve"]
    <3>1. /\ base' = [base EXCEPT ![r] = rows]
          /\ UNCHANGED <<shard, lastID, page, started>>
      BY <1>9, <2>3 DEF SetMarker, Leave
    <3> QED
      BY <1>9, <2>1, <2>3, <3>1 DEF SetMarker
  <2> QED
    BY <1>9, <2>2, <2>3 DEF SetMarker
<1>10. ASSUME NEW r \in Runs, Reserve(r) PROVE TypeInv'
  BY <1>10 DEF Reserve, Leave
<1>11. ASSUME NEW r \in Runs, QueryPage(r) PROVE TypeInv'
  <2>1. PICK p \in FirstRows(PageSource(r)) :
          IF p = {}
          THEN NextShard(r) /\ UNCHANGED page
          ELSE /\ page' = [page EXCEPT ![r] = p]
               /\ run' = [run EXCEPT ![r] = "add"]
               /\ UNCHANGED <<shard, lastID>>
    BY <1>11 DEF QueryPage
  <2>2. p \in SUBSET Codes
    BY <2>1 DEF FirstRows, PageSource
  <2>3. CASE p = {}
    BY <1>11, <2>1, <2>3 DEF QueryPage, NextShard
  <2>4. CASE p # {}
    <3>1. /\ page' = [page EXCEPT ![r] = p]
          /\ run' = [run EXCEPT ![r] = "add"]
          /\ UNCHANGED <<shard, lastID>>
      BY <2>1, <2>4
    <3>2. run[r] = "query" /\ UNCHANGED <<dbVars, addVars, redisVars, started, base, lost>>
      BY <1>11 DEF QueryPage
    <3>3. page' \in [Runs -> SUBSET Codes] /\ run' \in [Runs -> Running]
      BY <2>2, <3>1
    <3> QED
      BY <3>1, <3>2, <3>3
  <2> QED
    BY <2>3, <2>4
<1>12. ASSUME NEW r \in Runs, AddPage(r) PROVE TypeInv'
  BY <1>12 DEF AddPage, NextShard
<1>13. ASSUME NEW r \in Runs, ListingFails(r) PROVE TypeInv'
  BY <1>13 DEF ListingFails, Leave
<1>14. ASSUME NEW r \in Runs, DelTemp(r) PROVE TypeInv'
  BY <1>14 DEF DelTemp, Leave
<1>15. ASSUME NEW r \in Runs, DelMarker(r) PROVE TypeInv'
  BY <1>15 DEF DelMarker, Leave
<1>16. ASSUME NEW r \in Runs, FinishRebuild(r) PROVE TypeInv'
  <2>1. UNCHANGED <<dbVars, addVars, losses>> /\ Leave(r, "returned")
    BY <1>16 DEF FinishRebuild
  <2>2. /\ marker' \in Runs \union {NoKey}
        /\ stored' \in [Keys -> SUBSET Codes]
        /\ lost' \subseteq Codes
    <3>1. CASE Install(r)
      <4>1. stored[r] \in SUBSET Codes /\ Straddling(r) \subseteq Codes
        BY DEF Straddling
      <4> QED
        BY <3>1, <4>1 DEF Install
    <3>2. CASE UNCHANGED <<stored, marker, lost>>
      BY <3>2
    <3> QED
      BY <1>16, <3>1, <3>2 DEF FinishRebuild
  <2>3. TypeOK'
    <3>1. /\ run' \in [Runs -> Running]
          /\ shard' \in [Runs -> 0..ShardCount]
          /\ lastID' \in [Runs -> Codes \union {0}]
          /\ page' \in [Runs -> SUBSET Codes]
          /\ started' \in [Runs -> 0..clock]
          /\ base' \in [Runs -> SUBSET {c \in Codes : pc[c] # "idle"}]
      BY <2>1 DEF Leave
    <3> QED
      BY <2>1, <2>2, <3>1
  <2>4. PhaseOK'
    BY <2>1 DEF Leave
  <2>5. TargetOK'
    BY <2>1
  <2> QED
    BY <2>3, <2>4, <2>5
<1>17. ASSUME NEW r \in Runs, Crash(r) PROVE TypeInv'
  BY <1>17 DEF Crash, Leave
<1>18. CASE RedisLost
  <2>1. losses' \in 0..MaxLosses
    BY <1>18 DEF RedisLost
  <2>2. stored' \in [Keys -> SUBSET Codes]
    BY <1>18 DEF RedisLost
  <2>3. lost' \subseteq Codes
    BY <1>18 DEF RedisLost, InMain
  <2>4. marker' = NoKey /\ UNCHANGED <<dbVars, addVars, runVars>>
    BY <1>18 DEF RedisLost
  <2> QED
    BY <2>1, <2>2, <2>3, <2>4
<1> QED
  BY <1>1, <1>2, <1>3, <1>4, <1>5, <1>6, <1>7, <1>8, <1>9, <1>10, <1>11, <1>12,
     <1>13, <1>14, <1>15, <1>16, <1>17, <1>18 DEF Next, CreatorStep, RunStep

\* Type correctness, for every instance.
THEOREM TypeCorrect == Spec => []TypeInv
BY TypeInit, TypeStep, PTL DEF Spec

-----------------------------------------------------------------------------
(* What has been written to the key of the rebuild that holds the marker    *)

\* The locals of a call of Rebuild are its own.
LEMMA LocalsStable ==
  ASSUME TypeInv, [Next]_vars, NEW r \in Runs, ~ RunStep(r), ~ Crash(r)
  PROVE  UNCHANGED <<run[r], shard[r], lastID[r], page[r], base[r]>>
<1>1. /\ run \in [Runs -> Running]
      /\ shard \in [Runs -> 0..ShardCount]
      /\ lastID \in [Runs -> Codes \union {0}]
      /\ page \in [Runs -> SUBSET Codes]
      /\ base \in [Runs -> SUBSET {d \in Codes : pc[d] # "idle"}]
  BY DEF TypeInv, TypeOK
<1>2. CASE UNCHANGED vars
  BY <1>2 DEF vars, runVars
<1>3. CASE Tick \/ RedisLost
  BY <1>3 DEF Tick, RedisLost, runVars
<1>4. ASSUME NEW c \in Codes, Purge(c) \/ CreatorStep(c)
      PROVE  UNCHANGED runVars
  BY <1>4 DEF Purge, CreatorStep, Insert, ReadMarker, AddMain, AddTemp, AddFails
<1>5. ASSUME NEW q \in Runs, q # r, RunStep(q) \/ Crash(q)
      PROVE  UNCHANGED <<run[r], shard[r], lastID[r], page[r], base[r]>>
  <2>1. CASE SetMarker(q)
    BY <1>1, <1>5, <2>1 DEF SetMarker, Leave
  <2>2. CASE Reserve(q)
    BY <1>1, <1>5, <2>2 DEF Reserve, Leave
  <2>3. CASE QueryPage(q)
    BY <1>1, <1>5, <2>3 DEF QueryPage, NextShard
  <2>4. CASE AddPage(q)
    BY <1>1, <1>5, <2>4 DEF AddPage, NextShard
  <2>5. CASE Leave(q, "delTemp") \/ Leave(q, "delMarker") \/ Leave(q, "returned")
    BY <1>1, <1>5, <2>5 DEF Leave
  <2> QED
    BY <1>5, <2>1, <2>2, <2>3, <2>4, <2>5
       DEF RunStep, ListingFails, DelTemp, DelMarker, FinishRebuild, Crash
<1> QED
  BY <1>2, <1>3, <1>4, <1>5 DEF Next, runVars

\* A rebuild that goes on listing while it holds the marker has held it since it
\* set it, and nothing has been taken out of its key: another rebuild that fails
\* may only delete the marker, and its own key.
LEMMA TempGrows ==
  ASSUME TypeInv, [Next]_vars, NEW r \in Runs, Listing(r)', marker' = r,
         ~ SetMarker(r)
  PROVE  marker = r /\ Listing(r) /\ stored[r] \subseteq stored'[r]
<1> USE KeysAssumption DEF Listing
<1>1. r \in Keys /\ r # Main /\ r # NoKey
  BY DEF Keys
<1>2. /\ target \in [Codes -> Runs \union {NoKey}]
      /\ stored \in [Keys -> SUBSET Codes]
      /\ run \in [Runs -> Running]
  BY DEF TypeInv, TypeOK
<1>3. CASE UNCHANGED vars
  BY <1>3 DEF vars, redisVars, runVars
<1>4. CASE Tick
  BY <1>4 DEF Tick, redisVars, runVars
<1>5. ASSUME NEW c \in Codes, Purge(c) \/ CreatorStep(c)
      PROVE  marker = r /\ Listing(r) /\ stored[r] \subseteq stored'[r]
  <2>1. UNCHANGED <<marker, run>>
    BY <1>5 DEF Purge, CreatorStep, Insert, ReadMarker, AddMain, AddTemp,
       AddFails, redisVars, runVars
  <2>2. CASE AddMain(c)
    BY <1>1, <1>2, <2>1, <2>2 DEF AddMain
  <2>3. CASE AddTemp(c) \/ AddFails(c)
    BY <1>1, <1>2, <2>1, <2>3 DEF AddTemp, AddFails, Keys
  <2>4. CASE Purge(c) \/ Insert(c) \/ ReadMarker(c)
    BY <2>1, <2>4 DEF Purge, Insert, ReadMarker, redisVars
  <2> QED
    BY <1>5, <2>2, <2>3, <2>4 DEF CreatorStep
<1>6. ASSUME NEW q \in Runs, RunStep(q) \/ Crash(q), ~ SetMarker(r)
      PROVE  marker = r /\ Listing(r) /\ stored[r] \subseteq stored'[r]
  <2>1. CASE SetMarker(q)
    BY <1>2, <1>6, <2>1 DEF SetMarker, Leave
  <2>2. CASE Reserve(q)
    BY <1>2, <2>2 DEF Reserve, Leave, redisVars
  <2>3. CASE QueryPage(q)
    BY <1>2, <2>3 DEF QueryPage, NextShard, redisVars
  <2>4. CASE AddPage(q)
    <3>1. stored[r] \subseteq stored'[r]
      BY <1>1, <1>2, <2>4 DEF AddPage
    <3> QED
      BY <1>2, <2>4, <3>1 DEF AddPage, NextShard
  <2>5. CASE ListingFails(q) \/ DelTemp(q)
    <3>1. q # r /\ run'[r] = run[r] /\ UNCHANGED marker
      BY <1>2, <2>5 DEF ListingFails, DelTemp, Leave
    <3>2. stored'[r] = stored[r]
      BY <1>1, <1>2, <2>5, <3>1 DEF ListingFails, DelTemp
    <3> QED
      BY <3>1, <3>2
  <2>6. CASE DelMarker(q) \/ Crash(q)
    BY <1>1, <1>2, <2>6 DEF DelMarker, Crash, Leave, redisVars
  <2>7. CASE FinishRebuild(q)
    BY <1>1, <1>2, <2>7 DEF FinishRebuild, Install, Leave
  <2> QED
    BY <1>6, <2>1, <2>2, <2>3, <2>4, <2>5, <2>6, <2>7 DEF RunStep
<1>7. CASE RedisLost
  BY <1>1, <1>7 DEF RedisLost
<1> QED
  BY <1>3, <1>4, <1>5, <1>6, <1>7 DEF Next

\* The double write of Add keeps up with the rebuild in charge.
LEMMA DoubleWriteStep ==
  TypeInv /\ DoubleWrite /\ [Next]_vars => DoubleWrite'
<1> SUFFICES ASSUME TypeInv, DoubleWrite, [Next]_vars,
                    NEW r \in Runs, Listing(r)', marker' = r,
                    NEW c \in Codes, Active(c)',
                    pc'[c] \in {"addMain", "addTemp", "acked"}
             PROVE  \/ c \in base'[r]
                    \/ pc'[c] = "acked" /\ c \in stored'[r]
                    \/ pc'[c] # "acked" /\ target'[c] = r
  BY DEF DoubleWrite
<1> DEFINE Goal == \/ c \in base'[r]
                   \/ pc'[c] = "acked" /\ c \in stored'[r]
                   \/ pc'[c] # "acked" /\ target'[c] = r
<1>1. r \in Keys /\ r # NoKey
  BY KeysAssumption DEF Keys
<1>2. /\ pc \in [Codes -> Creating]
      /\ target \in [Codes -> Runs \union {NoKey}]
      /\ stored \in [Keys -> SUBSET Codes]
      /\ run \in [Runs -> Running]
      /\ base \in [Runs -> SUBSET {d \in Codes : pc[d] # "idle"}]
  BY DEF TypeInv, TypeOK
<1>3. CASE SetMarker(r)
  <2>1. base'[r] = rows
    BY <1>2, <1>3 DEF SetMarker, Leave, Listing
  <2> QED
    BY <1>3, <2>1 DEF SetMarker, Active, dbVars
<1>4. CASE ~ SetMarker(r)
  <2>1. marker = r /\ Listing(r) /\ stored[r] \subseteq stored'[r]
    BY <1>4, TempGrows
  <2>2. base'[r] = base[r]
    <3>1. CASE ~ RunStep(r) /\ ~ Crash(r)
      BY <3>1, LocalsStable
    <3>2. CASE RunStep(r) \/ Crash(r)
      BY <1>2, <1>4, <3>2 DEF RunStep, Reserve, QueryPage, AddPage, ListingFails,
         DelTemp, DelMarker, FinishRebuild, Crash, Leave, Listing
    <3> QED
      BY <3>1, <3>2
  <2>3. ASSUME pc'[c] = pc[c], target'[c] = target[c] PROVE Goal
    <3>1. Active(c)
      BY <2>3, ActiveStable
    <3> QED
      BY <2>1, <2>2, <2>3, <3>1 DEF DoubleWrite
  <2>4. ASSUME NEW d \in Codes, CreatorStep(d) PROVE Goal
    <3>1. CASE d # c
      BY <1>2, <2>3, <2>4, <3>1
         DEF CreatorStep, Insert, ReadMarker, AddMain, AddTemp, AddFails
    <3>2. CASE Insert(c) \/ AddFails(c)
      BY <1>2, <3>2 DEF Insert, AddFails
    <3>3. CASE ReadMarker(c)
      BY <1>2, <2>1, <3>3 DEF ReadMarker, AddKeys
    <3>4. CASE AddMain(c) \/ AddTemp(c)
      <4>1. c \in base[r] \/ target[c] = r
        <5>1. pc[c] \in {"addMain", "addTemp"} /\ Active(c)
          BY <3>4, ActiveStable DEF AddMain, AddTemp
        <5> QED
          BY <2>1, <5>1 DEF DoubleWrite
      <4>2. CASE AddMain(c)
        BY <1>1, <1>2, <2>2, <4>1, <4>2 DEF AddMain
      <4>3. CASE AddTemp(c)
        BY <1>1, <1>2, <2>2, <4>1, <4>3 DEF AddTemp
      <4> QED
        BY <3>4, <4>2, <4>3
    <3> QED
      BY <2>4, <3>1, <3>2, <3>3, <3>4 DEF CreatorStep
  <2>5. CASE \A d \in Codes : ~ CreatorStep(d)
    <3>1. UNCHANGED <<pc, target>>
      BY <2>5 DEF Next, Tick, Purge, RunStep, SetMarker, Reserve, QueryPage,
         AddPage, ListingFails, DelTemp, DelMarker, FinishRebuild, Crash,
         RedisLost, vars, addVars
    <3> QED
      BY <2>3, <3>1
  <2> QED
    BY <2>4, <2>5
<1> QED
  BY <1>3, <1>4

\* Between the SELECT of a page and its BF.MADD, rows can only leave the table
\* or come in after the rebuild set its marker: the page stays complete.
LEMMA PageStep == TypeInv /\ PageComplete /\ [Next]_vars => PageComplete'
<1> SUFFICES ASSUME TypeInv, PageComplete, [Next]_vars,
                    NEW r \in Runs, run'[r] = "add",
                    NEW c \in base'[r], Active(c)', ShardIndex(c) = shard'[r],
                    c > lastID'[r]
             PROVE  \/ c \in page'[r]
                    \/ ~ LastPage(page'[r]) /\ \A d \in page'[r] : d < c
  BY DEF PageComplete
<1>1. /\ run \in [Runs -> Running]
      /\ page \in [Runs -> SUBSET Codes]
      /\ base \in [Runs -> SUBSET {d \in Codes : pc[d] # "idle"}]
      /\ started \in [Runs -> 0..clock]
      /\ clock \in Nat /\ expireAt \in [Codes -> Nat]
  BY SizesAssumption DEF TypeInv, TypeOK, Never
<1>2. CASE ~ RunStep(r) /\ ~ Crash(r)
  <2>1. UNCHANGED <<run[r], shard[r], lastID[r], page[r], base[r]>>
    BY <1>2, LocalsStable
  <2>2. Active(c)
    BY <1>1, <2>1, ActiveStable
  <2> QED
    BY <2>1, <2>2 DEF PageComplete
<1>3. CASE QueryPage(r)
  <2>1. PICK p \in FirstRows(PageSource(r)) :
          IF p = {}
          THEN NextShard(r) /\ UNCHANGED page
          ELSE /\ page' = [page EXCEPT ![r] = p]
               /\ run' = [run EXCEPT ![r] = "add"]
               /\ UNCHANGED <<shard, lastID>>
    BY <1>3 DEF QueryPage
  <2>2. page'[r] = p /\ UNCHANGED <<shard, lastID, base, dbVars>>
    BY <1>1, <1>3, <2>1 DEF QueryPage, NextShard
  <2>3. c \in Codes /\ Active(c)
    BY <1>1, <2>2 DEF Active, dbVars
  <2>4. c \in PageSource(r)
    BY <1>1, <2>2, <2>3 DEF PageSource, Active
  <2>5. \A d \in p : c < d => c \in p
    BY <2>1, <2>4 DEF FirstRows
  <2>6. c \in p \/ ~ LastPage(p)
    BY <2>1, <2>4, SizesAssumption DEF FirstRows, LastPage
  <2>7. \A d \in p : d \in Nat /\ c \in Nat
    BY <2>1, <2>3, CodesAssumption DEF FirstRows, PageSource, TypeInv, TypeOK
  <2> QED
    BY <2>2, <2>5, <2>6, <2>7
<1>4. CASE ~ QueryPage(r) /\ (RunStep(r) \/ Crash(r))
  BY <1>1, <1>4 DEF RunStep, SetMarker, Reserve, AddPage, NextShard,
     ListingFails, DelTemp, DelMarker, FinishRebuild, Crash, Leave
<1> QED
  BY <1>2, <1>3, <1>4

\* The listing misses no row that was there from the start and is still active.
LEMMA ListingStep ==
  TypeInv /\ ListingInv /\ [Next]_vars => ListingComplete'
<1> SUFFICES ASSUME TypeInv, ListingInv, [Next]_vars,
                    NEW r \in Runs, Listing(r)', marker' = r,
                    NEW c \in base'[r], Active(c)', Passed(r, c)'
             PROVE  c \in stored'[r]
  BY DEF ListingComplete
<1>1. /\ run \in [Runs -> Running]
      /\ shard \in [Runs -> 0..ShardCount]
      /\ lastID \in [Runs -> Codes \union {0}]
      /\ page \in [Runs -> SUBSET Codes]
      /\ stored \in [Keys -> SUBSET Codes]
      /\ base \in [Runs -> SUBSET {d \in Codes : pc[d] # "idle"}]
      /\ rows \subseteq Codes
      /\ r \in Keys
  BY DEF TypeInv, TypeOK, Keys
<1>2. /\ ShardCount \in Nat \ {0}
      /\ Codes \subseteq Nat \ {0}
      /\ shard[r] \in Nat
      /\ lastID[r] \in Nat
      /\ \A d \in page[r] : d \in Nat
  <2>1. Codes \subseteq Nat \ {0} /\ ShardCount \in Nat \ {0}
    BY CodesAssumption, SizesAssumption
  <2>2. /\ shard[r] \in 0..ShardCount
        /\ lastID[r] \in Codes \union {0}
        /\ page[r] \subseteq Codes
    BY <1>1
  <2>3. shard[r] \in Nat
    BY <2>1, <2>2
  <2>4. lastID[r] \in Nat
    <3>1. lastID[r] \in Codes => lastID[r] \in Nat
      BY <2>1
    <3>2. lastID[r] = 0 \/ lastID[r] \in Codes
      BY <2>2
    <3> QED
      BY <3>1, <3>2
  <2>5. \A d \in page[r] : d \in Nat
    BY <2>1, <2>2
  <2> QED
    BY <2>1, <2>3, <2>4, <2>5
<1>3. CASE SetMarker(r)
  <2>1. /\ base'[r] = rows
        /\ shard'[r] = 0
        /\ lastID'[r] = 0
    BY <1>1, <1>3 DEF SetMarker, Leave, Listing, TypeInv, PhaseOK
  <2>2. c \in Codes /\ ShardIndex(c) \in Nat
    BY <1>1, <2>1, ShardIndexRange, SizesAssumption
  <2> QED
    BY <1>2, <2>1, <2>2 DEF Passed
<1>4. CASE ~ SetMarker(r)
  <2>1. marker = r /\ Listing(r) /\ stored[r] \subseteq stored'[r]
    BY <1>4, TempGrows
  <2>2. ASSUME c \in base[r], Active(c), Passed(r, c) PROVE c \in stored'[r]
    BY <2>1, <2>2 DEF ListingInv, ListingComplete
  <2>3. CASE ~ RunStep(r) /\ ~ Crash(r)
    <3>1. UNCHANGED <<shard[r], lastID[r], base[r]>>
      BY <2>3, LocalsStable
    <3>2. Active(c)
      BY <1>1, <3>1, ActiveStable
    <3> QED
      BY <2>2, <3>1, <3>2 DEF Passed
  <2>4. CASE RunStep(r) \/ Crash(r)
    <3>1. base'[r] = base[r] /\ UNCHANGED dbVars
      BY <1>1, <1>4, <2>4 DEF RunStep, Reserve, QueryPage, AddPage, ListingFails,
         DelTemp, DelMarker, FinishRebuild, Crash, Leave, Listing
    <3>2. c \in base[r] /\ Active(c) /\ c \in Codes /\ c \in Nat \ {0}
      BY <1>1, <1>2, <3>1 DEF Active, dbVars
    <3>3. ShardIndex(c) \in Nat
      BY <1>2, <3>2, ShardIndexRange
    \* The table is done: whatever it held for r is before the cursor, or in
    \* the last page, p.
    <3>4. ASSUME NextShard(r), ~ Passed(r, c)
          PROVE  ShardIndex(c) = shard[r] /\ c > lastID[r]
      <4>1. shard'[r] = shard[r] + 1 /\ lastID'[r] = 0
        BY <1>1, <3>4 DEF NextShard
      <4>2. \/ ShardIndex(c) < shard[r] + 1
            \/ ShardIndex(c) = shard[r] + 1 /\ c <= 0
        BY <4>1 DEF Passed
      <4> QED
        BY <1>2, <3>2, <3>3, <3>4, <4>2 DEF Passed
    <3>5. CASE Reserve(r)
      <4>1. UNCHANGED <<shard, lastID>>
        BY <1>1, <3>5 DEF Reserve, Leave, Listing
      <4> QED
        BY <2>2, <3>2, <4>1 DEF Passed
    <3>6. CASE QueryPage(r)
      <4>1. PICK p \in FirstRows(PageSource(r)) :
              IF p = {} THEN NextShard(r) ELSE UNCHANGED <<shard, lastID>>
        BY <3>6 DEF QueryPage
      <4>2. CASE p # {}
        BY <2>2, <3>2, <4>1, <4>2 DEF Passed
      <4>3. CASE p = {} /\ ~ Passed(r, c)
        <5>1. ShardIndex(c) = shard[r] /\ c > lastID[r]
          BY <3>4, <4>1, <4>3
        <5>2. started[r] \in 0..clock /\ clock \in Nat /\ expireAt[c] \in Nat
          BY <3>2, SizesAssumption DEF TypeInv, TypeOK, Never
        <5>3. c \in PageSource(r)
          BY <3>2, <5>1, <5>2 DEF PageSource, Active
        <5>4. Cardinality(p) = 0
          BY <4>3, FS_EmptySet
        <5> QED
          BY <4>1, <4>3, <5>3, <5>4, SizesAssumption DEF FirstRows
      <4> QED
        BY <2>2, <3>2, <4>1, <4>2, <4>3
    <3>7. CASE AddPage(r)
      <4>1. /\ run[r] = "add"
            /\ stored'[r] = stored[r] \union page[r]
        BY <1>1, <3>7 DEF AddPage
      <4>2. ASSUME ~ Passed(r, c), ShardIndex(c) = shard[r], c > lastID[r],
                   c \notin page[r]
            PROVE  ~ LastPage(page[r]) /\ \A d \in page[r] : d < c
        BY <3>2, <4>1, <4>2 DEF ListingInv, PageComplete
      <4>3. CASE LastPage(page[r]) /\ NextShard(r)
        BY <2>2, <3>2, <3>4, <4>1, <4>2, <4>3
      <4>4. CASE ~ LastPage(page[r])
        <5>1. PICK m \in page[r] : lastID' = [lastID EXCEPT ![r] = m]
                                   /\ UNCHANGED shard
          BY <3>7, <4>4 DEF AddPage
        <5>2. lastID'[r] = m /\ m \in Nat /\ lastID[r] \in Nat /\ shard'[r] = shard[r]
          BY <1>1, <1>2, <5>1
        <5>3. ASSUME ~ Passed(r, c), c \notin page[r] PROVE FALSE
          <6>1. ShardIndex(c) = shard[r] /\ c <= m /\ c > lastID[r]
            BY <1>1, <3>2, <3>3, <5>2, <5>3 DEF Passed
          <6>2. m < c
            BY <4>2, <5>1, <5>3, <6>1
          <6> QED
            BY <3>2, <5>2, <6>1, <6>2
        <5> QED
          BY <2>2, <3>2, <4>1, <5>3
      <4> QED
        BY <3>7, <4>3, <4>4 DEF AddPage
    <3>8. CASE ~ Reserve(r) /\ ~ QueryPage(r) /\ ~ AddPage(r)
      BY <1>1, <1>4, <2>4, <3>8 DEF RunStep, ListingFails, DelTemp, DelMarker,
         FinishRebuild, Crash, Leave, Listing
    <3> QED
      BY <3>5, <3>6, <3>7, <3>8
  <2> QED
    BY <2>3, <2>4
<1> QED
  BY <1>3, <1>4

-----------------------------------------------------------------------------
(* What the live key contains                                              *)

Inv == TypeInv /\ DoubleWrite /\ ListingInv /\ OnlyStraddledLost

\* Only an installation and the loss of Redis take codes out of the live key.
LEMMA MainGrows ==
  ASSUME TypeInv, [Next]_vars, ~ RedisLost,
         \A r \in Runs : ~ FinishRebuild(r)
  PROVE  stored[Main] \subseteq stored'[Main] /\ lost' = lost
<1>1. /\ stored \in [Keys -> SUBSET Codes]
      /\ Main \in Keys /\ Main \notin Runs
      /\ TargetOK
  BY KeysAssumption DEF TypeInv, TypeOK, Keys
<1>2. ASSUME NEW c \in Codes, AddMain(c) \/ AddTemp(c) \/ AddFails(c)
      PROVE  stored[Main] \subseteq stored'[Main] /\ lost' = lost
  BY <1>1, <1>2 DEF AddMain, AddTemp, AddFails, TargetOK
<1>3. ASSUME NEW r \in Runs, AddPage(r) \/ ListingFails(r) \/ DelTemp(r)
      PROVE  stored[Main] \subseteq stored'[Main] /\ lost' = lost
  BY <1>1, <1>3 DEF AddPage, ListingFails, DelTemp
<1> QED
  BY <1>2, <1>3 DEF Next, CreatorStep, RunStep, Tick, Purge, Insert, ReadMarker,
     SetMarker, Reserve, QueryPage, DelMarker, Crash, vars, redisVars

\* When r is installed, every active code that was in the table when r set its
\* marker is in r's key, and so is every other that has been acknowledged.
LEMMA InstallContents ==
  ASSUME TypeInv, DoubleWrite, ListingInv,
         NEW r \in Runs, FinishRebuild(r), marker = r,
         NEW c \in Codes, Active(c)
  PROVE  /\ stored'[Main] = stored[r]
         /\ c \in base[r] => c \in stored[r]
         /\ pc[c] = "acked" => c \in stored[r]
         /\ pc[c] = "addTemp" /\ c \notin base[r] => target[c] = r
<1>1. Listing(r) /\ run[r] = "finish"
  BY DEF FinishRebuild, Listing
<1>2. Passed(r, c)
  <2>1. shard[r] = ShardCount
    BY <1>1 DEF TypeInv, PhaseOK
  <2> QED
    BY <2>1, ShardIndexRange, SizesAssumption DEF Passed
<1>3. c \in base[r] => c \in stored[r]
  BY <1>1, <1>2 DEF ListingInv, ListingComplete
<1>4. stored'[Main] = stored[r]
  BY KeysAssumption
     DEF FinishRebuild, MayInstall, Install, TypeInv, TypeOK, Keys
<1> QED
  BY <1>1, <1>3, <1>4 DEF DoubleWrite

\* The live key keeps every code that is not straddled or lost with Redis.
LEMMA MainStep == Inv /\ [Next]_vars => OnlyStraddledLost'
<1> SUFFICES ASSUME Inv, [Next]_vars, NEW c \in Codes,
                    pc'[c] \in {"addTemp", "acked"}, c \notin lost', Active(c)'
             PROVE  c \in stored'[Main]
  BY DEF OnlyStraddledLost, InMain
<1>1. /\ pc \in [Codes -> Creating]
      /\ stored \in [Keys -> SUBSET Codes]
      /\ Main \in Keys /\ Main \notin Runs
  BY KeysAssumption DEF Inv, TypeInv, TypeOK, Keys
<1>2. CASE AddMain(c)
  BY <1>1, <1>2 DEF AddMain
<1>3. CASE ~ AddMain(c)
  <2>1. pc[c] \in {"addTemp", "acked"}
    BY <1>1, <1>3 DEF Next, CreatorStep, RunStep, Tick, Purge, Insert, ReadMarker,
       AddMain, AddTemp, AddFails, SetMarker, Reserve, QueryPage, AddPage,
       ListingFails, DelTemp, DelMarker, FinishRebuild, Crash, RedisLost, vars,
       addVars
  <2>2. Active(c)
    BY <2>1, ActiveStable DEF Inv
  <2>3. c \in InMain
    BY <2>1 DEF InMain
  <2>4. CASE RedisLost
    BY <2>3, <2>4 DEF RedisLost
  <2>5. ASSUME NEW r \in Runs, FinishRebuild(r) PROVE c \in stored'[Main]
    <3>1. CASE marker = r
      <4>1. /\ lost' = (lost \union Straddling(r)) \ (base[r] \union stored[r])
            /\ stored' = [stored EXCEPT ![Main] = stored[r], ![r] = {}]
        BY <2>5, <3>1 DEF FinishRebuild, MayInstall, Install
      <4>2. CASE c \in stored[r]
        BY <1>1, <2>5, <4>1, <4>2
      <4>3. CASE c \in base[r] \/ c \notin Straddling(r)
        BY <2>1, <2>2, <2>5, <3>1, <4>3, InstallContents DEF Inv, Straddling
      <4> QED BY <4>1, <4>2, <4>3
    <3>2. CASE marker # r
      BY <2>2, <2>3, <2>5, <3>2 DEF FinishRebuild, MayInstall, Inv,
         OnlyStraddledLost
    <3> QED
      BY <3>1, <3>2
  <2>6. CASE ~ RedisLost /\ \A r \in Runs : ~ FinishRebuild(r)
    BY <2>2, <2>3, <2>6, MainGrows DEF Inv, OnlyStraddledLost
  <2> QED
    BY <2>4, <2>5, <2>6
<1> QED
  BY <1>2, <1>3

-----------------------------------------------------------------------------
(* Theorems                                                                *)

\* Inv is inductive.
LEMMA InvInductive == Spec => []Inv
<1>1. Init => Inv
  <2>1. Init => TypeInv
    BY TypeInit
  <2>2. Init => DoubleWrite /\ ListingInv /\ OnlyStraddledLost
    BY DEF Init, DoubleWrite, ListingInv, PageComplete, ListingComplete, Listing,
       OnlyStraddledLost, InMain
  <2> QED
    BY <2>1, <2>2 DEF Inv
<1>2. Inv /\ [Next]_vars => Inv'
  BY TypeStep, DoubleWriteStep, PageStep, ListingStep, MainStep
     DEF Inv, ListingInv
<1> QED
  BY <1>1, <1>2, PTL DEF Spec

\* The double write of Add covers what the listing of the rebuild in charge
\* cannot see.
THEOREM DoubleWriteHolds == Spec => []DoubleWrite
BY InvInductive, PTL DEF Inv

\* The paging of ListActiveCodes loses no row, however many tables and whatever
\* the page size.
THEOREM ListingIsComplete == Spec => []ListingComplete
BY InvInductive, PTL DEF Inv, ListingInv

\* MightContain denies no active link that was added, except those caught
\* between their two BF.ADDs by an installation and those lost with Redis.
THEOREM OnlyStraddledAreLost == Spec => []OnlyStraddledLost
BY InvInductive, PTL DEF Inv

\* Every installation of a rebuilt filter repairs all earlier losses among the
\* links the rebuild found in the tables.
THEOREM InstallationHeals == Spec => InstallHeals
<1> DEFINE Heals ==
      \A r \in Runs : run[r] = "finish" /\ marker = r /\ marker' = NoKey
                       /\ run'[r] = "returned"
        => \A c \in base[r] : Active(c) => c \in stored'[Main]
<1>1. Inv /\ [Next]_vars => [Heals]_vars
  <2> SUFFICES ASSUME Inv, [Next]_vars,
                      NEW r \in Runs, run[r] = "finish", marker = r,
                      marker' = NoKey, run'[r] = "returned",
                      NEW c \in base[r], Active(c)
               PROVE  c \in stored'[Main]
    OBVIOUS
  <2>1. c \in Codes
    BY DEF Inv, TypeInv, TypeOK
  <2>2. RunStep(r) \/ Crash(r)
    BY LocalsStable DEF Inv
  <2>3. FinishRebuild(r)
    BY <2>2, KeysAssumption DEF RunStep, SetMarker, Reserve, QueryPage, AddPage,
       ListingFails, DelTemp, DelMarker, Crash, redisVars
  <2> QED
    BY <2>1, <2>3, InstallContents DEF Inv
<1> QED
  BY <1>1, InvInductive, PTL DEF Spec, InstallHeals

-----------------------------------------------------------------------------
(* The existence filter that Resolve sees                                  *)

\* No key, and no page on its way to one, has a code that was not made.
ContentsOK ==
  /\ \A k \in Keys : \A c \in stored[k] : pc[c] # "idle"
  /\ \A r \in Runs : \A c \in page[r] : pc[c] # "idle"

\* A link that has been made stays made.
LEMMA MadeStays ==
  ASSUME TypeInv, [Next]_vars, NEW c \in Codes, pc[c] # "idle"
  PROVE  pc'[c] # "idle"
<1>1. pc \in [Codes -> Creating]
  BY DEF TypeInv, TypeOK
<1>2. ASSUME NEW d \in Codes, CreatorStep(d) PROVE pc'[c] # "idle"
  BY <1>1, <1>2 DEF CreatorStep, Insert, ReadMarker, AddMain, AddTemp, AddFails
<1>3. CASE ~ \E d \in Codes : CreatorStep(d)
  BY <1>3 DEF Next, RunStep, Tick, Purge, SetMarker, Reserve, QueryPage, AddPage,
     ListingFails, DelTemp, DelMarker, FinishRebuild, Crash, RedisLost, vars, addVars
<1> QED BY <1>2, <1>3

LEMMA ContentsStep == TypeInv /\ ContentsOK /\ [Next]_vars => ContentsOK'
<1> SUFFICES ASSUME TypeInv, ContentsOK, [Next]_vars PROVE ContentsOK'
  OBVIOUS
<1> DEFINE Grown(S, T) == \A c \in T : c \in S \/ (c \in Codes /\ pc'[c] # "idle")
<1>1. /\ stored \in [Keys -> SUBSET Codes] /\ page \in [Runs -> SUBSET Codes]
      /\ pc \in [Codes -> Creating] /\ \A c \in rows : c \in Codes /\ pc[c] # "idle"
      /\ Main \in Keys /\ \A r \in Runs : r \in Keys /\ r # Main
      /\ \A c \in Codes : pc[c] = "addTemp" => target[c] \in Keys
  BY KeysAssumption DEF TypeInv, TypeOK, TargetOK, Keys
<1>2. \A c \in Codes : pc[c] # "idle" => pc'[c] # "idle"
  BY MadeStays
<1>3. /\ \A k \in Keys : \A c \in stored[k] : c \in Codes /\ pc'[c] # "idle"
      /\ \A r \in Runs : \A c \in page[r] : c \in Codes /\ pc'[c] # "idle"
  BY <1>1, <1>2 DEF ContentsOK
<1>4. \A k \in Keys : \A c \in stored'[k] : pc'[c] # "idle"
  <2>1. ASSUME NEW c \in Codes, AddMain(c) \/ AddTemp(c) \/ AddFails(c),
               NEW k \in Keys, NEW d \in stored'[k]
        PROVE  pc'[d] # "idle"
    <3>1. pc[c] # "idle" /\ (d \in stored[k] \/ d = c)
      BY <1>1, <2>1 DEF AddMain, AddTemp, AddFails
    <3> QED BY <1>2, <1>3, <3>1
  <2>2. ASSUME NEW r \in Runs, AddPage(r) \/ ListingFails(r) \/ DelTemp(r),
               NEW k \in Keys, NEW d \in stored'[k]
        PROVE  pc'[d] # "idle"
    <3>1. d \in stored[k] \/ d \in page[r]
      BY <1>1, <2>2 DEF AddPage, ListingFails, DelTemp
    <3> QED BY <1>3, <3>1
  <2>3. ASSUME NEW r \in Runs, FinishRebuild(r), NEW k \in Keys, NEW d \in stored'[k]
        PROVE  pc'[d] # "idle"
    <3>1. d \in stored[k] \/ d \in stored[r]
      BY <1>1, <2>3 DEF FinishRebuild, Install
    <3> QED BY <1>1, <1>3, <3>1
  <2>4. CASE RedisLost
    BY <2>4 DEF RedisLost
  <2>5. CASE UNCHANGED stored
    BY <1>3, <2>5
  <2> QED BY <2>1, <2>2, <2>3, <2>4, <2>5 DEF Next, CreatorStep, RunStep, Tick, Purge, Insert,
             ReadMarker, SetMarker, Reserve, QueryPage, DelMarker, Crash, vars, redisVars
<1>5. \A r \in Runs : \A c \in page'[r] : pc'[c] # "idle"
  <2>1. ASSUME NEW q \in Runs, QueryPage(q), NEW r \in Runs, NEW c \in page'[r]
        PROVE  pc'[c] # "idle"
    <3>1. PICK p \in FirstRows(PageSource(q)) :
            \/ UNCHANGED page
            \/ page' = [page EXCEPT ![q] = p]
      BY <2>1 DEF QueryPage
    <3>2. p \subseteq rows
      BY <3>1 DEF FirstRows, PageSource
    <3>3. c \in page[r] \/ c \in rows
      BY <1>1, <3>1, <3>2
    <3> QED BY <1>1, <1>2, <1>3, <3>3
  <2>2. ASSUME NEW q \in Runs, (RunStep(q) /\ ~ QueryPage(q)) \/ Crash(q),
               NEW r \in Runs, NEW c \in page'[r]
        PROVE  pc'[c] # "idle"
    <3>1. c \in page[r]
      BY <1>1, <2>2 DEF RunStep, SetMarker, Reserve, AddPage, ListingFails, DelTemp, DelMarker,
                        FinishRebuild, Crash, Leave
    <3> QED BY <1>3, <3>1
  <2>3. CASE UNCHANGED page
    BY <1>3, <2>3
  <2> QED BY <2>1, <2>2, <2>3 DEF Next, CreatorStep, Tick, Purge, Insert, ReadMarker, AddMain,
             AddTemp, AddFails, RedisLost, vars, runVars
<1> QED BY <1>4, <1>5 DEF ContentsOK

LEMMA StagesOf ==
  /\ StageOf("idle") = "none" /\ StageOf("inserted") = "made" /\ StageOf("addMain") = "made"
  /\ StageOf("addTemp") = "adding" /\ StageOf("acked") = "added"
  /\ StageOf("failed") = "failed"
BY DEF StageOf

\* A creator that moves takes its own link further.
LEMMA StageMoves ==
  ASSUME TypeInv, NEW c \in Codes, NEW p, pc' = [pc EXCEPT ![c] = p]
  PROVE  Stage[c] = StageOf(pc[c]) /\ Stage' = [Stage EXCEPT ![c] = StageOf(p)]
BY DEF Stage, TypeInv, TypeOK

LEMMA PromisedIsInMain ==
  ASSUME TypeInv
  PROVE  /\ Filter!Promised = InMain
         /\ \A c \in Codes : /\ Stage[c] = "adding" <=> pc[c] = "addTemp"
                             /\ Stage[c] = "none" <=> pc[c] = "idle"
<1>1. \A c \in Codes : Stage[c] = StageOf(pc[c]) /\ pc[c] \in Creating
  BY DEF Stage, TypeInv, TypeOK
<1> QED BY <1>1, StagesOf DEF Filter!Promised, InMain, Creating

\* Links do not come to life but by their creation.
LEMMA AliveShrinks ==
  ASSUME TypeInv, [Next]_vars, \A c \in Codes : ~ Insert(c)
  PROVE  /\ Alive' \subseteq Alive
         /\ UNCHANGED dbVars => Alive' = Alive
<1>1. \A c \in Codes : Active(c)' => pc[c] # "idle"
  <2>1. rows' \subseteq rows
    BY DEF Next, CreatorStep, RunStep, Tick, Purge, ReadMarker, AddMain, AddTemp, AddFails,
       SetMarker, Reserve, QueryPage, AddPage, ListingFails, DelTemp, DelMarker, FinishRebuild,
       Crash, RedisLost, vars, dbVars
  <2> QED BY <2>1 DEF Active, TypeInv, TypeOK
<1>2. \A c \in Codes : Active(c)' => Active(c)
  BY <1>1, ActiveStable
<1> QED BY <1>2 DEF Alive, Active, dbVars

\* A creator's steps are steps of the filter.
LEMMA CreatorMaps ==
  ASSUME Inv, [Next]_vars, NEW c \in Codes, CreatorStep(c)
  PROVE  [Filter!Next]_Filter!efVars
<1> USE StagesOf
<1>1. /\ TypeInv /\ stored \in [Keys -> SUBSET Codes] /\ Main \in Keys /\ Main \notin Runs
      /\ TargetOK /\ pc \in [Codes -> Creating]
  BY KeysAssumption DEF Inv, TypeInv, TypeOK, Keys
<1>2. CASE Insert(c)
  <2>1. Stage[c] = "none" /\ Stage' = [Stage EXCEPT ![c] = "made"]
    <3>1. pc[c] = "idle" /\ pc' = [pc EXCEPT ![c] = "inserted"]
      BY <1>2 DEF Insert
    <3>2. Stage' = [Stage EXCEPT ![c] = StageOf("inserted")]
      BY <1>1, <3>1, StageMoves
    <3> QED BY <1>1, <3>1, <3>2 DEF Stage
  <2>2. \A d \in Codes \ {c} : Active(d)' <=> Active(d)
    BY <1>1, <1>2 DEF Insert, Active, TypeInv, TypeOK
  <2>3. ~ Active(c)
    BY <1>1, <1>2 DEF Insert, Active, TypeInv, TypeOK
  <2>4. Alive' \in {Alive, Alive \union {c}}
    BY <2>2, <2>3 DEF Alive
  <2>5. Filter!Make(c)
    BY <1>2, <2>1, <2>4 DEF Insert, Filter!Make, redisVars
  <2> QED BY <2>5 DEF Filter!Next
<1>3. CASE ~ Insert(c)
  <2>1. UNCHANGED dbVars /\ lost' = lost
    BY <1>3 DEF CreatorStep, ReadMarker, AddMain, AddTemp, AddFails
  <2>2. \A d \in Codes : ~ Insert(d)
    BY <1>3, <2>1, <1>1 DEF Insert, CreatorStep, ReadMarker, AddMain, AddTemp, AddFails
  <2>3. Alive' = Alive
    BY <1>1, <2>1, <2>2, AliveShrinks
  <2>4. CASE ReadMarker(c)
    <3>1. Stage' = Stage
      BY <1>1, <2>4, StageMoves DEF ReadMarker, Stage
    <3> QED BY <2>1, <2>3, <2>4, <3>1 DEF ReadMarker, redisVars, Filter!efVars
  <2>5. CASE AddMain(c)
    <3>1. /\ Stage[c] = "made"
          /\ \E s \in {"adding", "added"} : Stage' = [Stage EXCEPT ![c] = s]
      <4>1. PICK p \in {"addTemp", "acked"} : pc' = [pc EXCEPT ![c] = p]
        BY <2>5 DEF AddMain
      <4>2. pc[c] = "addMain" /\ Stage' = [Stage EXCEPT ![c] = StageOf(p)]
        BY <1>1, <2>5, <4>1, StageMoves DEF AddMain
      <4> QED BY <1>1, <4>2 DEF Stage
    <3>2. stored'[Main] = stored[Main] \union {c}
      BY <1>1, <2>5 DEF AddMain
    <3>3. Filter!Add(c)
      BY <2>1, <2>3, <3>1, <3>2 DEF Filter!Add
    <3> QED BY <3>3 DEF Filter!Next
  <2>6. CASE AddTemp(c)
    <3>1. Stage[c] = "adding" /\ Stage' = [Stage EXCEPT ![c] = "added"]
      <4>1. pc[c] = "addTemp" /\ pc' = [pc EXCEPT ![c] = "acked"]
        BY <2>6 DEF AddTemp
      <4>2. Stage' = [Stage EXCEPT ![c] = StageOf("acked")]
        BY <1>1, <4>1, StageMoves
      <4> QED BY <1>1, <4>1, <4>2 DEF Stage
    <3>2. stored'[Main] = stored[Main]
      BY <1>1, <2>6 DEF AddTemp, TargetOK
    <3>3. Filter!Complete(c)
      BY <2>1, <2>3, <3>1, <3>2 DEF Filter!Complete
    <3> QED BY <3>3 DEF Filter!Next
  <2>7. CASE AddFails(c)
    <3>1. Stage[c] \in {"made", "adding"} /\ Stage' = [Stage EXCEPT ![c] = "failed"]
      <4>1. /\ pc[c] \in {"inserted", "addMain", "addTemp"}
            /\ pc' = [pc EXCEPT ![c] = "failed"]
        BY <2>7 DEF AddFails
      <4>2. Stage' = [Stage EXCEPT ![c] = StageOf("failed")]
        BY <1>1, <4>1, StageMoves
      <4> QED BY <1>1, <4>1, <4>2 DEF Stage
    <3>2. \/ stored'[Main] = stored[Main]
          \/ Stage[c] = "made" /\ stored'[Main] = stored[Main] \union {c}
      BY <1>1, <2>7 DEF AddFails, TargetOK, Stage, StageOf
    <3>3. Filter!Fail(c)
      BY <2>1, <2>3, <3>1, <3>2 DEF Filter!Fail
    <3> QED BY <3>3 DEF Filter!Next
  <2> QED BY <1>3, <2>4, <2>5, <2>6, <2>7 DEF CreatorStep
<1> QED BY <1>2, <1>3

\* The exchange of the keys replaces the content of the filter.
LEMMA InstallReplaces ==
  ASSUME Inv, ContentsOK, [Next]_vars, NEW r \in Runs, FinishRebuild(r), marker = r
  PROVE  Filter!Replace
<1>1. TypeInv /\ stored \in [Keys -> SUBSET Codes] /\ r \in Keys
  BY DEF Inv, TypeInv, TypeOK, Keys
<1>2. /\ UNCHANGED <<dbVars, pc>>
      /\ lost' = (lost \union Straddling(r)) \ (base[r] \union stored[r])
  BY DEF FinishRebuild, MayInstall, Install, addVars
<1>3. Stage' = Stage /\ Alive' = Alive
  BY <1>2 DEF Stage, Alive, Active, dbVars
<1>4. stored'[Main] = stored[r]
  BY <1>1, KeysAssumption DEF FinishRebuild, MayInstall, Install, Keys
<1>5. stored'[Main] \in SUBSET {c \in Codes : Stage[c] # "none"}
  BY <1>1, <1>4, PromisedIsInMain DEF ContentsOK
<1>6. lost' \in SUBSET (lost \union {c \in Codes : Stage[c] = "adding"})
  BY <1>1, <1>2, PromisedIsInMain DEF Straddling
<1>7. ASSUME NEW c \in InMain, c \in Alive, c \notin lost' PROVE c \in stored'[Main]
  <2>1. c \in Codes /\ Active(c) /\ pc[c] \in {"addTemp", "acked"}
    BY <1>7 DEF InMain, Alive
  <2>2. c \in base[r] \/ c \in stored[r] \/ c \notin Straddling(r)
    BY <1>2, <1>7
  <2> QED BY <1>4, <2>1, <2>2, InstallContents DEF Inv, Straddling
<1>8. (Filter!Promised \intersect Alive) \ lost' \subseteq stored'[Main]
  BY <1>1, <1>7, PromisedIsInMain
<1>9. stored'[Main] \intersect lost' = {}
  BY <1>2, <1>4
<1> QED BY <1>3, <1>5, <1>6, <1>8, <1>9 DEF Filter!Replace

LEMMA FilterStep ==
  ASSUME Inv, ContentsOK, [Next]_vars
  PROVE  [Filter!Next]_Filter!efVars
<1>1. TypeInv /\ stored \in [Keys -> SUBSET Codes] /\ Main \in Keys /\ Main \notin Runs
  BY KeysAssumption DEF Inv, TypeInv, TypeOK, Keys
<1>2. ASSUME NEW c \in Codes, CreatorStep(c) PROVE [Filter!Next]_Filter!efVars
  BY <1>2, CreatorMaps
<1>3. CASE Tick \/ \E c \in Codes : Purge(c)
  <2>1. UNCHANGED <<pc, stored, lost>> /\ \A c \in Codes : ~ Insert(c)
    BY <1>1, <1>3 DEF Tick, Purge, Insert, addVars, redisVars, TypeInv, TypeOK
  <2>2. Alive' \subseteq Alive /\ Stage' = Stage
    BY <1>1, <2>1, AliveShrinks DEF Stage
  <2>3. Filter!Expire(Alive \ Alive') /\ Alive \ Alive' \in SUBSET Codes
    BY <2>1, <2>2 DEF Filter!Expire, Alive
  <2> QED BY <2>3 DEF Filter!Next
<1>4. ASSUME NEW r \in Runs, FinishRebuild(r), marker = r
      PROVE  [Filter!Next]_Filter!efVars
  BY <1>4, InstallReplaces DEF Filter!Next
<1>5. CASE RedisLost
  <2>1. Stage' = Stage /\ Alive' = Alive
    BY <1>5 DEF RedisLost, addVars, dbVars, Stage, Alive, Active
  <2>2. Filter!Lose
    BY <1>1, <1>5, <2>1, PromisedIsInMain DEF RedisLost, Filter!Lose
  <2> QED BY <2>2 DEF Filter!Next
<1>6. ASSUME UNCHANGED <<dbVars, pc, lost>>, stored'[Main] = stored[Main]
      PROVE  UNCHANGED Filter!efVars
  BY <1>6 DEF Filter!efVars, Stage, Alive, Active, dbVars
<1>7. ASSUME NEW r \in Runs, (RunStep(r) /\ ~ FinishRebuild(r)) \/ Crash(r)
             \/ (FinishRebuild(r) /\ marker # r)
      PROVE  [Filter!Next]_Filter!efVars
  <2>1. UNCHANGED <<dbVars, pc, lost>>
    BY <1>7 DEF RunStep, SetMarker, Reserve, QueryPage, AddPage, ListingFails, DelTemp,
                DelMarker, FinishRebuild, MayInstall, Crash, addVars
  <2>2. stored'[Main] = stored[Main]
    BY <1>1, <1>7 DEF RunStep, SetMarker, Reserve, QueryPage, AddPage, ListingFails, DelTemp,
                DelMarker, FinishRebuild, MayInstall, Crash, redisVars
  <2> QED BY <1>6, <2>1, <2>2
<1>8. CASE UNCHANGED vars
  BY <1>6, <1>8 DEF vars, addVars, redisVars
<1> QED BY <1>2, <1>3, <1>4, <1>5, <1>7, <1>8 DEF Next

\* To Resolve the live key is an existence filter, whatever happens to the temporary
\* keys and the marker: it misses no active link but those that were between their two
\* BF.ADDs at an installation, or in a Redis that was lost (Add, MightContain, Rebuild).
THEOREM IsExistenceFilter == Spec => ImplementsFilter
<1>1. Init => Filter!Init /\ ContentsOK
  BY KeysAssumption, StagesOf
     DEF Init, Filter!Init, Stage, Alive, Active, ContentsOK, Keys
<1>2. Inv /\ ContentsOK /\ [Next]_vars => ContentsOK'
  BY ContentsStep DEF Inv
<1>3. Inv /\ ContentsOK /\ [Next]_vars => [Filter!Next]_Filter!efVars
  BY FilterStep
<1> QED
  BY <1>1, <1>2, <1>3, InvInductive, PTL DEF Spec, ImplementsFilter, Filter!Spec
=============================================================================
