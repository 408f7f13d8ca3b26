-------------------------- MODULE ExistenceFilter --------------------------
(***************************************************************************)
(* What Resolve may rely on in a filter of short codes                     *)
(* (linkapp.ExistenceFilter as RedisBloom provides it), without markers    *)
(* and temporary keys.  It lets a link through from its Add on, as long as *)
(* the link is alive; its content is replaced as a whole from time to      *)
(* time, or lost; and only a link whose Add is not complete when the       *)
(* content is replaced, or was when it was lost, may be missed.            *)
(***************************************************************************)

CONSTANTS Codes

VARIABLES
  stage,       \* of each link's creation: "none", "made", "adding", "added" or "failed"
  alive,       \* the links that can be resolved
  members,     \* the codes that are let through
  excused      \* links that may be missed

efVars == <<stage, alive, members, excused>>

\* Links that are let through, unless excused, while they are alive.
Promised == {c \in Codes : stage[c] \in {"adding", "added"}}

Init == /\ stage = [c \in Codes |-> "none"]
        /\ alive = {} /\ members = {} /\ excused = {}

\* A link may have expired when it is made.
Make(c) == /\ stage[c] = "none"
           /\ stage' = [stage EXCEPT ![c] = "made"]
           /\ alive' \in {alive, alive \union {c}}
           /\ UNCHANGED <<members, excused>>

Expire(links) == /\ alive' = alive \ links
                 /\ UNCHANGED <<stage, members, excused>>

\* Add has effect at once, and is complete now or later.
Add(c) == /\ stage[c] = "made"
          /\ \E s \in {"adding", "added"} : stage' = [stage EXCEPT ![c] = s]
          /\ members' = members \union {c}
          /\ UNCHANGED <<alive, excused>>

Complete(c) == /\ stage[c] = "adding"
               /\ stage' = [stage EXCEPT ![c] = "added"]
               /\ UNCHANGED <<alive, members, excused>>

\* An Add that fails may have had its effect.
Fail(c) == /\ stage[c] \in {"made", "adding"}
           /\ stage' = [stage EXCEPT ![c] = "failed"]
           /\ \/ UNCHANGED members
              \/ stage[c] = "made" /\ members' = members \union {c}
           /\ UNCHANGED <<alive, excused>>

\* New content lets nothing through that was never made, and misses only links that
\* were missed before or whose Add is under way.  What it has is excused no longer.
Replace == /\ members' \in SUBSET {c \in Codes : stage[c] # "none"}
           /\ excused' \in SUBSET (excused \union {c \in Codes : stage[c] = "adding"})
           /\ members' \intersect excused' = {}
           /\ (Promised \intersect alive) \ excused' \subseteq members'
           /\ UNCHANGED <<stage, alive>>

Lose == /\ members' = {}
        /\ excused' = excused \union Promised
        /\ UNCHANGED <<stage, alive>>

Next == \/ \E c \in Codes : Make(c) \/ Add(c) \/ Complete(c) \/ Fail(c)
        \/ \E links \in SUBSET Codes : Expire(links)
        \/ Replace \/ Lose

Spec == Init /\ [][Next]_efVars
=============================================================================
