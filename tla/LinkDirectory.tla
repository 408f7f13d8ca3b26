--------------------------- MODULE LinkDirectory ---------------------------
(***************************************************************************)
(* What CreateShortLink and Resolve promise their callers, whatever        *)
(* filter, caches, tables and deleters stand behind them.  A link is made, *)
(* later its creation may be acknowledged, and at its time it expires; the *)
(* directory stores that time a little earlier or later.  It may lose      *)
(* sight of links: of some when it puts its index of them in order, but    *)
(* then of none that is acknowledged, or of all when it loses the index.   *)
(* Calls that ask for the same code may be answered together: the answer   *)
(* is then right for one of them, from its beginning until now.            *)
(***************************************************************************)
EXTENDS Integers

CONSTANTS Codes, Links, Key, Calls, MaxTime, Rounding

VARIABLES
  clock,
  expireAt,    \* when each link expires, as its maker said
  rowExpireAt, \* as the directory has it
  stage,       \* whether it has been "made" and "acked"
  hidden,      \* links that may be missed
  want,        \* the code of each call
  phase,       \* whether the call is "asking" or has been "answered"
  since,       \* when it began
  known,       \* whether its link was acknowledged then
  answer,
  target       \* the link a call was redirected to, or else its code

linkVars  == <<expireAt, rowExpireAt, stage>>
askVars   == <<want, phase, since, known, answer, target>>
ldVars == <<clock, linkVars, hidden, askVars>>

Never == MaxTime + Rounding + 1

Init ==
  /\ clock = 0
  /\ expireAt = [c \in Codes |-> Never] /\ rowExpireAt = [c \in Codes |-> Never]
  /\ stage = [c \in Codes |-> "none"]
  /\ hidden = {}
  /\ want \in [Calls -> Codes]
  /\ phase = [q \in Calls |-> "idle"]
  /\ since = [q \in Calls |-> 0]
  /\ known = [q \in Calls |-> FALSE]
  /\ answer = [q \in Calls |-> "none"]
  /\ target = want

Tick == /\ clock < MaxTime
        /\ clock' = clock + 1
        /\ UNCHANGED <<linkVars, hidden, askVars>>

\* The expiry of a link is set once; a link that does not expire is stored as such.
Make(c) ==
  /\ stage[c] = "none" /\ c \in Links
  /\ stage' = [stage EXCEPT ![c] = "made"]
  /\ \E e, s \in 0..Never :
       /\ e = Never <=> s = Never
       /\ s - Rounding <= e /\ e <= s + Rounding
       /\ expireAt' = [expireAt EXCEPT ![c] = e]
       /\ rowExpireAt' = [rowExpireAt EXCEPT ![c] = s]
  /\ UNCHANGED <<clock, hidden, askVars>>

Acknowledge(c) ==
  /\ stage[c] = "made"
  /\ stage' = [stage EXCEPT ![c] = "acked"]
  /\ UNCHANGED <<clock, expireAt, rowExpireAt, hidden, askVars>>

\* Some links that are being made come out of sight, some come back.
Reorder == /\ hidden' \in SUBSET (hidden \union {c \in Codes : stage[c] = "made"})
           /\ UNCHANGED <<clock, linkVars, askVars>>

\* All that are acknowledged come out of sight.
Lose == /\ \E others \in SUBSET {c \in Codes : stage[c] = "made"} :
             hidden' = hidden \union {c \in Codes : stage[c] = "acked"} \union others
        /\ UNCHANGED <<clock, linkVars, askVars>>

Ask(q) ==
  /\ phase[q] = "idle"
  /\ phase' = [phase EXCEPT ![q] = "asking"]
  /\ since' = [since EXCEPT ![q] = clock]
  /\ known' = [known EXCEPT ![q] = stage[want[q]] = "acked"]
  /\ UNCHANGED <<clock, linkVars, hidden, want, answer, target>>

Gone(c) == rowExpireAt[c] <= clock

\* Links that a directory which does not tell case may take for the one of a code.
Alike(c) == {r \in Codes : Key[r] = Key[c] /\ stage[r] # "none"}

\* A link that was alive during the call, and the one asked for unless that is gone; one
\* that is gone by now; none.  An acknowledged link is missed by none before it is gone
\* but while it is hidden.
Right(q, a, r) ==
  LET c == want[q] IN
  \/ /\ a = "link" /\ r \in Alike(c)
     /\ expireAt[r] > since[q] \/ rowExpireAt[r] > since[q]
     /\ known[q] => r = c \/ Gone(c)
  \/ a = "expired" /\ r = c /\ (\E s \in Alike(c) : Gone(s)) /\ (known[q] => Gone(c))
  \/ a = "notFound" /\ r = c /\ (known[q] => Gone(c) \/ c \in hidden)
  \/ a = "error" /\ r = c

\* The answer that is right for q goes to q and to others that ask for its code.
Answer(q, a, r) ==
  /\ phase[q] = "asking" /\ Right(q, a, r)
  /\ \E together \in SUBSET {p \in Calls : phase[p] = "asking" /\ want[p] = want[q]} :
       /\ q \in together
       /\ phase' = [p \in Calls |-> IF p \in together THEN "answered" ELSE phase[p]]
       /\ answer' = [p \in Calls |-> IF p \in together THEN a ELSE answer[p]]
       /\ target' = [p \in Calls |-> IF p \in together THEN r ELSE target[p]]
  /\ UNCHANGED <<clock, linkVars, hidden, want, since, known>>

Next == \/ Tick \/ Reorder \/ Lose
        \/ \E c \in Codes : Make(c) \/ Acknowledge(c)
        \/ \E q \in Calls :
             \/ Ask(q)
             \/ \E a \in {"link", "expired", "notFound", "error"}, r \in Codes : Answer(q, a, r)

Spec == Init /\ [][Next]_ldVars
=============================================================================
