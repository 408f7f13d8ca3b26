--------------------------- MODULE MCLinkService ---------------------------
(***************************************************************************)
(* Instances of LinkService: the codes differ by case only, and belong to  *)
(* the same table.                                                         *)
(***************************************************************************)
EXTENDS LinkService

CONSTANTS c1, d1, q1, q2

MCWants == {[q \in Calls |-> c1], [q \in Calls |-> IF q = q1 THEN c1 ELSE d1]}

MCKey == [c \in Codes |-> 0]
=============================================================================
