----------------------------- MODULE MCLinkIds -----------------------------
(***************************************************************************)
(* Instances of LinkIds for TLC, with the alphabet and the tables of the   *)
(* code.  The widths of an id's fields are chosen so that codes differ by  *)
(* case: a millisecond is the case of the fourth digit from the right, and *)
(* the two processes' nodes are the case of the last one.                  *)
(***************************************************************************)
EXTENDS LinkIds, TLC

CONSTANTS p1, p2

UpperCase(digit) == Letters * Base ^ digit

\* Twice this number is an id whose code is AAAA.
NodeOfAAAA == (10 * (1 + Base + Base ^ 2 + Base ^ 3)) \div 2

Width == UpperCase(3) \div 2 - 1

OwnNodes == p1 :> NodeOfAAAA @@ p2 :> NodeOfAAAA + UpperCase(0) \div 2
=============================================================================
