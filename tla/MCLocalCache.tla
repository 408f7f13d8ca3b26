--------------------------- MODULE MCLocalCache ---------------------------
(***************************************************************************)
(* Instances of LocalCache for TLC.                                        *)
(***************************************************************************)
EXTENDS LocalCache

\* Codes, contents and callers are each interchangeable.
CacheSymmetry ==
  Permutations(Codes) \union Permutations(Values) \union Permutations(Callers)
=============================================================================
