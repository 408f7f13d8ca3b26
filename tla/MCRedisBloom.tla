---------------------------- MODULE MCRedisBloom ----------------------------
(***************************************************************************)
(* Instances of RedisBloom for TLC.  With two tables, codes 1 and 2 are    *)
(* each in a table of their own, so that the listing moves to the next     *)
(* one with its cursor; with one table they are its rows, page by page.    *)
(***************************************************************************)
EXTENDS RedisBloom, TLC

\* The calls of Rebuild are interchangeable.
RunSymmetry == Permutations(Runs)
=============================================================================
