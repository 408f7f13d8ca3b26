----------------------------- MODULE MCLoadTest -----------------------------
(***************************************************************************)
(* Instances of LoadTest for TLC.                                          *)
(***************************************************************************)
EXTENDS LoadTest

TwoLevels == <<1, 2>>

OneLevel == <<1>>
=============================================================================
