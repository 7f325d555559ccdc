------------------------------ MODULE MCDataRange ------------------------------
(***************************************************************************)
(* Instances of DataRange for TLC: every remainder, fewer rows than items, *)
(* and the arguments that are refused.                                     *)
(***************************************************************************)
EXTENDS DataRange

SmallRowCounts  == 0 .. 20
SmallItemCounts == -1 .. 7
===============================================================================
