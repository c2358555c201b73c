------------------------- MODULE MCUpdateExclusion -------------------------
(* Bounded instances of UpdateExclusion for TLC.                           *)
EXTENDS UpdateExclusion
=============================================================================
