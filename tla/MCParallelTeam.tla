--------------------------- MODULE MCParallelTeam ---------------------------
(* Two workers and the caller; counts below, at and above their number. *)
EXTENDS ParallelTeam

CONSTANTS w1, w2, caller
=============================================================================
