-------------------------- MODULE MCTsumeParallel ---------------------------
(* TsumeParallel with two workers on up to three replies. *)
EXTENDS TsumeParallel

CONSTANTS w1, w2
=============================================================================
