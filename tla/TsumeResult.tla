---------------------------- MODULE TsumeResult -----------------------------
(* TsumeResult of src/tsume.h: a status, the move, and the length of a mate. *)

Aborts == {"Timeout", "Cancelled"}

Result(status, move, plies) == [status |-> status, move |-> move, plies |-> plies]

(* is_decisive_reply: one reply of this kind settles the position. *)
Decisive(attack, status) == status = IF attack THEN "Mate" ELSE "NoMate"
=============================================================================
