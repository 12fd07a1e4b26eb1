------------------------------- MODULE Scores -------------------------------
(***************************************************************************)
(* Scores of the search (src/search.cpp, src/types.h).  A mate or an end   *)
(* of the game by rule that is n plies away from the root scores n less    *)
(* than the most; in the transposition table the distance counts from the  *)
(* position stored.                                                        *)
(***************************************************************************)
EXTENDS Integers

MateScore == 30000
TerminalWinScore == MateScore - 1000
DecisiveThreshold == TerminalWinScore - 256
Infinity == 32000

Bounds == {"Exact", "Lower", "Upper"}

(* Mutant: only mates are adjusted, as when both had the same threshold. *)
ScoreToTTMatesOnly(score, ply) ==
    IF score >= MateScore - 256 THEN score + ply
    ELSE IF score <= -(MateScore - 256) THEN score - ply
    ELSE score

ScoreToTT(score, ply) ==
    IF score >= DecisiveThreshold THEN score + ply
    ELSE IF score <= -DecisiveThreshold THEN score - ply
    ELSE score

ScoreFromTT(score, ply) ==
    IF score >= DecisiveThreshold THEN score - ply
    ELSE IF score <= -DecisiveThreshold THEN score + ply
    ELSE score

BoundOf(score, alpha, beta) ==
    IF score <= alpha THEN "Upper" ELSE IF score >= beta THEN "Lower" ELSE "Exact"
=============================================================================
