----------------------------- MODULE GameScores -----------------------------
(***************************************************************************)
(* What the evaluation and the exchange count promise in every position of *)
(* a game.                                                                 *)
(***************************************************************************)
EXTENDS Game, Evaluation

(* The count of an exchange stops early where going on seems pointless: it may
   then be nearer to zero than the exchange played to its end, each side taking
   with whatever piece it likes, but never on the other side of zero.  So no
   capture that quiescence leaves out for its count is any better. *)
SeeKeepsItsSign ==
    \A m \in {x \in LegalMoves(pos) : Captured(pos, x) # NoPiece} :
        LET see == StaticExchangeEval(pos, m)
            worth == ExchangeValue(pos, m)
        IN /\ see > 0 <=> worth > 0
           /\ see < 0 <=> worth < 0
           /\ Size(see) <= Size(worth)

(* The same position with the board turned round and the colors exchanged, and
   in the mirror. *)
Rearranged(P, at, as) ==
    LET Image(S) == {at[s] : s \in S}
    IN [P EXCEPT
        !.board = [s \in Squares |-> IF P.board[at[s]] = NoPiece THEN NoPiece
                                     ELSE Piece(as[P.board[at[s]].color], P.board[at[s]].type)],
        !.hands = [color \in Colors |-> P.hands[as[color]]],
        !.pieces = [color \in Colors |-> [type \in Types |-> Image(P.pieces[as[color]][type])]],
        !.own = [color \in Colors |-> Image(P.own[as[color]])],
        !.occupied = Image(@),
        !.king = [color \in Colors |-> IF P.king[as[color]] = NoSquare THEN NoSquare
                                       ELSE at[P.king[as[color]]]],
        !.side = as[@]]
Turned(P) ==
    Rearranged(P, [s \in Squares |-> Rows * Cols - 1 - s],
               [color \in Colors |-> Opposite(color)])
Reflected(P) ==
    Rearranged(P, [s \in Squares |-> Cols * Row(s) + Cols - 1 - Col(s)],
               [color \in Colors |-> color])

(* The evaluation favours neither color and neither wing, and to pass costs the
   tempo and nothing else: the search negates it from ply to ply. *)
EvaluationIsFair ==
    LET scores == {EvaluatePosition(P) : P \in {pos, Turned(pos), Reflected(pos)}}
    IN scores = {2 * TempoBonus - EvaluatePosition(PassTurn(pos))}
=============================================================================
