------------------------------ MODULE Exchange ------------------------------
(***************************************************************************)
(* The exchange on a square, as static_exchange_eval of src/position.cpp   *)
(* counts it: each side takes with its least valuable piece until one has  *)
(* none left or nothing to gain.  Kings do not take part, pins do not      *)
(* count, and a piece that takes promotes only where it must.              *)
(***************************************************************************)
EXTENDS Position, Sequences, SequencesExt

PieceValue ==
    [Empty |-> 0, Pawn |-> 100, Lance |-> 300, Knight |-> 320, Silver |-> 450, Gold |-> 550,
     Bishop |-> 800, Rook |-> 1000, King |-> 20000, ProPawn |-> 550, ProLance |-> 550,
     ProKnight |-> 550, ProSilver |-> 550, Horse |-> 950, Dragon |-> 1150]

Larger(a, b) == IF a >= b THEN a ELSE b

(* piece_attacks_square_on_board, for every piece of the color but its king. *)
Takers(board, target, color) ==
    LET occupied == {s \in Squares : board[s] # NoPiece}
    IN {from \in occupied : /\ board[from].color = color /\ board[from].type # "King"
                            /\ target \in AttacksFrom(from, board[from].type, color, occupied)}

Landing(board, from, target) ==
    LET taker == board[from]
    IN IF MustPromote(taker.type, taker.color, target) THEN Promote(taker.type) ELSE taker.type

(* Worth less, or as much and landing as less, or first on the board. *)
Cheaper(board, target, x, y) ==
    LET value(s) == PieceValue[board[s].type]
        landed(s) == PieceValue[Landing(board, s, target)]
    IN \/ value(x) < value(y)
       \/ value(x) = value(y) /\ landed(x) < landed(y)
       \/ value(x) = value(y) /\ landed(x) = landed(y) /\ x <= y

(* least_valuable_attacker_on_board *)
LeastTaker(board, target, takers) ==
    CHOOSE x \in takers : \A y \in takers : Cheaper(board, target, x, y)

Take(board, from, target, type) ==
    [board EXCEPT ![from] = NoPiece, ![target] = Piece(board[from].color, type)]

(* Mutant: an even exchange ends the count. *)
IsPointlessWhenEven(last, gain) == Larger(-last, gain) <= 0

(* Who takes here is worse off, whatever follows. *)
IsPointless(last, gain) == Larger(-last, gain) < 0

(* What each capture would gain if it were the last. *)
RECURSIVE Gains(_, _, _, _)
Gains(board, target, color, gains) ==
    LET takers == Takers(board, target, color)
        from == LeastTaker(board, target, takers)
        gain == PieceValue[board[target].type] - Last(gains)
    IN IF takers = {} THEN gains
       ELSE IF IsPointless(Last(gains), gain) THEN Append(gains, gain)
       ELSE Gains(Take(board, from, target, Landing(board, from, target)), target,
                  Opposite(color), Append(gains, gain))

(* From the last capture back, each side takes or leaves. *)
Settle(gains) ==
    FoldRight(LAMBDA gain, later : -Larger(-gain, later), Front(gains), Last(gains))

StaticExchangeEval(P, m) ==
    LET moved == P.board[m.from].type
        landing == IF m.promote THEN Promote(moved) ELSE moved
        taken == P.board[m.to]
    IN IF m.drop THEN 0
       ELSE IF taken = NoPiece THEN PieceValue[landing] - PieceValue[moved]
       ELSE Settle(Gains(Take(P.board, m.from, m.to, landing), m.to, Opposite(P.side),
                         <<PieceValue[taken.type]>>))

-----------------------------------------------------------------------------
(* What the exchange is worth when it is played to its end: the side whose turn
   it is takes with a piece of its choice, or leaves it. *)
RECURSIVE Retake(_, _, _)
Retake(board, target, color) ==
    LET gain(from) == PieceValue[board[target].type]
                      - Retake(Take(board, from, target, Landing(board, from, target)), target,
                               Opposite(color))
    IN Max({0} \cup {gain(from) : from \in Takers(board, target, color)})

ExchangeValue(P, m) ==
    LET moved == P.board[m.from].type
        landing == IF m.promote THEN Promote(moved) ELSE moved
    IN PieceValue[P.board[m.to].type]
       - Retake(Take(P.board, m.from, m.to, landing), m.to, Opposite(P.side))
=============================================================================
