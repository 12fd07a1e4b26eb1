----------------------------- MODULE Evaluation -----------------------------
(***************************************************************************)
(* The evaluation of a position (src/evaluation.cpp), for the side to      *)
(* move.  The distance from the middle is written for a board of any size; *)
(* with nine rows it is that of the code.                                  *)
(***************************************************************************)
EXTENDS Exchange, FiniteSetsExt

CONSTANT TempoBonus   \* kTempoBonus

Size(n) == IF n < 0 THEN -n ELSE n
FileDistance(s) == Size(2 * Col(s) - (Cols - 1)) \div 2
CenterDistance(s) == Size(2 * Row(s) - (Rows - 1)) \div 2 + FileDistance(s)
CenterBonus(s) == (Rows - 1) \div 2 + (Cols - 1) \div 2 - CenterDistance(s)
Progress(color, s) == Rows - 1 - Rank(color, s)

HandBonus == [Pawn |-> 18, Lance |-> 24, Knight |-> 24, Silver |-> 28, Gold |-> 24,
              Bishop |-> 36, Rook |-> 42]

CampBonus(type) ==
    CASE type \in {"Pawn", "Silver", "Gold"} -> 10
      [] type \in {"Lance", "Knight"}        -> 8
      [] type \in {"Bishop", "Rook"}         -> 12
      [] type \in Golds \ {"Gold"}           -> 14
      [] type \in {"Horse", "Dragon"}        -> 18

PieceSquareBonus(type, color, s) ==
    LET progress == Progress(color, s)
        center == CenterBonus(s)
    IN CASE type = "Pawn"   -> progress * 10 - FileDistance(s) * 2
         [] type = "Lance"  -> progress * 6 - FileDistance(s) * 2
         [] type = "Knight" -> progress * 7 + center * 4
         [] type = "Silver" -> progress * 5 + center * 5
         [] type = "Gold"   -> progress * 4 + center * 3
         [] type = "Bishop" -> center * 8 + progress * 2
         [] type = "Rook"   -> center * 5 + progress * 2
         [] type \in Golds \ {"Gold"} -> progress * 4 + center * 5
         [] type = "Horse"  -> center * 12 + progress * 3
         [] type = "Dragon" -> center * 10 + progress * 3

(* Weights of a square reached by a step and along a line. *)
StepWeight(type) ==
    CASE type \in {"Pawn", "Gold", "Horse"} -> 2
      [] type \in {"Knight", "Silver", "Dragon"} \cup (Golds \ {"Gold"}) -> 3
      [] OTHER -> 0
LineWeight(type) ==
    CASE type = "Lance" -> 2
      [] type \in {"Bishop", "Horse"} -> 5
      [] type \in {"Rook", "Dragon"} -> 4
      [] OTHER -> 0

MobilityBonus(P, s, type, color) ==
    LET free == AttacksFrom(s, type, color, P.occupied) \ P.own[color]
        steps == free \cap StepFrom[color][type][s]
    IN Cardinality(steps) * StepWeight(type) + Cardinality(free \ steps) * LineWeight(type)

IsSquareAttacked(P, s, by) == AttackersTo(P, s, by, P.occupied) # {}

RookConfinementPenalty(P, s, color) ==
    LET safe == {to \in RookAttacks(s, P.occupied) \ P.own[color] :
                    ~IsSquareAttacked(P, to, Opposite(color))}
    IN CASE safe = {} -> 160 [] Cardinality(safe) = 1 -> 80 [] OTHER -> 0

(* A threat to a piece without cover costs half of it. *)
Contribution(P, s) ==
    LET color == P.board[s].color
        type == P.board[s].type
        hanging == /\ type # "Pawn"
                   /\ IsSquareAttacked(P, s, Opposite(color)) /\ ~IsSquareAttacked(P, s, color)
    IN IF type = "King" THEN PieceValue["King"]
       ELSE PieceValue[type] + PieceSquareBonus(type, color, s) + MobilityBonus(P, s, type, color)
            + (IF InPromotionZone(color, s) THEN CampBonus(type) ELSE 0)
            - (IF hanging THEN PieceValue[type] \div 2 ELSE 0)
            - (IF type = "Rook" THEN RookConfinementPenalty(P, s, color) ELSE 0)

-----------------------------------------------------------------------------
(* Mutant: the squares in front of either king are those black sees. *)
FrontOfBlack(color, king) ==
    {<<step, s>> \in (1 .. 2) \X Squares : Offset("black", king, s) = <<-step, 0>>}

InFront(color, king) ==
    {<<step, s>> \in (1 .. 2) \X Squares : Offset(color, king, s) = <<-step, 0>>}

(* The penalty for a square in front of the king. *)
FrontPenalty(P, color, s, opening) ==
    (CASE P.board[s] = NoPiece -> 4 + opening \div 16
       [] P.board[s].color = Opposite(color) -> 8 + opening \div 14
       [] OTHER -> 0)
    + (IF IsSquareAttacked(P, s, Opposite(color)) THEN 8 ELSE 0)

KingSafetyScore(P, color, phase) ==
    LET king == P.king[color]
        opening == IF phase < 96 THEN phase ELSE 96
        around == StepFrom[color]["King"][king]
        attacked == {s \in around : IsSquareAttacked(P, s, Opposite(color))}
    IN IF king = NoSquare THEN 0
       ELSE Cardinality(around \cap P.own[color]) * (6 + opening \div 12)
            - Cardinality(attacked) * (10 + opening \div 10)
            + Cardinality(around \ attacked) * 2
            + CenterDistance(king) * (opening \div 6)
            + CenterBonus(king) * ((96 - opening) \div 6)
            - MapThenSumSet(LAMBDA f : FrontPenalty(P, color, f[2], opening), InFront(color, king))

-----------------------------------------------------------------------------
Phase(P) ==
    LET Weight(type) == PieceValue[Unpromote(type)] \div 100
    IN MapThenSumSet(LAMBDA s : Weight(P.board[s].type),
                     P.occupied \ (P.pieces["black"]["King"] \cup P.pieces["white"]["King"]))
       + MapThenSumSet(LAMBDA t : (P.hands["black"][t] + P.hands["white"][t]) * Weight(t), HandTypes)

ScoreOf(P, color, phase) ==
    MapThenSumSet(LAMBDA s : Contribution(P, s), P.own[color])
    + MapThenSumSet(LAMBDA t : P.hands[color][t] * (PieceValue[t] + HandBonus[t]), HandTypes)
    + KingSafetyScore(P, color, phase)
    - (IF InCheck(P, color) THEN 40 ELSE 0)

(* evaluate_position *)
EvaluatePosition(P) ==
    LET phase == Phase(P)
    IN ScoreOf(P, P.side, phase) - ScoreOf(P, Opposite(P.side), phase) + TempoBonus
=============================================================================
