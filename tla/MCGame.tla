------------------------------- MODULE MCGame -------------------------------
(* Game on a board of four by four with a promotion zone of two rows.  Black   *)
(* plays towards row 0.                                                       *)
(*                                                                            *)
(*      0  1  2  3                                                            *)
(*      4  5  6  7                                                            *)
(*      8  9 10 11                                                            *)
(*     12 13 14 15                                                            *)
EXTENDS GameScores, TLC

At(color, type, s) == [color |-> color, type |-> type, square |-> s]

(* A text with a digit for every empty square: longer than the one written. *)
SquareText(placed, s) ==
    LET here == {x \in placed : x.square = s}
    IN IF here = {} THEN <<Digit(1)>> ELSE FlattenSeq(SetToSeq({PieceText(x) : x \in here}))
BoardText(placed) ==
    FlattenSeq([i \in 1 .. (Rows * Cols) |->
        (IF i > 1 /\ Col(i - 1) = 0 THEN <<Slash>> ELSE <<>>) \o SquareText(placed, i - 1)])
HandText(color, types) == [i \in 1 .. Cardinality(types) |-> Letter(color, SetToSeq(types)[i])]
Sfen(placed, black, white, side) ==
    [text |-> [board |-> BoardText(placed), side |-> side, number |-> 1,
               hands |-> HandText("black", black) \o HandText("white", white)],
     tsume |-> FALSE]

(* A silver that is pinned and also shuts a line to the enemy king. *)
Pins == Sfen({At("black", "King", 14), At("white", "King", 1), At("black", "Rook", 13),
              At("black", "Silver", 9), At("white", "Bishop", 4)}, {"Pawn"}, {"Knight"}, "black")

(* A pawn dropped on 4 would mate. *)
PawnMate == Sfen({At("black", "King", 15), At("white", "King", 0), At("black", "Gold", 8),
                  At("black", "Silver", 10), At("white", "Lance", 1)}, {"Pawn"}, {"Pawn"}, "black")

(* A knight that must promote opens the lance's line; a pawn is pinned along
   its own. *)
DoubleCheck == Sfen({At("black", "King", 12), At("white", "King", 2), At("black", "Lance", 14),
                     At("black", "Knight", 10), At("black", "Pawn", 8), At("white", "Dragon", 4)},
                    {}, {"Pawn"}, "black")

(* In check from afar, with pieces to put between, one of them pinned. *)
InCheckFromAfar == Sfen({At("black", "King", 13), At("white", "King", 2), At("white", "Rook", 1),
                         At("black", "Pawn", 8), At("black", "Knight", 10), At("white", "Horse", 7)},
                        {"Pawn", "Gold"}, {}, "black")

(* A horse checks past an empty square; lance, knight and bishop in hand. *)
Crowded == Sfen({At("black", "King", 13), At("white", "King", 2), At("black", "Horse", 8),
                 At("black", "Dragon", 15), At("white", "Silver", 6), At("white", "Gold", 1),
                 At("white", "Lance", 3)}, {"Knight", "Lance"}, {"Bishop"}, "white")

(* A mate problem: black has no king. *)
Problem == [Sfen({At("white", "King", 1), At("black", "Rook", 13), At("black", "ProSilver", 9),
                  At("white", "Knight", 3)}, {"Gold", "Pawn"}, {"Lance"}, "black")
                EXCEPT !.tsume = TRUE]

(* A silver that shuts its rook's line and may move along it, away from the king. *)
Behind == Sfen({At("black", "King", 3), At("white", "King", 13), At("black", "Rook", 1),
                At("black", "Silver", 9)}, {}, {}, "black")

(* One square that three of one side and two of the other can take on. *)
Exchanges == Sfen({At("black", "King", 15), At("white", "King", 0), At("white", "Silver", 5),
                   At("black", "Rook", 13), At("black", "Lance", 9), At("black", "Knight", 12),
                   At("white", "Gold", 6), At("white", "Knight", 2)}, {}, {}, "black")

(* Both kings across the board, and both sides short of points. *)
Entered == Sfen({At("black", "King", 1), At("white", "King", 14), At("black", "Gold", 3),
                 At("white", "ProPawn", 15), At("white", "ProLance", 12)},
                {"Pawn"}, {}, "white")

(* A rook that can check for ever, and kings that can walk about. *)
Chase(side, king) == Sfen({At("black", "King", 15), At("white", "King", king), At("black", "Rook", 8)},
                          {}, {}, side)

FreeSfens == {Pins, PawnMate, DoubleCheck, InCheckFromAfar, Crowded, Problem, Behind, Exchanges, Entered}
CycleSfens == {Chase("black", 1), Chase("white", 0)}
MCSfens == FreeSfens \cup CycleSfens

(* The one whose first position is met before the first check. *)
QuietSfens == {Chase("black", 1)}

(* Refused: no king of black's; a row too many, too long, too short; a king or
   a gold promoted; two kings, three pawns; a plus before a digit, or at the
   end; a count of 0 or without a letter; a king in hand; move 0. *)
Refusals ==
    LET With(board) == [Behind EXCEPT !.text.board = board]
        board == Behind.text.board
        Hands(hands) == [Behind EXCEPT !.text.hands = hands]
        pawn == Letter("white", "Pawn")
    IN {[Problem EXCEPT !.tsume = FALSE], With(board \o <<Slash, Digit(4)>>), With(board \o <<Digit(1)>>),
        With(Front(board)), With(<<Plus>> \o board), With(board \o <<Plus>>),
        With(<<Plus, Letter("black", "Gold")>> \o Tail(board)), With(<<Letter("black", "King")>> \o Tail(board)),
        Hands(<<pawn, pawn, pawn>>), Hands(<<Digit(3), pawn>>), Hands(<<Digit(0), pawn>>),
        Hands(<<pawn, Digit(2)>>), Hands(<<Letter("black", "King")>>), [Behind EXCEPT !.text.number = 0]}
ASSUME SfenAssumption ==
    /\ \A sfen \in Refusals : ~SetSfen(sfen.text, sfen.tsume).ok
    /\ \A sfen \in MCSfens : SetSfen(sfen.text, sfen.tsume).ok

MCRules == [entering : {"NoEnteringKing", "CSARule24", "CSARule24H", "CSARule27", "CSARule27H",
                        "TryRule"}, maxMoves : {0, 2}]
MCLimits == [t \in HandTypes \cup {"King"} |-> 2]
MCTry == ("black" :> 1) @@ ("white" :> 13)
MCFull == [t \in HandTypes |-> IF t \in {"Bishop", "Rook"} THEN 0 ELSE 1]
MCThresholds == [declare24 |-> 4, draw24 |-> 3, black27 |-> 4, white27 |-> 3]

FreePlies == 2
Cycling == past[1] \in {Sight(SetSfen(x.text, FALSE).P) : x \in CycleSfens}

MCInit ==
    /\ Init
    /\ \/ past[1] = Sight(SetSfen(Entered.text, FALSE).P)
       \/ rules = [entering |-> "CSARule27", maxMoves |-> 0]
MCNext ==
    /\ Next
    /\ IF Cycling
       THEN /\ past' # past   \* no null move
            /\ pos'.king["black"] \in {14, 15} /\ pos'.king["white"] \in {0, 1}
            /\ pos'.pieces["black"]["Rook"] \subseteq {8, 9}
       ELSE Len(history') <= FreePlies + 1
MCSpec == MCInit /\ [][MCNext]_vars
=============================================================================
