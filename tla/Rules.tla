-------------------------------- MODULE Rules --------------------------------
(***************************************************************************)
(* The rules of shogi, from the board alone, as a referee would apply      *)
(* them: make the move, look whether the king stands in check.  The        *)
(* generators of MoveGen, which never make a move to see, are held to it.  *)
(***************************************************************************)
EXTENDS Position

Holding(board, color) == {s \in Squares : board[s].color = color}
Full(board) == {s \in Squares : board[s] # NoPiece}

Checked(board, color) ==
    \E king \in Squares :
        /\ board[king] = Piece(color, "King")
        /\ \E from \in Holding(board, Opposite(color)) :
              king \in AttacksFrom(from, board[from].type, Opposite(color), Full(board))

After(board, m, color) ==
    LET type == IF m.drop THEN m.piece ELSE board[m.from].type
        lifted == IF m.drop THEN board ELSE [board EXCEPT ![m.from] = NoPiece]
    IN [lifted EXCEPT ![m.to] = Piece(color, IF m.promote THEN Promote(type) ELSE type)]

(* Moves by the way of each piece, whatever they do to the own king. *)
BoardMoves(board, color) ==
    LET reach == UNION {{<<from, to>> : to \in AttacksFrom(from, board[from].type, color, Full(board))} :
                            from \in Holding(board, color)}
        allowed == {m \in {Move(r[1], r[2], board[r[1]].type, p) : r \in reach, p \in BOOLEAN} :
                       /\ board[m.to].color # color /\ board[m.to].type # "King"
                       /\ m.promote => /\ CanPromote(m.piece)
                                       /\ \/ InPromotionZone(color, m.from)
                                          \/ InPromotionZone(color, m.to)
                       /\ MustPromote(m.piece, color, m.to) => m.promote}
    IN allowed

Drops(board, hands, color) ==
    {m \in {Drop(to, t) : to \in Squares \ Full(board), t \in HandTypes} :
        /\ hands[color][m.piece] > 0
        /\ ~MustPromote(m.piece, color, m.to)
        /\ m.piece = "Pawn" =>
             \A s \in Squares : Col(s) = Col(m.to) => board[s] # Piece(color, "Pawn")}

Safe(board, moves, color) == {m \in moves : ~Checked(After(board, m, color), color)}

(* A pawn may not be dropped to mate. *)
PawnDropMate(board, hands, m, color) ==
    LET next == After(board, m, color)
        enemy == Opposite(color)
    IN /\ m.drop /\ m.piece = "Pawn"
       /\ Checked(next, enemy)
       /\ Safe(next, BoardMoves(next, enemy) \cup Drops(next, hands, enemy), enemy) = {}

LawfulMoves(board, hands, color) ==
    {m \in Safe(board, BoardMoves(board, color) \cup Drops(board, hands, color), color) :
        ~PawnDropMate(board, hands, m, color)}
=============================================================================
