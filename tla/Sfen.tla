-------------------------------- MODULE Sfen --------------------------------
(***************************************************************************)
(* The text of a position: to_sfen and set_sfen of src/position.cpp.  A    *)
(* text is a record of its four fields; the board and the hands are        *)
(* sequences of characters, a letter standing for its color and type.      *)
(***************************************************************************)
EXTENDS Position, Sequences, SequencesExt

CONSTANT PieceLimits   \* limits of set_sfen: how many of each unpromoted type

Bases == HandTypes \cup {"King"}   \* what a letter may stand for

(* 18 pawns at most: no count has more than two digits. *)
ASSUME LimitsAssumption == PieceLimits \in [Bases -> 0 .. 18]

Character(kind, n, piece) == [kind |-> kind, n |-> n, piece |-> piece]
Slash == Character("slash", 0, NoPiece)
Plus  == Character("plus", 0, NoPiece)
Digit(n) == Character("digit", n, NoPiece)
Letter(color, type) == Character("letter", 0, Piece(color, type))
Characters ==
    {Slash, Plus} \cup {Digit(n) : n \in 0 .. 9}
    \cup {Letter(color, type) : color \in Colors, type \in Bases}

IsText(sfen) ==
    /\ sfen.board \in Seq(Characters) /\ sfen.hands \in Seq(Characters)
    /\ sfen.side \in Colors /\ sfen.number \in Int

-----------------------------------------------------------------------------
(* to_sfen *)

(* A number, most significant digit first; the counts have at most two. *)
Number(n) == IF n >= 10 THEN <<Digit(n \div 10), Digit(n % 10)>> ELSE <<Digit(n)>>

Gap(n) == IF n > 0 THEN <<Digit(n)>> ELSE <<>>
PieceText(piece) ==
    (IF Unpromote(piece.type) # piece.type THEN <<Plus>> ELSE <<>>)
    \o <<Letter(piece.color, Unpromote(piece.type))>>

WriteSquare(row, piece) ==
    IF piece = NoPiece THEN [row EXCEPT !.empty = @ + 1]
    ELSE [text |-> row.text \o Gap(row.empty) \o PieceText(piece), empty |-> 0]

WriteRow(P, r) ==
    LET row == FoldLeft(WriteSquare, [text |-> <<>>, empty |-> 0],
                        [c \in 1 .. Cols |-> P.board[r * Cols + c - 1]])
    IN (IF r > 0 THEN <<Slash>> ELSE <<>>) \o row.text \o Gap(row.empty)

HandOrder == <<"Rook", "Bishop", "Gold", "Silver", "Knight", "Lance", "Pawn">>
WriteHand(P, color) ==
    FlattenSeq([i \in DOMAIN HandOrder |->
        LET count == P.hands[color][HandOrder[i]]
        IN IF count <= 0 THEN <<>>
           ELSE (IF count > 1 THEN Number(count) ELSE <<>>) \o <<Letter(color, HandOrder[i])>>])

ToSfen(P) ==
    [board  |-> FlattenSeq([r \in 1 .. Rows |-> WriteRow(P, r - 1)]),
     side   |-> P.side,
     hands  |-> WriteHand(P, "black") \o WriteHand(P, "white"),   \* none: "-"
     number |-> P.ply + 1]

-----------------------------------------------------------------------------
(* set_sfen: r is the position built so far and where the reading stands. *)

Refused(r) == [r EXCEPT !.ok = FALSE]

Counted(r, type, n) == [r EXCEPT !.totals[type] = @ + n]
TooMany(r, type, n) == r.totals[type] + n > PieceLimits[type]

ReadLetter(r, ch) ==
    LET base  == ch.piece.type
        color == ch.piece.color
        type  == IF r.promoted THEN Promote(base) ELSE base
    IN IF \/ r.col >= Cols \/ r.row >= Rows
          \/ TooMany(r, base, 1)
          \/ r.promoted /\ ~CanPromote(base)
          \/ base = "King" /\ r.P.king[color] # NoSquare
       THEN Refused(r)
       ELSE [Counted(r, base, 1) EXCEPT !.P = AddPiece(@, r.row * Cols + r.col, color, type),
                                        !.col = @ + 1, !.promoted = FALSE]

ReadBoard(r, ch) ==
    CASE ~r.ok -> r
      [] r.ok /\ ch.kind = "slash" ->
           IF r.col # Cols \/ r.promoted \/ r.row >= Rows - 1 THEN Refused(r)
           ELSE [r EXCEPT !.row = @ + 1, !.col = 0]
      [] r.ok /\ ch.kind = "plus" ->
           IF r.promoted THEN Refused(r) ELSE [r EXCEPT !.promoted = TRUE]
      [] r.ok /\ ch.kind = "digit" ->
           IF r.promoted \/ ch.n = 0 \/ r.col + ch.n > Cols THEN Refused(r)
           ELSE [r EXCEPT !.col = @ + ch.n]
      [] r.ok /\ ch.kind = "letter" -> ReadLetter(r, ch)

Give(P, color, type, n) ==
    FoldLeft(LAMBDA Q, i : AddHandPiece(Q, color, type), P, [i \in 1 .. n |-> i])

ReadHand(r, ch) ==
    LET n == IF r.count > 1 THEN r.count ELSE 1
    IN CASE ~r.ok -> r
         [] r.ok /\ ch.kind = "digit" ->
              IF r.count > 18 \/ (r.count = 0 /\ ch.n = 0) THEN Refused(r)
              ELSE [r EXCEPT !.count = @ * 10 + ch.n]
         [] r.ok /\ ch.kind = "letter" ->
              IF ch.piece.type = "King" \/ TooMany(r, ch.piece.type, n) THEN Refused(r)
              ELSE [Counted(r, ch.piece.type, n) EXCEPT
                       !.P = Give(@, ch.piece.color, ch.piece.type, n), !.count = 0]
         [] OTHER -> Refused(r)

(* A mate problem needs one king; a game needs both. *)
HasItsKings(P, tsume) ==
    IF tsume THEN \E color \in Colors : P.king[color] # NoSquare
             ELSE \A color \in Colors : P.king[color] # NoSquare

SetSfen(sfen, tsume) ==
    LET start == [P |-> EmptyPosition, ok |-> TRUE, row |-> 0, col |-> 0, promoted |-> FALSE,
                  count |-> 0, totals |-> [type \in Bases |-> 0]]
        board == FoldLeft(ReadBoard, start, sfen.board)
        whole == board.row = Rows - 1 /\ board.col = Cols /\ ~board.promoted
        turned == IF sfen.side = "white" THEN [board EXCEPT !.P = PassTurn(@)] ELSE board
        hands == FoldLeft(ReadHand, turned, sfen.hands)
    IN IF ~hands.ok \/ ~whole \/ hands.count # 0 \/ ~HasItsKings(hands.P, tsume) \/ sfen.number < 1
       THEN [ok |-> FALSE, P |-> hands.P]
       ELSE [ok |-> TRUE, P |-> [hands.P EXCEPT !.ply = sfen.number - 1]]
=============================================================================
