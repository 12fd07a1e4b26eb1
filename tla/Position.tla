------------------------------ MODULE Position ------------------------------
(***************************************************************************)
(* A position and the moves that change it (Position in src/position.cpp). *)
(* A position is a record that holds the same facts several times over, as *)
(* the class does: the board, the squares of each kind of piece, of each   *)
(* side and of all, the kings, and a Zobrist key, all kept up to date move *)
(* by move.  The key is the set of the features whose random numbers it is *)
(* the exclusive or of: no two positions share a key by accident.          *)
(***************************************************************************)
EXTENDS Board, FiniteSets

NoPiece == [color |-> "none", type |-> "Empty"]
Piece(color, type) == [color |-> color, type |-> type]

EmptyPosition ==
    [board    |-> [s \in Squares |-> NoPiece],
     hands    |-> [color \in Colors |-> [type \in HandTypes |-> 0]],
     pieces   |-> [color \in Colors |-> [type \in Types |-> {}]],
     own      |-> [color \in Colors |-> {}],
     occupied |-> {},
     king     |-> [color \in Colors |-> NoSquare],
     side     |-> "black",
     ply      |-> 0,
     key      |-> {}]

Xor(key, feature) == IF feature \in key THEN key \ {feature} ELSE key \cup {feature}
OnBoard(color, type, s) == <<color, type, s>>
InHand(color, type, n) == <<color, type, "hand", n>>   \* n more are under it
WhiteToMove == <<"white to move">>

AddPiece(P, s, color, type) ==
    [P EXCEPT !.key = Xor(@, OnBoard(color, type, s)),
              !.board[s] = Piece(color, type),
              !.occupied = @ \cup {s},
              !.own[color] = @ \cup {s},
              !.pieces[color][type] = @ \cup {s},
              !.king[color] = IF type = "King" THEN s ELSE @]

RemovePiece(P, s) ==
    LET color == P.board[s].color
        type == P.board[s].type
    IN IF P.board[s] = NoPiece THEN P
       ELSE [P EXCEPT !.key = Xor(@, OnBoard(color, type, s)),
                      !.board[s] = NoPiece,
                      !.occupied = @ \ {s},
                      !.own[color] = @ \ {s},
                      !.pieces[color][type] = @ \ {s},
                      !.king[color] = IF type = "King" THEN NoSquare ELSE @]

AddHandPiece(P, color, type) ==
    [P EXCEPT !.key = Xor(@, InHand(color, type, P.hands[color][type])),
              !.hands[color][type] = @ + 1]

RemoveHandPiece(P, color, type) ==
    [P EXCEPT !.key = Xor(@, InHand(color, type, P.hands[color][type] - 1)),
              !.hands[color][type] = @ - 1]

-----------------------------------------------------------------------------
(* Moves. *)

Move(from, to, piece, promote) ==
    [from |-> from, to |-> to, piece |-> piece, promote |-> promote, drop |-> FALSE]
Drop(to, piece) ==
    [from |-> NoSquare, to |-> to, piece |-> piece, promote |-> FALSE, drop |-> TRUE]

(* A null move changes the side and its key, and nothing else. *)
PassTurn(P) == [P EXCEPT !.side = Opposite(@), !.key = Xor(@, WhiteToMove)]

Captured(P, m) == IF m.drop THEN NoPiece ELSE P.board[m.to]

MakeMove(P, m) ==
    LET mover == P.side
        moved == P.board[m.from].type
        taken == Captured(P, m)
        Cleared == IF taken = NoPiece THEN P
                   ELSE RemovePiece(AddHandPiece(P, mover, Unpromote(taken.type)), m.to)
        Moved == IF m.drop
                 THEN RemoveHandPiece(AddPiece(P, m.to, mover, m.piece), mover, m.piece)
                 ELSE AddPiece(RemovePiece(Cleared, m.from), m.to, mover,
                               IF m.promote THEN Promote(moved) ELSE moved)
    IN PassTurn([Moved EXCEPT !.ply = @ + 1])

(* Mutant: a promoted piece that was taken comes back unpromoted. *)
UnmakeMoveUnpromoted(P, m, taken) ==
    LET Back == PassTurn([P EXCEPT !.ply = @ - 1])
        mover == Back.side
        moved == IF m.promote THEN Unpromote(P.board[m.to].type) ELSE P.board[m.to].type
        Moved == AddPiece(RemovePiece(Back, m.to), m.from, mover, moved)
    IN IF m.drop THEN AddHandPiece(RemovePiece(Back, m.to), mover, m.piece)
       ELSE IF taken = NoPiece THEN Moved
       ELSE RemoveHandPiece(AddPiece(Moved, m.to, taken.color, Unpromote(taken.type)),
                            mover, Unpromote(taken.type))

UnmakeMove(P, m, taken) ==
    LET Back == PassTurn([P EXCEPT !.ply = @ - 1])
        mover == Back.side
        moved == IF m.promote THEN Unpromote(P.board[m.to].type) ELSE P.board[m.to].type
        Moved == AddPiece(RemovePiece(Back, m.to), m.from, mover, moved)
    IN IF m.drop THEN AddHandPiece(RemovePiece(Back, m.to), mover, m.piece)
       ELSE IF taken = NoPiece THEN Moved
       ELSE RemoveHandPiece(AddPiece(Moved, m.to, taken.color, taken.type),
                            mover, Unpromote(taken.type))

-----------------------------------------------------------------------------
(* Whether all of a position says what its board, hands and side say. *)

BoardKey(board) ==
    {OnBoard(board[s].color, board[s].type, s) : s \in {x \in Squares : board[x] # NoPiece}}
HandKey(hands) ==
    UNION {{InHand(h[1], h[2], n) : n \in 0 .. (hands[h[1]][h[2]] - 1)} : h \in Colors \X HandTypes}
SideKey(side) == IF side = "white" THEN {WhiteToMove} ELSE {}

Exact(P) ==
    /\ P.board \in [Squares -> {NoPiece} \cup [color : Colors, type : Types]]
    /\ P.hands \in [Colors -> [HandTypes -> Nat]]
    /\ P.pieces = [color \in Colors |-> [type \in Types |->
                      {s \in Squares : P.board[s] = Piece(color, type)}]]
    /\ P.own = [color \in Colors |-> {s \in Squares : P.board[s].color = color}]
    /\ P.occupied = {s \in Squares : P.board[s] # NoPiece}
    /\ P.king \in [Colors -> Squares \cup {NoSquare}]
    /\ \A color \in Colors : \A s \in Squares : P.board[s] = Piece(color, "King") <=> P.king[color] = s
    /\ P.side \in Colors /\ P.ply \in Int
    /\ P.key = BoardKey(P.board) \cup HandKey(P.hands) \cup SideKey(P.side)

-----------------------------------------------------------------------------
(* Attacks. *)

(* Sliders on a line with s, whatever stands between. *)
AlignedSliders(P, s, by) ==
    LET bb == P.pieces[by]
    IN ((bb["Rook"] \cup bb["Dragon"]) \cap RookLines[s])
       \cup ((bb["Bishop"] \cup bb["Horse"]) \cap BishopLines[s])
       \cup (bb["Lance"] \cap LanceLines[Opposite(by)][s])

AttackersTo(P, s, by, occupied) ==
    {from \in P.own[by] : from \in StepTo[by][P.board[from].type][s]}
    \cup {from \in AlignedSliders(P, s, by) : Between[s][from] \cap occupied = {}}

InCheck(P, color) ==
    /\ P.king[color] # NoSquare
    /\ AttackersTo(P, P.king[color], Opposite(color), P.occupied) # {}

(* Whether s will be attacked when the move has been made, without making it. *)
AttackedAfterMove(P, s, by, m, moved) ==
    LET removed == IF m.drop THEN {} ELSE {m.from}
        occupied == (P.occupied \cup {m.to}) \ removed
        After(type) == (P.pieces[by][type] \ removed) \cup (IF type = moved THEN {m.to} ELSE {})
    IN \/ \E type \in Types : After(type) \cap StepTo[by][type][s] # {}
       \/ (After("Rook") \cup After("Dragon")) \cap RookAttacks(s, occupied) # {}
       \/ (After("Bishop") \cup After("Horse")) \cap BishopAttacks(s, occupied) # {}
       \/ After("Lance") \cap LanceAttacks(s, Opposite(by), occupied) # {}

GivesCheck(P, m) ==
    LET king == P.king[Opposite(P.side)]
        moved == IF m.drop THEN m.piece
                 ELSE IF m.promote THEN Promote(P.board[m.from].type) ELSE P.board[m.from].type
    IN king # NoSquare /\ AttackedAfterMove(P, king, P.side, m, moved)
=============================================================================
