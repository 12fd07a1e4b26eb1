------------------------------- MODULE MoveGen -------------------------------
(***************************************************************************)
(* The move generators of src/position.cpp.  They list legal moves without *)
(* making them: checkers, pins and lines of discovered check are found     *)
(* first, and each kind of piece is then kept to the squares these allow.  *)
(* The order of the list is left out: a list of moves is a set.            *)
(***************************************************************************)
EXTENDS Position

(* The one square of a set that has one: lsb. *)
TheOne(S) == CHOOSE s \in S : TRUE

(* Pieces of the color that stand alone between a king and a slider, each with
   the line from the king to the slider. *)
LinePins(P, king, color, sliders) ==
    LET Blockers(sniper) == Between[king][sniper] \cap P.occupied
        pinning == {s \in AlignedSliders(P, king, sliders) :
                       /\ Cardinality(Blockers(s)) = 1
                       /\ P.board[TheOne(Blockers(s))].color = color}
    IN [b \in {TheOne(Blockers(s)) : s \in pinning} |->
           TheOne({s \in pinning : Blockers(s) = {b}})]

(* prepare_gen_state. *)
GenState(P, color) ==
    LET king == P.king[color]
        enemy == Opposite(color)
        checkers == IF king = NoSquare THEN {} ELSE AttackersTo(P, king, enemy, P.occupied)
        snipers == IF king = NoSquare THEN << >> ELSE LinePins(P, king, color, enemy)
    IN [color    |-> color,
        checkers |-> checkers,
        mask     |-> IF Cardinality(checkers) = 1
                     THEN checkers \cup Between[king][TheOne(checkers)]
                     ELSE Squares,
        pinLine  |-> [b \in DOMAIN snipers |-> Between[king][snipers[b]] \cup {snipers[b]}]]

(* Where a piece of the type, put there by the color, attacks the king. *)
CheckTargets(type, color, king, occupied) ==
    IF type = "King" THEN {} ELSE StepTo[color][type][king] \cup
        CASE type = "Lance" -> LanceAttacks(king, Opposite(color), occupied)
          [] type \in {"Bishop", "Horse"} -> BishopAttacks(king, occupied)
          [] type \in {"Rook", "Dragon"} -> RookAttacks(king, occupied)
          [] OTHER -> {}

(* prepare_check_info.  With the enemy already in check (no legal position) the
   moves are filtered by gives_check instead. *)
CheckInfo(P, color) ==
    LET king == P.king[Opposite(color)]
        filter == king # NoSquare /\ AttackersTo(P, king, color, P.occupied) # {}
        snipers == IF king = NoSquare \/ filter THEN << >> ELSE LinePins(P, king, color, color)
    IN [king |-> king,
        filter |-> filter,
        line |-> [b \in DOMAIN snipers |-> Between[king][snipers[b]]]]

Direct(selection, info) == selection = "Checking" /\ ~info.filter

ShouldKeep(P, m, selection, inCheck) ==
    CASE selection = "All" -> TRUE
      [] selection = "Tactical" -> inCheck \/ P.board[m.to] # NoPiece \/ m.promote
      [] selection = "Checking" -> GivesCheck(P, m)

(* Squares a king may go to: it does not shelter behind itself. *)
KingTargets(P, king, color) ==
    LET enemy == Opposite(color)
    IN {to \in StepFrom[color]["King"][king] \ (P.own[color] \cup P.pieces[enemy]["King"]) :
           AttackersTo(P, to, enemy, P.occupied \ {king}) = {}}

KingMoves(P, state, selection, info) ==
    LET from == P.king[state.color]
        moves == {Move(from, to, "King", FALSE) : to \in KingTargets(P, from, state.color)}
    IN IF from = NoSquare THEN {}
       ELSE IF Direct(selection, info)
       THEN {m \in moves : from \in DOMAIN info.line /\ m.to \notin info.line[from]}
       ELSE {m \in moves : ShouldKeep(P, m, selection, state.checkers # {})}

(* add_move_variants and add_checking_variants: with and without promotion. *)
Variants(P, from, to, type) ==
    LET color == P.side
        may == /\ CanPromote(type)
               /\ InPromotionZone(color, from) \/ InPromotionZone(color, to)
    IN {Move(from, to, type, promote) : promote \in {p \in BOOLEAN :
            /\ P.board[to].type # "King"
            /\ IF p THEN may ELSE ~MustPromote(type, color, to)}}

(* Mutant: a piece that is pinned may leave its line. *)
PieceTargetsFree(P, state, from, type) ==
    (AttacksFrom(from, type, state.color, P.occupied) \ P.own[state.color]) \cap state.mask

PieceTargets(P, state, from, type) ==
    (AttacksFrom(from, type, state.color, P.occupied) \ P.own[state.color])
    \cap state.mask
    \cap (IF from \in DOMAIN state.pinLine THEN state.pinLine[from] ELSE Squares)

(* Mutant: a move along the line is taken for a discovered check. *)
OpensAnywhere(from, to, info) == from \in DOMAIN info.line

Opens(from, to, info) == from \in DOMAIN info.line /\ to \notin info.line[from]

(* A piece checks from its new square, or opens a line for another. *)
PieceChecks(P, m, info) ==
    LET landing == IF m.promote THEN Promote(m.piece) ELSE m.piece
    IN \/ m.to \in CheckTargets(landing, P.side, info.king, P.occupied \ {m.from})
       \/ Opens(m.from, m.to, info)

PieceMoves(P, state, type, selection, info) ==
    LET MovesFrom(from) ==
            UNION {Variants(P, from, to, type) : to \in PieceTargets(P, state, from, type)}
        moves == UNION {MovesFrom(from) : from \in P.pieces[state.color][type]}
    IN IF Direct(selection, info) THEN {m \in moves : PieceChecks(P, m, info)}
       ELSE {m \in moves : ShouldKeep(P, m, selection, state.checkers # {})}

-----------------------------------------------------------------------------
(* Evasions and drops. *)

Checkers(P) == AttackersTo(P, P.king[P.side], Opposite(P.side), P.occupied)
CanCapture(P, s, movers) == AttackersTo(P, s, P.side, P.occupied) \cap movers # {}

(* has_evasion without drops: the king moves, or a piece that is not pinned
   takes the only checker or steps between. *)
HasEvasionOnBoard(P, king) ==
    LET color == P.side
        checker == TheOne(Checkers(P))
        movers == P.own[color] \ (DOMAIN LinePins(P, king, color, Opposite(color)) \cup {king})
    IN \/ KingTargets(P, king, color) # {}
       \/ /\ Cardinality(Checkers(P)) = 1
          /\ P.board[checker].type # "King"
          /\ \E s \in {checker} \cup Between[king][checker] : CanCapture(P, s, movers)

(* A pawn drop that gives check and leaves no answer. *)
IsPawnDropMate(P, m) ==
    LET attacker == P.side
        king == P.king[Opposite(attacker)]
    IN /\ king # NoSquare
       /\ \/ m.to \in StepTo[attacker]["Pawn"][king]
          \/ AttackersTo(P, king, attacker, P.occupied) # {}
       /\ ~HasEvasionOnBoard(MakeMove(P, m), king)

PawnFiles(P, color) == {Col(s) : s \in P.pieces[color]["Pawn"]}

(* Where a piece in hand may be dropped; never two pawns on a file. *)
DropTargets(P, color, type) ==
    {s \in DropMask[color][type] \ P.occupied :
        type = "Pawn" => Col(s) \notin PawnFiles(P, color)}

DropMoves(P, state, enforce, selection, info) ==
    LET inCheck == state.checkers # {}
        types == {t \in HandTypes : P.hands[state.color][t] > 0}
        moves == UNION {{Drop(to, t) : to \in DropTargets(P, state.color, t) \cap state.mask} :
                            t \in types}
    IN IF selection = "Tactical" /\ ~inCheck THEN {}
       ELSE {m \in moves :
                /\ ~(enforce /\ m.piece = "Pawn" /\ IsPawnDropMate(P, m))
                /\ IF Direct(selection, info)
                   THEN m.to \in CheckTargets(m.piece, state.color, info.king, P.occupied)
                   ELSE ShouldKeep(P, m, selection, inCheck)}

(* A drop may also parry the check, if it stands between. *)
HasEvasion(P, king) ==
    \/ HasEvasionOnBoard(P, king)
    \/ /\ Cardinality(Checkers(P)) = 1
       /\ \E t \in {x \in HandTypes : P.hands[P.side][x] > 0} :
             \E s \in DropTargets(P, P.side, t) \cap Between[king][TheOne(Checkers(P))] :
                 t = "Pawn" => ~IsPawnDropMate(P, Drop(s, t))

-----------------------------------------------------------------------------
(* generate_moves. *)
GenerateFrom(P, state, info, drops, enforce, selection) ==
    IF selection = "Checking" /\ info.king = NoSquare THEN {}
    ELSE KingMoves(P, state, selection, info) \cup
         IF Cardinality(state.checkers) > 1 THEN {}
         ELSE (UNION {PieceMoves(P, state, t, selection, info) : t \in Types \ {"King"}})
              \cup (IF drops THEN DropMoves(P, state, enforce, selection, info) ELSE {})

Generate(P, drops, enforce, selection) ==
    GenerateFrom(P, GenState(P, P.side), CheckInfo(P, P.side), drops, enforce, selection)

LegalMoves(P) == Generate(P, TRUE, TRUE, "All")
QuiescenceMoves(P) == Generate(P, TRUE, TRUE, "Tactical")
CheckingMoves(P) == Generate(P, TRUE, TRUE, "Checking")

HasLegalMove(P) ==
    IF InCheck(P, P.side) THEN HasEvasion(P, P.king[P.side]) ELSE LegalMoves(P) # {}

(* opponent_has_mate_in_one, for a defender who is to move. *)
MateInOneAgainst(P, defender) ==
    LET Mates(A) == \E m \in CheckingMoves(A) : ~HasLegalMove(MakeMove(A, m))
    IN Mates(IF P.side = defender THEN PassTurn(P) ELSE P)
=============================================================================
