-------------------------------- MODULE Game --------------------------------
(***************************************************************************)
(* A game: a position set up from an SFEN, its moves, the history of keys  *)
(* behind repetition, and the verdict of terminal_status                   *)
(* (src/position.cpp).  Whoever makes the moves may go on after a verdict, *)
(* as "position ... moves ..." does.                                       *)
(***************************************************************************)
EXTENDS MoveGen, Rules, Sfen, Sequences, FiniteSets, Functions

CONSTANTS
    Sfens,          \* texts of set-ups, each with whether it is a mate problem
    RuleSets,       \* records [entering, maxMoves]
    TrySquare,      \* kBlackTrySquare, kWhiteTrySquare
    FullCounts,     \* kFullPieceCounts
    CampPieces,     \* 10
    Thresholds,     \* [declare24, draw24, black27, white27]: 31, 24, 28, 27
    MaxPlies        \* bounds the moves of a game (no such limit in the code)

(* A game starts from a position of the rules: set_sfen does not ask whether the
   king of the side that is not to move could be taken, but no game and no mate
   problem begins so. *)
ASSUME GameAssumption ==
    /\ \A sfen \in Sfens :
          LET setUp == SetSfen(sfen.text, sfen.tsume)
          IN /\ IsText(sfen.text)
             /\ setUp.ok => ~InCheck(setUp.P, Opposite(setUp.P.side))
    /\ FullCounts \in [HandTypes -> Nat]
    /\ Thresholds \in [{"declare24", "draw24", "black27", "white27"} -> Nat]
    /\ Thresholds.declare24 >= Thresholds.draw24

VARIABLES
    pos, rules,
    history,   \* records [key, side, check], the newest last
    past       \* what was on the board at each of them (read by no action)
vars == <<pos, rules, history, past>>

-----------------------------------------------------------------------------
HistoryNode(P) == [key |-> P.key, side |-> P.side, check |-> InCheck(P, P.side)]
Sight(P) == <<P.board, P.hands, P.side>>

Init ==
    /\ \E sfen \in Sfens :
          /\ SetSfen(sfen.text, sfen.tsume).ok
          /\ pos = SetSfen(sfen.text, sfen.tsume).P
    /\ rules \in RuleSets
    /\ history = <<HistoryNode(pos)>> /\ past = <<Sight(pos)>>

-----------------------------------------------------------------------------
(* terminal_status *)

(* The same position as the newest node's, which after a null move is still that
   of the position before it. *)
Now == history[Len(history)]
Occurrences == {i \in DOMAIN history : history[i].key = Now.key}

IsRepetitionDraw == Cardinality(Occurrences) >= 4

(* The fourth occurrence from the end. *)
Earliest == CHOOSE i \in Occurrences : Cardinality({j \in Occurrences : j >= i}) = 4

IsPerpetualCheckLossForOpponent(P) ==
    /\ Now.check /\ IsRepetitionDraw
    /\ \A i \in Earliest .. Len(history) : history[i].side = P.side => history[i].check

IsTryRuleWin(P, color) == P.king[color] = TrySquare[color]

PointsOf(S, P) == SumFunctionOnSet([s \in Squares |-> ImpassePointValue(P.board[s].type)], S)
HandPoints(P, color) ==
    SumFunction([t \in HandTypes |-> P.hands[color][t] * ImpassePointValue(t)])
InCamp(P, color) == {s \in P.own[color] \ P.pieces[color]["King"] : InPromotionZone(color, s)}

ImpassePoints(P, color) == PointsOf(P.own[color], P) + HandPoints(P, color)
DeclarationPoints(P, color) == PointsOf(InCamp(P, color), P) + HandPoints(P, color)

(* Mutant: the bonus is the side's to move. *)
HandicapBonusOfMover(P, color) ==
    LET Total(type) == Cardinality({s \in P.occupied : Unpromote(P.board[s].type) = type})
                       + P.hands["black"][type] + P.hands["white"][type]
        Missing(type) == IF Total(type) < FullCounts[type] THEN FullCounts[type] - Total(type)
                         ELSE 0
    IN IF color # P.side \/ rules.entering \notin {"CSARule24H", "CSARule27H"} THEN 0
       ELSE SumFunction([t \in HandTypes |-> Missing(t) * ImpassePointValue(t)])

(* handicap_entering_king_bonus *)
HandicapBonus(P, color) ==
    LET Total(type) == Cardinality({s \in P.occupied : Unpromote(P.board[s].type) = type})
                       + P.hands["black"][type] + P.hands["white"][type]
        Missing(type) == IF Total(type) < FullCounts[type] THEN FullCounts[type] - Total(type)
                         ELSE 0
    IN IF color # "white" \/ rules.entering \notin {"CSARule24H", "CSARule27H"} THEN 0
       ELSE SumFunction([t \in HandTypes |-> Missing(t) * ImpassePointValue(t)])

Points27(color) == IF color = "black" THEN Thresholds.black27 ELSE Thresholds.white27
DeclarationThreshold(color) ==
    IF rules.entering \in {"CSARule24", "CSARule24H"} THEN Thresholds.declare24
    ELSE Points27(color)
ImpasseThreshold(color) ==
    IF rules.entering \in {"CSARule24", "CSARule24H"} THEN Thresholds.draw24
    ELSE Points27(color)

CountsPoints == rules.entering \notin {"NoEnteringKing", "TryRule"}

CanDeclareWin(P) ==
    LET color == P.side
    IN /\ CountsPoints
       /\ P.king[color] # NoSquare /\ InPromotionZone(color, P.king[color])
       /\ ~InCheck(P, color)
       /\ Cardinality(InCamp(P, color)) >= CampPieces
       /\ DeclarationPoints(P, color) + HandicapBonus(P, color) >= DeclarationThreshold(color)
       /\ ~MateInOneAgainst(P, color)

IsImpassePosition(P) ==
    \A color \in Colors : /\ P.king[color] # NoSquare
                          /\ InPromotionZone(color, P.king[color])
                          /\ ~InCheck(P, color)

EnoughPoints(P, color) == ImpassePoints(P, color) + HandicapBonus(P, color) >= ImpasseThreshold(color)

Status(outcome, reason) == [outcome |-> outcome, reason |-> reason]
Impasse(own, opponent) ==
    CASE own /\ opponent   -> Status("Draw", "Impasse")
      [] ~own /\ opponent  -> Status("Loss", "Impasse")
      [] own /\ ~opponent  -> Status("Win", "Impasse")
      [] OTHER             -> Status("None", "None")

(* The outcome is that of the side to move. *)
TerminalStatus(P) ==
    IF IsPerpetualCheckLossForOpponent(P) THEN Status("Win", "PerpetualCheck")
    ELSE IF rules.entering = "TryRule" /\ \E color \in Colors : IsTryRuleWin(P, color)
    THEN Status(IF IsTryRuleWin(P, "black") <=> P.side = "black" THEN "Win" ELSE "Loss", "TryRule")
    ELSE IF IsRepetitionDraw THEN Status("Draw", "Repetition")
    ELSE IF rules.maxMoves > 0 /\ P.ply >= rules.maxMoves /\ ~InCheck(P, P.side)
    THEN Status("Draw", "MoveLimit")
    ELSE IF CanDeclareWin(P) THEN Status("Win", "DeclarationWin")
    ELSE IF CountsPoints /\ IsImpassePosition(P)
    THEN Impasse(EnoughPoints(P, P.side), EnoughPoints(P, Opposite(P.side)))
    ELSE Status("None", "None")

-----------------------------------------------------------------------------
(* Mutant: the history is that of the side that has moved. *)
DoMoveBeforeHistory(m) ==
    /\ Len(history) <= MaxPlies
    /\ pos' = MakeMove(pos, m)
    /\ history' = Append(history, [HistoryNode(pos') EXCEPT !.side = pos.side])
    /\ past' = Append(past, Sight(pos'))
    /\ UNCHANGED rules

(* apply_usi_move and do_move: make_move, then append_history. *)
DoMove(m) ==
    /\ Len(history) <= MaxPlies
    /\ pos' = MakeMove(pos, m)
    /\ history' = Append(history, HistoryNode(pos'))
    /\ past' = Append(past, Sight(pos'))
    /\ UNCHANGED rules

(* make_null_move, where the search makes one: not in check, the game not over. *)
NullMove ==
    /\ ~InCheck(pos, pos.side) /\ TerminalStatus(pos).outcome = "None"
    /\ Now.side = pos.side   \* bounds null moves: not two in a row
    /\ pos' = PassTurn(pos)
    /\ UNCHANGED <<rules, history, past>>

Next == (\E m \in LegalMoves(pos) : DoMove(m)) \/ NullMove

Spec == Init /\ [][Next]_vars

-----------------------------------------------------------------------------
(* Properties. *)

(* add_piece, remove_piece and the hands keep board, bitboards, kings and key
   in step through every capture, promotion and drop, and unmake_move takes back
   whatever make_move has done. *)
PositionIsExact ==
    /\ Exact(pos)
    /\ \A m \in LegalMoves(pos) : UnmakeMove(MakeMove(pos, m), m, Captured(pos, m)) = pos

(* What to_sfen writes of a position, set_sfen reads back as the same position. *)
TextIsReadBack ==
    SetSfen(ToSfen(pos), ~HasItsKings(pos, FALSE)) = [ok |-> TRUE, P |-> pos]

(* Both of them: a position is what its board, hands, side and ply say. *)
StateIsExact == PositionIsExact /\ TextIsReadBack

(* The generators against the rules: the legal moves are those that obey the
   rules of each piece, of drops and of promotion and leave the own king safe,
   and has_legal_move, which lists none, knows whether there is one. *)
GeneratesLegalMoves ==
    /\ LegalMoves(pos) = LawfulMoves(pos.board, pos.hands, pos.side)
    /\ HasLegalMove(pos) <=> LegalMoves(pos) # {}
    /\ QuiescenceMoves(pos) = {m \in LegalMoves(pos) :
           InCheck(pos, pos.side) \/ m.promote \/ pos.board[m.to] # NoPiece}

(* The checking moves, found from the lines to the enemy king, are the legal
   moves after which it is in check; gives_check agrees. *)
GeneratesChecks ==
    LET Checks(m) == Checked(After(pos.board, m, pos.side), Opposite(pos.side))
    IN /\ CheckingMoves(pos) = {m \in LegalMoves(pos) : Checks(m)}
       /\ \A m \in LegalMoves(pos) : GivesCheck(pos, m) <=> Checks(m)

(* How often the newest position has been on the board, and whether one side has
   given check with every move since the first of the last four times. *)
Seen == {i \in 1 .. Len(past) : past[i] = past[Len(past)]}
FourthLast == CHOOSE i \in Seen : Cardinality({j \in Seen : j >= i}) = 4
Pressing(color) ==
    \A i \in FourthLast .. Len(past) :
        past[i][3] = Opposite(color) => Checked(past[i][1], Opposite(color))

(* Repetition is decided on keys: it is found exactly when the same board, hands
   and side have come up four times, and it is a loss of the side that has just
   moved exactly when that gave check, and did so with every move in between. *)
OnlyForReal(status) ==
    /\ status.reason \in {"Repetition", "PerpetualCheck"} => Cardinality(Seen) >= 4
    /\ Cardinality(Seen) >= 4 =>
         \/ status.reason = "TryRule"
         \/ status = IF Checked(pos.board, pos.side) /\ Pressing(Opposite(pos.side))
                     THEN Status("Win", "PerpetualCheck") ELSE Status("Draw", "Repetition")
RepetitionIsReal == OnlyForReal(TerminalStatus(pos))

(* Whoever is to move, the same board cannot be lost for both sides, nor won for
   both: what an impasse or a try gives to one side it takes from the other.  (A
   repetition is another matter: it is decided by who has moved, not by the board.) *)
Mirrored(mine, theirs) ==
    mine.reason \in {"Impasse", "TryRule"} =>
        /\ mine.outcome = "Loss" => theirs.outcome = "Win"
        /\ mine.outcome = "Win" => theirs.outcome = "Loss"
VerdictsMirror ==
    ~IsRepetitionDraw => Mirrored(TerminalStatus(pos), TerminalStatus(PassTurn(pos)))

(* A repetition, the first of the game, in which one side has given check with every
   move is a loss for that side. *)
FirstRepetition ==
    /\ Cardinality(Seen) >= 4
    /\ \A i \in 1 .. Len(past) - 1 : Cardinality({j \in 1 .. i : past[j] = past[i]}) < 4
PerpetualCheckLoses ==
    FirstRepetition =>
        \A color \in Colors :
            Pressing(color) /\ ~Pressing(Opposite(color)) =>
                TerminalStatus(pos).outcome = IF pos.side = color THEN "Loss" ELSE "Win"
=============================================================================
