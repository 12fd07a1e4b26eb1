------------------------------- MODULE Board -------------------------------
(***************************************************************************)
(* Squares, pieces and their attacks: the tables of src/position.cpp and   *)
(* the piece helpers of src/types.h.  A bitboard is a set of squares.      *)
(***************************************************************************)
EXTENDS Integers

CONSTANTS
    Rows, Cols,   \* kBoardSize; a model may have a smaller board
    ZoneRows      \* rows of the promotion zone: 3

ASSUME BoardAssumption ==
    /\ Rows \in Nat \ {0} /\ Cols \in Nat \ {0}
    /\ ZoneRows \in 2 .. Rows   \* with the two rows a knight cannot leave

Colors == {"black", "white"}
Opposite(color) == IF color = "black" THEN "white" ELSE "black"

Squares == 0 .. (Rows * Cols - 1)
NoSquare == -1
Row(s) == s \div Cols
Col(s) == s % Cols

(* The row as the color sees it, 0 the farthest. *)
Rank(color, s) == IF color = "black" THEN Row(s) ELSE Rows - 1 - Row(s)
InPromotionZone(color, s) == Rank(color, s) < ZoneRows

HandTypes == {"Pawn", "Lance", "Knight", "Silver", "Gold", "Bishop", "Rook"}
PromotedForm == [Pawn |-> "ProPawn", Lance |-> "ProLance", Knight |-> "ProKnight",
                 Silver |-> "ProSilver", Bishop |-> "Horse", Rook |-> "Dragon"]
CanPromote(type) == type \in DOMAIN PromotedForm
Promote(type) == IF CanPromote(type) THEN PromotedForm[type] ELSE type
Unpromote(type) ==
    IF \E t \in DOMAIN PromotedForm : PromotedForm[t] = type
    THEN CHOOSE t \in DOMAIN PromotedForm : PromotedForm[t] = type
    ELSE type
Golds == {"Gold", "ProPawn", "ProLance", "ProKnight", "ProSilver"}
Types == HandTypes \cup Golds \cup {"Horse", "Dragon", "King"}

(* must_promote; the same squares are closed to drops. *)
MustPromote(type, color, s) ==
    \/ type \in {"Pawn", "Lance"} /\ Rank(color, s) = 0
    \/ type = "Knight" /\ Rank(color, s) <= 1
DropMask == [color \in Colors |-> [type \in HandTypes |->
                {s \in Squares : ~MustPromote(type, color, s)}]]

ImpassePointValue(type) ==
    CASE Unpromote(type) \in {"Bishop", "Rook"} -> 5
      [] type = "King" -> 0
      [] OTHER -> 1

-----------------------------------------------------------------------------
(* Directions and steps are <<rows, columns>>, seen by black. *)

RookDirs   == {<<-1, 0>>, <<1, 0>>, <<0, -1>>, <<0, 1>>}
BishopDirs == {<<-1, -1>>, <<-1, 1>>, <<1, -1>>, <<1, 1>>}
LanceDir(color) == IF color = "black" THEN <<-1, 0>> ELSE <<1, 0>>

Steps(type) ==
    CASE type = "Pawn"    -> {<<-1, 0>>}
      [] type = "Knight"  -> {<<-2, -1>>, <<-2, 1>>}
      [] type = "Silver"  -> BishopDirs \cup {<<-1, 0>>}
      [] type \in Golds   -> RookDirs \cup {<<-1, -1>>, <<-1, 1>>}
      [] type = "King"    -> RookDirs \cup BishopDirs
      [] type = "Horse"   -> RookDirs
      [] type = "Dragon"  -> BishopDirs
      [] OTHER            -> {}

Offset(color, from, to) ==
    LET sign == IF color = "black" THEN 1 ELSE -1
    IN <<sign * (Row(to) - Row(from)), sign * (Col(to) - Col(from))>>
StepFrom == [color \in Colors |-> [type \in Types |-> [s \in Squares |->
                {to \in Squares : Offset(color, s, to) \in Steps(type)}]]]
StepTo == [color \in Colors |-> [type \in Types |-> [s \in Squares |->
                {from \in Squares : Offset(color, from, s) \in Steps(type)}]]]

Ray == [s \in Squares |-> [d \in RookDirs \cup BishopDirs |->
           {to \in Squares : \E n \in 1 .. (Rows + Cols) :
               Row(to) = Row(s) + n * d[1] /\ Col(to) = Col(s) + n * d[2]}]]
Between == [s \in Squares |-> [to \in Squares |->
               {x \in Squares : \E d \in RookDirs \cup BishopDirs :
                   x \in Ray[s][d] /\ to \in Ray[x][d]}]]

Lines(dirs) == [s \in Squares |-> UNION {Ray[s][d] : d \in dirs}]
RookLines == Lines(RookDirs)
BishopLines == Lines(BishopDirs)
LanceLines == [color \in Colors |-> Lines({LanceDir(color)})]

(* Along lines up to and with the first occupied square. *)
LineAttacks(lines, from, occupied) ==
    {to \in lines[from] : Between[from][to] \cap occupied = {}}
RookAttacks(from, occupied) == LineAttacks(RookLines, from, occupied)
BishopAttacks(from, occupied) == LineAttacks(BishopLines, from, occupied)
LanceAttacks(from, color, occupied) == LineAttacks(LanceLines[color], from, occupied)

AttacksFrom(from, type, color, occupied) ==
    StepFrom[color][type][from] \cup
        CASE type = "Lance" -> LanceAttacks(from, color, occupied)
          [] type \in {"Bishop", "Horse"} -> BishopAttacks(from, occupied)
          [] type \in {"Rook", "Dragon"} -> RookAttacks(from, occupied)
          [] OTHER -> {}
=============================================================================
