------------------------------ MODULE TTEntry -------------------------------
(***************************************************************************)
(* One entry of the transposition table as the search writes and reads it  *)
(* (src/search.cpp): store_tt turns a score at one ply into one that holds *)
(* at any ply and packs the entry into 54 bits; negamax unpacks it and     *)
(* turns the score back, at the ply where it meets the position again.     *)
(*                                                                         *)
(* The bit fields of the payload do not overlap, so the payload is a       *)
(* record of fields, each reduced to its width.                            *)
(***************************************************************************)
EXTENDS Scores

SquareCount == 81

CONSTANTS
    Plies,        \* the distances from the root at which the position is met
    Distances,    \* plies from the position to the end of the game it sees
    Evaluations,  \* the other scores
    EntryDepths, Moves, Generations

Valid(mv) == mv.to >= 0 /\ mv.to < SquareCount /\ mv.piece # 0

MoveType == [from : -1 .. (SquareCount - 1), to : -1 .. (SquareCount - 1), piece : 0 .. 14,
             promote : {0, 1}, drop : {0, 1}]

(* A game seen from the root ends within 256 plies: kMaxDepth is 64. *)
ASSUME EntryAssumption ==
    /\ Plies \subseteq 0 .. 128 /\ Distances \subseteq 0 .. 128
    /\ Evaluations \subseteq (1 - DecisiveThreshold) .. (DecisiveThreshold - 1)
    /\ EntryDepths \subseteq -1 .. 254 /\ Generations \subseteq 0 .. 255
    /\ Moves \subseteq MoveType

-----------------------------------------------------------------------------
(* Scores.  What a score says of the node, whatever the ply: *)
OutcomeType ==
         [kind : {"mate", "terminal"}, wins : BOOLEAN, in : Distances]
    \cup [kind : {"evaluation"}, value : Evaluations]

Signed(wins, s) == IF wins THEN s ELSE -s

(* ... and the score the search gives it at that ply: -kMateScore + ply in
   negamax and terminal_score at the leaf, negated from ply to ply above it. *)
ScoreAt(o, ply) ==
    CASE o.kind = "mate"       -> Signed(o.wins, MateScore - (ply + o.in))
      [] o.kind = "terminal"   -> Signed(o.wins, TerminalWinScore - (ply + o.in))
      [] o.kind = "evaluation" -> o.value

-----------------------------------------------------------------------------
(* Bits. *)

(* From the low end: 7 bits, 7 bits, 4 bits, 1 bit, 1 bit. *)
MoveBits(from, to, piece, promote, drop) ==
    from + 128 * (to + 128 * (piece + 16 * (promote + 2 * drop)))

(* Mutant: the -1 a drop comes from is not shifted into range. *)
EncodeMoveRaw(mv) ==
    IF Valid(mv) THEN MoveBits(mv.from % 128, mv.to, mv.piece, mv.promote, mv.drop)
    ELSE MoveBits(0, 0, 0, mv.promote, mv.drop)

EncodeMove(mv) ==
    IF Valid(mv) THEN MoveBits(mv.from + 1, mv.to, mv.piece, mv.promote, mv.drop)
    ELSE MoveBits(0, 0, 0, mv.promote, mv.drop)

DecodeMove(bits) ==
    LET above7  == bits \div 128
        above14 == above7 \div 128
        above18 == above14 \div 16
    IN [from |-> (bits % 128) - 1, to |-> above7 % 128, piece |-> above14 % 16,
        promote |-> above18 % 2, drop |-> (above18 \div 2) % 2]

ToInt16(bits) == IF bits >= 32768 THEN bits - 65536 ELSE bits

Pack(e) == [move |-> EncodeMove(e.move), score |-> e.score % 65536,
            depth |-> ((IF e.depth < -1 THEN -1 ELSE e.depth) + 1) % 256,
            bound |-> e.bound, generation |-> e.generation % 256]

Unpack(p) == [move |-> DecodeMove(p.move), score |-> ToInt16(p.score),
              depth |-> p.depth - 1, bound |-> p.bound, generation |-> p.generation]

-----------------------------------------------------------------------------
VARIABLES
    word,      \* the payload in the table
    outcome,   \* what the score last stored says of the position
    entry      \* the TTEntry last stored
entryVars == <<word, outcome, entry>>

NoMove == [from |-> -1, to |-> -1, piece |-> 0, promote |-> 0, drop |-> 0]

(* The entry store_tt makes of a score found at a ply within a window. *)
EntryOf(o, ply, depth, mv, generation, alpha, beta) ==
    LET score == ScoreAt(o, ply)
    IN [move |-> mv, score |-> ScoreToTT(score, ply), depth |-> depth,
        bound |-> BoundOf(score, alpha, beta), generation |-> generation]

(* store_tt, for a score that lies below, above or in the window. *)
StoreTT(o, ply, depth, mv, generation) ==
    /\ \E alpha \in {-Infinity, ScoreAt(o, ply)}, beta \in {ScoreAt(o, ply), Infinity} :
          entry' = EntryOf(o, ply, depth, mv, generation, alpha, beta)
    /\ word' = Pack(entry')
    /\ outcome' = o

Inputs == OutcomeType \X Plies \X EntryDepths \X Moves \X Generations

(* An entry is stored before it is read: the table is empty at first. *)
EntryInit ==
    \E i \in Inputs :
        /\ outcome = i[1]
        /\ entry = EntryOf(i[1], i[2], i[3], i[4], i[5], -Infinity, Infinity)
        /\ word = Pack(entry)

EntryNext == \E i \in Inputs : StoreTT(i[1], i[2], i[3], i[4], i[5])

EntrySpec == EntryInit /\ [][EntryNext]_entryVars

-----------------------------------------------------------------------------
(* Properties. *)

(* The score negamax uses when probe finds the entry at this ply. *)
ScoreReadAt(ply) == ScoreFromTT(Unpack(word).score, ply)

(* A score written at one ply and read at any other says of the position what
   it said before: the same winner in the same number of plies from there. *)
ScoreSurvives == \A ply \in Plies : ScoreReadAt(ply) = ScoreAt(outcome, ply)

(* Packing loses nothing: not a bound, not the sign of a score, not the move of
   a drop, and no move stays no move. *)
EntrySurvives ==
    LET e == Unpack(word)
    IN /\ e.score = entry.score /\ e.depth = entry.depth /\ e.bound = entry.bound
       /\ e.generation = entry.generation
       /\ IF Valid(entry.move) THEN e.move = entry.move ELSE ~Valid(e.move)
=============================================================================
