----------------------------- MODULE AlphaBeta ------------------------------
(***************************************************************************)
(* The tree searches of src/search.cpp: negamax with the transposition     *)
(* table, the quiescence search below it, and the search for mates by      *)
(* successive checks.                                                      *)
(*                                                                         *)
(* A game g is a graph.  A position is a board with the history that led   *)
(* to it, as a Position is: it has a key, which is the board's alone, so   *)
(* that several positions may share one; its moves, a move being the       *)
(* position it leads to; whether its side to move is in check; its end by  *)
(* rule for that side, if any, which the history may decide (repetition,   *)
(* perpetual check, the move limit); its evaluation; whether the move that *)
(* reached it was a capture or a promotion, and if so whether the exchange *)
(* loses; and the position after a pass, for a side with more than king    *)
(* and pawns.  For the properties it has what a position is worth, the     *)
(* depths from which a search sees all it needs, and which positions are   *)
(* timeless: nothing that can follow depends on how they were reached.     *)
(*                                                                         *)
(* A search s is the part of Search that outlives a node: the table, the   *)
(* generation, aborted_, the value returned last, and how many more times  *)
(* should_stop answers FALSE: a stop may come at any call of it.           *)
(*                                                                         *)
(* A search is a function from its calls to what it returns; a node is     *)
(* given the searches one level deeper.                                    *)
(***************************************************************************)
EXTENDS Scores, Sequences, SequencesExt

CONSTANTS
    MaxDepth,           \* kMaxDepth, of any search asked for and of any node
    MaxQuiescencePly,   \* kMaxQuiescencePly
    NullMinDepth, NullBase, NullMargin, NullMarginPerPly,   \* of the null move
    LateMinDepth, LateDeep, LateIndex, LateDeepIndex,   \* of the late move reduction
    NoMove              \* the move that is not valid

Larger(a, b)  == IF a >= b THEN a ELSE b
Smaller(a, b) == IF a <= b THEN a ELSE b

Positions(g)   == DOMAIN g.moves
Ended(g, p)    == g.ends[p] # "none"
Mated(g, p)    == ~Ended(g, p) /\ g.moves[p] = <<>> /\ g.inCheck[p]
Evaluate(g, p) == g.eval[p]

TerminalScore(g, p, ply) ==
    CASE g.ends[p] = "win"  -> TerminalWinScore - ply
      [] g.ends[p] = "loss" -> ply - TerminalWinScore
      [] g.ends[p] = "draw" -> 0

(* The moves that are in a set, in their order. *)
Keep(kept, m) == IF m.wanted THEN Append(kept, m.move) ELSE kept
Those(moves, set) ==
    FoldLeft(Keep, <<>>, [i \in DOMAIN moves |-> [move |-> moves[i], wanted |-> moves[i] \in set]])

CheckingMoves(g, p) == Those(g.moves[p], {m \in ToSet(g.moves[p]) : g.inCheck[m]})
TacticalMoves(g, p) ==
    IF g.inCheck[p] THEN g.moves[p] ELSE Those(g.moves[p], {m \in ToSet(g.moves[p]) : g.tactical[m]})

(* The table knows a move by the key it leads to. *)
Keys(g) == {g.key[p] : p \in Positions(g)}
KeyOf(g, m) == IF m = NoMove THEN NoMove ELSE g.key[m]

(* The move of the table comes first; killers, history and exchanges order
   the others, in the order the game lists them. *)
ScoreMoves(g, moves, ttMove) ==
    LET same == {i \in DOMAIN moves : g.key[moves[i]] = ttMove}
        at == CHOOSE i \in same : TRUE
    IN IF same = {} THEN moves
       ELSE [i \in DOMAIN moves |-> IF i = 1 THEN moves[at] ELSE IF i <= at THEN moves[i - 1] ELSE moves[i]]

-----------------------------------------------------------------------------
(* The search between two nodes. *)

Stops(s) == s.left = 0
Asked(s) == [s EXCEPT !.left = @ - 1]
Return(s, score) == [s EXCEPT !.score = score]
Abort(s, score)  == [s EXCEPT !.score = score, !.aborted = TRUE]
Negated(s) == [s EXCEPT !.score = -@]

(* An empty slot of the table. *)
NoEntry == [depth |-> -1, score |-> 0, bound |-> "Exact", move |-> NoMove, generation |-> 0]

Moves(g) == Positions(g) \cup {NoMove}
KeyMoves(g) == Keys(g) \cup {NoMove}
Entries(g) == [depth : Int, score : Int, bound : Bounds, move : KeyMoves(g), generation : Nat]
Tables(g) == [Keys(g) -> Entries(g)]
Searches(g) == [tt : Tables(g), generation : Nat, left : Int, score : Int, aborted : BOOLEAN]

(* The arguments of negamax and quiescence. *)
Calls(g) == [p : Positions(g), depth : Int, ply : Nat, alpha : Int, beta : Int, search : Searches(g)]
Call(p, depth, ply, alpha, beta, s) ==
    [p |-> p, depth |-> depth, ply |-> ply, alpha |-> alpha, beta |-> beta, search |-> s]

(* store_tt, and what store keeps of the same key. *)
StoreTT(g, s, p, depth, ply, score, alpha, beta, move) ==
    LET old == s.tt[g.key[p]]
        new == [depth |-> depth, score |-> ScoreToTT(score, ply), move |-> KeyOf(g, move),
                bound |-> BoundOf(score, alpha, beta), generation |-> s.generation]
    IN IF old.depth > depth /\ old.generation = s.generation THEN s
       ELSE [s EXCEPT !.tt[g.key[p]] = new]

(* mate_in_one: the first check that mates, 0 if none does; should_stop before
   each one tried. *)
FirstMate(g, checks) ==
    LET mates == {i \in DOMAIN checks : Mated(g, checks[i])}
    IN IF mates = {} THEN 0 ELSE CHOOSE i \in mates : \A j \in mates : i <= j

TryChecks(checks, found, s) ==
    LET tried == IF found = 0 THEN Len(checks) ELSE found
    IN IF s.left < tried
       THEN [search |-> Abort([s EXCEPT !.left = 0], s.score), move |-> NoMove]
       ELSE [search |-> [s EXCEPT !.left = @ - tried],
             move   |-> IF found = 0 THEN NoMove ELSE checks[found]]

MateInOne(g, p, s) == TryChecks(CheckingMoves(g, p), FirstMate(g, CheckingMoves(g, p)), s)

-----------------------------------------------------------------------------
(* Quiescence. *)

(* A capture that loses the exchange, unless it checks or leaves a check. *)
Skipped(g, p, m) == ~g.inCheck[p] /\ g.losing[m] /\ ~g.inCheck[m]

(* At the boundary every evasion is looked at, one ply deep. *)
Boundary(g, c, s) ==
    LET moves == g.moves[c.p]
        values == {IF Ended(g, m) THEN -TerminalScore(g, m, c.ply + 1) ELSE -Evaluate(g, m)
                     : m \in ToSet(moves)}
    IN IF ~g.inCheck[c.p] THEN Return(s, Evaluate(g, c.p))
       ELSE IF moves = <<>> THEN Return(s, c.ply - MateScore)
       ELSE IF s.left < Len(moves) THEN Abort([s EXCEPT !.left = 0], 0)
       ELSE Return([s EXCEPT !.left = @ - Len(moves)], Max(values))

(* The loop: n is the node, with alpha and the search as they are before m, and
   whether it is left. *)
TryTactical(n, m) ==
    LET r == Negated(n.deeper[Call(m, 0, n.ply + 1, -n.beta, -n.alpha, n.search)])
    IN IF n.over \/ Skipped(n.g, n.p, m) THEN n
       ELSE IF r.aborted THEN [n EXCEPT !.over = TRUE, !.search = Return(r, 0)]
       ELSE IF r.score >= n.beta THEN [n EXCEPT !.over = TRUE, !.search = r]
       ELSE [n EXCEPT !.alpha = Larger(@, r.score), !.search = r]

StandPat(g, c, deeper, s) ==
    LET raised == IF g.inCheck[c.p] THEN c.alpha ELSE Larger(c.alpha, Evaluate(g, c.p))
        moves == TacticalMoves(g, c.p)
        last == FoldLeft(TryTactical,
                         [g |-> g, p |-> c.p, ply |-> c.ply, beta |-> c.beta, deeper |-> deeper,
                          alpha |-> raised, search |-> s, over |-> FALSE], moves)
    IN IF ~g.inCheck[c.p] /\ Evaluate(g, c.p) >= c.beta THEN Return(s, Evaluate(g, c.p))
       ELSE IF moves = <<>> THEN Return(s, IF g.inCheck[c.p] THEN c.ply - MateScore ELSE raised)
       ELSE IF last.over THEN last.search
       ELSE Return(last.search, last.alpha)

QuiescenceNode(g, c, left, deeper) ==
    LET mate == IF c.ply = 1 THEN MateInOne(g, c.p, Asked(c.search))
                ELSE [search |-> Asked(c.search), move |-> NoMove]
        s == mate.search
        score == MateScore - c.ply - 1
    IN IF Stops(c.search) THEN Abort(c.search, Evaluate(g, c.p))
       ELSE IF Ended(g, c.p) THEN Return(Asked(c.search), TerminalScore(g, c.p, c.ply))
       ELSE IF c.ply >= MaxDepth THEN Return(Asked(c.search), Evaluate(g, c.p))
       ELSE IF mate.move # NoMove
       THEN Return(StoreTT(g, s, c.p, 0, c.ply, score, -Infinity, Infinity, mate.move), score)
       ELSE IF s.aborted THEN Return(s, 0)
       ELSE IF left = 0 THEN Boundary(g, c, s)
       ELSE StandPat(g, c, deeper, s)

Quiescence(g) ==
    LET search[left \in 0 .. MaxQuiescencePly] ==
            [c \in Calls(g) |-> QuiescenceNode(g, c, left, IF left = 0 THEN <<>> ELSE search[left - 1])]
    IN search[MaxQuiescencePly]

-----------------------------------------------------------------------------
(* Negamax.  A node n has the game, the position, the moves in their order, the
   depth and the ply, the window, and, as they are before the next move: alpha,
   the best score and its move, and the search. *)

(* The score of move i, searched to a depth in the window from a to b. *)
ChildScore(n, i, depth, a, b, s) ==
    Negated(n.deeper[Call(n.moves[i], depth - 1, n.ply + 1, -b, -a, s)])

(* A quiet move is reduced when it comes late, and further when it comes later
   still and much depth is left. *)
Reduction(n, i) ==
    LET m == n.moves[i]
    IN IF n.g.tactical[m] \/ n.g.inCheck[m] \/ n.g.inCheck[n.p] \/ n.depth < LateMinDepth \/ i <= LateIndex
       THEN 0
       ELSE IF n.depth >= LateDeep /\ i > LateDeepIndex THEN 2 ELSE 1

(* The principal variation search: the first move in the whole window, the
   others in an empty one (twice, the first time reduced if the move is late),
   and once more in the whole one if they may be better. *)
SearchChild(n, i) ==
    LET Empty(depth, s) == ChildScore(n, i, depth, n.alpha, n.alpha + 1, s)
        Whole(s) == ChildScore(n, i, n.depth, n.alpha, n.beta, s)
        first  == Empty(Larger(1, n.depth - Reduction(n, i)), n.search)
        second == IF ~first.aborted /\ first.score > n.alpha THEN Empty(n.depth, first) ELSE first
    IN IF i = 1 THEN Whole(n.search)
       ELSE IF ~second.aborted /\ second.score > n.alpha /\ second.score < n.beta THEN Whole(second)
       ELSE second

TryMove(n, i) ==
    LET r == SearchChild(n, i)
    IN IF n.search.aborted \/ n.alpha >= n.beta THEN n
       ELSE [n EXCEPT !.search = r, !.alpha = Larger(@, r.score), !.best = Larger(@, r.score),
                      !.move = IF r.score > n.best THEN n.moves[i] ELSE @]

(* Mutant: a search that is stopped stores what it has. *)
TryMovesStoresAborts(n) ==
    LET last == FoldLeft(TryMove, n, [i \in DOMAIN n.moves |-> i])
    IN Return(StoreTT(n.g, last.search, n.p, n.depth, n.ply, last.best, n.from, n.beta, last.move), last.best)

TryMoves(n) ==
    LET last == FoldLeft(TryMove, n, [i \in DOMAIN n.moves |-> i])
    IN IF last.search.aborted THEN Return(last.search, 0)
       ELSE Return(StoreTT(n.g, last.search, n.p, n.depth, n.ply, last.best, n.from, n.beta, last.move),
                   last.best)

(* A pass may be tried, with less depth: two in a row as well. *)
CanTryNullMove(g, p, depth, beta) ==
    /\ depth >= NullMinDepth
    /\ beta < DecisiveThreshold /\ beta > -DecisiveThreshold
    /\ ~g.inCheck[p] /\ g.null[p] # NoMove
    /\ Evaluate(g, p) >= beta - NullMargin - depth * NullMarginPerPly

NullDepth(depth) == depth - 1 - (NullBase + depth \div 4)

SearchMoves(n) ==
    LET pass == IF CanTryNullMove(n.g, n.p, n.depth, n.beta)
                THEN Negated(n.deeper[Call(n.g.null[n.p], NullDepth(n.depth), n.ply + 1,
                                           -n.beta, 1 - n.beta, n.search)])
                ELSE Return(n.search, -Infinity)
    IN IF pass.aborted THEN Return(pass, 0)
       ELSE IF pass.score >= n.beta THEN pass
       ELSE IF n.moves = <<>> THEN Return(pass, IF n.g.inCheck[n.p] THEN n.ply - MateScore ELSE 0)
       ELSE TryMoves([n EXCEPT !.search = pass])

NegamaxNode(g, c, deeper) ==
    LET s     == Asked(c.search)
        entry == s.tt[g.key[c.p]]
        hit   == entry.depth >= c.depth
        score == ScoreFromTT(entry.score, c.ply)
        a     == IF hit /\ entry.bound = "Lower" THEN Larger(c.alpha, score) ELSE c.alpha
        b     == IF hit /\ entry.bound = "Upper" THEN Smaller(c.beta, score) ELSE c.beta
    IN IF Stops(c.search) THEN Abort(c.search, Evaluate(g, c.p))
       ELSE IF Ended(g, c.p) THEN Return(s, TerminalScore(g, c.p, c.ply))
       ELSE IF c.ply >= MaxDepth THEN Return(s, Evaluate(g, c.p))
       ELSE IF c.depth <= 0 THEN Quiescence(g)[[c EXCEPT !.search = s]]
       ELSE IF hit /\ (entry.bound = "Exact" \/ a >= b) THEN Return(s, score)
       ELSE SearchMoves([g |-> g, p |-> c.p, moves |-> ScoreMoves(g, g.moves[c.p], entry.move),
                         depth |-> c.depth, ply |-> c.ply, from |-> c.alpha, beta |-> b,
                         deeper |-> deeper, alpha |-> a, best |-> -Infinity, move |-> NoMove,
                         search |-> s])

(* A search of some depth needs no more levels than that. *)
Negamax(g) ==
    LET search[left \in 0 .. MaxDepth] ==
            [c \in Calls(g) |-> NegamaxNode(g, c, IF left = 0 THEN <<>> ELSE search[left - 1])]
    IN search[MaxDepth]

-----------------------------------------------------------------------------
(* build_pv: the moves of this search's entries, as long as they are legal and
   the board is none seen before. *)
BuildPv(g, p, move, length, s) ==
    LET line[left \in 0 .. length] ==
            [x \in Positions(g) \X KeyMoves(g) \X SUBSET Keys(g) |->
                LET legal == {m \in ToSet(g.moves[x[1]]) : g.key[m] = x[2]}
                    next == CHOOSE m \in legal : TRUE
                IN IF left = 0 \/ Ended(g, x[1]) \/ legal = {} THEN <<>>
                   ELSE <<next>> \o (IF x[2] \in x[3] \/ s.tt[x[2]].generation # s.generation THEN <<>>
                                     ELSE line[left - 1][<<next, s.tt[x[2]].move, x[3] \cup {x[2]}>>])]
    IN line[length][<<p, KeyOf(g, move), {g.key[p]}>>]

-----------------------------------------------------------------------------
(* The search for mates: checks only, for the side to move at the root.  Its
   own search s has left, aborted, mate and line. *)
MateSearches(g) == [left : Int, aborted : BOOLEAN, mate : BOOLEAN, line : Seq(Positions(g))]
MateCalls(g) == [attack : BOOLEAN, p : Positions(g), search : MateSearches(g)]
MateCall(attack, p, s) == [attack |-> attack, p |-> p, search |-> s]

NoMate(s)   == [s EXCEPT !.mate = FALSE, !.line = <<>>]
AbortMate(s) == NoMate([s EXCEPT !.aborted = TRUE])
Mate(s, line) == [s EXCEPT !.mate = TRUE, !.line = line]

TryCheck(n, m) ==
    LET r == n.deeper[MateCall(FALSE, m, n.search)]
    IN IF n.search.mate \/ n.search.aborted THEN n
       ELSE [n EXCEPT !.search = IF r.mate THEN Mate(r, <<m>> \o r.line) ELSE NoMate(r)]

MateSearchAttack(g, p, remaining, deeper, s) ==
    IF Stops(s) THEN AbortMate(s)
    ELSE IF Ended(g, p) \/ remaining = 0 THEN NoMate(Asked(s))
    ELSE FoldLeft(TryCheck, [deeper |-> deeper, search |-> NoMate(Asked(s))], CheckingMoves(g, p)).search

(* The longest defence is kept. *)
TryEvasion(n, m) ==
    LET r == n.deeper[MateCall(TRUE, m, n.search)]
    IN IF n.over THEN n
       ELSE IF ~r.mate \/ r.aborted THEN [n EXCEPT !.over = TRUE, !.search = NoMate(r)]
       ELSE [n EXCEPT !.search = r, !.line = IF 1 + Len(r.line) > Len(@) THEN <<m>> \o r.line ELSE @]

MateSearchDefense(g, p, remaining, deeper, s) ==
    LET last == FoldLeft(TryEvasion, [deeper |-> deeper, search |-> Asked(s), line |-> <<>>, over |-> FALSE],
                         g.moves[p])
    IN IF Stops(s) THEN AbortMate(s)
       ELSE IF Ended(g, p) THEN NoMate(Asked(s))
       ELSE IF g.moves[p] = <<>> THEN IF g.inCheck[p] THEN Mate(Asked(s), <<>>) ELSE NoMate(Asked(s))
       ELSE IF remaining = 0 THEN NoMate(Asked(s))
       ELSE IF last.over THEN last.search
       ELSE Mate(last.search, last.line)

MateSearch(g, plies) ==
    LET search[remaining \in 0 .. plies] ==
            [c \in MateCalls(g) |->
                LET deeper == IF remaining = 0 THEN <<>> ELSE search[remaining - 1]
                IN IF c.attack THEN MateSearchAttack(g, c.p, remaining, deeper, c.search)
                   ELSE MateSearchDefense(g, c.p, remaining, deeper, c.search)]
    IN search[plies]

-----------------------------------------------------------------------------
(* What a position is worth when the game is played to its end: the reference
   the searches are compared with. *)
WorthOfMove(g, m) == ScoreFromTT(-g.value[m], 1)

IsWorth(g, p) ==
    IF Ended(g, p) THEN g.value[p] = TerminalScore(g, p, 0)
    ELSE IF g.moves[p] = <<>> THEN g.value[p] = IF g.inCheck[p] THEN -MateScore ELSE 0
    ELSE /\ \E m \in ToSet(g.moves[p]) : g.value[p] = WorthOfMove(g, m)
         /\ \A m \in ToSet(g.moves[p]) : g.value[p] >= WorthOfMove(g, m)

(* What the null move stands on: a side is never better off for a pass. *)
PassingNeverHelps(g) ==
    \A p \in g.timeless : g.null[p] # NoMove => g.value[p] >= WorthOfMove(g, g.null[p])

(* Whether what a search of a position to a depth claims from below, or from
   above, rests on the end of the game only, if that is so of every other from
   the depths that sees says.  A claim from below rests on one move, searched
   to the full depth, or on a pass; a claim from above on every move, and a late
   one may have less depth. *)
LowerSees(g, sees, p, depth) ==
    /\ \A m \in ToSet(g.moves[p]) : depth - 1 >= sees.upper[m]
    /\ g.null[p] # NoMove /\ ~g.inCheck[p] /\ depth >= NullMinDepth =>
           NullDepth(depth) >= sees.upper[g.null[p]]

UpperSees(g, sees, p, depth) ==
    LET late == IF Len(g.moves[p]) <= LateIndex \/ depth < LateMinDepth THEN 0
                ELSE IF depth >= LateDeep THEN 2 ELSE 1
    IN \A m \in ToSet(g.moves[p]) : Larger(0, depth - 1 - late) >= sees.lower[m]

(* From those depths that is so, and of any deeper search too, whose entries the
   table may have; without a search only an end is seen, since at the deepest
   ply there may be, even a mate is not. *)
SeesAll(g, p) ==
    LET sees == g.sees
    IN Ended(g, p) \/
       /\ sees.lower[p] > 0 /\ \A depth \in sees.lower[p] .. MaxDepth : LowerSees(g, sees, p, depth)
       /\ sees.upper[p] > 0 /\ \A depth \in sees.upper[p] .. MaxDepth : UpperSees(g, sees, p, depth)

(* Positions of one key have the same board: the same moves, in check or not, of
   one evaluation.  Two moves of a position lead to different boards. *)
KeysAgree(g) ==
    \A p, q \in Positions(g) : g.key[p] = g.key[q] =>
        /\ g.inCheck[p] = g.inCheck[q] /\ g.eval[p] = g.eval[q]
        /\ ~Ended(g, p) /\ ~Ended(g, q) =>
              /\ {g.key[m] : m \in ToSet(g.moves[p])} = {g.key[m] : m \in ToSet(g.moves[q])}
              /\ KeyOf(g, g.null[p]) = KeyOf(g, g.null[q])
        /\ \A r \in Positions(g) : {p, q} \subseteq ToSet(g.moves[r]) => p = q

(* Timeless positions are followed by such only, and are worth the same as any
   other position of their key, which is as timeless.  The others are those of
   whose worth a table without histories cannot tell. *)
ForgetsHistory(g) ==
    \A p \in g.timeless :
        /\ ToSet(g.moves[p]) \subseteq g.timeless
        /\ g.null[p] # NoMove => g.null[p] \in g.timeless
        /\ \A q \in Positions(g) : g.key[q] = g.key[p] =>
              /\ q \in g.timeless /\ g.value[q] = g.value[p]
              /\ g.sees.lower[q] = g.sees.lower[p] /\ g.sees.upper[q] = g.sees.upper[p]

(* The games there are.  They are short enough for every score to be recognized
   at every ply that a search reaches, and an evaluation is no such score. *)
MaxPly == MaxDepth + MaxQuiescencePly + 1

IsGame(g) ==
    /\ NoMove \notin Positions(g) \cup Keys(g)
    /\ g.moves \in [Positions(g) -> Seq(Positions(g))]
    /\ g.ends \in [Positions(g) -> {"none", "win", "loss", "draw"}]
    /\ {g.inCheck, g.tactical, g.losing} \subseteq [Positions(g) -> BOOLEAN]
    /\ g.eval \in [Positions(g) -> (1 - DecisiveThreshold) .. (DecisiveThreshold - 1)]
    /\ g.null \in [Positions(g) -> Moves(g)]
    /\ g.value \in [Positions(g) -> -MateScore .. MateScore]
    /\ {g.sees.lower, g.sees.upper} \subseteq [Positions(g) -> Nat]
    /\ g.timeless \subseteq Positions(g)
    /\ KeysAgree(g) /\ ForgetsHistory(g) /\ PassingNeverHelps(g)
    /\ \A p \in Positions(g) :
          /\ IsWorth(g, p)
          /\ g.value[p] = 0 \/ g.value[p] >= DecisiveThreshold + MaxPly
                            \/ g.value[p] <= -DecisiveThreshold - MaxPly
          /\ SeesAll(g, p)

(* What an entry of the table claims of its position is true: in any case from
   the depth that sees the end of the game, and at any depth if the claim is a
   win or a loss. *)
EntryIsTrue(g, p, e) ==
    /\ e.bound # "Upper" /\ (e.depth >= g.sees.lower[p] \/ e.score >= DecisiveThreshold) =>
          g.value[p] >= e.score
    /\ e.bound # "Lower" /\ (e.depth >= g.sees.upper[p] \/ e.score <= -DecisiveThreshold) =>
          g.value[p] <= e.score
=============================================================================
