---------------------------- MODULE MCRootSearch ----------------------------
(***************************************************************************)
(* Games of four plies with two transpositions, one of them met at two     *)
(* plies when a second search starts further on.  The last positions end   *)
(* in every way, in mates of either side too; the side to move may be in   *)
(* check on the way, and the evaluations mislead shallow searches.  In     *)
(* some the side to move at 4 may pass, which leads to 12, and there the   *)
(* other side may pass back; in some 2 has a third move, which is late.    *)
(*                                                                         *)
(* In others the history matters.  The board of 5 and then of 7 is reached *)
(* through 2, where every move has been a check and 7 is the win of        *)
(* perpetual check, and through 3, where it is 15, 16 and a draw by        *)
(* repetition (to 11 the one who moves there would lose); or 6 leads back  *)
(* to the board of 1, from where the boards of 2 and 3 come up for the     *)
(* fourth time.                                                            *)
(***************************************************************************)
EXTENDS RootSearch

P == 1 .. 19

Graph(after7, wide, history) ==
    << <<2, 3>>, IF wide THEN <<5, 13, 14>> ELSE <<4, 5>>, IF history = "check" THEN <<15, 10>> ELSE <<5, 10>>,
       <<6, 7>>, <<7, 11>>, IF history = "circle" THEN <<8, 17>> ELSE <<8, 9>>,
       after7, <<>>, <<>>, <<6, 11>>, <<>>, <<8, 9>>, <<7>>, <<7, 11>>,
       <<16, 11>>, <<>>, <<18, 19>>, <<>>, <<>> >>

(* What history forgets: the board. *)
Board(history) == [p \in P |-> IF history = "none" \/ p < 15 THEN p ELSE <<5, 7, 1, 2, 3>>[p - 14]]

(* passes: the positions whose side to move may pass, of 4 and 12. *)
Graphed(end8, end9, after7, wide, checked, good, passes, history) ==
    LET key == Board(history)
    IN [moves    |-> Graph(after7, wide, history),
        key      |-> key,
        ends     |-> [p \in P |-> CASE p \in {7, 11} /\ history = "check" -> "win" [] p = 8 -> end8 [] p = 9 -> end9
                                    [] p \in {11, 16, 18, 19} -> "draw" [] OTHER -> "none"],
        inCheck  |-> [p \in P |-> key[p] \in checked \cup {7, 8, 9}],
        eval     |-> [p \in P |-> IF key[p] \in good THEN 3 ELSE 1],
        tactical |-> [p \in P |-> key[p] \in {5, 6, 9}],
        losing   |-> [p \in P |-> key[p] \in {5, 6}],
        null     |-> [p \in P |-> IF p \notin passes THEN NoMove ELSE IF p = 4 THEN 12 ELSE 4]]

(* The value of a position, from those its moves lead to. *)
RECURSIVE Worth(_, _)
Worth(g, p) ==
    IF Ended(g, p) THEN TerminalScore(g, p, 0)
    ELSE IF g.moves[p] = <<>> THEN IF g.inCheck[p] THEN -MateScore ELSE 0
    ELSE Max({ScoreFromTT(-Worth(g, m), 1) : m \in ToSet(g.moves[p])})

(* The least depths from which a search sees all it needs. *)
Deepen(g, least, p, Sees(_)) ==
    IF Ended(g, p) THEN 0
    ELSE Min({d \in least .. MaxDepth + 1 : d >= 1 /\ \A e \in d .. MaxDepth : Sees(e)})

RECURSIVE Horizon(_, _)
Horizon(g, sees) ==
    LET deeper == [lower |-> [p \in P |-> Deepen(g, sees.lower[p], p, LAMBDA e : LowerSees(g, sees, p, e))],
                   upper |-> [p \in P |-> Deepen(g, sees.upper[p], p, LAMBDA e : UpperSees(g, sees, p, e))]]
    IN IF deeper = sees THEN sees ELSE Horizon(g, deeper)

(* The most positions that can be timeless together. *)
RECURSIVE Forgetful(_, _)
Forgetful(g, S) ==
    LET kept == {p \in S : /\ ToSet(g.moves[p]) \cup ({g.null[p]} \ {NoMove}) \subseteq S
                           /\ \A q \in P : g.key[q] = g.key[p] =>
                                 /\ q \in S /\ g.value[q] = g.value[p]
                                 /\ g.sees.lower[q] = g.sees.lower[p] /\ g.sees.upper[q] = g.sees.upper[p]}
    IN IF kept = S THEN S ELSE Forgetful(g, kept)

Told(g) ==
    LET none == [p \in P |-> 0]
        seen == [value |-> [p \in P |-> Worth(g, p)],
                 sees  |-> Horizon(g, [lower |-> none, upper |-> none])] @@ g
    IN [timeless |-> Forgetful(seen, P)] @@ seen

Ends == {"none", "win", "loss", "draw"}   \* none: mated

Narrow == {Graphed(end8, end9, after7, FALSE, how.checked, how.good, {}, "none") :
              end8 \in Ends, end9 \in Ends, after7 \in {<<>>, <<9>>},
              how \in {[checked |-> {2, 6}, good |-> {4}], [checked |-> {2, 3}, good |-> {3, 5}]}}
Wide   == {Graphed(end8, end9, after7, TRUE, {6}, good, {}, "none") :
              end8 \in Ends, end9 \in Ends, after7 \in {<<>>, <<9>>}, good \in {{2, 5}}}
Passed == {Graphed(end8, end9, after7, FALSE, {2}, {4}, passes, "none") :
              end8 \in Ends, end9 \in Ends, after7 \in {<<>>, <<9>>}, passes \in {{4}, {4, 12}}}
Timed  == {Graphed(end8, end9, <<>>, FALSE, {2, 6}, {4}, {}, history) :
              end8 \in Ends, end9 \in {"none", "win"}, history \in {"check", "circle"}}

MCGames == {g \in {Told(h) : h \in Narrow \cup Wide \cup Passed \cup Timed} : PassingNeverHelps(g)}

Option(threads, multiPV, maxDepth, width, searchmoves, patient) ==
    [threads |-> threads, multiPV |-> multiPV, maxDepth |-> maxDepth, window |-> width,
     searchmoves |-> searchmoves, patient |-> patient]

MCOptions == {Option(1, 1, MaxDepth, 1, P, FALSE), Option(1, 2, MaxDepth, 1, P, FALSE),
              Option(2, 1, MaxDepth, 1, P, FALSE), Option(1, 1, 2, 0, P, TRUE),
              Option(1, 1, MaxDepth, 0, {3, 7, 11}, FALSE)}

MCCuts == {0, 1, 2, 4, 7, 11, 16}
=============================================================================
