----------------------------- MODULE RootSearch -----------------------------
(***************************************************************************)
(* find_best_move (src/search.cpp): a first look at every move, a search   *)
(* for a mate, then deeper and deeper searches of all the root moves, by   *)
(* one thread with a narrowing window or by several with a fixed one,      *)
(* until the depth is reached or a stop, the node limit or the deadline    *)
(* ends it.  The table outlives the search, which may be followed by       *)
(* another, from a later position.                                         *)
(*                                                                         *)
(* One step searches one root move.  Several workers search several moves  *)
(* in any order, each as one step on the table: SharedTT has the table at  *)
(* the grain of its words.  A limit is a call of should_stop that returns  *)
(* TRUE, at whichever of the node's calls.                                 *)
(***************************************************************************)
EXTENDS AlphaBeta, FiniteSets

CONSTANTS
    Games,             \* those played
    FirstRoot,         \* the position of the first search
    Options,           \* threads, multiPV, maxDepth, window, searchmoves of a search; patient:
                       \* infinite, or with a time limit of 200 ms or more
    AspirationMinDepth,
    MateSearchMaxPly,  \* kMateSearchMaxPly
    Cuts,              \* calls of should_stop before it returns TRUE
    MaxSearches, MaxStops

OptionsOf(g) == [threads : Nat \ {0}, multiPV : Nat \ {0}, maxDepth : 1 .. MaxDepth, window : Nat,
                 searchmoves : SUBSET Positions(g), patient : BOOLEAN]

ASSUME SearchAssumption ==
    /\ {MaxDepth, MaxQuiescencePly, NullMinDepth, NullBase, LateMinDepth, LateDeep, LateIndex,
        LateDeepIndex} \subseteq Nat
    /\ {NullMargin, NullMarginPerPly, AspirationMinDepth} \subseteq Nat
    /\ MaxPly <= TerminalWinScore - DecisiveThreshold
    /\ MateSearchMaxPly \in 1 .. (MateScore - DecisiveThreshold)
    /\ Cuts \subseteq Nat
    /\ \A g \in Games :
          IsGame(g) /\ FirstRoot \in Positions(g) /\ Options \subseteq OptionsOf(g)

(* More calls of should_stop than a search makes. *)
Never == 100000
None  == 0

VARIABLES
    game, root,
    tt, generation,
    options,     \* SearchOptions
    pc,
    depth,       \* of the iteration
    window,      \* window_alpha, window_beta
    moves,       \* root_moves, in order
    next,        \* the root move to search next
    scores,      \* of the moves searched in this pass, with their lines
    aborted,     \* aborted_ of any thread
    busy,        \* the root move each worker is at
    fallback, previousBest,
    result,      \* SearchResult
    lines,       \* what the multipv infos report
    bounds,      \* the scores reported as bounds in this iteration
    stopped,     \* stop, or a limit of the whole search, has been seen
    stops        \* searches ended early
vars == <<game, root, tt, generation, options, pc, depth, window, moves, next, scores, aborted,
          busy, fallback, previousBest, result, lines, bounds, stopped, stops>>

FullWindow == <<-Infinity, Infinity>>
NoResult   == [best |-> NoMove, score |-> 0, depth |-> 0, mate |-> FALSE, pv |-> <<>>]
Workers    == 1 .. options.threads

(* legal_moves, after searchmoves. *)
AllowedMoves(g, p, o) == Those(g.moves[p], o.searchmoves)

Restricted == options.searchmoves # Positions(game)

Threads(o, allowed) == Smaller(o.threads, Len(allowed))
MultiPV(o, allowed) == Smaller(o.multiPV, Len(allowed))

(* What the calls of should_stop may answer from here: once TRUE, always TRUE. *)
CutsNow == IF stopped THEN {0} ELSE IF stops < MaxStops THEN Cuts \cup {Never} ELSE {Never}

Search(cut) == [tt |-> tt, generation |-> generation, left |-> cut, score |-> 0, aborted |-> FALSE]

Init ==
    /\ game \in Games /\ root = FirstRoot
    /\ tt = [k \in Keys(game) |-> NoEntry] /\ generation = 0
    /\ options \in Options
    /\ pc = "idle" /\ depth = 0 /\ window = FullWindow /\ moves = <<>>
    /\ next = 1 /\ scores = <<>>
    /\ aborted = FALSE /\ busy = <<>>
    /\ fallback = NoMove /\ previousBest = NoMove
    /\ result = NoResult /\ lines = <<>> /\ bounds = {} /\ stopped = FALSE /\ stops = 0

-----------------------------------------------------------------------------
(* The start: a position that has ended or has no move to search is answered
   at once. *)
SetUp(allowed) ==
    /\ options' = [options EXCEPT !.threads = Threads(options, allowed),
                                  !.multiPV = MultiPV(options, allowed)]
    /\ busy' = [w \in 1 .. Threads(options, allowed) |-> None]

Begin ==
    /\ pc = "idle"
    /\ generation' = generation + 1
    /\ aborted' = FALSE /\ stopped' = FALSE /\ lines' = <<>> /\ bounds' = {}
    /\ LET allowed == AllowedMoves(game, root, options)
       IN IF Ended(game, root) \/ allowed = <<>>
          THEN /\ pc' = "done"
               /\ result' = [NoResult EXCEPT !.score =
                    IF Ended(game, root) THEN TerminalScore(game, root, 0)
                    ELSE IF Mated(game, root) THEN -MateScore ELSE 0]
               /\ UNCHANGED <<options, busy, moves, fallback>>
          ELSE /\ pc' = "fallback"
               /\ result' = NoResult /\ moves' = allowed /\ fallback' = allowed[1]
               /\ SetUp(allowed)
    /\ UNCHANGED <<game, root, tt, depth, window, next, scores, previousBest, stops>>

(* The first look: a mate in one for us, one against us, or the evaluation. *)
Seen(g, m, mate) ==
    Return(mate.search, IF mate.move # NoMove THEN 2 - MateScore ELSE -Evaluate(g, m))

Look(g, m, s) ==
    IF Ended(g, m) THEN Return(s, -TerminalScore(g, m, 1))
    ELSE IF Mated(g, m) THEN Return(s, MateScore - 1)
    ELSE Seen(g, m, MateInOne(g, m, s))

(* Until a limit is seen; n has the best move so far and its score. *)
Compared(n, m, r) ==
    IF r.aborted \/ r.score <= n.best THEN [n EXCEPT !.search = r]
    ELSE [n EXCEPT !.search = r, !.best = r.score, !.move = m]

LookAt(n, m) ==
    IF n.search.aborted THEN n
    ELSE IF Stops(n.search) THEN [n EXCEPT !.search = Abort(@, 0)]
    ELSE Compared(n, m, Look(n.game, m, Asked(n.search)))

Fallback ==
    /\ pc = "fallback"
    /\ \E cut \in CutsNow :
          LET r == FoldLeft(LookAt, [game |-> game, best |-> -Infinity, move |-> moves[1],
                                     search |-> Search(cut)], moves)
          IN /\ fallback' = r.move /\ previousBest' = r.move
             /\ stopped' = r.search.aborted
             /\ stops' = stops + (IF r.search.aborted THEN 1 ELSE 0)
             /\ aborted' = r.search.aborted
    /\ pc' = "mate"
    /\ UNCHANGED <<game, root, tt, generation, options, depth, window, moves, next,
                   scores, busy, result, lines, bounds>>

(* The search for a mate has limits of its own, a share of the whole search's:
   reaching them stops only it.  With several threads each checking move is a
   task, and the first in order of those proved is played, unless the caller
   then sees the limit; an earlier move that mates cuts later ones off. *)
MateLine(attack, p, plies, cut) ==
    MateSearch(game, plies)[MateCall(attack, p, [left |-> cut, aborted |-> FALSE,
                                                 mate |-> FALSE, line |-> <<>>])]

MateLineAfter(m, cut) ==
    LET r == MateLine(FALSE, m, MateSearchMaxPly - 1, cut)
    IN IF r.mate THEN <<m>> \o r.line ELSE <<>>

LineOfTeam(cuts) ==
    LET checks == CheckingMoves(game, root)
        proved == {i \in DOMAIN checks : MateLineAfter(checks[i], cuts[i]) # <<>>}
        first  == CHOOSE i \in proved : \A j \in proved : i <= j
    IN IF proved = {} THEN <<>> ELSE MateLineAfter(checks[first], cuts[first])

ProbeLine(cut) ==
    LET checks == CheckingMoves(game, root)
    IN IF cut = 0 \/ options.threads = 1 \/ Len(checks) < 2 THEN {MateLine(TRUE, root, MateSearchMaxPly, cut).line}
       ELSE IF cut = Never THEN {LineOfTeam([i \in DOMAIN checks |-> Never])}
       ELSE {<<>>} \cup {LineOfTeam(cuts) : cuts \in [DOMAIN checks -> {cut, Never}]}

Probes == ~Restricted /\ (options.maxDepth >= 3 \/ options.patient)

MateProbe ==
    /\ pc = "mate"
    /\ \E cut \in IF stopped THEN {0} ELSE Cuts \cup {Never} :
       \E line \in IF Probes THEN ProbeLine(cut) ELSE {<<>>} :
          IF line = <<>>
          THEN pc' = "iterate" /\ UNCHANGED result
          ELSE /\ pc' = "done"
               /\ result' = [best |-> line[1], score |-> MateScore - Len(line),
                             depth |-> MateSearchMaxPly, mate |-> TRUE, pv |-> line]
    /\ depth' = 0 /\ aborted' = FALSE
    /\ UNCHANGED <<game, root, tt, generation, options, window, moves, next, scores, busy,
                   fallback, previousBest, lines, bounds, stopped, stops>>

-----------------------------------------------------------------------------
(* An iteration. *)

(* The move of the table first, then the best so far. *)
RootOrder ==
    ScoreMoves(game, ScoreMoves(game, AllowedMoves(game, root, options), KeyOf(game, previousBest)),
               tt[game.key[root]].move)

(* With one principal variation, around the last score unless it is decisive. *)
WindowOf(d) ==
    IF /\ options.multiPV = 1 /\ result.depth > 0
       /\ d >= AspirationMinDepth /\ options.window > 0
       /\ result.score < DecisiveThreshold /\ result.score > -DecisiveThreshold
    THEN <<Larger(-Infinity, result.score - options.window),
           Smaller(Infinity, result.score + options.window)>>
    ELSE FullWindow

Answered ==
    result' = IF result.best = NoMove THEN [result EXCEPT !.best = fallback] ELSE result

NextIteration ==
    /\ pc = "iterate"
    /\ \E stop \in IF stopped THEN {TRUE} ELSE IF stops < MaxStops THEN BOOLEAN ELSE {FALSE} :
          IF stop \/ depth = options.maxDepth
          THEN /\ pc' = "done" /\ Answered
               /\ stopped' = (stopped \/ (stop /\ depth # options.maxDepth))
               /\ stops' = stops + (IF stopped' /\ ~stopped THEN 1 ELSE 0)
               /\ UNCHANGED <<depth, window, moves, next, scores>>
          ELSE /\ pc' = "pass"
               /\ depth' = depth + 1 /\ window' = WindowOf(depth + 1)
               /\ moves' = RootOrder
               /\ scores' = <<>> /\ next' = 1
               /\ UNCHANGED <<result, stopped, stops>>
    /\ bounds' = {}
    /\ UNCHANGED <<game, root, tt, generation, options, aborted, busy, fallback, previousBest, lines>>

(* The best of the moves searched: the first of those with the highest score. *)
BestOf(sc) ==
    CHOOSE i \in DOMAIN sc : /\ \A j \in DOMAIN sc : sc[j].score <= sc[i].score
                             /\ \A j \in DOMAIN sc : sc[j].score = sc[i].score => i <= j

(* With several principal variations or threads every move has the whole
   window of the pass; otherwise alpha rises with the best score. *)
Alone == options.threads = 1
Alpha ==
    IF options.multiPV > 1 \/ ~Alone \/ scores = <<>> THEN window[1]
    ELSE Larger(window[1], scores[BestOf(scores)].score)

Node == [g |-> game, moves |-> moves, ply |-> 0, deeper |-> Negamax(game)]

(* A root move in the whole window ... *)
SearchRootMove(i, s) ==
    IF Stops(s) THEN Abort(s, 0) ELSE ChildScore(Node, i, depth, window[1], window[2], Asked(s))

(* ... or, after the first, in an empty window, and in the whole one if it
   seems better. *)
Reexamined(i, s) ==
    IF ~s.aborted /\ s.score > Alpha /\ s.score < window[2]
    THEN ChildScore(Node, i, depth, Alpha, window[2], s) ELSE s

SearchInOrder(i, s) ==
    IF options.multiPV > 1 \/ i = 1 THEN SearchRootMove(i, s)
    ELSE IF Stops(s) THEN Abort(s, 0)
    ELSE Reexamined(i, ChildScore(Node, i, depth, Alpha, Alpha + 1, Asked(s)))

PvOf(m, table) == BuildPv(game, root, m, depth, [Search(Never) EXCEPT !.tt = table])

WithScore(sc, i, score) == [j \in DOMAIN sc \cup {i} |-> IF j = i THEN score ELSE sc[j]]

(* One thread that reports several lines builds each as it goes. *)
Took(i, r) ==
    /\ tt' = r.tt
    /\ scores' = IF r.aborted THEN scores
               ELSE WithScore(scores, i, [score |-> r.score,
                                          pv |-> IF Alone /\ options.multiPV > 1 THEN PvOf(moves[i], r.tt)
                                                 ELSE <<>>])
    /\ aborted' = (aborted \/ r.aborted)
    /\ stopped' = (stopped \/ r.aborted)
    /\ stops' = stops + (IF stopped' /\ ~stopped THEN 1 ELSE 0)

NextMove ==
    /\ pc = "pass" /\ Alone /\ ~aborted
    /\ next <= Len(moves) /\ (Alpha < window[2] \/ options.multiPV > 1)
    /\ \E cut \in CutsNow : Took(next, SearchInOrder(next, Search(cut)))
    /\ next' = next + 1
    /\ UNCHANGED <<game, root, generation, options, pc, depth, window, moves, busy,
                   fallback, previousBest, result, lines, bounds>>

(* The task of team_->run. *)
TakeMove(w) ==
    /\ pc = "pass" /\ ~Alone
    /\ busy[w] = None /\ next <= Len(moves)
    /\ busy' = [busy EXCEPT ![w] = next] /\ next' = next + 1
    /\ UNCHANGED <<game, root, tt, generation, options, pc, depth, window, moves, scores, aborted,
                   fallback, previousBest, result, lines, bounds, stopped, stops>>

SearchMove(w) ==
    /\ pc = "pass" /\ ~Alone
    /\ busy[w] # None
    /\ \E cut \in CutsNow : Took(busy[w], SearchRootMove(busy[w], Search(cut)))
    /\ busy' = [busy EXCEPT ![w] = None]
    /\ UNCHANGED <<game, root, generation, options, pc, depth, window, moves, next,
                   fallback, previousBest, result, lines, bounds>>

-----------------------------------------------------------------------------
(* The end of a pass. *)
PassOver ==
    /\ pc = "pass"
    /\ IF Alone THEN aborted \/ next > Len(moves) \/ (options.multiPV = 1 /\ Alpha >= window[2])
       ELSE next > Len(moves) /\ \A w \in Workers : busy[w] = None

BestScore == scores[BestOf(scores)].score
InWindow  == BestScore > window[1] /\ BestScore < window[2]

(* Mutant: what the interrupted pass has so far counts. *)
InterruptedKeepsBest ==
    /\ PassOver /\ aborted
    /\ pc' = "done"
    /\ IF scores = <<>> THEN Answered /\ UNCHANGED lines
       ELSE LET best == moves[BestOf(scores)]
            IN /\ result' = [best |-> best, score |-> BestScore, depth |-> depth, mate |-> FALSE,
                             pv |-> PvOf(best, tt)]
               /\ lines' = <<[move |-> best, score |-> BestScore, at |-> 1, pv |-> PvOf(best, tt)]>>
    /\ UNCHANGED <<game, root, tt, generation, options, depth, window, moves, next, scores, aborted,
                   busy, fallback, previousBest, bounds, stopped, stops>>

Interrupted ==
    /\ PassOver /\ aborted
    /\ pc' = "done" /\ Answered
    /\ UNCHANGED <<game, root, tt, generation, options, depth, window, moves, next, scores, aborted,
                   busy, fallback, previousBest, lines, bounds, stopped, stops>>

(* Mutant: the window stays. *)
ReopenKeepsWindow ==
    /\ PassOver /\ ~aborted /\ ~InWindow
    /\ bounds' = bounds \cup {[score |-> BestScore,
                               bound |-> IF BestScore <= window[1] THEN "Upper" ELSE "Lower"]}
    /\ scores' = <<>> /\ next' = 1
    /\ UNCHANGED <<game, root, tt, generation, options, pc, depth, window, moves, aborted, busy,
                   fallback, previousBest, result, lines, stopped, stops>>

(* A score out of the window is reported as a bound, and the moves are
   searched again in the whole window. *)
Reopen ==
    /\ PassOver /\ ~aborted /\ ~InWindow
    /\ bounds' = bounds \cup {[score |-> BestScore,
                               bound |-> IF BestScore <= window[1] THEN "Upper" ELSE "Lower"]}
    /\ window' = FullWindow
    /\ scores' = <<>> /\ next' = 1
    /\ UNCHANGED <<game, root, tt, generation, options, pc, depth, moves, aborted, busy,
                   fallback, previousBest, result, lines, stopped, stops>>

(* The moves by falling score, the earlier first: the k-th has k - 1 before it. *)
Before(i, j) ==
    scores[i].score > scores[j].score \/ (scores[i].score = scores[j].score /\ i < j)
Rank(i)   == Cardinality({j \in DOMAIN moves : Before(j, i)})
RankAt(k) == CHOOSE i \in DOMAIN moves : Rank(i) = k - 1

LineOf(i, table) ==
    [move |-> moves[i], score |-> scores[i].score, at |-> i,
     pv |-> IF Alone THEN scores[i].pv ELSE PvOf(moves[i], table)]

Ranked == [k \in DOMAIN moves |-> LineOf(RankAt(k), tt')]

Accept ==
    /\ PassOver /\ ~aborted /\ InWindow
    /\ LET best == moves[BestOf(scores)]
       IN /\ previousBest' = best
          /\ tt' = IF Restricted THEN tt
                   ELSE StoreTT(game, Search(Never), root, depth, 0, BestScore, -Infinity, Infinity, best).tt
          /\ lines' = IF options.multiPV = 1
                      THEN <<[move |-> best, score |-> BestScore, at |-> BestOf(scores),
                              pv |-> PvOf(best, tt')]>>
                      ELSE SubSeq(Ranked, 1, options.multiPV)
          /\ result' = [best |-> best, score |-> BestScore, depth |-> depth, mate |-> FALSE,
                        pv |-> lines'[1].pv]
    /\ pc' = "iterate"
    /\ UNCHANGED <<game, root, generation, options, depth, window, moves, next, scores, aborted,
                   busy, fallback, bounds, stopped, stops>>

(* The game goes on: the move is played and answered. *)
Replies == IF result.best = NoMove THEN <<>> ELSE game.moves[result.best]

PlayOn ==
    /\ pc = "done" /\ generation < MaxSearches
    /\ root' \in ToSet(Replies)
    /\ options' \in Options
    /\ pc' = "idle"
    /\ UNCHANGED <<game, tt, generation, depth, window, moves, next, scores, aborted, busy,
                   fallback, previousBest, result, lines, bounds, stopped, stops>>

Team == \E w \in Workers : TakeMove(w) \/ SearchMove(w)
EndPass == Interrupted \/ Reopen \/ Accept

(* Nothing more is asked. *)
Over ==
    /\ pc = "done"
    /\ generation = MaxSearches \/ Replies = <<>>
    /\ UNCHANGED vars

Next == \/ Begin \/ Fallback \/ MateProbe \/ NextIteration \/ NextMove \/ Team \/ EndPass
        \/ PlayOn \/ Over

Spec == Init /\ [][Next]_vars

-----------------------------------------------------------------------------
(* Properties. *)

Allowed == ToSet(AllowedMoves(game, root, options))
WorthOf(m) == WorthOfMove(game, m)

SawTheEnd == result.depth >= Larger(game.sees.lower[root], game.sees.upper[root])

(* The line of a move, of at most so many legal moves in turn; the second is
   what bestmove suggests to ponder on. *)
IsLine(pv, move, length) ==
    /\ pv # <<>> => pv[1] = move
    /\ Len(pv) <= length
    /\ \A i \in DOMAIN pv : pv[i] \in ToSet(game.moves[IF i = 1 THEN root ELSE pv[i - 1]])

(* The answer of find_best_move, however its search ended: a move it may play
   whenever there is one, with a line that begins with it and can be played; a
   mate that is forced in the plies it says; and, once an iteration has seen the
   whole game from a timeless position, the best move and its value, with the
   other lines in order.  Only a stop or a limit keeps it from the last depth. *)
AnswerIsBest ==
    pc = "done" =>
        /\ ~Ended(game, root) /\ Allowed # {} => result.best \in Allowed
        /\ IsLine(result.pv, result.best, result.depth)
        /\ result.depth > 0 => result.pv # <<>>
        /\ \A i \in DOMAIN lines : IsLine(lines[i].pv, lines[i].move, result.depth) /\ lines[i].pv # <<>>
        /\ result.mate => WorthOf(result.best) >= result.score
        /\ ~result.mate /\ result.depth > 0 /\ SawTheEnd /\ root \in game.timeless =>
              /\ result.score = Max({WorthOf(m) : m \in Allowed})
              /\ \A i \in DOMAIN lines :
                    /\ WorthOf(lines[i].move) = lines[i].score
                    /\ Cardinality({m \in Allowed : WorthOf(m) > lines[i].score}) < i
              /\ lines[1].move = result.best
        /\ ~Ended(game, root) /\ Allowed # {} /\ ~stopped =>
              result.mate \/ result.depth = options.maxDepth

(* What the table says of a timeless position is true, whatever search wrote it,
   however it was interrupted, and from whichever ply it is read.  Of a position
   whose worth rests on its history it may say what is true of another that has
   the same key. *)
TableIsTrue ==
    \A p \in game.timeless :
        LET entry == tt[game.key[p]] IN entry.depth >= 0 => EntryIsTrue(game, p, entry)

(* An iteration reports a bound at most once: a window once opened cannot fail, or
   the loop would not end.  And what it reports is one of what the moves to choose
   from are worth, if its depth sees the end of the game from a timeless position
   (below that depth, the score it then settles on may lie beyond). *)
BoundsHold ==
    [][ Reopen =>
        /\ bounds = {}
        /\ root \in game.timeless /\ depth >= Larger(game.sees.lower[root], game.sees.upper[root]) =>
              IF BestScore <= window[1] THEN \A m \in Allowed : WorthOf(m) <= BestScore
                                        ELSE \E m \in Allowed : WorthOf(m) >= BestScore ]_vars
=============================================================================
