-------------------------- MODULE RootSearchProofs ---------------------------
(***************************************************************************)
(* TLAPS proofs about the searches, for every game, depth and window,      *)
(* whatever is in the table, and wherever a search is stopped.             *)
(***************************************************************************)
EXTENDS RootSearch, FiniteSetTheorems, TLAPS

-----------------------------------------------------------------------------
(* Scores at a ply.  What a position is worth, seen from a node at some ply. *)
At(g, p, ply) == ScoreFromTT(g.value[p], ply)

(* What a score claims of it from below and from above, once the depth sees the
   end of the game or the score is a win or a loss: nothing, if the value may
   rest on the history. *)
SeesBelow(g, p, d, score) == p \in g.timeless /\ (d >= g.sees.lower[p] \/ score >= DecisiveThreshold)
SeesAbove(g, p, d, score) == p \in g.timeless /\ (d >= g.sees.upper[p] \/ score <= -DecisiveThreshold)

Below(g, p, d, ply, score) == SeesBelow(g, p, d, score) => At(g, p, ply) >= score
Above(g, p, d, ply, score) == SeesAbove(g, p, d, score) => At(g, p, ply) <= score

Scales == /\ MateScore = 30000 /\ TerminalWinScore = 29000 /\ DecisiveThreshold = 28744 /\ Infinity = 32000
          /\ MaxPly \in Nat /\ MaxPly <= 256

LEMMA ScalesHold == SearchAssumption => Scales
BY DEF SearchAssumption, Scales, MateScore, TerminalWinScore, DecisiveThreshold, Infinity, MaxPly

LEMMA GameTypes ==
    ASSUME NEW g, IsGame(g), NEW p \in Positions(g)
    PROVE  /\ g.moves[p] \in Seq(Positions(g)) /\ NoMove \notin Positions(g) /\ NoMove \notin Keys(g)
           /\ g.ends[p] \in {"none", "win", "loss", "draw"}
           /\ g.inCheck[p] \in BOOLEAN /\ g.tactical[p] \in BOOLEAN /\ g.losing[p] \in BOOLEAN
           /\ g.eval[p] \in Int /\ g.eval[p] > -DecisiveThreshold /\ g.eval[p] < DecisiveThreshold
           /\ g.null[p] \in Positions(g) \cup {NoMove}
           /\ g.value[p] \in Int /\ -MateScore <= g.value[p] /\ g.value[p] <= MateScore
           /\ g.sees.lower[p] \in Nat /\ g.sees.upper[p] \in Nat
<1>1. 1 - DecisiveThreshold \in Int /\ DecisiveThreshold - 1 \in Int /\ DecisiveThreshold \in Int
  BY DEF DecisiveThreshold, TerminalWinScore, MateScore
<1>2. g.eval[p] \in (1 - DecisiveThreshold) .. (DecisiveThreshold - 1)
  BY DEF IsGame
<1>3. g.eval[p] \in Int /\ g.eval[p] > -DecisiveThreshold /\ g.eval[p] < DecisiveThreshold
  BY <1>1, <1>2
<1>4. /\ g.inCheck \in [Positions(g) -> BOOLEAN] /\ g.tactical \in [Positions(g) -> BOOLEAN]
      /\ g.losing \in [Positions(g) -> BOOLEAN]
      /\ g.sees.lower \in [Positions(g) -> Nat] /\ g.sees.upper \in [Positions(g) -> Nat]
  BY DEF IsGame
<1>5. /\ g.moves[p] \in Seq(Positions(g)) /\ NoMove \notin Positions(g) /\ NoMove \notin Keys(g)
      /\ g.ends[p] \in {"none", "win", "loss", "draw"}
      /\ g.null[p] \in Positions(g) \cup {NoMove}
  BY DEF IsGame, Moves
<1>6. g.value[p] \in Int /\ -MateScore <= g.value[p] /\ g.value[p] <= MateScore
  <2>1. g.value[p] \in -MateScore .. MateScore
    BY DEF IsGame
  <2>2. MateScore \in Int /\ -MateScore \in Int
    BY DEF MateScore
  <2> QED BY <2>1, <2>2
<1> QED BY <1>3, <1>4, <1>5, <1>6

LEMMA MovesAre ==
    ASSUME NEW g, IsGame(g), NEW p \in Positions(g)
    PROVE  /\ ToSet(g.moves[p]) = {g.moves[p][i] : i \in 1 .. Len(g.moves[p])}
           /\ ToSet(g.moves[p]) \subseteq Positions(g)
           /\ Len(g.moves[p]) \in Nat
BY GameTypes DEF ToSet

LEMMA MoveListed ==
    ASSUME NEW g, IsGame(g), NEW p \in Positions(g), NEW m, m \in ToSet(g.moves[p])
    PROVE  \E i \in 1 .. Len(g.moves[p]) : g.moves[p][i] = m
BY MovesAre

(* What the table knows of a position: its key. *)
LEMMA KeyIs ==
    ASSUME NEW g, NEW p \in Positions(g)
    PROVE  g.key[p] \in Keys(g)
BY DEF Keys

LEMMA KeyOfIs ==
    ASSUME NEW g, NEW m \in Moves(g)
    PROVE  KeyOf(g, m) \in KeyMoves(g)
BY DEF Moves, KeyOf, KeyMoves, Keys

(* After a timeless position there are such only, and what its key says of one
   it says of all. *)
LEMMA TimelessMoves ==
    ASSUME NEW g, IsGame(g), NEW p \in Positions(g), p \in g.timeless
    PROVE  /\ \A m \in ToSet(g.moves[p]) : m \in g.timeless
           /\ g.null[p] # NoMove => g.null[p] \in g.timeless
BY DEF IsGame, ForgetsHistory

LEMMA TimelessKeys ==
    ASSUME NEW g, IsGame(g), NEW p \in Positions(g), NEW q \in Positions(g), g.key[q] = g.key[p]
    PROVE  /\ q \in g.timeless => p \in g.timeless
           /\ p \in g.timeless => /\ q \in g.timeless /\ g.value[q] = g.value[p]
                                 /\ g.sees.lower[q] = g.sees.lower[p] /\ g.sees.upper[q] = g.sees.upper[p]
BY DEF IsGame, ForgetsHistory

LEMMA FromTT ==
    ASSUME Scales, NEW v \in Int, NEW ply \in Nat
    PROVE  ScoreFromTT(v, ply) = IF v >= 28744 THEN v - ply ELSE IF v <= -28744 THEN v + ply ELSE v
BY DEF ScoreFromTT, Scales

LEMMA ToTT ==
    ASSUME Scales, NEW v \in Int, NEW ply \in Nat
    PROVE  ScoreToTT(v, ply) = IF v >= 28744 THEN v + ply ELSE IF v <= -28744 THEN v - ply ELSE v
BY DEF ScoreToTT, Scales

LEMMA TerminalScores ==
    ASSUME Scales, NEW g, IsGame(g), NEW p \in Positions(g), Ended(g, p), NEW ply \in Nat
    PROVE  /\ g.ends[p] = "win" => TerminalScore(g, p, ply) = 29000 - ply
           /\ g.ends[p] = "loss" => TerminalScore(g, p, ply) = ply - 29000
           /\ g.ends[p] = "draw" => TerminalScore(g, p, ply) = 0
           /\ g.ends[p] \in {"win", "loss", "draw"}
<1>1. g.ends[p] \in {"win", "loss", "draw"}
  BY GameTypes DEF Ended
<1> QED BY <1>1 DEF TerminalScore, Scales

LEMMA ValuesAreClear ==
    ASSUME Scales, NEW g, IsGame(g), NEW p \in Positions(g)
    PROVE  g.value[p] \in Int /\ (g.value[p] = 0 \/ g.value[p] >= 28744 + MaxPly \/ g.value[p] <= -28744 - MaxPly)
<1>1. g.value[p] = 0 \/ g.value[p] >= DecisiveThreshold + MaxPly \/ g.value[p] <= -DecisiveThreshold - MaxPly
  BY DEF IsGame
<1> QED BY <1>1, GameTypes DEF Scales

(* What a position's own end or its moves make of its value. *)
LEMMA EndedAt ==
    ASSUME Scales, NEW g, IsGame(g), NEW p \in Positions(g), Ended(g, p), NEW ply \in Nat, ply <= MaxPly
    PROVE  At(g, p, ply) = TerminalScore(g, p, ply) /\ TerminalScore(g, p, ply) \in Int
<1>1. g.value[p] = TerminalScore(g, p, 0)
  BY DEF IsGame, IsWorth
<1>2. At(g, p, ply) = IF g.value[p] >= 28744 THEN g.value[p] - ply
                      ELSE IF g.value[p] <= -28744 THEN g.value[p] + ply ELSE g.value[p]
  BY GameTypes, FromTT DEF At
<1>3. 0 \in Nat
  OBVIOUS
<1>4. CASE g.ends[p] = "win"
  <2>1. TerminalScore(g, p, 0) = 29000 - 0 /\ TerminalScore(g, p, ply) = 29000 - ply
    BY <1>3, <1>4, TerminalScores
  <2> QED BY <1>1, <1>2, <2>1 DEF Scales
<1>5. CASE g.ends[p] = "loss"
  <2>1. TerminalScore(g, p, 0) = 0 - 29000 /\ TerminalScore(g, p, ply) = ply - 29000
    BY <1>3, <1>5, TerminalScores
  <2> QED BY <1>1, <1>2, <2>1 DEF Scales
<1>6. CASE g.ends[p] = "draw"
  <2>1. TerminalScore(g, p, 0) = 0 /\ TerminalScore(g, p, ply) = 0
    BY <1>3, <1>6, TerminalScores
  <2> QED BY <1>1, <1>2, <2>1 DEF Scales
<1> QED BY <1>4, <1>5, <1>6, TerminalScores

LEMMA NoMovesAt ==
    ASSUME Scales, NEW g, IsGame(g), NEW p \in Positions(g), ~Ended(g, p), g.moves[p] = <<>>,
           NEW ply \in Nat, ply <= MaxPly
    PROVE  At(g, p, ply) = IF g.inCheck[p] THEN ply - MateScore ELSE 0
<1>1. g.value[p] = IF g.inCheck[p] THEN -MateScore ELSE 0
  BY DEF IsGame, IsWorth
<1>2. g.value[p] \in Int /\ At(g, p, ply) = IF g.value[p] >= 28744 THEN g.value[p] - ply
                      ELSE IF g.value[p] <= -28744 THEN g.value[p] + ply ELSE g.value[p]
  BY GameTypes, FromTT DEF At
<1> QED BY <1>1, <1>2, GameTypes DEF Scales

(* A move is worth to its side what the position it leads to is worth to the
   other, and the position what its best move is. *)
LEMMA MoveAt ==
    ASSUME Scales, NEW g, IsGame(g), NEW p \in Positions(g), NEW m \in Positions(g),
           NEW ply \in Nat, ply + 1 <= MaxPly
    PROVE  /\ At(g, p, ply) \in Int /\ At(g, m, ply + 1) \in Int
           /\ g.value[p] >= WorthOfMove(g, m) => At(g, p, ply) >= -At(g, m, ply + 1)
           /\ g.value[p] = WorthOfMove(g, m) => At(g, p, ply) = -At(g, m, ply + 1)
<1> DEFINE v == g.value[p]
           w == g.value[m]
<1>1. /\ v \in Int /\ (v = 0 \/ v >= 28744 + MaxPly \/ v <= -28744 - MaxPly)
      /\ w \in Int /\ (w = 0 \/ w >= 28744 + MaxPly \/ w <= -28744 - MaxPly)
  BY ValuesAreClear
<1>2. At(g, p, ply) = IF v >= 28744 THEN v - ply ELSE IF v <= -28744 THEN v + ply ELSE v
  BY <1>1, FromTT DEF At
<1>3. At(g, m, ply + 1) = IF w >= 28744 THEN w - (ply + 1) ELSE IF w <= -28744 THEN w + (ply + 1) ELSE w
  <2>1. ply + 1 \in Nat
    OBVIOUS
  <2> QED BY <1>1, <2>1, FromTT DEF At
<1>4. WorthOfMove(g, m) = IF -w >= 28744 THEN -w - 1 ELSE IF -w <= -28744 THEN -w + 1 ELSE -w
  <2>1. -w \in Int /\ 1 \in Nat
    BY <1>1
  <2> QED BY <2>1, FromTT DEF WorthOfMove
<1> HIDE DEF v, w
<1> QED BY <1>1, <1>2, <1>3, <1>4 DEF Scales, v, w

-----------------------------------------------------------------------------
(* The table. *)
TableTrue(g, table) ==
    \A p \in g.timeless : table[g.key[p]].depth >= 0 => EntryIsTrue(g, p, table[g.key[p]])

(* What a call may return. *)
IsAnswer(g, p, d, ply, alpha, beta, r) ==
    /\ r \in Searches(g) /\ TableTrue(g, r.tt)
    /\ ~r.aborted => /\ r.score > alpha => Below(g, p, d, ply, r.score)
                     /\ r.score < beta => Above(g, p, d, ply, r.score)

LEMMA SearchType ==
    ASSUME NEW g, NEW s \in Searches(g)
    PROVE  /\ s.tt \in Tables(g) /\ s.generation \in Nat /\ s.left \in Int /\ s.score \in Int
           /\ s.aborted \in BOOLEAN
           /\ \A p \in Positions(g) : s.tt[g.key[p]] \in Entries(g)
BY KeyIs DEF Searches, Tables

LEMMA EntryType ==
    ASSUME NEW g, NEW e \in Entries(g)
    PROVE  e.depth \in Int /\ e.score \in Int /\ e.bound \in Bounds /\ e.move \in KeyMoves(g) /\ e.generation \in Nat
BY DEF Entries

LEMMA SearchIs ==
    ASSUME NEW g, NEW s \in Searches(g)
    PROVE  /\ s.left - 1 \in Int /\ -s.score \in Int
           /\ s = [tt |-> s.tt, generation |-> s.generation, left |-> s.left, score |-> s.score,
                   aborted |-> s.aborted]
BY DEF Searches

WithLeft(s, n) == [s EXCEPT !.left = n]

LEMMA LeftIs ==
    ASSUME NEW g, NEW s \in Searches(g), NEW n \in Int
    PROVE  /\ WithLeft(s, n) \in Searches(g) /\ WithLeft(s, n).tt = s.tt
           /\ WithLeft(s, n).aborted = s.aborted
BY SearchIs, SearchType DEF Searches, WithLeft

LEMMA AskedIs ==
    ASSUME NEW g, NEW s \in Searches(g)
    PROVE  Asked(s) \in Searches(g) /\ Asked(s).tt = s.tt /\ Asked(s).aborted = s.aborted
BY SearchIs, SearchType DEF Searches, Asked

LEMMA ReturnIs ==
    ASSUME NEW g, NEW s \in Searches(g), NEW n \in Int
    PROVE  /\ Return(s, n) \in Searches(g) /\ Return(s, n).tt = s.tt /\ Return(s, n).aborted = s.aborted
           /\ Return(s, n).score = n
BY SearchIs, SearchType DEF Searches, Return

LEMMA AbortIs ==
    ASSUME NEW g, NEW s \in Searches(g), NEW n \in Int
    PROVE  Abort(s, n) \in Searches(g) /\ Abort(s, n).tt = s.tt /\ Abort(s, n).aborted
BY SearchIs, SearchType DEF Searches, Abort

LEMMA NegatedIs ==
    ASSUME NEW g, NEW s \in Searches(g)
    PROVE  /\ Negated(s) \in Searches(g) /\ Negated(s).tt = s.tt /\ Negated(s).aborted = s.aborted
           /\ Negated(s).score = -s.score
BY SearchIs, SearchType DEF Searches, Negated

(* A true score is stored as a true entry, and read at any ply as a true score. *)
LEMMA StoredIsTrue ==
    ASSUME Scales, NEW g, IsGame(g), NEW p \in Positions(g), NEW d \in Nat, NEW ply \in Nat,
           ply <= MaxPly, NEW score \in Int
    PROVE  LET kept == ScoreToTT(score, ply)
           IN /\ kept \in Int
              /\ Below(g, p, d, ply, score) /\ SeesBelow(g, p, d, kept) => g.value[p] >= kept
              /\ Above(g, p, d, ply, score) /\ SeesAbove(g, p, d, kept) => g.value[p] <= kept
<1> DEFINE v == g.value[p]
           kept == ScoreToTT(score, ply)
           low == d >= g.sees.lower[p]
           high == d >= g.sees.upper[p]
<1>1. v \in Int /\ (v = 0 \/ v >= 28744 + MaxPly \/ v <= -28744 - MaxPly)
  BY ValuesAreClear
<1>2. At(g, p, ply) = IF v >= 28744 THEN v - ply ELSE IF v <= -28744 THEN v + ply ELSE v
  BY <1>1, FromTT DEF At
<1>3. kept = IF score >= 28744 THEN score + ply ELSE IF score <= -28744 THEN score - ply ELSE score
  BY ToTT
<1>4. /\ SeesBelow(g, p, d, kept) /\ Below(g, p, d, ply, score)
             => (low \/ kept >= 28744) /\ (low \/ score >= 28744 => At(g, p, ply) >= score)
      /\ SeesAbove(g, p, d, kept) /\ Above(g, p, d, ply, score)
             => (high \/ kept <= -28744) /\ (high \/ score <= -28744 => At(g, p, ply) <= score)
  BY DEF Below, Above, SeesBelow, SeesAbove, Scales
<1> HIDE DEF v, kept, low, high
<1>5. kept \in Int
  BY <1>3
<1>6. Below(g, p, d, ply, score) /\ SeesBelow(g, p, d, kept) => v >= kept
  BY <1>1, <1>2, <1>3, <1>4 DEF Scales
<1>7. Above(g, p, d, ply, score) /\ SeesAbove(g, p, d, kept) => v <= kept
  BY <1>1, <1>2, <1>3, <1>4 DEF Scales
<1> QED BY <1>5, <1>6, <1>7 DEF v, kept

LEMMA ReadIsTrue ==
    ASSUME Scales, NEW g, IsGame(g), NEW p \in Positions(g), NEW e \in Entries(g),
           p \in g.timeless => EntryIsTrue(g, p, e), NEW d \in Int, d <= e.depth, NEW ply \in Nat, ply <= MaxPly
    PROVE  LET score == ScoreFromTT(e.score, ply)
           IN /\ score \in Int
              /\ e.bound # "Upper" => Below(g, p, d, ply, score)
              /\ e.bound # "Lower" => Above(g, p, d, ply, score)
<1> DEFINE v == g.value[p]
           kept == e.score
           score == ScoreFromTT(kept, ply)
           low == e.depth >= g.sees.lower[p]
           high == e.depth >= g.sees.upper[p]
<1>1. v \in Int /\ (v = 0 \/ v >= 28744 + MaxPly \/ v <= -28744 - MaxPly)
  BY ValuesAreClear
<1>2. At(g, p, ply) = IF v >= 28744 THEN v - ply ELSE IF v <= -28744 THEN v + ply ELSE v
  BY <1>1, FromTT DEF At
<1>3. kept \in Int /\ score = IF kept >= 28744 THEN kept - ply ELSE IF kept <= -28744 THEN kept + ply ELSE kept
  BY EntryType, FromTT
<1>4. p \in g.timeless => /\ e.bound # "Upper" /\ (low \/ kept >= 28744) => v >= kept
                          /\ e.bound # "Lower" /\ (high \/ kept <= -28744) => v <= kept
  BY DEF EntryIsTrue, Scales
<1>5. (d >= g.sees.lower[p] => low) /\ (d >= g.sees.upper[p] => high)
  BY EntryType, GameTypes
<1>6. /\ (p \in g.timeless /\ (low \/ score >= 28744) => At(g, p, ply) >= score) => Below(g, p, d, ply, score)
      /\ (p \in g.timeless /\ (high \/ score <= -28744) => At(g, p, ply) <= score) => Above(g, p, d, ply, score)
  BY <1>5 DEF Below, Above, SeesBelow, SeesAbove, Scales
<1> HIDE DEF v, kept, score, low, high
<1>7. score \in Int
  BY <1>3
<1>8. e.bound # "Upper" => Below(g, p, d, ply, score)
  BY <1>1, <1>2, <1>3, <1>4, <1>6 DEF Scales
<1>9. e.bound # "Lower" => Above(g, p, d, ply, score)
  BY <1>1, <1>2, <1>3, <1>4, <1>6 DEF Scales
<1> QED BY <1>7, <1>8, <1>9 DEF score, kept

LEMMA StoreKeepsTruth ==
    ASSUME Scales, NEW g, IsGame(g), NEW p \in Positions(g), NEW d \in Nat, NEW ply \in Nat,
           ply <= MaxPly, NEW score \in Int, NEW alpha \in Int, NEW beta \in Int, alpha < beta,
           NEW move \in Moves(g), NEW s \in Searches(g), TableTrue(g, s.tt),
           score > alpha => Below(g, p, d, ply, score),
           score < beta => Above(g, p, d, ply, score)
    PROVE  LET t == StoreTT(g, s, p, d, ply, score, alpha, beta, move)
           IN t \in Searches(g) /\ TableTrue(g, t.tt) /\ t.aborted = s.aborted
<1> DEFINE new == [depth |-> d, score |-> ScoreToTT(score, ply), move |-> KeyOf(g, move),
                   bound |-> BoundOf(score, alpha, beta), generation |-> s.generation]
           t == [s EXCEPT !.tt[g.key[p]] = new]
<1>1. StoreTT(g, s, p, d, ply, score, alpha, beta, move) \in {s, t}
  BY DEF StoreTT
<1>2. BoundOf(score, alpha, beta) \in Bounds
  BY DEF BoundOf, Bounds
<1>3. new \in Entries(g)
  BY <1>2, StoredIsTrue, SearchType, KeyOfIs DEF Entries
<1>4. ASSUME NEW q \in g.timeless, g.key[q] = g.key[p]
      PROVE  EntryIsTrue(g, q, new)
  <2>1. new.bound # "Upper" => score > alpha
    BY DEF BoundOf
  <2>2. new.bound # "Lower" => score < beta
    BY DEF BoundOf
  <2>3. new.depth = d /\ new.score = ScoreToTT(score, ply)
    OBVIOUS
  <2>4. /\ p \in g.timeless /\ g.value[q] = g.value[p]
        /\ g.sees.lower[q] = g.sees.lower[p] /\ g.sees.upper[q] = g.sees.upper[p]
    <3>1. q \in Positions(g)
      BY DEF IsGame
    <3> QED BY <1>4, <3>1, TimelessKeys
  <2> HIDE DEF new
  <2> QED BY <2>1, <2>2, <2>3, <2>4, StoredIsTrue DEF EntryIsTrue, SeesBelow, SeesAbove
<1> HIDE DEF new
<1>5. t \in Searches(g) /\ t.aborted = s.aborted
  BY <1>3, KeyIs DEF Searches, Tables
<1>6. \A q \in Positions(g) : t.tt[g.key[q]] = IF g.key[q] = g.key[p] THEN new ELSE s.tt[g.key[q]]
  BY KeyIs, SearchType DEF Tables
<1> HIDE DEF t
<1>7. TableTrue(g, t.tt)
  <2>1. g.timeless \subseteq Positions(g)
    BY DEF IsGame
  <2> QED BY <1>4, <1>6, <2>1 DEF TableTrue
<1> QED BY <1>1, <1>5, <1>7

-----------------------------------------------------------------------------
(* The moves of a list that are in a set. *)
Kept == INSTANCE FoldTheorems WITH Step <- Keep

ThoseSoFar(kept, list, set, n) ==
    /\ kept \in Seq(ToSet(list))
    /\ \A m : (\E i \in 1 .. Len(kept) : kept[i] = m) <=> m \in set /\ \E i \in 1 .. n : list[i] = m

LEMMA OneMoreKept ==
    ASSUME NEW S, NEW list \in Seq(S), NEW set, NEW n \in Nat, n + 1 \in 1 .. Len(list), NEW kept,
           ThoseSoFar(kept, list, set, n), NEW x, x = [move |-> list[n + 1], wanted |-> list[n + 1] \in set]
    PROVE  ThoseSoFar(Keep(kept, x), list, set, n + 1)
<1> DEFINE m == list[n + 1]
           longer == Append(kept, m)
<1>1. /\ kept \in Seq(ToSet(list)) /\ m \in ToSet(list)
      /\ \A i \in 1 .. (n + 1) : i \in 1 .. n \/ i = n + 1
      /\ \A i \in 1 .. n : i \in 1 .. (n + 1)
      /\ n + 1 \in 1 .. (n + 1)
  BY DEF ThoseSoFar, ToSet
<1>2. \A y : (\E i \in 1 .. Len(kept) : kept[i] = y) <=> y \in set /\ \E i \in 1 .. n : list[i] = y
  BY DEF ThoseSoFar
<1>3. CASE m \in set
  <2>1. Keep(kept, x) = longer
    BY <1>3 DEF Keep
  <2>2. /\ longer \in Seq(ToSet(list)) /\ Len(longer) = Len(kept) + 1 /\ Len(kept) \in Nat
        /\ longer[Len(kept) + 1] = m
        /\ \A i \in 1 .. Len(kept) : longer[i] = kept[i]
    BY <1>1
  <2>3. /\ \A i \in 1 .. Len(longer) : i \in 1 .. Len(kept) \/ i = Len(kept) + 1
        /\ \A i \in 1 .. Len(kept) : i \in 1 .. Len(longer)
        /\ Len(kept) + 1 \in 1 .. Len(longer)
    BY <2>2
  <2> HIDE DEF longer, m
  <2>4. ASSUME NEW y PROVE (\E i \in 1 .. Len(longer) : longer[i] = y) <=> (\E i \in 1 .. Len(kept) : kept[i] = y) \/ y = m
    BY <2>2, <2>3
  <2>5. ASSUME NEW y PROVE (\E i \in 1 .. (n + 1) : list[i] = y) <=> (\E i \in 1 .. n : list[i] = y) \/ y = m
    BY <1>1 DEF m
  <2> QED BY <1>2, <1>3, <2>1, <2>2, <2>4, <2>5 DEF ThoseSoFar
<1>4. CASE m \notin set
  <2>1. Keep(kept, x) = kept
    BY <1>4 DEF Keep
  <2>2. ASSUME NEW y, y \in set PROVE (\E i \in 1 .. (n + 1) : list[i] = y) <=> (\E i \in 1 .. n : list[i] = y)
    BY <1>1, <1>4, <2>2
  <2> HIDE DEF m
  <2> QED BY <1>1, <1>2, <2>1, <2>2 DEF ThoseSoFar
<1> QED BY <1>3, <1>4

LEMMA ThoseAre ==
    ASSUME NEW S, NEW list \in Seq(S), NEW set
    PROVE  /\ Those(list, set) \in Seq(ToSet(list)) /\ Those(list, set) \in Seq(S)
           /\ ToSet(Those(list, set)) = ToSet(list) \cap set
<1> DEFINE of == [i \in DOMAIN list |-> [move |-> list[i], wanted |-> list[i] \in set]]
           n == Len(list)
<1>1. n \in Nat /\ DOMAIN list = 1 .. n /\ DOMAIN of = 1 .. n
  OBVIOUS
<1>2. Those(list, set) = Kept!Fold(<<>>, of)
  BY DEF Those, Kept!Fold, Kept!Greatest, FoldLeft, MapThenFoldSet, Max
<1>3. \A i \in 1 .. n : of[i] = [move |-> list[i], wanted |-> list[i] \in set]
  BY <1>1
<1> HIDE DEF of
<1>4. PICK r : Kept!IsRun(r, n, <<>>, of) /\ r[n] = Kept!Fold(<<>>, of)
  BY <1>1, Kept!FoldRuns
<1> DEFINE A == {i \in Nat : i <= n => ThoseSoFar(r[i], list, set, i)}
<1>5. 0 \in A
  <2>1. r[0] = <<>>
    BY <1>4 DEF Kept!IsRun
  <2>2. <<>> \in Seq(ToSet(list)) /\ Len(<<>>) = 0 /\ 1 .. 0 = {}
    OBVIOUS
  <2>3. ThoseSoFar(<<>>, list, set, 0)
    BY <2>2 DEF ThoseSoFar
  <2> QED BY <2>1, <2>3
<1>6. ASSUME NEW i \in Nat, i \in A PROVE i + 1 \in A
  <2> SUFFICES ASSUME i + 1 <= n PROVE ThoseSoFar(r[i + 1], list, set, i + 1)
    OBVIOUS
  <2>1. i + 1 \in 1 .. n /\ i + 1 \in 1 .. Len(list) /\ i + 1 - 1 = i /\ ThoseSoFar(r[i], list, set, i)
    BY <1>1, <1>6
  <2>2. r[i + 1] = Keep(r[i], of[i + 1])
    BY <1>4, <2>1 DEF Kept!IsRun
  <2>3. of[i + 1] = [move |-> list[i + 1], wanted |-> list[i + 1] \in set]
    BY <1>3, <2>1
  <2> HIDE DEF A, n
  <2>4. ThoseSoFar(Keep(r[i], of[i + 1]), list, set, i + 1)
    BY <2>1, <2>3, OneMoreKept
  <2> QED BY <2>2, <2>4
<1>7. n \in A
  <2> HIDE DEF A
  <2> QED BY <1>1, <1>5, <1>6, Kept!Induction
<1> DEFINE those == Those(list, set)
<1>8. ThoseSoFar(those, list, set, n)
  BY <1>1, <1>2, <1>4, <1>7
<1>9. ToSet(list) \subseteq S
  BY DEF ToSet
<1> HIDE DEF A, those
<1>10. those \in Seq(ToSet(list)) /\ those \in Seq(S)
  <2>1. those \in Seq(ToSet(list))
    BY <1>8 DEF ThoseSoFar
  <2>2. Len(those) \in Nat /\ those \in [1 .. Len(those) -> ToSet(list)]
    BY <2>1
  <2> QED BY <1>9, <2>1, <2>2
<1>11. ToSet(those) = ToSet(list) \cap set
  BY <1>1, <1>8, <1>10 DEF ThoseSoFar, ToSet
<1> QED BY <1>10, <1>11 DEF those

LEMMA ChecksAre ==
    ASSUME NEW g, IsGame(g), NEW p \in Positions(g)
    PROVE  /\ CheckingMoves(g, p) \in Seq(Positions(g)) /\ Len(CheckingMoves(g, p)) \in Nat
           /\ \A i \in 1 .. Len(CheckingMoves(g, p)) :
                 /\ CheckingMoves(g, p)[i] \in ToSet(g.moves[p]) /\ CheckingMoves(g, p)[i] \in Positions(g)
                 /\ g.inCheck[CheckingMoves(g, p)[i]]
<1> DEFINE set == {m \in ToSet(g.moves[p]) : g.inCheck[m]}
           checks == CheckingMoves(g, p)
<1>1. checks = Those(g.moves[p], set)
  BY DEF CheckingMoves
<1> HIDE DEF checks
<1>2. checks \in Seq(Positions(g)) /\ ToSet(checks) \subseteq set
  BY <1>1, ThoseAre, GameTypes
<1>3. Len(checks) \in Nat /\ \A i \in 1 .. Len(checks) : checks[i] \in ToSet(checks) /\ checks[i] \in Positions(g)
  BY <1>2 DEF ToSet
<1> QED BY <1>2, <1>3 DEF checks

LEMMA TacticalAre ==
    ASSUME NEW g, IsGame(g), NEW p \in Positions(g)
    PROVE  /\ TacticalMoves(g, p) \in Seq(Positions(g)) /\ Len(TacticalMoves(g, p)) \in Nat
           /\ \A i \in 1 .. Len(TacticalMoves(g, p)) :
                 TacticalMoves(g, p)[i] \in ToSet(g.moves[p]) /\ TacticalMoves(g, p)[i] \in Positions(g)
           /\ g.inCheck[p] => TacticalMoves(g, p) = g.moves[p]
<1> DEFINE set == {m \in ToSet(g.moves[p]) : g.tactical[m]}
           tactical == TacticalMoves(g, p)
<1>1. tactical = IF g.inCheck[p] THEN g.moves[p] ELSE Those(g.moves[p], set)
  BY DEF TacticalMoves
<1> HIDE DEF tactical
<1>2. tactical \in Seq(Positions(g)) /\ ToSet(tactical) \subseteq ToSet(g.moves[p])
  BY <1>1, ThoseAre, GameTypes
<1>3. Len(tactical) \in Nat /\ \A i \in 1 .. Len(tactical) : tactical[i] \in ToSet(tactical) /\ tactical[i] \in Positions(g)
  BY <1>2 DEF ToSet
<1> QED BY <1>1, <1>2, <1>3 DEF tactical

(* mate_in_one changes nothing but how often it asked, and finds a mate. *)
LEMMA MateInOneIs ==
    ASSUME Scales, NEW g, IsGame(g), NEW p \in Positions(g), NEW s \in Searches(g)
    PROVE  LET r == MateInOne(g, p, s)
           IN /\ r.search \in Searches(g) /\ r.search.tt = s.tt
              /\ r.move # NoMove => /\ r.move \in ToSet(g.moves[p]) /\ r.move \in Positions(g)
                                    /\ Mated(g, r.move)
<1> DEFINE checks == CheckingMoves(g, p)
           mates == {i \in DOMAIN checks : Mated(g, checks[i])}
           found == IF mates = {} THEN 0 ELSE CHOOSE i \in mates : \A j \in mates : i <= j
           tried == IF found = 0 THEN Len(checks) ELSE found
           r == MateInOne(g, p, s)
<1>1. /\ Len(checks) \in Nat /\ DOMAIN checks = 1 .. Len(checks)
      /\ \A i \in 1 .. Len(checks) : checks[i] \in ToSet(g.moves[p]) /\ checks[i] \in Positions(g)
  BY ChecksAre
<1>2. r = IF s.left < tried
          THEN [search |-> Abort([s EXCEPT !.left = 0], s.score), move |-> NoMove]
          ELSE [search |-> [s EXCEPT !.left = @ - tried], move |-> IF found = 0 THEN NoMove ELSE checks[found]]
  BY DEF MateInOne, TryChecks, FirstMate
<1> HIDE DEF checks
<1>3. mates \subseteq Nat
  BY <1>1
<1>4. found = 0 \/ found \in mates
  <2>1. mates # {} => \E i \in mates : \A j \in mates : i <= j
    <3> HIDE DEF mates
    <3> QED BY <1>3, Kept!LeastElement
  <2> QED BY <2>1
<1>5. tried \in Nat
  BY <1>1, <1>3, <1>4
<1> HIDE DEF found, tried, r
<1>6. CASE s.left < tried
  <2> DEFINE t == WithLeft(s, 0)
  <2>1. t \in Searches(g) /\ t.tt = s.tt
    BY LeftIs
  <2>2. r.search = Abort(t, s.score) /\ r.move = NoMove
    BY <1>2, <1>6 DEF WithLeft
  <2> HIDE DEF t
  <2>3. r.search \in Searches(g) /\ r.search.tt = s.tt
    BY <2>1, <2>2, AbortIs, SearchType
  <2> QED BY <2>2, <2>3 DEF r
<1>7. CASE ~(s.left < tried)
  <2>1. s.left - tried \in Int /\ r.search = WithLeft(s, s.left - tried)
    BY <1>2, <1>5, <1>7, SearchType DEF WithLeft
  <2>2. r.search \in Searches(g) /\ r.search.tt = s.tt
    BY <2>1, LeftIs
  <2>3. r.move = IF found = 0 THEN NoMove ELSE checks[found]
    BY <1>2, <1>7
  <2> QED BY <1>1, <1>4, <2>2, <2>3 DEF r
<1> QED BY <1>6, <1>7

-----------------------------------------------------------------------------
(* What a move is worth at its node, as its score claims. *)
MoveBelow(g, p, d, ply, m, score) == SeesBelow(g, p, d, score) => -At(g, m, ply + 1) >= score
MoveAbove(g, p, d, ply, m, score) == SeesAbove(g, p, d, score) => -At(g, m, ply + 1) <= score

LEMMA OneMoveBelow ==
    ASSUME Scales, NEW g, IsGame(g), NEW p \in Positions(g), ~Ended(g, p), NEW m \in ToSet(g.moves[p]),
           NEW ply \in Nat, ply + 1 <= MaxPly, NEW d \in Int, NEW score \in Int,
           MoveBelow(g, p, d, ply, m, score)
    PROVE  Below(g, p, d, ply, score)
<1>1. m \in Positions(g) /\ g.moves[p] # <<>>
  BY MovesAre DEF ToSet
<1>2. g.value[p] >= WorthOfMove(g, m)
  BY <1>1 DEF IsGame, IsWorth
<1>3. At(g, p, ply) >= -At(g, m, ply + 1) /\ At(g, p, ply) \in Int /\ At(g, m, ply + 1) \in Int
  BY <1>1, <1>2, MoveAt
<1> QED BY <1>3 DEF MoveBelow, Below

AllAbove(g, p, d, ply, score) == \A m \in ToSet(g.moves[p]) : MoveAbove(g, p, d, ply, m, score)

LEMMA AllMovesAbove ==
    ASSUME Scales, NEW g, IsGame(g), NEW p \in Positions(g), ~Ended(g, p), g.moves[p] # <<>>,
           NEW ply \in Nat, ply + 1 <= MaxPly, NEW d \in Int, NEW score \in Int,
           AllAbove(g, p, d, ply, score)
    PROVE  Above(g, p, d, ply, score)
<1>1. PICK m \in ToSet(g.moves[p]) : g.value[p] = WorthOfMove(g, m)
  BY DEF IsGame, IsWorth
<1>2. m \in Positions(g)
  BY MovesAre
<1>3. At(g, p, ply) = -At(g, m, ply + 1) /\ At(g, p, ply) \in Int /\ At(g, m, ply + 1) \in Int
  BY <1>1, <1>2, MoveAt
<1>4. MoveAbove(g, p, d, ply, m, score)
  BY DEF AllAbove
<1> QED BY <1>3, <1>4 DEF MoveAbove, Above

(* An answer about the position a move leads to, seen from before the move. *)
ChildClaims(g, m, d, ply, alpha, beta, r) ==
    ~r.aborted =>
        /\ r.score > alpha /\ SeesAbove(g, m, d, -r.score) => -At(g, m, ply + 1) >= r.score
        /\ r.score < beta /\ SeesBelow(g, m, d, -r.score) => -At(g, m, ply + 1) <= r.score

LEMMA AnswerNegated ==
    ASSUME NEW g, IsGame(g), NEW m \in Positions(g), NEW d \in Int, NEW ply \in Nat,
           NEW alpha \in Int, NEW beta \in Int, NEW q, IsAnswer(g, m, d, ply + 1, -beta, -alpha, q),
           Scales, ply + 1 <= MaxPly, NEW r, r = Negated(q)
    PROVE  /\ r \in Searches(g) /\ TableTrue(g, r.tt) /\ r.score \in Int
           /\ ChildClaims(g, m, d, ply, alpha, beta, r)
<1>1. /\ q \in Searches(g) /\ TableTrue(g, q.tt)
      /\ ~q.aborted => /\ q.score > -beta => Below(g, m, d, ply + 1, q.score)
                       /\ q.score < -alpha => Above(g, m, d, ply + 1, q.score)
  BY DEF IsAnswer
<1>2. r \in Searches(g) /\ r.tt = q.tt /\ r.aborted = q.aborted /\ r.score = -q.score /\ q.score \in Int
  BY <1>1, NegatedIs, SearchType
<1>3. At(g, m, ply + 1) \in Int
  BY MoveAt
<1>6. -r.score = q.score
  BY <1>2
<1>4. ASSUME ~r.aborted, r.score > alpha, SeesAbove(g, m, d, -r.score)
      PROVE  -At(g, m, ply + 1) >= r.score
  BY <1>1, <1>2, <1>3, <1>4, <1>6 DEF Above
<1>5. ASSUME ~r.aborted, r.score < beta, SeesBelow(g, m, d, -r.score)
      PROVE  -At(g, m, ply + 1) <= r.score
  BY <1>1, <1>2, <1>3, <1>5, <1>6 DEF Below
<1> QED BY <1>1, <1>2, <1>4, <1>5 DEF ChildClaims

-----------------------------------------------------------------------------
(* Quiescence.  What it claims without depth: an end, or a score that is a win
   or a loss. *)
Fits(g, c) == c \in Calls(g) /\ TableTrue(g, c.search.tt) /\ c.alpha < c.beta

QuietSound(g, f, left) ==
    \A c \in Calls(g) : Fits(g, c) /\ c.ply + left + 1 <= MaxPly
        => IsAnswer(g, c.p, 0, c.ply, c.alpha, c.beta, f[c])

LEMMA CallType ==
    ASSUME NEW g, NEW c \in Calls(g)
    PROVE  /\ c.p \in Positions(g) /\ c.depth \in Int /\ c.ply \in Nat /\ c.alpha \in Int /\ c.beta \in Int
           /\ c.search \in Searches(g)
BY DEF Calls

LEMMA CallIs ==
    ASSUME NEW g, NEW p \in Positions(g), NEW d \in Int, NEW ply \in Nat, NEW alpha \in Int,
           NEW beta \in Int, NEW s \in Searches(g)
    PROVE  LET c == Call(p, d, ply, alpha, beta, s)
           IN /\ c \in Calls(g) /\ c.p = p /\ c.depth = d /\ c.ply = ply /\ c.alpha = alpha /\ c.beta = beta
              /\ c.search = s
BY DEF Call, Calls

(* An exact answer. *)
LEMMA ExactIsAnswer ==
    ASSUME NEW g, NEW p, NEW d, NEW ply, NEW alpha, NEW beta, NEW s \in Searches(g), TableTrue(g, s.tt),
           NEW score \in Int, At(g, p, ply) = score
    PROVE  IsAnswer(g, p, d, ply, alpha, beta, Return(s, score))
<1>1. /\ Return(s, score) \in Searches(g) /\ Return(s, score).tt = s.tt /\ Return(s, score).score = score
  BY ReturnIs
<1> QED BY <1>1 DEF IsAnswer, Below, Above

LEMMA AbortIsAnswer ==
    ASSUME NEW g, NEW p, NEW d, NEW ply, NEW alpha, NEW beta, NEW s \in Searches(g), TableTrue(g, s.tt),
           s.aborted
    PROVE  IsAnswer(g, p, d, ply, alpha, beta, s)
BY DEF IsAnswer

(* Without depth, where the game has not ended. *)
LEMMA QuietSees ==
    ASSUME Scales, NEW g, IsGame(g), NEW p \in Positions(g), ~Ended(g, p), NEW score
    PROVE  /\ SeesBelow(g, p, 0, score) <=> p \in g.timeless /\ score >= 28744
           /\ SeesAbove(g, p, 0, score) <=> p \in g.timeless /\ score <= -28744
<1>1. g.sees.lower[p] > 0 /\ g.sees.upper[p] > 0
  BY DEF IsGame, SeesAll
<1>2. ~(0 >= g.sees.lower[p]) /\ ~(0 >= g.sees.upper[p])
  BY <1>1, GameTypes
<1> QED BY <1>2 DEF SeesBelow, SeesAbove, Scales

LEMMA QuietClaims ==
    ASSUME Scales, NEW g, IsGame(g), NEW p \in Positions(g), ~Ended(g, p), NEW ply, NEW score
    PROVE  /\ Below(g, p, 0, ply, score) <=> (p \in g.timeless /\ score >= 28744 => At(g, p, ply) >= score)
           /\ Above(g, p, 0, ply, score) <=> (p \in g.timeless /\ score <= -28744 => At(g, p, ply) <= score)
BY QuietSees DEF Below, Above

LEMMA QuietMoveClaims ==
    ASSUME Scales, NEW g, IsGame(g), NEW p \in Positions(g), ~Ended(g, p), NEW ply, NEW m, NEW score
    PROVE  /\ MoveBelow(g, p, 0, ply, m, score)
                 <=> (p \in g.timeless /\ score >= 28744 => -At(g, m, ply + 1) >= score)
           /\ MoveAbove(g, p, 0, ply, m, score)
                 <=> (p \in g.timeless /\ score <= -28744 => -At(g, m, ply + 1) <= score)
BY QuietSees DEF MoveBelow, MoveAbove

(* A finite set of numbers has a largest. *)
LEMMA LargestOf ==
    ASSUME NEW n \in Nat, n > 0, NEW f \in [1 .. n -> Int]
    PROVE  LET S == {f[i] : i \in 1 .. n}
           IN Max(S) \in S /\ \A x \in S : x <= Max(S)
<1> DEFINE S(k) == {f[i] : i \in 1 .. k}
           A == {k \in Nat : k > 0 /\ k <= n => \E x \in S(k) : \A y \in S(k) : y <= x}
<1>1. 0 \in A
  OBVIOUS
<1>2. ASSUME NEW k \in Nat, k \in A PROVE k + 1 \in A
  <2> SUFFICES ASSUME k + 1 <= n PROVE \E x \in S(k + 1) : \A y \in S(k + 1) : y <= x
    <3> HIDE DEF S
    <3> QED OBVIOUS
  <2>1. \A i \in 1 .. (k + 1) : i \in 1 .. k \/ i = k + 1
    <3> HIDE DEF A, S
    <3> QED OBVIOUS
  <2>2. k + 1 \in 1 .. n /\ f[k + 1] \in Int /\ f[k + 1] \in S(k + 1) /\ \A y \in S(k) : y \in S(k + 1) /\ y \in Int
    <3>1. k + 1 \in 1 .. n /\ k + 1 \in 1 .. (k + 1)
      OBVIOUS
    <3>2. ASSUME NEW i \in 1 .. k PROVE i \in 1 .. (k + 1) /\ i \in 1 .. n
      OBVIOUS
    <3>3. f[k + 1] \in S(k + 1)
      BY <3>1
    <3>4. ASSUME NEW y \in S(k) PROVE y \in S(k + 1) /\ y \in Int
      BY <3>2
    <3> QED BY <3>1, <3>3, <3>4
  <2>3. \A y \in S(k + 1) : y \in S(k) \/ y = f[k + 1]
    BY <2>1
  <2>4. CASE k = 0
    <3>1. S(k) = {}
      BY <2>4
    <3> HIDE DEF S
    <3> QED BY <2>2, <2>3, <3>1
  <2>5. CASE k > 0
    <3>1. PICK x \in S(k) : \A y \in S(k) : y <= x
      BY <1>2, <2>5
    <3> HIDE DEF S
    <3>2. CASE x >= f[k + 1]
      BY <2>2, <2>3, <3>1, <3>2
    <3>3. CASE x < f[k + 1]
      <4>1. \A y \in S(k + 1) : y <= f[k + 1]
        BY <2>2, <2>3, <3>1, <3>3
      <4> QED BY <2>2, <4>1
    <3> QED BY <2>2, <3>1, <3>2, <3>3
  <2> QED BY <2>4, <2>5
<1>3. n \in A
  <2> HIDE DEF A
  <2> QED BY <1>1, <1>2, Kept!Induction
<1>4. PICK x \in S(n) : \A y \in S(n) : y <= x
  BY <1>3
<1>5. \A y \in S(n) : y \in Int
  OBVIOUS
<1>6. S(n) = {f[i] : i \in 1 .. n}
  OBVIOUS
<1> HIDE DEF S, A
<1>7. Max(S(n)) \in S(n) /\ \A y \in S(n) : y <= Max(S(n))
  BY <1>4, <1>5 DEF Max
<1> QED BY <1>6, <1>7

(* In check at the boundary, every evasion is looked at. *)
Glance(g, m, ply) == IF Ended(g, m) THEN -TerminalScore(g, m, ply + 1) ELSE -Evaluate(g, m)
Glances(g, p, ply) == {Glance(g, m, ply) : m \in ToSet(g.moves[p])}

LEMMA GlanceIs ==
    ASSUME Scales, NEW g, IsGame(g), NEW m \in Positions(g), NEW ply \in Nat, ply + 1 <= MaxPly
    PROVE  /\ Glance(g, m, ply) \in Int
           /\ Glance(g, m, ply) >= 28744 \/ Glance(g, m, ply) <= -28744
                 => Glance(g, m, ply) = -At(g, m, ply + 1)
<1>1. CASE Ended(g, m)
  <2>1. ply + 1 \in Nat
    OBVIOUS
  <2>2. At(g, m, ply + 1) = TerminalScore(g, m, ply + 1) /\ TerminalScore(g, m, ply + 1) \in Int
    BY <1>1, <2>1, EndedAt
  <2> QED BY <1>1, <2>2 DEF Glance
<1>2. CASE ~Ended(g, m)
  <2>1. g.eval[m] \in Int /\ g.eval[m] > -28744 /\ g.eval[m] < 28744
    BY GameTypes DEF Scales
  <2> QED BY <1>2, <2>1 DEF Glance, Evaluate
<1> QED BY <1>1, <1>2

LEMMA LargestGlance ==
    ASSUME Scales, NEW g, IsGame(g), NEW p \in Positions(g), g.moves[p] # <<>>, NEW ply \in Nat,
           ply + 1 <= MaxPly
    PROVE  LET best == Max(Glances(g, p, ply))
           IN /\ best \in Int
              /\ \E m \in ToSet(g.moves[p]) : best = Glance(g, m, ply)
              /\ \A m \in ToSet(g.moves[p]) : Glance(g, m, ply) <= best
<1> DEFINE n == Len(g.moves[p])
           f == [i \in 1 .. n |-> Glance(g, g.moves[p][i], ply)]
           S == Glances(g, p, ply)
<1>1. /\ n \in Nat /\ n > 0 /\ ToSet(g.moves[p]) = {g.moves[p][i] : i \in 1 .. n}
      /\ \A i \in 1 .. n : g.moves[p][i] \in Positions(g)
  <2>1. g.moves[p] \in Seq(Positions(g))
    BY GameTypes
  <2>2. n \in Nat /\ n > 0 /\ \A i \in 1 .. n : g.moves[p][i] \in Positions(g)
    BY <2>1
  <2> QED BY <2>2, MovesAre
<1>2. f \in [1 .. n -> Int]
  BY <1>1, GlanceIs
<1>3. S = {f[i] : i \in 1 .. n}
  BY <1>1 DEF Glances
<1>4. \A m \in ToSet(g.moves[p]) : Glance(g, m, ply) \in S
  BY DEF Glances
<1>5. \A x \in S : \E m \in ToSet(g.moves[p]) : x = Glance(g, m, ply)
  BY DEF Glances
<1>6. \A x \in S : x \in Int
  BY <1>2, <1>3
<1> HIDE DEF f, S, n
<1>7. Max(S) \in S /\ \A x \in S : x <= Max(S)
  BY <1>1, <1>2, <1>3, LargestOf
<1> QED BY <1>4, <1>5, <1>6, <1>7 DEF S

LEMMA GlancesClaim ==
    ASSUME Scales, NEW g, IsGame(g), NEW p \in Positions(g), g.moves[p] # <<>>, ~Ended(g, p), NEW ply \in Nat,
           ply + 1 <= MaxPly, NEW best, best = Max(Glances(g, p, ply))
    PROVE  best \in Int /\ Below(g, p, 0, ply, best) /\ Above(g, p, 0, ply, best)
<1>1. /\ best \in Int
      /\ \E m \in ToSet(g.moves[p]) : best = Glance(g, m, ply)
      /\ \A m \in ToSet(g.moves[p]) : Glance(g, m, ply) <= best
  BY LargestGlance
<1>2. \A m \in ToSet(g.moves[p]) :
         /\ m \in Positions(g) /\ Glance(g, m, ply) \in Int
         /\ Glance(g, m, ply) >= 28744 \/ Glance(g, m, ply) <= -28744
               => Glance(g, m, ply) = -At(g, m, ply + 1)
  BY MovesAre, GlanceIs, SMTT(30)
<1>4. Below(g, p, 0, ply, best)
  <2>1. PICK m \in ToSet(g.moves[p]) : best = Glance(g, m, ply)
    BY <1>1
  <2>2. MoveBelow(g, p, 0, ply, m, best)
    BY <1>1, <1>2, <2>1, QuietMoveClaims
  <2> QED BY <1>1, <2>2, OneMoveBelow
<1>5. Above(g, p, 0, ply, best)
  <2>1. ASSUME NEW m \in ToSet(g.moves[p]) PROVE MoveAbove(g, p, 0, ply, m, best)
    <3>1. best <= -28744 => -At(g, m, ply + 1) <= best
      BY <1>1, <1>2
    <3> QED BY <3>1, QuietMoveClaims
  <2>2. AllAbove(g, p, 0, ply, best)
    BY <2>1 DEF AllAbove
  <2>3. best \in Int /\ 0 \in Int
    BY <1>1
  <2> QED BY <2>2, <2>3, AllMovesAbove
<1> QED BY <1>1, <1>4, <1>5

LEMMA ClaimsAreAnswer ==
    ASSUME NEW g, NEW p, NEW d, NEW ply, NEW alpha, NEW beta, NEW s \in Searches(g), TableTrue(g, s.tt),
           NEW score \in Int, Below(g, p, d, ply, score), Above(g, p, d, ply, score)
    PROVE  IsAnswer(g, p, d, ply, alpha, beta, Return(s, score))
<1>1. /\ Return(s, score) \in Searches(g) /\ Return(s, score).tt = s.tt /\ Return(s, score).score = score
  BY ReturnIs
<1> QED BY <1>1 DEF IsAnswer

LEMMA EvaluationClaims ==
    ASSUME Scales, NEW g, IsGame(g), NEW p \in Positions(g), ~Ended(g, p), NEW ply
    PROVE  /\ Evaluate(g, p) \in Int /\ -28744 < Evaluate(g, p) /\ Evaluate(g, p) < 28744
           /\ Below(g, p, 0, ply, Evaluate(g, p)) /\ Above(g, p, 0, ply, Evaluate(g, p))
<1>1. Evaluate(g, p) \in Int /\ -28744 < Evaluate(g, p) /\ Evaluate(g, p) < 28744
  BY GameTypes DEF Evaluate, Scales
<1> QED BY <1>1, QuietClaims

LEMMA BoundaryAnswers ==
    ASSUME Scales, NEW g, IsGame(g), NEW c \in Calls(g), c.ply + 1 <= MaxPly, ~Ended(g, c.p),
           NEW s \in Searches(g), TableTrue(g, s.tt)
    PROVE  IsAnswer(g, c.p, 0, c.ply, c.alpha, c.beta, Boundary(g, c, s))
<1>1. c.p \in Positions(g) /\ c.ply \in Nat /\ c.ply <= MaxPly
  BY CallType DEF Scales
<1>2. g.moves[c.p] \in Seq(Positions(g)) /\ Len(g.moves[c.p]) \in Nat
  BY <1>1, GameTypes
<1>3. CASE ~g.inCheck[c.p]
  <2>1. Boundary(g, c, s) = Return(s, Evaluate(g, c.p))
    BY <1>3 DEF Boundary
  <2> QED BY <1>1, <1>3, <2>1, EvaluationClaims, ClaimsAreAnswer
<1>5. CASE g.inCheck[c.p] /\ g.moves[c.p] = <<>>
  <2>1. At(g, c.p, c.ply) = c.ply - MateScore /\ c.ply - MateScore \in Int
    BY <1>1, <1>5, NoMovesAt DEF Scales
  <2>2. Boundary(g, c, s) = Return(s, c.ply - MateScore)
    BY <1>5 DEF Boundary
  <2> QED BY <2>1, <2>2, ExactIsAnswer
<1>6. CASE g.inCheck[c.p] /\ g.moves[c.p] # <<>> /\ s.left < Len(g.moves[c.p])
  <2> DEFINE t == WithLeft(s, 0)
  <2>1. Boundary(g, c, s) = Abort(t, 0)
    BY <1>6 DEF Boundary, WithLeft
  <2>2. t \in Searches(g) /\ t.tt = s.tt
    BY LeftIs
  <2> HIDE DEF t
  <2>3. Abort(t, 0) \in Searches(g) /\ Abort(t, 0).tt = t.tt /\ Abort(t, 0).aborted
    BY <2>2, AbortIs
  <2> QED BY <2>1, <2>2, <2>3, AbortIsAnswer
<1>7. CASE g.inCheck[c.p] /\ g.moves[c.p] # <<>> /\ ~(s.left < Len(g.moves[c.p]))
  <2> DEFINE t == WithLeft(s, s.left - Len(g.moves[c.p]))
             best == Max(Glances(g, c.p, c.ply))
  <2>1. Boundary(g, c, s) = Return(t, best)
    BY <1>7 DEF Boundary, Glances, Glance, WithLeft
  <2>2. s.left - Len(g.moves[c.p]) \in Int
    BY <1>2, SearchType
  <2>3. t \in Searches(g) /\ t.tt = s.tt
    BY <2>2, LeftIs
  <2> HIDE DEF t, best
  <2>4. best \in Int /\ Below(g, c.p, 0, c.ply, best) /\ Above(g, c.p, 0, c.ply, best)
    BY <1>1, <1>7, GlancesClaim DEF best
  <2> QED BY <2>1, <2>3, <2>4, ClaimsAreAnswer
<1> QED BY <1>3, <1>5, <1>6, <1>7

-----------------------------------------------------------------------------
(* The loop over the captures, promotions and evasions. *)
QuietNodes(g, c, deeper) ==
    [g : {g}, p : {c.p}, ply : {c.ply}, beta : {c.beta}, deeper : {deeper},
     alpha : Int, search : Searches(g), over : BOOLEAN]

Leave(n, s) == [n EXCEPT !.over = TRUE, !.search = s]
GoOn(n, a, s) == [n EXCEPT !.alpha = a, !.search = s]

LEMMA QuietNodeIs ==
    ASSUME NEW g, NEW c, NEW deeper, NEW n \in QuietNodes(g, c, deeper)
    PROVE  /\ n.g = g /\ n.p = c.p /\ n.ply = c.ply /\ n.beta = c.beta /\ n.deeper = deeper
           /\ n.alpha \in Int /\ n.search \in Searches(g) /\ n.over \in BOOLEAN
           /\ n = [g |-> n.g, p |-> n.p, ply |-> n.ply, beta |-> n.beta, deeper |-> n.deeper,
                   alpha |-> n.alpha, search |-> n.search, over |-> n.over]
BY DEF QuietNodes

LEMMA LeaveIs ==
    ASSUME NEW g, NEW c, NEW deeper, NEW n \in QuietNodes(g, c, deeper), NEW s \in Searches(g)
    PROVE  Leave(n, s) \in QuietNodes(g, c, deeper) /\ Leave(n, s).over /\ Leave(n, s).search = s
BY QuietNodeIs DEF QuietNodes, Leave

LEMMA GoOnIs ==
    ASSUME NEW g, NEW c, NEW deeper, NEW n \in QuietNodes(g, c, deeper), NEW s, NEW a, NEW k,
           k = GoOn(n, a, s), s \in Searches(g), a \in Int, ~n.over
    PROVE  k \in QuietNodes(g, c, deeper) /\ ~k.over /\ k.search = s /\ k.alpha = a
BY QuietNodeIs DEF QuietNodes, GoOn

LEMMA TryTacticalIs ==
    ASSUME NEW g, NEW c, NEW deeper, NEW n \in QuietNodes(g, c, deeper), NEW m, NEW r,
           r = Negated(deeper[Call(m, 0, c.ply + 1, -c.beta, -n.alpha, n.search)])
    PROVE  TryTactical(n, m) =
               IF n.over \/ Skipped(g, c.p, m) THEN n
               ELSE IF r.aborted THEN Leave(n, Return(r, 0))
               ELSE IF r.score >= c.beta THEN Leave(n, r)
               ELSE GoOn(n, Larger(n.alpha, r.score), r)
<1>1. r = Negated(n.deeper[Call(m, 0, n.ply + 1, -n.beta, -n.alpha, n.search)])
  BY QuietNodeIs
<1>2. TryTactical(n, m) =
          IF n.over \/ Skipped(n.g, n.p, m) THEN n
          ELSE IF r.aborted THEN Leave(n, Return(r, 0))
          ELSE IF r.score >= n.beta THEN Leave(n, r)
          ELSE GoOn(n, Larger(n.alpha, r.score), r)
  BY <1>1 DEF TryTactical, Leave, GoOn
<1> QED BY <1>2, QuietNodeIs

(* What the loop knows when it has tried the first i moves of a list. *)
QuietLoop(g, c, deeper, raised, list, i, n) ==
    /\ n \in QuietNodes(g, c, deeper) /\ TableTrue(g, n.search.tt)
    /\ n.over => IsAnswer(g, c.p, 0, c.ply, c.alpha, c.beta, n.search)
    /\ ~n.over => /\ raised <= n.alpha /\ n.alpha < c.beta
                  /\ n.alpha > raised => Below(g, c.p, 0, c.ply, n.alpha)
                  /\ \A j \in 1 .. i : Skipped(g, c.p, list[j]) \/ MoveAbove(g, c.p, 0, c.ply, list[j], n.alpha)

(* A claim from above holds of any greater score. *)
LEMMA QuietAboveRises ==
    ASSUME Scales, NEW g, IsGame(g), NEW p \in Positions(g), ~Ended(g, p), NEW ply \in Nat,
           ply + 1 <= MaxPly, NEW m \in Positions(g), NEW score \in Int, NEW higher \in Int, score <= higher,
           MoveAbove(g, p, 0, ply, m, score)
    PROVE  MoveAbove(g, p, 0, ply, m, higher)
<1>1. p \in g.timeless /\ score <= -28744 => -At(g, m, ply + 1) <= score
  BY QuietMoveClaims
<1>2. At(g, m, ply + 1) \in Int
  BY MoveAt
<1>3. p \in g.timeless /\ higher <= -28744 => -At(g, m, ply + 1) <= higher
  BY <1>1, <1>2
<1> QED BY <1>3, QuietMoveClaims

LEMMA QuietChild ==
    ASSUME Scales, NEW g, IsGame(g), NEW c \in Calls(g), ~Ended(g, c.p),
           NEW left \in Nat, c.ply + left + 2 <= MaxPly, NEW deeper, QuietSound(g, deeper, left),
           NEW alpha \in Int, alpha < c.beta, NEW s \in Searches(g), TableTrue(g, s.tt),
           NEW m \in ToSet(g.moves[c.p]), NEW r, r = Negated(deeper[Call(m, 0, c.ply + 1, -c.beta, -alpha, s)])
    PROVE  /\ r \in Searches(g) /\ TableTrue(g, r.tt) /\ r.score \in Int
           /\ ~r.aborted =>
                 /\ r.score > alpha => MoveBelow(g, c.p, 0, c.ply, m, r.score)
                 /\ r.score < c.beta => MoveAbove(g, c.p, 0, c.ply, m, r.score)
<1>1. /\ c.p \in Positions(g) /\ c.ply \in Nat /\ c.ply + 1 \in Nat /\ c.beta \in Int /\ -c.beta \in Int /\ -alpha \in Int
      /\ 0 \in Int /\ c.ply + 1 <= MaxPly /\ m \in Positions(g)
  <2>1. c.p \in Positions(g) /\ c.ply \in Nat /\ c.beta \in Int /\ MaxPly \in Nat
    BY CallType DEF Scales
  <2>2. m \in Positions(g)
    BY <2>1, MovesAre
  <2> QED BY <2>1, <2>2
<1> DEFINE d == Call(m, 0, c.ply + 1, -c.beta, -alpha, s)
<1>2. /\ d \in Calls(g) /\ d.p = m /\ d.ply = c.ply + 1 /\ d.alpha = -c.beta /\ d.beta = -alpha /\ d.search = s
  BY <1>1, CallIs
<1> HIDE DEF d
<1>3. Fits(g, d) /\ d.ply + left + 1 <= MaxPly
  BY <1>1, <1>2 DEF Fits, Scales
<1>4. IsAnswer(g, m, 0, c.ply + 1, -c.beta, -alpha, deeper[d])
  BY <1>2, <1>3 DEF QuietSound
<1>5. r = Negated(deeper[d])
  BY DEF d
<1>6. /\ r \in Searches(g) /\ TableTrue(g, r.tt) /\ r.score \in Int
      /\ ChildClaims(g, m, 0, c.ply, alpha, c.beta, r)
  BY <1>1, <1>4, <1>5, AnswerNegated
<1>7. c.p \in g.timeless => m \in g.timeless
  BY <1>1, TimelessMoves
<1>8. /\ c.p \in g.timeless /\ r.score >= 28744 => SeesAbove(g, m, 0, -r.score)
      /\ c.p \in g.timeless /\ r.score <= -28744 => SeesBelow(g, m, 0, -r.score)
  BY <1>6, <1>7 DEF Scales, SeesAbove, SeesBelow
<1> QED BY <1>1, <1>6, <1>8, QuietMoveClaims DEF ChildClaims

LEMMA QuietStep ==
    ASSUME Scales, NEW g, IsGame(g), NEW c \in Calls(g), ~Ended(g, c.p),
           NEW left \in Nat, c.ply + left + 2 <= MaxPly, NEW deeper, QuietSound(g, deeper, left),
           NEW raised \in Int, NEW list, NEW i \in Nat, NEW n, QuietLoop(g, c, deeper, raised, list, i, n),
           list[i + 1] \in ToSet(g.moves[c.p]), \A j \in 1 .. i : list[j] \in Positions(g)
    PROVE  QuietLoop(g, c, deeper, raised, list, i + 1, TryTactical(n, list[i + 1]))
<1> DEFINE m == list[i + 1]
           r == Negated(deeper[Call(m, 0, c.ply + 1, -c.beta, -n.alpha, n.search)])
           k == TryTactical(n, m)
<1>1. /\ n \in QuietNodes(g, c, deeper) /\ n.search \in Searches(g) /\ TableTrue(g, n.search.tt) /\ n.alpha \in Int
      /\ n.over \in BOOLEAN
  BY QuietNodeIs DEF QuietLoop
<1>2. /\ c.p \in Positions(g) /\ c.ply \in Nat /\ c.alpha \in Int /\ c.beta \in Int /\ c.ply + 1 <= MaxPly
      /\ m \in Positions(g) /\ m \in ToSet(g.moves[c.p])
  BY CallType, MovesAre DEF Scales
<1>3. \A j \in 1 .. (i + 1) : j \in 1 .. i \/ list[j] = m
  OBVIOUS
<1>4. r = Negated(deeper[Call(m, 0, c.ply + 1, -c.beta, -n.alpha, n.search)])
  OBVIOUS
<1> HIDE DEF r
<1>5. k = IF n.over \/ Skipped(g, c.p, m) THEN n
          ELSE IF r.aborted THEN Leave(n, Return(r, 0))
          ELSE IF r.score >= c.beta THEN Leave(n, r)
          ELSE GoOn(n, Larger(n.alpha, r.score), r)
  BY <1>1, <1>4, TryTacticalIs
<1> SUFFICES QuietLoop(g, c, deeper, raised, list, i + 1, k)
  OBVIOUS
<1> HIDE DEF k
<1>6. CASE n.over
  BY <1>5, <1>6 DEF QuietLoop
<1>7. CASE ~n.over /\ Skipped(g, c.p, m)
  <2>1. \A j \in 1 .. (i + 1) : Skipped(g, c.p, list[j]) \/ MoveAbove(g, c.p, 0, c.ply, list[j], n.alpha)
    BY <1>3, <1>7 DEF QuietLoop
  <2> HIDE DEF m
  <2> QED BY <1>5, <1>7, <2>1 DEF QuietLoop
<1>8. CASE ~n.over /\ ~Skipped(g, c.p, m)
  <2>1. /\ raised <= n.alpha /\ n.alpha < c.beta
        /\ n.alpha > raised => Below(g, c.p, 0, c.ply, n.alpha)
        /\ \A j \in 1 .. i : Skipped(g, c.p, list[j]) \/ MoveAbove(g, c.p, 0, c.ply, list[j], n.alpha)
    BY <1>8 DEF QuietLoop
  <2> HIDE DEF m
  <2>2. /\ r \in Searches(g) /\ TableTrue(g, r.tt) /\ r.score \in Int
        /\ ~r.aborted =>
              /\ r.score > n.alpha => MoveBelow(g, c.p, 0, c.ply, m, r.score)
              /\ r.score < c.beta => MoveAbove(g, c.p, 0, c.ply, m, r.score)
    BY <1>1, <1>2, <1>4, <2>1, QuietChild
  <2>3. CASE r.aborted
    <3> DEFINE t == Return(r, 0)
    <3>1. t \in Searches(g) /\ t.tt = r.tt /\ t.aborted = r.aborted
      <4>1. 0 \in Int
        OBVIOUS
      <4> QED BY <2>2, <4>1, ReturnIs
    <3>2. k = Leave(n, t)
      BY <1>5, <1>8, <2>3
    <3> HIDE DEF t
    <3>3. IsAnswer(g, c.p, 0, c.ply, c.alpha, c.beta, t)
      BY <2>2, <2>3, <3>1, AbortIsAnswer
    <3>4. k \in QuietNodes(g, c, deeper) /\ k.over /\ k.search = t
      BY <1>1, <3>1, <3>2, LeaveIs
    <3> QED BY <2>2, <3>1, <3>3, <3>4 DEF QuietLoop
  <2>4. CASE ~r.aborted /\ r.score > n.alpha
    <3>1. Below(g, c.p, 0, c.ply, r.score)
      BY <1>2, <2>2, <2>4, OneMoveBelow
    <3>2. CASE r.score >= c.beta
      <4>1. k = Leave(n, r)
        BY <1>5, <1>8, <2>4, <3>2
      <4>2. IsAnswer(g, c.p, 0, c.ply, c.alpha, c.beta, r)
        BY <1>2, <2>2, <3>1, <3>2 DEF IsAnswer
      <4>3. k \in QuietNodes(g, c, deeper) /\ k.over /\ k.search = r
        BY <1>1, <2>2, <4>1, LeaveIs
      <4> QED BY <2>2, <4>2, <4>3 DEF QuietLoop
    <3>3. CASE r.score < c.beta
      <4>1. Larger(n.alpha, r.score) = r.score /\ ~(r.score >= c.beta)
        BY <1>1, <1>2, <2>2, <2>4, <3>3 DEF Larger
      <4>2. k = GoOn(n, r.score, r)
        BY <1>5, <1>8, <2>4, <4>1
      <4>3. k \in QuietNodes(g, c, deeper) /\ ~k.over /\ k.search = r /\ k.alpha = r.score
        <5>1. r \in Searches(g) /\ r.score \in Int
          BY <2>2
        <5> QED BY <1>1, <1>8, <4>2, <5>1, GoOnIs
      <4>4. MoveAbove(g, c.p, 0, c.ply, m, r.score)
        BY <2>2, <2>4, <3>3
      <4>5. ASSUME NEW j \in 1 .. i, MoveAbove(g, c.p, 0, c.ply, list[j], n.alpha)
            PROVE  MoveAbove(g, c.p, 0, c.ply, list[j], r.score)
        <5>1. list[j] \in Positions(g) /\ n.alpha <= r.score
          BY <1>1, <2>2, <2>4
        <5> QED BY <1>1, <1>2, <2>2, <4>5, <5>1, QuietAboveRises
      <4>6. \A j \in 1 .. (i + 1) : Skipped(g, c.p, list[j]) \/ MoveAbove(g, c.p, 0, c.ply, list[j], r.score)
        BY <1>3, <2>1, <4>4, <4>5
      <4>7. raised <= r.score
        BY <1>1, <2>1, <2>2, <2>4
      <4> QED BY <1>8, <2>2, <3>1, <3>3, <4>3, <4>6, <4>7 DEF QuietLoop
    <3> QED BY <1>2, <2>2, <3>2, <3>3
  <2>5. CASE ~r.aborted /\ ~(r.score > n.alpha)
    <3>1. r.score < c.beta /\ r.score <= n.alpha /\ ~(r.score >= c.beta)
      BY <1>1, <1>2, <2>1, <2>2, <2>5
    <3>2. Larger(n.alpha, r.score) = n.alpha
      BY <1>1, <2>2, <3>1 DEF Larger
    <3>3. k = GoOn(n, n.alpha, r)
      BY <1>5, <1>8, <2>5, <3>1, <3>2
    <3>4. k \in QuietNodes(g, c, deeper) /\ ~k.over /\ k.search = r /\ k.alpha = n.alpha
      <4>1. r \in Searches(g) /\ r.score \in Int
        BY <2>2
      <4> QED BY <1>1, <1>8, <3>3, <4>1, GoOnIs
    <3>5. MoveAbove(g, c.p, 0, c.ply, m, n.alpha)
      BY <1>1, <1>2, <2>2, <2>5, <3>1, QuietAboveRises
    <3>6. \A j \in 1 .. (i + 1) : Skipped(g, c.p, list[j]) \/ MoveAbove(g, c.p, 0, c.ply, list[j], n.alpha)
      BY <1>3, <2>1, <3>5
    <3> QED BY <1>8, <2>1, <2>2, <3>4, <3>6 DEF QuietLoop
  <2> QED BY <2>3, <2>4, <2>5
<1> QED BY <1>6, <1>7, <1>8

Tactical == INSTANCE FoldTheorems WITH Step <- TryTactical

LEMMA QuietLoopEnds ==
    ASSUME Scales, NEW g, IsGame(g), NEW c \in Calls(g), ~Ended(g, c.p),
           NEW left \in Nat, c.ply + left + 2 <= MaxPly, NEW deeper, QuietSound(g, deeper, left),
           NEW raised \in Int, NEW list, NEW n \in Nat, DOMAIN list = 1 .. n,
           \A i \in 1 .. n : list[i] \in ToSet(g.moves[c.p]) /\ list[i] \in Positions(g),
           NEW first, QuietLoop(g, c, deeper, raised, list, 0, first)
    PROVE  QuietLoop(g, c, deeper, raised, list, n, FoldLeft(TryTactical, first, list))
<1>1. FoldLeft(TryTactical, first, list) = Tactical!Fold(first, list)
  BY DEF Tactical!Fold, Tactical!Greatest, FoldLeft, MapThenFoldSet, Max
<1>2. PICK r : Tactical!IsRun(r, n, first, list) /\ r[n] = Tactical!Fold(first, list)
  BY Tactical!FoldRuns
<1> DEFINE A == {i \in Nat : i <= n => QuietLoop(g, c, deeper, raised, list, i, r[i])}
<1>3. 0 \in A
  <2>1. r[0] = first
    BY <1>2 DEF Tactical!IsRun
  <2> QED BY <2>1
<1>4. ASSUME NEW i \in Nat, i \in A PROVE i + 1 \in A
  <2> SUFFICES ASSUME i + 1 <= n PROVE QuietLoop(g, c, deeper, raised, list, i + 1, r[i + 1])
    OBVIOUS
  <2>1. i + 1 \in 1 .. n /\ i + 1 - 1 = i /\ QuietLoop(g, c, deeper, raised, list, i, r[i])
    BY <1>4
  <2>2. r[i + 1] = TryTactical(r[i], list[i + 1])
    BY <1>2, <2>1 DEF Tactical!IsRun
  <2>3. list[i + 1] \in ToSet(g.moves[c.p]) /\ \A j \in 1 .. i : list[j] \in Positions(g)
    BY <2>1
  <2> HIDE DEF A
  <2> QED BY <2>1, <2>2, <2>3, QuietStep
<1>5. n \in A
  <2> HIDE DEF A
  <2> QED BY <1>3, <1>4, Tactical!Induction
<1> QED BY <1>1, <1>2, <1>5

LEMMA StandPatAnswers ==
    ASSUME Scales, NEW g, IsGame(g), NEW c \in Calls(g), Fits(g, c), ~Ended(g, c.p),
           NEW left \in Nat, c.ply + left + 2 <= MaxPly, NEW deeper, QuietSound(g, deeper, left),
           NEW s \in Searches(g), TableTrue(g, s.tt)
    PROVE  IsAnswer(g, c.p, 0, c.ply, c.alpha, c.beta, StandPat(g, c, deeper, s))
<1> DEFINE eval == Evaluate(g, c.p)
           raised == IF g.inCheck[c.p] THEN c.alpha ELSE Larger(c.alpha, eval)
           list == TacticalMoves(g, c.p)
           first == [g |-> g, p |-> c.p, ply |-> c.ply, beta |-> c.beta, deeper |-> deeper,
                     alpha |-> raised, search |-> s, over |-> FALSE]
           last == FoldLeft(TryTactical, first, list)
<1>1. /\ c.p \in Positions(g) /\ c.ply \in Nat /\ c.alpha \in Int /\ c.beta \in Int /\ c.alpha < c.beta
      /\ c.ply <= MaxPly /\ c.ply + 1 <= MaxPly
  BY CallType DEF Fits, Scales
<1>2. g.eval[c.p] \in Int /\ eval \in Int /\ eval > -28744
  BY <1>1, GameTypes DEF Evaluate, Scales
<1>3. raised \in Int /\ c.alpha <= raised /\ (g.inCheck[c.p] => raised = c.alpha)
      /\ (~g.inCheck[c.p] => raised >= eval /\ (raised > c.alpha => raised = eval))
  BY <1>1, <1>2 DEF Larger
<1>4. StandPat(g, c, deeper, s) =
         IF ~g.inCheck[c.p] /\ eval >= c.beta THEN Return(s, eval)
         ELSE IF list = <<>> THEN Return(s, IF g.inCheck[c.p] THEN c.ply - MateScore ELSE raised)
         ELSE IF last.over THEN last.search
         ELSE Return(last.search, last.alpha)
  BY DEF StandPat
<1>5. /\ list \in Seq(Positions(g)) /\ Len(list) \in Nat
      /\ \A i \in 1 .. Len(list) : list[i] \in ToSet(g.moves[c.p]) /\ list[i] \in Positions(g)
      /\ g.inCheck[c.p] => list = g.moves[c.p]
  BY <1>1, TacticalAre
<1>6. DOMAIN list = 1 .. Len(list)
  BY <1>5
<1>7. CASE ~g.inCheck[c.p] /\ eval >= c.beta
  <2>1. Below(g, c.p, 0, c.ply, eval) /\ Above(g, c.p, 0, c.ply, eval)
    BY <1>1, <1>7, EvaluationClaims
  <2>2. StandPat(g, c, deeper, s) = Return(s, eval)
    BY <1>4, <1>7
  <2> HIDE DEF eval
  <2> QED BY <1>2, <2>1, <2>2, ClaimsAreAnswer
(* Out of check, nothing is claimed of a score from above. *)
<1>8. ASSUME ~g.inCheck[c.p], NEW t \in Searches(g), TableTrue(g, t.tt), NEW score \in Int, raised <= score,
             score > raised => Below(g, c.p, 0, c.ply, score)
      PROVE  IsAnswer(g, c.p, 0, c.ply, c.alpha, c.beta, Return(t, score))
  <2>2. score > -28744
    BY <1>2, <1>3, <1>8
  <2>3. Above(g, c.p, 0, c.ply, score)
    BY <1>1, <1>8, <2>2, QuietClaims
  <2>4. score > c.alpha => Below(g, c.p, 0, c.ply, score)
    <3>1. CASE score > raised
      BY <1>8, <3>1
    <3>2. CASE ~(score > raised)
      <4>1. score > c.alpha => score = eval
        BY <1>1, <1>2, <1>3, <1>8, <3>2
      <4>2. Below(g, c.p, 0, c.ply, eval)
        BY <1>1, <1>8, EvaluationClaims
      <4> QED BY <4>1, <4>2
    <3> QED BY <3>1, <3>2
  <2>5. Return(t, score) \in Searches(g) /\ Return(t, score).tt = t.tt /\ Return(t, score).score = score
    BY <1>8, ReturnIs
  <2> QED BY <1>8, <2>3, <2>4, <2>5 DEF IsAnswer
<1>9. CASE ~(~g.inCheck[c.p] /\ eval >= c.beta) /\ list = <<>>
  <2>1. StandPat(g, c, deeper, s) = Return(s, IF g.inCheck[c.p] THEN c.ply - MateScore ELSE raised)
    BY <1>4, <1>9
  <2>2. CASE g.inCheck[c.p]
    <3>1. At(g, c.p, c.ply) = c.ply - MateScore /\ c.ply - MateScore \in Int
      BY <1>1, <1>5, <1>9, <2>2, NoMovesAt, SMTT(30) DEF Scales
    <3> QED BY <2>1, <2>2, <3>1, ExactIsAnswer
  <2>3. CASE ~g.inCheck[c.p]
    <3>1. raised <= raised /\ ~(raised > raised)
      BY <1>3
    <3> HIDE DEF raised
    <3> QED BY <1>3, <1>8, <2>1, <2>3, <3>1
  <2> QED BY <2>2, <2>3
<1>10. CASE ~(~g.inCheck[c.p] /\ eval >= c.beta) /\ list # <<>>
  <2>2. raised < c.beta
    BY <1>1, <1>2, <1>10 DEF Larger
  <2>3. QuietLoop(g, c, deeper, raised, list, 0, first)
    <3>1. first \in QuietNodes(g, c, deeper)
      BY <1>3 DEF QuietNodes
    <3>2. first.search = s /\ ~first.over /\ first.alpha = raised /\ 1 .. 0 = {}
      OBVIOUS
    <3> HIDE DEF first, raised
    <3> QED BY <1>3, <2>2, <3>1, <3>2 DEF QuietLoop
  <2>4. QuietLoop(g, c, deeper, raised, list, Len(list), last)
    <3> HIDE DEF first, raised, list
    <3> QED BY <1>1, <1>3, <1>5, <1>6, <2>3, QuietLoopEnds
  <2>5. StandPat(g, c, deeper, s) = IF last.over THEN last.search ELSE Return(last.search, last.alpha)
    BY <1>4, <1>10
  <2>6. last.search \in Searches(g) /\ TableTrue(g, last.search.tt) /\ last.alpha \in Int
    <3> HIDE DEF last
    <3> QED BY <2>4, QuietNodeIs DEF QuietLoop
  <2> HIDE DEF last, first
  <2>7. CASE last.over
    BY <2>4, <2>5, <2>7 DEF QuietLoop
  <2>8. CASE ~last.over
    <3>1. /\ raised <= last.alpha /\ last.alpha < c.beta
          /\ last.alpha > raised => Below(g, c.p, 0, c.ply, last.alpha)
          /\ \A j \in 1 .. Len(list) :
                Skipped(g, c.p, list[j]) \/ MoveAbove(g, c.p, 0, c.ply, list[j], last.alpha)
      BY <2>4, <2>8 DEF QuietLoop
    <3>2. CASE ~g.inCheck[c.p]
      <4> HIDE DEF raised
      <4> QED BY <1>8, <2>5, <2>6, <2>8, <3>1, <3>2
    <3>3. CASE g.inCheck[c.p]
      <4>1. list = g.moves[c.p] /\ raised = c.alpha
        BY <1>3, <1>5, <3>3
      <4>2. ASSUME NEW m \in ToSet(g.moves[c.p]) PROVE MoveAbove(g, c.p, 0, c.ply, m, last.alpha)
        <5>1. PICK i \in 1 .. Len(g.moves[c.p]) : g.moves[c.p][i] = m
          <6>1. PICK p \in Positions(g) : p = c.p
            BY <1>1
          <6>2. m \in ToSet(g.moves[p])
            BY <6>1
          <6>3. \E i \in 1 .. Len(g.moves[p]) : g.moves[p][i] = m
            BY <6>2, MoveListed
          <6> QED BY <6>1, <6>3
        <5>2. ~Skipped(g, c.p, m)
          BY <3>3 DEF Skipped
        <5> HIDE DEF list
        <5> QED BY <3>1, <4>1, <5>1, <5>2
      <4>3. AllAbove(g, c.p, 0, c.ply, last.alpha)
        BY <4>2 DEF AllAbove
      <4>4. Above(g, c.p, 0, c.ply, last.alpha)
        <5>1. g.moves[c.p] # <<>> /\ 0 \in Int
          BY <1>10, <4>1
        <5> QED BY <1>1, <2>6, <4>3, <5>1, AllMovesAbove
      <4>5. /\ Return(last.search, last.alpha) \in Searches(g)
            /\ Return(last.search, last.alpha).tt = last.search.tt
            /\ Return(last.search, last.alpha).score = last.alpha
        BY <2>6, ReturnIs
      <4> QED BY <2>5, <2>6, <2>8, <3>1, <4>1, <4>4, <4>5 DEF IsAnswer
    <3> QED BY <3>2, <3>3
  <2> QED BY <2>7, <2>8
<1> QED BY <1>7, <1>9, <1>10

(* A mate in one is worth what mate_in_one makes of it. *)
LEMMA MateInOneAt ==
    ASSUME Scales, NEW g, IsGame(g), NEW p \in Positions(g), ~Ended(g, p), NEW m, m \in ToSet(g.moves[p]),
           Mated(g, m), NEW ply \in Nat, ply + 1 <= MaxPly
    PROVE  At(g, p, ply) = MateScore - ply - 1 /\ MateScore - ply - 1 \in Int
<1>1. m \in Positions(g) /\ g.moves[p] # <<>>
  BY MovesAre DEF ToSet
<1>2. g.value[m] + 30000 = 0 /\ g.value[m] \in Int
  <2>1. ~Ended(g, m) /\ g.moves[m] = <<>> /\ g.inCheck[m]
    BY DEF Mated
  <2>2. IsWorth(g, m)
    BY <1>1 DEF IsGame
  <2>3. g.value[m] = -MateScore
    BY <2>1, <2>2 DEF IsWorth
  <2> QED BY <1>1, <2>3, GameTypes DEF Scales
<1>3. WorthOfMove(g, m) = 29999
  <2>1. -g.value[m] = 30000
    BY <1>2, GameTypes DEF Scales
  <2> QED BY <2>1 DEF WorthOfMove, ScoreFromTT, Scales
<1>4. /\ g.value[p] >= WorthOfMove(g, m)
      /\ \E x \in ToSet(g.moves[p]) : g.value[p] = WorthOfMove(g, x)
  BY <1>1 DEF IsGame, IsWorth
<1>5. PICK x \in ToSet(g.moves[p]) : g.value[p] = WorthOfMove(g, x)
  BY <1>4
<1>6. x \in Positions(g)
  BY MovesAre
<1>7. g.value[x] \in Int /\ -30000 <= g.value[x] /\ g.value[p] \in Int
  BY <1>6, GameTypes DEF Scales
<1>8. WorthOfMove(g, x) <= 29999
  <2>1. PICK v \in Int : v = -g.value[x] /\ v <= 30000
    BY <1>7
  <2>2. WorthOfMove(g, x) = ScoreFromTT(v, 1)
    BY <2>1 DEF WorthOfMove
  <2>3. ScoreFromTT(v, 1) = IF v >= 28744 THEN v - 1 ELSE IF v <= -28744 THEN v + 1 ELSE v
    BY FromTT
  <2> QED BY <2>1, <2>2, <2>3
<1>9. g.value[p] = 29999
  BY <1>3, <1>4, <1>5, <1>7, <1>8
<1>10. At(g, p, ply) = 29999 - ply
  BY <1>9 DEF At, ScoreFromTT, Scales
<1> QED BY <1>10 DEF Scales

LEMMA QuiescenceNodeAnswers ==
    ASSUME Scales, NEW g, IsGame(g), NEW c \in Calls(g), Fits(g, c),
           NEW left \in Nat, c.ply + left + 1 <= MaxPly, NEW deeper, left > 0 => QuietSound(g, deeper, left - 1)
    PROVE  IsAnswer(g, c.p, 0, c.ply, c.alpha, c.beta, QuiescenceNode(g, c, left, deeper))
<1> DEFINE asked == Asked(c.search)
           mate == IF c.ply = 1 THEN MateInOne(g, c.p, asked) ELSE [search |-> asked, move |-> NoMove]
           s == mate.search
           score == MateScore - c.ply - 1
           stored == StoreTT(g, s, c.p, 0, c.ply, score, -Infinity, Infinity, mate.move)
           deepest == c.ply >= MaxDepth
<1>1. /\ c.p \in Positions(g) /\ c.ply \in Nat /\ c.alpha \in Int /\ c.beta \in Int /\ c.alpha < c.beta
      /\ c.ply + 1 <= MaxPly /\ c.ply <= MaxPly /\ c.search \in Searches(g) /\ TableTrue(g, c.search.tt)
  BY CallType DEF Fits, Scales
<1>2. asked \in Searches(g) /\ TableTrue(g, asked.tt)
  BY <1>1, AskedIs
<1>3. /\ s \in Searches(g) /\ TableTrue(g, s.tt)
      /\ mate.move # NoMove => /\ mate.move \in ToSet(g.moves[c.p]) /\ mate.move \in Positions(g)
                               /\ Mated(g, mate.move)
  <2> HIDE DEF asked
  <2>1. CASE c.ply = 1
    <3>1. mate = MateInOne(g, c.p, asked)
      BY <2>1
    <3> HIDE DEF mate
    <3>2. /\ mate.search \in Searches(g) /\ mate.search.tt = asked.tt
          /\ mate.move # NoMove => /\ mate.move \in ToSet(g.moves[c.p]) /\ mate.move \in Positions(g)
                                   /\ Mated(g, mate.move)
      BY <1>1, <1>2, <3>1, MateInOneIs
    <3> QED BY <1>2, <3>2
  <2>2. CASE c.ply # 1
    BY <1>2, <2>2
  <2> QED BY <2>1, <2>2
<1>4. QuiescenceNode(g, c, left, deeper) =
         IF Stops(c.search) THEN Abort(c.search, Evaluate(g, c.p))
         ELSE IF Ended(g, c.p) THEN Return(asked, TerminalScore(g, c.p, c.ply))
         ELSE IF deepest THEN Return(asked, Evaluate(g, c.p))
         ELSE IF mate.move # NoMove THEN Return(stored, score)
         ELSE IF s.aborted THEN Return(s, 0)
         ELSE IF left = 0 THEN Boundary(g, c, s)
         ELSE StandPat(g, c, deeper, s)
  BY DEF QuiescenceNode
<1> HIDE DEF asked, mate, s, score, stored, deepest
<1>5. CASE Stops(c.search)
  <2>1. Evaluate(g, c.p) \in Int
    BY <1>1, GameTypes DEF Evaluate
  <2>2. /\ Abort(c.search, Evaluate(g, c.p)) \in Searches(g) /\ Abort(c.search, Evaluate(g, c.p)).aborted
        /\ Abort(c.search, Evaluate(g, c.p)).tt = c.search.tt
    BY <1>1, <2>1, AbortIs
  <2> QED BY <1>1, <1>4, <1>5, <2>2, AbortIsAnswer
<1>6. CASE ~Stops(c.search) /\ Ended(g, c.p)
  <2>1. At(g, c.p, c.ply) = TerminalScore(g, c.p, c.ply) /\ TerminalScore(g, c.p, c.ply) \in Int
    BY <1>1, <1>6, EndedAt
  <2>2. QuiescenceNode(g, c, left, deeper) = Return(asked, TerminalScore(g, c.p, c.ply))
    BY <1>4, <1>6
  <2> QED BY <1>2, <2>1, <2>2, ExactIsAnswer
<1>11. CASE ~Stops(c.search) /\ ~Ended(g, c.p) /\ deepest
  <2>1. /\ Evaluate(g, c.p) \in Int
        /\ Below(g, c.p, 0, c.ply, Evaluate(g, c.p)) /\ Above(g, c.p, 0, c.ply, Evaluate(g, c.p))
    BY <1>1, <1>11, EvaluationClaims
  <2>2. QuiescenceNode(g, c, left, deeper) = Return(asked, Evaluate(g, c.p))
    BY <1>4, <1>11
  <2> QED BY <1>2, <2>1, <2>2, ClaimsAreAnswer
<1>7. CASE ~Stops(c.search) /\ ~Ended(g, c.p) /\ ~deepest /\ mate.move # NoMove
  <2>1. At(g, c.p, c.ply) = score /\ score \in Int
    BY <1>1, <1>3, <1>7, MateInOneAt DEF score
  <2>2. stored \in Searches(g) /\ TableTrue(g, stored.tt)
    <3>1. mate.move \in Moves(g) /\ -Infinity \in Int /\ Infinity \in Int /\ -Infinity < Infinity
          /\ 0 \in Nat
      BY <1>3, <1>7 DEF Moves, Infinity
    <3>2. Below(g, c.p, 0, c.ply, score) /\ Above(g, c.p, 0, c.ply, score)
      BY <2>1 DEF Below, Above
    <3> QED BY <1>1, <1>3, <2>1, <3>1, <3>2, StoreKeepsTruth DEF stored
  <2>3. QuiescenceNode(g, c, left, deeper) = Return(stored, score)
    BY <1>4, <1>7
  <2> QED BY <2>1, <2>2, <2>3, ExactIsAnswer
<1>8. CASE ~Stops(c.search) /\ ~Ended(g, c.p) /\ ~deepest /\ mate.move = NoMove /\ s.aborted
  <2>1. Return(s, 0) \in Searches(g) /\ Return(s, 0).tt = s.tt /\ Return(s, 0).aborted = s.aborted
    <3>1. 0 \in Int
      OBVIOUS
    <3> QED BY <1>3, <3>1, ReturnIs
  <2>2. QuiescenceNode(g, c, left, deeper) = Return(s, 0)
    BY <1>4, <1>8
  <2>3. Return(s, 0).aborted
    BY <1>8, <2>1
  <2> QED BY <1>3, <2>1, <2>2, <2>3, AbortIsAnswer
<1>9. CASE ~Stops(c.search) /\ ~Ended(g, c.p) /\ ~deepest /\ mate.move = NoMove /\ ~s.aborted /\ left = 0
  BY <1>1, <1>3, <1>4, <1>9, BoundaryAnswers
<1>10. CASE ~Stops(c.search) /\ ~Ended(g, c.p) /\ ~deepest /\ mate.move = NoMove /\ ~s.aborted /\ left # 0
  <2>1. left - 1 \in Nat /\ c.ply + (left - 1) + 2 <= MaxPly /\ QuietSound(g, deeper, left - 1)
    BY <1>1, <1>10 DEF Scales
  <2>2. IsAnswer(g, c.p, 0, c.ply, c.alpha, c.beta, StandPat(g, c, deeper, s))
    BY <1>1, <1>3, <1>10, <2>1, StandPatAnswers
  <2> QED BY <1>4, <1>10, <2>2
<1> QED BY <1>5, <1>6, <1>7, <1>8, <1>9, <1>10, <1>11

(* The levels of quiescence. *)
QuietLevel(before, x) == [c \in Calls(x[1]) |-> QuiescenceNode(x[1], c, x[2], before)]
QuietLevels == INSTANCE FoldTheorems WITH Step <- QuietLevel

LEMMA QuiescenceDefined ==
    ASSUME NEW g, MaxQuiescencePly \in Nat
    PROVE  \E f : /\ Quiescence(g) = f[MaxQuiescencePly]
                  /\ \A left \in 0 .. MaxQuiescencePly :
                        f[left] = QuietLevel(IF left = 0 THEN <<>> ELSE f[left - 1], <<g, left>>)
<1> DEFINE N == MaxQuiescencePly
           Is(h) == h = [left \in 0 .. N |->
                           [c \in Calls(g) |-> QuiescenceNode(g, c, left, IF left = 0 THEN <<>> ELSE h[left - 1])]]
           f == CHOOSE h : Is(h)
           of == [i \in 0 .. N |-> <<g, i>>]
<1>1. Quiescence(g) = f[N]
  BY DEF Quiescence
<1>2. ASSUME NEW h
      PROVE  Is(h) <=> h = [left \in 0 .. N |-> QuietLevel(IF left = 0 THEN <<>> ELSE h[left - 1], <<g, left>>)]
  BY DEF QuietLevel
<1>3. \E h : Is(h)
  <2>1. PICK h : QuietLevels!IsLevels(h, N, of)
    BY QuietLevels!LevelsExist
  <2>2. \A i \in 0 .. N : of[i] = <<g, i>>
    OBVIOUS
  <2> HIDE DEF of
  <2>3. h = [left \in 0 .. N |-> QuietLevel(IF left = 0 THEN <<>> ELSE h[left - 1], <<g, left>>)]
    BY <2>1, <2>2 DEF QuietLevels!IsLevels
  <2> HIDE DEF Is
  <2> QED BY <1>2, <2>3
<1>4. Is(f)
  BY <1>3
<1> HIDE DEF Is, f
<1>5. f = [left \in 0 .. N |-> QuietLevel(IF left = 0 THEN <<>> ELSE f[left - 1], <<g, left>>)]
  BY <1>2, <1>4
<1>6. \A left \in 0 .. N : f[left] = QuietLevel(IF left = 0 THEN <<>> ELSE f[left - 1], <<g, left>>)
  BY <1>5
<1> QED BY <1>1, <1>6

LEMMA QuiescenceSound ==
    ASSUME Scales, MaxQuiescencePly \in Nat, NEW g, IsGame(g)
    PROVE  QuietSound(g, Quiescence(g), MaxQuiescencePly)
<1> DEFINE N == MaxQuiescencePly
<1>1. PICK f : /\ Quiescence(g) = f[N]
               /\ \A left \in 0 .. N : f[left] = QuietLevel(IF left = 0 THEN <<>> ELSE f[left - 1], <<g, left>>)
  BY QuiescenceDefined
<1> DEFINE A == {left \in Nat : left <= N => QuietSound(g, f[left], left)}
<1>2. ASSUME NEW left \in 0 .. N, left > 0 => QuietSound(g, f[left - 1], left - 1)
      PROVE  QuietSound(g, f[left], left)
  <2> DEFINE before == IF left = 0 THEN <<>> ELSE f[left - 1]
  <2>1. f[left] = [c \in Calls(g) |-> QuiescenceNode(g, c, left, before)]
    BY <1>1 DEF QuietLevel
  <2>2. left > 0 => QuietSound(g, before, left - 1)
    BY <1>2
  <2> HIDE DEF before
  <2>3. ASSUME NEW c \in Calls(g), Fits(g, c), c.ply + left + 1 <= MaxPly
        PROVE  IsAnswer(g, c.p, 0, c.ply, c.alpha, c.beta, f[left][c])
    BY <2>1, <2>2, <2>3, QuiescenceNodeAnswers
  <2> QED BY <2>3 DEF QuietSound
<1>3. 0 \in A
  BY <1>2
<1>4. ASSUME NEW left \in Nat, left \in A PROVE left + 1 \in A
  <2> SUFFICES ASSUME left + 1 <= N PROVE QuietSound(g, f[left + 1], left + 1)
    OBVIOUS
  <2>1. left + 1 \in 0 .. N /\ left + 1 - 1 = left /\ QuietSound(g, f[left], left)
    BY <1>4
  <2> HIDE DEF A
  <2> QED BY <1>2, <2>1
<1>5. N \in A
  <2> HIDE DEF A
  <2> QED BY <1>3, <1>4, QuietLevels!Induction
<1> QED BY <1>1, <1>5

-----------------------------------------------------------------------------
(* Negamax.  A call is short enough for its scores to be recognized. *)
Reaches(ply, d) == ply + Larger(d, 0) + MaxQuiescencePly + 1 <= MaxPly

(* A window within the scores there are. *)
InScale(a, b) == -Infinity <= a /\ b <= Infinity

DeepSound(g, f, left) ==
    \A c \in Calls(g) : Fits(g, c) /\ InScale(c.alpha, c.beta) /\ c.depth <= left /\ Reaches(c.ply, c.depth)
        => IsAnswer(g, c.p, c.depth, c.ply, c.alpha, c.beta, f[c])

(* The constant part of a node in its loop. *)
IsNode(g, p, list, d, ply, from, beta, deeper) ==
    /\ p \in Positions(g) /\ ~Ended(g, p)
    /\ Len(list) = Len(g.moves[p]) /\ ToSet(list) = ToSet(g.moves[p])
    /\ \A i \in 1 .. Len(g.moves[p]) : list[i] \in ToSet(g.moves[p]) /\ list[i] \in Positions(g)
    /\ \A m \in ToSet(g.moves[p]) : \E i \in 1 .. Len(g.moves[p]) : list[i] = m
    /\ d \in Nat /\ d > 0 /\ d <= MaxDepth /\ ply \in Nat /\ Reaches(ply, d)
    /\ from \in Int /\ beta \in Int /\ beta <= Infinity /\ DeepSound(g, deeper, d - 1)

Nodes(g, p, list, d, ply, from, beta, deeper) ==
    [g : {g}, p : {p}, moves : {list}, depth : {d}, ply : {ply}, from : {from}, beta : {beta}, deeper : {deeper},
     alpha : Int, best : Int, move : Moves(g), search : Searches(g)]

LEMMA NodeType ==
    ASSUME NEW g, NEW p, NEW list, NEW d, NEW ply, NEW from, NEW beta, NEW deeper,
           NEW n \in Nodes(g, p, list, d, ply, from, beta, deeper)
    PROVE  /\ n.g = g /\ n.p = p /\ n.moves = list /\ n.depth = d /\ n.ply = ply /\ n.from = from
           /\ n.beta = beta /\ n.deeper = deeper
           /\ n.alpha \in Int /\ n.best \in Int /\ n.move \in Moves(g) /\ n.search \in Searches(g)
           /\ n = [g |-> n.g, p |-> n.p, moves |-> n.moves, depth |-> n.depth, ply |-> n.ply, from |-> n.from,
                   beta |-> n.beta, deeper |-> n.deeper, alpha |-> n.alpha, best |-> n.best, move |-> n.move,
                   search |-> n.search]
BY DEF Nodes

Took4(n, s, a, b, m) == [n EXCEPT !.search = s, !.alpha = a, !.best = b, !.move = m]

LEMMA Took4Is ==
    ASSUME NEW g, NEW p, NEW list, NEW d, NEW ply, NEW from, NEW beta, NEW deeper,
           NEW n \in Nodes(g, p, list, d, ply, from, beta, deeper), NEW s, NEW a, NEW b, NEW m,
           s \in Searches(g), a \in Int, b \in Int, m \in Moves(g), NEW k, k = Took4(n, s, a, b, m)
    PROVE  /\ k \in Nodes(g, p, list, d, ply, from, beta, deeper)
           /\ k.search = s /\ k.alpha = a /\ k.best = b /\ k.move = m
<1>1. k = [g |-> g, p |-> p, moves |-> list, depth |-> d, ply |-> ply, from |-> from, beta |-> beta,
           deeper |-> deeper, alpha |-> a, best |-> b, move |-> m, search |-> s]
  <2> DEFINE rec(x, y, z, t) ==
                 [g |-> g, p |-> p, moves |-> list, depth |-> d, ply |-> ply, from |-> from, beta |-> beta,
                  deeper |-> deeper, alpha |-> y, best |-> z, move |-> t, search |-> x]
  <2>1. n = rec(n.search, n.alpha, n.best, n.move)
    BY NodeType
  <2>2. [n EXCEPT !.search = s] = rec(s, n.alpha, n.best, n.move)
    BY <2>1
  <2>3. [rec(s, n.alpha, n.best, n.move) EXCEPT !.alpha = a] = rec(s, a, n.best, n.move)
    OBVIOUS
  <2>4. [rec(s, a, n.best, n.move) EXCEPT !.best = b] = rec(s, a, b, n.move)
    OBVIOUS
  <2>5. [rec(s, a, b, n.move) EXCEPT !.move = m] = rec(s, a, b, m)
    OBVIOUS
  <2>6. Took4(n, s, a, b, m) = [[[[n EXCEPT !.search = s] EXCEPT !.alpha = a] EXCEPT !.best = b] EXCEPT !.move = m]
    BY DEF Took4
  <2> HIDE DEF rec
  <2>8. k = rec(s, a, b, m)
    BY <2>2, <2>3, <2>4, <2>5, <2>6
  <2> QED BY <2>8 DEF rec
<1> QED BY <1>1 DEF Nodes

LEMMA DeepChild ==
    ASSUME Scales, NEW g, IsGame(g), NEW p, NEW list, NEW d, NEW ply, NEW from, NEW beta, NEW deeper,
           IsNode(g, p, list, d, ply, from, beta, deeper), MaxQuiescencePly \in Nat, MaxDepth \in Nat,
           NEW m, m \in Positions(g), NEW less, less \in Int, less < d, NEW a, NEW b, a \in Int, b \in Int, a < b,
           InScale(a, b), NEW s, s \in Searches(g), TableTrue(g, s.tt), NEW r,
           r = Negated(deeper[Call(m, less, ply + 1, -b, -a, s)])
    PROVE  /\ r \in Searches(g) /\ TableTrue(g, r.tt) /\ r.score \in Int
           /\ ChildClaims(g, m, less, ply, a, b, r)
<1>1. /\ d \in Nat /\ d > 0 /\ ply \in Nat /\ ply + d + MaxQuiescencePly + 1 <= MaxPly /\ DeepSound(g, deeper, d - 1)
  BY DEF IsNode, Reaches, Larger
<1>2. /\ ply + 1 \in Nat /\ -b \in Int /\ -a \in Int /\ -b < -a /\ less <= d - 1 /\ ply + 1 <= MaxPly
      /\ Reaches(ply + 1, less)
  BY <1>1 DEF Reaches, Larger, Scales
<1> DEFINE c == Call(m, less, ply + 1, -b, -a, s)
<1>3. c \in Calls(g) /\ c.p = m /\ c.depth = less /\ c.ply = ply + 1 /\ c.alpha = -b /\ c.beta = -a /\ c.search = s
  BY <1>2, CallIs
<1>4. r = Negated(deeper[c])
  OBVIOUS
<1> HIDE DEF c
<1>5. Fits(g, c) /\ InScale(c.alpha, c.beta) /\ c.depth <= d - 1 /\ Reaches(c.ply, c.depth)
  BY <1>2, <1>3 DEF Fits, InScale, Infinity
<1>6. IsAnswer(g, m, less, ply + 1, -b, -a, deeper[c])
  BY <1>1, <1>3, <1>5 DEF DeepSound
<1> QED BY <1>1, <1>2, <1>4, <1>6, AnswerNegated

(* What a position's depth is enough for, its moves' is. *)
LEMMA DepthsOfMoves ==
    ASSUME NEW g, IsGame(g), NEW p, p \in Positions(g), ~Ended(g, p), g.moves[p] # <<>>,
           NEW d, d \in Nat, d <= MaxDepth, MaxDepth \in Nat, LateIndex \in Nat,
           NEW m, m \in ToSet(g.moves[p])
    PROVE  /\ d >= g.sees.lower[p] => d - 1 >= g.sees.upper[m]
           /\ d >= g.sees.upper[p] => d > 0 /\
                 Larger(0, d - 1 - (IF Len(g.moves[p]) <= LateIndex \/ d < LateMinDepth THEN 0
                                    ELSE IF d >= LateDeep THEN 2 ELSE 1)) >= g.sees.lower[m]
<1>2. /\ g.sees.lower[p] \in Nat /\ g.sees.upper[p] \in Nat
  BY GameTypes
<1>3. /\ g.sees.lower[p] > 0 /\ \A e \in g.sees.lower[p] .. MaxDepth : LowerSees(g, g.sees, p, e)
      /\ g.sees.upper[p] > 0 /\ \A e \in g.sees.upper[p] .. MaxDepth : UpperSees(g, g.sees, p, e)
  BY DEF IsGame, SeesAll
<1>4. ASSUME d >= g.sees.lower[p] PROVE d - 1 >= g.sees.upper[m]
  <2>1. d \in g.sees.lower[p] .. MaxDepth
    BY <1>2, <1>4
  <2> QED BY <1>3, <2>1 DEF LowerSees
<1>5. ASSUME d >= g.sees.upper[p]
      PROVE  d > 0 /\ Larger(0, d - 1 - (IF Len(g.moves[p]) <= LateIndex \/ d < LateMinDepth THEN 0
                                         ELSE IF d >= LateDeep THEN 2 ELSE 1)) >= g.sees.lower[m]
  <2>1. d \in g.sees.upper[p] .. MaxDepth
    BY <1>2, <1>5
  <2>2. UpperSees(g, g.sees, p, d)
    BY <1>3, <2>1
  <2>3. d > 0
    BY <1>2, <1>3, <1>5
  <2> QED BY <2>2, <2>3 DEF UpperSees
<1> QED BY <1>4, <1>5

(* The score of a move, as it is claimed at its node. *)
MoveClaims(g, p, d, ply, m, a, b, r) ==
    ~r.aborted => /\ r.score > a => MoveBelow(g, p, d, ply, m, r.score)
                  /\ r.score < b => MoveAbove(g, p, d, ply, m, r.score)

LEMMA FullDepthClaims ==
    ASSUME Scales, NEW g, IsGame(g), NEW p, p \in Positions(g), ~Ended(g, p), g.moves[p] # <<>>,
           NEW d, d \in Nat, d <= MaxDepth, MaxDepth \in Nat, LateIndex \in Nat, NEW ply,
           NEW m, m \in ToSet(g.moves[p]), NEW a, NEW b, NEW r, r.score \in Int,
           ChildClaims(g, m, d - 1, ply, a, b, r)
    PROVE  MoveClaims(g, p, d, ply, m, a, b, r)
<1>1. m \in Positions(g)
  BY MovesAre DEF ToSet
<1>2. g.sees.lower[m] \in Nat
  BY <1>1, GameTypes
<1>3. d >= g.sees.lower[p] => d - 1 >= g.sees.upper[m]
  BY DepthsOfMoves
<1>4. d >= g.sees.upper[p] => d - 1 >= g.sees.lower[m]
  <2>1. d >= g.sees.upper[p] => d > 0 /\
                 Larger(0, d - 1 - (IF Len(g.moves[p]) <= LateIndex \/ d < LateMinDepth THEN 0
                                    ELSE IF d >= LateDeep THEN 2 ELSE 1)) >= g.sees.lower[m]
    BY DepthsOfMoves
  <2> QED BY <1>2, <2>1 DEF Larger
<1>5. p \in g.timeless => m \in g.timeless
  BY TimelessMoves
<1>6. /\ SeesBelow(g, p, d, r.score) => SeesAbove(g, m, d - 1, -r.score)
      /\ SeesAbove(g, p, d, r.score) => SeesBelow(g, m, d - 1, -r.score)
  BY <1>3, <1>4, <1>5 DEF SeesBelow, SeesAbove, Scales
<1> QED BY <1>6 DEF ChildClaims, MoveClaims, MoveBelow, MoveAbove

LEMMA LateClaims ==
    ASSUME Scales, NEW g, IsGame(g), NEW p, p \in Positions(g), ~Ended(g, p), g.moves[p] # <<>>,
           NEW d, d \in Nat, d > 0, d <= MaxDepth, MaxDepth \in Nat, LateIndex \in Nat, NEW ply,
           NEW m, m \in ToSet(g.moves[p]), NEW a, NEW b, NEW r, r.score \in Int, NEW less, NEW late, late \in {0, 1, 2},
           late <= IF Len(g.moves[p]) <= LateIndex \/ d < LateMinDepth THEN 0
                   ELSE IF d >= LateDeep THEN 2 ELSE 1,
           less = Larger(1, d - late), ChildClaims(g, m, less - 1, ply, a, b, r)
    PROVE  ~r.aborted /\ r.score < b => MoveAbove(g, p, d, ply, m, r.score)
<1>1. m \in Positions(g)
  BY MovesAre DEF ToSet
<1>2. g.sees.lower[m] \in Nat
  BY <1>1, GameTypes
<1>3. d >= g.sees.upper[p] => less - 1 >= g.sees.lower[m]
  <2>1. d >= g.sees.upper[p] => d > 0 /\
                 Larger(0, d - 1 - (IF Len(g.moves[p]) <= LateIndex \/ d < LateMinDepth THEN 0
                                    ELSE IF d >= LateDeep THEN 2 ELSE 1)) >= g.sees.lower[m]
    BY DepthsOfMoves
  <2> QED BY <1>2, <2>1 DEF Larger
<1>4. p \in g.timeless => m \in g.timeless
  BY TimelessMoves
<1>5. SeesAbove(g, p, d, r.score) => SeesBelow(g, m, less - 1, -r.score)
  BY <1>3, <1>4 DEF SeesBelow, SeesAbove, Scales
<1> QED BY <1>5 DEF ChildClaims, MoveAbove

LEMMA ChildScoreIs ==
    ASSUME Scales, NEW g, IsGame(g), NEW p, NEW list, NEW d, NEW ply, NEW from, NEW beta, NEW deeper,
           IsNode(g, p, list, d, ply, from, beta, deeper), MaxQuiescencePly \in Nat, MaxDepth \in Nat,
           NEW n \in Nodes(g, p, list, d, ply, from, beta, deeper), NEW i, i \in 1 .. Len(g.moves[p]),
           NEW dd, dd \in Int, dd <= d, NEW a, NEW b, a \in Int, b \in Int, a < b, InScale(a, b),
           NEW s, s \in Searches(g), TableTrue(g, s.tt), NEW r, r = ChildScore(n, i, dd, a, b, s)
    PROVE  /\ r \in Searches(g) /\ TableTrue(g, r.tt) /\ r.score \in Int
           /\ ChildClaims(g, list[i], dd - 1, ply, a, b, r)
<1>1. r = Negated(deeper[Call(list[i], dd - 1, ply + 1, -b, -a, s)])
  BY NodeType DEF ChildScore
<1>2. PICK m : m = list[i]
  OBVIOUS
<1>3. m \in Positions(g) /\ d \in Nat
  BY <1>2 DEF IsNode
<1>4. PICK less : less = dd - 1
  OBVIOUS
<1>5. less \in Int /\ less < d
  BY <1>3, <1>4
<1>6. r = Negated(deeper[Call(m, less, ply + 1, -b, -a, s)])
  BY <1>1, <1>2, <1>4
<1>7. /\ r \in Searches(g) /\ TableTrue(g, r.tt) /\ r.score \in Int
      /\ ChildClaims(g, m, less, ply, a, b, r)
  BY <1>3, <1>5, <1>6, DeepChild
<1> QED BY <1>2, <1>4, <1>7

LEMMA ReductionIs ==
    ASSUME NEW g, IsGame(g), NEW p, NEW list, NEW d, NEW ply, NEW from, NEW beta, NEW deeper,
           IsNode(g, p, list, d, ply, from, beta, deeper), LateIndex \in Nat, LateMinDepth \in Nat, LateDeep \in Nat,
           NEW n \in Nodes(g, p, list, d, ply, from, beta, deeper), NEW i, i \in 1 .. Len(g.moves[p])
    PROVE  /\ Reduction(n, i) \in {0, 1, 2}
           /\ Reduction(n, i) <= IF Len(g.moves[p]) <= LateIndex \/ d < LateMinDepth THEN 0
                                 ELSE IF d >= LateDeep THEN 2 ELSE 1
<1>1. d \in Nat /\ p \in Positions(g)
  BY DEF IsNode
<1>2. Len(g.moves[p]) \in Nat /\ i \in Nat /\ i <= Len(g.moves[p])
  BY <1>1, GameTypes
<1>3. Reduction(n, i) = 0 \/ (/\ ~(d < LateMinDepth) /\ ~(i <= LateIndex)
                              /\ Reduction(n, i) = IF d >= LateDeep /\ i > LateDeepIndex THEN 2 ELSE 1)
  BY NodeType DEF Reduction
<1> QED BY <1>1, <1>2, <1>3

LEMMA SearchChildIs ==
    ASSUME Scales, NEW g, IsGame(g), NEW p, NEW list, NEW d, NEW ply, NEW from, NEW beta, NEW deeper,
           IsNode(g, p, list, d, ply, from, beta, deeper), MaxQuiescencePly \in Nat, MaxDepth \in Nat,
           LateIndex \in Nat, LateMinDepth \in Nat, LateDeep \in Nat,
           NEW n \in Nodes(g, p, list, d, ply, from, beta, deeper), NEW i, i \in 1 .. Len(g.moves[p]),
           TableTrue(g, n.search.tt), n.alpha < beta, -Infinity <= n.alpha, NEW r, r = SearchChild(n, i)
    PROVE  /\ r \in Searches(g) /\ TableTrue(g, r.tt) /\ r.score \in Int
           /\ MoveClaims(g, p, d, ply, list[i], n.alpha, beta, r)
<1> DEFINE alpha == n.alpha
           m == list[i]
           less == Larger(1, d - Reduction(n, i))
           first == ChildScore(n, i, less, alpha, alpha + 1, n.search)
           again == ChildScore(n, i, d, alpha, alpha + 1, first)
           second == IF ~first.aborted /\ first.score > alpha THEN again ELSE first
           third == ChildScore(n, i, d, alpha, beta, second)
           whole == ChildScore(n, i, d, alpha, beta, n.search)
<1>1. r = IF i = 1 THEN whole
          ELSE IF ~second.aborted /\ second.score > alpha /\ second.score < beta THEN third ELSE second
  BY NodeType DEF SearchChild
<1>2. /\ d \in Nat /\ d > 0 /\ d <= MaxDepth /\ d \in Int /\ d <= d /\ beta \in Int /\ p \in Positions(g)
      /\ ~Ended(g, p) /\ g.moves[p] # <<>> /\ m \in ToSet(g.moves[p])
  <2>1. Len(<<>>) = 0 /\ 1 .. 0 = {}
    OBVIOUS
  <2>2. g.moves[p] # <<>>
    BY <2>1
  <2> QED BY <2>2 DEF IsNode
<1>3. /\ alpha \in Int /\ alpha + 1 \in Int /\ alpha < alpha + 1 /\ n.search \in Searches(g)
      /\ InScale(alpha, beta) /\ InScale(alpha, alpha + 1)
  <2>1. alpha \in Int /\ n.search \in Searches(g)
    BY NodeType
  <2>2. beta <= Infinity
    BY DEF IsNode
  <2> QED BY <1>2, <2>1, <2>2 DEF InScale, Infinity
<1>4. /\ Reduction(n, i) \in {0, 1, 2}
      /\ Reduction(n, i) <= IF Len(g.moves[p]) <= LateIndex \/ d < LateMinDepth THEN 0
                            ELSE IF d >= LateDeep THEN 2 ELSE 1
  BY ReductionIs
<1>5. less \in Int /\ less <= d
  BY <1>2, <1>4 DEF Larger
<1>6. less = Larger(1, d - Reduction(n, i))
  OBVIOUS
<1> HIDE DEF less
<1>7. /\ first \in Searches(g) /\ TableTrue(g, first.tt) /\ first.score \in Int
      /\ ChildClaims(g, m, less - 1, ply, alpha, alpha + 1, first)
  BY <1>3, <1>5, ChildScoreIs
<1> HIDE DEF first
<1>8. ~first.aborted /\ first.score < alpha + 1 => MoveAbove(g, p, d, ply, m, first.score)
  <2> HIDE DEF m, alpha
  <2> QED BY <1>2, <1>4, <1>6, <1>7, LateClaims
<1>9. /\ again \in Searches(g) /\ TableTrue(g, again.tt) /\ again.score \in Int
      /\ ChildClaims(g, m, d - 1, ply, alpha, alpha + 1, again)
  BY <1>2, <1>3, <1>7, ChildScoreIs
<1> HIDE DEF again
<1>10. MoveClaims(g, p, d, ply, m, alpha, alpha + 1, again)
  <2> HIDE DEF m, alpha
  <2> QED BY <1>2, <1>9, FullDepthClaims
(* What the empty window settles, at full depth or reduced. *)
<1>11. /\ second \in Searches(g) /\ TableTrue(g, second.tt) /\ second.score \in Int
       /\ MoveClaims(g, p, d, ply, m, alpha, alpha + 1, second)
  <2>1. CASE ~first.aborted /\ first.score > alpha
    BY <1>9, <1>10, <2>1
  <2>2. CASE ~(~first.aborted /\ first.score > alpha)
    BY <1>7, <1>8, <2>2 DEF MoveClaims
  <2> QED BY <2>1, <2>2
<1> HIDE DEF second
<1>12. /\ third \in Searches(g) /\ TableTrue(g, third.tt) /\ third.score \in Int
       /\ ChildClaims(g, m, d - 1, ply, alpha, beta, third)
  BY <1>2, <1>3, <1>11, ChildScoreIs
<1> HIDE DEF third
<1>13. MoveClaims(g, p, d, ply, m, alpha, beta, third)
  <2> HIDE DEF m, alpha
  <2> QED BY <1>2, <1>12, FullDepthClaims
<1>14. /\ whole \in Searches(g) /\ TableTrue(g, whole.tt) /\ whole.score \in Int
       /\ ChildClaims(g, m, d - 1, ply, alpha, beta, whole)
  BY <1>2, <1>3, ChildScoreIs
<1> HIDE DEF whole
<1>15. MoveClaims(g, p, d, ply, m, alpha, beta, whole)
  <2> HIDE DEF m, alpha
  <2> QED BY <1>2, <1>14, FullDepthClaims
<1>16. ~(second.score > alpha /\ second.score < beta) => MoveClaims(g, p, d, ply, m, alpha, beta, second)
  BY <1>2, <1>3, <1>11 DEF MoveClaims
<1>17. CASE i = 1
  BY <1>1, <1>14, <1>15, <1>17
<1>18. CASE i # 1 /\ ~second.aborted /\ second.score > alpha /\ second.score < beta
  BY <1>1, <1>12, <1>13, <1>18
<1>19. CASE i # 1 /\ ~(~second.aborted /\ second.score > alpha /\ second.score < beta)
  <2>1. MoveClaims(g, p, d, ply, m, alpha, beta, second)
    BY <1>16, <1>19 DEF MoveClaims
  <2> QED BY <1>1, <1>11, <1>19, <2>1
<1> QED BY <1>17, <1>18, <1>19

(* What the loop over the moves knows when it has tried the first i of them,
   with a the alpha it started from. *)
DeepLoop(g, p, list, d, ply, from, beta, deeper, a, i, n) ==
    /\ n \in Nodes(g, p, list, d, ply, from, beta, deeper) /\ TableTrue(g, n.search.tt)
    /\ ~n.search.aborted =>
          /\ n.alpha = Larger(a, n.best)
          /\ n.best > a => Below(g, p, d, ply, n.best)
          /\ n.alpha < beta => \A j \in 1 .. i : MoveAbove(g, p, d, ply, list[j], n.best)

LEMMA MoveAboveRises ==
    ASSUME Scales, NEW g, IsGame(g), NEW p, p \in Positions(g), NEW d, NEW ply \in Nat, ply + 1 <= MaxPly,
           NEW m, m \in Positions(g), NEW score, NEW higher, score \in Int, higher \in Int, score <= higher,
           MoveAbove(g, p, d, ply, m, score)
    PROVE  MoveAbove(g, p, d, ply, m, higher)
<1>1. At(g, m, ply + 1) \in Int
  BY MoveAt
<1>2. SeesAbove(g, p, d, higher) => SeesAbove(g, p, d, score)
  BY DEF SeesAbove, Scales
<1> QED BY <1>1, <1>2 DEF MoveAbove

LEMMA TryMoveIs ==
    ASSUME NEW g, NEW p, NEW list, NEW d, NEW ply, NEW from, NEW beta, NEW deeper,
           NEW n \in Nodes(g, p, list, d, ply, from, beta, deeper), NEW i,
           NEW r, r = SearchChild(n, i)
    PROVE  TryMove(n, i) =
               IF n.search.aborted \/ n.alpha >= beta THEN n
               ELSE Took4(n, r, Larger(n.alpha, r.score), Larger(n.best, r.score),
                          IF r.score > n.best THEN list[i] ELSE n.move)
<1>1. TryMove(n, i) =
          IF n.search.aborted \/ n.alpha >= n.beta THEN n
          ELSE Took4(n, r, Larger(n.alpha, r.score), Larger(n.best, r.score),
                     IF r.score > n.best THEN n.moves[i] ELSE n.move)
  BY DEF TryMove, Took4
<1> QED BY <1>1, NodeType

LEMMA DeepStep ==
    ASSUME Scales, NEW g, IsGame(g), NEW p, NEW list, NEW d, NEW ply, NEW from, NEW beta, NEW deeper,
           IsNode(g, p, list, d, ply, from, beta, deeper), MaxQuiescencePly \in Nat, MaxDepth \in Nat,
           LateIndex \in Nat, LateMinDepth \in Nat, LateDeep \in Nat, NEW a, a \in Int, -Infinity <= a,
           NEW i \in Nat, i + 1 \in 1 .. Len(g.moves[p]), NEW n,
           DeepLoop(g, p, list, d, ply, from, beta, deeper, a, i, n)
    PROVE  DeepLoop(g, p, list, d, ply, from, beta, deeper, a, i + 1, TryMove(n, i + 1))
<1> DEFINE r == SearchChild(n, i + 1)
           m == list[i + 1]
           alpha == Larger(n.alpha, r.score)
           best == Larger(n.best, r.score)
           move == IF r.score > n.best THEN list[i + 1] ELSE n.move
           k == TryMove(n, i + 1)
<1>1. /\ n \in Nodes(g, p, list, d, ply, from, beta, deeper) /\ TableTrue(g, n.search.tt)
      /\ n.alpha \in Int /\ n.best \in Int /\ n.move \in Moves(g) /\ n.search \in Searches(g)
  BY NodeType DEF DeepLoop
<1>2. /\ d \in Nat /\ d > 0 /\ d <= MaxDepth /\ ply \in Nat /\ ply + 1 <= MaxPly /\ beta \in Int /\ p \in Positions(g)
      /\ ~Ended(g, p) /\ m \in ToSet(g.moves[p]) /\ m \in Positions(g)
      /\ \A j \in 1 .. i : list[j] \in Positions(g)
  <2>1. p \in Positions(g)
    BY DEF IsNode
  <2>2. Len(g.moves[p]) \in Nat /\ \A j \in 1 .. i : j \in 1 .. Len(g.moves[p])
    BY <2>1, GameTypes
  <2>3. /\ d \in Nat /\ d > 0 /\ d <= MaxDepth /\ ply \in Nat /\ beta \in Int /\ Reaches(ply, d) /\ ~Ended(g, p)
        /\ \A j \in 1 .. Len(g.moves[p]) : list[j] \in ToSet(g.moves[p]) /\ list[j] \in Positions(g)
    BY DEF IsNode
  <2>4. ply + 1 <= MaxPly
    BY <2>3 DEF Reaches, Larger, Scales
  <2> QED BY <2>1, <2>2, <2>3, <2>4
<1>3. k = IF n.search.aborted \/ n.alpha >= beta THEN n ELSE Took4(n, r, alpha, best, move)
  BY <1>1, TryMoveIs
<1>4. \A j \in 1 .. (i + 1) : j \in 1 .. i \/ list[j] = m
  OBVIOUS
<1> SUFFICES DeepLoop(g, p, list, d, ply, from, beta, deeper, a, i + 1, k)
  OBVIOUS
<1> HIDE DEF k
<1>5. CASE n.search.aborted \/ n.alpha >= beta
  <2>1. ~n.search.aborted => ~(n.alpha < beta)
    BY <1>1, <1>2, <1>5
  <2> QED BY <1>3, <1>5, <2>1 DEF DeepLoop
<1>6. CASE ~(n.search.aborted \/ n.alpha >= beta)
  <2>1. n.alpha < beta /\ ~n.search.aborted
    BY <1>1, <1>2, <1>6
  <2>9. -Infinity <= n.alpha
    <3>1. n.alpha = Larger(a, n.best)
      BY <2>1 DEF DeepLoop
    <3> QED BY <1>1, <3>1 DEF Larger, Infinity
  <2>2. /\ r \in Searches(g) /\ TableTrue(g, r.tt) /\ r.score \in Int
        /\ MoveClaims(g, p, d, ply, m, n.alpha, beta, r)
    BY <1>1, <2>1, <2>9, SearchChildIs
  <2> HIDE DEF r
  <2>3. alpha \in Int /\ best \in Int /\ move \in Moves(g)
    BY <1>1, <1>2, <2>2 DEF Larger, Moves
  <2>4. /\ n.alpha = Larger(a, n.best)
        /\ n.best > a => Below(g, p, d, ply, n.best)
        /\ \A j \in 1 .. i : MoveAbove(g, p, d, ply, list[j], n.best)
    BY <2>1 DEF DeepLoop
  <2>5. alpha = Larger(a, best)
    BY <1>1, <2>2, <2>4 DEF Larger
  <2>6. /\ k \in Nodes(g, p, list, d, ply, from, beta, deeper)
        /\ k.search = r /\ k.alpha = alpha /\ k.best = best
    <3>1. k = Took4(n, r, alpha, best, move)
      BY <1>3, <1>6
    <3> HIDE DEF alpha, best, move
    <3> QED BY <1>1, <2>2, <2>3, <3>1, Took4Is
  <2> HIDE DEF m
  <2>7. ASSUME ~r.aborted, best > a PROVE Below(g, p, d, ply, best)
    <3>1. CASE best = n.best
      BY <2>4, <2>7, <3>1
    <3>2. CASE best # n.best
      <4>1. best = r.score /\ r.score > n.alpha
        BY <1>1, <2>2, <2>4, <2>7, <3>2 DEF Larger
      <4>2. MoveBelow(g, p, d, ply, m, r.score)
        BY <2>2, <2>7, <4>1 DEF MoveClaims
      <4>3. Below(g, p, d, ply, r.score)
        BY <1>2, <2>2, <4>2, OneMoveBelow
      <4> QED BY <4>1, <4>3
    <3> QED BY <3>1, <3>2
  <2>8. ASSUME ~r.aborted, alpha < beta PROVE \A j \in 1 .. (i + 1) : MoveAbove(g, p, d, ply, list[j], best)
    <3>1. r.score < beta /\ r.score <= best /\ n.best <= best
      BY <1>1, <1>2, <2>2, <2>8 DEF Larger
    <3> HIDE DEF best, alpha
    <3>2. MoveAbove(g, p, d, ply, m, best)
      <4>1. MoveAbove(g, p, d, ply, m, r.score)
        BY <2>2, <2>8, <3>1 DEF MoveClaims
      <4> QED BY <1>2, <2>2, <2>3, <3>1, <4>1, MoveAboveRises
    <3>3. ASSUME NEW j \in 1 .. i PROVE MoveAbove(g, p, d, ply, list[j], best)
      <4>1. PICK x : x = list[j]
        OBVIOUS
      <4>2. x \in Positions(g) /\ MoveAbove(g, p, d, ply, x, n.best)
        BY <1>2, <2>4, <4>1
      <4>3. MoveAbove(g, p, d, ply, x, best)
        BY <1>1, <1>2, <2>3, <3>1, <4>2, MoveAboveRises
      <4> QED BY <4>1, <4>3
    <3> QED BY <1>4, <3>2, <3>3
  <2> HIDE DEF alpha, best
  <2> QED BY <2>2, <2>5, <2>6, <2>7, <2>8 DEF DeepLoop
<1> QED BY <1>5, <1>6

Deep == INSTANCE FoldTheorems WITH Step <- TryMove

LEMMA DeepLoopEnds ==
    ASSUME Scales, NEW g, IsGame(g), NEW p, NEW list, NEW d, NEW ply, NEW from, NEW beta, NEW deeper,
           IsNode(g, p, list, d, ply, from, beta, deeper), MaxQuiescencePly \in Nat, MaxDepth \in Nat,
           LateIndex \in Nat, LateMinDepth \in Nat, LateDeep \in Nat, NEW a, a \in Int, -Infinity <= a,
           NEW n, n \in Nat, n = Len(g.moves[p]), NEW first,
           DeepLoop(g, p, list, d, ply, from, beta, deeper, a, 0, first)
    PROVE  DeepLoop(g, p, list, d, ply, from, beta, deeper, a, n, FoldLeft(TryMove, first, [i \in 1 .. n |-> i]))
<1> DEFINE of == [i \in 1 .. n |-> i]
<1>1. FoldLeft(TryMove, first, of) = Deep!Fold(first, of)
  BY DEF Deep!Fold, Deep!Greatest, FoldLeft, MapThenFoldSet, Max
<1>2. DOMAIN of = 1 .. n /\ \A i \in 1 .. n : of[i] = i
  OBVIOUS
<1> HIDE DEF of
<1>3. PICK r : Deep!IsRun(r, n, first, of) /\ r[n] = Deep!Fold(first, of)
  BY <1>2, Deep!FoldRuns
<1> DEFINE A == {i \in Nat : i <= n => DeepLoop(g, p, list, d, ply, from, beta, deeper, a, i, r[i])}
<1>4. 0 \in A
  <2>1. r[0] = first
    BY <1>3 DEF Deep!IsRun
  <2> QED BY <2>1
<1>5. ASSUME NEW i \in Nat, i \in A PROVE i + 1 \in A
  <2> SUFFICES ASSUME i + 1 <= n PROVE DeepLoop(g, p, list, d, ply, from, beta, deeper, a, i + 1, r[i + 1])
    OBVIOUS
  <2>1. i + 1 \in 1 .. n /\ i + 1 - 1 = i /\ DeepLoop(g, p, list, d, ply, from, beta, deeper, a, i, r[i])
    BY <1>5
  <2>2. r[i + 1] = TryMove(r[i], i + 1)
    BY <1>2, <1>3, <2>1 DEF Deep!IsRun
  <2> HIDE DEF A
  <2>3. PICK k : k = r[i]
    OBVIOUS
  <2>4. DeepLoop(g, p, list, d, ply, from, beta, deeper, a, i + 1, TryMove(k, i + 1))
    BY <2>1, <2>3, DeepStep
  <2> QED BY <2>2, <2>3, <2>4
<1>6. n \in A
  <2> HIDE DEF A
  <2> QED BY <1>4, <1>5, Deep!Induction
<1> QED BY <1>1, <1>3, <1>6 DEF of

(* A lower claim holds of any lesser score. *)
LEMMA BelowFalls ==
    ASSUME Scales, NEW g, IsGame(g), NEW p, p \in Positions(g), NEW d, NEW ply \in Nat,
           NEW score, NEW lower, score \in Int, lower \in Int, lower <= score,
           Below(g, p, d, ply, score), At(g, p, ply) \in Int
    PROVE  Below(g, p, d, ply, lower)
<1>1. SeesBelow(g, p, d, lower) => SeesBelow(g, p, d, score)
  BY DEF SeesBelow, Scales
<1> QED BY <1>1 DEF Below

LEMMA AboveRises ==
    ASSUME Scales, NEW g, IsGame(g), NEW p, p \in Positions(g), NEW d, NEW ply \in Nat,
           NEW score, NEW higher, score \in Int, higher \in Int, score <= higher,
           Above(g, p, d, ply, score), At(g, p, ply) \in Int
    PROVE  Above(g, p, d, ply, higher)
<1>1. SeesAbove(g, p, d, higher) => SeesAbove(g, p, d, score)
  BY DEF SeesAbove, Scales
<1> QED BY <1>1 DEF Above

LEMMA AtIs ==
    ASSUME Scales, NEW g, IsGame(g), NEW p, p \in Positions(g), NEW ply \in Nat, ply <= MaxPly
    PROVE  At(g, p, ply) \in Int /\ At(g, p, ply) >= -Infinity
<1>1. g.value[p] \in Int /\ -30000 <= g.value[p] /\ g.value[p] <= 30000
  BY GameTypes DEF Scales
<1>2. At(g, p, ply) = IF g.value[p] >= 28744 THEN g.value[p] - ply
                      ELSE IF g.value[p] <= -28744 THEN g.value[p] + ply ELSE g.value[p]
  BY <1>1, FromTT DEF At
<1> QED BY <1>1, <1>2 DEF Scales

LEMMA TryMovesAnswers ==
    ASSUME Scales, NEW g, IsGame(g), NEW p, NEW list, NEW d, NEW ply, NEW from, NEW beta, NEW deeper,
           IsNode(g, p, list, d, ply, from, beta, deeper), MaxQuiescencePly \in Nat, MaxDepth \in Nat,
           LateIndex \in Nat, LateMinDepth \in Nat, LateDeep \in Nat,
           NEW n \in Nodes(g, p, list, d, ply, from, beta, deeper), TableTrue(g, n.search.tt),
           n.best = -Infinity, from <= n.alpha, n.alpha < beta, n.alpha > from => Below(g, p, d, ply, n.alpha),
           -Infinity <= n.alpha, DOMAIN list = 1 .. Len(g.moves[p]), g.moves[p] # <<>>
    PROVE  IsAnswer(g, p, d, ply, from, beta, TryMoves(n))
<1> DEFINE a == n.alpha
           len == Len(g.moves[p])
           last == FoldLeft(TryMove, n, [i \in 1 .. len |-> i])
           stored == StoreTT(g, last.search, p, d, ply, last.best, from, beta, last.move)
<1>1. /\ p \in Positions(g) /\ ~Ended(g, p) /\ g.moves[p] # <<>> /\ d \in Nat /\ ply \in Nat /\ Reaches(ply, d)
      /\ from \in Int /\ beta \in Int /\ d > 0
      /\ \A m \in ToSet(g.moves[p]) : \E i \in 1 .. len : list[i] = m
  BY DEF IsNode
<1>2. ply + 1 <= MaxPly /\ ply <= MaxPly
  BY <1>1 DEF Reaches, Larger, Scales
<1>3. a \in Int /\ len \in Nat /\ n.search \in Searches(g) /\ -Infinity <= a
  BY <1>1, GameTypes, NodeType
<1>4. DeepLoop(g, p, list, d, ply, from, beta, deeper, a, 0, n)
  <2>1. n.alpha = Larger(a, n.best) /\ ~(n.best > a) /\ 1 .. 0 = {}
    BY <1>3 DEF Larger, Infinity
  <2> QED BY <2>1 DEF DeepLoop
<1>5. TryMoves(n) = IF last.search.aborted THEN Return(last.search, 0) ELSE Return(stored, last.best)
  <2>1. n.g = g /\ n.moves = list /\ n.p = p /\ n.depth = d /\ n.ply = ply /\ n.from = from /\ n.beta = beta
    BY NodeType
  <2> QED BY <2>1 DEF TryMoves
<1>6. DeepLoop(g, p, list, d, ply, from, beta, deeper, a, len, last)
  <2> HIDE DEF a
  <2> QED BY <1>3, <1>4, DeepLoopEnds
<1> HIDE DEF last, stored
<1>7. /\ last.search \in Searches(g) /\ TableTrue(g, last.search.tt) /\ last.best \in Int /\ last.move \in Moves(g)
      /\ last.alpha \in Int
  BY <1>6, NodeType DEF DeepLoop
<1>8. CASE last.search.aborted
  <2>1. PICK s : s = last.search
    OBVIOUS
  <2>2. Return(s, 0) \in Searches(g) /\ Return(s, 0).tt = s.tt /\ Return(s, 0).aborted = s.aborted
    <3>1. 0 \in Int
      OBVIOUS
    <3> QED BY <1>7, <2>1, <3>1, ReturnIs
  <2>3. Return(s, 0).aborted
    BY <1>8, <2>1, <2>2
  <2> QED BY <1>5, <1>7, <1>8, <2>1, <2>2, <2>3, AbortIsAnswer
<1>9. CASE ~last.search.aborted
  <2>1. PICK best : best = last.best
    OBVIOUS
  <2>2. best \in Int /\ last.alpha = Larger(a, best)
    BY <1>6, <1>7, <1>9, <2>1 DEF DeepLoop
  <2>3. best > from => Below(g, p, d, ply, best)
    <3>1. CASE best > a
      BY <1>6, <1>9, <2>1, <3>1 DEF DeepLoop
    <3>2. CASE best <= a /\ best > from
      <4>1. Below(g, p, d, ply, a) /\ At(g, p, ply) \in Int
        BY <1>1, <1>2, <1>3, <2>2, <3>2, AtIs
      <4> HIDE DEF a
      <4> QED BY <1>1, <1>3, <2>2, <3>2, <4>1, BelowFalls
    <3> QED BY <1>3, <2>2, <3>1, <3>2
  <2>4. best < beta => Above(g, p, d, ply, best)
    <3> SUFFICES ASSUME best < beta PROVE Above(g, p, d, ply, best)
      OBVIOUS
    <3>1. last.alpha < beta
      BY <1>1, <1>3, <2>2 DEF Larger
    <3>2. \A j \in 1 .. len : MoveAbove(g, p, d, ply, list[j], best)
      BY <1>6, <1>9, <2>1, <3>1 DEF DeepLoop
    <3>3. AllAbove(g, p, d, ply, best)
      BY <1>1, <3>2 DEF AllAbove
    <3> QED BY <1>1, <1>2, <2>2, <3>3, AllMovesAbove
  <2>5. stored \in Searches(g) /\ TableTrue(g, stored.tt)
    <3>1. PICK s \in Searches(g), move \in Moves(g) : s = last.search /\ move = last.move
      BY <1>7
    <3>2. stored = StoreTT(g, s, p, d, ply, best, from, beta, move) /\ TableTrue(g, s.tt)
      BY <1>7, <2>1, <3>1 DEF stored
    <3>3. from < beta
      BY <1>1, <1>3
    <3> QED BY <1>1, <1>2, <2>2, <2>3, <2>4, <3>2, <3>3, StoreKeepsTruth
  <2>6. Return(stored, best) \in Searches(g) /\ Return(stored, best).tt = stored.tt /\ Return(stored, best).score = best
    BY <2>2, <2>5, ReturnIs
  <2>7. TryMoves(n) = Return(stored, best)
    BY <1>5, <1>9, <2>1
  <2> QED BY <2>3, <2>4, <2>5, <2>6, <2>7 DEF IsAnswer
<1> QED BY <1>8, <1>9

(* The moves in the order of a node are the same moves. *)
SameMoves(k, list, S) ==
    /\ k \in Seq(S) /\ Len(k) = Len(list) /\ DOMAIN k = 1 .. Len(list)
    /\ ToSet(k) = ToSet(list)
    /\ \A i \in 1 .. Len(list) : k[i] \in ToSet(list) /\ k[i] \in S
    /\ \A m \in ToSet(list) : \E i \in 1 .. Len(list) : k[i] = m

LEMMA ScoreMovesAre ==
    ASSUME NEW g, NEW S, NEW list \in Seq(S), NEW ttMove, NEW k, k = ScoreMoves(g, list, ttMove)
    PROVE  SameMoves(k, list, S)
<1> DEFINE n == Len(list)
           same == {i \in DOMAIN list : g.key[list[i]] = ttMove}
           at == CHOOSE i \in same : TRUE
<1>1. /\ n \in Nat /\ DOMAIN list = 1 .. n /\ \A i \in 1 .. n : list[i] \in S
      /\ ToSet(list) = {list[i] : i \in 1 .. n}
  BY DEF ToSet
<1>2. CASE same = {}
  <2>1. k = list
    BY <1>2 DEF ScoreMoves
  <2> HIDE DEF at, same
  <2> QED BY <1>1, <2>1 DEF SameMoves
<1>3. CASE same # {}
  <2>1. k = [i \in DOMAIN list |-> IF i = 1 THEN list[at] ELSE IF i <= at THEN list[i - 1] ELSE list[i]]
    BY <1>3 DEF ScoreMoves
  <2>2. at \in 1 .. n
    BY <1>1, <1>3
  <2> HIDE DEF at, n, same
  <2>3. \A i \in 1 .. n : k[i] = IF i = 1 THEN list[at] ELSE IF i <= at THEN list[i - 1] ELSE list[i]
    BY <1>1, <2>1
  <2>4. DOMAIN k = 1 .. n
    BY <1>1, <2>1
  <2>5. ASSUME NEW i \in 1 .. n PROVE k[i] \in ToSet(list) /\ k[i] \in S
    <3>1. CASE i = 1
      BY <1>1, <2>2, <2>3, <3>1
    <3>2. CASE i # 1 /\ i <= at
      <4>1. i - 1 \in 1 .. n /\ k[i] = list[i - 1]
        BY <1>1, <2>2, <2>3, <3>2
      <4> QED BY <1>1, <4>1
    <3>3. CASE i # 1 /\ ~(i <= at)
      BY <1>1, <2>3, <3>3
    <3> QED BY <3>1, <3>2, <3>3
  <2>6. ASSUME NEW j \in 1 .. n PROVE \E i \in 1 .. n : k[i] = list[j]
    <3>1. CASE j < at
      <4>1. j + 1 \in 1 .. n /\ j + 1 # 1 /\ j + 1 <= at /\ j + 1 - 1 = j
        BY <1>1, <2>2, <3>1
      <4>2. k[j + 1] = list[j]
        BY <2>3, <4>1
      <4> QED BY <4>1, <4>2
    <3>2. CASE j = at
      <4>1. 1 \in 1 .. n
        BY <1>1
      <4> QED BY <2>2, <2>3, <3>2, <4>1
    <3>3. CASE j > at
      <4>1. j # 1 /\ ~(j <= at)
        BY <1>1, <2>2, <3>3
      <4> QED BY <2>3, <4>1
    <3> QED BY <1>1, <2>2, <3>1, <3>2, <3>3
  <2>7. k \in [1 .. n -> S]
    BY <1>1, <2>1, <2>4, <2>5
  <2>8. k \in Seq(S) /\ Len(k) = n
    BY <1>1, <2>7
  <2>9. \A m \in ToSet(list) : \E i \in 1 .. n : k[i] = m
    BY <1>1, <2>6
  <2>10. ToSet(k) = ToSet(list)
    BY <2>4, <2>5, <2>9 DEF ToSet
  <2> QED BY <2>4, <2>5, <2>8, <2>9, <2>10 DEF n, SameMoves
<1> QED BY <1>2, <1>3

(* A pass. *)
LEMMA PassIs ==
    ASSUME Scales, NEW g, IsGame(g), NEW p, NEW list, NEW d, NEW ply, NEW from, NEW beta, NEW deeper,
           IsNode(g, p, list, d, ply, from, beta, deeper), MaxQuiescencePly \in Nat, MaxDepth \in Nat,
           NullBase \in Nat, CanTryNullMove(g, p, d, beta), NEW s, s \in Searches(g), TableTrue(g, s.tt), NEW r,
           r = Negated(deeper[Call(g.null[p], NullDepth(d), ply + 1, -beta, 1 - beta, s)])
    PROVE  /\ r \in Searches(g) /\ TableTrue(g, r.tt) /\ r.score \in Int
           /\ ~r.aborted /\ r.score >= beta => Below(g, p, d, ply, r.score)
<1>1. /\ p \in Positions(g) /\ d \in Nat /\ ply \in Nat /\ beta \in Int /\ beta <= Infinity /\ ~Ended(g, p)
      /\ d <= MaxDepth /\ Reaches(ply, d)
  BY DEF IsNode
<1>2. /\ d >= NullMinDepth /\ beta > -DecisiveThreshold /\ ~g.inCheck[p] /\ g.null[p] # NoMove
  BY DEF CanTryNullMove
<1>3. PICK m \in Positions(g) : m = g.null[p]
  BY <1>1, <1>2, GameTypes
<1>4. PICK less : less = NullDepth(d)
  OBVIOUS
<1>5. less \in Int /\ less < d
  <2>1. d \div 4 \in Nat
    BY <1>1
  <2> QED BY <1>1, <1>4, <2>1 DEF NullDepth
<1>6. PICK a : a = beta - 1
  OBVIOUS
<1>7. a \in Int /\ a < beta /\ InScale(a, beta) /\ -a = 1 - beta
  BY <1>1, <1>2, <1>6 DEF InScale, Scales
<1>8. r = Negated(deeper[Call(m, less, ply + 1, -beta, -a, s)])
  BY <1>3, <1>4, <1>7
<1>9. /\ r \in Searches(g) /\ TableTrue(g, r.tt) /\ r.score \in Int
      /\ ChildClaims(g, m, less, ply, a, beta, r)
  BY <1>1, <1>5, <1>7, <1>8, DeepChild
<1>10. ply + 1 <= MaxPly
  BY <1>1 DEF Reaches, Larger, Scales
<1>11. /\ At(g, p, ply) \in Int /\ At(g, m, ply + 1) \in Int
       /\ p \in g.timeless => m \in g.timeless /\ At(g, p, ply) >= -At(g, m, ply + 1)
  <2>1. p \in g.timeless => m \in g.timeless /\ g.value[p] >= WorthOfMove(g, m)
    BY <1>1, <1>2, <1>3, TimelessMoves DEF IsGame, PassingNeverHelps
  <2> QED BY <1>1, <1>10, <2>1, MoveAt
<1>12. d >= g.sees.lower[p] => less >= g.sees.upper[m]
  <2> SUFFICES ASSUME d >= g.sees.lower[p] PROVE less >= g.sees.upper[m]
    OBVIOUS
  <2>2. g.sees.lower[p] \in Nat
    BY <1>1, GameTypes
  <2>3. d \in g.sees.lower[p] .. MaxDepth
    BY <1>1, <2>2
  <2>4. LowerSees(g, g.sees, p, d)
    BY <1>1, <2>3 DEF IsGame, SeesAll
  <2> QED BY <1>2, <1>3, <1>4, <2>4 DEF LowerSees
<1>13. ASSUME ~r.aborted, r.score >= beta PROVE Below(g, p, d, ply, r.score)
  <2>1. r.score > a
    BY <1>1, <1>6, <1>9, <1>13
  <2>2. PICK score : score = r.score
    OBVIOUS
  <2>3. SeesBelow(g, p, d, score) => SeesAbove(g, m, less, -score)
    <3>1. score \in Int /\ DecisiveThreshold \in Int
      BY <1>9, <2>2 DEF Scales
    <3> QED BY <1>11, <1>12, <3>1 DEF SeesBelow, SeesAbove
  <2>4. SeesBelow(g, p, d, score) => -At(g, m, ply + 1) >= score
    BY <1>9, <1>13, <2>1, <2>2, <2>3 DEF ChildClaims
  <2>5. SeesBelow(g, p, d, score) => p \in g.timeless
    BY DEF SeesBelow
  <2>6. score \in Int /\ (SeesBelow(g, p, d, score) => At(g, p, ply) >= score)
    BY <1>9, <1>11, <2>2, <2>4, <2>5
  <2> QED BY <2>2, <2>6 DEF Below
<1> QED BY <1>9, <1>13

LEMMA SearchMovesAnswers ==
    ASSUME Scales, NEW g, IsGame(g), NEW p, NEW list, NEW d, NEW ply, NEW from, NEW beta, NEW deeper,
           IsNode(g, p, list, d, ply, from, beta, deeper), MaxQuiescencePly \in Nat, MaxDepth \in Nat,
           LateIndex \in Nat, LateMinDepth \in Nat, LateDeep \in Nat, NullBase \in Nat,
           NEW n \in Nodes(g, p, list, d, ply, from, beta, deeper), TableTrue(g, n.search.tt),
           n.best = -Infinity, from <= n.alpha, n.alpha < beta, n.alpha > from => Below(g, p, d, ply, n.alpha),
           -Infinity <= n.alpha, DOMAIN list = 1 .. Len(g.moves[p]), list = <<>> <=> g.moves[p] = <<>>
    PROVE  IsAnswer(g, p, d, ply, from, beta, SearchMoves(n))
<1> DEFINE tried == Negated(deeper[Call(g.null[p], NullDepth(d), ply + 1, -beta, 1 - beta, n.search)])
           passed == IF CanTryNullMove(g, p, d, beta) THEN tried ELSE Return(n.search, -Infinity)
           end == IF g.inCheck[p] THEN ply - MateScore ELSE 0
           k == [n EXCEPT !.search = passed]
<1>1. /\ p \in Positions(g) /\ d \in Nat /\ ply \in Nat /\ beta \in Int /\ from \in Int /\ ~Ended(g, p) /\ Reaches(ply, d)
  BY DEF IsNode
<1>2. ply <= MaxPly
  BY <1>1 DEF Reaches, Larger, Scales
<1>3. n.search \in Searches(g) /\ n.alpha \in Int
  BY NodeType
<1>4. SearchMoves(n) = IF passed.aborted THEN Return(passed, 0)
                       ELSE IF passed.score >= beta THEN passed
                       ELSE IF list = <<>> THEN Return(passed, end)
                       ELSE TryMoves(k)
  <2>1. /\ n.g = g /\ n.p = p /\ n.moves = list /\ n.depth = d /\ n.ply = ply /\ n.beta = beta
        /\ n.deeper = deeper
    BY NodeType
  <2> QED BY <2>1 DEF SearchMoves
<1>5. /\ passed \in Searches(g) /\ TableTrue(g, passed.tt) /\ passed.score \in Int
      /\ ~passed.aborted /\ passed.score >= beta => Below(g, p, d, ply, passed.score)
  <2>1. CASE CanTryNullMove(g, p, d, beta)
    <3>1. passed = tried
      BY <2>1
    <3> HIDE DEF passed
    <3> QED BY <1>3, <2>1, <3>1, PassIs
  <2>2. CASE ~CanTryNullMove(g, p, d, beta)
    <3>1. passed = Return(n.search, -Infinity) /\ -Infinity \in Int
      BY <2>2 DEF Infinity
    <3>2. Return(n.search, -Infinity) \in Searches(g) /\ Return(n.search, -Infinity).tt = n.search.tt
          /\ Return(n.search, -Infinity).score = -Infinity
      BY <1>3, <3>1, ReturnIs
    <3>3. At(g, p, ply) \in Int /\ At(g, p, ply) >= -Infinity
      BY <1>1, <1>2, AtIs
    <3> HIDE DEF passed
    <3> QED BY <3>1, <3>2, <3>3 DEF Below
  <2> QED BY <2>1, <2>2
<1> HIDE DEF passed
<1>6. CASE passed.aborted
  <2>1. Return(passed, 0) \in Searches(g) /\ Return(passed, 0).tt = passed.tt
        /\ Return(passed, 0).aborted = passed.aborted
    <3>1. 0 \in Int
      OBVIOUS
    <3> QED BY <1>5, <3>1, ReturnIs
  <2>2. Return(passed, 0).aborted
    BY <1>6, <2>1
  <2>3. SearchMoves(n) = Return(passed, 0)
    BY <1>4, <1>6
  <2> QED BY <1>5, <2>1, <2>2, <2>3, AbortIsAnswer
<1>7. CASE ~passed.aborted /\ passed.score >= beta
  <2>1. SearchMoves(n) = passed /\ ~(passed.score < beta)
    BY <1>1, <1>4, <1>5, <1>7
  <2> QED BY <1>5, <1>7, <2>1 DEF IsAnswer
<1>8. CASE ~passed.aborted /\ ~(passed.score >= beta) /\ list = <<>>
  <2>1. end \in Int
    BY <1>1 DEF Scales
  <2>2. At(g, p, ply) = end
    BY <1>1, <1>2, <1>8, NoMovesAt
  <2>3. SearchMoves(n) = Return(passed, end)
    BY <1>4, <1>8
  <2> HIDE DEF end
  <2> QED BY <1>5, <2>1, <2>2, <2>3, ExactIsAnswer
<1>9. CASE ~passed.aborted /\ ~(passed.score >= beta) /\ list # <<>>
  <2>1. SearchMoves(n) = TryMoves(k)
    BY <1>4, <1>9
  <2>2. /\ k \in Nodes(g, p, list, d, ply, from, beta, deeper) /\ k.alpha = n.alpha /\ k.best = n.best
        /\ k.search = passed
    BY <1>5, NodeType DEF Nodes
  <2> HIDE DEF k
  <2>3. g.moves[p] # <<>>
    BY <1>9
  <2> QED BY <1>5, <2>1, <2>2, <2>3, TryMovesAnswers
<1> QED BY <1>6, <1>7, <1>8, <1>9

(* The answer in a window whose upper end an entry of the table lowered is one
   in the window asked for. *)
LEMMA AnswerWidens ==
    ASSUME Scales, NEW g, IsGame(g), NEW p, p \in Positions(g), NEW d, NEW ply \in Nat, ply <= MaxPly,
           NEW alpha, NEW beta, beta \in Int, NEW b, b \in Int, b <= beta,
           b < beta => Above(g, p, d, ply, b), NEW r, IsAnswer(g, p, d, ply, alpha, b, r)
    PROVE  IsAnswer(g, p, d, ply, alpha, beta, r)
<1>1. /\ r \in Searches(g) /\ TableTrue(g, r.tt) /\ r.score \in Int
      /\ ~r.aborted => /\ r.score > alpha => Below(g, p, d, ply, r.score)
                       /\ r.score < b => Above(g, p, d, ply, r.score)
  BY SearchType DEF IsAnswer
<1>2. ASSUME ~r.aborted, r.score < beta, ~(r.score < b) PROVE Above(g, p, d, ply, r.score)
  <2>1. b < beta /\ b <= r.score
    BY <1>1, <1>2
  <2>2. PICK score : score = r.score
    OBVIOUS
  <2>3. At(g, p, ply) \in Int
    BY AtIs
  <2>4. Above(g, p, d, ply, score)
    BY <1>1, <2>1, <2>2, <2>3, AboveRises
  <2> QED BY <2>2, <2>4
<1> QED BY <1>1, <1>2 DEF IsAnswer

LEMMA QuietIsAnswer ==
    ASSUME Scales, NEW g, IsGame(g), NEW p, p \in Positions(g), NEW d, d \in Int, d <= 0, NEW ply,
           NEW alpha, NEW beta, NEW r, IsAnswer(g, p, 0, ply, alpha, beta, r)
    PROVE  IsAnswer(g, p, d, ply, alpha, beta, r)
<1>1. g.sees.lower[p] \in Nat /\ g.sees.upper[p] \in Nat
  BY GameTypes
<1>2. ASSUME NEW score
      PROVE  /\ SeesBelow(g, p, d, score) => SeesBelow(g, p, 0, score)
             /\ SeesAbove(g, p, d, score) => SeesAbove(g, p, 0, score)
  BY <1>1 DEF SeesBelow, SeesAbove
<1> QED BY <1>2 DEF IsAnswer, Below, Above

LEMMA NegamaxNodeAnswers ==
    ASSUME Scales, NEW g, IsGame(g), MaxQuiescencePly \in Nat, MaxDepth \in Nat,
           LateIndex \in Nat, LateMinDepth \in Nat, LateDeep \in Nat, NullBase \in Nat,
           NEW c \in Calls(g), Fits(g, c), InScale(c.alpha, c.beta), c.depth <= MaxDepth, Reaches(c.ply, c.depth),
           NEW deeper, c.depth > 0 => DeepSound(g, deeper, c.depth - 1)
    PROVE  IsAnswer(g, c.p, c.depth, c.ply, c.alpha, c.beta, NegamaxNode(g, c, deeper))
<1>1. PICK p \in Positions(g), d \in Int, ply \in Nat, alpha \in Int, beta \in Int :
         /\ p = c.p /\ d = c.depth /\ ply = c.ply /\ alpha = c.alpha /\ beta = c.beta
  BY CallType
<1> DEFINE s     == Asked(c.search)
           entry == s.tt[g.key[p]]
           hit   == entry.depth >= d
           score == ScoreFromTT(entry.score, ply)
           a     == IF hit /\ entry.bound = "Lower" THEN Larger(alpha, score) ELSE alpha
           b     == IF hit /\ entry.bound = "Upper" THEN Smaller(beta, score) ELSE beta
           list  == ScoreMoves(g, g.moves[p], entry.move)
           n     == [g |-> g, p |-> p, moves |-> list, depth |-> d, ply |-> ply, from |-> alpha, beta |-> b,
                     deeper |-> deeper, alpha |-> a, best |-> -Infinity, move |-> NoMove, search |-> s]
           call  == [c EXCEPT !.search = s]
           r     == NegamaxNode(g, c, deeper)
<1>2. r = IF Stops(c.search) THEN Abort(c.search, Evaluate(g, p))
          ELSE IF Ended(g, p) THEN Return(s, TerminalScore(g, p, ply))
          ELSE IF ply >= MaxDepth THEN Return(s, Evaluate(g, p))
          ELSE IF d <= 0 THEN Quiescence(g)[call]
          ELSE IF hit /\ (entry.bound = "Exact" \/ a >= b) THEN Return(s, score)
          ELSE SearchMoves(n)
  BY <1>1 DEF NegamaxNode
<1> SUFFICES IsAnswer(g, p, d, ply, alpha, beta, r)
  BY <1>1
<1>3. /\ alpha < beta /\ -Infinity <= alpha /\ beta <= Infinity /\ d <= MaxDepth /\ Reaches(ply, d)
      /\ c.search \in Searches(g) /\ TableTrue(g, c.search.tt)
  BY <1>1, CallType DEF Fits, InScale
<1>4. ply + 1 <= MaxPly /\ ply <= MaxPly /\ ply + MaxQuiescencePly + 1 <= MaxPly
  BY <1>3 DEF Reaches, Larger, Scales
<1>5. s \in Searches(g) /\ TableTrue(g, s.tt)
  BY <1>3, AskedIs
<1>6. entry \in Entries(g) /\ entry.depth \in Int /\ entry.score \in Int /\ entry.bound \in Bounds
  BY <1>5, SearchType, EntryType
<1>7. c = [p |-> p, depth |-> d, ply |-> ply, alpha |-> alpha, beta |-> beta, search |-> c.search]
  BY <1>1 DEF Calls
<1>8. CASE Stops(c.search)
  <2>1. PICK e : e = Evaluate(g, p)
    OBVIOUS
  <2>2. e \in Int
    BY <2>1, GameTypes DEF Evaluate
  <2>3. PICK t : t = c.search
    OBVIOUS
  <2>4. Abort(t, e) \in Searches(g) /\ Abort(t, e).aborted /\ Abort(t, e).tt = t.tt
    BY <1>3, <2>2, <2>3, AbortIs
  <2>5. r = Abort(t, e)
    BY <1>2, <1>8, <2>1, <2>3
  <2> HIDE DEF r
  <2> QED BY <1>3, <2>3, <2>4, <2>5, AbortIsAnswer
<1>9. CASE ~Stops(c.search) /\ Ended(g, p)
  <2>1. At(g, p, ply) = TerminalScore(g, p, ply) /\ TerminalScore(g, p, ply) \in Int
    BY <1>4, <1>9, EndedAt
  <2>2. r = Return(s, TerminalScore(g, p, ply))
    BY <1>2, <1>9
  <2> HIDE DEF r, s
  <2> QED BY <1>5, <2>1, <2>2, ExactIsAnswer
(* At the deepest ply no depth is left. *)
<1>14. CASE ~Stops(c.search) /\ ~Ended(g, p) /\ ply >= MaxDepth
  <2>1. r = Return(s, Evaluate(g, p))
    BY <1>2, <1>14
  <2>2. d <= 0
    BY <1>3, <1>14 DEF Reaches, Larger, MaxPly
  <2>3. PICK e : e = Evaluate(g, p)
    OBVIOUS
  <2>4. e \in Int /\ Below(g, p, 0, ply, e) /\ Above(g, p, 0, ply, e)
    BY <1>14, <2>3, EvaluationClaims
  <2> HIDE DEF r, s
  <2>5. IsAnswer(g, p, 0, ply, alpha, beta, Return(s, e))
    BY <1>5, <2>4, ClaimsAreAnswer
  <2> QED BY <2>1, <2>2, <2>3, <2>5, QuietIsAnswer
<1>10. CASE ~Stops(c.search) /\ ~Ended(g, p) /\ ~(ply >= MaxDepth) /\ d <= 0
  <2>1. r = Quiescence(g)[call]
    BY <1>2, <1>10
  <2> HIDE DEF r, s
  <2>2. call = [p |-> p, depth |-> d, ply |-> ply, alpha |-> alpha, beta |-> beta, search |-> s]
    BY <1>7
  <2> HIDE DEF call
  <2>3. /\ call \in Calls(g) /\ call.p = p /\ call.ply = ply /\ call.alpha = alpha /\ call.beta = beta
        /\ call.search = s
    BY <1>5, <2>2 DEF Calls
  <2>4. Fits(g, call)
    BY <1>3, <1>5, <2>3 DEF Fits
  <2>5. IsAnswer(g, p, 0, ply, alpha, beta, Quiescence(g)[call])
    <3>1. QuietSound(g, Quiescence(g), MaxQuiescencePly)
      BY QuiescenceSound
    <3> QED BY <1>4, <2>3, <2>4, <3>1 DEF QuietSound
  <2> QED BY <1>10, <2>1, <2>5, QuietIsAnswer
<1>11. ASSUME ~Ended(g, p), d > 0, hit
       PROVE  /\ score \in Int
              /\ entry.bound # "Upper" => Below(g, p, d, ply, score)
              /\ entry.bound # "Lower" => Above(g, p, d, ply, score)
  <2>1. entry.depth >= 0 /\ d <= entry.depth
    BY <1>6, <1>11
  <2>2. p \in g.timeless => EntryIsTrue(g, p, entry)
    BY <1>5, <2>1 DEF TableTrue
  <2> HIDE DEF s, entry
  <2>3. PICK e \in Entries(g) : e = entry
    BY <1>6
  <2> QED BY <1>4, <2>1, <2>2, <2>3, ReadIsTrue
<1>12. CASE ~Stops(c.search) /\ ~Ended(g, p) /\ ~(ply >= MaxDepth) /\ d > 0 /\ hit /\ (entry.bound = "Exact" \/ a >= b)
  <2>1. r = Return(s, score)
    <3> HIDE DEF r, s, score, entry, hit, a, b, n, call
    <3> QED BY <1>2, <1>12
  <2>2. /\ score \in Int
        /\ entry.bound # "Upper" => Below(g, p, d, ply, score)
        /\ entry.bound # "Lower" => Above(g, p, d, ply, score)
    BY <1>11, <1>12
  <2>3. /\ score > alpha => entry.bound # "Upper"
        /\ score < beta => entry.bound # "Lower"
    <3> HIDE DEF score, entry
    <3> QED BY <1>3, <1>12, <2>2 DEF Larger, Smaller
  <2> HIDE DEF r, s, score, entry
  <2>4. Return(s, score) \in Searches(g) /\ Return(s, score).tt = s.tt /\ Return(s, score).score = score
    BY <1>5, <2>2, ReturnIs
  <2> QED BY <1>5, <2>1, <2>2, <2>3, <2>4 DEF IsAnswer
<1>13. CASE ~Stops(c.search) /\ ~Ended(g, p) /\ ~(ply >= MaxDepth) /\ d > 0 /\ ~(hit /\ (entry.bound = "Exact" \/ a >= b))
  <2>1. r = SearchMoves(n)
    <3> HIDE DEF r, s, score, entry, hit, a, b, n, call
    <3> QED BY <1>2, <1>13
  <2>2. /\ a \in Int /\ b \in Int /\ a < b /\ alpha <= a /\ b <= beta
        /\ a > alpha => Below(g, p, d, ply, a)
        /\ b < beta => Above(g, p, d, ply, b)
    <3>1. CASE hit
      <4>1. /\ score \in Int
            /\ entry.bound # "Upper" => Below(g, p, d, ply, score)
            /\ entry.bound # "Lower" => Above(g, p, d, ply, score)
        BY <1>11, <1>13, <3>1
      <4>2. ~(a >= b)
        BY <1>13, <3>1
      <4>3. /\ a = IF entry.bound = "Lower" THEN Larger(alpha, score) ELSE alpha
            /\ b = IF entry.bound = "Upper" THEN Smaller(beta, score) ELSE beta
        BY <3>1
      <4> HIDE DEF a, b, score, entry
      <4>4. a \in Int /\ b \in Int /\ (a = alpha \/ (a = score /\ entry.bound = "Lower"))
            /\ (b = beta \/ (b = score /\ entry.bound = "Upper")) /\ alpha <= a /\ b <= beta
        BY <4>1, <4>3 DEF Larger, Smaller
      <4> QED BY <4>1, <4>2, <4>4
    <3>2. CASE ~hit
      <4>1. a = alpha /\ b = beta
        BY <3>2
      <4> QED BY <1>3, <4>1
    <3> QED BY <3>1, <3>2
  <2>3. g.moves[p] \in Seq(Positions(g)) /\ Len(g.moves[p]) \in Nat
    BY GameTypes
  <2>4. PICK moved : moved = g.moves[p]
    OBVIOUS
  <2>5. PICK ttMove : ttMove = entry.move
    OBVIOUS
  <2>6. list = ScoreMoves(g, moved, ttMove) /\ moved \in Seq(Positions(g))
    BY <2>3, <2>4, <2>5
  <2> HIDE DEF a, b, list, s, r, entry, score
  <2>7. /\ list \in Seq(Positions(g)) /\ Len(list) = Len(moved) /\ DOMAIN list = 1 .. Len(moved)
        /\ ToSet(list) = ToSet(moved)
        /\ \A i \in 1 .. Len(moved) : list[i] \in ToSet(moved) /\ list[i] \in Positions(g)
        /\ \A m \in ToSet(moved) : \E i \in 1 .. Len(moved) : list[i] = m
    <3>1. PICK S, k : S = Positions(g) /\ k = list
      OBVIOUS
    <3>2. moved \in Seq(S) /\ k = ScoreMoves(g, moved, ttMove)
      BY <2>6, <3>1
    <3>3. /\ k \in Seq(S) /\ Len(k) = Len(moved) /\ DOMAIN k = 1 .. Len(moved) /\ ToSet(k) = ToSet(moved)
          /\ \A i \in 1 .. Len(moved) : k[i] \in ToSet(moved) /\ k[i] \in S
          /\ \A m \in ToSet(moved) : \E i \in 1 .. Len(moved) : k[i] = m
      <4>1. SameMoves(k, moved, S)
        BY <3>2, ScoreMovesAre
      <4> QED BY <4>1 DEF SameMoves
    <3> QED BY <3>1, <3>3
  <2>8. list = <<>> <=> g.moves[p] = <<>>
    BY <2>3, <2>4, <2>7
  <2>9. IsNode(g, p, list, d, ply, alpha, b, deeper)
    <3>1. d \in Nat /\ DeepSound(g, deeper, d - 1)
      BY <1>1, <1>13
    <3>2. b <= Infinity
      BY <1>3, <2>2 DEF Infinity
    <3> QED BY <1>3, <1>13, <2>2, <2>4, <2>7, <3>1, <3>2 DEF IsNode
  <2>10. /\ n \in Nodes(g, p, list, d, ply, alpha, b, deeper) /\ n.search = s /\ n.best = -Infinity
         /\ n.alpha = a
    <3>1. -Infinity \in Int /\ NoMove \in Moves(g)
      BY DEF Infinity, Moves
    <3> QED BY <1>5, <2>2, <3>1 DEF Nodes
  <2> HIDE DEF n
  <2>11. DOMAIN list = 1 .. Len(g.moves[p]) /\ -Infinity <= a
    BY <1>3, <2>2, <2>4, <2>7 DEF Infinity
  <2>12. IsAnswer(g, p, d, ply, alpha, b, SearchMoves(n))
    BY <1>5, <2>2, <2>8, <2>9, <2>10, <2>11, SearchMovesAnswers
  <2> QED BY <1>4, <2>1, <2>2, <2>12, AnswerWidens
<1> QED BY <1>8, <1>9, <1>10, <1>12, <1>13, <1>14

(* The levels of negamax. *)
DeepLevel(before, x) == [c \in Calls(x[1]) |-> NegamaxNode(x[1], c, before)]
DeepLevels == INSTANCE FoldTheorems WITH Step <- DeepLevel

LEMMA NegamaxDefined ==
    ASSUME NEW g, MaxDepth \in Nat
    PROVE  \E f : /\ Negamax(g) = f[MaxDepth]
                  /\ \A left \in 0 .. MaxDepth :
                        f[left] = DeepLevel(IF left = 0 THEN <<>> ELSE f[left - 1], <<g, left>>)
<1> DEFINE N == MaxDepth
           Is(h) == h = [left \in 0 .. N |->
                           [c \in Calls(g) |-> NegamaxNode(g, c, IF left = 0 THEN <<>> ELSE h[left - 1])]]
           f == CHOOSE h : Is(h)
           of == [i \in 0 .. N |-> <<g, i>>]
<1>1. Negamax(g) = f[N]
  BY DEF Negamax
<1>2. ASSUME NEW h
      PROVE  Is(h) <=> h = [left \in 0 .. N |-> DeepLevel(IF left = 0 THEN <<>> ELSE h[left - 1], <<g, left>>)]
  BY DEF DeepLevel
<1>3. \E h : Is(h)
  <2>1. PICK h : DeepLevels!IsLevels(h, N, of)
    BY DeepLevels!LevelsExist
  <2>2. \A i \in 0 .. N : of[i] = <<g, i>>
    OBVIOUS
  <2> HIDE DEF of
  <2>3. h = [left \in 0 .. N |-> DeepLevel(IF left = 0 THEN <<>> ELSE h[left - 1], <<g, left>>)]
    BY <2>1, <2>2 DEF DeepLevels!IsLevels
  <2> HIDE DEF Is
  <2> QED BY <1>2, <2>3
<1>4. Is(f)
  BY <1>3
<1> HIDE DEF Is, f
<1>5. f = [left \in 0 .. N |-> DeepLevel(IF left = 0 THEN <<>> ELSE f[left - 1], <<g, left>>)]
  BY <1>2, <1>4
<1>6. \A left \in 0 .. N : f[left] = DeepLevel(IF left = 0 THEN <<>> ELSE f[left - 1], <<g, left>>)
  BY <1>5
<1> QED BY <1>1, <1>6

(* Whatever the table has, if it is true, and wherever the search is stopped:
   negamax claims nothing that is not so, and leaves a true table. *)
THEOREM NegamaxSound ==
    ASSUME Scales, NEW g, IsGame(g), MaxQuiescencePly \in Nat, MaxDepth \in Nat,
           LateIndex \in Nat, LateMinDepth \in Nat, LateDeep \in Nat, NullBase \in Nat
    PROVE  DeepSound(g, Negamax(g), MaxDepth)
<1> DEFINE N == MaxDepth
<1>1. PICK f : /\ Negamax(g) = f[N]
               /\ \A left \in 0 .. N : f[left] = DeepLevel(IF left = 0 THEN <<>> ELSE f[left - 1], <<g, left>>)
  BY NegamaxDefined
<1> DEFINE A == {left \in Nat : left <= N => DeepSound(g, f[left], left)}
<1>2. ASSUME NEW left \in 0 .. N, left > 0 => DeepSound(g, f[left - 1], left - 1)
      PROVE  DeepSound(g, f[left], left)
  <2> DEFINE before == IF left = 0 THEN <<>> ELSE f[left - 1]
  <2>1. f[left] = [c \in Calls(g) |-> NegamaxNode(g, c, before)]
    BY <1>1 DEF DeepLevel
  <2>2. left > 0 => DeepSound(g, before, left - 1)
    BY <1>2
  <2> HIDE DEF before
  <2>3. ASSUME NEW c \in Calls(g), Fits(g, c), InScale(c.alpha, c.beta), c.depth <= left, Reaches(c.ply, c.depth)
        PROVE  IsAnswer(g, c.p, c.depth, c.ply, c.alpha, c.beta, f[left][c])
    <3>1. c.depth \in Int /\ c.depth <= MaxDepth
      BY <2>3, CallType
    <3>2. c.depth > 0 => DeepSound(g, before, c.depth - 1)
      <4> SUFFICES ASSUME c.depth > 0 PROVE DeepSound(g, before, c.depth - 1)
        OBVIOUS
      <4>1. left > 0 /\ DeepSound(g, before, left - 1)
        BY <2>2, <2>3, <3>1
      <4>2. \A e \in Calls(g) : e.depth <= c.depth - 1 => e.depth <= left - 1
        BY <2>3, <3>1, CallType
      <4> QED BY <4>1, <4>2 DEF DeepSound
    <3>3. f[left][c] = NegamaxNode(g, c, before)
      BY <2>1
    <3>4. IsAnswer(g, c.p, c.depth, c.ply, c.alpha, c.beta, NegamaxNode(g, c, before))
      BY <2>3, <3>1, <3>2, NegamaxNodeAnswers
    <3> QED BY <3>3, <3>4
  <2> QED BY <2>3 DEF DeepSound
<1>3. 0 \in A
  BY <1>2
<1>4. ASSUME NEW left \in Nat, left \in A PROVE left + 1 \in A
  <2> SUFFICES ASSUME left + 1 <= N PROVE DeepSound(g, f[left + 1], left + 1)
    OBVIOUS
  <2>1. left + 1 \in 0 .. N /\ left + 1 - 1 = left /\ DeepSound(g, f[left], left)
    BY <1>4
  <2> HIDE DEF A
  <2> QED BY <1>2, <2>1
<1>5. N \in A
  <2> HIDE DEF A
  <2> QED BY <1>3, <1>4, DeepLevels!Induction
<1> QED BY <1>1, <1>5

-----------------------------------------------------------------------------
(* The search from the root. *)
Numbers == /\ MaxDepth \in Nat /\ MaxQuiescencePly \in Nat /\ LateIndex \in Nat /\ LateMinDepth \in Nat
           /\ LateDeep \in Nat /\ NullBase \in Nat /\ NullMinDepth \in Nat /\ MateSearchMaxPly \in 1 .. 1256

LEMMA AssumptionIs ==
    ASSUME SearchAssumption
    PROVE  /\ Scales /\ Numbers /\ MaxPly = MaxDepth + MaxQuiescencePly + 1 /\ Cuts \subseteq Nat
           /\ \A g \in Games :
                 IsGame(g) /\ FirstRoot \in Positions(g) /\ Options \subseteq OptionsOf(g)
<1>1. Scales
  BY ScalesHold
<1>2. MateScore - DecisiveThreshold = 1256
  BY <1>1 DEF Scales
<1>3. MateSearchMaxPly \in 1 .. 1256
  BY <1>2 DEF SearchAssumption
<1> QED BY <1>1, <1>3 DEF SearchAssumption, Numbers, MaxPly

LEMMA RootChild ==
    ASSUME SearchAssumption, NEW g \in Games, NEW p, p \in Positions(g), ~Ended(g, p),
           NEW m, m \in ToSet(g.moves[p]), NEW d, d \in 1 .. MaxDepth,
           NEW a, NEW b, a \in Int, b \in Int, a < b, InScale(a, b),
           NEW s, s \in Searches(g), TableTrue(g, s.tt), NEW r,
           r = Negated(Negamax(g)[Call(m, d - 1, 0 + 1, -b, -a, s)])
    PROVE  /\ r \in Searches(g) /\ TableTrue(g, r.tt) /\ r.score \in Int
           /\ MoveClaims(g, p, d, 0, m, a, b, r)
<1>1. /\ IsGame(g) /\ Scales /\ Numbers /\ MaxPly = MaxDepth + MaxQuiescencePly + 1
  BY AssumptionIs
<1>2. m \in Positions(g) /\ g.moves[p] # <<>>
  <2>1. /\ ToSet(g.moves[p]) = {g.moves[p][i] : i \in 1 .. Len(g.moves[p])}
        /\ ToSet(g.moves[p]) \subseteq Positions(g)
    BY <1>1, MovesAre
  <2>2. Len(<<>>) = 0 /\ 1 .. 0 = {}
    OBVIOUS
  <2> QED BY <2>1, <2>2
<1>3. PICK zero : zero = 0
  OBVIOUS
<1>4. /\ zero \in Nat /\ zero + 1 \in Nat /\ -b \in Int /\ -a \in Int /\ -b < -a /\ d - 1 \in Int
      /\ zero + 1 <= MaxPly /\ d \in Nat /\ d <= MaxDepth /\ d - 1 <= MaxDepth
  BY <1>1, <1>3 DEF Numbers
<1>5. Reaches(zero + 1, d - 1) /\ InScale(-b, -a)
  BY <1>1, <1>3, <1>4 DEF Reaches, Larger, Numbers, InScale, Infinity
<1> DEFINE c == Call(m, d - 1, zero + 1, -b, -a, s)
<1>6. /\ c \in Calls(g) /\ c.p = m /\ c.depth = d - 1 /\ c.ply = zero + 1 /\ c.alpha = -b /\ c.beta = -a
      /\ c.search = s
  BY <1>2, <1>4, CallIs, SMTT(30)
<1>7. r = Negated(Negamax(g)[c])
  BY <1>3
<1> HIDE DEF c
<1>8. Fits(g, c) /\ InScale(c.alpha, c.beta) /\ c.depth <= MaxDepth /\ Reaches(c.ply, c.depth)
  BY <1>4, <1>5, <1>6 DEF Fits
<1>9. DeepSound(g, Negamax(g), MaxDepth)
  BY <1>1, NegamaxSound DEF Numbers
<1>10. IsAnswer(g, m, d - 1, zero + 1, -b, -a, Negamax(g)[c])
  BY <1>6, <1>8, <1>9 DEF DeepSound
<1>11. PICK less : less = d - 1
  OBVIOUS
<1>12. /\ r \in Searches(g) /\ TableTrue(g, r.tt) /\ r.score \in Int
       /\ ChildClaims(g, m, less, zero, a, b, r)
  BY <1>1, <1>2, <1>4, <1>7, <1>10, <1>11, AnswerNegated
<1>13. MoveClaims(g, p, d, zero, m, a, b, r)
  <2>1. MaxDepth \in Nat /\ LateIndex \in Nat
    BY <1>1 DEF Numbers
  <2>2. r.score \in Int /\ ChildClaims(g, m, d - 1, zero, a, b, r)
    BY <1>11, <1>12
  <2> QED BY <1>1, <1>2, <1>4, <2>1, <2>2, FullDepthClaims
<1> QED BY <1>3, <1>12, <1>13

LEMMA AllowedIs ==
    ASSUME NEW g, IsGame(g), NEW p \in Positions(g), NEW o
    PROVE  /\ AllowedMoves(g, p, o) \in Seq(Positions(g)) /\ Len(AllowedMoves(g, p, o)) \in Nat
           /\ ToSet(AllowedMoves(g, p, o)) = ToSet(g.moves[p]) \cap o.searchmoves
           /\ ToSet(AllowedMoves(g, p, o)) \subseteq Positions(g)
           /\ AllowedMoves(g, p, o) # <<>> => Len(AllowedMoves(g, p, o)) > 0
           /\ \A i \in 1 .. Len(AllowedMoves(g, p, o)) : AllowedMoves(g, p, o)[i] \in ToSet(AllowedMoves(g, p, o))
<1> DEFINE list == AllowedMoves(g, p, o)
<1>1. list = Those(g.moves[p], o.searchmoves)
  BY DEF AllowedMoves
<1> HIDE DEF list
<1>2. list \in Seq(Positions(g)) /\ ToSet(list) = ToSet(g.moves[p]) \cap o.searchmoves
  BY <1>1, ThoseAre, GameTypes
<1>3. Len(list) \in Nat /\ (list # <<>> => Len(list) > 0) /\ \A i \in 1 .. Len(list) : list[i] \in ToSet(list)
  BY <1>2 DEF ToSet
<1>4. ToSet(list) \subseteq Positions(g)
  BY <1>2, MovesAre
<1> QED BY <1>2, <1>3, <1>4 DEF list

-----------------------------------------------------------------------------
(* The invariant. *)
Searching == pc \in {"fallback", "mate", "iterate", "pass"}

GameInv == game \in Games /\ root \in Positions(game) /\ tt \in Tables(game) /\ generation \in Nat

OptionsInv == options \in OptionsOf(game)

StartInv ==
    /\ pc \in {"idle", "fallback", "mate", "iterate", "pass", "done"}
    /\ Searching => /\ ~Ended(game, root) /\ AllowedMoves(game, root, options) # <<>>
                    /\ result.score \in Int

DepthInv ==
    /\ depth \in Nat
    /\ pc \in {"iterate", "pass"} => depth <= options.maxDepth
    /\ pc = "pass" => depth > 0

BusyInv ==
    Searching => /\ busy \in [Workers -> Nat]
                 /\ pc # "pass" \/ Alone => \A w \in Workers : busy[w] = None

WindowIs(w) == w[1] \in Int /\ w[2] \in Int /\ w[1] < w[2] /\ InScale(w[1], w[2])

(* The scores so far: a score is no less than its move is worth, unless it
   reached the end of the window; and no more, if it is above the window's
   other end and, where one thread narrows the window, above those of all the
   earlier moves. *)
AreScores(sc, n) ==
    /\ sc = [i \in DOMAIN sc |-> sc[i]]
    /\ DOMAIN sc \subseteq 1 .. n
    /\ \A i \in DOMAIN sc : sc[i].score \in Int

Leads(sc, i) == \A j \in DOMAIN sc : j < i => sc[j].score < sc[i].score

Narrows == Alone /\ options.multiPV = 1

ScoresClaim(sc, w, d, list) ==
    \A i \in DOMAIN sc :
        /\ sc[i].score < w[2] => MoveAbove(game, root, d, 0, list[i], sc[i].score)
        /\ sc[i].score > w[1] /\ (Narrows => Leads(sc, i)) => MoveBelow(game, root, d, 0, list[i], sc[i].score)

PassInv ==
    pc = "pass" =>
        /\ WindowIs(window)
        /\ moves \in Seq(Positions(game)) /\ ToSet(moves) = Allowed
        /\ next \in 1 .. (Len(moves) + 1)
        /\ \A w \in Workers : busy[w] < next
        /\ AreScores(scores, next - 1)
        /\ ~aborted => \A i \in 1 .. (next - 1) : i \in DOMAIN scores \/ \E w \in Workers : busy[w] = i
        /\ ScoresClaim(scores, window, depth, moves)

SearchInv == /\ GameInv /\ OptionsInv /\ StartInv /\ DepthInv /\ BusyInv /\ PassInv
             /\ TableTrue(game, tt)

LEMMA InitIsTrue == SearchAssumption /\ Init => SearchInv
<1> SUFFICES ASSUME SearchAssumption, Init PROVE SearchInv
  OBVIOUS
<1>1. IsGame(game) /\ root \in Positions(game) /\ game \in Games /\ options \in Options /\ pc = "idle"
  BY AssumptionIs DEF Init
<1>2. OptionsInv
  BY <1>1, AssumptionIs DEF OptionsInv
<1>3. NoEntry \in Entries(game) /\ ~(NoEntry.depth >= 0)
  BY DEF NoEntry, Entries, Bounds, KeyMoves
<1>4. GameInv /\ TableTrue(game, tt)
  <2>1. \A p \in Positions(game) : game.key[p] \in Keys(game)
    BY KeyIs
  <2>2. game.timeless \subseteq Positions(game)
    BY <1>1 DEF IsGame
  <2>3. tt = [k \in Keys(game) |-> NoEntry] /\ generation \in Nat
    BY DEF Init
  <2>4. PICK none : none = NoEntry
    OBVIOUS
  <2>5. tt \in Tables(game)
    BY <1>3, <2>3, <2>4 DEF Tables
  <2>6. GameInv
    BY <1>1, <2>3, <2>5 DEF GameInv
  <2>7. TableTrue(game, tt)
    BY <1>3, <2>1, <2>2, <2>3, <2>4 DEF TableTrue
  <2> QED BY <2>6, <2>7
<1>5. StartInv /\ DepthInv /\ BusyInv /\ PassInv
  BY <1>1 DEF StartInv, DepthInv, BusyInv, PassInv, Searching, Init
<1> QED BY <1>2, <1>4, <1>5 DEF SearchInv

LEMMA InvIs ==
    ASSUME SearchAssumption, SearchInv
    PROVE  /\ game \in Games /\ IsGame(game) /\ root \in Positions(game) /\ tt \in Tables(game)
           /\ generation \in Nat /\ TableTrue(game, tt)
           /\ options.threads \in Nat \ {0} /\ options.multiPV \in Nat \ {0} /\ options.maxDepth \in 1 .. MaxDepth
           /\ options.window \in Nat /\ options.searchmoves \in SUBSET Positions(game)
           /\ Scales /\ Numbers /\ depth \in Nat
<1>1. /\ options.threads \in Nat \ {0} /\ options.multiPV \in Nat \ {0} /\ options.maxDepth \in 1 .. MaxDepth
      /\ options.window \in Nat /\ options.searchmoves \in SUBSET Positions(game)
  BY DEF SearchInv, OptionsInv, OptionsOf
<1> QED BY <1>1, AssumptionIs DEF SearchInv, GameInv, DepthInv

LEMMA OptionsAre ==
    ASSUME SearchInv
    PROVE  /\ options.patient \in BOOLEAN
           /\ options = [threads |-> options.threads, multiPV |-> options.multiPV, maxDepth |-> options.maxDepth,
                         window |-> options.window, searchmoves |-> options.searchmoves, patient |-> options.patient]
BY DEF SearchInv, OptionsInv, OptionsOf

LEMMA BeginKeeps == SearchAssumption /\ SearchInv /\ Begin => SearchInv'
<1> SUFFICES ASSUME SearchAssumption, SearchInv, Begin PROVE SearchInv'
  OBVIOUS
<1> DEFINE allowed == AllowedMoves(game, root, options)
<1>1. /\ pc = "idle" /\ generation' = generation + 1 /\ game' = game /\ root' = root /\ tt' = tt /\ depth' = depth
  BY DEF Begin
<1>2. GameInv' /\ TableTrue(game, tt)'
  <2>1. GameInv'
    BY <1>1, InvIs DEF GameInv
  <2> QED BY <1>1, <2>1, InvIs
<1>3. CASE Ended(game, root) \/ allowed = <<>>
  <2>1. pc' = "done" /\ options' = options /\ busy' = busy
    BY <1>3 DEF Begin
  <2>2. OptionsInv'
    BY <1>1, <2>1 DEF SearchInv, OptionsInv
  <2>3. StartInv' /\ DepthInv' /\ BusyInv' /\ PassInv'
    BY <1>1, <2>1, InvIs DEF StartInv, DepthInv, BusyInv, PassInv, Searching
  <2> QED BY <1>2, <2>2, <2>3 DEF SearchInv
<1>4. CASE ~(Ended(game, root) \/ allowed = <<>>)
  <2>1. pc' = "fallback" /\ result' = NoResult /\ SetUp(allowed)
    BY <1>4 DEF Begin
  <2>2. Len(allowed) \in Nat /\ Len(allowed) > 0
    BY <1>4, InvIs, AllowedIs
  <2>3. Threads(options, allowed) \in Nat \ {0} /\ MultiPV(options, allowed) \in Nat \ {0}
    <3> HIDE DEF allowed
    <3> QED BY <2>2, InvIs, SMTT(30) DEF Threads, MultiPV, Smaller
  <2>4. /\ options' = [options EXCEPT !.threads = Threads(options, allowed), !.multiPV = MultiPV(options, allowed)]
        /\ busy' = [w \in 1 .. Threads(options, allowed) |-> None]
    BY <2>1 DEF SetUp
  <2> HIDE DEF allowed
  <2>5. options' = [threads |-> Threads(options, allowed), multiPV |-> MultiPV(options, allowed),
                    maxDepth |-> options.maxDepth, window |-> options.window, searchmoves |-> options.searchmoves,
                    patient |-> options.patient]
    <3>1. PICK t, n : t = Threads(options, allowed) /\ n = MultiPV(options, allowed)
      OBVIOUS
    <3>2. options' = [[options EXCEPT !.threads = t] EXCEPT !.multiPV = n]
      BY <2>4, <3>1
    <3>3. [options EXCEPT !.threads = t] =
             [threads |-> t, multiPV |-> options.multiPV, maxDepth |-> options.maxDepth,
              window |-> options.window, searchmoves |-> options.searchmoves, patient |-> options.patient]
      BY OptionsAre
    <3> QED BY <3>1, <3>2, <3>3
  <2>6. OptionsInv'
    BY <1>1, <2>3, <2>5, InvIs, OptionsAre DEF OptionsInv, OptionsOf
  <2>7. StartInv'
    <3>1. AllowedMoves(game, root, options)' = allowed
      BY <1>1, <2>5 DEF AllowedMoves, allowed
    <3>2. result'.score \in Int
      BY <2>1 DEF NoResult
    <3>3. ~Ended(game, root)' /\ allowed # <<>>
      BY <1>1, <1>4 DEF Ended, allowed
    <3> QED BY <2>1, <3>1, <3>2, <3>3 DEF StartInv
  <2>8. DepthInv' /\ PassInv'
    BY <1>1, <2>1, InvIs DEF DepthInv, PassInv
  <2>9. BusyInv'
    <3>1. Workers' = 1 .. Threads(options, allowed)
      BY <2>5 DEF Workers
    <3> QED BY <2>4, <3>1 DEF BusyInv, None
  <2> QED BY <1>2, <2>6, <2>7, <2>8, <2>9 DEF SearchInv
<1> QED BY <1>3, <1>4

LEMMA FallbackKeeps == SearchAssumption /\ SearchInv /\ Fallback => SearchInv'
<1> SUFFICES ASSUME SearchAssumption, SearchInv, Fallback PROVE SearchInv'
  OBVIOUS
<1>1. /\ pc = "fallback" /\ pc' = "mate"
      /\ UNCHANGED <<game, root, tt, generation, options, depth, window, moves, next,
                     scores, busy, result, lines, bounds>>
  BY DEF Fallback
<1>2. GameInv' /\ TableTrue(game, tt)' /\ OptionsInv'
  BY <1>1 DEF SearchInv, GameInv, OptionsInv
<1>3. StartInv'
  <2>1. ~Ended(game, root) /\ AllowedMoves(game, root, options) # <<>> /\ result.score \in Int
    BY <1>1 DEF SearchInv, StartInv, Searching
  <2> QED BY <1>1, <2>1 DEF StartInv, Ended
<1>4. DepthInv' /\ PassInv'
  BY <1>1, InvIs DEF DepthInv, PassInv
<1>5. BusyInv'
  BY <1>1 DEF SearchInv, BusyInv, Searching, Workers
<1> QED BY <1>2, <1>3, <1>4, <1>5 DEF SearchInv

LEMMA MateProbeKeeps == SearchAssumption /\ SearchInv /\ MateProbe => SearchInv'
<1> SUFFICES ASSUME SearchAssumption, SearchInv, MateProbe PROVE SearchInv'
  OBVIOUS
<1>1. /\ pc = "mate" /\ depth' = 0
      /\ (pc' = "iterate" /\ result' = result) \/ pc' = "done"
      /\ UNCHANGED <<game, root, tt, generation, options, window, moves, next, scores, busy>>
  BY DEF MateProbe
<1>2. GameInv' /\ TableTrue(game, tt)' /\ OptionsInv'
  BY <1>1 DEF SearchInv, GameInv, OptionsInv
<1>3. StartInv'
  <2>1. ~Ended(game, root) /\ AllowedMoves(game, root, options) # <<>> /\ result.score \in Int
    BY <1>1 DEF SearchInv, StartInv, Searching
  <2> QED BY <1>1, <2>1 DEF StartInv, Ended, Searching
<1>4. DepthInv' /\ PassInv'
  <2>1. options.maxDepth \in Nat
    BY InvIs DEF Numbers
  <2> QED BY <1>1, <2>1 DEF DepthInv, PassInv
<1>5. BusyInv'
  BY <1>1 DEF SearchInv, BusyInv, Searching, Workers
<1> QED BY <1>2, <1>3, <1>4, <1>5 DEF SearchInv

LEMMA RootOrderIs ==
    ASSUME SearchAssumption, SearchInv
    PROVE  /\ RootOrder \in Seq(Positions(game)) /\ ToSet(RootOrder) = Allowed
           /\ Len(RootOrder) = Len(AllowedMoves(game, root, options))
<1> DEFINE allowed == AllowedMoves(game, root, options)
           once == ScoreMoves(game, allowed, KeyOf(game, previousBest))
           S == Positions(game)
<1>1. allowed \in Seq(S)
  BY InvIs, AllowedIs
<1> HIDE DEF allowed
<1>2. once \in Seq(S) /\ Len(once) = Len(allowed) /\ ToSet(once) = ToSet(allowed)
  <2>1. PICK best : best = KeyOf(game, previousBest)
    OBVIOUS
  <2>2. SameMoves(once, allowed, S)
    BY <1>1, <2>1, ScoreMovesAre
  <2> QED BY <2>2 DEF SameMoves
<1> HIDE DEF once
<1>3. PICK ttMove : ttMove = tt[game.key[root]].move
  OBVIOUS
<1>4. PICK k : k = ScoreMoves(game, once, ttMove)
  OBVIOUS
<1>5. k \in Seq(S) /\ Len(k) = Len(once) /\ ToSet(k) = ToSet(once)
  <2>1. SameMoves(k, once, S)
    BY <1>2, <1>4, ScoreMovesAre
  <2> QED BY <2>1 DEF SameMoves
<1> QED BY <1>2, <1>3, <1>4, <1>5 DEF RootOrder, Allowed, allowed, once

LEMMA WindowOfIs ==
    ASSUME SearchAssumption, SearchInv, result.score \in Int, NEW d
    PROVE  WindowIs(WindowOf(d))
<1>1. WindowIs(FullWindow)
  BY DEF WindowIs, FullWindow, InScale, Infinity
<1>2. ASSUME options.window > 0, result.score < DecisiveThreshold, result.score > -DecisiveThreshold
      PROVE  WindowIs(<<Larger(-Infinity, result.score - options.window),
                        Smaller(Infinity, result.score + options.window)>>)
  <2>1. options.window \in Nat
    BY InvIs
  <2> DEFINE a == Larger(-Infinity, result.score - options.window)
             b == Smaller(Infinity, result.score + options.window)
  <2>2. a \in Int /\ b \in Int /\ a < b /\ -Infinity <= a /\ b <= Infinity
    BY <1>2, <2>1 DEF Larger, Smaller, Infinity, DecisiveThreshold, TerminalWinScore, MateScore
  <2> HIDE DEF a, b
  <2>3. WindowIs(<<a, b>>)
    BY <2>2 DEF WindowIs, InScale
  <2> QED BY <2>3 DEF a, b
<1> QED BY <1>1, <1>2 DEF WindowOf

LEMMA EmptyScores ==
    /\ AreScores(<<>>, 0)
    /\ \A w, d, list : ScoresClaim(<<>>, w, d, list)
<1>1. DOMAIN <<>> = {} /\ <<>> = [i \in {} |-> <<>>[i]]
  OBVIOUS
<1> QED BY <1>1 DEF AreScores, ScoresClaim

LEMMA NextIterationKeeps == SearchAssumption /\ SearchInv /\ NextIteration => SearchInv'
<1> SUFFICES ASSUME SearchAssumption, SearchInv, NextIteration PROVE SearchInv'
  OBVIOUS
<1>1. /\ pc = "iterate"
      /\ UNCHANGED <<game, root, tt, generation, options, aborted, busy, fallback, previousBest, lines>>
  BY DEF NextIteration
<1>2. GameInv' /\ TableTrue(game, tt)' /\ OptionsInv'
  BY <1>1 DEF SearchInv, GameInv, OptionsInv
<1>3. /\ ~Ended(game, root) /\ AllowedMoves(game, root, options) # <<>> /\ result.score \in Int
      /\ depth <= options.maxDepth
      /\ busy \in [Workers -> Nat] /\ \A w \in Workers : busy[w] = None
  BY <1>1 DEF SearchInv, StartInv, Searching, DepthInv, BusyInv
<1>4. \/ pc' = "done" /\ depth' = depth
      \/ /\ pc' = "pass" /\ depth # options.maxDepth
         /\ depth' = depth + 1 /\ window' = WindowOf(depth + 1)
         /\ moves' = RootOrder /\ scores' = <<>> /\ next' = 1 /\ result' = result
  BY DEF NextIteration
<1>5. CASE pc' = "done" /\ depth' = depth
  BY <1>2, <1>5, InvIs DEF SearchInv, StartInv, DepthInv, BusyInv, PassInv, Searching
<1>6. CASE /\ pc' = "pass" /\ depth # options.maxDepth
           /\ depth' = depth + 1 /\ window' = WindowOf(depth + 1)
           /\ moves' = RootOrder /\ scores' = <<>> /\ next' = 1 /\ result' = result
  <2>1. StartInv'
    BY <1>1, <1>3, <1>6 DEF StartInv, Ended
  <2>2. DepthInv'
    <3>1. depth \in Nat /\ options.maxDepth \in Nat /\ options' = options
      BY <1>1, InvIs DEF Numbers
    <3> QED BY <1>3, <1>6, <3>1, SMTT(30) DEF DepthInv
  <2>3. BusyInv'
    BY <1>1, <1>3 DEF BusyInv, Workers
  <2>4. WindowIs(window')
    BY <1>3, <1>6, WindowOfIs
  <2>5. moves' \in Seq(Positions(game)) /\ ToSet(moves') = Allowed /\ Len(moves') \in Nat
    BY <1>6, RootOrderIs
  <2>6. next' \in 1 .. (Len(moves') + 1) /\ next' - 1 = 0 /\ 1 .. 0 = {} /\ \A w \in Workers : busy[w] < next'
    BY <1>3, <1>6, <2>5 DEF None
  <2>7. AreScores(scores', next' - 1)
    BY <1>6, <2>6, EmptyScores
  <2>8. ScoresClaim(scores, window, depth, moves)'
    <3>1. scores' = <<>> /\ DOMAIN <<>> = {}
      BY <1>6
    <3> QED BY <3>1 DEF ScoresClaim
  <2>9. PassInv'
    BY <1>1, <2>4, <2>5, <2>6, <2>7, <2>8 DEF PassInv, Allowed, Workers
  <2> QED BY <1>2, <2>1, <2>2, <2>3, <2>9 DEF SearchInv
<1> QED BY <1>4, <1>5, <1>6

-----------------------------------------------------------------------------
(* The search for mates: a mate found is one, in the plies its line has. *)
LegalLine(g, p, line) ==
    \A i \in 1 .. Len(line) : line[i] \in ToSet(g.moves[IF i = 1 THEN p ELSE line[i - 1]])

Forced(g, p, remaining, line) ==
    /\ line \in Seq(Positions(g)) /\ Len(line) <= remaining /\ LegalLine(g, p, line)

Attacks(g, p, remaining, r) ==
    /\ r \in MateSearches(g)
    /\ IF r.mate
       THEN /\ Forced(g, p, remaining, r.line) /\ r.line # <<>> /\ g.value[p] >= MateScore - Len(r.line)
            /\ WorthOfMove(g, r.line[1]) >= MateScore - Len(r.line)
       ELSE r.line = <<>>

Defends(g, p, remaining, r) ==
    /\ r \in MateSearches(g)
    /\ IF r.mate THEN Forced(g, p, remaining, r.line) /\ g.value[p] <= Len(r.line) - MateScore
       ELSE r.line = <<>>

MatesSound(g, f, remaining) ==
    \A c \in MateCalls(g) : IF c.attack THEN Attacks(g, c.p, remaining, f[c]) ELSE Defends(g, c.p, remaining, f[c])

LEMMA MateSearchIs ==
    ASSUME NEW g, NEW s \in MateSearches(g)
    PROVE  /\ s.left \in Int /\ s.aborted \in BOOLEAN /\ s.mate \in BOOLEAN /\ s.line \in Seq(Positions(g))
           /\ s = [left |-> s.left, aborted |-> s.aborted, mate |-> s.mate, line |-> s.line]
           /\ s.left - 1 \in Int
BY DEF MateSearches

LEMMA AskedMate ==
    ASSUME NEW g, NEW s \in MateSearches(g)
    PROVE  Asked(s) \in MateSearches(g)
BY MateSearchIs DEF MateSearches, Asked

LEMMA NoMateIs ==
    ASSUME NEW g, NEW s, s \in MateSearches(g), NEW r, r = NoMate(s)
    PROVE  r \in MateSearches(g) /\ ~r.mate /\ r.line = <<>>
<1>1. <<>> \in Seq(Positions(g))
  OBVIOUS
<1> QED BY <1>1, MateSearchIs DEF MateSearches, NoMate

LEMMA AbortMateIs ==
    ASSUME NEW g, NEW s, s \in MateSearches(g), NEW r, r = AbortMate(s)
    PROVE  r \in MateSearches(g) /\ ~r.mate /\ r.line = <<>>
<1>1. [s EXCEPT !.aborted = TRUE] \in MateSearches(g)
  BY MateSearchIs DEF MateSearches
<1> QED BY <1>1, NoMateIs DEF AbortMate

LEMMA MateIs ==
    ASSUME NEW g, NEW s, s \in MateSearches(g), NEW line, line \in Seq(Positions(g)), NEW r, r = Mate(s, line)
    PROVE  r \in MateSearches(g) /\ r.mate /\ r.line = line
BY MateSearchIs DEF MateSearches, Mate

LEMMA MateCallIs ==
    ASSUME NEW g, NEW p, p \in Positions(g), NEW s, s \in MateSearches(g)
    PROVE  /\ MateCall(TRUE, p, s) \in MateCalls(g) /\ MateCall(TRUE, p, s).attack
           /\ MateCall(TRUE, p, s).p = p
           /\ MateCall(FALSE, p, s) \in MateCalls(g) /\ ~MateCall(FALSE, p, s).attack
           /\ MateCall(FALSE, p, s).p = p
BY DEF MateCall, MateCalls

LineFrom(m, line) == <<m>> \o line

LEMMA Longer ==
    ASSUME NEW g, IsGame(g), NEW p \in Positions(g), NEW m, m \in ToSet(g.moves[p]), NEW remaining \in Nat,
           NEW line, Forced(g, m, remaining, line), NEW k, k = LineFrom(m, line)
    PROVE  Forced(g, p, remaining + 1, k) /\ k # <<>> /\ Len(k) = Len(line) + 1 /\ k[1] = m
<1>1. m \in Positions(g)
  BY MovesAre
<1>2. line \in Seq(Positions(g)) /\ Len(line) \in Nat /\ Len(line) <= remaining
  BY DEF Forced
<1>3. /\ k \in Seq(Positions(g)) /\ Len(k) = Len(line) + 1 /\ k[1] = m
      /\ \A i \in 2 .. Len(k) : k[i] = line[i - 1]
  BY <1>1, <1>2 DEF LineFrom
<1>4. k # <<>>
  BY <1>2, <1>3
<1>5. ASSUME NEW i \in 1 .. Len(k) PROVE k[i] \in ToSet(g.moves[IF i = 1 THEN p ELSE k[i - 1]])
  <2>1. CASE i = 1
    BY <1>3, <2>1
  <2>2. CASE i = 2
    <3>1. 1 \in 1 .. Len(line) /\ k[2] = line[1]
      BY <1>2, <1>3, <2>2
    <3>2. line[1] \in ToSet(g.moves[m])
      BY <3>1 DEF Forced, LegalLine
    <3> QED BY <1>3, <2>2, <3>1, <3>2
  <2>3. CASE i > 2
    <3>1. i - 1 \in 1 .. Len(line) /\ i - 1 # 1 /\ i \in 2 .. Len(k) /\ i - 1 \in 2 .. Len(k) /\ i # 1
      BY <1>2, <1>3, <2>3
    <3>2. line[i - 1] \in ToSet(g.moves[line[i - 1 - 1]])
      BY <3>1 DEF Forced, LegalLine
    <3>3. k[i] = line[i - 1] /\ k[i - 1] = line[i - 1 - 1]
      BY <1>3, <3>1
    <3> QED BY <3>1, <3>2, <3>3
  <2> QED BY <2>1, <2>2, <2>3
<1> QED BY <1>2, <1>3, <1>4, <1>5 DEF Forced, LegalLine

AttackNodes(g, deeper) == [deeper : {deeper}, search : MateSearches(g)]

LEMMA MovingMates ==
    ASSUME Scales, NEW g, IsGame(g), NEW p \in Positions(g), ~Ended(g, p), NEW m, m \in ToSet(g.moves[p]),
           NEW n, n \in Nat, n <= 1256, g.value[m] <= n - MateScore
    PROVE  g.value[p] >= MateScore - (n + 1) /\ WorthOfMove(g, m) >= MateScore - (n + 1)
<1>1. m \in Positions(g) /\ g.moves[p] # <<>>
  BY MovesAre DEF ToSet
<1>2. g.value[m] \in Int /\ g.value[p] \in Int
  BY <1>1, GameTypes
<1>3. g.value[p] >= WorthOfMove(g, m)
  BY <1>1 DEF IsGame, IsWorth
<1>4. PICK w : w = -g.value[m]
  OBVIOUS
<1>5. w \in Int /\ w >= 30000 - n /\ 1 \in Nat
  BY <1>2, <1>4 DEF Scales
<1>6. WorthOfMove(g, m) = w - 1
  BY <1>4, <1>5, FromTT DEF WorthOfMove
<1> QED BY <1>2, <1>3, <1>5, <1>6 DEF Scales

WithSearch(n, s) == [n EXCEPT !.search = s]

LEMMA WithSearchIs ==
    ASSUME NEW g, NEW deeper, NEW n \in AttackNodes(g, deeper), NEW s \in MateSearches(g)
    PROVE  WithSearch(n, s) \in AttackNodes(g, deeper) /\ WithSearch(n, s).search = s
BY DEF AttackNodes, WithSearch

(* A defence that is lost makes an attack that wins. *)
LEMMA AttackOfDefence ==
    ASSUME Scales, NEW g, IsGame(g), NEW p \in Positions(g), ~Ended(g, p), NEW m, m \in ToSet(g.moves[p]),
           NEW remaining \in Nat, remaining <= 1256, NEW r, Defends(g, m, remaining, r), r.mate,
           NEW longer, longer = LineFrom(m, r.line)
    PROVE  /\ longer \in Seq(Positions(g)) /\ longer # <<>> /\ Forced(g, p, remaining + 1, longer)
           /\ g.value[p] >= MateScore - Len(longer) /\ WorthOfMove(g, longer[1]) >= MateScore - Len(longer)
<1>1. PICK line : line = r.line
  OBVIOUS
<1>2. Forced(g, m, remaining, line) /\ g.value[m] <= Len(line) - MateScore
  BY <1>1 DEF Defends
<1>3. line \in Seq(Positions(g)) /\ Len(line) \in Nat /\ Len(line) <= 1256
  BY <1>2 DEF Forced
<1>4. longer = LineFrom(m, line)
  BY <1>1
<1>5. Forced(g, p, remaining + 1, longer) /\ longer # <<>> /\ Len(longer) = Len(line) + 1 /\ longer[1] = m
  BY <1>2, <1>4, Longer
<1>6. PICK len : len = Len(line)
  OBVIOUS
<1>7. g.value[p] >= MateScore - (len + 1) /\ WorthOfMove(g, m) >= MateScore - (len + 1)
  BY <1>2, <1>3, <1>6, MovingMates
<1> QED BY <1>5, <1>6, <1>7 DEF Forced

LEMMA AttackAfter ==
    ASSUME Scales, NEW g, IsGame(g), NEW p \in Positions(g), ~Ended(g, p), NEW m, m \in ToSet(g.moves[p]),
           NEW remaining \in Nat, remaining <= 1256, NEW r, Defends(g, m, remaining, r),
           NEW s, s = IF r.mate THEN Mate(r, LineFrom(m, r.line)) ELSE NoMate(r)
    PROVE  Attacks(g, p, remaining + 1, s) /\ s \in MateSearches(g)
<1>1. r \in MateSearches(g)
  BY DEF Defends
<1>2. CASE r.mate
  <2>1. PICK longer : longer = LineFrom(m, r.line)
    OBVIOUS
  <2>2. /\ longer \in Seq(Positions(g)) /\ longer # <<>> /\ Forced(g, p, remaining + 1, longer)
        /\ g.value[p] >= MateScore - Len(longer) /\ WorthOfMove(g, longer[1]) >= MateScore - Len(longer)
    BY <1>2, <2>1, AttackOfDefence
  <2>3. s = Mate(r, longer)
    BY <1>2, <2>1
  <2>4. s \in MateSearches(g) /\ s.mate /\ s.line = longer
    BY <1>1, <2>2, <2>3, MateIs
  <2> QED BY <2>2, <2>4 DEF Attacks
<1>3. CASE ~r.mate
  <2>1. s = NoMate(r)
    BY <1>3
  <2>2. s \in MateSearches(g) /\ ~s.mate /\ s.line = <<>>
    BY <1>1, <2>1, NoMateIs
  <2> QED BY <2>2 DEF Attacks
<1> QED BY <1>2, <1>3

LEMMA CheckStep ==
    ASSUME Scales, NEW g, IsGame(g), NEW p \in Positions(g), ~Ended(g, p), NEW m, m \in ToSet(g.moves[p]),
           NEW remaining \in Nat, remaining <= 1256, NEW deeper, MatesSound(g, deeper, remaining),
           NEW n, n \in AttackNodes(g, deeper), Attacks(g, p, remaining + 1, n.search), NEW k, k = TryCheck(n, m)
    PROVE  k \in AttackNodes(g, deeper) /\ Attacks(g, p, remaining + 1, k.search)
<1> DEFINE c == MateCall(FALSE, m, n.search)
           r == deeper[c]
           s == IF r.mate THEN Mate(r, LineFrom(m, r.line)) ELSE NoMate(r)
<1>1. m \in Positions(g) /\ n.search \in MateSearches(g) /\ n.deeper = deeper
  BY MovesAre DEF AttackNodes
<1>2. k = IF n.search.mate \/ n.search.aborted THEN n ELSE WithSearch(n, s)
  BY <1>1 DEF TryCheck, WithSearch, LineFrom
<1>3. c \in MateCalls(g) /\ ~c.attack /\ c.p = m
  BY <1>1 DEF MateCall, MateCalls
<1> HIDE DEF c
<1>4. Defends(g, m, remaining, r)
  BY <1>3 DEF MatesSound
<1> HIDE DEF r
<1>5. PICK t : t = s
  OBVIOUS
<1>6. Attacks(g, p, remaining + 1, t) /\ t \in MateSearches(g)
  BY <1>4, <1>5, AttackAfter
<1> HIDE DEF s
<1>7. k = n \/ k = WithSearch(n, t)
  BY <1>2, <1>5
<1>8. WithSearch(n, t) \in AttackNodes(g, deeper) /\ WithSearch(n, t).search = t
  BY <1>6, WithSearchIs
<1> QED BY <1>6, <1>7, <1>8

Checking == INSTANCE FoldTheorems WITH Step <- TryCheck

LEMMA AttackFinds ==
    ASSUME Scales, NEW g, IsGame(g), NEW p \in Positions(g), NEW remaining \in Nat, remaining <= 1256, NEW deeper,
           remaining > 0 => MatesSound(g, deeper, remaining - 1), NEW s, s \in MateSearches(g),
           NEW r, r = MateSearchAttack(g, p, remaining, deeper, s)
    PROVE  Attacks(g, p, remaining, r)
<1>1. CASE Stops(s)
  <2>1. r = AbortMate(s)
    BY <1>1 DEF MateSearchAttack
  <2> QED BY <2>1, AbortMateIs DEF Attacks
<1>2. PICK asked : asked = Asked(s)
  OBVIOUS
<1>3. asked \in MateSearches(g)
  BY <1>2, AskedMate
<1>4. PICK none : none = NoMate(asked)
  OBVIOUS
<1>5. none \in MateSearches(g) /\ ~none.mate /\ none.line = <<>>
  BY <1>3, <1>4, NoMateIs
<1>6. CASE ~Stops(s) /\ (Ended(g, p) \/ remaining = 0)
  <2>1. r = none
    BY <1>2, <1>4, <1>6 DEF MateSearchAttack
  <2> QED BY <1>5, <2>1 DEF Attacks
<1>7. CASE ~Stops(s) /\ ~(Ended(g, p) \/ remaining = 0)
  <2> DEFINE checks == CheckingMoves(g, p)
             first == [deeper |-> deeper, search |-> none]
             N == Len(checks)
  <2>1. r = FoldLeft(TryCheck, first, checks).search
    BY <1>2, <1>4, <1>7 DEF MateSearchAttack
  <2>2. FoldLeft(TryCheck, first, checks) = Checking!Fold(first, checks)
    BY DEF Checking!Fold, Checking!Greatest, FoldLeft, MapThenFoldSet, Max
  <2>3. /\ N \in Nat /\ DOMAIN checks = 1 .. N
        /\ \A i \in 1 .. N : checks[i] \in ToSet(g.moves[p])
    <3>1. /\ checks \in Seq(Positions(g)) /\ N \in Nat
          /\ \A i \in 1 .. N : checks[i] \in ToSet(g.moves[p])
      BY ChecksAre
    <3> HIDE DEF checks
    <3> QED BY <3>1
  <2>4. first \in AttackNodes(g, deeper) /\ Attacks(g, p, remaining, first.search)
    BY <1>5 DEF AttackNodes, Attacks
  <2> HIDE DEF checks, first
  <2>5. PICK f : Checking!IsRun(f, N, first, checks) /\ f[N] = Checking!Fold(first, checks)
    BY <2>3, Checking!FoldRuns
  <2> DEFINE Good == {n \in AttackNodes(g, deeper) : Attacks(g, p, remaining, n.search)}
  <2>6. first \in Good
    BY <2>4
  <2>7. ASSUME NEW i \in 1 .. N, NEW n \in Good PROVE TryCheck(n, checks[i]) \in Good
    <3>1. PICK m : m = checks[i]
      OBVIOUS
    <3>2. PICK less \in Nat : remaining = less + 1
      <4>1. remaining - 1 \in Nat /\ remaining = remaining - 1 + 1
        BY <1>7
      <4> QED BY <4>1
    <3>3. less <= 1256 /\ MatesSound(g, deeper, less)
      <4>1. less = remaining - 1 /\ remaining > 0 /\ less <= 1256
        BY <3>2
      <4> QED BY <4>1
    <3>4. m \in ToSet(g.moves[p])
      BY <2>3, <3>1
    <3>5. n \in AttackNodes(g, deeper) /\ Attacks(g, p, less + 1, n.search)
      BY <3>2
    <3>6. PICK k : k = TryCheck(n, m)
      OBVIOUS
    <3>7. k \in AttackNodes(g, deeper) /\ Attacks(g, p, less + 1, k.search)
      BY <1>7, <3>3, <3>4, <3>5, <3>6, CheckStep, ZenonT(30)
    <3> QED BY <3>1, <3>2, <3>6, <3>7
  <2> HIDE DEF Good
  <2>8. \A i \in 0 .. N : f[i] \in Good
    BY <2>3, <2>5, <2>6, <2>7, Checking!RunKeeps
  <2>9. f[N] \in Good
    BY <2>3, <2>8
  <2> QED BY <2>1, <2>2, <2>5, <2>9 DEF Good
<1> QED BY <1>1, <1>6, <1>7

(* The defence: every move loses, the longest line being kept. *)
DefenceNodes(g, deeper) ==
    [deeper : {deeper}, search : MateSearches(g), line : Seq(Positions(g)), over : BOOLEAN]

Escapes(n, s) == [n EXCEPT !.over = TRUE, !.search = s]
Defers(n, s, line) == [n EXCEPT !.search = s, !.line = line]

LEMMA EscapesIs ==
    ASSUME NEW g, NEW deeper, NEW n \in DefenceNodes(g, deeper), NEW s \in MateSearches(g)
    PROVE  Escapes(n, s) \in DefenceNodes(g, deeper) /\ Escapes(n, s).search = s /\ Escapes(n, s).over
BY DEF DefenceNodes, Escapes

LEMMA DefersIs ==
    ASSUME NEW g, NEW deeper, NEW n \in DefenceNodes(g, deeper), NEW s \in MateSearches(g),
           NEW line, line \in Seq(Positions(g))
    PROVE  /\ Defers(n, s, line) \in DefenceNodes(g, deeper) /\ Defers(n, s, line).search = s
           /\ Defers(n, s, line).line = line /\ Defers(n, s, line).over = n.over
BY DEF DefenceNodes, Defers

Lost(g, line, m) == g.value[m] >= MateScore - (Len(line) - 1)

DefenceLoop(g, p, remaining, list, i, n) ==
    IF n.over THEN ~n.search.mate /\ n.search.line = <<>>
    ELSE /\ Forced(g, p, remaining, n.line)
         /\ \A j \in 1 .. i : Lost(g, n.line, list[j])

LEMMA LostLonger ==
    ASSUME Scales, NEW g, NEW m, g.value[m] \in Int, NEW line, NEW longer, Len(line) \in Nat, Len(longer) \in Nat,
           Len(longer) >= Len(line), Lost(g, line, m)
    PROVE  Lost(g, longer, m)
BY DEF Lost, Scales

LEMMA EvasionStep ==
    ASSUME Scales, NEW g, IsGame(g), NEW p, p \in Positions(g), NEW remaining \in Nat, NEW deeper,
           MatesSound(g, deeper, remaining), NEW list, NEW i \in Nat, list[i + 1] \in ToSet(g.moves[p]),
           \A j \in 1 .. i : list[j] \in Positions(g),
           NEW n, n \in DefenceNodes(g, deeper), DefenceLoop(g, p, remaining + 1, list, i, n),
           NEW k, k = TryEvasion(n, list[i + 1])
    PROVE  k \in DefenceNodes(g, deeper) /\ DefenceLoop(g, p, remaining + 1, list, i + 1, k)
<1>1. PICK m : m = list[i + 1]
  OBVIOUS
<1> DEFINE c == MateCall(TRUE, m, n.search)
<1>2. m \in ToSet(g.moves[p]) /\ m \in Positions(g) /\ n.search \in MateSearches(g) /\ n.deeper = deeper
      /\ n.line \in Seq(Positions(g)) /\ n.over \in BOOLEAN
  BY <1>1, MovesAre DEF DefenceNodes
<1>3. c \in MateCalls(g) /\ c.attack /\ c.p = m
  BY <1>2 DEF MateCall, MateCalls
<1>4. PICK r : r = deeper[c]
  OBVIOUS
<1>5. PICK kept : kept = IF 1 + Len(r.line) > Len(n.line) THEN LineFrom(m, r.line) ELSE n.line
  OBVIOUS
<1>6. PICK none : none = NoMate(r)
  OBVIOUS
<1>7. k = IF n.over THEN n ELSE IF ~r.mate \/ r.aborted THEN Escapes(n, none) ELSE Defers(n, r, kept)
  BY <1>1, <1>2, <1>4, <1>5, <1>6 DEF TryEvasion, Escapes, Defers, LineFrom
<1> HIDE DEF c
<1>8. Attacks(g, m, remaining, r) /\ r \in MateSearches(g)
  BY <1>3, <1>4 DEF MatesSound, Attacks
<1>9. CASE n.over
  <2>1. k = n
    BY <1>7, <1>9
  <2> QED BY <1>9, <2>1 DEF DefenceLoop
<1>10. CASE ~n.over /\ (~r.mate \/ r.aborted)
  <2>1. none \in MateSearches(g) /\ ~none.mate /\ none.line = <<>>
    BY <1>6, <1>8, NoMateIs
  <2>2. k = Escapes(n, none)
    BY <1>7, <1>10
  <2>3. k \in DefenceNodes(g, deeper) /\ k.search = none /\ k.over
    BY <2>1, <2>2, EscapesIs
  <2> QED BY <2>1, <2>3 DEF DefenceLoop
<1>11. CASE ~n.over /\ r.mate /\ ~r.aborted
  <2>1. PICK line : line = r.line
    OBVIOUS
  <2>2. Forced(g, m, remaining, line) /\ line # <<>> /\ g.value[m] >= MateScore - Len(line)
    BY <1>8, <1>11, <2>1 DEF Attacks
  <2>3. line \in Seq(Positions(g)) /\ Len(line) \in Nat
    BY <2>2 DEF Forced
  <2>4. PICK longer : longer = LineFrom(m, line)
    OBVIOUS
  <2>5. Forced(g, p, remaining + 1, longer) /\ Len(longer) = Len(line) + 1
    BY <1>2, <2>2, <2>4, Longer
  <2>6. Forced(g, p, remaining + 1, n.line) /\ \A j \in 1 .. i : Lost(g, n.line, list[j])
    BY <1>11 DEF DefenceLoop
  <2>7. kept = longer \/ kept = n.line
    BY <1>5, <2>1, <2>4
  <2>8. /\ Forced(g, p, remaining + 1, kept) /\ Len(kept) \in Nat /\ Len(kept) >= Len(n.line)
        /\ Len(kept) >= Len(line) + 1 /\ Len(n.line) \in Nat /\ kept \in Seq(Positions(g))
    <3>1. Len(n.line) \in Nat /\ Len(longer) \in Nat /\ longer \in Seq(Positions(g))
      BY <1>2, <2>5 DEF Forced
    <3>2. CASE 1 + Len(line) > Len(n.line)
      <4>1. kept = longer
        BY <1>5, <2>1, <2>4, <3>2
      <4> QED BY <2>3, <2>5, <3>1, <3>2, <4>1
    <3>3. CASE ~(1 + Len(line) > Len(n.line))
      <4>1. kept = n.line
        BY <1>5, <2>1, <3>3
      <4> QED BY <1>2, <2>3, <2>6, <3>1, <3>3, <4>1
    <3> QED BY <3>2, <3>3
  <2>9. g.value[m] \in Int /\ \A j \in 1 .. i : g.value[list[j]] \in Int
    BY <1>2, GameTypes
  <2>10. Lost(g, kept, m)
    BY <2>2, <2>3, <2>8, <2>9 DEF Lost, Scales
  <2>11. ASSUME NEW j \in 1 .. i + 1 PROVE Lost(g, kept, list[j])
    <3>1. CASE j = i + 1
      BY <1>1, <2>10, <3>1
    <3>2. CASE j # i + 1
      <4>1. PICK before : before = list[j]
        OBVIOUS
      <4>2. PICK had : had = n.line
        OBVIOUS
      <4>3. j \in 1 .. i /\ g.value[before] \in Int /\ Lost(g, had, before)
        BY <2>6, <2>9, <3>2, <4>1, <4>2
      <4>4. Lost(g, kept, before)
        BY <2>8, <4>2, <4>3, LostLonger
      <4> QED BY <4>1, <4>4
    <3> QED BY <3>1, <3>2
  <2>12. k = Defers(n, r, kept)
    BY <1>7, <1>11
  <2>13. k \in DefenceNodes(g, deeper) /\ k.line = kept /\ ~k.over
    BY <1>8, <1>11, <2>8, <2>12, DefersIs
  <2> QED BY <2>8, <2>11, <2>13 DEF DefenceLoop
<1> QED BY <1>9, <1>10, <1>11 DEF DefenceNodes

Evading == INSTANCE FoldTheorems WITH Step <- TryEvasion

LEMMA AllLost ==
    ASSUME Scales, NEW g, IsGame(g), NEW p, p \in Positions(g), ~Ended(g, p), g.moves[p] # <<>>,
           NEW n, n \in Nat, n <= 1256, \A m \in ToSet(g.moves[p]) : g.value[m] >= MateScore - (n - 1)
    PROVE  g.value[p] <= n - MateScore
<1>1. PICK m \in ToSet(g.moves[p]) : g.value[p] = WorthOfMove(g, m)
  BY DEF IsGame, IsWorth
<1>2. m \in Positions(g)
  BY MovesAre
<1>3. g.value[m] \in Int /\ g.value[p] \in Int
  BY <1>2, GameTypes
<1>4. PICK w : w = -g.value[m]
  OBVIOUS
<1>5. w \in Int /\ w + 30000 <= n - 1 /\ 1 \in Nat
  BY <1>3, <1>4 DEF Scales
<1>6. WorthOfMove(g, m) = w + 1
  <2>1. PICK ply \in Nat : ply = 1
    OBVIOUS
  <2>2. ScoreFromTT(w, ply) = IF w >= 28744 THEN w - ply ELSE IF w <= -28744 THEN w + ply ELSE w
    BY <1>5, FromTT
  <2>3. ~(w >= 28744) /\ w <= -28744
    BY <1>5
  <2>4. ScoreFromTT(w, 1) = w + 1
    BY <2>1, <2>2, <2>3
  <2> QED BY <1>4, <2>4 DEF WorthOfMove
<1> QED BY <1>1, <1>3, <1>5, <1>6 DEF Scales

LEMMA DefenceFinds ==
    ASSUME Scales, NEW g, IsGame(g), NEW p, p \in Positions(g), NEW remaining \in Nat, remaining <= 1256, NEW deeper,
           remaining > 0 => MatesSound(g, deeper, remaining - 1), NEW s, s \in MateSearches(g),
           NEW r, r = MateSearchDefense(g, p, remaining, deeper, s)
    PROVE  Defends(g, p, remaining, r)
<1>1. CASE Stops(s)
  <2>1. r = AbortMate(s)
    BY <1>1 DEF MateSearchDefense
  <2> QED BY <2>1, AbortMateIs DEF Defends
<1>2. PICK asked : asked = Asked(s)
  OBVIOUS
<1>3. asked \in MateSearches(g)
  BY <1>2, AskedMate
<1>4. PICK none : none = NoMate(asked)
  OBVIOUS
<1>5. none \in MateSearches(g) /\ ~none.mate /\ none.line = <<>>
  BY <1>3, <1>4, NoMateIs
<1>6. PICK nil : nil = <<>>
  OBVIOUS
<1>7. nil \in Seq(Positions(g)) /\ Len(nil) = 0 /\ Forced(g, p, remaining, nil)
  <2>1. <<>> \in Seq(Positions(g)) /\ Len(<<>>) = 0 /\ 1 .. 0 = {}
    OBVIOUS
  <2> QED BY <1>6, <2>1 DEF Forced, LegalLine
<1>8. CASE ~Stops(s) /\ (Ended(g, p) \/ (g.moves[p] # <<>> /\ remaining = 0) \/ (g.moves[p] = <<>> /\ ~g.inCheck[p]))
  <2>1. r = none
    BY <1>2, <1>4, <1>8 DEF MateSearchDefense
  <2> QED BY <1>5, <2>1 DEF Defends
<1>9. CASE ~Stops(s) /\ ~Ended(g, p) /\ g.moves[p] = <<>> /\ g.inCheck[p]
  <2>1. r = Mate(asked, nil)
    BY <1>2, <1>6, <1>9 DEF MateSearchDefense
  <2>2. r \in MateSearches(g) /\ r.mate /\ r.line = nil
    <3>1. nil \in Seq(Positions(g))
      BY <1>7
    <3> QED BY <1>3, <2>1, <3>1, MateIs
  <2>3. g.value[p] = -MateScore
    BY <1>9 DEF IsGame, IsWorth
  <2>4. g.value[p] <= Len(nil) - MateScore
    BY <1>7, <2>3 DEF Scales
  <2> QED BY <1>7, <2>2, <2>4 DEF Defends
<1>10. CASE ~Stops(s) /\ ~Ended(g, p) /\ g.moves[p] # <<>> /\ remaining # 0
  <2> DEFINE moved == g.moves[p]
             first == [deeper |-> deeper, search |-> asked, line |-> <<>>, over |-> FALSE]
             last == FoldLeft(TryEvasion, first, moved)
             N == Len(moved)
  <2>1. r = IF last.over THEN last.search ELSE Mate(last.search, last.line)
    BY <1>2, <1>10 DEF MateSearchDefense
  <2>2. last = Evading!Fold(first, moved)
    BY DEF Evading!Fold, Evading!Greatest, FoldLeft, MapThenFoldSet, Max
  <2>3. /\ N \in Nat /\ DOMAIN moved = 1 .. N
        /\ \A i \in 1 .. N : moved[i] \in ToSet(g.moves[p]) /\ moved[i] \in Positions(g)
        /\ \A m \in ToSet(g.moves[p]) : \E i \in 1 .. N : moved[i] = m
    BY GameTypes, MovesAre, SMTT(30) DEF ToSet
  <2>4. PICK less \in Nat : remaining = less + 1
    <3>1. remaining - 1 \in Nat /\ remaining = remaining - 1 + 1
      BY <1>10
    <3> QED BY <3>1
  <2>5. less <= 1256 /\ MatesSound(g, deeper, less)
    <3>1. less = remaining - 1 /\ remaining > 0 /\ less <= 1256
      BY <2>4
    <3> QED BY <3>1
  <2>6. first \in DefenceNodes(g, deeper) /\ DefenceLoop(g, p, less + 1, moved, 0, first)
    <3>1. first = [deeper |-> deeper, search |-> asked, line |-> nil, over |-> FALSE]
      BY <1>6
    <3>2. first \in DefenceNodes(g, deeper) /\ ~first.over /\ first.line = nil
      BY <1>3, <1>7, <3>1 DEF DefenceNodes
    <3>3. 1 .. 0 = {}
      OBVIOUS
    <3> HIDE DEF first
    <3> QED BY <1>7, <2>4, <3>2, <3>3 DEF DefenceLoop
  <2> HIDE DEF moved, first, last
  <2>7. PICK f : Evading!IsRun(f, N, first, moved) /\ f[N] = Evading!Fold(first, moved)
    BY <2>3, Evading!FoldRuns
  <2> DEFINE Good(i) == {n \in DefenceNodes(g, deeper) : DefenceLoop(g, p, less + 1, moved, i, n)}
             A == {i \in Nat : i <= N => f[i] \in Good(i)}
  <2>8. 0 \in A
    <3>1. f[0] = first
      BY <2>3, <2>7 DEF Evading!IsRun
    <3> QED BY <2>6, <3>1
  <2>9. ASSUME NEW i \in Nat, i \in A PROVE i + 1 \in A
    <3> SUFFICES ASSUME i + 1 <= N PROVE f[i + 1] \in Good(i + 1)
      OBVIOUS
    <3>1. f[i + 1] = TryEvasion(f[i], moved[i + 1])
      BY <2>3, <2>7 DEF Evading!IsRun
    <3>2. PICK n : n = f[i]
      OBVIOUS
    <3>3. n \in DefenceNodes(g, deeper) /\ DefenceLoop(g, p, less + 1, moved, i, n)
      BY <2>3, <2>9, <3>2
    <3>4. moved[i + 1] \in ToSet(g.moves[p]) /\ \A j \in 1 .. i : moved[j] \in Positions(g)
      BY <2>3
    <3>5. PICK k : k = TryEvasion(n, moved[i + 1])
      OBVIOUS
    <3>6. k \in DefenceNodes(g, deeper) /\ DefenceLoop(g, p, less + 1, moved, i + 1, k)
      BY <2>5, <3>3, <3>4, <3>5, EvasionStep
    <3> QED BY <3>1, <3>2, <3>5, <3>6
  <2>10. N \in A
    <3> HIDE DEF A
    <3> QED BY <2>3, <2>8, <2>9, Evading!Induction
  <2>11. PICK n : n = last
    OBVIOUS
  <2>12. n \in DefenceNodes(g, deeper) /\ DefenceLoop(g, p, less + 1, moved, N, n)
    BY <2>2, <2>3, <2>7, <2>10, <2>11
  <2>13. n.search \in MateSearches(g) /\ n.line \in Seq(Positions(g))
    BY <2>12 DEF DefenceNodes
  <2>14. CASE n.over
    <3>1. r = n.search /\ ~r.mate /\ r.line = <<>>
      BY <2>1, <2>11, <2>12, <2>14 DEF DefenceLoop
    <3> QED BY <2>13, <3>1 DEF Defends
  <2>15. CASE ~n.over
    <3>1. PICK line : line = n.line
      OBVIOUS
    <3>2. PICK search : search = n.search
      OBVIOUS
    <3>3. r = Mate(search, line)
      BY <2>1, <2>11, <2>15, <3>1, <3>2
    <3>4. r \in MateSearches(g) /\ r.mate /\ r.line = line
      BY <2>13, <3>1, <3>2, <3>3, MateIs
    <3>5. Forced(g, p, remaining, line) /\ \A j \in 1 .. N : Lost(g, line, moved[j])
      BY <2>4, <2>12, <2>15, <3>1 DEF DefenceLoop
    <3>6. PICK len : len = Len(line)
      OBVIOUS
    <3>7. len \in Nat /\ len <= 1256
      BY <3>5, <3>6 DEF Forced
    <3>8. \A m \in ToSet(g.moves[p]) : g.value[m] >= MateScore - (len - 1)
      BY <2>3, <3>5, <3>6 DEF Lost
    <3>9. g.value[p] <= len - MateScore
      BY <1>10, <3>7, <3>8, AllLost
    <3> QED BY <3>4, <3>5, <3>6, <3>9 DEF Defends
  <2> QED BY <2>14, <2>15
<1> QED BY <1>1, <1>8, <1>9, <1>10

(* The levels of the search for mates. *)
MateNode(g, remaining, c, deeper) ==
    IF c.attack THEN MateSearchAttack(g, c.p, remaining, deeper, c.search)
    ELSE MateSearchDefense(g, c.p, remaining, deeper, c.search)
MateLevel(before, x) == [c \in MateCalls(x[1]) |-> MateNode(x[1], x[2], c, before)]
MateLevels == INSTANCE FoldTheorems WITH Step <- MateLevel

LEMMA MateSearchDefined ==
    ASSUME NEW g, NEW N \in Nat
    PROVE  \E f : /\ MateSearch(g, N) = f[N]
                  /\ \A left \in 0 .. N :
                        f[left] = MateLevel(IF left = 0 THEN <<>> ELSE f[left - 1], <<g, left>>)
<1> DEFINE Is(h) == h = [remaining \in 0 .. N |->
                           [c \in MateCalls(g) |->
                              LET deeper == IF remaining = 0 THEN <<>> ELSE h[remaining - 1]
                              IN IF c.attack THEN MateSearchAttack(g, c.p, remaining, deeper, c.search)
                                 ELSE MateSearchDefense(g, c.p, remaining, deeper, c.search)]]
           f == CHOOSE h : Is(h)
           of == [i \in 0 .. N |-> <<g, i>>]
<1>1. MateSearch(g, N) = f[N]
  BY DEF MateSearch
<1>2. ASSUME NEW h
      PROVE  Is(h) <=> h = [left \in 0 .. N |-> MateLevel(IF left = 0 THEN <<>> ELSE h[left - 1], <<g, left>>)]
  BY DEF MateLevel, MateNode
<1>3. \E h : Is(h)
  <2>1. PICK h : MateLevels!IsLevels(h, N, of)
    BY MateLevels!LevelsExist
  <2>2. \A i \in 0 .. N : of[i] = <<g, i>>
    OBVIOUS
  <2> HIDE DEF of
  <2>3. h = [left \in 0 .. N |-> MateLevel(IF left = 0 THEN <<>> ELSE h[left - 1], <<g, left>>)]
    BY <2>1, <2>2 DEF MateLevels!IsLevels
  <2> HIDE DEF Is
  <2> QED BY <1>2, <2>3
<1>4. Is(f)
  BY <1>3
<1> HIDE DEF Is, f
<1>5. f = [left \in 0 .. N |-> MateLevel(IF left = 0 THEN <<>> ELSE f[left - 1], <<g, left>>)]
  BY <1>2, <1>4
<1>6. \A left \in 0 .. N : f[left] = MateLevel(IF left = 0 THEN <<>> ELSE f[left - 1], <<g, left>>)
  BY <1>5
<1> QED BY <1>1, <1>6

(* The search for mates finds no mate that is none: the line of a mate can be played,
   has no more moves than the depth, and its first move is worth what it says, whatever
   limits strike wherever. *)
THEOREM MateSearchSound ==
    ASSUME Scales, NEW g, IsGame(g), NEW plies \in Nat, plies <= 1256
    PROVE  MatesSound(g, MateSearch(g, plies), plies)
<1>1. PICK f : /\ MateSearch(g, plies) = f[plies]
               /\ \A left \in 0 .. plies : f[left] = MateLevel(IF left = 0 THEN <<>> ELSE f[left - 1], <<g, left>>)
  BY MateSearchDefined
<1> DEFINE A == {left \in Nat : left <= plies => MatesSound(g, f[left], left)}
<1>2. ASSUME NEW left \in 0 .. plies, left > 0 => MatesSound(g, f[left - 1], left - 1)
      PROVE  MatesSound(g, f[left], left)
  <2> DEFINE before == IF left = 0 THEN <<>> ELSE f[left - 1]
  <2>1. f[left] = [c \in MateCalls(g) |-> MateNode(g, left, c, before)]
    BY <1>1 DEF MateLevel
  <2>2. left > 0 => MatesSound(g, before, left - 1)
    BY <1>2
  <2>3. left \in Nat /\ left <= 1256
    OBVIOUS
  <2> HIDE DEF before
  <2>4. ASSUME NEW c \in MateCalls(g)
        PROVE  IF c.attack THEN Attacks(g, c.p, left, f[left][c]) ELSE Defends(g, c.p, left, f[left][c])
    <3>1. PICK p : p = c.p
      OBVIOUS
    <3>2. PICK s : s = c.search
      OBVIOUS
    <3>3. p \in Positions(g) /\ s \in MateSearches(g)
      BY <3>1, <3>2 DEF MateCalls
    <3>4. PICK r : r = f[left][c]
      OBVIOUS
    <3>5. r = IF c.attack THEN MateSearchAttack(g, p, left, before, s) ELSE MateSearchDefense(g, p, left, before, s)
      BY <2>1, <3>1, <3>2, <3>4 DEF MateNode
    <3>6. CASE c.attack
      <4>1. Attacks(g, p, left, r)
        BY <2>2, <2>3, <3>3, <3>5, <3>6, AttackFinds
      <4> QED BY <3>1, <3>4, <3>6, <4>1
    <3>7. CASE ~c.attack
      <4>1. Defends(g, p, left, r)
        BY <2>2, <2>3, <3>3, <3>5, <3>7, DefenceFinds
      <4> QED BY <3>1, <3>4, <3>7, <4>1
    <3> QED BY <3>6, <3>7
  <2> QED BY <2>4 DEF MatesSound
<1>3. 0 \in A
  BY <1>2
<1>4. ASSUME NEW left \in Nat, left \in A PROVE left + 1 \in A
  <2> SUFFICES ASSUME left + 1 <= plies PROVE MatesSound(g, f[left + 1], left + 1)
    OBVIOUS
  <2>1. left + 1 \in 0 .. plies /\ left + 1 - 1 = left /\ MatesSound(g, f[left], left)
    BY <1>4
  <2> HIDE DEF A
  <2> QED BY <1>2, <2>1
<1>5. plies \in A
  <2> HIDE DEF A
  <2> QED BY <1>3, <1>4, MateLevels!Induction
<1> QED BY <1>1, <1>5

-----------------------------------------------------------------------------
(* The move that is answered. *)
IsResult(r) == r = [best |-> r.best, score |-> r.score, depth |-> r.depth, mate |-> r.mate, pv |-> r.pv]

AnswerInv ==
    /\ Searching => fallback \in Allowed /\ result.best \in Allowed \cup {NoMove} /\ IsResult(result)
    /\ pc = "fallback" => moves = AllowedMoves(game, root, options)
    /\ pc = "done" => /\ result.best \in Moves(game)
                      /\ ~Ended(game, root) /\ Allowed # {} => result.best \in Allowed

LEMMA AllowedAre ==
    ASSUME SearchAssumption, SearchInv
    PROVE  /\ Allowed \subseteq Positions(game) /\ Allowed \subseteq Moves(game)
           /\ Allowed = ToSet(game.moves[root]) \cap options.searchmoves
           /\ NoMove \in Moves(game) /\ NoMove \notin Allowed
           /\ AllowedMoves(game, root, options) \in Seq(Positions(game))
           /\ AllowedMoves(game, root, options) = <<>> <=> Allowed = {}
           /\ AllowedMoves(game, root, options) # <<>> => AllowedMoves(game, root, options)[1] \in Allowed
<1> DEFINE list == AllowedMoves(game, root, options)
<1>1. /\ list \in Seq(Positions(game)) /\ Len(list) \in Nat
      /\ ToSet(list) = ToSet(game.moves[root]) \cap options.searchmoves
      /\ ToSet(list) \subseteq Positions(game)
      /\ list # <<>> => Len(list) > 0
      /\ \A i \in 1 .. Len(list) : list[i] \in ToSet(list)
  BY InvIs, AllowedIs
<1>2. NoMove \notin Positions(game)
  BY InvIs DEF IsGame
<1>3. Allowed = ToSet(list)
  BY DEF Allowed
<1> HIDE DEF list
<1>4. list = <<>> => ToSet(list) = {}
  BY DEF ToSet
<1>5. list # <<>> => list[1] \in Allowed
  BY <1>1, <1>3
<1> QED BY <1>1, <1>2, <1>3, <1>4, <1>5 DEF list, Moves

LEMMA BeginAnswers == SearchAssumption /\ SearchInv /\ Begin => AnswerInv'
<1> SUFFICES ASSUME SearchAssumption, SearchInv, Begin PROVE AnswerInv'
  OBVIOUS
<1> DEFINE allowed == AllowedMoves(game, root, options)
<1>1. game' = game /\ root' = root
  BY DEF Begin
<1>2. /\ allowed = <<>> <=> Allowed = {}
      /\ allowed # <<>> => allowed[1] \in Allowed
      /\ NoMove \in Moves(game)
  BY AllowedAre
<1>3. CASE Ended(game, root) \/ allowed = <<>>
  <2>1. pc' = "done" /\ options' = options
        /\ \E score : result' = [NoResult EXCEPT !.score = score]
    BY <1>3 DEF Begin
  <2>2. result'.best = NoMove
    BY <2>1 DEF NoResult
  <2>3. Allowed' = Allowed /\ Ended(game, root)' = Ended(game, root) /\ Moves(game)' = Moves(game)
    BY <1>1, <2>1 DEF Allowed, AllowedMoves, Ended, Moves, Positions
  <2> HIDE DEF allowed
  <2>4. Allowed' = {} \/ Ended(game, root)'
    BY <1>2, <1>3, <2>3
  <2>5. result'.best \in Moves(game)'
    BY <1>2, <2>2, <2>3
  <2>6. pc' = "done" /\ ~Searching'
    BY <2>1 DEF Searching
  <2> QED BY <2>4, <2>5, <2>6 DEF AnswerInv
<1>4. CASE ~(Ended(game, root) \/ allowed = <<>>)
  <2>1. /\ pc' = "fallback" /\ result' = NoResult /\ moves' = allowed /\ fallback' = allowed[1]
        /\ SetUp(allowed)
    BY <1>4 DEF Begin
  <2>2. PICK t, n : options' = [options EXCEPT !.threads = t, !.multiPV = n]
    BY <2>1 DEF SetUp
  <2>3. options'.searchmoves = options.searchmoves
    BY <2>2, InvIs
  <2>4. AllowedMoves(game, root, options)' = allowed /\ Allowed' = Allowed
    BY <1>1, <2>3 DEF AllowedMoves, Allowed
  <2>5. result'.best = NoMove /\ IsResult(result')
    BY <2>1 DEF NoResult, IsResult
  <2> HIDE DEF allowed
  <2>6. fallback' \in Allowed'
    BY <1>2, <1>4, <2>1, <2>4
  <2> QED BY <2>1, <2>4, <2>5, <2>6 DEF AnswerInv
<1> QED BY <1>3, <1>4

(* The first look keeps one of the moves. *)
LookNode(S, n) ==
    n = [game |-> n.game, best |-> n.best, move |-> n.move, search |-> n.search] /\ n.move \in S

Saw(n, s) == [n EXCEPT !.search = s]
Prefers(n, s, score, m) == [n EXCEPT !.search = s, !.best = score, !.move = m]

LEMMA SawIs ==
    ASSUME NEW S, NEW n, LookNode(S, n), NEW s, NEW k, k = Saw(n, s)
    PROVE  LookNode(S, k)
BY DEF LookNode, Saw

LEMMA PrefersIs ==
    ASSUME NEW S, NEW n, LookNode(S, n), NEW s, NEW score, NEW m \in S, NEW k, k = Prefers(n, s, score, m)
    PROVE  LookNode(S, k)
BY DEF LookNode, Prefers

LEMMA LookAtKeeps ==
    ASSUME NEW S, NEW n, LookNode(S, n), NEW m \in S, NEW k, k = LookAt(n, m)
    PROVE  LookNode(S, k)
<1>1. PICK r : r = Look(n.game, m, Asked(n.search))
  OBVIOUS
<1>2. PICK score : score = r.score
  OBVIOUS
<1>3. PICK a : a = Abort(n.search, 0)
  OBVIOUS
<1>4. k = n \/ k = Saw(n, a) \/ k = Saw(n, r) \/ k = Prefers(n, r, score, m)
  BY <1>1, <1>2, <1>3 DEF LookAt, Compared, Saw, Prefers
<1> QED BY <1>4, SawIs, PrefersIs

Looking == INSTANCE FoldTheorems WITH Step <- LookAt

LEMMA FallbackAnswers == SearchAssumption /\ SearchInv /\ AnswerInv /\ Fallback => AnswerInv'
<1> SUFFICES ASSUME SearchAssumption, SearchInv, AnswerInv, Fallback PROVE AnswerInv'
  OBVIOUS
<1>1. pc = "fallback" /\ pc' = "mate" /\ game' = game /\ root' = root /\ options' = options /\ result' = result
  BY DEF Fallback
<1>2. Searching /\ AllowedMoves(game, root, options) # <<>> /\ moves = AllowedMoves(game, root, options)
  BY <1>1 DEF Searching, SearchInv, StartInv, AnswerInv
<1>3. PICK list : list = moves
  OBVIOUS
<1>4. list \in Seq(Positions(game)) /\ ToSet(list) = Allowed /\ list[1] \in Allowed
  BY <1>2, <1>3, AllowedAre DEF Allowed
<1>5. PICK s : fallback' = FoldLeft(LookAt, [game |-> game, best |-> -Infinity, move |-> list[1],
                                             search |-> s], list).move
  BY <1>3 DEF Fallback
<1> DEFINE first == [game |-> game, best |-> -Infinity, move |-> list[1], search |-> s]
           N == Len(list)
<1>6. FoldLeft(LookAt, first, list) = Looking!Fold(first, list)
  BY DEF Looking!Fold, Looking!Greatest, FoldLeft, MapThenFoldSet, Max
<1>7. N \in Nat /\ DOMAIN list = 1 .. N /\ \A i \in 1 .. N : list[i] \in Allowed
  BY <1>4 DEF ToSet
<1>8. LookNode(Allowed, first)
  BY <1>4 DEF LookNode
<1> HIDE DEF first
<1>9. PICK f : Looking!IsRun(f, N, first, list) /\ f[N] = Looking!Fold(first, list)
  BY <1>7, Looking!FoldRuns
<1> DEFINE A == {i \in Nat : i <= N => LookNode(Allowed, f[i])}
<1>10. 0 \in A
  <2>1. f[0] = first
    BY <1>7, <1>9 DEF Looking!IsRun
  <2> QED BY <1>8, <2>1
<1>11. ASSUME NEW i \in Nat, i \in A PROVE i + 1 \in A
  <2> SUFFICES ASSUME i + 1 <= N PROVE LookNode(Allowed, f[i + 1])
    OBVIOUS
  <2>1. f[i + 1] = LookAt(f[i], list[i + 1])
    BY <1>7, <1>9 DEF Looking!IsRun
  <2>2. PICK n, m : n = f[i] /\ m = list[i + 1]
    OBVIOUS
  <2>3. LookNode(Allowed, n) /\ m \in Allowed
    BY <1>7, <1>11, <2>2
  <2>4. LookNode(Allowed, LookAt(n, m))
    BY <2>3, LookAtKeeps
  <2> QED BY <2>1, <2>2, <2>4
<1>12. N \in A
  <2> HIDE DEF A
  <2> QED BY <1>7, <1>10, <1>11, Looking!Induction
<1>13. LookNode(Allowed, f[N])
  BY <1>7, <1>12
<1>14. fallback' = f[N].move
  BY <1>5, <1>6, <1>9 DEF first
<1>15. fallback' \in Allowed
  BY <1>13, <1>14 DEF LookNode
<1>16. Allowed' = Allowed
  BY <1>1 DEF Allowed
<1>17. result'.best \in Allowed' \cup {NoMove} /\ IsResult(result')
  BY <1>1, <1>2, <1>16 DEF AnswerInv
<1> QED BY <1>1, <1>15, <1>16, <1>17 DEF AnswerInv

(* The line that the search for a mate gives to the root. *)
IsMate(line) ==
    /\ Forced(game, root, MateSearchMaxPly, line) /\ line # <<>>
    /\ WorthOfMove(game, line[1]) >= MateScore - Len(line)

MateStart(cut) == [left |-> cut, aborted |-> FALSE, mate |-> FALSE, line |-> <<>>]

LEMMA MateStartIs ==
    ASSUME NEW g, NEW cut \in Int
    PROVE  MateStart(cut) \in MateSearches(g)
<1>1. <<>> \in Seq(Positions(g))
  OBVIOUS
<1> QED BY <1>1 DEF MateStart, MateSearches

LEMMA AttackLine ==
    ASSUME SearchAssumption, SearchInv, NEW cut \in Int, NEW line,
           line = MateLine(TRUE, root, MateSearchMaxPly, cut).line
    PROVE  line = <<>> \/ IsMate(line)
<1> DEFINE c == MateCall(TRUE, root, MateStart(cut))
           f == MateSearch(game, MateSearchMaxPly)
<1>1. line = f[c].line
  BY DEF MateLine, MateStart
<1>2. MateStart(cut) \in MateSearches(game) /\ root \in Positions(game)
  BY MateStartIs, InvIs
<1>3. c \in MateCalls(game) /\ c.attack /\ c.p = root
  BY <1>2 DEF MateCall, MateCalls
<1>4. IsGame(game) /\ Scales /\ MateSearchMaxPly \in Nat /\ MateSearchMaxPly <= 1256
  BY InvIs DEF Numbers
<1>5. MatesSound(game, f, MateSearchMaxPly)
  BY <1>4, MateSearchSound
<1> HIDE DEF c, f
<1>6. PICK r : r = f[c]
  OBVIOUS
<1>7. Attacks(game, root, MateSearchMaxPly, r)
  BY <1>3, <1>5, <1>6 DEF MatesSound
<1> QED BY <1>1, <1>6, <1>7 DEF Attacks, IsMate

LEMMA DefenceLine ==
    ASSUME SearchAssumption, SearchInv, ~Ended(game, root), NEW m, m \in ToSet(game.moves[root]), NEW cut \in Int,
           NEW line, line = MateLineAfter(m, cut)
    PROVE  line = <<>> \/ IsMate(line)
<1>1. PICK less : less = MateSearchMaxPly - 1
  OBVIOUS
<1>2. /\ IsGame(game) /\ Scales /\ less \in Nat /\ less <= 1256 /\ less + 1 = MateSearchMaxPly
      /\ root \in Positions(game)
  BY <1>1, InvIs DEF Numbers
<1>3. m \in Positions(game)
  BY <1>2, MovesAre
<1> DEFINE c == MateCall(FALSE, m, MateStart(cut))
           f == MateSearch(game, less)
<1>4. MateStart(cut) \in MateSearches(game)
  BY MateStartIs
<1>5. c \in MateCalls(game) /\ ~c.attack /\ c.p = m
  BY <1>3, <1>4 DEF MateCall, MateCalls
<1>6. MatesSound(game, f, less)
  BY <1>2, MateSearchSound
<1>7. PICK r : r = f[c]
  OBVIOUS
<1>8. line = IF r.mate THEN LineFrom(m, r.line) ELSE <<>>
  BY <1>1, <1>7 DEF MateLineAfter, MateLine, MateStart, LineFrom
<1> HIDE DEF c, f
<1>9. Defends(game, m, less, r)
  BY <1>5, <1>6, <1>7 DEF MatesSound
<1>10. CASE r.mate
  <2>1. line = LineFrom(m, r.line)
    BY <1>8, <1>10
  <2>2. /\ line # <<>> /\ Forced(game, root, less + 1, line)
        /\ WorthOfMove(game, line[1]) >= MateScore - Len(line)
    BY <1>2, <1>9, <1>10, <2>1, AttackOfDefence
  <2> QED BY <1>2, <2>2 DEF IsMate
<1> QED BY <1>8, <1>10

LEMMA TeamLine ==
    ASSUME SearchAssumption, SearchInv, ~Ended(game, root), NEW cuts,
           \A i \in DOMAIN CheckingMoves(game, root) : cuts[i] \in Int, NEW line, line = LineOfTeam(cuts)
    PROVE  line = <<>> \/ IsMate(line)
<1> DEFINE checks == CheckingMoves(game, root)
           proved == {i \in DOMAIN checks : MateLineAfter(checks[i], cuts[i]) # <<>>}
           first == CHOOSE i \in proved : \A j \in proved : i <= j
<1>1. line = IF proved = {} THEN <<>> ELSE MateLineAfter(checks[first], cuts[first])
  BY DEF LineOfTeam
<1>2. /\ DOMAIN checks \subseteq Nat
      /\ \A i \in DOMAIN checks : checks[i] \in ToSet(game.moves[root]) /\ cuts[i] \in Int
  <2>1. /\ Len(checks) \in Nat /\ DOMAIN checks = 1 .. Len(checks)
        /\ \A i \in 1 .. Len(checks) : checks[i] \in ToSet(game.moves[root])
    BY ChecksAre, InvIs
  <2> QED BY <2>1
<1> HIDE DEF checks
<1>3. CASE proved = {}
  BY <1>1, <1>3
<1>4. CASE proved # {}
  <2>1. first \in proved
    <3>1. proved \subseteq Nat
      BY <1>2
    <3>2. \E i \in proved : \A j \in proved : i <= j
      <4> HIDE DEF proved
      <4> QED BY <1>4, <3>1, Kept!LeastElement
    <3> HIDE DEF proved
    <3> QED BY <3>2
  <2>2. PICK m, cut : m = checks[first] /\ cut = cuts[first]
    OBVIOUS
  <2>3. m \in ToSet(game.moves[root]) /\ cut \in Int
    BY <1>2, <2>1, <2>2
  <2>4. line = MateLineAfter(m, cut)
    BY <1>1, <1>4, <2>2
  <2> QED BY <2>3, <2>4, DefenceLine
<1> QED BY <1>3, <1>4

LEMMA ProbedLine ==
    ASSUME SearchAssumption, SearchInv, ~Ended(game, root), NEW cut \in Int, NEW line, line \in ProbeLine(cut)
    PROVE  line = <<>> \/ IsMate(line)
<1>1. Never \in Int
  BY DEF Never
<1>2. \/ line = MateLine(TRUE, root, MateSearchMaxPly, cut).line
      \/ line = <<>>
      \/ line = LineOfTeam([i \in DOMAIN CheckingMoves(game, root) |-> Never])
      \/ \E cuts \in [DOMAIN CheckingMoves(game, root) -> {cut, Never}] : line = LineOfTeam(cuts)
  BY DEF ProbeLine
<1>3. CASE line = MateLine(TRUE, root, MateSearchMaxPly, cut).line
  BY <1>3, AttackLine
<1>4. CASE line = LineOfTeam([i \in DOMAIN CheckingMoves(game, root) |-> Never])
  <2>1. PICK cuts : cuts = [i \in DOMAIN CheckingMoves(game, root) |-> Never]
    OBVIOUS
  <2>2. \A i \in DOMAIN CheckingMoves(game, root) : cuts[i] \in Int
    BY <1>1, <2>1
  <2> QED BY <1>4, <2>1, <2>2, TeamLine
<1>5. CASE \E cuts \in [DOMAIN CheckingMoves(game, root) -> {cut, Never}] : line = LineOfTeam(cuts)
  <2>1. PICK cuts \in [DOMAIN CheckingMoves(game, root) -> {cut, Never}] : line = LineOfTeam(cuts)
    BY <1>5
  <2>2. \A i \in DOMAIN CheckingMoves(game, root) : cuts[i] \in Int
    BY <1>1, <2>1
  <2> QED BY <2>1, <2>2, TeamLine
<1> QED BY <1>2, <1>3, <1>4, <1>5

LEMMA MateProbeIs ==
    ASSUME SearchAssumption, SearchInv, MateProbe
    PROVE  /\ pc = "mate" /\ ~Ended(game, root)
           /\ \/ pc' = "iterate" /\ result' = result
              \/ \E line : /\ pc' = "done" /\ IsMate(line) /\ ~Restricted
                           /\ result' = [best |-> line[1], score |-> MateScore - Len(line),
                                         depth |-> MateSearchMaxPly, mate |-> TRUE, pv |-> line]
<1>1. pc = "mate"
  BY DEF MateProbe
<1>2. ~Ended(game, root)
  BY <1>1 DEF SearchInv, StartInv, Searching
<1>3. PICK cut \in IF stopped THEN {0} ELSE Cuts \cup {Never} :
      \E line \in IF Probes THEN ProbeLine(cut) ELSE {<<>>} :
          IF line = <<>>
          THEN pc' = "iterate" /\ UNCHANGED result
          ELSE /\ pc' = "done"
               /\ result' = [best |-> line[1], score |-> MateScore - Len(line),
                             depth |-> MateSearchMaxPly, mate |-> TRUE, pv |-> line]
  BY DEF MateProbe
<1>4. cut \in Int
  <2>1. Cuts \subseteq Nat /\ Never \in Int
    BY AssumptionIs DEF Never
  <2> QED BY <1>3, <2>1
<1>5. PICK line \in IF Probes THEN ProbeLine(cut) ELSE {<<>>} :
          IF line = <<>>
          THEN pc' = "iterate" /\ UNCHANGED result
          ELSE /\ pc' = "done"
               /\ result' = [best |-> line[1], score |-> MateScore - Len(line),
                             depth |-> MateSearchMaxPly, mate |-> TRUE, pv |-> line]
  BY <1>3
<1>6. CASE line = <<>>
  BY <1>1, <1>2, <1>5, <1>6
<1>7. CASE line # <<>>
  <2>1. Probes /\ line \in ProbeLine(cut)
    BY <1>5, <1>7
  <2>2. IsMate(line)
    BY <1>2, <1>4, <1>7, <2>1, ProbedLine
  <2> QED BY <1>1, <1>2, <1>5, <1>7, <2>1, <2>2 DEF Probes
<1> QED BY <1>6, <1>7

LEMMA UnrestrictedIs ==
    ASSUME SearchAssumption, SearchInv, ~Restricted
    PROVE  Allowed = ToSet(game.moves[root])
<1>1. ToSet(game.moves[root]) \subseteq Positions(game)
  BY InvIs, MovesAre
<1> QED BY <1>1, AllowedAre DEF Restricted

LEMMA MateProbeAnswers == SearchAssumption /\ SearchInv /\ AnswerInv /\ MateProbe => AnswerInv'
<1> SUFFICES ASSUME SearchAssumption, SearchInv, AnswerInv, MateProbe PROVE AnswerInv'
  OBVIOUS
<1>1. game' = game /\ root' = root /\ options' = options /\ fallback' = fallback
  BY DEF MateProbe
<1>2. Allowed' = Allowed /\ Moves(game)' = Moves(game)
  BY <1>1 DEF Allowed, Moves, Positions
<1>3. pc = "mate" /\ fallback \in Allowed /\ result.best \in Allowed \cup {NoMove} /\ IsResult(result)
  BY MateProbeIs DEF AnswerInv, Searching
<1>4. CASE pc' = "iterate" /\ result' = result
  BY <1>1, <1>2, <1>3, <1>4 DEF AnswerInv
<1>5. CASE \E line : /\ pc' = "done" /\ IsMate(line) /\ ~Restricted
                     /\ result' = [best |-> line[1], score |-> MateScore - Len(line),
                                   depth |-> MateSearchMaxPly, mate |-> TRUE, pv |-> line]
  <2>1. PICK line : /\ pc' = "done" /\ IsMate(line) /\ ~Restricted /\ result'.best = line[1]
    BY <1>5
  <2>2. line[1] \in ToSet(game.moves[root])
    <3>1. line \in Seq(Positions(game)) /\ line # <<>> /\ LegalLine(game, root, line)
      BY <2>1 DEF IsMate, Forced
    <3>2. 1 \in 1 .. Len(line)
      BY <3>1
    <3> QED BY <3>1, <3>2 DEF LegalLine
  <2>3. line[1] \in Allowed /\ Allowed \subseteq Moves(game)
    BY <2>1, <2>2, UnrestrictedIs, AllowedAre
  <2>4. pc' = "done" /\ ~Searching'
    BY <2>1 DEF Searching
  <2> QED BY <1>2, <2>1, <2>3, <2>4 DEF AnswerInv
<1> QED BY <1>4, <1>5, MateProbeIs

LEMMA AnsweredIs ==
    ASSUME SearchAssumption, SearchInv, AnswerInv, Searching, Answered
    PROVE  result'.best \in Allowed /\ result'.best \in Moves(game)
<1>1. /\ fallback \in Allowed /\ result.best \in Allowed \cup {NoMove} /\ Allowed \subseteq Moves(game)
      /\ IsResult(result)
  BY AllowedAre DEF AnswerInv
<1>2. CASE result.best = NoMove
  <2>1. result' = [result EXCEPT !.best = fallback]
    BY <1>2 DEF Answered
  <2> QED BY <1>1, <2>1 DEF IsResult
<1>3. CASE result.best # NoMove
  BY <1>1, <1>3 DEF Answered
<1> QED BY <1>2, <1>3

LEMMA NextIterationAnswers == SearchAssumption /\ SearchInv /\ AnswerInv /\ NextIteration => AnswerInv'
<1> SUFFICES ASSUME SearchAssumption, SearchInv, AnswerInv, NextIteration PROVE AnswerInv'
  OBVIOUS
<1>1. pc = "iterate" /\ Searching /\ game' = game /\ root' = root /\ options' = options /\ fallback' = fallback
  BY DEF NextIteration, Searching
<1>2. Allowed' = Allowed /\ Moves(game)' = Moves(game)
  BY <1>1 DEF Allowed, Moves, Positions
<1>3. (pc' = "done" /\ Answered) \/ (pc' = "pass" /\ result' = result)
  BY DEF NextIteration
<1>4. CASE pc' = "done" /\ Answered
  BY <1>1, <1>2, <1>4, AnsweredIs DEF AnswerInv, Searching
<1>5. CASE pc' = "pass" /\ result' = result
  BY <1>1, <1>2, <1>5 DEF AnswerInv
<1> QED BY <1>3, <1>4, <1>5

-----------------------------------------------------------------------------
(* The pass. *)
LEMMA FirstBest ==
    ASSUME NEW sc, NEW n \in Nat, AreScores(sc, n), DOMAIN sc # {}
    PROVE  /\ BestOf(sc) \in DOMAIN sc /\ \A j \in DOMAIN sc : sc[j].score <= sc[BestOf(sc)].score
           /\ Leads(sc, BestOf(sc))
<1>1. DOMAIN sc \subseteq 1 .. n /\ \A i \in DOMAIN sc : sc[i].score \in Int
  BY DEF AreScores
<1> DEFINE T == {i \in DOMAIN sc : \A j \in DOMAIN sc : sc[j].score <= sc[i].score}
<1>2. PICK k \in DOMAIN sc : TRUE
  OBVIOUS
<1> DEFINE f == [i \in 1 .. n |-> IF i \in DOMAIN sc THEN sc[i].score ELSE sc[k].score]
           S == {f[i] : i \in 1 .. n}
<1>3. f \in [1 .. n -> Int] /\ n > 0
  BY <1>1, <1>2
<1>4. Max(S) \in S /\ \A x \in S : x <= Max(S)
  <2> HIDE DEF f
  <2> QED BY <1>3, LargestOf
<1>5. PICK i \in 1 .. n : Max(S) = f[i]
  <2> HIDE DEF f
  <2> QED BY <1>4
<1>6. \A j \in DOMAIN sc : f[j] = sc[j].score /\ f[j] \in S
  BY <1>1
<1>7. PICK l \in DOMAIN sc : f[i] = sc[l].score
  BY <1>2
<1>8. l \in T
  <2> HIDE DEF f, S
  <2> QED BY <1>4, <1>5, <1>6, <1>7
<1>9. T \subseteq Nat
  BY <1>1
<1>10. PICK b \in T : \A j \in T : b <= j
  <2> HIDE DEF T
  <2> QED BY <1>8, <1>9, Kept!LeastElement
<1> DEFINE First(c) == /\ \A j \in DOMAIN sc : sc[j].score <= sc[c].score
                       /\ \A j \in DOMAIN sc : sc[j].score = sc[c].score => c <= j
<1>11. b \in DOMAIN sc /\ First(b)
  <2>1. \A j \in DOMAIN sc : sc[j].score = sc[b].score => j \in T
    BY <1>10
  <2> QED BY <1>10, <2>1
<1>12. BestOf(sc) = CHOOSE c \in DOMAIN sc : First(c)
  BY DEF BestOf
<1> HIDE DEF First
<1>13. BestOf(sc) \in DOMAIN sc /\ First(BestOf(sc))
  BY <1>11, <1>12
<1>14. PICK best : best = BestOf(sc)
  OBVIOUS
<1>15. /\ best \in DOMAIN sc /\ \A j \in DOMAIN sc : sc[j].score <= sc[best].score
       /\ \A j \in DOMAIN sc : sc[j].score = sc[best].score => best <= j
  BY <1>13, <1>14 DEF First
<1>16. Leads(sc, best)
  <2> SUFFICES ASSUME NEW j \in DOMAIN sc, j < best PROVE sc[j].score < sc[best].score
    BY DEF Leads
  <2>1. j \in Nat /\ best \in Nat /\ ~(best <= j)
    BY <1>1, <1>15
  <2> QED BY <1>1, <1>15, <2>1
<1> QED BY <1>14, <1>15, <1>16

LEMMA SearchStarts ==
    ASSUME SearchAssumption, SearchInv, NEW cut \in Int
    PROVE  Search(cut) \in Searches(game) /\ TableTrue(game, Search(cut).tt) /\ Search(cut).tt = tt
<1>1. tt \in Tables(game) /\ generation \in Nat /\ TableTrue(game, tt)
  BY InvIs
<1>2. PICK s : s = Search(cut)
  OBVIOUS
<1>3. s \in Searches(game) /\ s.tt = tt
  BY <1>1, <1>2 DEF Search, Searches
<1> QED BY <1>1, <1>2, <1>3

LEMMA CutsAre ==
    ASSUME SearchAssumption, NEW cut \in CutsNow
    PROVE  cut \in Int
BY AssumptionIs DEF CutsNow, Never

(* A score above the window's lower end, and above those of the moves before
   where one thread narrows the window, is above a. *)
Opens(a, i) ==
    \A x \in Int : x > window[1] /\ (Narrows => \A j \in DOMAIN scores : j < i => scores[j].score < x) => x > a

LEMMA PassIsSet ==
    ASSUME SearchAssumption, SearchInv, pc = "pass"
    PROVE  /\ WindowIs(window) /\ moves \in Seq(Positions(game)) /\ ToSet(moves) = Allowed /\ Len(moves) \in Nat
           /\ Len(moves) > 0 /\ next \in 1 .. (Len(moves) + 1)
           /\ \A i \in 1 .. Len(moves) : moves[i] \in Allowed /\ moves[i] \in Positions(game)
                                         /\ moves[i] \in ToSet(game.moves[root])
           /\ AreScores(scores, next - 1) /\ ScoresClaim(scores, window, depth, moves)
           /\ depth \in 1 .. MaxDepth /\ depth <= options.maxDepth /\ ~Ended(game, root) /\ result.score \in Int
           /\ busy \in [Workers -> Nat] /\ \A w \in Workers : busy[w] < next
<1>1. /\ WindowIs(window) /\ moves \in Seq(Positions(game)) /\ ToSet(moves) = Allowed
      /\ next \in 1 .. (Len(moves) + 1)
      /\ AreScores(scores, next - 1) /\ ScoresClaim(scores, window, depth, moves)
      /\ \A w \in Workers : busy[w] < next
  BY DEF SearchInv, PassInv
<1>2. /\ ~Ended(game, root) /\ AllowedMoves(game, root, options) # <<>> /\ result.score \in Int
      /\ busy \in [Workers -> Nat]
  BY DEF SearchInv, StartInv, Searching, BusyInv
<1>3. depth \in 1 .. MaxDepth /\ depth <= options.maxDepth
  <2>1. depth \in Nat /\ depth > 0 /\ depth <= options.maxDepth
    BY DEF SearchInv, DepthInv
  <2>2. options.maxDepth \in 1 .. MaxDepth /\ MaxDepth \in Nat
    BY InvIs DEF Numbers
  <2> QED BY <2>1, <2>2
<1>4. Allowed # {} /\ Allowed \subseteq Positions(game) /\ Allowed \subseteq ToSet(game.moves[root])
  BY <1>2, AllowedAre
<1>5. Len(moves) \in Nat /\ ToSet(moves) = {moves[i] : i \in 1 .. Len(moves)}
  BY <1>1, SMTT(30) DEF ToSet
<1>6. Len(moves) > 0
  <2>1. 1 .. 0 = {}
    OBVIOUS
  <2> QED BY <1>1, <1>4, <1>5, <2>1
<1> QED BY <1>1, <1>2, <1>3, <1>4, <1>5, <1>6

LEMMA TookKeeps ==
    ASSUME SearchAssumption, SearchInv, pc = "pass", NEW i, i \in 1 .. Len(moves), NEW n \in Nat, next - 1 <= n, i <= n,
           Alone => i = next,
           NEW r, r \in Searches(game), TableTrue(game, r.tt), NEW a, a \in Int, Opens(a, i),
           MoveClaims(game, root, depth, 0, moves[i], a, window[2], r), Took(i, r)
    PROVE  /\ tt' \in Tables(game) /\ TableTrue(game, tt') /\ AreScores(scores', n)
           /\ ScoresClaim(scores', window, depth, moves)
           /\ ~aborted' => ~aborted /\ DOMAIN scores' = {i} \cup DOMAIN scores
<1>1. /\ AreScores(scores, next - 1) /\ ScoresClaim(scores, window, depth, moves) /\ next \in Nat
  BY PassIsSet, SMTT(30)
<1>2. DOMAIN scores \subseteq 1 .. (next - 1) /\ \A j \in DOMAIN scores : scores[j].score \in Int
  BY <1>1 DEF AreScores
<1>3. tt' = r.tt /\ tt' \in Tables(game) /\ TableTrue(game, tt') /\ r.score \in Int
  BY SearchType DEF Took
<1>4. aborted' = (aborted \/ r.aborted)
  BY DEF Took
<1>5. CASE r.aborted
  <2>1. scores' = scores /\ aborted'
    BY <1>4, <1>5 DEF Took
  <2>2. AreScores(scores, n)
    BY <1>1, <1>2, SMTT(30) DEF AreScores
  <2> QED BY <1>1, <1>3, <2>1, <2>2
<1>6. CASE ~r.aborted
  <2>1. PICK e : e.score = r.score /\ scores' = WithScore(scores, i, e)
    <3>1. PICK e : e = [score |-> r.score, pv |-> IF Alone /\ options.multiPV > 1 THEN PvOf(moves[i], r.tt) ELSE <<>>]
      OBVIOUS
    <3>2. e.score = r.score
      BY <3>1
    <3>3. scores' = WithScore(scores, i, e)
      BY <1>6, <3>1 DEF Took
    <3> QED BY <3>2, <3>3
  <2>2. PICK sc : sc = scores'
    OBVIOUS
  <2>3. /\ DOMAIN sc = {i} \cup DOMAIN scores /\ sc[i] = e
        /\ \A j \in DOMAIN scores : j # i => sc[j] = scores[j]
        /\ sc = [j \in DOMAIN sc |-> sc[j]]
    BY <2>1, <2>2 DEF WithScore
  <2>4. sc[i].score = r.score
    BY <2>1, <2>3
  <2>5. AreScores(sc, n)
    <3>1. \A j \in DOMAIN sc : sc[j].score \in Int
      BY <1>2, <1>3, <2>3, <2>4
    <3>2. DOMAIN sc \subseteq 1 .. n
      BY <1>1, <1>2, <2>3, SMTT(30)
    <3> QED BY <2>3, <3>1, <3>2 DEF AreScores
  <2>6. ASSUME NEW j \in DOMAIN sc
        PROVE  /\ sc[j].score < window[2] => MoveAbove(game, root, depth, 0, moves[j], sc[j].score)
               /\ sc[j].score > window[1] /\ (Narrows => Leads(sc, j)) =>
                     MoveBelow(game, root, depth, 0, moves[j], sc[j].score)
    <3>1. CASE j = i
      <4>1. /\ r.score > a => MoveBelow(game, root, depth, 0, moves[i], r.score)
            /\ r.score < window[2] => MoveAbove(game, root, depth, 0, moves[i], r.score)
        BY <1>6 DEF MoveClaims
      <4>2. r.score > window[1] /\ (Narrows => Leads(sc, i)) => r.score > a
        <5> SUFFICES ASSUME r.score > window[1], Narrows => Leads(sc, i) PROVE r.score > a
          OBVIOUS
        <5>1. Narrows => \A k \in DOMAIN scores : k < i => scores[k].score < r.score
          <6> SUFFICES ASSUME Narrows, NEW k \in DOMAIN scores, k < i PROVE scores[k].score < r.score
            OBVIOUS
          <6>1. k \in DOMAIN sc /\ sc[k] = scores[k] /\ sc[k].score < sc[i].score
            BY <1>2, <2>3 DEF Leads
          <6> QED BY <2>4, <6>1
        <5> QED BY <1>3, <5>1 DEF Opens
      <4> QED BY <2>4, <3>1, <4>1, <4>2
    <3>2. CASE j # i
      <4>1. j \in DOMAIN scores /\ sc[j] = scores[j]
        BY <2>3, <3>2
      <4>2. Narrows /\ Leads(sc, j) => Leads(scores, j)
        <5> SUFFICES ASSUME Narrows, Leads(sc, j), NEW k \in DOMAIN scores, k < j PROVE scores[k].score < scores[j].score
          BY DEF Leads
        <5>1. k # i
          BY <1>2 DEF Narrows
        <5>2. sc[k] = scores[k] /\ sc[k].score < sc[j].score
          BY <2>3, <5>1 DEF Leads
        <5> QED BY <4>1, <5>2
      <4> QED BY <1>1, <4>1, <4>2 DEF ScoresClaim
    <3> QED BY <3>1, <3>2
  <2>7. ScoresClaim(sc, window, depth, moves)
    BY <2>6 DEF ScoresClaim
  <2> QED BY <1>3, <1>4, <2>2, <2>3, <2>5, <2>7
<1> QED BY <1>5, <1>6

LEMMA RootMoveSound ==
    ASSUME SearchAssumption, SearchInv, pc = "pass", NEW i, i \in 1 .. Len(moves),
           NEW a, NEW b, a \in Int, b \in Int, a < b, InScale(a, b),
           NEW s, s \in Searches(game), TableTrue(game, s.tt), NEW r, r = ChildScore(Node, i, depth, a, b, s)
    PROVE  /\ r \in Searches(game) /\ TableTrue(game, r.tt) /\ r.score \in Int
           /\ MoveClaims(game, root, depth, 0, moves[i], a, b, r)
<1>1. PICK m : m = moves[i]
  OBVIOUS
<1>2. PICK d : d = depth
  OBVIOUS
<1>3. m \in ToSet(game.moves[root]) /\ d \in 1 .. MaxDepth /\ ~Ended(game, root)
  BY <1>1, <1>2, PassIsSet
<1>4. r = Negated(Negamax(game)[Call(m, d - 1, 0 + 1, -b, -a, s)])
  BY <1>1, <1>2 DEF ChildScore, Node
<1>5. game \in Games /\ root \in Positions(game)
  BY InvIs
<1>6. /\ r \in Searches(game) /\ TableTrue(game, r.tt) /\ r.score \in Int
      /\ MoveClaims(game, root, d, 0, m, a, b, r)
  BY <1>3, <1>4, <1>5, RootChild
<1> QED BY <1>1, <1>2, <1>6

LEMMA RootMoveSearched ==
    ASSUME SearchAssumption, SearchInv, pc = "pass", NEW i, i \in 1 .. Len(moves),
           NEW s, s \in Searches(game), TableTrue(game, s.tt), NEW r, r = SearchRootMove(i, s)
    PROVE  /\ r \in Searches(game) /\ TableTrue(game, r.tt) /\ r.score \in Int
           /\ MoveClaims(game, root, depth, 0, moves[i], window[1], window[2], r)
<1>1. CASE Stops(s)
  <2>1. r = Abort(s, 0) /\ 0 \in Int
    BY <1>1 DEF SearchRootMove
  <2>2. r \in Searches(game) /\ r.tt = s.tt /\ r.aborted
    BY <2>1, AbortIs
  <2> QED BY <2>2, SearchType DEF MoveClaims
<1>2. CASE ~Stops(s)
  <2>1. PICK asked : asked = Asked(s)
    OBVIOUS
  <2>2. asked \in Searches(game) /\ TableTrue(game, asked.tt)
    BY <2>1, AskedIs
  <2>3. PICK a, b : a = window[1] /\ b = window[2]
    OBVIOUS
  <2>4. a \in Int /\ b \in Int /\ a < b /\ InScale(a, b)
    BY <2>3, PassIsSet DEF WindowIs
  <2>5. r = ChildScore(Node, i, depth, a, b, asked)
    BY <1>2, <2>1, <2>3 DEF SearchRootMove
  <2>6. /\ r \in Searches(game) /\ TableTrue(game, r.tt) /\ r.score \in Int
        /\ MoveClaims(game, root, depth, 0, moves[i], a, b, r)
    BY <2>2, <2>4, <2>5, RootMoveSound
  <2> QED BY <2>3, <2>6
<1> QED BY <1>1, <1>2

LEMMA AlphaIs ==
    ASSUME SearchAssumption, SearchInv, pc = "pass"
    PROVE  /\ Alpha \in Int /\ Alpha >= window[1] /\ window[1] \in Int /\ window[2] \in Int
           /\ InScale(window[1], window[2])
           /\ Alone => Opens(Alpha, next)
           /\ Opens(window[1], next)
           /\ options.multiPV > 1 \/ ~Alone => Alpha = window[1]
           /\ options.multiPV = 1 /\ Alone /\ DOMAIN scores # {} => Alpha = Larger(window[1], BestScore)
<1>1. /\ window[1] \in Int /\ window[2] \in Int /\ InScale(window[1], window[2])
      /\ AreScores(scores, next - 1) /\ next \in Nat /\ next - 1 \in Nat
  <2>1. WindowIs(window) /\ AreScores(scores, next - 1) /\ next \in Nat /\ next - 1 \in Nat
    BY PassIsSet, SMTT(30)
  <2> QED BY <2>1 DEF WindowIs
<1>2. Opens(window[1], next)
  BY DEF Opens
<1>3. CASE options.multiPV > 1 \/ ~Alone \/ scores = <<>>
  <2>1. Alpha = window[1]
    BY <1>3 DEF Alpha
  <2>2. options.multiPV = 1 /\ Alone => DOMAIN scores = {}
    BY <1>3
  <2> QED BY <1>1, <1>2, <2>1, <2>2
<1>4. CASE ~(options.multiPV > 1 \/ ~Alone \/ scores = <<>>)
  <2>1. Alpha = Larger(window[1], BestScore)
    BY <1>4 DEF Alpha, BestScore
  <2>2. PICK sc : sc = scores
    OBVIOUS
  <2>3. DOMAIN sc # {}
    <3>1. sc = [i \in DOMAIN sc |-> sc[i]]
      BY <1>1, <2>2 DEF AreScores
    <3>2. sc # <<>>
      BY <1>4, <2>2
    <3>3. <<>> = [i \in {} |-> sc[i]]
      OBVIOUS
    <3> QED BY <3>1, <3>2, <3>3
  <2>4. BestOf(sc) \in DOMAIN sc
    BY <1>1, <2>2, <2>3, FirstBest
  <2>5. PICK best \in DOMAIN sc : best = BestOf(sc)
    BY <2>4
  <2>6. BestScore = sc[best].score /\ sc[best].score \in Int /\ best < next
    BY <1>1, <2>2, <2>5 DEF BestScore, AreScores
  <2>7. Alpha \in Int /\ Alpha >= window[1] /\ (Alpha = window[1] \/ Alpha = sc[best].score)
    BY <1>1, <2>1, <2>6 DEF Larger
  <2>8. Alone => Opens(Alpha, next)
    <3>1. \A x \in Int : (\A j \in DOMAIN scores : j < next => scores[j].score < x) => sc[best].score < x
      BY <2>2, <2>6
    <3>2. Alone => Narrows
      <4>1. PICK count : count = options.multiPV
        OBVIOUS
      <4>2. count \in Nat \ {0}
        BY <4>1, InvIs
      <4>3. Alone => ~(count > 1)
        BY <1>4, <4>1
      <4>4. Alone => count = 1
        BY <4>2, <4>3
      <4> QED BY <4>1, <4>4 DEF Narrows
    <3> QED BY <2>7, <3>1, <3>2 DEF Opens
  <2> QED BY <1>1, <1>2, <1>4, <2>1, <2>7, <2>8
<1> QED BY <1>3, <1>4

LEMMA InOrderSound ==
    ASSUME SearchAssumption, SearchInv, pc = "pass", Alone, next <= Len(moves), Alpha < window[2] \/ options.multiPV > 1,
           NEW s, s \in Searches(game), TableTrue(game, s.tt), NEW r, r = SearchInOrder(next, s)
    PROVE  /\ r \in Searches(game) /\ TableTrue(game, r.tt) /\ r.score \in Int
           /\ \E a \in Int : Opens(a, next) /\ MoveClaims(game, root, depth, 0, moves[next], a, window[2], r)
<1>1. PICK i : i = next
  OBVIOUS
<1>2. i \in 1 .. Len(moves) /\ options.multiPV \in Nat \ {0}
  BY <1>1, PassIsSet, InvIs, SMTT(30)
<1>3. CASE options.multiPV > 1 \/ i = 1
  <2>1. r = SearchRootMove(i, s)
    BY <1>1, <1>3 DEF SearchInOrder, Reexamined
  <2>2. /\ r \in Searches(game) /\ TableTrue(game, r.tt) /\ r.score \in Int
        /\ MoveClaims(game, root, depth, 0, moves[i], window[1], window[2], r)
    BY <1>2, <2>1, RootMoveSearched
  <2> QED BY <1>1, <2>2, AlphaIs
<1>4. PICK alpha, beta : alpha = Alpha /\ beta = window[2]
  OBVIOUS
<1>5. alpha \in Int /\ beta \in Int /\ Opens(alpha, i) /\ InScale(window[1], beta) /\ alpha >= window[1]
      /\ window[1] \in Int
  BY <1>1, <1>4, AlphaIs
<1>6. CASE ~(options.multiPV > 1 \/ i = 1) /\ Stops(s)
  <2>1. r = Abort(s, 0) /\ 0 \in Int
    BY <1>1, <1>6 DEF SearchInOrder, Reexamined
  <2>2. r \in Searches(game) /\ r.tt = s.tt /\ r.aborted
    BY <2>1, AbortIs
  <2>3. r.score \in Int /\ MoveClaims(game, root, depth, 0, moves[i], alpha, beta, r)
    BY <2>2, SearchType DEF MoveClaims
  <2> QED BY <1>1, <1>4, <1>5, <2>2, <2>3
<1>7. CASE ~(options.multiPV > 1 \/ i = 1) /\ ~Stops(s)
  <2>1. PICK asked : asked = Asked(s)
    OBVIOUS
  <2>2. asked \in Searches(game) /\ TableTrue(game, asked.tt)
    BY <2>1, AskedIs
  <2>3. PICK above : above = alpha + 1
    OBVIOUS
  <2>4. above \in Int /\ alpha < above /\ alpha < beta /\ InScale(alpha, above) /\ InScale(alpha, beta)
    <3>1. alpha < beta
      BY <1>4, <1>7
    <3>2. PICK low : low = window[1]
      OBVIOUS
    <3>3. low \in Int /\ alpha >= low /\ InScale(low, beta)
      BY <1>5, <3>2
    <3> QED BY <1>5, <2>3, <3>1, <3>3 DEF InScale, Infinity
  <2>5. PICK empty : empty = ChildScore(Node, i, depth, alpha, above, asked)
    OBVIOUS
  <2>6. /\ empty \in Searches(game) /\ TableTrue(game, empty.tt) /\ empty.score \in Int
        /\ MoveClaims(game, root, depth, 0, moves[i], alpha, above, empty)
    BY <1>2, <1>5, <2>2, <2>4, <2>5, RootMoveSound
  <2>7. r = IF ~empty.aborted /\ empty.score > alpha /\ empty.score < beta
            THEN ChildScore(Node, i, depth, alpha, beta, empty) ELSE empty
    BY <1>1, <1>4, <1>7, <2>1, <2>3, <2>5 DEF SearchInOrder, Reexamined
  <2>8. CASE ~empty.aborted /\ empty.score > alpha /\ empty.score < beta
    <3>1. r = ChildScore(Node, i, depth, alpha, beta, empty)
      BY <2>7, <2>8
    <3>2. /\ r \in Searches(game) /\ TableTrue(game, r.tt) /\ r.score \in Int
          /\ MoveClaims(game, root, depth, 0, moves[i], alpha, beta, r)
      BY <1>2, <1>5, <2>4, <2>6, <3>1, RootMoveSound
    <3> QED BY <1>1, <1>4, <1>5, <3>2
  <2>9. CASE ~(~empty.aborted /\ empty.score > alpha /\ empty.score < beta)
    <3>1. r = empty
      BY <2>7, <2>9
    <3>2. MoveClaims(game, root, depth, 0, moves[i], alpha, beta, empty)
      BY <1>5, <2>3, <2>6, <2>9 DEF MoveClaims
    <3> QED BY <1>1, <1>4, <1>5, <2>6, <3>1, <3>2
  <2> QED BY <2>8, <2>9
<1> QED BY <1>3, <1>6, <1>7

(* A step that searches a move of the pass. *)
LEMMA PassGoesOn ==
    ASSUME SearchAssumption, SearchInv, pc = "pass",
           UNCHANGED <<game, root, generation, options, pc, depth, window, moves, result>>,
           tt' \in Tables(game), TableTrue(game, tt'), next' \in 1 .. (Len(moves) + 1),
           busy' \in [Workers -> Nat], Alone => \A w \in Workers : busy'[w] = None,
           \A w \in Workers : busy'[w] < next',
           AreScores(scores', next' - 1), ScoresClaim(scores', window, depth, moves),
           ~aborted' => \A i \in 1 .. (next' - 1) : i \in DOMAIN scores' \/ \E w \in Workers : busy'[w] = i
    PROVE  SearchInv'
<1>1. GameInv' /\ TableTrue(game, tt)'
  BY InvIs DEF GameInv
<1>2. OptionsInv'
  BY DEF SearchInv, OptionsInv
<1>3. StartInv'
  <2>1. ~Ended(game, root) /\ AllowedMoves(game, root, options) # <<>> /\ result.score \in Int
    BY DEF SearchInv, StartInv, Searching
  <2> QED BY <2>1 DEF StartInv, Ended, Searching
<1>4. DepthInv'
  BY DEF SearchInv, DepthInv
<1>5. BusyInv'
  BY DEF BusyInv, Workers, Alone
<1>6. ScoresClaim(scores, window, depth, moves)'
  BY DEF ScoresClaim, Narrows, Alone
<1>7. WindowIs(window) /\ moves \in Seq(Positions(game)) /\ ToSet(moves) = Allowed
  BY PassIsSet
<1>8. PassInv'
  BY <1>6, <1>7 DEF PassInv, Workers, Allowed
<1> QED BY <1>1, <1>2, <1>3, <1>4, <1>5, <1>8 DEF SearchInv

LEMMA SearchedSoFar ==
    ASSUME SearchAssumption, SearchInv, pc = "pass", ~aborted
    PROVE  \A i \in 1 .. (next - 1) : i \in DOMAIN scores \/ \E w \in Workers : busy[w] = i
BY DEF SearchInv, PassInv

LEMMA NextMoveKeeps == SearchAssumption /\ SearchInv /\ NextMove => SearchInv'
<1> SUFFICES ASSUME SearchAssumption, SearchInv, NextMove PROVE SearchInv'
  OBVIOUS
<1>1. /\ pc = "pass" /\ Alone /\ ~aborted /\ next <= Len(moves) /\ (Alpha < window[2] \/ options.multiPV > 1)
      /\ next' = next + 1
      /\ UNCHANGED <<game, root, generation, options, pc, depth, window, moves, busy, result>>
  BY DEF NextMove
<1>2. PICK cut \in CutsNow : Took(next, SearchInOrder(next, Search(cut)))
  BY DEF NextMove
<1>3. PICK s : s = Search(cut)
  OBVIOUS
<1>4. s \in Searches(game) /\ TableTrue(game, s.tt)
  BY <1>3, CutsAre, SearchStarts
<1>5. PICK r : r = SearchInOrder(next, s)
  OBVIOUS
<1>6. PICK i : i = next
  OBVIOUS
<1>7. /\ r \in Searches(game) /\ TableTrue(game, r.tt) /\ r.score \in Int
      /\ \E a \in Int : Opens(a, i) /\ MoveClaims(game, root, depth, 0, moves[i], a, window[2], r)
  BY <1>1, <1>4, <1>5, <1>6, InOrderSound
<1>8. PICK a \in Int : Opens(a, i) /\ MoveClaims(game, root, depth, 0, moves[i], a, window[2], r)
  BY <1>7
<1>9. /\ next \in 1 .. (Len(moves) + 1) /\ Len(moves) \in Nat /\ busy \in [Workers -> Nat]
      /\ \A w \in Workers : busy[w] < next
  BY <1>1, PassIsSet
<1>10. i \in 1 .. Len(moves) /\ i \in Nat /\ next - 1 <= i /\ i <= i /\ Took(i, r)
  BY <1>1, <1>2, <1>3, <1>5, <1>6, <1>9
<1>11. /\ tt' \in Tables(game) /\ TableTrue(game, tt') /\ AreScores(scores', i)
       /\ ScoresClaim(scores', window, depth, moves)
       /\ ~aborted' => ~aborted /\ DOMAIN scores' = {i} \cup DOMAIN scores
  BY <1>1, <1>6, <1>7, <1>8, <1>10, TookKeeps
<1>12. next' \in 1 .. (Len(moves) + 1) /\ next' - 1 = i /\ \A w \in Workers : busy'[w] < next'
  <2>1. next' \in 1 .. (Len(moves) + 1) /\ next' - 1 = i
    <3>1. PICK n : n = Len(moves)
      OBVIOUS
    <3>2. next' = i + 1 /\ i \in 1 .. n /\ n \in Nat
      BY <1>1, <1>6, <1>9, <1>10, <3>1
    <3>3. next' \in 1 .. (n + 1) /\ next' - 1 = i
      BY <3>2
    <3> QED BY <3>1, <3>3
  <2>2. ASSUME NEW w \in Workers PROVE busy'[w] < next'
    <3>1. busy'[w] = busy[w] /\ busy[w] \in Nat /\ busy[w] < next
      BY <1>1, <1>9
    <3> QED BY <1>1, <1>9, <3>1
  <2> QED BY <2>1, <2>2
<1>13. \A w \in Workers : busy[w] = None
  BY <1>1 DEF SearchInv, BusyInv, Searching
<1>14. ~aborted' => \A j \in 1 .. (next' - 1) : j \in DOMAIN scores' \/ \E w \in Workers : busy'[w] = j
  <2> SUFFICES ASSUME ~aborted', NEW j \in 1 .. (next' - 1) PROVE j \in DOMAIN scores'
    OBVIOUS
  <2>1. j = i \/ j \in 1 .. (next - 1)
    <3>1. j \in 1 .. i /\ i \in Nat /\ next - 1 = i - 1
      BY <1>6, <1>9, <1>10, <1>12
    <3> QED BY <3>1
  <2>2. j \in 1 .. (next - 1) => j \in DOMAIN scores
    <3>1. j \in 1 .. (next - 1) => j # None
      BY DEF None
    <3> QED BY <1>1, <1>13, <3>1, SearchedSoFar
  <2> QED BY <1>11, <2>1, <2>2
<1>15. AreScores(scores', next' - 1)
  BY <1>11, <1>12
<1>16. busy' \in [Workers -> Nat] /\ (Alone => \A w \in Workers : busy'[w] = None)
  BY <1>1, <1>9, <1>13
<1> QED BY <1>1, <1>11, <1>12, <1>14, <1>15, <1>16, PassGoesOn

LEMMA TakeMoveKeeps == SearchAssumption /\ SearchInv /\ (\E w \in Workers : TakeMove(w)) => SearchInv'
<1> SUFFICES ASSUME SearchAssumption, SearchInv, NEW v \in Workers, TakeMove(v) PROVE SearchInv'
  OBVIOUS
<1>1. /\ pc = "pass" /\ ~Alone /\ next <= Len(moves) /\ busy[v] = None
      /\ busy' = [busy EXCEPT ![v] = next] /\ next' = next + 1
      /\ UNCHANGED <<game, root, tt, generation, options, pc, depth, window, moves, scores, aborted, result>>
  BY DEF TakeMove
<1>2. /\ next \in 1 .. (Len(moves) + 1) /\ Len(moves) \in Nat /\ busy \in [Workers -> Nat]
      /\ \A w \in Workers : busy[w] < next
      /\ AreScores(scores, next - 1) /\ ScoresClaim(scores, window, depth, moves)
  BY <1>1, PassIsSet
<1>3. /\ next' \in 1 .. (Len(moves) + 1) /\ busy' \in [Workers -> Nat] /\ \A w \in Workers : busy'[w] < next'
      /\ busy'[v] = next /\ \A w \in Workers : w # v => busy'[w] = busy[w]
  <2>1. /\ next' \in 1 .. (Len(moves) + 1) /\ busy' \in [Workers -> Nat]
        /\ busy'[v] = next /\ \A w \in Workers : w # v => busy'[w] = busy[w]
    BY <1>1, <1>2, SMTT(30)
  <2>2. ASSUME NEW w \in Workers PROVE busy'[w] < next'
    <3>1. busy[w] \in Nat /\ busy[w] < next /\ (busy'[w] = next \/ busy'[w] = busy[w])
      BY <1>2, <2>1
    <3> QED BY <1>1, <1>2, <3>1, SMTT(30)
  <2> QED BY <2>1, <2>2
<1>4. AreScores(scores', next' - 1)
  <2>1. next' - 1 = next /\ DOMAIN scores \subseteq 1 .. next
    BY <1>1, <1>2, SMTT(30) DEF AreScores
  <2> QED BY <1>1, <1>2, <2>1 DEF AreScores
<1>5. ~aborted' => \A i \in 1 .. (next' - 1) : i \in DOMAIN scores' \/ \E w \in Workers : busy'[w] = i
  <2> SUFFICES ASSUME ~aborted, NEW i \in 1 .. (next' - 1), i \notin DOMAIN scores PROVE \E w \in Workers : busy'[w] = i
    BY <1>1
  <2>1. i = next \/ i \in 1 .. (next - 1)
    BY <1>1, <1>2, SMTT(30)
  <2>2. CASE i = next
    BY <1>3, <2>2
  <2>3. CASE i \in 1 .. (next - 1)
    <3>1. PICK w \in Workers : busy[w] = i
      BY <1>1, <2>3, SearchedSoFar
    <3>2. w # v
      BY <1>1, <2>3, <3>1 DEF None
    <3> QED BY <1>3, <3>1, <3>2
  <2> QED BY <2>1, <2>2, <2>3
<1>6. tt' \in Tables(game) /\ TableTrue(game, tt')
  BY <1>1, InvIs
<1>7. ScoresClaim(scores', window, depth, moves)
  BY <1>1, <1>2
<1> QED BY <1>1, <1>3, <1>4, <1>5, <1>6, <1>7, PassGoesOn

LEMMA SearchMoveKeeps == SearchAssumption /\ SearchInv /\ (\E w \in Workers : SearchMove(w)) => SearchInv'
<1> SUFFICES ASSUME SearchAssumption, SearchInv, NEW v \in Workers, SearchMove(v) PROVE SearchInv'
  OBVIOUS
<1>1. /\ pc = "pass" /\ ~Alone /\ busy[v] # None /\ busy' = [busy EXCEPT ![v] = None]
      /\ UNCHANGED <<game, root, generation, options, pc, depth, window, moves, next, result>>
  BY DEF SearchMove
<1>2. PICK cut \in CutsNow : Took(busy[v], SearchRootMove(busy[v], Search(cut)))
  BY DEF SearchMove
<1>3. PICK s : s = Search(cut)
  OBVIOUS
<1>4. s \in Searches(game) /\ TableTrue(game, s.tt)
  BY <1>3, CutsAre, SearchStarts
<1>5. PICK i : i = busy[v]
  OBVIOUS
<1>6. PICK r : r = SearchRootMove(i, s)
  OBVIOUS
<1>7. /\ next \in 1 .. (Len(moves) + 1) /\ Len(moves) \in Nat /\ busy \in [Workers -> Nat]
      /\ \A w \in Workers : busy[w] < next
  BY <1>1, PassIsSet
<1>8. PICK n : n = next - 1
  OBVIOUS
<1>9. i \in 1 .. Len(moves) /\ n \in Nat /\ next - 1 <= n /\ i <= n /\ Took(i, r)
  <2>1. i \in Nat /\ i < next /\ i # 0
    BY <1>1, <1>5, <1>7 DEF None
  <2> QED BY <1>2, <1>3, <1>5, <1>6, <1>7, <1>8, <2>1
<1>10. /\ r \in Searches(game) /\ TableTrue(game, r.tt) /\ r.score \in Int
       /\ MoveClaims(game, root, depth, 0, moves[i], window[1], window[2], r)
  BY <1>1, <1>4, <1>6, <1>9, RootMoveSearched
<1>11. PICK a : a = window[1]
  OBVIOUS
<1>12. a \in Int /\ Opens(a, i) /\ MoveClaims(game, root, depth, 0, moves[i], a, window[2], r)
  BY <1>1, <1>10, <1>11, AlphaIs DEF Opens
<1>13. /\ tt' \in Tables(game) /\ TableTrue(game, tt') /\ AreScores(scores', n)
       /\ ScoresClaim(scores', window, depth, moves)
       /\ ~aborted' => ~aborted /\ DOMAIN scores' = {i} \cup DOMAIN scores
  BY <1>1, <1>9, <1>10, <1>12, TookKeeps
<1>14. /\ next' \in 1 .. (Len(moves) + 1) /\ busy' \in [Workers -> Nat] /\ \A w \in Workers : busy'[w] < next'
       /\ \A w \in Workers : w # v => busy'[w] = busy[w]
  <2>1. /\ next' \in 1 .. (Len(moves) + 1) /\ busy' \in [Workers -> Nat] /\ None \in Nat
        /\ busy'[v] = None /\ \A w \in Workers : w # v => busy'[w] = busy[w]
    BY <1>1, <1>7 DEF None
  <2>2. ASSUME NEW w \in Workers PROVE busy'[w] < next'
    <3>1. busy[w] \in Nat /\ busy[w] < next /\ (busy'[w] = 0 \/ busy'[w] = busy[w])
      BY <1>7, <2>1 DEF None
    <3> QED BY <1>1, <1>7, <3>1
  <2> QED BY <2>1, <2>2
<1>15. ~aborted' => \A j \in 1 .. (next' - 1) : j \in DOMAIN scores' \/ \E w \in Workers : busy'[w] = j
  <2> SUFFICES ASSUME ~aborted', NEW j \in 1 .. (next - 1), j \notin DOMAIN scores'
               PROVE  \E w \in Workers : busy'[w] = j
    BY <1>1
  <2>1. j # i /\ j \notin DOMAIN scores /\ ~aborted
    BY <1>13
  <2>2. PICK w \in Workers : busy[w] = j
    BY <1>1, <2>1, SearchedSoFar
  <2>3. w # v
    BY <1>5, <2>1, <2>2
  <2> QED BY <1>14, <2>2, <2>3
<1>16. AreScores(scores', next' - 1)
  BY <1>1, <1>8, <1>13
<1> QED BY <1>1, <1>13, <1>14, <1>15, <1>16, PassGoesOn

LEMMA InterruptedKeeps == SearchAssumption /\ SearchInv /\ Interrupted => SearchInv'
<1> SUFFICES ASSUME SearchAssumption, SearchInv, Interrupted PROVE SearchInv'
  OBVIOUS
<1>1. pc' = "done" /\ UNCHANGED <<game, root, tt, generation, options, depth>>
  BY DEF Interrupted
<1>2. GameInv' /\ TableTrue(game, tt)' /\ OptionsInv'
  BY <1>1 DEF SearchInv, GameInv, OptionsInv
<1>3. StartInv' /\ DepthInv' /\ BusyInv' /\ PassInv'
  BY <1>1, InvIs DEF StartInv, DepthInv, BusyInv, PassInv, Searching
<1> QED BY <1>2, <1>3 DEF SearchInv

LEMMA ReopenKeeps == SearchAssumption /\ SearchInv /\ Reopen => SearchInv'
<1> SUFFICES ASSUME SearchAssumption, SearchInv, Reopen PROVE SearchInv'
  OBVIOUS
<1>1. /\ pc = "pass" /\ PassOver /\ window' = FullWindow /\ scores' = <<>> /\ next' = 1
      /\ UNCHANGED <<game, root, tt, generation, options, pc, depth, moves, busy, result>>
  BY DEF Reopen, PassOver
<1>2. \A w \in Workers : busy[w] = None
  <2>1. CASE Alone
    BY <1>1, <2>1 DEF SearchInv, BusyInv, Searching
  <2>2. CASE ~Alone
    BY <1>1, <2>2 DEF PassOver
  <2> QED BY <2>1, <2>2
<1>3. GameInv' /\ TableTrue(game, tt)' /\ OptionsInv'
  BY <1>1 DEF SearchInv, GameInv, OptionsInv
<1>4. StartInv'
  <2>1. ~Ended(game, root) /\ AllowedMoves(game, root, options) # <<>> /\ result.score \in Int
    BY <1>1 DEF SearchInv, StartInv, Searching
  <2> QED BY <1>1, <2>1 DEF StartInv, Ended, Searching
<1>5. DepthInv' /\ BusyInv'
  BY <1>1 DEF SearchInv, DepthInv, BusyInv, Workers, Alone, Searching
<1>6. WindowIs(window)'
  BY <1>1 DEF WindowIs, FullWindow, InScale, Infinity
<1>7. moves \in Seq(Positions(game)) /\ ToSet(moves) = Allowed /\ Len(moves) \in Nat
  BY <1>1, PassIsSet
<1>8. next' \in 1 .. (Len(moves) + 1) /\ next' - 1 = 0 /\ 1 .. 0 = {} /\ \A w \in Workers : busy[w] < next'
  BY <1>1, <1>2, <1>7 DEF None
<1>9. AreScores(scores', next' - 1)
  BY <1>1, <1>8, EmptyScores
<1>10. ScoresClaim(scores, window, depth, moves)'
  <2>1. scores' = <<>> /\ DOMAIN <<>> = {}
    BY <1>1
  <2> QED BY <2>1 DEF ScoresClaim
<1>11. PassInv'
  BY <1>1, <1>6, <1>7, <1>8, <1>9, <1>10 DEF PassInv, Allowed, Workers
<1> QED BY <1>3, <1>4, <1>5, <1>11 DEF SearchInv

(* The moves have all been searched when a score in the window ends the pass. *)
LEMMA AllSearched ==
    ASSUME SearchAssumption, SearchInv, PassOver, ~aborted, InWindow
    PROVE  /\ DOMAIN scores = 1 .. Len(moves) /\ DOMAIN scores # {} /\ Len(moves) \in Nat
           /\ \A i \in 1 .. Len(moves) : scores[i].score \in Int
           /\ \A w \in Workers : busy[w] = None
           /\ BestOf(scores) \in 1 .. Len(moves)
           /\ \A j \in 1 .. Len(moves) : scores[j].score <= scores[BestOf(scores)].score
           /\ Leads(scores, BestOf(scores))
<1>1. pc = "pass"
  BY DEF PassOver
<1>2. /\ WindowIs(window) /\ AreScores(scores, next - 1) /\ next \in 1 .. (Len(moves) + 1) /\ Len(moves) \in Nat
      /\ Len(moves) > 0
  BY <1>1, PassIsSet
<1>3. \A w \in Workers : busy[w] = None
  <2>1. CASE Alone
    BY <1>1, <2>1 DEF SearchInv, BusyInv, Searching
  <2>2. CASE ~Alone
    BY <2>2 DEF PassOver
  <2> QED BY <2>1, <2>2
<1>4. DOMAIN scores = 1 .. (next - 1)
  <2>1. \A i \in 1 .. (next - 1) : i \in DOMAIN scores
    <3> SUFFICES ASSUME NEW i \in 1 .. (next - 1) PROVE i \in DOMAIN scores
      OBVIOUS
    <3>1. i # None
      BY DEF None
    <3> QED BY <1>1, <1>3, <3>1, SearchedSoFar
  <2> QED BY <1>2, <2>1 DEF AreScores
<1>5. next > Len(moves)
  <2>1. CASE ~Alone
    BY <2>1 DEF PassOver
  <2>2. CASE Alone
    <3> SUFFICES ASSUME options.multiPV = 1, Alpha >= window[2] PROVE FALSE
      BY <2>2 DEF PassOver
    <3>1. PICK low, high, alpha : low = window[1] /\ high = window[2] /\ alpha = Alpha
      OBVIOUS
    <3>2. low \in Int /\ high \in Int /\ low < high /\ alpha >= high
      BY <1>2, <3>1 DEF WindowIs
    <3>3. CASE DOMAIN scores # {}
      <4>1. alpha = Larger(low, BestScore)
        BY <1>1, <2>2, <3>1, <3>3, AlphaIs
      <4>2. PICK best : best = BestScore
        OBVIOUS
      <4>3. best > low /\ best < high
        BY <3>1, <4>2 DEF InWindow
      <4>4. best \in Int
        <5>1. PICK sc, n : sc = scores /\ n = next - 1
          OBVIOUS
        <5>2. AreScores(sc, n) /\ n \in Nat /\ DOMAIN sc # {}
          BY <1>2, <3>3, <5>1
        <5>3. BestOf(sc) \in DOMAIN sc
          BY <5>2, FirstBest
        <5> QED BY <4>2, <5>1, <5>2, <5>3 DEF BestScore, AreScores
      <4> QED BY <3>2, <4>1, <4>2, <4>3, <4>4 DEF Larger
    <3>4. CASE DOMAIN scores = {}
      <4>1. PICK sc : sc = scores
        OBVIOUS
      <4>2. sc = [i \in DOMAIN sc |-> sc[i]]
        BY <1>2, <4>1 DEF AreScores
      <4>3. <<>> = [i \in {} |-> sc[i]]
        OBVIOUS
      <4>4. scores = <<>>
        BY <3>4, <4>1, <4>2, <4>3
      <4>5. alpha = low
        BY <3>1, <4>4 DEF Alpha
      <4> QED BY <3>2, <4>5
    <3> QED BY <3>3, <3>4
  <2> QED BY <2>1, <2>2
<1>6. next - 1 = Len(moves) /\ 1 \in 1 .. Len(moves)
  BY <1>2, <1>5
<1>7. DOMAIN scores = 1 .. Len(moves) /\ DOMAIN scores # {}
  BY <1>4, <1>6
<1>8. \A i \in 1 .. Len(moves) : scores[i].score \in Int
  BY <1>2, <1>7 DEF AreScores
<1>9. PICK sc, n : sc = scores /\ n = next - 1
  OBVIOUS
<1>10. AreScores(sc, n) /\ n \in Nat /\ DOMAIN sc # {}
  BY <1>2, <1>7, <1>9
<1>11. /\ BestOf(sc) \in DOMAIN sc /\ \A j \in DOMAIN sc : sc[j].score <= sc[BestOf(sc)].score
       /\ Leads(sc, BestOf(sc))
  BY <1>10, FirstBest
<1> QED BY <1>2, <1>3, <1>7, <1>8, <1>9, <1>11

(* What the best score of the pass says of the position. *)
LEMMA BestClaims ==
    ASSUME SearchAssumption, SearchInv, PassOver, ~aborted, InWindow
    PROVE  /\ BestScore \in Int /\ moves[BestOf(scores)] \in Allowed /\ moves[BestOf(scores)] \in Moves(game)
           /\ MoveBelow(game, root, depth, 0, moves[BestOf(scores)], BestScore)
           /\ \A m \in Allowed : MoveAbove(game, root, depth, 0, m, BestScore)
<1>1. pc = "pass"
  BY DEF PassOver
<1>2. /\ DOMAIN scores = 1 .. Len(moves) /\ Len(moves) \in Nat
      /\ \A i \in 1 .. Len(moves) : scores[i].score \in Int
      /\ BestOf(scores) \in 1 .. Len(moves)
      /\ \A j \in 1 .. Len(moves) : scores[j].score <= scores[BestOf(scores)].score
      /\ Leads(scores, BestOf(scores))
  BY AllSearched
<1>3. /\ \A i \in 1 .. Len(moves) : moves[i] \in Allowed /\ moves[i] \in Positions(game)
      /\ ScoresClaim(scores, window, depth, moves) /\ ToSet(moves) = Allowed /\ moves \in Seq(Positions(game))
      /\ depth \in 1 .. MaxDepth /\ WindowIs(window)
  BY <1>1, PassIsSet
<1>4. PICK b, score : b = BestOf(scores) /\ score = BestScore
  OBVIOUS
<1>5. b \in 1 .. Len(moves) /\ score = scores[b].score /\ score \in Int /\ score > window[1] /\ score < window[2]
      /\ Leads(scores, b) /\ \A j \in 1 .. Len(moves) : scores[j].score <= score
  BY <1>2, <1>4 DEF BestScore, InWindow
<1>6. moves[b] \in Allowed /\ moves[b] \in Moves(game)
  BY <1>3, <1>5 DEF Moves
<1>7. MoveBelow(game, root, depth, 0, moves[b], score)
  BY <1>2, <1>3, <1>5 DEF ScoresClaim
<1>8. ASSUME NEW m \in Allowed PROVE MoveAbove(game, root, depth, 0, m, score)
  <2>1. PICK j \in 1 .. Len(moves) : m = moves[j]
    BY <1>3 DEF ToSet
  <2>2. PICK mine : mine = scores[j].score
    OBVIOUS
  <2>3. mine \in Int /\ mine <= score
    BY <1>2, <1>5, <2>2
  <2>4. mine < window[2]
    <3>1. PICK top : top = window[2]
      OBVIOUS
    <3>2. top \in Int /\ score \in Int /\ score < top
      BY <1>3, <1>5, <3>1 DEF WindowIs
    <3>3. mine < top
      BY <2>3, <3>2
    <3> QED BY <3>1, <3>3
  <2>5. MoveAbove(game, root, depth, 0, m, mine)
    BY <1>2, <1>3, <2>1, <2>2, <2>4 DEF ScoresClaim
  <2>6. PICK zero \in Nat : zero = 0
    OBVIOUS
  <2>7. m \in Positions(game) /\ root \in Positions(game) /\ Scales /\ IsGame(game) /\ zero + 1 <= MaxPly
    <3>1. MaxPly = MaxDepth + MaxQuiescencePly + 1 /\ Numbers
      BY AssumptionIs
    <3>2. zero + 1 <= MaxPly
      BY <2>6, <3>1 DEF Numbers
    <3> QED BY <1>3, <2>1, <3>2, InvIs
  <2>8. PICK d : d = depth
    OBVIOUS
  <2>9. MoveAbove(game, root, d, zero, m, mine)
    BY <2>5, <2>6, <2>8
  <2>10. MoveAbove(game, root, d, zero, m, score)
    BY <1>5, <2>3, <2>7, <2>9, MoveAboveRises
  <2> QED BY <2>6, <2>8, <2>10
<1> QED BY <1>4, <1>5, <1>6, <1>7, <1>8

LEMMA AcceptStores ==
    ASSUME SearchAssumption, SearchInv, Accept
    PROVE  tt' \in Tables(game) /\ TableTrue(game, tt')
<1>1. PassOver /\ ~aborted /\ InWindow /\ pc = "pass"
  BY DEF Accept, PassOver
<1>2. CASE Restricted
  <2>1. tt' = tt
    BY <1>2 DEF Accept
  <2> QED BY <2>1, InvIs
<1>3. CASE ~Restricted
  <2>1. PICK best, score, d : best = moves[BestOf(scores)] /\ score = BestScore /\ d = depth
    OBVIOUS
  <2>2. PICK s : s = Search(Never)
    OBVIOUS
  <2>3. tt' = StoreTT(game, s, root, d, 0, score, -Infinity, Infinity, best).tt
    BY <1>3, <2>1, <2>2 DEF Accept
  <2>4. s \in Searches(game) /\ TableTrue(game, s.tt)
    BY <2>2, SearchStarts DEF Never
  <2>5. /\ score \in Int /\ best \in Allowed /\ best \in Moves(game)
        /\ MoveBelow(game, root, d, 0, best, score)
        /\ \A m \in Allowed : MoveAbove(game, root, d, 0, m, score)
    BY <1>1, <2>1, BestClaims
  <2>6. Allowed = ToSet(game.moves[root])
    BY <1>3, UnrestrictedIs
  <2>7. PICK zero \in Nat : zero = 0
    OBVIOUS
  <2>8. /\ Scales /\ IsGame(game) /\ root \in Positions(game) /\ ~Ended(game, root) /\ zero + 1 <= MaxPly /\ zero <= MaxPly
        /\ d \in Nat /\ d \in Int
    <3>1. MaxPly = MaxDepth + MaxQuiescencePly + 1 /\ Numbers
      BY AssumptionIs
    <3>2. zero + 1 <= MaxPly /\ zero <= MaxPly
      BY <2>7, <3>1 DEF Numbers
    <3>3. d \in 1 .. MaxDepth /\ ~Ended(game, root)
      BY <1>1, <2>1, PassIsSet
    <3>4. d \in Nat /\ d \in Int
      BY <3>1, <3>3 DEF Numbers
    <3> QED BY <3>2, <3>3, <3>4, InvIs
  <2>9. MoveBelow(game, root, d, zero, best, score) /\ AllAbove(game, root, d, zero, score)
    BY <2>5, <2>6, <2>7 DEF AllAbove
  <2>10. best \in ToSet(game.moves[root]) /\ game.moves[root] # <<>>
    <3>1. best \in ToSet(game.moves[root])
      BY <2>5, <2>6
    <3>2. ToSet(<<>>) = {}
      BY DEF ToSet
    <3> QED BY <3>1, <3>2
  <2>11. Below(game, root, d, zero, score)
    BY <2>5, <2>8, <2>9, <2>10, OneMoveBelow
  <2>12. Above(game, root, d, zero, score)
    BY <2>5, <2>8, <2>9, <2>10, AllMovesAbove
  <2>13. PICK a, b : a = -Infinity /\ b = Infinity
    OBVIOUS
  <2>14. a \in Int /\ b \in Int /\ a < b
    BY <2>13 DEF Infinity
  <2>15. PICK t : t = StoreTT(game, s, root, d, zero, score, a, b, best)
    OBVIOUS
  <2>16. t \in Searches(game) /\ TableTrue(game, t.tt)
    BY <2>4, <2>5, <2>8, <2>11, <2>12, <2>14, <2>15, StoreKeepsTruth
  <2>17. tt' = t.tt
    BY <2>3, <2>7, <2>13, <2>15
  <2> QED BY <2>16, <2>17, SearchType
<1> QED BY <1>2, <1>3

LEMMA AcceptKeeps == SearchAssumption /\ SearchInv /\ Accept => SearchInv'
<1> SUFFICES ASSUME SearchAssumption, SearchInv, Accept PROVE SearchInv'
  OBVIOUS
<1>1. /\ PassOver /\ ~aborted /\ InWindow /\ pc = "pass" /\ pc' = "iterate"
      /\ UNCHANGED <<game, root, generation, options, depth, window, moves, next, scores, aborted, busy>>
  BY DEF Accept, PassOver
<1>2. GameInv' /\ TableTrue(game, tt)' /\ OptionsInv'
  <2>1. tt' \in Tables(game) /\ TableTrue(game, tt')
    BY AcceptStores
  <2>2. GameInv' /\ TableTrue(game, tt)'
    BY <1>1, <2>1, InvIs DEF GameInv
  <2> QED BY <1>1, <2>2 DEF SearchInv, OptionsInv
<1>3. StartInv'
  <2>1. ~Ended(game, root) /\ AllowedMoves(game, root, options) # <<>>
    BY <1>1 DEF SearchInv, StartInv, Searching
  <2>2. result'.score = BestScore
    BY DEF Accept
  <2>3. BestScore \in Int
    BY <1>1, BestClaims
  <2> QED BY <1>1, <2>1, <2>2, <2>3 DEF StartInv, Ended, Searching
<1>4. DepthInv' /\ PassInv'
  BY <1>1 DEF SearchInv, DepthInv, PassInv
<1>5. BusyInv'
  <2>1. busy \in [Workers -> Nat] /\ \A w \in Workers : busy[w] = None
    BY <1>1, PassIsSet, AllSearched
  <2> QED BY <1>1, <2>1 DEF BusyInv, Workers
<1> QED BY <1>2, <1>3, <1>4, <1>5 DEF SearchInv

LEMMA PlayOnKeeps == SearchAssumption /\ SearchInv /\ AnswerInv /\ PlayOn => SearchInv'
<1> SUFFICES ASSUME SearchAssumption, SearchInv, AnswerInv, PlayOn PROVE SearchInv'
  OBVIOUS
<1>1. /\ pc = "done" /\ pc' = "idle" /\ root' \in ToSet(Replies) /\ options' \in Options
      /\ UNCHANGED <<game, tt, generation, depth>>
  BY DEF PlayOn
<1>2. root' \in Positions(game)
  <2>1. CASE result.best = NoMove
    <3>1. ToSet(Replies) = {}
      BY <2>1 DEF Replies, ToSet
    <3> QED BY <1>1, <3>1
  <2>2. CASE result.best # NoMove
    <3>1. PICK p : p = result.best
      OBVIOUS
    <3>2. root' \in ToSet(game.moves[p])
      BY <1>1, <2>2, <3>1 DEF Replies
    <3>3. p \in Positions(game)
      BY <1>1, <2>2, <3>1 DEF AnswerInv, Moves
    <3> QED BY <3>2, <3>3, InvIs, MovesAre
  <2> QED BY <2>1, <2>2
<1>3. GameInv' /\ TableTrue(game, tt)'
  BY <1>1, <1>2, InvIs DEF GameInv
<1>4. OptionsInv'
  <2>1. options' \in OptionsOf(game)
    BY <1>1, InvIs, AssumptionIs
  <2> QED BY <1>1, <2>1 DEF OptionsInv
<1>5. StartInv' /\ DepthInv' /\ BusyInv' /\ PassInv'
  BY <1>1, InvIs DEF StartInv, DepthInv, BusyInv, PassInv, Searching
<1> QED BY <1>3, <1>4, <1>5 DEF SearchInv

LEMMA SearchStutters == SearchInv /\ UNCHANGED vars => SearchInv'
<1> SUFFICES ASSUME SearchInv, UNCHANGED vars PROVE SearchInv'
  OBVIOUS
<1>1. GameInv' /\ OptionsInv' /\ StartInv' /\ DepthInv' /\ BusyInv' /\ TableTrue(game, tt)'
  BY DEF SearchInv, vars, GameInv, OptionsInv, StartInv, DepthInv, BusyInv, Searching, Workers, Alone, Allowed,
         AllowedMoves, TableTrue, Ended
<1>2. ScoresClaim(scores, window, depth, moves) => ScoresClaim(scores, window, depth, moves)'
  BY DEF vars, ScoresClaim, Narrows, Alone
<1>3. PassInv'
  BY <1>2 DEF SearchInv, vars, PassInv, Workers, Allowed, WindowIs
<1> QED BY <1>1, <1>3 DEF SearchInv

(* The move that is answered, while the moves are searched. *)
LEMMA SameAnswer ==
    ASSUME AnswerInv, UNCHANGED <<game, root, options, pc, moves, fallback, result>>
    PROVE  AnswerInv'
BY DEF AnswerInv, Searching, Allowed, AllowedMoves, IsResult, Moves, Positions, Ended

LEMMA PassAnswers == AnswerInv /\ (NextMove \/ Team \/ Reopen \/ UNCHANGED vars) => AnswerInv'
<1>1. AnswerInv /\ NextMove => AnswerInv'
  BY SameAnswer DEF NextMove
<1>2. AnswerInv /\ Team => AnswerInv'
  BY SameAnswer DEF Team, TakeMove, SearchMove
<1>3. AnswerInv /\ Reopen => AnswerInv'
  BY SameAnswer DEF Reopen
<1>4. AnswerInv /\ UNCHANGED vars => AnswerInv'
  BY SameAnswer DEF vars
<1> QED BY <1>1, <1>2, <1>3, <1>4

LEMMA InterruptedAnswers == SearchAssumption /\ SearchInv /\ AnswerInv /\ Interrupted => AnswerInv'
<1> SUFFICES ASSUME SearchAssumption, SearchInv, AnswerInv, Interrupted PROVE AnswerInv'
  OBVIOUS
<1>1. /\ pc = "pass" /\ Searching /\ pc' = "done" /\ Answered
      /\ game' = game /\ root' = root /\ options' = options
  BY DEF Interrupted, PassOver, Searching
<1>2. Allowed' = Allowed /\ Moves(game)' = Moves(game)
  BY <1>1 DEF Allowed, Moves, Positions
<1> QED BY <1>1, <1>2, AnsweredIs DEF AnswerInv, Searching

LEMMA AcceptAnswers == SearchAssumption /\ SearchInv /\ AnswerInv /\ Accept => AnswerInv'
<1> SUFFICES ASSUME SearchAssumption, SearchInv, AnswerInv, Accept PROVE AnswerInv'
  OBVIOUS
<1>1. /\ PassOver /\ ~aborted /\ InWindow /\ pc = "pass" /\ Searching /\ pc' = "iterate"
      /\ game' = game /\ root' = root /\ options' = options /\ fallback' = fallback
  BY DEF Accept, PassOver, Searching
<1>2. Allowed' = Allowed
  BY <1>1 DEF Allowed
<1>3. PICK pv : result' = [best |-> moves[BestOf(scores)], score |-> BestScore, depth |-> depth, mate |-> FALSE, pv |-> pv]
  BY DEF Accept
<1>4. result'.best = moves[BestOf(scores)] /\ IsResult(result')
  BY <1>3 DEF IsResult
<1>5. result'.best \in Allowed
  BY <1>1, <1>4, BestClaims
<1>6. fallback \in Allowed
  BY <1>1 DEF AnswerInv
<1> QED BY <1>1, <1>2, <1>4, <1>5, <1>6 DEF AnswerInv

LEMMA PlayOnAnswers == PlayOn => AnswerInv'
BY DEF PlayOn, AnswerInv, Searching

LEMMA InitAnswers == Init => AnswerInv
BY DEF Init, AnswerInv, Searching

-----------------------------------------------------------------------------
(* The invariant of the search. *)
IInv == SearchInv /\ AnswerInv

LEMMA StepKeeps == SearchAssumption /\ IInv /\ [Next]_vars => IInv'
<1> SUFFICES ASSUME SearchAssumption, SearchInv, AnswerInv, [Next]_vars PROVE SearchInv' /\ AnswerInv'
  BY DEF IInv
<1>1. CASE Begin
  BY <1>1, BeginKeeps, BeginAnswers
<1>2. CASE Fallback
  BY <1>2, FallbackKeeps, FallbackAnswers
<1>3. CASE MateProbe
  BY <1>3, MateProbeKeeps, MateProbeAnswers
<1>4. CASE NextIteration
  BY <1>4, NextIterationKeeps, NextIterationAnswers
<1>5. CASE NextMove
  BY <1>5, NextMoveKeeps, PassAnswers
<1>6. CASE Team
  BY <1>6, TakeMoveKeeps, SearchMoveKeeps, PassAnswers DEF Team
<1>7. CASE Interrupted
  BY <1>7, InterruptedKeeps, InterruptedAnswers
<1>8. CASE Reopen
  BY <1>8, ReopenKeeps, PassAnswers
<1>9. CASE Accept
  BY <1>9, AcceptKeeps, AcceptAnswers
<1>10. CASE PlayOn
  BY <1>10, PlayOnKeeps, PlayOnAnswers
<1>11. CASE UNCHANGED vars
  BY <1>11, SearchStutters, PassAnswers
<1>12. Over => UNCHANGED vars
  BY DEF Over
<1> QED BY <1>1, <1>2, <1>3, <1>4, <1>5, <1>6, <1>7, <1>8, <1>9, <1>10, <1>11, <1>12 DEF Next, EndPass

(* The invariant holds in every search of every game, stopped anywhere: the scores of a
   pass claim what is so, the table is true, and the answer so far is a move allowed. *)
THEOREM InvHolds == Spec => []IInv
<1>1. Init => IInv
  BY SearchAssumption, InitIsTrue, InitAnswers DEF IInv
<1>2. IInv /\ [Next]_vars => IInv'
  BY SearchAssumption, StepKeeps
<1> QED BY <1>1, <1>2, PTL DEF Spec

(* What the table says of a position whose worth does not rest on its history is true,
   whatever search wrote it, through whichever positions that share a key, and however
   it was stopped. *)
THEOREM TableHolds == Spec => []TableIsTrue
<1>1. IInv => TableIsTrue
  BY DEF IInv, SearchInv, TableTrue, TableIsTrue
<1> QED BY <1>1, InvHolds, PTL

-----------------------------------------------------------------------------
(* The lines. *)
Legal(g, p, k) == {m \in ToSet(g.moves[p]) : g.key[m] = k}

PvNext(g, s, x, m, before) ==
    IF x[2] \in x[3] \/ s.tt[x[2]].generation # s.generation THEN <<>>
    ELSE before[<<m, s.tt[x[2]].move, x[3] \cup {x[2]}>>]

PvNode(g, s, left, x, before) ==
    IF left = 0 \/ Ended(g, x[1]) \/ Legal(g, x[1], x[2]) = {} THEN <<>>
    ELSE LineFrom(CHOOSE m \in Legal(g, x[1], x[2]) : TRUE,
                  PvNext(g, s, x, CHOOSE m \in Legal(g, x[1], x[2]) : TRUE, before))

PvArgs(g) == Positions(g) \X KeyMoves(g) \X SUBSET Keys(g)
PvLevel(before, a) == [x \in PvArgs(a[1]) |-> PvNode(a[1], a[2], a[3], x, before)]
PvLevels == INSTANCE FoldTheorems WITH Step <- PvLevel

IsPv(g, p, k, length, pv) ==
    /\ Forced(g, p, length, pv) /\ (pv # <<>> => g.key[pv[1]] = k)
    /\ length > 0 /\ ~Ended(g, p) /\ Legal(g, p, k) # {} => pv # <<>>

PvsAre(f, g, s, N) ==
    \A left \in 0 .. N : f[left] = PvLevel(IF left = 0 THEN <<>> ELSE f[left - 1], <<g, s, left>>)

LEMMA BuildPvDefined ==
    ASSUME NEW g, NEW s, NEW p, NEW m, NEW N \in Nat, NEW pv, pv = BuildPv(g, p, m, N, s)
    PROVE  \E f : pv = f[N][<<p, KeyOf(g, m), {g.key[p]}>>] /\ PvsAre(f, g, s, N)
<1> DEFINE Onward(h, left, x) ==
               LET legal == {k \in ToSet(g.moves[x[1]]) : g.key[k] = x[2]}
                   following == CHOOSE k \in legal : TRUE
               IN IF left = 0 \/ Ended(g, x[1]) \/ legal = {} THEN <<>>
                  ELSE <<following>> \o (IF x[2] \in x[3] \/ s.tt[x[2]].generation # s.generation THEN <<>>
                                       ELSE h[left - 1][<<following, s.tt[x[2]].move, x[3] \cup {x[2]}>>])
           Is(h) == h = [left \in 0 .. N |->
                           [x \in Positions(g) \X KeyMoves(g) \X SUBSET Keys(g) |-> Onward(h, left, x)]]
           f == CHOOSE h : Is(h)
           of == [i \in 0 .. N |-> <<g, s, i>>]
<1>1. BuildPv(g, p, m, N, s) = f[N][<<p, KeyOf(g, m), {g.key[p]}>>]
  BY DEF BuildPv
<1>2. ASSUME NEW h
      PROVE  Is(h) <=> h = [left \in 0 .. N |-> PvLevel(IF left = 0 THEN <<>> ELSE h[left - 1], <<g, s, left>>)]
  <2>1. ASSUME NEW left \in 0 .. N, NEW x \in PvArgs(g)
        PROVE  Onward(h, left, x) = PvNode(g, s, left, x, IF left = 0 THEN <<>> ELSE h[left - 1])
    BY DEF PvNode, PvNext, Legal, LineFrom
  <2> HIDE DEF Onward
  <2>2. ASSUME NEW left \in 0 .. N
        PROVE  [x \in Positions(g) \X KeyMoves(g) \X SUBSET Keys(g) |-> Onward(h, left, x)]
               = PvLevel(IF left = 0 THEN <<>> ELSE h[left - 1], <<g, s, left>>)
    <3>1. PICK before : before = IF left = 0 THEN <<>> ELSE h[left - 1]
      OBVIOUS
    <3>2. PvLevel(before, <<g, s, left>>) = [x \in PvArgs(g) |-> PvNode(g, s, left, x, before)]
      BY DEF PvLevel
    <3>3. [x \in PvArgs(g) |-> Onward(h, left, x)] = [x \in PvArgs(g) |-> PvNode(g, s, left, x, before)]
      BY <2>1, <3>1
    <3> QED BY <3>1, <3>2, <3>3 DEF PvArgs
  <2> QED BY <2>2
<1> HIDE DEF Onward
<1>3. \E h : Is(h)
  <2>1. PICK h : PvLevels!IsLevels(h, N, of)
    BY PvLevels!LevelsExist
  <2>2. \A i \in 0 .. N : of[i] = <<g, s, i>>
    OBVIOUS
  <2> HIDE DEF of
  <2>3. h = [left \in 0 .. N |-> PvLevel(IF left = 0 THEN <<>> ELSE h[left - 1], <<g, s, left>>)]
    BY <2>1, <2>2 DEF PvLevels!IsLevels
  <2> HIDE DEF Is
  <2> QED BY <1>2, <2>3
<1>4. Is(f)
  BY <1>3
<1> HIDE DEF Is, f
<1>5. f = [left \in 0 .. N |-> PvLevel(IF left = 0 THEN <<>> ELSE f[left - 1], <<g, s, left>>)]
  BY <1>2, <1>4
<1>6. \A left \in 0 .. N : f[left] = PvLevel(IF left = 0 THEN <<>> ELSE f[left - 1], <<g, s, left>>)
  BY <1>5
<1>7. PvsAre(f, g, s, N)
  BY <1>6 DEF PvsAre
<1> QED BY <1>1, <1>7

LEMMA NothingForced ==
    ASSUME NEW g, NEW p, NEW n \in Nat
    PROVE  Forced(g, p, n, <<>>)
<1>1. <<>> \in Seq(Positions(g)) /\ Len(<<>>) = 0 /\ 1 .. 0 = {}
  OBVIOUS
<1> QED BY <1>1 DEF Forced, LegalLine

LEMMA PvStep ==
    ASSUME NEW g, IsGame(g), NEW s \in Searches(g), NEW left \in Nat, NEW before,
           left > 0 => \A y \in PvArgs(g) : IsPv(g, y[1], y[2], left - 1, before[y]),
           NEW x \in PvArgs(g), NEW pv, pv = PvNode(g, s, left, x, before)
    PROVE  IsPv(g, x[1], x[2], left, pv)
<1>1. PICK p \in Positions(g), k \in KeyMoves(g), seen \in SUBSET Keys(g) : x = <<p, k, seen>>
  BY DEF PvArgs
<1>2. x[1] = p /\ x[2] = k /\ x[3] = seen
  BY <1>1
<1>3. CASE left = 0 \/ Ended(g, p) \/ Legal(g, p, k) = {}
  <2>1. pv = <<>>
    BY <1>2, <1>3 DEF PvNode
  <2>2. Forced(g, p, left, <<>>)
    BY NothingForced
  <2>3. IsPv(g, p, k, left, pv)
    BY <1>3, <2>1, <2>2 DEF IsPv
  <2> QED BY <1>2, <2>3
<1>4. CASE ~(left = 0 \/ Ended(g, p) \/ Legal(g, p, k) = {})
  <2>1. PICK m : m = CHOOSE mv \in Legal(g, p, k) : TRUE
    OBVIOUS
  <2>2. m \in Legal(g, p, k)
    BY <1>4, <2>1
  <2>3. m \in ToSet(g.moves[p]) /\ m \in Positions(g) /\ g.key[m] = k /\ k \in Keys(g)
    <3>1. m \in ToSet(g.moves[p]) /\ g.key[m] = k
      BY <2>2 DEF Legal
    <3> QED BY <3>1, MovesAre, KeyIs
  <2>4. PICK rest : rest = PvNext(g, s, x, m, before)
    OBVIOUS
  <2>5. pv = LineFrom(m, rest)
    BY <1>2, <1>4, <2>1, <2>4 DEF PvNode
  <2>6. PICK less \in Nat : left = less + 1
    <3>1. left - 1 \in Nat /\ left = left - 1 + 1
      BY <1>4
    <3> QED BY <3>1
  <2>7. Forced(g, m, less, rest)
    <3>1. CASE k \in seen \/ s.tt[k].generation # s.generation
      <4>1. rest = <<>>
        BY <1>2, <2>4, <3>1 DEF PvNext
      <4> QED BY <4>1, NothingForced
    <3>2. CASE ~(k \in seen \/ s.tt[k].generation # s.generation)
      <4>1. PICK reply, now : reply = s.tt[k].move /\ now = seen \cup {k}
        OBVIOUS
      <4>2. reply \in KeyMoves(g) /\ now \in SUBSET Keys(g)
        <5>1. s.tt[k] \in Entries(g)
          BY <2>3, SearchType
        <5> QED BY <2>3, <4>1, <5>1 DEF Entries
      <4>3. PICK y : y = <<m, reply, now>>
        OBVIOUS
      <4>4. y \in PvArgs(g) /\ y[1] = m
        BY <2>3, <4>2, <4>3 DEF PvArgs
      <4>5. rest = before[y]
        BY <1>2, <2>4, <3>2, <4>1, <4>3 DEF PvNext
      <4>6. less = left - 1 /\ left > 0
        BY <2>6
      <4>7. IsPv(g, m, y[2], less, rest)
        BY <4>4, <4>5, <4>6
      <4> QED BY <4>7 DEF IsPv
    <3> QED BY <3>1, <3>2
  <2>8. Forced(g, p, less + 1, pv) /\ pv # <<>> /\ pv[1] = m
    BY <2>3, <2>5, <2>7, Longer
  <2>9. IsPv(g, p, k, left, pv)
    BY <2>3, <2>6, <2>8 DEF IsPv
  <2> QED BY <1>2, <2>9
<1> QED BY <1>3, <1>4

LEMMA BuildPvIs ==
    ASSUME NEW g, IsGame(g), NEW s \in Searches(g), NEW p \in Positions(g), NEW m \in Moves(g), NEW N \in Nat,
           NEW pv, pv = BuildPv(g, p, m, N, s)
    PROVE  IsPv(g, p, KeyOf(g, m), N, pv)
<1>1. PICK f : pv = f[N][<<p, KeyOf(g, m), {g.key[p]}>>] /\ PvsAre(f, g, s, N)
  BY BuildPvDefined
<1> DEFINE Are(left) == \A y \in PvArgs(g) : IsPv(g, y[1], y[2], left, f[left][y])
           A == {left \in Nat : left <= N => Are(left)}
<1>2. ASSUME NEW left \in 0 .. N, left > 0 => Are(left - 1) PROVE Are(left)
  <2> DEFINE before == IF left = 0 THEN <<>> ELSE f[left - 1]
  <2>1. f[left] = [y \in PvArgs(g) |-> PvNode(g, s, left, y, before)]
    BY <1>1 DEF PvsAre, PvLevel
  <2>2. left > 0 => \A y \in PvArgs(g) : IsPv(g, y[1], y[2], left - 1, before[y])
    <3>1. CASE left > 0
      <4>1. before = f[left - 1]
        BY <3>1
      <4> QED BY <1>2, <3>1, <4>1
    <3> QED BY <3>1
  <2>3. left \in Nat
    OBVIOUS
  <2> HIDE DEF before
  <2>4. ASSUME NEW y \in PvArgs(g) PROVE IsPv(g, y[1], y[2], left, f[left][y])
    <3>1. PICK line : line = f[left][y]
      OBVIOUS
    <3>2. line = PvNode(g, s, left, y, before)
      BY <2>1, <3>1
    <3>3. IsPv(g, y[1], y[2], left, line)
      BY <2>2, <2>3, <3>2, PvStep
    <3> QED BY <3>1, <3>3
  <2> QED BY <2>4
<1>3. 0 \in A
  <2>1. 0 \in 0 .. N
    OBVIOUS
  <2> HIDE DEF Are
  <2> QED BY <1>2, <2>1
<1>4. ASSUME NEW left \in Nat, left \in A PROVE left + 1 \in A
  <2> SUFFICES ASSUME left + 1 <= N PROVE Are(left + 1)
    OBVIOUS
  <2>1. left + 1 \in 0 .. N /\ left + 1 - 1 = left /\ Are(left)
    BY <1>4
  <2> HIDE DEF A, Are
  <2> QED BY <1>2, <2>1
<1>5. N \in A
  <2> HIDE DEF A
  <2> QED BY <1>3, <1>4, PvLevels!Induction
<1>6. PICK k, seen : k = KeyOf(g, m) /\ seen = {g.key[p]}
  OBVIOUS
<1>7. k \in KeyMoves(g) /\ seen \in SUBSET Keys(g)
  BY <1>6, KeyOfIs, KeyIs
<1>8. PICK y : y = <<p, k, seen>>
  OBVIOUS
<1>9. y \in PvArgs(g) /\ y[1] = p /\ y[2] = k
  BY <1>7, <1>8 DEF PvArgs
<1>10. IsPv(g, p, k, N, f[N][y])
  BY <1>5, <1>9
<1> QED BY <1>1, <1>6, <1>8, <1>10

(* The line of a root move: it begins with it, and can be played. *)
LEMMA PvOfIs ==
    ASSUME SearchAssumption, SearchInv, ~Ended(game, root), depth > 0, NEW m, m \in ToSet(game.moves[root]),
           NEW table, table \in Tables(game), NEW pv, pv = PvOf(m, table)
    PROVE  IsLine(pv, m, depth) /\ pv # <<>>
<1>1. PICK s : s = [Search(Never) EXCEPT !.tt = table]
  OBVIOUS
<1>2. s = [tt |-> table, generation |-> generation, left |-> Never, score |-> 0, aborted |-> FALSE]
  BY <1>1 DEF Search
<1>3. s \in Searches(game)
  BY <1>2, InvIs DEF Searches, Never
<1>4. PICK d : d = depth
  OBVIOUS
<1>5. d \in Nat /\ d > 0 /\ root \in Positions(game) /\ IsGame(game)
  BY <1>4, InvIs
<1>6. m \in Moves(game)
  BY <1>5, MovesAre DEF Moves
<1>7. pv = BuildPv(game, root, m, d, s)
  BY <1>1, <1>4 DEF PvOf
<1>8. PICK k : k = game.key[m]
  OBVIOUS
<1>9. IsPv(game, root, k, d, pv) /\ m \in Positions(game) /\ m \in Legal(game, root, k)
  <2>1. m \in Positions(game) /\ NoMove \notin Positions(game)
    BY <1>5, MovesAre, GameTypes
  <2>2. k = KeyOf(game, m)
    BY <1>8, <2>1 DEF KeyOf
  <2> QED BY <1>3, <1>5, <1>6, <1>7, <1>8, <2>1, <2>2, BuildPvIs DEF Legal
<1>10. Forced(game, root, d, pv) /\ pv # <<>> /\ game.key[pv[1]] = k
  BY <1>5, <1>9 DEF IsPv
<1>11. Len(pv) <= d /\ LegalLine(game, root, pv) /\ pv \in Seq(Positions(game))
  BY <1>10 DEF Forced
<1>12. PICK first : first = pv[1]
  OBVIOUS
<1>13. first \in ToSet(game.moves[root])
  <2>1. 1 \in 1 .. Len(pv)
    BY <1>10, <1>11
  <2> QED BY <1>12, <1>11, <2>1 DEF LegalLine
<1>14. first = m
  <2>1. KeysAgree(game)
    BY <1>5 DEF IsGame
  <2>2. first \in Positions(game) /\ game.key[first] = game.key[m]
    BY <1>5, <1>8, <1>10, <1>12, <1>13, MovesAre
  <2>3. {first, m} \subseteq ToSet(game.moves[root])
    BY <1>13
  <2> QED BY <1>5, <1>9, <2>1, <2>2, <2>3, ZenonT(30) DEF KeysAgree
<1>15. IsLine(pv, m, d)
  <2>1. DOMAIN pv = 1 .. Len(pv)
    BY <1>11
  <2>2. \A i \in DOMAIN pv : pv[i] \in ToSet(game.moves[IF i = 1 THEN root ELSE pv[i - 1]])
    BY <1>11, <2>1 DEF LegalLine
  <2> QED BY <1>11, <1>12, <1>14, <2>2 DEF IsLine
<1> QED BY <1>4, <1>10, <1>15

-----------------------------------------------------------------------------
(* What the search has to tell. *)
LineIn(g, p, pv, move, length) ==
    /\ pv # <<>> => pv[1] = move
    /\ Len(pv) <= length
    /\ \A i \in DOMAIN pv : pv[i] \in ToSet(g.moves[IF i = 1 THEN p ELSE pv[i - 1]])

NothingYet(r, ls) == r.depth = 0 /\ ~r.mate /\ r.pv = <<>> /\ ls = <<>>

FoundMate(g, p, r, ls) ==
    r.mate /\ r.pv # <<>> /\ LineIn(g, p, r.pv, r.best, r.depth) /\ ls = <<>> /\ WorthOfMove(g, r.best) >= r.score

Better(g, allowed, score) == {m \in allowed : WorthOfMove(g, m) > score}

LinesAre(g, p, r, ls) == \A i \in DOMAIN ls : ls[i].pv # <<>> /\ LineIn(g, p, ls[i].pv, ls[i].move, r.depth)

Exact(g, allowed, r, ls) ==
    /\ r.score = Max({WorthOfMove(g, m) : m \in allowed})
    /\ \A i \in DOMAIN ls : /\ WorthOfMove(g, ls[i].move) = ls[i].score
                            /\ Cardinality(Better(g, allowed, ls[i].score)) < i
    /\ ls[1].move = r.best

SeesWhole(g, p, d) == p \in g.timeless /\ d >= Larger(g.sees.lower[p], g.sees.upper[p])

Settled(g, p, allowed, r, ls) ==
    /\ ~r.mate /\ r.depth > 0 /\ r.best # NoMove /\ r.pv # <<>> /\ LineIn(g, p, r.pv, r.best, r.depth)
    /\ LinesAre(g, p, r, ls)
    /\ SeesWhole(g, p, r.depth) => Exact(g, allowed, r, ls)

LastKnown == NothingYet(result, lines) \/ Settled(game, root, Allowed, result, lines)

ToldInv ==
    /\ pc \in {"fallback", "mate"} => NothingYet(result, lines)
    /\ pc \in {"iterate", "pass"} => LastKnown
    /\ pc = "iterate" => result.depth = depth /\ ~aborted
    /\ pc = "done" => /\ LastKnown \/ FoundMate(game, root, result, lines)
                      /\ ~Ended(game, root) /\ Allowed # {} /\ ~stopped => result.mate \/ result.depth = options.maxDepth

PvsHold == \A i \in DOMAIN scores : scores[i].pv # <<>> /\ LineIn(game, root, scores[i].pv, moves[i], depth)

LinesInv ==
    /\ Searching => options.multiPV <= Len(AllowedMoves(game, root, options))
    /\ pc = "pass" => /\ aborted => stopped
                      /\ Len(moves) = Len(AllowedMoves(game, root, options))
                      /\ options.multiPV > 1 => window = FullWindow
                      /\ Alone /\ options.multiPV > 1 => PvsHold

(* What a root move is worth, as the claims of its score have it. *)
LEMMA WorthIs ==
    ASSUME Scales, NEW g, IsGame(g), NEW m \in Positions(g)
    PROVE  /\ WorthOfMove(g, m) = -At(g, m, 0 + 1) /\ WorthOfMove(g, m) \in Int
           /\ -30000 <= WorthOfMove(g, m) /\ WorthOfMove(g, m) <= 30000
<1>1. g.value[m] \in Int /\ -30000 <= g.value[m] /\ g.value[m] <= 30000
  BY GameTypes DEF Scales
<1>2. PICK v \in Int : v = g.value[m]
  BY <1>1
<1>3. PICK w \in Int : w = -v
  OBVIOUS
<1>4. WorthOfMove(g, m) = ScoreFromTT(w, 1) /\ At(g, m, 0 + 1) = ScoreFromTT(v, 1)
  BY <1>2, <1>3 DEF WorthOfMove, At
<1>5. /\ ScoreFromTT(w, 1) = IF w >= 28744 THEN w - 1 ELSE IF w <= -28744 THEN w + 1 ELSE w
      /\ ScoreFromTT(v, 1) = IF v >= 28744 THEN v - 1 ELSE IF v <= -28744 THEN v + 1 ELSE v
  BY FromTT
<1> QED BY <1>1, <1>2, <1>3, <1>4, <1>5

LEMMA ClaimsMeet ==
    ASSUME Scales, NEW g, IsGame(g), NEW p \in Positions(g), NEW m \in Positions(g), NEW d \in Int, NEW score \in Int
    PROVE  /\ MoveBelow(g, p, d, 0, m, score) /\ p \in g.timeless /\ d >= g.sees.lower[p] => WorthOfMove(g, m) >= score
           /\ MoveAbove(g, p, d, 0, m, score) /\ p \in g.timeless /\ d >= g.sees.upper[p] => WorthOfMove(g, m) <= score
<1>1. WorthOfMove(g, m) = -At(g, m, 0 + 1)
  BY WorthIs
<1> QED BY <1>1 DEF MoveBelow, MoveAbove, SeesBelow, SeesAbove

LEMMA SeesBoth ==
    ASSUME NEW g, IsGame(g), NEW p \in Positions(g), NEW d \in Int, SeesWhole(g, p, d)
    PROVE  p \in g.timeless /\ d >= g.sees.lower[p] /\ d >= g.sees.upper[p]
BY GameTypes DEF SeesWhole, Larger

(* The moves in their order by score. *)
LEMMA BeforeIs ==
    ASSUME NEW n \in Nat, \A i \in 1 .. n : scores[i].score \in Int
    PROVE  /\ \A i \in 1 .. n : ~Before(i, i)
           /\ \A i \in 1 .. n, j \in 1 .. n : i # j => Before(i, j) \/ Before(j, i)
           /\ \A i \in 1 .. n, j \in 1 .. n, k \in 1 .. n : Before(i, j) /\ Before(j, k) => Before(i, k)
<1>1. ASSUME NEW i \in 1 .. n PROVE ~Before(i, i)
  BY DEF Before
<1>2. ASSUME NEW i \in 1 .. n, NEW j \in 1 .. n, i # j PROVE Before(i, j) \/ Before(j, i)
  BY <1>2 DEF Before
<1>3. ASSUME NEW i \in 1 .. n, NEW j \in 1 .. n, NEW k \in 1 .. n, Before(i, j), Before(j, k) PROVE Before(i, k)
  BY <1>3 DEF Before
<1> QED BY <1>1, <1>2, <1>3

Ahead(n, i) == {j \in 1 .. n : Before(j, i)}

LEMMA RankGrows ==
    ASSUME NEW n \in Nat, \A i \in 1 .. n : scores[i].score \in Int, DOMAIN moves = 1 .. n
    PROVE  /\ \A i \in 1 .. n : /\ IsFiniteSet(Ahead(n, i)) /\ Rank(i) = Cardinality(Ahead(n, i))
                                /\ Rank(i) \in 0 .. (n - 1)
           /\ \A i \in 1 .. n, j \in 1 .. n : Before(i, j) => Rank(i) < Rank(j)
<1>1. IsFiniteSet(1 .. n) /\ Cardinality(1 .. n) = n
  BY FS_Interval
<1>2. ASSUME NEW i \in 1 .. n
      PROVE  /\ IsFiniteSet(Ahead(n, i)) /\ Cardinality(Ahead(n, i)) \in Nat
             /\ Cardinality(Ahead(n, i)) <= n /\ Cardinality(Ahead(n, i)) # n
             /\ Rank(i) = Cardinality(Ahead(n, i))
  <2>1. Ahead(n, i) \in SUBSET (1 .. n) /\ i \notin Ahead(n, i)
    BY BeforeIs DEF Ahead
  <2>2. Ahead(n, i) # 1 .. n
    BY <2>1
  <2>3. Rank(i) = Cardinality(Ahead(n, i))
    BY DEF Rank, Ahead
  <2> QED BY <1>1, <2>1, <2>2, <2>3, FS_Subset, FS_CardinalityType
<1>3. ASSUME NEW i \in 1 .. n, NEW j \in 1 .. n, Before(i, j) PROVE Rank(i) < Rank(j)
  <2>1. Ahead(n, i) \in SUBSET Ahead(n, j)
    BY <1>3, BeforeIs DEF Ahead
  <2>2. i \in Ahead(n, j) /\ i \notin Ahead(n, i)
    BY <1>3, BeforeIs DEF Ahead
  <2>3. Ahead(n, i) # Ahead(n, j)
    BY <2>2
  <2>4. /\ Cardinality(Ahead(n, i)) <= Cardinality(Ahead(n, j))
        /\ Cardinality(Ahead(n, i)) # Cardinality(Ahead(n, j))
    BY <1>2, <2>1, <2>3, FS_Subset
  <2>5. Cardinality(Ahead(n, i)) \in Nat /\ Cardinality(Ahead(n, j)) \in Nat
    BY <1>2
  <2>6. PICK a, b : a = Cardinality(Ahead(n, i)) /\ b = Cardinality(Ahead(n, j))
    OBVIOUS
  <2>7. a < b
    BY <2>4, <2>5, <2>6
  <2> QED BY <1>2, <2>6, <2>7
<1>4. ASSUME NEW i \in 1 .. n PROVE Rank(i) \in 0 .. (n - 1)
  <2>1. PICK a : a = Cardinality(Ahead(n, i))
    OBVIOUS
  <2>2. a \in Nat /\ a <= n /\ a # n /\ Rank(i) = a
    BY <1>2, <2>1
  <2> QED BY <2>2
<1> QED BY <1>2, <1>3, <1>4

(* Every rank is taken: the moves are as many as the ranks. *)
LEMMA RankedAre ==
    ASSUME NEW n \in Nat, \A i \in 1 .. n : scores[i].score \in Int, DOMAIN moves = 1 .. n, NEW k \in 1 .. n
    PROVE  RankAt(k) \in 1 .. n /\ Rank(RankAt(k)) = k - 1
<1> DEFINE r == [i \in 1 .. n |-> Rank(i)]
<1>1. r \in [1 .. n -> 0 .. (n - 1)]
  BY RankGrows
<1>2. ASSUME NEW i \in 1 .. n, NEW j \in 1 .. n, i # j PROVE Rank(i) # Rank(j)
  <2>1. Rank(i) < Rank(j) \/ Rank(j) < Rank(i)
    BY <1>2, BeforeIs, RankGrows
  <2>2. Rank(i) \in Int /\ Rank(j) \in Int
    BY RankGrows
  <2> QED BY <2>1, <2>2
<1>3. r \in Injection(1 .. n, 0 .. (n - 1))
  BY <1>1, <1>2 DEF Injection, IsInjective
<1>4. IsFiniteSet(0 .. (n - 1)) /\ Cardinality(0 .. (n - 1)) = n /\ Cardinality(1 .. n) = n
  <2>1. n - 1 \in Int /\ n > 0
    OBVIOUS
  <2> QED BY <2>1, FS_Interval
<1> HIDE DEF r
<1>5. r \in Surjection(1 .. n, 0 .. (n - 1))
  BY <1>3, <1>4, FS_Injection
<1>6. k - 1 \in 0 .. (n - 1)
  OBVIOUS
<1>7. PICK i \in 1 .. n : r[i] = k - 1
  BY <1>5, <1>6 DEF Surjection
<1>8. Rank(i) = k - 1
  BY <1>7 DEF r
<1> QED BY <1>8 DEF RankAt

(* The move of rank 0 is the best: the first of those with the highest score. *)
LEMMA FirstRank ==
    ASSUME NEW n \in Nat, AreScores(scores, n), DOMAIN scores = 1 .. n, n > 0, DOMAIN moves = 1 .. n
    PROVE  RankAt(1) = BestOf(scores)
<1>1. \A i \in 1 .. n : scores[i].score \in Int
  BY DEF AreScores
<1>2. 1 \in 1 .. n /\ DOMAIN scores # {}
  OBVIOUS
<1>3. PICK c : c = RankAt(1)
  OBVIOUS
<1>4. c \in 1 .. n /\ Rank(c) = 0
  <2>1. RankAt(1) \in 1 .. n /\ Rank(RankAt(1)) = 1 - 1
    BY <1>1, <1>2, RankedAre
  <2> QED BY <1>3, <2>1
<1>5. PICK b : b = BestOf(scores)
  OBVIOUS
<1>6. b \in 1 .. n /\ (\A j \in 1 .. n : scores[j].score <= scores[b].score) /\ Leads(scores, b)
  BY <1>2, <1>5, FirstBest
<1>7. ASSUME b # c PROVE FALSE
  <2>1. Before(b, c) \/ Before(c, b)
    BY <1>1, <1>4, <1>6, <1>7, BeforeIs
  <2>2. ~Before(c, b)
    <3>1. PICK x, y : x = scores[c].score /\ y = scores[b].score
      OBVIOUS
    <3>2. x \in Int /\ y \in Int /\ x <= y /\ (c < b => x < y)
      BY <1>1, <1>4, <1>6, <3>1 DEF Leads
    <3> QED BY <3>1, <3>2 DEF Before
  <2>3. b \in Ahead(n, c)
    BY <1>6, <2>1, <2>2 DEF Ahead
  <2>4. IsFiniteSet(Ahead(n, c)) /\ Cardinality(Ahead(n, c)) = 0
    BY <1>1, <1>4, RankGrows
  <2> QED BY <2>3, <2>4, FS_EmptySet
<1> QED BY <1>3, <1>5, <1>7

-----------------------------------------------------------------------------
(* The scores of an iteration that saw the end. *)
LEMMA BestIsMax ==
    ASSUME SearchAssumption, SearchInv, PassOver, ~aborted, InWindow,
           SeesWhole(game, root, depth)
    PROVE  /\ BestScore = Max({WorthOfMove(game, m) : m \in Allowed})
           /\ WorthOfMove(game, moves[BestOf(scores)]) = BestScore
           /\ Better(game, Allowed, BestScore) = {}
<1>1. PICK d, score, best : d = depth /\ score = BestScore /\ best = moves[BestOf(scores)]
  OBVIOUS
<1>2. /\ score \in Int /\ best \in Allowed
      /\ MoveBelow(game, root, d, 0, best, score)
      /\ \A m \in Allowed : MoveAbove(game, root, d, 0, m, score)
  BY <1>1, BestClaims
<1>3. /\ IsGame(game) /\ root \in Positions(game) /\ Scales /\ d \in Int /\ Allowed \subseteq Positions(game)
  BY <1>1, InvIs, AllowedAre
<1>4. root \in game.timeless /\ d >= game.sees.lower[root] /\ d >= game.sees.upper[root]
  BY <1>1, <1>3, SeesBoth
<1>5. ASSUME NEW m \in Allowed PROVE WorthOfMove(game, m) <= score /\ WorthOfMove(game, m) \in Int
  <2>1. m \in Positions(game) /\ MoveAbove(game, root, d, 0, m, score)
    BY <1>2, <1>3
  <2> QED BY <1>2, <1>3, <1>4, <2>1, ClaimsMeet, WorthIs
<1>6. WorthOfMove(game, best) >= score
  BY <1>2, <1>3, <1>4, ClaimsMeet
<1>7. WorthOfMove(game, best) = score
  BY <1>2, <1>5, <1>6
<1> DEFINE S == {WorthOfMove(game, m) : m \in Allowed}
<1>8. score \in S /\ \A x \in S : x \in Int /\ x <= score
  BY <1>2, <1>5, <1>7
<1>9. Max(S) = score
  <2> HIDE DEF S
  <2>1. Max(S) = CHOOSE x \in S : \A y \in S : x >= y
    BY DEF Max
  <2>2. \A x \in S : (\A y \in S : x >= y) => x = score
    BY <1>2, <1>8
  <2> QED BY <1>2, <1>8, <2>1, <2>2
<1>10. Better(game, Allowed, score) = {}
  BY <1>2, <1>5 DEF Better
<1> QED BY <1>1, <1>7, <1>9, <1>10

LEMMA EachIsExact ==
    ASSUME SearchAssumption, SearchInv, PassOver, ~aborted, InWindow, options.multiPV > 1, window = FullWindow,
           SeesWhole(game, root, depth), NEW j, j \in 1 .. Len(moves)
    PROVE  WorthOfMove(game, moves[j]) = scores[j].score
<1>1. PICK d, score, m : d = depth /\ score = scores[j].score /\ m = moves[j]
  OBVIOUS
<1>2. pc = "pass" /\ ~Narrows
  BY DEF PassOver, Narrows
<1>3. score \in Int /\ DOMAIN scores = 1 .. Len(moves)
  BY <1>1, AllSearched
<1>4. /\ IsGame(game) /\ root \in Positions(game) /\ Scales /\ d \in Int /\ m \in Positions(game)
      /\ ScoresClaim(scores, window, depth, moves)
  <2>1. IsGame(game) /\ root \in Positions(game) /\ Scales /\ d \in Int
    BY <1>1, InvIs
  <2>2. m \in Positions(game) /\ ScoresClaim(scores, window, depth, moves)
    BY <1>1, <1>2, PassIsSet
  <2> QED BY <2>1, <2>2
<1>5. window[1] = -32000 /\ window[2] = 32000
  BY <1>4 DEF FullWindow, Scales
<1>6. /\ score < 32000 => MoveAbove(game, root, d, 0, m, score)
      /\ score > -32000 => MoveBelow(game, root, d, 0, m, score)
  <2>1. j \in DOMAIN scores
    BY <1>3
  <2>2. /\ scores[j].score < window[2] => MoveAbove(game, root, depth, 0, moves[j], scores[j].score)
        /\ scores[j].score > window[1] => MoveBelow(game, root, depth, 0, moves[j], scores[j].score)
    BY <1>2, <1>4, <2>1, ZenonT(30) DEF ScoresClaim
  <2> QED BY <1>1, <1>5, <2>2
<1>7. root \in game.timeless /\ d >= game.sees.lower[root] /\ d >= game.sees.upper[root]
  BY <1>1, <1>4, SeesBoth
<1>8. PICK w : w = WorthOfMove(game, m)
  OBVIOUS
<1>9. w \in Int /\ -30000 <= w /\ w <= 30000
  BY <1>4, <1>8, WorthIs
<1>10. /\ MoveBelow(game, root, d, 0, m, score) => w >= score
       /\ MoveAbove(game, root, d, 0, m, score) => w <= score
  BY <1>3, <1>4, <1>7, <1>8, ClaimsMeet
<1>11. (score < 32000 => w <= score) /\ (score > -32000 => w >= score)
  BY <1>6, <1>10
<1>12. w = score
  BY <1>3, <1>9, <1>11
<1> QED BY <1>1, <1>8, <1>12

(* Fewer moves are better than the line of some rank than lines come before it. *)
LEMMA FewAreBetter ==
    ASSUME SearchAssumption, SearchInv, PassOver, ~aborted, InWindow, options.multiPV > 1, window = FullWindow,
           SeesWhole(game, root, depth),
           NEW k, k \in 1 .. Len(moves), NEW j, j = RankAt(k)
    PROVE  /\ j \in 1 .. Len(moves) /\ WorthOfMove(game, moves[j]) = scores[j].score
           /\ Cardinality(Better(game, Allowed, scores[j].score)) < k
<1>1. PICK n : n = Len(moves)
  OBVIOUS
<1>2. pc = "pass"
  BY DEF PassOver
<1>3. /\ n \in Nat /\ moves \in Seq(Positions(game)) /\ DOMAIN moves = 1 .. n /\ ToSet(moves) = Allowed
  BY <1>1, <1>2, PassIsSet
<1>4. \A i \in 1 .. n : scores[i].score \in Int
  BY <1>1, AllSearched
<1>5. j \in 1 .. n /\ Rank(j) = k - 1
  BY <1>1, <1>3, <1>4, RankedAre
<1>6. \A i \in 1 .. n : WorthOfMove(game, moves[i]) = scores[i].score
  BY <1>1, EachIsExact
<1>7. IsFiniteSet(Ahead(n, j)) /\ Cardinality(Ahead(n, j)) = k - 1
  BY <1>3, <1>4, <1>5, RankGrows
<1> DEFINE f == [i \in Ahead(n, j) |-> moves[i]]
           T == {moves[i] : i \in Ahead(n, j)}
<1>8. f \in Surjection(Ahead(n, j), T)
  BY DEF Surjection
<1>9. IsFiniteSet(T) /\ Cardinality(T) <= k - 1
  BY <1>7, <1>8, FS_Surjection
<1>10. Better(game, Allowed, scores[j].score) \in SUBSET T
  <2> SUFFICES ASSUME NEW m \in Allowed, WorthOfMove(game, m) > scores[j].score PROVE m \in T
    BY DEF Better
  <2>1. PICK i \in 1 .. n : m = moves[i]
    BY <1>3 DEF ToSet
  <2>2. Before(i, j)
    BY <1>6, <2>1 DEF Before
  <2> QED BY <2>1, <2>2 DEF Ahead
<1> HIDE DEF T
<1>11. PICK b, t : b = Cardinality(Better(game, Allowed, scores[j].score)) /\ t = Cardinality(T)
  OBVIOUS
<1>12. b <= t /\ b \in Nat /\ t \in Nat /\ t <= k - 1 /\ k \in Nat
  BY <1>9, <1>10, <1>11, FS_Subset, FS_CardinalityType
<1>13. b < k
  BY <1>12
<1> QED BY <1>1, <1>5, <1>6, <1>11, <1>13

-----------------------------------------------------------------------------
(* What is told when an iteration ends. *)
Tells(line, k, j) ==
    /\ j \in 1 .. Len(moves) /\ line.move = moves[j] /\ line.score = scores[j].score
    /\ line.pv # <<>> /\ LineIn(game, root, line.pv, moves[j], depth)
    /\ k = 1 => j = BestOf(scores)
    /\ options.multiPV > 1 => j = RankAt(k)

LEMMA FirstOf ==
    ASSUME NEW n \in Nat, NEW s, s = [k \in 1 .. n |-> s[k]], NEW m \in 1 .. n, NEW t, t = SubSeq(s, 1, m)
    PROVE  DOMAIN t = 1 .. m /\ \A k \in 1 .. m : t[k] = s[k]
<1> DEFINE S == {s[k] : k \in 1 .. n}
<1>1. s \in Seq(S) /\ Len(s) = n
  OBVIOUS
<1> HIDE DEF S
<1> QED BY <1>1

LEMMA PvOfHolds ==
    ASSUME SearchAssumption, SearchInv, pc = "pass", NEW j, j \in 1 .. Len(moves),
           NEW table, table \in Tables(game), NEW pv, pv = PvOf(moves[j], table)
    PROVE  LineIn(game, root, pv, moves[j], depth) /\ pv # <<>>
<1>1. PICK m : m = moves[j]
  OBVIOUS
<1>2. m \in ToSet(game.moves[root]) /\ ~Ended(game, root) /\ depth > 0
  <2>1. PICK d : d = depth
    OBVIOUS
  <2>2. d \in 1 .. MaxDepth
    BY <2>1, PassIsSet
  <2>3. d > 0
    BY <2>2
  <2> QED BY <1>1, <2>1, <2>3, PassIsSet
<1>3. IsLine(pv, m, depth) /\ pv # <<>>
  BY <1>1, <1>2, PvOfIs
<1>4. LineIn(game, root, pv, m, depth)
  BY <1>3 DEF IsLine, LineIn
<1> QED BY <1>1, <1>3, <1>4

LEMMA LineIsOf ==
    ASSUME SearchAssumption, SearchInv, LinesInv, Accept, options.multiPV > 1, NEW j, j \in 1 .. Len(moves),
           NEW line, line = LineOf(j, tt')
    PROVE  /\ line.move = moves[j] /\ line.score = scores[j].score
           /\ line.pv # <<>> /\ LineIn(game, root, line.pv, moves[j], depth)
<1>1. PassOver /\ ~aborted /\ InWindow /\ pc = "pass"
  BY DEF Accept, PassOver
<1>2. line.move = moves[j] /\ line.score = scores[j].score
      /\ line.pv = IF Alone THEN scores[j].pv ELSE PvOf(moves[j], tt')
  BY DEF LineOf
<1>3. CASE Alone
  <2>1. j \in DOMAIN scores
    BY <1>1, AllSearched
  <2>2. PvsHold
    BY <1>1, <1>3 DEF LinesInv
  <2> QED BY <1>2, <1>3, <2>1, <2>2 DEF PvsHold
<1>4. CASE ~Alone
  <2>1. tt' \in Tables(game)
    BY AcceptStores
  <2>2. PICK pv : pv = PvOf(moves[j], tt')
    OBVIOUS
  <2>3. LineIn(game, root, pv, moves[j], depth) /\ pv # <<>>
    BY <1>1, <2>1, <2>2, PvOfHolds
  <2> QED BY <1>2, <1>4, <2>2, <2>3
<1> QED BY <1>3, <1>4

LEMMA LinesTell ==
    ASSUME SearchAssumption, SearchInv, LinesInv, Accept
    PROVE  DOMAIN lines' = 1 .. options.multiPV /\ \A k \in 1 .. options.multiPV : \E j : Tells(lines'[k], k, j)
<1>1. PassOver /\ ~aborted /\ InWindow /\ pc = "pass"
  BY DEF Accept, PassOver
<1>2. PICK b, best : b = BestOf(scores) /\ best = moves[b]
  OBVIOUS
<1>3. /\ b \in 1 .. Len(moves) /\ Len(moves) \in Nat /\ DOMAIN scores = 1 .. Len(moves)
      /\ \A i \in 1 .. Len(moves) : scores[i].score \in Int
  BY <1>1, <1>2, AllSearched
<1>4. /\ moves \in Seq(Positions(game)) /\ Len(moves) > 0 /\ DOMAIN moves = 1 .. Len(moves)
      /\ AreScores(scores, next - 1)
  BY <1>1, PassIsSet
<1>5. options.multiPV \in Nat \ {0} /\ options.multiPV <= Len(moves)
  <2>1. Len(moves) = Len(AllowedMoves(game, root, options)) /\ options.multiPV <= Len(AllowedMoves(game, root, options))
    BY <1>1 DEF LinesInv, Searching
  <2> QED BY <2>1, InvIs
<1>6. CASE options.multiPV = 1
  <2>1. PICK line : line = [move |-> best, score |-> BestScore, at |-> b, pv |-> PvOf(best, tt')]
    OBVIOUS
  <2>2. lines' = <<line>>
    BY <1>2, <1>6, <2>1 DEF Accept
  <2>3. line.pv # <<>> /\ LineIn(game, root, line.pv, moves[b], depth)
    <3>1. PICK pv : pv = PvOf(moves[b], tt')
      OBVIOUS
    <3>2. LineIn(game, root, pv, moves[b], depth) /\ pv # <<>>
      BY <1>1, <1>3, <3>1, AcceptStores, PvOfHolds
    <3> QED BY <1>2, <2>1, <3>1, <3>2
  <2>4. line.move = moves[b] /\ line.score = scores[b].score
    BY <1>2, <2>1 DEF BestScore
  <2>5. Tells(line, 1, b)
    BY <1>2, <1>3, <1>6, <2>3, <2>4 DEF Tells
  <2>6. DOMAIN lines' = 1 .. 1 /\ lines'[1] = line /\ \A k \in 1 .. 1 : k = 1
    BY <2>2
  <2> QED BY <1>6, <2>5, <2>6
<1>7. CASE options.multiPV # 1
  <2>1. PICK n, many : n = Len(moves) /\ many = options.multiPV
    OBVIOUS
  <2>2. n \in Nat /\ n > 0 /\ many \in 1 .. n /\ many > 1
    BY <1>4, <1>5, <1>7, <2>1
  <2>3. PICK all : all = Ranked
    OBVIOUS
  <2>4. all = [k \in 1 .. n |-> LineOf(RankAt(k), tt')]
    BY <1>4, <2>1, <2>3 DEF Ranked
  <2>5. all = [k \in 1 .. n |-> all[k]]
    BY <2>4
  <2>6. PICK told : told = SubSeq(all, 1, many)
    OBVIOUS
  <2>7. DOMAIN told = 1 .. many /\ \A k \in 1 .. many : told[k] = all[k]
    BY <2>2, <2>5, <2>6, FirstOf
  <2>8. lines' = told
    BY <1>7, <2>1, <2>3, <2>6 DEF Accept
  <2>9. ASSUME NEW k \in 1 .. many PROVE \E j : Tells(told[k], k, j)
    <3>1. k \in 1 .. n
      BY <2>2
    <3>2. PICK j, line : j = RankAt(k) /\ line = LineOf(j, tt')
      OBVIOUS
    <3>3. told[k] = line
      BY <2>4, <2>7, <3>1, <3>2
    <3>4. j \in 1 .. n
      BY <1>3, <1>4, <2>1, <2>2, <3>1, <3>2, RankedAre
    <3>5. /\ line.move = moves[j] /\ line.score = scores[j].score
          /\ line.pv # <<>> /\ LineIn(game, root, line.pv, moves[j], depth)
      BY <2>1, <2>2, <3>2, <3>4, LineIsOf
    <3>6. k = 1 => j = b
      <4>1. \A i \in DOMAIN scores : scores[i].score \in Int
        BY <1>3
      <4>2. AreScores(scores, n)
        BY <1>3, <1>4, <2>1, <4>1 DEF AreScores
      <4> QED BY <1>2, <1>3, <1>4, <2>1, <2>2, <3>2, <4>2, FirstRank
    <3>7. Tells(line, k, j)
      BY <1>2, <2>1, <3>2, <3>4, <3>5, <3>6 DEF Tells
    <3> QED BY <3>3, <3>7
  <2> QED BY <2>1, <2>7, <2>8, <2>9
<1> QED BY <1>6, <1>7

LEMMA AcceptIsExact ==
    ASSUME SearchAssumption, SearchInv, LinesInv, Accept,
           SeesWhole(game, root, depth)
    PROVE  Exact(game, Allowed, result', lines')
<1>1. PassOver /\ ~aborted /\ InWindow /\ pc = "pass"
  BY DEF Accept, PassOver
<1>2. result'.score = BestScore /\ result'.best = moves[BestOf(scores)]
  BY DEF Accept
<1>3. /\ BestScore = Max({WorthOfMove(game, m) : m \in Allowed})
      /\ WorthOfMove(game, moves[BestOf(scores)]) = BestScore
      /\ Better(game, Allowed, BestScore) = {}
  BY <1>1, BestIsMax
<1>4. DOMAIN lines' = 1 .. options.multiPV /\ \A k \in 1 .. options.multiPV : \E j : Tells(lines'[k], k, j)
  BY LinesTell
<1>5. options.multiPV \in Nat \ {0} /\ options.multiPV <= Len(moves) /\ Len(moves) \in Nat
  <2>1. Len(moves) = Len(AllowedMoves(game, root, options)) /\ options.multiPV <= Len(AllowedMoves(game, root, options))
        /\ Len(moves) \in Nat
    BY <1>1, PassIsSet DEF LinesInv, Searching
  <2> QED BY <2>1, InvIs
<1>6. ASSUME NEW k \in DOMAIN lines'
      PROVE  /\ WorthOfMove(game, lines'[k].move) = lines'[k].score
             /\ Cardinality(Better(game, Allowed, lines'[k].score)) < k
  <2>1. PICK j : Tells(lines'[k], k, j)
    BY <1>4
  <2>2. j \in 1 .. Len(moves) /\ lines'[k].move = moves[j] /\ lines'[k].score = scores[j].score
    BY <2>1 DEF Tells
  <2>3. CASE options.multiPV = 1
    <3>1. k = 1
      BY <1>4, <2>3
    <3>2. j = BestOf(scores)
      BY <2>1, <3>1 DEF Tells
    <3>3. lines'[k].score = BestScore /\ WorthOfMove(game, lines'[k].move) = BestScore
      BY <1>3, <2>2, <3>2 DEF BestScore
    <3>4. Cardinality({}) = 0
      BY FS_EmptySet
    <3>5. Better(game, Allowed, lines'[k].score) = {}
      BY <1>3, <3>3
    <3> QED BY <3>1, <3>3, <3>4, <3>5
  <2>4. CASE options.multiPV # 1
    <3>1. j = RankAt(k) /\ options.multiPV > 1 /\ k \in 1 .. Len(moves)
      <4>1. PICK n, size : n = options.multiPV /\ size = Len(moves)
        OBVIOUS
      <4>2. n \in Nat \ {0} /\ n <= size /\ size \in Nat /\ n # 1 /\ k \in 1 .. n
        BY <1>4, <1>5, <2>4, <4>1
      <4>3. n > 1 /\ k \in 1 .. size
        BY <4>2
      <4>4. j = RankAt(k)
        BY <2>1, <4>1, <4>3 DEF Tells
      <4> QED BY <4>1, <4>3, <4>4
    <3>2. window = FullWindow
      BY <1>1, <3>1 DEF LinesInv
    <3>3. /\ WorthOfMove(game, moves[j]) = scores[j].score
          /\ Cardinality(Better(game, Allowed, scores[j].score)) < k
      BY <1>1, <3>1, <3>2, FewAreBetter
    <3> QED BY <2>2, <3>3
  <2> QED BY <2>3, <2>4
<1>7. lines'[1].move = result'.best
  <2>1. 1 \in 1 .. options.multiPV
    BY <1>5
  <2>2. PICK j : Tells(lines'[1], 1, j)
    BY <1>4, <2>1
  <2> QED BY <1>2, <2>2 DEF Tells
<1> QED BY <1>2, <1>3, <1>6, <1>7 DEF Exact

LEMMA AcceptSettles ==
    ASSUME SearchAssumption, SearchInv, LinesInv, Accept
    PROVE  Settled(game, root, Allowed, result', lines')
<1>1. PassOver /\ ~aborted /\ InWindow /\ pc = "pass"
  BY DEF Accept, PassOver
<1>2. /\ result'.score = BestScore /\ result'.best = moves[BestOf(scores)] /\ result'.depth = depth /\ ~result'.mate
      /\ result'.pv = lines'[1].pv
  BY DEF Accept
<1>3. result'.best # NoMove /\ depth > 0
  <2>1. PICK d : d = depth
    OBVIOUS
  <2>2. d \in 1 .. MaxDepth
    BY <1>1, <2>1, PassIsSet
  <2>3. d > 0
    BY <2>2
  <2> QED BY <1>1, <1>2, <2>1, <2>3, BestClaims, AllowedAre
<1>4. DOMAIN lines' = 1 .. options.multiPV /\ \A k \in 1 .. options.multiPV : \E j : Tells(lines'[k], k, j)
  BY LinesTell
<1>5. LinesAre(game, root, result', lines')
  <2>1. ASSUME NEW k \in DOMAIN lines'
        PROVE  lines'[k].pv # <<>> /\ LineIn(game, root, lines'[k].pv, lines'[k].move, depth)
    <3>1. PICK j : Tells(lines'[k], k, j)
      BY <1>4
    <3> QED BY <3>1 DEF Tells
  <2> QED BY <1>2, <2>1 DEF LinesAre
<1>6. result'.pv # <<>> /\ LineIn(game, root, result'.pv, result'.best, result'.depth)
  <2>1. 1 \in 1 .. options.multiPV
    BY InvIs
  <2>2. PICK j : Tells(lines'[1], 1, j)
    BY <1>4, <2>1
  <2> QED BY <1>2, <2>2 DEF Tells
<1>7. SeesWhole(game, root, depth) => Exact(game, Allowed, result', lines')
  BY AcceptIsExact
<1> QED BY <1>2, <1>3, <1>5, <1>6, <1>7 DEF Settled

-----------------------------------------------------------------------------
(* What is told, step by step. *)
TellsInv == ToldInv /\ LinesInv

LEMMA AllowedStays ==
    ASSUME UNCHANGED <<game, root>>, options'.searchmoves = options.searchmoves
    PROVE  /\ Allowed' = Allowed /\ AllowedMoves(game, root, options)' = AllowedMoves(game, root, options)
           /\ Ended(game, root)' = Ended(game, root)
BY DEF Allowed, AllowedMoves, Ended

LEMMA StillKnown ==
    ASSUME LastKnown, UNCHANGED <<game, root, result, lines>>, Allowed' = Allowed
    PROVE  LastKnown'
BY DEF LastKnown

LEMMA AnsweredTells ==
    ASSUME LastKnown, IsResult(result), Answered, UNCHANGED <<game, root, lines>>, Allowed' = Allowed
    PROVE  LastKnown' /\ result'.depth = result.depth
<1>1. CASE NothingYet(result, lines)
  <2>1. PICK best : result' = [result EXCEPT !.best = best]
    <3>1. result' = [result EXCEPT !.best = fallback] \/ result' = [result EXCEPT !.best = result.best]
      BY DEF Answered, IsResult
    <3> QED BY <3>1
  <2>2. result'.depth = result.depth /\ result'.mate = result.mate /\ result'.pv = result.pv
    BY <2>1 DEF IsResult
  <2>3. NothingYet(result', lines')
    BY <1>1, <2>2 DEF NothingYet
  <2> QED BY <2>2, <2>3 DEF LastKnown
<1>2. CASE Settled(game, root, Allowed, result, lines)
  <2>1. result' = result
    BY <1>2 DEF Answered, Settled
  <2> QED BY <2>1, StillKnown
<1> QED BY <1>1, <1>2 DEF LastKnown

LEMMA BeginTells == SearchAssumption /\ SearchInv /\ Begin => TellsInv'
<1> SUFFICES ASSUME SearchAssumption, SearchInv, Begin PROVE TellsInv'
  OBVIOUS
<1> DEFINE allowed == AllowedMoves(game, root, options)
<1>1. game' = game /\ root' = root /\ lines' = <<>>
  BY DEF Begin
<1>2. allowed = <<>> <=> Allowed = {}
  BY AllowedAre
<1>3. CASE Ended(game, root) \/ allowed = <<>>
  <2>1. /\ pc' = "done" /\ options' = options
        /\ \E score : result' = [NoResult EXCEPT !.score = score]
    BY <1>3 DEF Begin
  <2>2. result'.depth = 0 /\ ~result'.mate /\ result'.pv = <<>>
    BY <2>1 DEF NoResult
  <2>3. LastKnown'
    BY <1>1, <2>2 DEF LastKnown, NothingYet
  <2>4. Allowed' = Allowed /\ Ended(game, root)' = Ended(game, root)
    BY <1>1, <2>1, AllowedStays
  <2>5. ToldInv'
    BY <1>2, <1>3, <2>1, <2>3, <2>4 DEF ToldInv
  <2> QED BY <2>1, <2>5 DEF TellsInv, LinesInv, Searching
<1>4. CASE ~(Ended(game, root) \/ allowed = <<>>)
  <2>1. pc' = "fallback" /\ result' = NoResult /\ SetUp(allowed)
    BY <1>4 DEF Begin
  <2>2. PICK t, n : t = Threads(options, allowed) /\ n = MultiPV(options, allowed)
    OBVIOUS
  <2>3. options' = [[options EXCEPT !.threads = t] EXCEPT !.multiPV = n]
    BY <2>1, <2>2 DEF SetUp
  <2>4. [options EXCEPT !.threads = t] =
           [threads |-> t, multiPV |-> options.multiPV, maxDepth |-> options.maxDepth,
            window |-> options.window, searchmoves |-> options.searchmoves, patient |-> options.patient]
    BY OptionsAre
  <2>5. options'.multiPV = n /\ options'.searchmoves = options.searchmoves
    BY <2>3, <2>4
  <2>6. Len(allowed) \in Nat /\ options.multiPV \in Nat
    BY InvIs, AllowedIs
  <2>7. AllowedMoves(game, root, options)' = allowed
    BY <1>1, <2>5, AllowedStays
  <2> HIDE DEF allowed
  <2>8. n <= Len(allowed)
    <3>1. PICK k, length : k = options.multiPV /\ length = Len(allowed)
      OBVIOUS
    <3>2. n = Smaller(k, length)
      BY <2>2, <3>1 DEF MultiPV
    <3> QED BY <2>6, <3>1, <3>2 DEF Smaller
  <2>9. NothingYet(result', lines')
    BY <1>1, <2>1 DEF NoResult, NothingYet
  <2>10. ToldInv'
    BY <2>1, <2>9 DEF ToldInv
  <2>11. LinesInv'
    BY <2>1, <2>5, <2>7, <2>8 DEF LinesInv
  <2> QED BY <2>10, <2>11 DEF TellsInv
<1> QED BY <1>3, <1>4

LEMMA FallbackTells == TellsInv /\ Fallback => TellsInv'
<1> SUFFICES ASSUME TellsInv, Fallback PROVE TellsInv'
  OBVIOUS
<1>1. pc = "fallback" /\ pc' = "mate" /\ UNCHANGED <<game, root, options, result, lines>>
  BY DEF Fallback
<1>2. AllowedMoves(game, root, options)' = AllowedMoves(game, root, options)
  BY <1>1, AllowedStays
<1>3. NothingYet(result, lines) /\ options.multiPV <= Len(AllowedMoves(game, root, options))
  BY <1>1 DEF TellsInv, ToldInv, LinesInv, Searching
<1> QED BY <1>1, <1>2, <1>3 DEF TellsInv, ToldInv, LinesInv

LEMMA MateProbeTells == SearchAssumption /\ SearchInv /\ TellsInv /\ MateProbe => TellsInv'
<1> SUFFICES ASSUME SearchAssumption, SearchInv, TellsInv, MateProbe PROVE TellsInv'
  OBVIOUS
<1>1. pc = "mate" /\ depth' = 0 /\ ~aborted' /\ UNCHANGED <<game, root, options, lines>>
  BY DEF MateProbe
<1>2. AllowedMoves(game, root, options)' = AllowedMoves(game, root, options) /\ Allowed' = Allowed
  BY <1>1, AllowedStays
<1>3. NothingYet(result, lines) /\ options.multiPV <= Len(AllowedMoves(game, root, options))
  BY <1>1 DEF TellsInv, ToldInv, LinesInv, Searching
<1>4. CASE pc' = "iterate" /\ result' = result
  <2>1. NothingYet(result', lines') /\ result'.depth = depth'
    BY <1>1, <1>3, <1>4 DEF NothingYet
  <2>2. ToldInv'
    BY <1>1, <1>4, <2>1 DEF ToldInv, LastKnown
  <2> QED BY <1>1, <1>2, <1>3, <1>4, <2>2 DEF TellsInv, LinesInv
<1>5. CASE \E line : /\ pc' = "done" /\ IsMate(line) /\ ~Restricted
                     /\ result' = [best |-> line[1], score |-> MateScore - Len(line),
                                   depth |-> MateSearchMaxPly, mate |-> TRUE, pv |-> line]
  <2>1. PICK line : /\ pc' = "done" /\ IsMate(line)
                    /\ result' = [best |-> line[1], score |-> MateScore - Len(line),
                                  depth |-> MateSearchMaxPly, mate |-> TRUE, pv |-> line]
    BY <1>5
  <2>2. /\ line # <<>> /\ line \in Seq(Positions(game)) /\ Len(line) <= MateSearchMaxPly
        /\ LegalLine(game, root, line) /\ WorthOfMove(game, line[1]) >= MateScore - Len(line)
    BY <2>1 DEF IsMate, Forced
  <2>3. LineIn(game, root, line, line[1], MateSearchMaxPly)
    <3>1. DOMAIN line = 1 .. Len(line)
      BY <2>2
    <3>2. \A i \in DOMAIN line : line[i] \in ToSet(game.moves[IF i = 1 THEN root ELSE line[i - 1]])
      BY <2>2, <3>1, ZenonT(30) DEF LegalLine
    <3> QED BY <2>2, <3>2 DEF LineIn
  <2>4. /\ result'.mate /\ result'.pv = line /\ result'.best = line[1] /\ result'.depth = MateSearchMaxPly
        /\ result'.score = MateScore - Len(line)
    BY <2>1
  <2>5. FoundMate(game, root, result', lines')
    BY <1>1, <1>3, <2>2, <2>3, <2>4 DEF FoundMate, NothingYet
  <2>6. ToldInv'
    BY <1>1, <2>1, <2>4, <2>5 DEF ToldInv
  <2> QED BY <2>1, <2>6 DEF TellsInv, LinesInv, Searching
<1> QED BY <1>4, <1>5, MateProbeIs

LEMMA NextIterationTells == SearchAssumption /\ SearchInv /\ AnswerInv /\ TellsInv /\ NextIteration => TellsInv'
<1> SUFFICES ASSUME SearchAssumption, SearchInv, AnswerInv, TellsInv, NextIteration PROVE TellsInv'
  OBVIOUS
<1>1. pc = "iterate" /\ UNCHANGED <<game, root, options, lines, aborted>>
  BY DEF NextIteration
<1>2. AllowedMoves(game, root, options)' = AllowedMoves(game, root, options) /\ Allowed' = Allowed
  BY <1>1, AllowedStays
<1>3. /\ LastKnown /\ result.depth = depth /\ ~aborted /\ IsResult(result)
      /\ options.multiPV <= Len(AllowedMoves(game, root, options))
  BY <1>1 DEF TellsInv, ToldInv, LinesInv, Searching, AnswerInv
<1>4. \/ /\ pc' = "done" /\ Answered
         /\ stopped' \/ depth = options.maxDepth
      \/ pc' = "pass" /\ window' = WindowOf(depth + 1) /\ moves' = RootOrder /\ scores' = <<>> /\ result' = result
  BY DEF NextIteration
<1>5. CASE pc' = "done" /\ Answered /\ (stopped' \/ depth = options.maxDepth)
  <2>1. LastKnown' /\ result'.depth = depth
    BY <1>1, <1>2, <1>3, <1>5, AnsweredTells
  <2>2. ToldInv'
    BY <1>1, <1>5, <2>1 DEF ToldInv
  <2> QED BY <1>5, <2>2 DEF TellsInv, LinesInv, Searching
<1>6. CASE pc' = "pass" /\ window' = WindowOf(depth + 1) /\ moves' = RootOrder /\ scores' = <<>> /\ result' = result
  <2>1. LastKnown'
    BY <1>1, <1>2, <1>3, <1>6, StillKnown
  <2>2. ToldInv'
    BY <1>6, <2>1 DEF ToldInv
  <2>3. Len(moves') = Len(AllowedMoves(game, root, options))
    BY <1>6, RootOrderIs
  <2>4. options.multiPV > 1 => window' = FullWindow
    BY <1>6 DEF WindowOf
  <2>5. PvsHold'
    <3>1. DOMAIN <<>> = {}
      OBVIOUS
    <3> QED BY <1>6, <3>1 DEF PvsHold
  <2>6. LinesInv'
    BY <1>1, <1>2, <1>3, <1>6, <2>3, <2>4, <2>5 DEF LinesInv
  <2> QED BY <2>2, <2>6 DEF TellsInv
<1> QED BY <1>4, <1>5, <1>6

(* In a pass nothing new is told; the lines of one thread's moves come with their scores. *)
LEMMA PassTells ==
    ASSUME TellsInv, pc = "pass", UNCHANGED <<game, root, options, pc, moves, result, lines>>,
           aborted' => stopped', options.multiPV > 1 => window' = FullWindow, Alone /\ options.multiPV > 1 => PvsHold'
    PROVE  TellsInv'
<1>1. AllowedMoves(game, root, options)' = AllowedMoves(game, root, options) /\ Allowed' = Allowed
  BY AllowedStays
<1>2. /\ LastKnown /\ options.multiPV <= Len(AllowedMoves(game, root, options))
      /\ Len(moves) = Len(AllowedMoves(game, root, options))
  BY DEF TellsInv, ToldInv, LinesInv, Searching
<1>3. ToldInv'
  BY <1>1, <1>2, StillKnown DEF ToldInv
<1>4. Alone' = Alone
  BY DEF Alone
<1>5. LinesInv'
  BY <1>1, <1>2, <1>4 DEF LinesInv
<1> QED BY <1>3, <1>5 DEF TellsInv

LEMMA TookTells ==
    ASSUME SearchAssumption, SearchInv, TellsInv, pc = "pass", UNCHANGED <<game, root, options, pc, depth, moves>>,
           NEW i, i \in 1 .. Len(moves), NEW r, r \in Searches(game), Took(i, r)
    PROVE  /\ aborted' => stopped'
           /\ Alone /\ options.multiPV > 1 => PvsHold'
<1>1. (aborted => stopped) /\ (Alone /\ options.multiPV > 1 => PvsHold)
  BY DEF TellsInv, LinesInv
<1>2. aborted' => stopped'
  BY <1>1 DEF Took
<1>3. ASSUME Alone, options.multiPV > 1 PROVE PvsHold'
  <2>1. PICK pv : pv = PvOf(moves[i], r.tt)
    OBVIOUS
  <2>2. LineIn(game, root, pv, moves[i], depth) /\ pv # <<>>
    BY <2>1, SearchType, PvOfHolds
  <2>3. CASE r.aborted
    <3>1. scores' = scores
      BY <2>3 DEF Took
    <3> QED BY <1>1, <1>3, <3>1 DEF PvsHold
  <2>4. CASE ~r.aborted
    <3>1. PICK e : e = [score |-> r.score, pv |-> pv]
      OBVIOUS
    <3>2. scores' = WithScore(scores, i, e)
      BY <1>3, <2>1, <2>4, <3>1 DEF Took
    <3>3. /\ DOMAIN scores' = DOMAIN scores \cup {i}
          /\ \A j \in DOMAIN scores' : scores'[j] = IF j = i THEN e ELSE scores[j]
      BY <3>2 DEF WithScore
    <3>4. e.pv = pv
      BY <3>1
    <3>5. ASSUME NEW j \in DOMAIN scores'
          PROVE  scores'[j].pv # <<>> /\ LineIn(game, root, scores'[j].pv, moves[j], depth)
      BY <1>1, <1>3, <2>2, <3>3, <3>4 DEF PvsHold
    <3> QED BY <3>5 DEF PvsHold
  <2> QED BY <2>3, <2>4
<1> QED BY <1>2, <1>3

LEMMA NextMoveTells == SearchAssumption /\ SearchInv /\ TellsInv /\ NextMove => TellsInv'
<1> SUFFICES ASSUME SearchAssumption, SearchInv, TellsInv, NextMove PROVE TellsInv'
  OBVIOUS
<1>1. /\ pc = "pass" /\ Alone /\ next <= Len(moves) /\ (Alpha < window[2] \/ options.multiPV > 1)
      /\ UNCHANGED <<game, root, options, pc, depth, window, moves, result, lines>>
  BY DEF NextMove
<1>2. PICK cut \in CutsNow : Took(next, SearchInOrder(next, Search(cut)))
  BY DEF NextMove
<1>3. PICK s : s = Search(cut)
  OBVIOUS
<1>4. s \in Searches(game) /\ TableTrue(game, s.tt)
  BY <1>3, CutsAre, SearchStarts
<1>5. PICK i, r : i = next /\ r = SearchInOrder(i, s)
  OBVIOUS
<1>6. r \in Searches(game)
  BY <1>1, <1>4, <1>5, InOrderSound
<1>7. i \in 1 .. Len(moves) /\ Took(i, r)
  <2>1. next \in 1 .. (Len(moves) + 1) /\ Len(moves) \in Nat
    BY <1>1, PassIsSet
  <2> QED BY <1>1, <1>2, <1>3, <1>5, <2>1
<1>8. (aborted' => stopped') /\ (Alone /\ options.multiPV > 1 => PvsHold')
  BY <1>1, <1>6, <1>7, TookTells
<1>9. options.multiPV > 1 => window' = FullWindow
  BY <1>1 DEF TellsInv, LinesInv
<1> QED BY <1>1, <1>8, <1>9, PassTells

LEMMA TeamTells == TellsInv /\ Team => TellsInv'
<1> SUFFICES ASSUME TellsInv, Team PROVE TellsInv'
  OBVIOUS
<1>1. /\ pc = "pass" /\ ~Alone
      /\ UNCHANGED <<game, root, options, pc, window, moves, result, lines>>
      /\ (aborted => stopped) => (aborted' => stopped')
  <2>1. PICK w \in Workers : TakeMove(w) \/ SearchMove(w)
    BY DEF Team
  <2>2. CASE TakeMove(w)
    BY <2>2 DEF TakeMove
  <2>3. CASE SearchMove(w)
    <3>1. PICK i, r : Took(i, r)
      BY <2>3 DEF SearchMove
    <3>2. (aborted => stopped) => (aborted' => stopped')
      BY <3>1 DEF Took
    <3> QED BY <2>3, <3>2 DEF SearchMove
  <2> QED BY <2>1, <2>2, <2>3
<1>2. (aborted => stopped) /\ (options.multiPV > 1 => window = FullWindow)
  BY <1>1 DEF TellsInv, LinesInv
<1> QED BY <1>1, <1>2, PassTells

LEMMA ReopenTells == TellsInv /\ Reopen => TellsInv'
<1> SUFFICES ASSUME TellsInv, Reopen PROVE TellsInv'
  OBVIOUS
<1>1. /\ pc = "pass" /\ window' = FullWindow /\ scores' = <<>> /\ ~aborted
      /\ UNCHANGED <<game, root, options, pc, depth, moves, aborted, result, lines>>
  BY DEF Reopen, PassOver
<1>2. PvsHold'
  <2>1. DOMAIN <<>> = {}
    OBVIOUS
  <2> QED BY <1>1, <2>1 DEF PvsHold
<1> QED BY <1>1, <1>2, PassTells

LEMMA InterruptedTells == AnswerInv /\ TellsInv /\ Interrupted => TellsInv'
<1> SUFFICES ASSUME AnswerInv, TellsInv, Interrupted PROVE TellsInv'
  OBVIOUS
<1>1. /\ pc = "pass" /\ aborted /\ pc' = "done" /\ Answered
      /\ UNCHANGED <<game, root, options, lines, stopped>>
  BY DEF Interrupted, PassOver
<1>2. Allowed' = Allowed
  BY <1>1, AllowedStays
<1>3. LastKnown /\ stopped /\ IsResult(result)
  BY <1>1 DEF TellsInv, ToldInv, LinesInv, AnswerInv, Searching
<1>4. LastKnown'
  BY <1>1, <1>2, <1>3, AnsweredTells
<1> QED BY <1>1, <1>3, <1>4 DEF TellsInv, ToldInv, LinesInv, Searching

LEMMA AcceptTells == SearchAssumption /\ SearchInv /\ TellsInv /\ Accept => TellsInv'
<1> SUFFICES ASSUME SearchAssumption, SearchInv, TellsInv, Accept PROVE TellsInv'
  OBVIOUS
<1>1. /\ pc = "pass" /\ ~aborted /\ pc' = "iterate" /\ result'.depth = depth
      /\ UNCHANGED <<game, root, options, depth, aborted>>
  BY DEF Accept, PassOver
<1>2. AllowedMoves(game, root, options)' = AllowedMoves(game, root, options) /\ Allowed' = Allowed
  BY <1>1, AllowedStays
<1>3. options.multiPV <= Len(AllowedMoves(game, root, options)) /\ LinesInv
  BY <1>1 DEF TellsInv, LinesInv, Searching
<1>4. Settled(game, root, Allowed, result', lines')
  BY <1>3, AcceptSettles
<1>5. LastKnown'
  BY <1>1, <1>2, <1>4 DEF LastKnown
<1>6. ToldInv'
  BY <1>1, <1>5 DEF ToldInv
<1> QED BY <1>1, <1>2, <1>3, <1>6 DEF TellsInv, LinesInv

LEMMA IdleTells == (PlayOn => TellsInv') /\ (Init => TellsInv)
BY DEF PlayOn, Init, TellsInv, ToldInv, LinesInv, Searching

LEMMA StuttersTell == TellsInv /\ UNCHANGED vars => TellsInv'
<1> SUFFICES ASSUME TellsInv, UNCHANGED vars PROVE TellsInv'
  OBVIOUS
<1>1. UNCHANGED <<game, root, options, pc, depth, window, moves, scores, aborted, result, lines, stopped>>
  BY DEF vars
<1>2. /\ Allowed' = Allowed /\ AllowedMoves(game, root, options)' = AllowedMoves(game, root, options)
      /\ Ended(game, root)' = Ended(game, root)
  BY <1>1, AllowedStays
<1>3. (LastKnown => LastKnown') /\ (PvsHold => PvsHold') /\ Alone' = Alone
  BY <1>1, <1>2 DEF LastKnown, PvsHold, Alone
<1>4. ToldInv'
  BY <1>1, <1>2, <1>3 DEF TellsInv, ToldInv
<1>5. LinesInv'
  BY <1>1, <1>2, <1>3 DEF TellsInv, LinesInv, Searching
<1> QED BY <1>4, <1>5 DEF TellsInv

-----------------------------------------------------------------------------
(* The answer. *)
FullInv == IInv /\ TellsInv

LEMMA StepTells == SearchAssumption /\ FullInv /\ [Next]_vars => TellsInv'
<1> SUFFICES ASSUME SearchAssumption, SearchInv, AnswerInv, TellsInv, [Next]_vars PROVE TellsInv'
  BY DEF FullInv, IInv
<1>1. CASE Begin
  BY <1>1, BeginTells
<1>2. CASE Fallback
  BY <1>2, FallbackTells
<1>3. CASE MateProbe
  BY <1>3, MateProbeTells
<1>4. CASE NextIteration
  BY <1>4, NextIterationTells
<1>5. CASE NextMove
  BY <1>5, NextMoveTells
<1>6. CASE Team
  BY <1>6, TeamTells
<1>7. CASE EndPass
  BY <1>7, InterruptedTells, ReopenTells, AcceptTells DEF EndPass
<1>8. CASE PlayOn
  BY <1>8, IdleTells
<1>9. CASE UNCHANGED vars
  BY <1>9, StuttersTell
<1>10. Over => UNCHANGED vars
  BY DEF Over
<1> QED BY <1>1, <1>2, <1>3, <1>4, <1>5, <1>6, <1>7, <1>8, <1>9, <1>10 DEF Next

LEMMA AnswerFollows == FullInv => AnswerIsBest
<1> SUFFICES ASSUME AnswerInv, ToldInv, pc = "done" PROVE AnswerIsBest
  BY DEF FullInv, IInv, TellsInv, AnswerIsBest
<1>1. /\ ~Ended(game, root) /\ Allowed # {} => result.best \in Allowed
      /\ ~Ended(game, root) /\ Allowed # {} /\ ~stopped => result.mate \/ result.depth = options.maxDepth
  BY DEF AnswerInv, ToldInv
<1>2. CASE NothingYet(result, lines)
  <2>1. Len(<<>>) = 0 /\ DOMAIN <<>> = {}
    OBVIOUS
  <2>2. IsLine(result.pv, result.best, result.depth)
    BY <1>2, <2>1 DEF NothingYet, IsLine
  <2> QED BY <1>1, <1>2, <2>1, <2>2 DEF NothingYet, AnswerIsBest
<1>3. CASE FoundMate(game, root, result, lines)
  <2>1. DOMAIN <<>> = {}
    OBVIOUS
  <2>2. IsLine(result.pv, result.best, result.depth)
    BY <1>3 DEF FoundMate, LineIn, IsLine
  <2> QED BY <1>1, <1>3, <2>1, <2>2 DEF FoundMate, AnswerIsBest, WorthOf
<1>4. CASE Settled(game, root, Allowed, result, lines)
  <2>1. IsLine(result.pv, result.best, result.depth) /\ result.pv # <<>> /\ ~result.mate
    BY <1>4 DEF Settled, LineIn, IsLine
  <2>2. \A i \in DOMAIN lines : IsLine(lines[i].pv, lines[i].move, result.depth) /\ lines[i].pv # <<>>
    <3>1. LinesAre(game, root, result, lines)
      BY <1>4 DEF Settled
    <3> QED BY <3>1 DEF LinesAre, LineIn, IsLine
  <2>3. SawTheEnd /\ root \in game.timeless => Exact(game, Allowed, result, lines)
    BY <1>4 DEF Settled, SawTheEnd, SeesWhole
  <2>4. SawTheEnd /\ root \in game.timeless =>
           /\ result.score = Max({WorthOf(m) : m \in Allowed})
           /\ \A i \in DOMAIN lines : /\ WorthOf(lines[i].move) = lines[i].score
                                      /\ Cardinality({m \in Allowed : WorthOf(m) > lines[i].score}) < i
           /\ lines[1].move = result.best
    BY <2>3 DEF Exact, Better, WorthOf
  <2> QED BY <1>1, <2>1, <2>2, <2>4 DEF AnswerIsBest
<1> QED BY <1>2, <1>3, <1>4 DEF ToldInv, LastKnown

(* However the search ended and on whatever game: the answer is a move that may be played,
   with a line of legal moves; a mate claimed is forced in the plies it says; from a position
   whose worth does not rest on its history, a depth that sees the end gives the best move and
   its value, the other lines in order; and only a stop or a limit keeps it from its last
   depth. *)
THEOREM AnswerHolds == Spec => []AnswerIsBest
<1>1. Init => FullInv
  BY SearchAssumption, InitIsTrue, InitAnswers, IdleTells DEF FullInv, IInv
<1>2. FullInv /\ [Next]_vars => FullInv'
  BY SearchAssumption, StepKeeps, StepTells DEF FullInv
<1> QED BY <1>1, <1>2, AnswerFollows, PTL DEF Spec
=============================================================================
