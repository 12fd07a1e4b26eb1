---------------------------- MODULE TsumeSearch -----------------------------
(***************************************************************************)
(* The tsume solver (src/tsume.cpp) on one thread: solve deepens by two    *)
(* plies until visit, a depth-first search over checks and replies, comes  *)
(* to a conclusion.  Its proof table lives as long as the object, from one *)
(* solve to the next and from one attacker to the other.                   *)
(*                                                                         *)
(* The rules of shogi are a game: which positions follow which, who moves, *)
(* where the side to move is in check, and in which order the generators   *)
(* list legal moves and checks.  A move is the position it leads to.  The  *)
(* recursion is a stack of frames, so that a stop or the deadline can fall *)
(* anywhere.                                                               *)
(***************************************************************************)
EXTENDS TsumeTable

CONSTANTS
    Games,      \* records [legal, checking, side, inCheck]: the successors of each position, ...
    MaxPlies,   \* kMaxPlies
    MaxSolves   \* bounds the calls of solve (no such limit in the code)

Colors == {"black", "white"}

(* Positions are named by their keys. *)
IsGame(g) ==
    LET all == DOMAIN g.legal
    IN /\ all \subseteq Nat /\ all # {} /\ IsFiniteSet(all)
       /\ g.legal \in [all -> Seq(all)] /\ g.checking \in [all -> Seq(all)]
       /\ g.side \in [all -> Colors] /\ g.inCheck \in [all -> BOOLEAN]
       /\ \A p \in all : Range(g.checking[p]) = {q \in Range(g.legal[p]) : g.inCheck[q]}

(* A depth is kept in a byte, of which one value means none. *)
ASSUME TsumeSearchAssumption ==
    /\ \A g \in Games : IsGame(g)
    /\ MaxPlies \in Nat /\ MaxPlies < Unknown /\ MaxSolves \in Nat

VARIABLES
    game,            \* the rules; they never change
    table, tableAttacker,
    attacker, root, limit,   \* the arguments of solve
    depth,           \* the current iteration
    stack,           \* frames: [pos, moves, next, remaining, result]
    reply,           \* what the last visit has returned
    phase,           \* "idle", "enter" a position, "leave" with a reply
    entered,         \* the position and the depth to enter
    solves
vars == <<game, table, tableAttacker, attacker, root, limit, depth, stack, reply, phase,
          entered, solves>>

Positions == DOMAIN game.legal
Side(p) == game.side[p]

Attack(p) == Side(p) = attacker

(* generate_checking_moves, generate_legal_moves. *)
Moves(p) == IF Attack(p) THEN game.checking[p] ELSE game.legal[p]

Init ==
    /\ game \in Games
    /\ table = NoTable /\ tableAttacker = "black" /\ attacker = "black"
    /\ root = CHOOSE p \in Positions : TRUE
    /\ limit = 0 /\ depth = 0
    /\ stack = << >> /\ reply = Missing /\ phase = "idle"
    /\ entered = [pos |-> root, remaining |-> 0]
    /\ solves = 0

Visit(p, remaining) == phase' = "enter" /\ entered' = [pos |-> p, remaining |-> remaining]
Reply(r) == phase' = "leave" /\ reply' = r

(* prepare, and the first iteration.  A limit of 0 with the attacker to move
   runs none, and the result is what it was initialised to. *)
Solve(p, color, plies) ==
    /\ phase = "idle" /\ solves < MaxSolves
    /\ solves' = solves + 1
    /\ table' = Prepared(table, tableAttacker, color)
    /\ tableAttacker' = color /\ attacker' = color /\ root' = p
    /\ limit' = IF plies > MaxPlies THEN MaxPlies ELSE plies
    /\ LET first == IF Side(p) = color THEN 1 ELSE 0
       IN /\ depth' = first
          /\ IF first > limit' THEN Reply(Result("Limit", NoMove, 0)) /\ UNCHANGED entered
             ELSE Visit(p, first) /\ UNCHANGED reply
    /\ stack' = << >>
    /\ UNCHANGED game

-----------------------------------------------------------------------------
(* visit *)

Entering == phase = "enter"
unchangedByVisit == <<game, tableAttacker, attacker, root, limit, depth, solves>>

(* A stop, noticed at any node, or the deadline, looked at every 128 nodes. *)
Abort(status) ==
    /\ Entering /\ status \in Aborts
    /\ Reply(Result(status, NoMove, 0))
    /\ UNCHANGED <<unchangedByVisit, table, stack, entered>>

NotInCheckAtRoot ==
    stack = << >> /\ ~Attack(entered.pos) /\ ~game.inCheck[entered.pos]

DefenceAtDepth0 == ~Attack(entered.pos) /\ entered.remaining = 0 /\ ~NotInCheckAtRoot

LeaveUnthreatened ==
    /\ Entering /\ NotInCheckAtRoot
    /\ Reply(Result("NoMate", NoMove, 0))
    /\ UNCHANGED <<unchangedByVisit, table, stack, entered>>

LeaveLastDefence ==
    /\ Entering /\ DefenceAtDepth0
    /\ Reply(Result(IF game.legal[entered.pos] = << >> THEN "Mate" ELSE "Limit", NoMove, 0))
    /\ UNCHANGED <<unchangedByVisit, table, stack, entered>>

Cached == ProbeIn(table, entered.pos, entered.remaining)
Searches == Entering /\ ~NotInCheckAtRoot /\ ~DefenceAtDepth0

LeaveCached ==
    /\ Searches /\ Cached # Missing
    /\ Reply(Cached)
    /\ UNCHANGED <<unchangedByVisit, table, stack, entered>>

(* The result before any reply is in. *)
Start(p) == Result(IF Attack(p) THEN "NoMate" ELSE "Mate", NoMove, 0)

LeaveWithoutMoves ==
    /\ Searches /\ Cached = Missing /\ Moves(entered.pos) = << >>
    /\ Reply(Start(entered.pos))
    /\ table' = StoreIn(table, entered.pos, entered.remaining, Start(entered.pos))
    /\ UNCHANGED <<unchangedByVisit, stack, entered>>

LeaveAtLimit ==
    /\ Searches /\ Cached = Missing /\ Moves(entered.pos) # << >>
    /\ entered.remaining = 0
    /\ Reply(Result("Limit", NoMove, 0))
    /\ UNCHANGED <<unchangedByVisit, table, stack, entered>>

Expand ==
    /\ Searches /\ Cached = Missing /\ Moves(entered.pos) # << >>
    /\ entered.remaining > 0
    /\ stack' = Append(stack, [pos |-> entered.pos, moves |-> Moves(entered.pos), next |-> 1,
                               remaining |-> entered.remaining, result |-> Start(entered.pos)])
    /\ Visit(Moves(entered.pos)[1], entered.remaining - 1)
    /\ UNCHANGED <<unchangedByVisit, table, reply>>

-----------------------------------------------------------------------------
(* accumulate_reply: the result so far with one more reply. *)
Accumulate(attack, move, r, result) ==
    IF r.status \in Aborts THEN r
    ELSE IF Decisive(attack, r.status) THEN Result(r.status, move, r.plies + 1)
    ELSE IF r.status = "Limit" THEN Result("Limit", move, 0)
    ELSE IF ~attack /\ result.status = "Mate" /\ r.plies + 1 > result.plies
    THEN Result("Mate", move, r.plies + 1)
    ELSE result

Settled(attack, r) == r.status \in Aborts \/ Decisive(attack, r.status)

Top == stack[Len(stack)]
Sum == Accumulate(Attack(Top.pos), Top.moves[Top.next], reply, Top.result)
TopIsDone == Settled(Attack(Top.pos), reply) \/ Top.next = Len(Top.moves)

NextReply ==
    /\ phase = "leave" /\ stack # << >> /\ ~TopIsDone
    /\ stack' = [stack EXCEPT ![Len(stack)].result = Sum, ![Len(stack)].next = @ + 1]
    /\ Visit(Top.moves[Top.next + 1], Top.remaining - 1)
    /\ UNCHANGED <<unchangedByVisit, table, reply>>

(* Mutant: an aborted search is stored as one without a mate. *)
LeaveStoresAborts ==
    /\ phase = "leave" /\ stack # << >> /\ TopIsDone
    /\ Reply(Sum)
    /\ table' = StoreIn(table, Top.pos, Top.remaining,
                        IF Sum.status \in Aborts THEN Top.result ELSE Sum)
    /\ stack' = SubSeq(stack, 1, Len(stack) - 1)
    /\ UNCHANGED <<unchangedByVisit, entered>>

Leave ==
    /\ phase = "leave" /\ stack # << >> /\ TopIsDone
    /\ Reply(Sum)
    /\ table' = IF Sum.status \in Aborts THEN table
                ELSE StoreIn(table, Top.pos, Top.remaining, Sum)
    /\ stack' = SubSeq(stack, 1, Len(stack) - 1)
    /\ UNCHANGED <<unchangedByVisit, entered>>

(* The end of an iteration of solve. *)
Concluded == reply.status # "Limit" \/ depth + 2 > limit

Deepen ==
    /\ phase = "leave" /\ stack = << >> /\ ~Concluded
    /\ depth' = depth + 2
    /\ Visit(root, depth + 2)
    /\ UNCHANGED <<game, table, tableAttacker, attacker, root, limit, solves, stack, reply>>

SolveReturns ==
    /\ phase = "leave" /\ stack = << >> /\ Concluded
    /\ phase' = "idle"
    /\ UNCHANGED <<unchangedByVisit, table, stack, reply, entered>>

Next ==
    \/ \E p \in Positions, color \in Colors, plies \in 0 .. (MaxPlies + 1) : Solve(p, color, plies)
    \/ \E status \in Aborts : Abort(status)
    \/ LeaveUnthreatened \/ LeaveLastDefence \/ LeaveCached \/ LeaveWithoutMoves \/ LeaveAtLimit
    \/ Expand \/ NextReply \/ Leave \/ Deepen \/ SolveReturns

Spec == Init /\ [][Next]_vars

-----------------------------------------------------------------------------
(* What the rules say, without a search. *)

ChecksOf(g, p) == {q \in Range(g.legal[p]) : g.inCheck[q]}

(* c mates by checks, whatever the other side does, in at most n plies. *)
Horizon(g) == MaxPlies + Cardinality(DOMAIN g.legal) + 2
MatesFrom(g, c, before) ==
    {p \in DOMAIN g.legal : IF g.side[p] = c THEN ChecksOf(g, p) \cap before # {}
                            ELSE Range(g.legal[p]) \subseteq before}
MateWithin(g, c) ==
    LET mate[n \in 0 .. Horizon(g)] ==
            IF n = 0 THEN {p \in DOMAIN g.legal : g.side[p] # c /\ g.legal[p] = << >>}
            ELSE MatesFrom(g, c, mate[n - 1])
    IN mate
NeverMate(g, c) == DOMAIN g.legal \ MateWithin(g, c)[Horizon(g)]

(* The table tells the truth about the attacker it is for. *)
TableIsTrue ==
    LET mate == MateWithin(game, tableAttacker)
    IN \A i \in 1 .. Size(table) : Live(table, i) =>
           LET e == table.entries[i]
           IN /\ e.mate # Unknown => e.key \in mate[e.mate]
              /\ e.limit # Unknown => e.key \notin mate[e.limit]
              /\ e.noMate => e.key \in NeverMate(game, tableAttacker)

(* What solve returns is true: a mate is one, in exactly the plies it names,
   within the limit, no shorter one exists, and its move keeps it; no mate means
   at no depth; a limit means none so deep. *)
AnswerIsTrue ==
    phase = "idle" /\ solves > 0 =>
        LET mate == MateWithin(game, attacker)
        IN /\ reply.status = "Mate" =>
                /\ root \in mate[reply.plies] /\ reply.plies <= limit
                /\ reply.plies >= 2 => root \notin mate[reply.plies - 2]
                /\ reply.plies > 0 => reply.move \in mate[reply.plies - 1]
           /\ reply.status = "NoMate" =>
                root \in NeverMate(game, attacker) \/ (~Attack(root) /\ ~game.inCheck[root])
           /\ reply.status = "Limit" =>
                limit < depth \/ (root \notin mate[depth] /\ depth + 2 > limit)

(* No key has two live entries in its bucket: a probe finds the only one. *)
OneEntryPerKey ==
    \A i, j \in 1 .. Size(table) :
        Live(table, i) /\ Live(table, j) /\ table.entries[i].key = table.entries[j].key => i = j

(* live_entries_, by which the table grows, counts the live entries. *)
LiveIsExact == table.live = Cardinality({i \in 1 .. Size(table) : Live(table, i)})

(* The table stays sound as it fills, evicts and doubles. *)
TableIsSound == OneEntryPerKey /\ LiveIsExact

(* A proof is lost only to another proof in a bucket that holds nothing else,
   or with the whole generation. *)
ProofsStay ==
    [][table'.generation = table.generation /\ Size(table') = Size(table) =>
        \A i \in 1 .. Size(table) :
            Live(table, i) /\ Proven(table.entries[i])
            /\ table'.entries[i].key # table.entries[i].key =>
                \A j \in Bucket(table, table.entries[i].key) :
                    Live(table, j) /\ Proven(table.entries[j])]_vars
=============================================================================
