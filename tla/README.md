# Hayanagi in TLA+

Specifications, model checks and proofs kept beside Hayanagi 1.5.1, a USI shogi
engine in C++17. Paths are relative to the repository: `src/` is the engine,
`docs/` the book about it, `tests/` its tests.

To check a module: `tlc -config X.cfg M`, to prove one: `tlapm M.tla`. The runs,
their properties and a mutant for each, the lines behind every definition, and
the theorems are listed in `PROJECT.json`.

## 1. The system

| component | state it keeps | operations | talks to |
|---|---|---|---|
| USI front end (`src/usi_engine.cpp`) | position and two validity flags, options, book and `book_loaded_`, the search thread, four flags shared with it, a mutex and a condition variable | one per command; `stop_search`, `start_search`, `start_mate`, `start_tsume` | GUI (lines), Search, TsumeSearch, Book, Position |
| worker pool (`src/parallel.h`) | generation, count, active, next index, failed, exiting, error | constructor, `run`, destructor; `worker_loop`, `execute` on every thread | Search, TsumeSearch, perft |
| transposition table (`src/search.cpp` 75-288) | two atomic words per slot, shared by all threads; an 8-bit generation | `probe`, `store`, `next_generation`, `resize`, `hashfull` | Search |
| root search (`src/search.cpp` 445-887) | best move so far, aspiration window, root move order, stop and time flags | `find_best_move`, `search_root_move`, `apply_strength_limit` | worker pool, table, mate search |
| alpha-beta and mate search (`src/search.cpp` 889-1431) | `aborted_`; killer, history and counter moves per thread | `negamax`, `quiescence`, `mate_search_attack` / `_defense` | table, Position |
| tsume solver (`src/tsume.cpp`) | a proof table, one per thread, with generations; the root's decided replies | `solve`, `visit`, `visit_parallel`, `probe`, `store`, `grow_table` | worker pool, Position |
| position (`src/position.cpp`) | board, hands, bitboards, side, ply, key, history of keys and checks | `make_move`, `unmake_move`, `terminal_status`, repetition, entering king, move generation | everybody |
| opening book (`src/book.cpp`) | a map from keys to entries, a ply limit | `load`, `lookup` | front end |
| evaluation (`src/evaluation.cpp`), static exchange (`src/position.cpp` 732-785) | none that changes | pure functions of a position | Search |
| CPU time, version, tools | none that changes | a clock, constants, scripts | - |

How they meet. The GUI's lines reach the command thread, which keeps the session
and at most one search thread; the two share four flags, and `stop_search` joins
the thread. The search thread runs `Search::find_best_move` or
`TsumeSearch::solve`, which share work among the threads of a `ParallelTeam`;
root workers share the transposition table without a lock, tsume workers each
have a table and share only a cutoff. All searches walk a `Position`, whose
history decides repetition.

What is hard to test, and what each part promises:

- *Front end.* Two threads, a condition variable, and an atomic flag written
  outside the mutex; long sequences of legal commands that leave state behind.
  One answer per go, of the right kind, when it is due; none after the search was
  discarded; the search runs on what was asked.
- *Go line and book.* Words read in one pass, in any order, with numbers missing or
  too large; time in signed arithmetic; a file that replaces another. The search
  gets what the line says, keeps time, and the book speaks for the position it is at.
- *Worker pool.* Workers that come late and leave late, exceptions in any of
  them. Each index once, all done on return, no error lost, nobody left inside.
- *Transposition table.* Readers and writers interleave by words; a generation of
  one byte; two scales of decisive scores in one range. A hit is about the
  position asked for, and means there what it meant where it was stored; a search
  alone with the table finds its last or a deeper entry, and loses the worst.
- *Searches.* They are stopped in the middle and must throw away what they half
  know; bounds, windows and cutoffs; and their table forgets the history that decides
  some ends of a game. From a position whose worth does not rest on its history the
  answer is the best move, and what the table says of such positions is true for
  every later search.
- *Tsume solver.* Results cached with the depth they were found at, for one
  attacker, in a table that evicts, grows and changes generation; workers that
  cancel each other. Answers are true, shortest, and independent of scheduling.
- *Position.* The same facts kept several times over, generators that list legal
  moves without making them, and ends of the game decided in an order; texts that
  must be read back as what was written.
- *Evaluation and exchange.* Read from both sides at every other ply, and cut short
  where going on seems pointless: fair to both colors, and right about who gains.

`hazards` in `PROJECT.json` lists these at their lines, with the properties that
would see them go wrong.

## 2. Modules

| module | models | used by / refines |
|---|---|---|
| `UsiEngine` | command thread and search thread of `usi_engine.cpp` | refines `UsiProtocol` |
| `UsiProtocol` | what the GUI is promised of one go after another | abstract |
| `UsiEngineProofs` | invariant, safety theorems and the refinement | extends `UsiEngine` |
| `Book` | loading and looking up the opening book | extended by `GoCommand` |
| `GoCommand` | a go line read word by word, the time limit, the strength limit, the book's answer | |
| `GoCommandProofs` | types; that time is kept, a line read as it says, the book followed | extends `GoCommand` |
| `ParallelTeam` | the pool of `parallel.h`, caller and workers | refines `ParallelFor` |
| `ParallelFor` | what a parallel loop promises | abstract |
| `ParallelTeamProofs` | the same for the pool | extends `ParallelTeam` |
| `Scores` | mate and terminal scores, and their form in the table | extended by `TTEntry`, `AlphaBeta` |
| `TTEntry` | an entry packed into 64 bits and unpacked | |
| `SharedTT` | one cluster, at the grain of its atomic words | |
| `SharedTTProofs` | packing and scores; the cluster, calls overlapping as they may; what it promises calls that do not | extends `TTEntry`, `SharedTT` |
| `TsumeResult` | a result, and which reply decides | extended by both |
| `TsumeTable` | the proof table: buckets, eviction, growth, generations | extended by `TsumeSearch` |
| `TsumeSearch` | `solve` and `visit`, one thread | |
| `TsumeParallel` | `visit_parallel` over the pool | |
| `TsumeProofs` | the table is true, answers are true, growth loses nothing, proofs stay; the parallel visit is the sequential one | extends `TsumeSearch`, `TsumeParallel` |
| `Board`, `Position` | attacks; a position, `make_move`, `unmake_move` | extended by `MoveGen` |
| `MoveGen` | the generators of legal, tactical and checking moves | extended by `Game` |
| `Sfen` | the text of a position, written and read | extended by `Game` |
| `Exchange`, `Evaluation` | `static_exchange_eval`; `evaluate_position` | extended by `GameScores` |
| `Rules` | the rules of shogi from the board alone: the reference for `MoveGen` | extended by `Game` |
| `Game` | set-up, moves, history, `terminal_status` | extended by `GameScores` |
| `GameScores` | what exchange and evaluation say of the positions of a game | |
| `GameProofs` | moves keep a position exact and can be taken back; the generators list the lawful moves and the checks; positions of games are sound; repetition, verdicts; texts are read back | extends `Game` |
| `FoldTheorems` | induction, and what a fold gives step by step, for a step that is a constant | instantiated by `GameProofs`, `TsumeProofs`, `GoCommandProofs`, `RootSearchProofs` |
| `AlphaBeta` | `negamax`, `quiescence`, mate search, as functions from calls to results; the value of a position | extended by `RootSearch` |
| `RootSearch` | `find_best_move` | |
| `RootSearchProofs` | the searches are sound, the table is true of timeless positions, the answer is best from one | extends `RootSearch` |
| `MC...` | constants and bounds for TLC | |

### How they read

**`UsiEngine`.** `mpc` and `spc` are where the command thread and the search
thread are. `stop_search` is five steps (`Suppress`, `StoreStop`, `NotifyStop`,
`Join`, `ClearFlags`), because `stop_requested_` is stored and notified outside
`search_state_mutex_`; the search thread's wait is `Lock`, `Evaluate`, `Block`,
and a wake-up, for the same reason. Each command is then one action (`StartSearch`,
`SetPosition`, `SetOption`, ...). What a search finds is a member of
`Results(kind)`. `latest`, `asked`, `heard`, `cancelled` and `out` are what the
GUI sees; no action reads them.

**`GoCommand`, `Book`.** One step reads one word. A word is a name or an integer, a
book file a sequence of lines (a position, an entry, a limit, a comment); characters
are not modelled. `awaiting` is the name whose number the next word should be, as
the loop of `parse_go_options` has it in its nested reads. `asked` and `file` are
read by no action. A situation is a position with both kings: what becomes of the
others is `UsiEngine`'s. An int ends at `IntMax` and a `std::uint64_t` has `Uint64`
values, so that the clamps, the casts and the wrap of a negative node count occur
with small numbers.

**`ParallelTeam`.** A critical section of `mutex_` is one step, and so is a wait's
predicate with the blocking that follows it, since the predicates read only what
is written under the mutex. `next_` and `failed_` are read and written by steps of
their own. Threads may wake spuriously, tasks may throw, the constructor may fail
after any number of threads.

**`TTEntry`, `SharedTT`.** `TTEntry` computes with the masks and shifts of the
code, as arithmetic on 64 bits. `SharedTT` lets each load and store of a word
interleave with all others; a payload carries `for`, the position it is about, a
field the code has not: it is what the property is about. `alone` says that no two
calls have overlapped yet, which is when the table makes stronger promises.
`NextGeneration` and `Resize` happen between searches. The interleaving is
sequentially consistent. The code's acquire and release orders make a reader that sees
the new key see the payload written before it; but the load of the payload (line 193)
is not ordered before the second load of the key in C++, an order the model has.

**`TsumeTable`, `TsumeSearch`, `TsumeParallel`.** A game is a graph of positions,
and a move is the position it leads to, so packed moves are not modelled. `visit` is
unrolled on an explicit stack, one action per way to enter or leave a node, so
that a stop or the deadline may come at any node. `TsumeParallel` takes what each
reply's search would find as given and interleaves the workers' loads of `cutoff`, their searches and compare-exchanges;
a relaxed load may be late, which the model has as a load before the search.

**`Board` to `Game`.** Bitboards are sets of squares and move lists are sets of
moves. The Zobrist key is the set of features whose numbers it is the exclusive or
of, so two positions never share a key by accident. Board size, promotion zone,
thresholds and piece counts are constants; the zone has at least two rows, as the
rule for knights takes for granted. `GameAssumption` says what the set-ups are: texts,
and those accepted leave the side that has moved out of check. `set_sfen` does not ask
for that, but a position that breaks it is no position of a game.

`Exact` is what a recount from the board and the hands would give. `Exchange` and
`Evaluation` keep every term and weight of the code; distances from the middle are
written for a board of any size and are the code's on nine rows. In `Sfen`, letters
and digits are values of their own, and what `set_sfen` refuses is refused.

**`AlphaBeta`, `RootSearch`.** The game is again a graph, of what the searches may
reach. Its positions are boards with the history that led to them, as a `Position`
is: so there are no cycles, an end may belong to the board (try, declaration,
impasse) or to the history (repetition, perpetual check, the move limit), and several
positions may share a key, which is the board's alone (`KeysAgree`). The table is by
keys, and an entry's move is the key it leads to. `timeless` are positions of which
nothing that can follow depends on how they were reached (`ForgetsHistory`): those of
their key are timeless too and worth the same. What a search finds is claimed of them
only; the others are searched and stored all the same, beside them. A node is
searched as in the code: terminal test, `MaxDepth` plies, quiescence at depth 0, table, null move, first move with the full window, the others with a null window, late ones
less deep and again if they raise alpha. A position says which moves are tactical,
which of them the exchange calls losing, and where a pass leads. The null move is
unsound where passing is best; games are taken in which it never is
(`PassingNeverHelps`), the hypothesis the heuristic itself makes. Principal
variations are read from the table after each iteration, as `build_pv` does, and end
where a key comes back. An option says whether the limits leave time for the mate probe. `Cuts`
bounds how many calls of `should_stop` answer FALSE before one answers TRUE: a
stop, the node limit and the deadline are all that. A step of `RootSearch` searches
one root move; workers take them in any order.

## 3. What the runs check

| run | what it explores | what it shows |
|---|---|---|
| `usi_threads` | every kind of go, every way to end it, in every interleaving of the two threads; 0.57 M states | one answer, when due, none after the search was discarded; no flag left over; `UsiProtocol` is implemented; under fairness a released search is answered and every command but stop ends |
| `usi_session` | position lines good, bad and with one king, TsumeMode, rules, book options and isready in any order; 15 M states | each search runs on what was asked, under the rules then set, with the kings it needs; `book_loaded_` is true |
| `stop_is_answered` | as `usi_threads`, expects a violation | see findings |
| `go` | go lines with their words in several orders, numbers missing, negative and too large, six settings, three book files loaded in any order; 0.3 M states | the search gets what the line says; a search on the clock has a limit and keeps NetworkDelay2; the book answers by the file last loaded |
| `team` | two workers and the caller, runs of 0 to 3 tasks that may throw, a generation that wraps after two runs; 0.36 M states | every index once, errors reach the caller, quiet outside `run`, `ParallelFor` is implemented, `run` and the destructor return |
| `table` | entries with scores at the edges of both ranges, plies and distances 0 to 128, moves of every kind; a cluster of two slots, three positions, two depths, two generations, resized: calls one after the other, or two threads at once; 1.3 M states | what is packed is unpacked, a score means the same at any ply; hits are exact but in three named cases; one after the other, a hit is the last or a deeper entry, no position has two slots, the worst entry goes |
| `tt_torn_read` | the threads at once, expects a violation | see findings |
| `tsume_search` | games of 4 and 6 positions with mates up to 5 plies, detours and cycles; 2 or 3 calls of `solve`, each interrupted anywhere, or 4 for alternating sides; buckets of two, a table that doubles, 3 generations that come round; 3.1 M states | the table holds no falsehood, answers are true and shortest, growth loses no order, proofs outlive lesser entries |
| `tsume_parallel` | two workers, up to three replies of any outcome, a stop at any moment; 0.47 M states | the sequential result, whatever the order; only a stop aborts it; the visit returns |
| `game` | all games of two moves from nine set-ups, and games of thirteen moves in circles, on a 4 x 4 board; 55 000 positions | generators agree with the rules, incremental state with a recount, a position with its text; repetition is found exactly, verdicts and evaluation are fair, an exchange has the sign of free play |
| `perpetual_check` | the games in circles whose first position is no check, expects a violation | see findings |
| `root_search` | games of 19 positions and four or five plies, with passes and late moves, some in which histories decide the end on boards that are met again; five settings (two threads, two principal variations, a narrow window or none, restricted moves), a second search further on, a stop at any of seven moments; 3.2 M states | the answer is playable, its line too, and never an unfinished iteration's; from a timeless position exact once the game has been seen; the table is true of timeless positions; a bound is reported once, and bounds what the moves are worth |

Every property of a passing run has a mutant in `PROJECT.json`: a definition
changed as a plausible bug would, after which TLC finds that property violated.

### Bounds, and why they suffice

- *Front end.* Commands are unlimited; what is bounded is their arguments: two
  positions (two kings, one king), one or two rule sets, one missing and one
  present book. The code compares nothing else of them. `asked`, `heard` and `out`
  describe one go, so there is no counter to cap.
- *Go line and book.* Every option of the line occurs alone, with others before and
  after it, twice, and without its number; clocks reach both ends of an int. Two
  moves a side give a position met again at another ply, a move that is legal for the
  other side only, and a ponder move that ends the game.
- *Pool.* Three threads and three indices let a worker be late, early, or skip a
  run while two others race; generations modulo 2 are the smallest that a late
  worker could confuse with its own. The proofs remove the bound.
- *Table.* Two slots are what replacement compares; three positions fill them and
  ask for eviction; with two threads every overlap of two calls occurs. Several
  generations and depths and `resize` are explored only without overlap. The proofs
  cover any number of threads, slots, keys, depths and generations.
- *Tsume.* A mate in five needs the tables of depths 1, 3 and 5, hits with too
  short a limit, and eviction in buckets of two; the generation limit of 4 wraps
  in the fourth call, for the side that did not write the entries of that number (an
  odd number of generations, as 65535 in the code). Longer games add depth, not another way to leave a node.
- *Position.* The generators have no constant but the board's size and the zone; on
  4 x 4 every piece has its moves, edges, pins, slides of two empty squares and
  promotion. Thirteen plies are four occurrences of a cycle of four, from either
  side. Entering-king thresholds and the try squares are scaled to the board.
- *Root search.* The constants of the null move and of late moves are scaled so that
  both apply in four plies. Four plies are the least with a transposition met at two plies, a
  fail-high, a mate beyond the first iteration, and an unfinished iteration after a
  finished one. In the games with history a board reached through one move is a win by
  perpetual check or comes up for the fourth time, and is no end through another, where
  the table has what the first left. `MaxStops = 1`, `MaxSearches = 2` bound the behaviours: one
  interruption, and one search that uses what it left.

`CHECK_DEADLOCK FALSE` stands where a behaviour really ends: `game` (mate, or the
bound on plies), `tsume_search` (the bound on calls), `tsume_parallel` (the visit
has returned).

### Fairness, and what justifies it

- `UsiEngine!Fairness`: a thread that can run does (the scheduler); acquiring the
  mutex is strongly fair, since no critical section is endless; a search ends if
  it is finite, or after the stop flag, which it polls; a deadline passes. The GUI
  owes nothing, and spurious wake-ups are never owed.
- `ParallelTeam!Fairness`: threads run, tasks end, and thread creation ends one way
  or the other.
- `TsumeParallel!FairVisitSpec`: workers run, and a weak compare-exchange does not fail
  for no reason for ever.

Runs with a temporal property use these; the others need none. The root search has
no liveness property: that a pass with an open window cannot fail is part of
`BoundsHold`, which is safety.

## 4. What is proved

Each proof module shows `Init => IInv`, `IInv /\ [Next]_vars => IInv'`, and what
`IInv` implies. The proofs hold for every value of the constants that satisfies the
module's assumption.

**`UsiEngineProofs`** (`ConstantsAssumption`: commands and positions are of their
kinds, the initial position has both kings). The properties are not inductive: that
no answer is early needs to know why the thread may be in `report`, which needs
where `stop_requested_` may be set while a search lives, which needs who holds the
mutex. `IInv` says it in five parts: `ThreadInv` (the mutex is held in three places;
after the join there is no thread), `FlagsInv` (where each flag may be set),
`AnswersInv` (the search is the one asked for, and reports when it may),
`PositionInv` (what the validity flags say of the position last described), `JobInv`.
`Implementation` maps the engine to `UsiProtocol`: the running search is the pending
go until `suppress_bestmove_` is taken, and every step is one of the protocol's or a
stutter.

**`GoCommandProofs`** (`GoAssumption`). `TypesAreKept`: whatever the words, the parse
stays typed. `TimeKept`: on the clock the limit is at least 1 (0 would mean none), at
most what is left after NetworkDelay2, and at least the minimum thinking time if there
is time for it, for every line and setting. The invariant adds that a line still being
read is unanswered. `LinesAreRead`: the pass over the words gives what a look at the whole
line gives. `ReadInv` says it of the words taken so far: a keyword counts once it is
passed, a clock once its number is, and `searchmoves` is open as long as no keyword has
come since its last; `Had`, `Saying` and `Listing` are the places of the first n words, and
one lemma for each says how the next word changes them. The assumption that an `int` is no
keyword and narrower than a `uint64_t` is used where a number is also the next word.
`BooksAreFollowed`: the entries of a position are the lines of the file under its sfen,
in their order (`InOrder`), by induction over the lines (`HasRead`); so the first entry
that may be played is the first such line. The book in memory and the limit of strength
are those of the last load and of the settings (`BookInv`).

**`ParallelTeamProofs`** (`TeamAssumption`: finitely many workers, the generation
counter has at least two values). `active_` is exactly the number of workers that
owe a pass through the current run; from that, no worker is inside `execute` when
the caller returns, indices are handed out once, and `ParallelFor` is implemented.
That two values of the counter are enough is a consequence: a worker is never more
than one run behind.

**`SharedTTProofs`**, in three parts.
*The entry* (`EntryAssumption`: plies and distances up to 128, evaluations inside
the decisive threshold). The fields do not overlap, and a score stored at one ply is
the same outcome at the same distance when read at another. The assumption is needed:
`ply + distance` up to 256 is the width of a decisive range.
*The cluster* (`TableAssumption`: no position of the cluster has key 0, depths are 0
to 254). `IInv` describes each slot by who is writing it: a slot that no two stores
have written at once holds the payload of its key, or of the one store between its two
words; and each probe by what it saw and which stores have been under way since.
`HitsAreExact`: a hit about another position happens only if two stores overlapped
in the slot, or a store was between its words while the probe was between its
looks, or the key left the slot and came back.
*Calls that do not overlap*. The three promises (`OneSlotForEachKey`,
`HitsAreLastOrDeeper`, `TheWorstIsEvicted`) are not inductive: that a store finds the
only slot of its key rests on empty slots being the last ones (`Packed`) and on what
the slots it has passed hold; that it evicts the worst, on its victim being the best so
far (`VictimInv`) of slots nobody has touched since (`LoadedInv`). `SerialInv` says this
of the one call under way, and `Current` of the slots no call is writing.

**`GameProofs`** (`GameAssumption`; `BoardAssumption`: a board of any size;
`LimitsAssumption`: of no kind more than 18 pieces, the pawns of `set_sfen`), in four
parts. *Positions.* The core of `StateIsExact`, which `game` checks on small games, for every position:
`GeneratedMovesKeepPositions` says that from an exact position every move of every list
of the generator leads to an exact position, and that `unmake_move` gives back the
first one whole. It rests on `MakeMoveIsExact` and `UnmakeMoveRestores` for every move
that `Fits` the position, and on the generator listing only such moves
(`GeneratedMovesFit`). The argument: each helper changes the board or a hand and its
part of the key together, the key's features are told apart (`Tuples`), and a position
that is exact has no state but its board, hands, side and ply (`Determined`), so taking
back need only be followed on these four. `NullMoveKeepsPositions` is the same for a pass.

*Moves.* What `MoveGen` computes with attacks, pins and
masks against what `Rules` says by looking at the board after the move, on a board of
any size. A position is `Sound` if it is exact and the side that has moved is not in
check. The proof is geometry: of two squares on a common line there is one direction and
one distance (`Aligned`), an attack along a line is an empty stretch between
(`Between`), so a move can open or close a line for the king only from or to a square
of it; a king in check from one attacker is helped by its capture, by standing
between, or by flight; by two, only by flight. From these `GeneratedMovesAreLawful`,
`HasLegalMoveIsRight` (whose shortcuts list no moves), `GeneratedChecksAreChecks` (direct
and discovered, with pawn-drop mate left out as the code does) and
`LegalMovesKeepPositionsSound`, which closes the circle: positions stay of the kind
the other three ask for.

*Games.* `SetUpsAreExact` says that whatever text `set_sfen` accepts, the position is
exact; it reads by folds, of which `FoldTheorems` says that they have the values of
their steps. `GameInv` adds to `Sound`
that the history holds the keys and checks of the positions the game went through
(`Remembered`) and that the newest of them is the one on the board, unless a null move,
made only while nothing repeats, has turned it over (`OnSight`). From it: `GamesKeepPositionsExact`, `GamesGenerateLegalMoves`
and `GamesGenerateChecks` hold at every position of every game;
`GamesJudgeRepetitions`, because keys tell positions apart (`KeysTell`) and going back
two plies at a time meets them all (`FromTheEnd`); and `GamesMirrorVerdicts`: seen from
the other side the verdict is the other one, as long as nobody has repeated. The attempt to
prove it without that proviso failed, rightly: a repetition is decided by the history
and not by the board, and the side that has just given perpetual check may also stand
on its try square.

*Texts.* `GamesReadBackTheirTexts` is `StateIsExact` for every game: what `to_sfen`
writes of the position, `set_sfen` accepts and reads back as that position. Exactness
alone does not give it, since `set_sfen` refuses texts with too many pieces of a kind
or without a king. So it needs an invariant of its own, `Writable`: of each kind, standing (promoted
or not) and in hand together, no more than the limits; a king; a ply that is a number.
`set_sfen` establishes it, because its totals are at every character the pieces placed
so far (`Counts`); a move keeps it, because a capture takes off the board what it adds
to the hand, a promotion changes no kind, and the generator lists no move onto a king
(`GamesAreWritable`). The reading then follows the
writing: `Upto` says that so many columns of a row have been read, and how many pieces
are still to come (which is why no letter is refused); a gap, a piece, a row, the
board each carry it on, `Given` does the same for the hands, and when all is read,
board, hands, side and ply are those of the position, which determines the rest.

**`TsumeProofs`**, in two parts. *One thread* (`TsumeTableAssumption`: a table whose size is a multiple of a
bucket, a generation of at least three values; `TsumeSearchAssumption`: finite games whose
checks are the legal moves that give check). `IInv` has four parts. `TableInv`: every
live entry is true of the attacker the table is for, lies in the bucket of its key, alone
of its key, and `live_entries_` is their number (`Good`). `StackInv`: each frame has summed
up truly the replies it has had (`SumTrue`: which of them are mates, and within how many
plies), and the frame above searches the reply it waits for. `VisitInv`: the last reply
is true of what was asked. `CallInv`: the iterations before this one found nothing. That
a table stays `Good` through stores, evictions, doublings and new generations, and with
other `Good` tables' entries put into it one by one, is proved for tables of every size
(`StoreKeeps`, `GrowthKeeps`); it is why an interrupted search may leave what it has
stored for the next. A stored "no mate" claims something of every depth, and the
reference `MateWithin` stops at a horizon: `NeverStays` proves that the horizon is far
enough, since the set of positions that are mate within n plies only grows with n, and
once it has not grown it never does. From the invariant: `TheTableIsTrue`, `TheTableIsSound`,
`TheAnswerIsTrue`; and `ProofsAreKept` for the steps.
*Several* (`ParallelAssumption`). A slot below the cutoff is never left by a cancelled
reply; hence the sum up to the first decisive reply is the sequential one.
`ParallelIsSequential`, `AbortsAreStops`, `CutoffOnlyFalls`.

**`RootSearchProofs`** (`SearchAssumption`: the games are graphs that say truly what their
positions are worth, from which depths that is seen, and which of them are timeless;
positions of one key have the same board; a pass never helps, and the deepest node still
leaves scores apart). Any end of any position may lie in its history. A search is a
function from its calls to results, made level by level; `FoldTheorems` has that such
functions exist. What is proved of it is one claim, `IsAnswer`: of a timeless position,
unless it is aborted, a score not above alpha bounds the worth of the position from above,
one not below beta from below, and one between is exact, once the depth sees the end of
the game or when the score is decisive; and of any position: the table, true of timeless
positions before, is so after, aborted or not. A position that rests on its history stores
under a key that no timeless position has, and its score is used only by positions that
rest on it too, so that nothing need be claimed of either. `QuiescenceSound` and
`NegamaxSound` prove it level by level: a node's loop over its moves keeps that the best
score bounds the moves searched so far (`DeepLoop`), reductions and empty windows claim
less and are searched again, a pass is worth no more than the position, and an entry is
read at another ply as the same outcome. `MateSearchSound` does it for mates: the line
found can be played and is worth what it says.

Above them, `IInv` describes a pass in progress: which moves have a score, and that a
score inside the window claims from below and from above, where one thread alone raises
alpha only if it leads those before it (`ScoresClaim`); so the best of a finished pass
inside its window is exact (`BestClaims`), which is what the root stores (`AcceptStores`).
Workers may finish their moves in any order, and a stopped pass keeps nothing but its
table. `TableHolds` is one result, for any number of threads and lines: what the table
says of timeless positions is true. It is not true of the others, nor need the answer from
one be the best (see findings). The other is `AnswerHolds`, for which `FullInv` adds what
the search has to tell (`ToldInv`): nothing yet, a mate that was found, or what some
finished iteration said (`Settled`); and that a pass cut short has seen a limit
(`LinesInv`), so that without one the last depth is reached. Several lines need an order
that is total: `RankedAre` says that every rank is some move's, because ranks are as many
as moves and tell them apart, and `FewAreBetter` that no more moves beat the k-th line
than stand before it. A principal variation read from the table can be played, whatever
the table holds (`BuildPvIs`), because each move is looked for among the legal ones. That
the score of a mate tells its length needs `MateSearchMaxPly` (5 in the code) to fit the
range of decisive scores, which the assumption says.

**`FoldTheorems`** (no assumption) holds what all these need: a fold has a value for each of
its steps (`FoldExists`, `LeftFoldRuns`, `RunKeeps`), a search a function for each of its
levels (`LevelsExist`), from induction over sets of numbers
and of finite sets (`Induction`, `SubsetInduction`). The library states induction for an
operator that is a parameter, which no installed prover instantiates; here the induction
is over a set, and the step of the fold is a constant that each instance names.

What is only model-checked: everything temporal (`ReleasedGoIsAnswered`,
`CommandsEnd`, `CallsReturn`, `Returns`), because the prover does not reason about
ENABLED; `BoundsHold`, that a bound is reported at most once in an iteration and is one
of what the moves are worth when the depth sees the end of the game; `SeeKeepsItsSign`, which compares two recursive exchanges, and
`EvaluationIsFair`, in a module with them.

## 5. Findings

1. **A stop can be lost** (`stop_is_answered`). `stop_search` stores
   `stop_requested_` and notifies without holding `search_state_mutex_`
   (`src/usi_engine.cpp:592`). A search thread that has evaluated its predicate and
   is not yet waiting misses both; with `stop`, `suppress_bestmove_` is not set
   either, so nothing wakes it, `join` does not return and no bestmove comes. Every
   other command sets the suppress flag under the mutex first, which is why
   `CommandsEnd` holds for all but stop.
2. **A torn entry can pass the double look at the key** (`tt_torn_read`). The writer
   stores the payload, then the key; a probe between the two sees the old key twice
   around the new payload. `docs/chapter12.html:260` says the check rules this out; lines
   272-274 of the same chapter concede that key and payload may rarely mismatch.
   The score may then cut a node off; the move only orders the legal ones.
3. **A perpetual check can be a draw** (`perpetual_check`). `terminal_status` looks
   for it only when the side to move is in check (`src/position.cpp:1610`); if the
   fourth occurrence is a position with the checking side to move (one from before the
   first check; twelve plies in the run, with no repetition before), the game is drawn
   by repetition, against `docs/chapter07.html:184`.

Also met, and not stated as runs:

- *A table without histories can be wrong.* `terminal_status` (`src/search.cpp:897`)
  decides repetition, perpetual check and the move limit by the history and the ply, the
  key (909) knows neither. Without the restriction to timeless positions both
  `TableIsTrue` and the exactness in `AnswerIsBest` fail in the games with history of
  `root_search`: a draw by repetition met through one move is believed through the other.
  Engines accept this; the properties say where it does not matter.
- *A reported bound may be contradicted.* `README.md:762` of the repository calls
  `lowerbound` and `upperbound` confirmed bounds, and `tests/test_engine.py:652` asks of
  one position that the score settled on respects them. In general it need not: in the
  narrow window a null move may cut where the full window allows none (1236). With the
  constants of `root_search`: moves 1-2-3-4-draw, a pass from 2 to 6, 6-7-draw, evaluations
  1, -1, 1 and 2 of the positions 2, 3, 4 and 7; the third iteration reports at most -2
  and settles on -1. Hence `BoundsHold` compares a bound with the worth of the moves, once
  the depth sees it, and not with the score that follows.
- `docs/chapter08.html:451` says ponderhit sets
  `stop_`; the code only sets `ponderhit_` (`src/usi_engine.cpp:473`), which is what
  `UsiEngine` has.
- The handicap bonus compares the pieces of both sides with the count of one
  (`kFullPieceCounts`, `src/position.cpp:35`); `HandicapBonus` has the code's counts, with
  the model's own.

## 6. What is not modelled

- The text of commands other than go and position, the text of moves, info lines (but
  for scores, bounds and principal variations), `debug`, `perft`, `bench` and their
  runners: they print, and no answer depends on them.
- `hashfull` (a sample for display), `index_for` (which cluster a key falls into does
  not matter to one cluster), key 0 and the key's salt.
- What is not claimed of the searches: the value of positions whose worth rests on the
  history (repetition, perpetual check, the move limit), their entries in the table, and
  answers from such a root beyond being playable, by a finished iteration, and a mate if
  said to be one; how a bound relates to the score settled on below the depth that sees
  the end of the game. Not claimed of the table: one slot for each position when two
  stores overlap.
- In the searches: killers, history and counter moves, which only order moves (the
  reference value does not depend on the order); the count of nodes and its flush to
  the shared counter (`Cuts` lets the limit strike anywhere); the strength limit
  inside the search (`GoCommand` has the depth and nodes it sets); boards whose Zobrist
  keys collide.
- In the tsume solver: the copy of a small table to new workers, the threshold that
  chooses the parallel visit, the bits of a packed move.
- In the position: the order of generated moves; positions no game reaches, where
  the `filter` branch of `prepare_check_info` would matter; `ply_count_` near
  `INT_MAX`.
- CPU time, version, `main`, the offline scripts.

## 7. Plan

Done: the front end with its go line and book, the pool, the table, the tsume solver,
the position with its rules, texts, exchange and evaluation, the root search with null
move, late moves and principal variations; proofs for all of them.
What would add most next, in this order:

1. An abstract specification of the transposition table (a map that may forget) that
   `SharedTT` implements while calls do not overlap.
2. The order of moves (killers, history) where it decides which of two equal moves is
   answered, and the count of nodes with its limit.
