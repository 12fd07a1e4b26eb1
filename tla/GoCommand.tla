----------------------------- MODULE GoCommand ------------------------------
(***************************************************************************)
(* A "go" command (parse_go_options and start_search in                    *)
(* src/usi_engine.cpp): its words are read one by one into the options of  *)
(* a search; then the opening book answers, or a search starts with them.  *)
(* Threads, stop and the answer of a search are UsiEngine's.               *)
(***************************************************************************)
EXTENDS Book

CONSTANTS
    Names,         \* words, as far as they differ
    Lines,         \* sequences of words after "go"
    Settings,      \* what setoption may have set
    Situations,    \* positions of a game, both kings on the board: see SituationType
    Goes,          \* <<situation, move>> |-> situation, for the legal moves
    Files,         \* what there may be at the book's path
    NoMove,        \* "none" in the place of a ponder move
    MaxDepth,      \* kMaxDepth
    IntMax,        \* the largest int
    Uint64         \* how many values a std::uint64_t has

SituationType == [text : [key : Keys, ply : Nat], side : {"black", "white"}, terminal : BOOLEAN]

(* The values set_option lets through are narrower than these. *)
SettingType ==
    [ownBook : BOOLEAN, noBook : BOOLEAN, analyse : BOOLEAN, usiPonder : BOOLEAN,
     limitStrength : BOOLEAN, strength : Int, slowMover : Nat, minimumThinkingTime : Nat,
     networkDelay : Nat, networkDelay2 : Nat]

ClockNames == {"btime", "wtime", "binc", "winc", "byoyomi"}
ValueNames == ClockNames \cup {"movestogo", "depth", "movetime", "nodes"}
Keywords == ValueNames \cup {"searchmoves", "ponder", "infinite", "mate"}

(* A word: a name, or the text of an integer, however large. *)
WordType ==
    {word \in [name : Names, isInt : BOOLEAN, int : Int] : word.isInt => word.name \notin Keywords}
Word(name) == [name |-> name, isInt |-> FALSE, int |-> 0]
Numeral(n) == [name |-> "int", isInt |-> TRUE, int |-> n]

ASSUME GoAssumption ==
    /\ NoKey \notin Keys
    /\ IntMax \in Nat \ {0} /\ Uint64 \in Nat /\ Uint64 > IntMax /\ MaxDepth \in Nat \ {0}
    /\ Lines \subseteq Seq(WordType)
    /\ Settings \subseteq SettingType /\ Situations \subseteq SituationType
    /\ \A f \in Files : IsFile(f)

VARIABLES
    situation,   \* position_
    settings, book,
    rest,        \* the words still to be read
    awaiting,    \* what the next word is for
    clock,       \* black_time, ... byoyomi
    hasClock, movetime,
    options,     \* the SearchOptions
    reply,       \* what came of the command
    (* Read by no action. *)
    file,        \* that of the last load
    asked        \* all the words
parseVars == <<rest, awaiting, clock, hasClock, movetime, options>>
vars == <<situation, settings, book, parseVars, reply, file, asked>>

-----------------------------------------------------------------------------
NoReply == [kind |-> "none"]
Clamp(n, low, high) == IF n < low THEN low ELSE IF n > high THEN high ELSE n
AtLeast(low, n) == IF n < low THEN low ELSE n
AtMost(high, n) == IF n > high THEN high ELSE n

(* std::stoi refuses what an int cannot hold; std::stoull takes a minus sign. *)
ParseInt(word, fallback) ==
    IF word.isInt /\ word.int \in -(IntMax + 1) .. IntMax THEN word.int ELSE fallback
ParseUint64(word, fallback) ==
    IF word.isInt /\ word.int \in -(Uint64 - 1) .. (Uint64 - 1) THEN word.int % Uint64 ELSE fallback

DefaultStrength == 1
DefaultOptions ==
    [restrict |-> FALSE, searchmoves |-> {}, movesToGo |-> 0, maxDepth |-> MaxDepth,
     nodeLimit |-> 0, ponder |-> FALSE, infinite |-> FALSE, timeLimit |-> 0,
     limitStrength |-> FALSE, strength |-> DefaultStrength]

Init ==
    /\ situation \in Situations /\ settings \in Settings
    /\ book = EmptyBook /\ file = Unreadable
    /\ rest = <<>> /\ awaiting = "nothing" /\ hasClock = FALSE /\ movetime = 0
    /\ clock = [name \in ClockNames |-> 0]
    /\ options = DefaultOptions
    /\ reply = NoReply /\ asked = <<>>

Idle == awaiting = "nothing"

(* The locals of the functions are fresh in every call; what a go has said is forgotten with them. *)
Fresh(line, waits, o) ==
    /\ rest' = line /\ asked' = line /\ awaiting' = waits
    /\ clock' = [name \in ClockNames |-> 0] /\ hasClock' = FALSE /\ movetime' = 0
    /\ options' = o
    /\ reply' = NoReply
Forget == Idle /\ Fresh(<<>>, "nothing", DefaultOptions)

(* position, setoption, and isready or a change of the book's path. *)
Position(s) == Forget /\ situation' = s /\ UNCHANGED <<settings, book, file>>
SetOption(s) == Forget /\ settings' = s /\ UNCHANGED <<situation, book, file>>
LoadBook(f) ==
    /\ Forget /\ book' = Load(book, f) /\ file' = f
    /\ UNCHANGED <<situation, settings>>

-----------------------------------------------------------------------------
(* parse_go_options *)

Go(line) ==
    /\ Idle
    /\ Fresh(line, "name", [DefaultOptions EXCEPT
                                !.limitStrength = settings.limitStrength /\ ~settings.analyse,
                                !.strength = settings.strength])
    /\ UNCHANGED <<situation, settings, book, file>>

Reading(waits) == rest # <<>> /\ awaiting \in waits
ReadOn(waits) ==
    /\ rest' = Tail(rest) /\ awaiting' = waits
    /\ UNCHANGED <<situation, settings, book, reply, file, asked>>

(* Mutant: a keyword is taken for a move. *)
ReadSearchmoveAny ==
    /\ Reading({"searchmoves"})
    /\ options' = [options EXCEPT !.searchmoves = @ \cup {Head(rest).name}]
    /\ ReadOn("searchmoves") /\ UNCHANGED <<clock, hasClock, movetime>>

(* searchmoves takes every word up to the next keyword. *)
ReadSearchmove ==
    /\ Reading({"searchmoves"}) /\ Head(rest).name \notin Keywords
    /\ options' = [options EXCEPT !.searchmoves = @ \cup {Head(rest).name}]
    /\ ReadOn("searchmoves") /\ UNCHANGED <<clock, hasClock, movetime>>

ReadName ==
    LET name == Head(rest).name
    IN /\ Reading({"name", "searchmoves"}) /\ (awaiting = "searchmoves" => name \in Keywords)
       /\ options' = CASE name = "searchmoves" -> [options EXCEPT !.restrict = TRUE]
                       [] name = "ponder"      -> [options EXCEPT !.ponder = TRUE]
                       [] name = "infinite"    -> [options EXCEPT !.infinite = TRUE]
                       [] OTHER                -> options
       /\ ReadOn(IF name \in ValueNames \cup {"searchmoves"} THEN name ELSE "name")
       /\ UNCHANGED <<clock, hasClock, movetime>>

ReadClock ==
    /\ Reading(ClockNames)
    /\ hasClock' = TRUE /\ clock' = [clock EXCEPT ![awaiting] = ParseInt(Head(rest), 0)]
    /\ ReadOn("name") /\ UNCHANGED <<movetime, options>>

ReadMovetime ==
    /\ Reading({"movetime"}) /\ movetime' = AtLeast(1, ParseInt(Head(rest), 0))
    /\ ReadOn("name") /\ UNCHANGED <<clock, hasClock, options>>

ReadLimit ==
    /\ Reading({"movestogo", "depth", "nodes"})
    /\ LET word == Head(rest)
       IN options' = CASE awaiting = "movestogo" ->
                             [options EXCEPT !.movesToGo = AtLeast(0, ParseInt(word, 0))]
                       [] awaiting = "depth" ->
                             [options EXCEPT !.maxDepth = Clamp(ParseInt(word, @), 1, MaxDepth)]
                       [] awaiting = "nodes" ->
                             [options EXCEPT !.nodeLimit = AtLeast(1, ParseUint64(word, 0))]
    /\ ReadOn("name") /\ UNCHANGED <<clock, hasClock, movetime>>

-----------------------------------------------------------------------------
(* The time limit; 0 is none. *)

Own(black, white) == AtLeast(0, clock[IF situation.side = "black" THEN black ELSE white])
Remaining == Own("btime", "wtime")
Increment == Own("binc", "winc")
Byoyomi == AtLeast(0, clock["byoyomi"])

Slice == IF Remaining = 0 THEN 0
         ELSE AtLeast(50, Remaining \div (IF options.movesToGo > 0 THEN options.movesToGo ELSE 30))
SoftTarget == AtLeast(0, (Slice * settings.slowMover) \div 100 + Increment + Byoyomi - settings.networkDelay)
HardCap == AtLeast(0, Remaining + Increment + Byoyomi - settings.networkDelay2)
MinimumTime == AtLeast(0, settings.minimumThinkingTime - settings.networkDelay - settings.networkDelay2)

(* Mutant: the minimum thinking time comes last. *)
ClockLimitMinimumLast == Clamp(AtLeast(MinimumTime, AtMost(HardCap, SoftTarget)), 1, IntMax)

ClockLimit == Clamp(AtMost(HardCap, AtLeast(SoftTarget, MinimumTime)), 1, IntMax)

TimeLimit ==
    IF movetime > 0 THEN movetime
    ELSE IF ~options.infinite /\ hasClock THEN ClockLimit ELSE 0

-----------------------------------------------------------------------------
(* apply_strength_limit: levels from -15 to 6 without 0. *)

Level(strength) ==
    LET s == Clamp(strength, -15, 6)
    IN IF s <= 0 THEN AtMost(-1, s) + 15 ELSE s + 14

Budget(level) ==
    LET doubled == 256 * 2 ^ (level \div 2)
    IN IF level % 2 = 0 THEN doubled ELSE (doubled * 3) \div 2

ApplyStrengthLimit(o) ==
    LET level == Level(o.strength)
    IN IF ~o.limitStrength THEN o
       ELSE [o EXCEPT !.maxDepth = AtMost(1 + level \div 3, @),
                      !.nodeLimit = IF @ = 0 THEN Budget(level) ELSE AtMost(Budget(level), @)]

SearchOptions == ApplyStrengthLimit([options EXCEPT !.timeLimit = TimeLimit])

-----------------------------------------------------------------------------
(* The book's answer: the first entry that may be played, and its ponder move
   if that may be played then. *)

Legal(s, move) == <<s, move>> \in DOMAIN Goes

MayUseBook(o) ==
    /\ ~settings.analyse /\ ~o.limitStrength /\ settings.ownBook /\ ~settings.noBook
    /\ book.loaded /\ ~o.ponder /\ ~o.infinite

Playable(o) ==
    LET entries == Lookup(book, situation.text)
    IN {i \in DOMAIN entries : /\ o.restrict => entries[i].best \in o.searchmoves
                               /\ Legal(situation, entries[i].best)}

Ponders(entry) ==
    LET after == Goes[situation, entry.best]
    IN /\ settings.usiPonder /\ entry.ponder # NoMove
       /\ ~after.terminal /\ Legal(after, entry.ponder)

Bestmove(entry) == [kind |-> "bestmove", best |-> entry.best,
                    ponder |-> IF Ponders(entry) THEN entry.ponder ELSE NoMove]

(* The line is read to its end; a name in want of a value is ignored. *)
AnswerFromBook ==
    /\ rest = <<>> /\ ~Idle
    /\ MayUseBook(SearchOptions) /\ ~situation.terminal /\ Playable(SearchOptions) # {}
    /\ reply' = Bestmove(Lookup(book, situation.text)[Min(Playable(SearchOptions))])
    /\ awaiting' = "nothing"
    /\ UNCHANGED <<situation, settings, book, rest, clock, hasClock, movetime, options, file, asked>>

StartSearch ==
    /\ rest = <<>> /\ ~Idle
    /\ ~(MayUseBook(SearchOptions) /\ ~situation.terminal /\ Playable(SearchOptions) # {})
    /\ reply' = [kind |-> "search", options |-> SearchOptions]
    /\ awaiting' = "nothing"
    /\ UNCHANGED <<situation, settings, book, rest, clock, hasClock, movetime, options, file, asked>>

-----------------------------------------------------------------------------
Parse == ReadSearchmove \/ ReadName \/ ReadClock \/ ReadMovetime \/ ReadLimit

Next == \/ \E s \in Situations : Position(s)
        \/ \E s \in Settings : SetOption(s)
        \/ \E f \in Files : LoadBook(f)
        \/ \E line \in Lines : Go(line)
        \/ Parse \/ AnswerFromBook \/ StartSearch

Spec == Init /\ [][Next]_vars

-----------------------------------------------------------------------------
(* Properties. *)

OptionsType ==
    [restrict : BOOLEAN, searchmoves : SUBSET Names, movesToGo : Nat, maxDepth : Int,
     nodeLimit : Int, ponder : BOOLEAN, infinite : BOOLEAN, timeLimit : Int,
     limitStrength : BOOLEAN, strength : Int]

(* Every variable of the parse keeps its type. *)
TypeOK ==
    /\ situation \in Situations /\ settings \in Settings
    /\ rest \in Seq(WordType)
    /\ awaiting \in ValueNames \cup {"nothing", "name", "searchmoves"}
    /\ clock \in [ClockNames -> Int] /\ hasClock \in BOOLEAN /\ movetime \in Nat
    /\ options \in OptionsType

(* What a line says in which every name that wants a number has one: of each
   name the last number, whatever the order; and the words after "searchmoves". *)
Places(name) == {i \in DOMAIN asked : asked[i].name = name}
WellFormed ==
    \A i \in DOMAIN asked : asked[i].name \in ValueNames =>
        i < Len(asked) /\ asked[i + 1].isInt /\ asked[i + 1].int \in -IntMax .. IntMax
Given(name, default) == IF Places(name) = {} THEN default ELSE asked[Max(Places(name)) + 1].int
Movelist ==
    {asked[j].name : j \in {j \in DOMAIN asked :
        \E i \in Places("searchmoves") : i < j /\ \A k \in (i + 1) .. j : asked[k].name \notin Keywords}}

Searching == reply.kind = "search"

(* The words are read in one pass in which a name takes the word after it and
   searchmoves all up to the next name: in whatever order they come, the search
   gets what each of them says, and a limit of strength only lowers its depth
   and its nodes. *)
LineIsRead ==
    WellFormed /\ Searching =>
        LET o == reply.options
            depth == Clamp(Given("depth", MaxDepth), 1, MaxDepth)
            nodes == IF Places("nodes") = {} THEN 0 ELSE AtLeast(1, Given("nodes", 0) % Uint64)
        IN /\ o.restrict <=> Places("searchmoves") # {}
           /\ o.searchmoves = Movelist
           /\ o.ponder <=> Places("ponder") # {}
           /\ o.infinite <=> Places("infinite") # {}
           /\ IF o.limitStrength
              THEN o.maxDepth \in 1 .. depth /\ o.nodeLimit > 0 /\ (nodes > 0 => o.nodeLimit <= nodes)
              ELSE o.maxDepth = depth /\ o.nodeLimit = nodes
           /\ Places("movetime") # {} => o.timeLimit = AtLeast(1, Given("movetime", 0))
           /\ \A name \in ClockNames : clock[name] = Given(name, 0)
           /\ hasClock <=> \E name \in ClockNames : Places(name) # {}

(* What the mover's clock allows: never the other's. *)
Left ==
    IF situation.side = "black"
    THEN AtLeast(0, clock["btime"]) + AtLeast(0, clock["binc"]) + AtLeast(0, clock["byoyomi"])
    ELSE AtLeast(0, clock["wtime"]) + AtLeast(0, clock["winc"]) + AtLeast(0, clock["byoyomi"])

(* A search on the clock always has a limit, also with no time left, as 0 would
   be none; it leaves NetworkDelay2 of the mover's time, however the minimum
   thinking time and SlowMover are set, and takes the minimum if there is time
   for it. *)
TimeIsKept ==
    Searching /\ hasClock /\ movetime = 0 /\ ~options.infinite =>
        LET limit == reply.options.timeLimit
            cap == Left - settings.networkDelay2
        IN /\ limit \in 1 .. IntMax
           /\ limit <= AtLeast(1, cap)
           /\ limit >= AtMost(IntMax, AtMost(cap, MinimumTime))

(* The lines of the file last loaded that say what may be played here. *)
Mine ==
    IF \/ ~file.readable \/ BookKey(situation.text) = NoKey
       \/ LastPly(file.lines) > 0 /\ situation.text.ply > LastPly(file.lines)
    THEN {}
    ELSE {i \in Said(file.lines, situation.text.key) :
             /\ Legal(situation, file.lines[i].best)
             /\ options.restrict => file.lines[i].best \in options.searchmoves}
BookIsWanted ==
    /\ settings.ownBook /\ ~settings.noBook /\ ~settings.analyse /\ ~settings.limitStrength
    /\ ~options.ponder /\ ~options.infinite /\ ~situation.terminal

(* Whatever was loaded before, the book answers with the first move the last
   file gives for this position that is legal and allowed, and with its ponder
   move if that is legal then and the game goes on; otherwise there is a search. *)
BookFollowsItsFile ==
    reply.kind # "none" =>
        IF Mine = {} \/ ~BookIsWanted THEN Searching
        ELSE LET entry == file.lines[Min(Mine)]
                 after == Goes[situation, entry.best]
             IN /\ reply.kind = "bestmove" /\ reply.best = entry.best
                /\ reply.ponder = IF settings.usiPonder /\ ~after.terminal /\ Legal(after, entry.ponder)
                                  THEN entry.ponder ELSE NoMove
=============================================================================
