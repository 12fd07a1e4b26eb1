----------------------------- MODULE UsiEngine -----------------------------
(***************************************************************************)
(* The USI front end of Hayanagi (src/usi_engine.cpp): the thread that     *)
(* reads commands, and the one search thread it starts and joins.          *)
(*                                                                         *)
(* The two threads share search_state_mutex_ / search_state_cv_ and the    *)
(* flags stop_requested_, suppress_bestmove_, pondering_ and ponderhit_.   *)
(* stop_requested_ is an atomic that is written OUTSIDE the mutex, so      *)
(* every access to it is a step of its own; a critical section in which    *)
(* the command thread does nothing else is one step guarded by mutex.      *)
(***************************************************************************)
EXTENDS Naturals, Sequences

CONSTANTS
    Commands,    \* the commands the GUI may send (see CommandType)
    Positions,   \* the positions a "position" command can describe
    StartPos,    \* the initial position
    Kings,       \* which kings each position has
    RuleSets,    \* values of MaxMovesToDraw / EnteringKingRule / ...
    DefaultRules,
    BookPaths,   \* values of BookDir / BookFile
    DefaultPath,
    NoBook,      \* BookFile no_book; also: no book in memory
    BookFiles,   \* the paths at which a readable book exists
    InBook       \* <<path, position>>: a legal entry, and a running game

(* "position" arguments that no mode can load: a bad SFEN, an illegal move. *)
Malformed == "malformed"

OptionNames == {"TsumeMode", "Rules", "USI_OwnBook", "BookPath",
                "USI_AnalyseMode", "USI_LimitStrength", "USI_Ponder", "Hash"}
OptionValue(name) ==
    IF name = "Rules" THEN RuleSets
    ELSE IF name = "BookPath" THEN BookPaths ELSE BOOLEAN

GoCommands == [op : {"go"}, infinite : BOOLEAN, ponder : BOOLEAN]
MateCommands == [op : {"mate"}, limit : {"millis", "infinite", "malformed"}]
TsumeCommands == [op : {"tsume"}, side : {"attack", "defense", "malformed"}]
PositionCommands == [op : {"position"}, pos : Positions \cup {Malformed}]
SetOptionCommands ==
    UNION {[op : {"setoption"}, name : {n}, value : OptionValue(n)] : n \in OptionNames}
PlainCommands == [op : {"stop", "ponderhit", "isready", "usinewgame", "gameover",
                        "bench", "perft", "quit", "destroy"}]

CommandType == GoCommands \cup MateCommands \cup TsumeCommands
               \cup PositionCommands \cup SetOptionCommands \cup PlainCommands

ASSUME ConstantsAssumption ==
    /\ Commands \subseteq CommandType
    /\ StartPos \in Positions /\ Malformed \notin Positions
    /\ Kings \in [Positions -> {"both", "defender", "attacker"}]
    /\ Kings[StartPos] = "both"
    /\ DefaultRules \in RuleSets
    /\ DefaultPath \in BookPaths /\ NoBook \in BookPaths
    /\ BookFiles \subseteq BookPaths \ {NoBook}
    /\ InBook \subseteq BookFiles \X Positions

VARIABLES
    mpc, cmd,            \* command thread: where it is, the line it handles
    opt,                 \* the options
    position,            \* position_ : [at, rules]
    positionValid, matePositionValid,
    book, bookLoaded,    \* book_ (the path it holds) and book_loaded_
    spc, job, result,    \* search thread: where it is, its captures, its result
    mutex,               \* owner of search_state_mutex_
    stopRequested, suppress, pondering, ponderhit,
    (* What the GUI sees; read by no action. *)
    latest,              \* what the last position / usinewgame described
    asked,               \* the last go, with latest and the rules behind it
    heard,               \* "stop" / "ponderhit" sent since
    cancelled,           \* a later command has given up the answer
    out                  \* the answers printed since that go

mainVars    == <<mpc, cmd>>
sessionVars == <<opt, position, positionValid, matePositionValid, book, bookLoaded>>
threadVars  == <<spc, job, result>>
flagVars    == <<stopRequested, suppress, pondering, ponderhit>>
guiVars     == <<latest, asked, heard, cancelled, out>>
vars == <<mainVars, sessionVars, threadVars, mutex, flagVars, guiVars>>

-----------------------------------------------------------------------------
(* Data. *)

PositionType == [at : Positions, rules : RuleSets]

OptionType == [TsumeMode : BOOLEAN, Rules : RuleSets, USI_OwnBook : BOOLEAN,
               BookPath : BookPaths, USI_AnalyseMode : BOOLEAN,
               USI_LimitStrength : BOOLEAN, USI_Ponder : BOOLEAN]

DefaultOptions == [TsumeMode |-> FALSE, Rules |-> DefaultRules,
                   USI_OwnBook |-> TRUE, BookPath |-> DefaultPath,
                   USI_AnalyseMode |-> FALSE, USI_LimitStrength |-> FALSE,
                   USI_Ponder |-> FALSE]

(* What the thread's lambda captures by value. *)
JobType == [kind : {"go", "mate", "tsume"}, infinite : BOOLEAN, ponder : BOOLEAN,
            valid : BOOLEAN, pos : PositionType,
            analyse : BOOLEAN, showPonder : BOOLEAN]

(* What the searches can find, as far as the answers tell it apart.  "low":
   the score is at most -ResignValue; "pv": a second move is known. *)
Results(kind) ==
    CASE kind = "go"    -> {"declared", "terminal", "nomove", "low", "good", "pv"}
      [] kind = "mate"  -> {"mate", "nomate", "limit", "timeout"}
      [] kind = "tsume" -> {"mate", "nomate", "depthlimit", "timeout", "cancelled"}
NoResult == "nomove"
ResultType == UNION {Results(k) : k \in {"go", "mate", "tsume"}}

Word(kind) == CASE kind = "go"    -> "bestmove"
                [] kind = "mate"  -> "checkmate"
                [] kind = "tsume" -> "tsume"

(* report_bestmove, with the resign value of analysis mode out of reach. *)
Bestmove(r, j) ==
    CASE r = "declared"                -> "win"
      [] r \in {"terminal", "nomove"}  -> "resign"
      [] r = "low" /\ ~j.analyse       -> "resign"
      [] r = "pv" /\ j.showPonder      -> "move ponder"
      [] OTHER                         -> "move"

Checkmate(r) == IF r = "limit" THEN "timeout" ELSE r

Answer(r, j) == [word |-> Word(j.kind),
                 text |-> CASE j.kind = "go"    -> Bestmove(r, j)
                            [] j.kind = "mate"  -> Checkmate(r)
                            [] j.kind = "tsume" -> r]

At(word, text) == [word |-> word, text |-> text]
AnswerType == [word : {"bestmove", "checkmate", "tsume"},
               text : {"win", "resign", "move", "move ponder", "invalid"} \cup ResultType]

-----------------------------------------------------------------------------
(* The command thread: loop, handle_line and stop_search. *)

(* The commands that run stop_search before anything else of their own. *)
Stops(c) ==
    \/ c.op \notin {"ponderhit", "isready", "setoption"}
    \/ c.op = "setoption" /\ c.name \in {"TsumeMode", "Hash"}

Read(c) ==
    /\ mpc = "read"
    /\ mpc' = IF Stops(c) THEN "suppress" ELSE "act"
    /\ cmd' = c
    /\ heard' = heard \cup ({c.op} \cap {"stop", "ponderhit"})
    /\ UNCHANGED <<sessionVars, threadVars, mutex, flagVars, latest, asked, cancelled, out>>

(* Mutant: the answer is kept whatever the command. *)
SuppressNever ==
    /\ mpc = "suppress" /\ mutex = "none"
    /\ cancelled' = (cancelled \/ cmd.op # "stop")
    /\ mpc' = "store"
    /\ UNCHANGED <<cmd, sessionVars, threadVars, mutex, stopRequested, suppress,
                   pondering, ponderhit, latest, asked, heard, out>>

(* stop_search: only the "stop" command keeps the answer. *)
Suppress ==
    /\ mpc = "suppress" /\ mutex = "none"
    /\ suppress' = (cmd.op # "stop")
    /\ cancelled' = (cancelled \/ cmd.op # "stop")
    /\ mpc' = "store"
    /\ UNCHANGED <<cmd, sessionVars, threadVars, mutex, stopRequested,
                   pondering, ponderhit, latest, asked, heard, out>>

StoreStop ==
    /\ mpc = "store"
    /\ stopRequested' = TRUE
    /\ mpc' = "notify"
    /\ UNCHANGED <<cmd, sessionVars, threadVars, mutex, suppress, pondering,
                   ponderhit, guiVars>>

(* notify_all wakes the thread only if it is already waiting. *)
Woken == IF spc = "wait" THEN "wake" ELSE spc

NotifyStop ==
    /\ mpc = "notify"
    /\ spc' = Woken
    /\ mpc' = "join"
    /\ UNCHANGED <<cmd, sessionVars, job, result, mutex, flagVars, guiVars>>

Join ==
    /\ mpc = "join" /\ spc \in {"none", "done"}
    /\ spc' = "none"
    /\ mpc' = "clear"
    /\ UNCHANGED <<cmd, sessionVars, job, result, mutex, flagVars, guiVars>>

(* Mutant: suppress_bestmove_ is not cleared after the join. *)
ClearFlagsButSuppress ==
    /\ mpc = "clear" /\ mutex = "none"
    /\ pondering' = FALSE /\ ponderhit' = FALSE
    /\ mpc' = "act"
    /\ UNCHANGED <<cmd, sessionVars, threadVars, mutex, stopRequested, suppress, guiVars>>

ClearFlags ==
    /\ mpc = "clear" /\ mutex = "none"
    /\ pondering' = FALSE /\ ponderhit' = FALSE /\ suppress' = FALSE
    /\ mpc' = "act"
    /\ UNCHANGED <<cmd, sessionVars, threadVars, mutex, stopRequested, guiVars>>

Handle(op) == mpc = "act" /\ cmd.op = op
Done == mpc' = "read" /\ UNCHANGED cmd

(* The GUI's view of a go: no field of the engine but its rules. *)
Ask == /\ asked' = [cmd |-> cmd, at |-> latest, rules |-> opt.Rules]
       /\ heard' = {}
       /\ cancelled' = FALSE
       /\ UNCHANGED latest

(* start_search, start_mate and start_tsume end in one of these two ways. *)
AnswerAtOnce(answer) ==
    /\ out' = <<answer>>
    /\ UNCHANGED <<threadVars, pondering, ponderhit, suppress>>

Launch(j) ==
    /\ spc' = "search" /\ job' = j /\ result' = NoResult
    /\ out' = <<>>

(* Mutant: "go" trusts position_valid_ alone. *)
GoValidAnyKings == positionValid

GoValid == positionValid /\ Kings[position.at] = "both"

BookAnswers ==
    /\ GoValid /\ ~cmd.ponder /\ ~cmd.infinite
    /\ ~opt.USI_AnalyseMode /\ ~opt.USI_LimitStrength
    /\ opt.USI_OwnBook /\ opt.BookPath # NoBook
    /\ <<book, position.at>> \in InBook

(* searchmoves may exclude every entry of the book, hence the disjunction. *)
StartSearch ==
    /\ Handle("go") /\ Done /\ Ask
    /\ stopRequested' = FALSE
    /\ \/ BookAnswers /\ AnswerAtOnce(At("bestmove", "move"))
       \/ /\ Launch([kind |-> "go", infinite |-> cmd.infinite, ponder |-> cmd.ponder,
                     valid |-> GoValid, pos |-> position,
                     analyse |-> opt.USI_AnalyseMode,
                     showPonder |-> opt.USI_Ponder /\ ~opt.USI_AnalyseMode])
          /\ pondering' = cmd.ponder /\ ponderhit' = FALSE /\ suppress' = FALSE
    /\ UNCHANGED <<sessionVars, mutex>>

MateValid == /\ matePositionValid
             /\ Kings[position.at] \in {"both", "defender"}
             /\ cmd.limit # "malformed"

StartMate ==
    /\ Handle("mate") /\ Done /\ Ask
    /\ IF MateValid
       THEN /\ stopRequested' = FALSE
            /\ Launch([kind |-> "mate", infinite |-> cmd.limit = "infinite",
                       ponder |-> FALSE, valid |-> TRUE, pos |-> position,
                       analyse |-> FALSE, showPonder |-> FALSE])
            /\ UNCHANGED <<pondering, ponderhit, suppress>>
       ELSE AnswerAtOnce(At("checkmate", "timeout")) /\ UNCHANGED stopRequested
    /\ UNCHANGED <<sessionVars, mutex>>

TsumeValid == /\ positionValid
              /\ \/ cmd.side = "attack"  /\ Kings[position.at] \in {"both", "defender"}
                 \/ cmd.side = "defense" /\ Kings[position.at] \in {"both", "attacker"}

(* Mutant: the refusal of go tsume does not return. *)
StartTsumeFallsThrough ==
    /\ Handle("tsume") /\ Done /\ Ask
    /\ stopRequested' = FALSE
    /\ spc' = "search" /\ result' = NoResult
    /\ job' = [kind |-> "tsume", infinite |-> FALSE, ponder |-> FALSE,
               valid |-> TRUE, pos |-> position,
               analyse |-> FALSE, showPonder |-> FALSE]
    /\ out' = IF TsumeValid THEN <<>> ELSE <<At("tsume", "invalid")>>
    /\ UNCHANGED <<sessionVars, mutex, pondering, ponderhit, suppress>>

StartTsume ==
    /\ Handle("tsume") /\ Done /\ Ask
    /\ IF TsumeValid
       THEN /\ stopRequested' = FALSE
            /\ Launch([kind |-> "tsume", infinite |-> FALSE, ponder |-> FALSE,
                       valid |-> TRUE, pos |-> position,
                       analyse |-> FALSE, showPonder |-> FALSE])
            /\ UNCHANGED <<pondering, ponderhit, suppress>>
       ELSE AnswerAtOnce(At("tsume", "invalid")) /\ UNCHANGED stopRequested
    /\ UNCHANGED <<sessionVars, mutex>>

(* Mutant: ponderhit does not notify. *)
PonderhitSilent ==
    /\ Handle("ponderhit") /\ Done /\ mutex = "none"
    /\ ponderhit' = (ponderhit \/ pondering)
    /\ UNCHANGED <<sessionVars, threadVars, mutex, stopRequested, suppress,
                   pondering, guiVars>>

Ponderhit ==
    /\ Handle("ponderhit") /\ Done /\ mutex = "none"
    /\ ponderhit' = (ponderhit \/ pondering)
    /\ spc' = IF pondering THEN Woken ELSE spc
    /\ UNCHANGED <<sessionVars, job, result, mutex, stopRequested, suppress,
                   pondering, guiVars>>

(* Mutant: a malformed line leaves the old position valid. *)
SetPositionStaysValid ==
    /\ Handle("position") /\ Done
    /\ IF cmd.pos # Malformed
       THEN /\ positionValid' = (Kings[cmd.pos] = "both" \/ opt.TsumeMode)
            /\ matePositionValid' = TRUE
            /\ position' = [at |-> cmd.pos, rules |-> opt.Rules]
       ELSE UNCHANGED <<positionValid, matePositionValid, position>>
    /\ latest' = cmd.pos
    /\ UNCHANGED <<opt, book, bookLoaded, threadVars, mutex, flagVars,
                   asked, heard, cancelled, out>>

(* set_position: the second attempt accepts a single king for "go mate". *)
SetPosition ==
    /\ Handle("position") /\ Done
    /\ LET loads == cmd.pos # Malformed
       IN /\ positionValid' = (loads /\ (Kings[cmd.pos] = "both" \/ opt.TsumeMode))
          /\ matePositionValid' = loads
          /\ position' = IF loads THEN [at |-> cmd.pos, rules |-> opt.Rules]
                         ELSE position
    /\ latest' = cmd.pos
    /\ UNCHANGED <<opt, book, bookLoaded, threadVars, mutex, flagVars,
                   asked, heard, cancelled, out>>

NewGame ==
    /\ Handle("usinewgame") /\ Done
    /\ position' = [position EXCEPT !.at = StartPos]
    /\ positionValid' = TRUE /\ matePositionValid' = TRUE
    /\ latest' = StartPos
    /\ UNCHANGED <<opt, book, bookLoaded, threadVars, mutex, flagVars,
                   asked, heard, cancelled, out>>

(* Mutant: a new BookDir or BookFile leaves book_loaded_ set. *)
SetOptionKeepsBook ==
    /\ Handle("setoption") /\ Done
    /\ opt' = IF cmd.name = "Hash" THEN opt ELSE [opt EXCEPT ![cmd.name] = cmd.value]
    /\ position' = IF cmd.name = "Rules" THEN [position EXCEPT !.rules = cmd.value]
                   ELSE position
    /\ UNCHANGED <<bookLoaded, positionValid, matePositionValid, book, threadVars,
                   mutex, flagVars, guiVars>>

SetOption ==
    /\ Handle("setoption") /\ Done
    /\ opt' = IF cmd.name = "Hash" THEN opt ELSE [opt EXCEPT ![cmd.name] = cmd.value]
    /\ bookLoaded' = (bookLoaded /\ cmd.name # "BookPath")
    /\ position' = IF cmd.name = "Rules" THEN [position EXCEPT !.rules = cmd.value]
                   ELSE position
    /\ UNCHANGED <<positionValid, matePositionValid, book, threadVars, mutex,
                   flagVars, guiVars>>

IsReady ==
    /\ Handle("isready") /\ Done
    /\ IF ~bookLoaded /\ opt.USI_OwnBook /\ opt.BookPath # NoBook
       THEN /\ book' = IF opt.BookPath \in BookFiles THEN opt.BookPath ELSE NoBook
            /\ bookLoaded' = TRUE
       ELSE UNCHANGED <<book, bookLoaded>>
    /\ UNCHANGED <<opt, position, positionValid, matePositionValid, threadVars,
                   mutex, flagVars, guiVars>>

(* stop and gameover end with stop_search; bench and perft then work on the
   command thread and leave this state alone. *)
NothingMore ==
    /\ mpc = "act" /\ cmd.op \in {"stop", "gameover", "bench", "perft"} /\ Done
    /\ UNCHANGED <<sessionVars, threadVars, mutex, flagVars, guiVars>>

(* quit leaves the loop and the destructor runs stop_search once more; at the
   end of input (destroy) only the destructor does. *)
Quit ==
    /\ Handle("quit")
    /\ cmd' = [op |-> "destroy"] /\ mpc' = "suppress"
    /\ UNCHANGED <<sessionVars, threadVars, mutex, flagVars, guiVars>>

Exit ==
    /\ Handle("destroy")
    /\ mpc' = "exit"
    /\ UNCHANGED <<cmd, sessionVars, threadVars, mutex, flagVars, guiVars>>

-----------------------------------------------------------------------------
(* The search thread: the lambdas of start_search, start_mate, start_tsume. *)

(* find_best_move or solve returns.  An invalid "go" has nothing to search. *)
SearchEnds ==
    /\ spc = "search"
    /\ result' \in IF job.valid THEN Results(job.kind) ELSE {NoResult}
    /\ spc' = "lock"
    /\ UNCHANGED <<mainVars, sessionVars, job, mutex, flagVars, guiVars>>

Lock ==
    /\ spc \in {"lock", "wake", "expired"} /\ mutex = "none"
    /\ mutex' = "search"
    /\ spc' = IF spc = "expired" THEN "report" ELSE "evaluate"
    /\ UNCHANGED <<mainVars, sessionVars, job, result, flagVars, guiVars>>

(* Mutant: the wait of go infinite is left out. *)
MayAnswerInfinite ==
    \/ stopRequested \/ suppress
    \/ job.kind = "go" /\ (~job.ponder \/ ponderhit)
    \/ job.kind = "mate" /\ result # "limit"
    \/ job.kind = "tsume"

MayAnswer ==
    \/ stopRequested \/ suppress
    \/ job.kind = "go" /\ ~job.infinite /\ (~job.ponder \/ ponderhit)
    \/ job.kind = "mate" /\ result # "limit"
    \/ job.kind = "tsume"

(* The predicate is read with the mutex held, but stop_requested_ does not
   wait for the mutex: it may change before the thread is on the wait list. *)
Evaluate ==
    /\ spc = "evaluate"
    /\ spc' = IF MayAnswer THEN "report" ELSE "block"
    /\ UNCHANGED <<mainVars, sessionVars, job, result, mutex, flagVars, guiVars>>

Block ==
    /\ spc = "block"
    /\ mutex' = "none" /\ spc' = "wait"
    /\ UNCHANGED <<mainVars, sessionVars, job, result, flagVars, guiVars>>

(* wait_until in "go mate <millis>". *)
Deadline ==
    /\ spc = "wait" /\ job.kind = "mate" /\ ~job.infinite
    /\ spc' = "expired"
    /\ UNCHANGED <<mainVars, sessionVars, job, result, mutex, flagVars, guiVars>>

SpuriousWakeup ==
    /\ spc = "wait"
    /\ spc' = "wake"
    /\ UNCHANGED <<mainVars, sessionVars, job, result, mutex, flagVars, guiVars>>

(* Mutant: suppress_bestmove_ is not looked at before printing. *)
ReportAnyway ==
    /\ spc = "report"
    /\ out' = Append(out, Answer(result, job))
    /\ IF job.kind = "go" THEN pondering' = FALSE /\ ponderhit' = FALSE
                          ELSE UNCHANGED <<pondering, ponderhit>>
    /\ mutex' = "none" /\ spc' = "done"
    /\ UNCHANGED <<mainVars, sessionVars, job, result, stopRequested, suppress,
                   latest, asked, heard, cancelled>>

(* Only "go" resets the ponder flags.  Nobody else waits on the variable, so
   the notify_all that follows has no effect. *)
Report ==
    /\ spc = "report"
    /\ out' = IF suppress THEN out ELSE Append(out, Answer(result, job))
    /\ IF job.kind = "go" THEN pondering' = FALSE /\ ponderhit' = FALSE
                          ELSE UNCHANGED <<pondering, ponderhit>>
    /\ mutex' = "none" /\ spc' = "done"
    /\ UNCHANGED <<mainVars, sessionVars, job, result, stopRequested, suppress,
                   latest, asked, heard, cancelled>>

-----------------------------------------------------------------------------
NoJob == [kind |-> "go", infinite |-> FALSE, ponder |-> FALSE, valid |-> FALSE,
          pos |-> [at |-> StartPos, rules |-> DefaultRules],
          analyse |-> FALSE, showPonder |-> FALSE]

Init ==
    /\ mpc = "read" /\ cmd = [op |-> "isready"]
    /\ opt = DefaultOptions
    /\ position = [at |-> StartPos, rules |-> DefaultRules]
    /\ positionValid = TRUE /\ matePositionValid = TRUE
    /\ book = NoBook /\ bookLoaded = FALSE
    /\ spc = "none" /\ job = NoJob /\ result = NoResult
    /\ mutex = "none"
    /\ stopRequested = FALSE /\ suppress = FALSE
    /\ pondering = FALSE /\ ponderhit = FALSE
    /\ latest = StartPos
    /\ asked = [cmd |-> [op |-> "isready"], at |-> StartPos, rules |-> DefaultRules]
    /\ heard = {} /\ cancelled = FALSE /\ out = <<>>

MainLocks == Suppress \/ ClearFlags \/ Ponderhit
MainRuns  == StoreStop \/ NotifyStop \/ Join \/ StartSearch \/ StartMate
             \/ StartTsume \/ SetPosition \/ NewGame \/ SetOption \/ IsReady
             \/ NothingMore \/ Quit \/ Exit
ThreadRuns == Lock \/ Evaluate \/ Block \/ Deadline \/ Report

Finished == mpc = "exit" /\ UNCHANGED vars

Next == \/ \E c \in Commands : Read(c)
        \/ MainLocks \/ MainRuns
        \/ SearchEnds \/ ThreadRuns \/ SpuriousWakeup
        \/ Finished

(* A thread that can run runs; the mutex starves nobody for ever; a search
   ends by itself unless it was asked to be infinite, and soon after the stop
   flag (it polls it); a deadline passes however often the thread wakes before.
   The GUI owes nothing, and neither do spurious wakeups. *)
Fairness ==
    /\ SF_vars(MainLocks) /\ WF_vars(MainRuns)
    /\ WF_vars(ThreadRuns) /\ SF_vars(Deadline)
    /\ WF_vars((stopRequested \/ ~job.infinite \/ ~job.valid) /\ SearchEnds)

Spec == Init /\ [][Next]_vars
FairSpec == Spec /\ Fairness

-----------------------------------------------------------------------------
(* Properties. *)

MainPlaces == {"read", "suppress", "store", "notify", "join", "clear", "act", "exit"}
SearchPlaces == {"none", "search", "lock", "wake", "expired", "evaluate", "block",
                 "wait", "report", "done"}
Live == spc \notin {"none", "done"}

(* Every variable keeps its type. *)
TypeOK ==
    /\ mpc \in MainPlaces /\ cmd \in CommandType
    /\ opt \in OptionType /\ position \in PositionType
    /\ positionValid \in BOOLEAN /\ matePositionValid \in BOOLEAN
    /\ book \in BookPaths /\ bookLoaded \in BOOLEAN
    /\ spc \in SearchPlaces /\ job \in JobType /\ result \in ResultType
    /\ mutex \in {"none", "search"}
    /\ stopRequested \in BOOLEAN /\ suppress \in BOOLEAN
    /\ pondering \in BOOLEAN /\ ponderhit \in BOOLEAN
    /\ latest \in Positions \cup {Malformed}
    /\ asked \in [cmd : CommandType, at : Positions \cup {Malformed}, rules : RuleSets]
    /\ heard \in SUBSET {"stop", "ponderhit"} /\ cancelled \in BOOLEAN
    /\ out \in Seq(AnswerType)

(* "go infinite" is answered only after "stop", "go ponder" only after "stop"
   or "ponderhit", also when the search ends early or the position is bad: the
   wait of start_search and the exclusions of its book branch. *)
NoEarlyAnswer ==
    (out # <<>> /\ asked.cmd.op = "go") =>
        /\ asked.cmd.infinite => "stop" \in heard
        /\ asked.cmd.ponder => heard # {}

(* Once a command that discards the search has taken suppress_bestmove_, the
   old search prints nothing more, however far it had got. *)
NoStaleAnswer == [][cancelled /\ cancelled' => out' = out]_vars

(* A search runs on the position the GUI described last, under the rules set
   by then: position_ keeps an older position when a "position" line fails,
   and its copy of the rules follows every setoption. *)
SearchesWhatWasAsked ==
    (Live /\ job.valid) => job.pos = [at |-> asked.at, rules |-> asked.rules]

(* Each search has the kings it needs, whichever mode the position was loaded
   in and however TsumeMode changed since. *)
SearchHasItsKings ==
    Live => /\ job.kind = "go" => job.valid = (asked.at # Malformed /\ Kings[asked.at] = "both")
            /\ job.kind = "mate" => Kings[job.pos.at] # "attacker"
            /\ job.kind = "tsume" =>
                   Kings[job.pos.at] \in {"both", IF asked.cmd.side = "attack"
                                                 THEN "defender" ELSE "attacker"}

(* book_loaded_ promises that book_ holds what BookDir and BookFile name, so
   that isready may skip the load. *)
BookFlagIsTrue ==
    bookLoaded => book = IF opt.BookPath \in BookFiles THEN opt.BookPath ELSE NoBook

(* Between commands no flag of an earlier search is left for the next one: a
   set suppress_bestmove_ would swallow its answer, a set stop_requested_ would
   end it at once, a set ponderhit_ would release it early. *)
NoLeftoverFlag ==
    mpc = "read" => /\ ~suppress
                    /\ Live => ~stopRequested
                    /\ ponderhit => pondering /\ Live
                    /\ pondering => Live /\ job.ponder

(* A search that may answer by itself does, unless it is cancelled. *)
Released == Live /\ ~job.infinite /\ (job.ponder => ponderhit)
ReleasedGoIsAnswered == Released ~> (out # <<>> \/ cancelled)

(* Every command but "stop" is handled in finite time: the join inside
   stop_search ends because suppress_bestmove_ is set under the mutex. *)
CommandsEnd == (mpc # "read" /\ cmd.op # "stop") ~> mpc \in {"read", "exit"}

(* The inductive invariant behind the safety properties above. *)

(* The mutex is held in the three places of its critical section; a command
   that runs stop_search has no thread once it has joined it. *)
ThreadInv ==
    /\ mutex = "search" <=> spc \in {"evaluate", "block", "report"}
    /\ mpc \in {"suppress", "store", "notify", "join", "clear"} => Stops(cmd)
    /\ mpc = "clear" \/ (mpc = "act" /\ Stops(cmd)) => spc = "none"
    /\ spc = "expired" => job.kind = "mate"

(* Where each flag may be set, and what it then means. *)
FlagsInv ==
    /\ mpc \in {"store", "notify", "join", "clear"} => suppress = (cmd.op # "stop")
    /\ suppress => mpc \in {"store", "notify", "join", "clear"}
    /\ cancelled /\ Live => suppress
    /\ stopRequested /\ Live => mpc \in {"notify", "join"}
    /\ ponderhit => pondering
    /\ pondering => Live /\ job.kind = "go" /\ job.ponder

(* The search is the one asked for, and it reports when it may. *)
AnswersInv ==
    /\ mpc # "read" => {cmd.op} \cap {"stop", "ponderhit"} \subseteq heard
    /\ ponderhit => "ponderhit" \in heard
    /\ Live => job.kind = asked.cmd.op
    /\ Live /\ job.kind = "go" => job.infinite = asked.cmd.infinite /\ job.ponder = asked.cmd.ponder
    /\ spc = "report" /\ job.kind = "go" =>
           stopRequested \/ suppress \/ (~job.infinite /\ (job.ponder => ponderhit))
    /\ NoEarlyAnswer

(* What the validity flags say of the position described last. *)
PositionInv ==
    /\ matePositionValid <=> latest # Malformed
    /\ matePositionValid => position.at = latest
    /\ positionValid => matePositionValid
    /\ latest # Malformed /\ Kings[latest] = "both" => positionValid
    /\ position.rules = opt.Rules

JobInv == SearchesWhatWasAsked /\ SearchHasItsKings

IInv == TypeOK /\ ThreadInv /\ FlagsInv /\ AnswersInv /\ PositionInv /\ JobInv /\ BookFlagIsTrue

(* The engine implements the protocol its README promises (UsiProtocol), where
   a go is answered at most once: the search thread, the book and the early
   refusals of go mate and go tsume never both answer.  The running search is
   the pending go until a discarding command has taken suppress_bestmove_. *)
Pending == IF Live /\ ~cancelled
           THEN [kind |-> Word(job.kind), infinite |-> job.infinite, ponder |-> job.ponder]
           ELSE [kind |-> "nothing"]
Answers == [i \in DOMAIN out |-> out[i].word]
Protocol == INSTANCE UsiProtocol WITH pending <- Pending, said <- heard, answers <- Answers
KeepsProtocol == Protocol!Spec

(* "stop" interrupts the search and returns its best move so far. *)
StopIsAnswered == (mpc = "notify" /\ cmd.op = "stop" /\ Live) ~> out # <<>>
=============================================================================
