--------------------------- MODULE UsiEngineProofs ---------------------------
(* TLAPS proofs about UsiEngine, for every set of commands, positions, rules, *)
(* and books.                                                                 *)
EXTENDS UsiEngine, TLAPS

(* setoption leaves an options record. *)
LEMMA OptionsStayTyped ==
    ASSUME NEW o \in OptionType, NEW n \in OptionNames \ {"Hash"}, NEW v \in OptionValue(n)
    PROVE  [o EXCEPT ![n] = v] \in OptionType
<1>1. CASE n = "TsumeMode"
  BY <1>1 DEF OptionType, OptionValue
<1>2. CASE n = "Rules"
  BY <1>2 DEF OptionType, OptionValue
<1>3. CASE n = "USI_OwnBook"
  BY <1>3 DEF OptionType, OptionValue
<1>4. CASE n = "BookPath"
  BY <1>4 DEF OptionType, OptionValue
<1>5. CASE n = "USI_AnalyseMode"
  BY <1>5 DEF OptionType, OptionValue
<1>6. CASE n = "USI_LimitStrength"
  BY <1>6 DEF OptionType, OptionValue
<1>7. CASE n = "USI_Ponder"
  BY <1>7 DEF OptionType, OptionValue
<1> QED BY <1>1, <1>2, <1>3, <1>4, <1>5, <1>6, <1>7 DEF OptionNames

(* What a command of each kind carries. *)
LEMMA CommandsAreTyped ==
    ASSUME NEW c \in CommandType
    PROVE  /\ c.op = "go" => c.infinite \in BOOLEAN /\ c.ponder \in BOOLEAN
           /\ c.op = "position" => c.pos \in Positions \cup {Malformed}
           /\ c.op = "setoption" => c.name \in OptionNames /\ c.value \in OptionValue(c.name)
<1>1. CASE c \in GoCommands
  BY <1>1 DEF GoCommands
<1>2. CASE c \in MateCommands
  BY <1>2 DEF MateCommands
<1>3. CASE c \in TsumeCommands
  BY <1>3 DEF TsumeCommands
<1>4. CASE c \in PositionCommands
  BY <1>4 DEF PositionCommands
<1>5. CASE c \in SetOptionCommands
  <2>1. PICK n \in OptionNames : c \in [op : {"setoption"}, name : {n}, value : OptionValue(n)]
    BY <1>5 DEF SetOptionCommands
  <2>2. c.op = "setoption" /\ c.name = n /\ c.value \in OptionValue(n)
    BY <2>1
  <2> QED BY <2>2
<1>6. CASE c \in PlainCommands
  BY <1>6 DEF PlainCommands
<1> QED BY <1>1, <1>2, <1>3, <1>4, <1>5, <1>6 DEF CommandType

(* The commands that no GUI sends: those of Init and of the destructor. *)
LEMMA OwnCommands == {[op |-> "isready"], [op |-> "destroy"]} \subseteq CommandType
BY DEF CommandType, PlainCommands

(* Every answer has its type. *)
LEMMA AnswersAreTyped ==
    ASSUME NEW j \in JobType, NEW r \in ResultType
    PROVE  Answer(r, j) \in AnswerType
<1>1. j.kind \in {"go", "mate", "tsume"}
  BY DEF JobType
<1>2. Word(j.kind) \in {"bestmove", "checkmate", "tsume"}
  BY <1>1 DEF Word
<1>3. Bestmove(r, j) \in {"win", "resign", "move", "move ponder"}
  BY DEF Bestmove
<1>4. "timeout" \in ResultType
  BY DEF ResultType, Results
<1>5. Checkmate(r) \in ResultType
  BY <1>4 DEF Checkmate
<1> QED BY <1>1, <1>2, <1>3, <1>5 DEF Answer, AnswerType

-----------------------------------------------------------------------------
(* Type correctness. *)

LEMMA InitTypeOK == Init => TypeOK
<1> SUFFICES ASSUME Init PROVE TypeOK
  OBVIOUS
<1>1. cmd \in CommandType
  BY OwnCommands DEF Init
<1>2. opt \in OptionType /\ book \in BookPaths
  BY ConstantsAssumption DEF Init, DefaultOptions, OptionType
<1>3. position \in PositionType /\ job \in JobType /\ latest \in Positions
  BY ConstantsAssumption DEF Init, PositionType, NoJob, JobType
<1>4. result \in ResultType
  BY DEF Init, NoResult, ResultType, Results
<1>5. asked \in [cmd : CommandType, at : Positions \cup {Malformed}, rules : RuleSets]
  BY ConstantsAssumption, OwnCommands DEF Init
<1>6. out \in Seq(AnswerType)
  BY DEF Init
<1> QED BY <1>1, <1>2, <1>3, <1>4, <1>5, <1>6 DEF Init, TypeOK, MainPlaces, SearchPlaces

LEMMA StopSearchTypeOK ==
    ASSUME TypeOK, Suppress \/ StoreStop \/ NotifyStop \/ Join \/ ClearFlags
    PROVE  TypeOK'
<1>1. CASE Suppress
  BY <1>1 DEF TypeOK, Suppress, sessionVars, threadVars, MainPlaces
<1>2. CASE StoreStop
  BY <1>2 DEF TypeOK, StoreStop, sessionVars, threadVars, guiVars, MainPlaces
<1>3. CASE NotifyStop
  BY <1>3 DEF TypeOK, NotifyStop, Woken, sessionVars, flagVars, guiVars, MainPlaces, SearchPlaces
<1>4. CASE Join
  BY <1>4 DEF TypeOK, Join, sessionVars, flagVars, guiVars, MainPlaces, SearchPlaces
<1>5. CASE ClearFlags
  BY <1>5 DEF TypeOK, ClearFlags, sessionVars, threadVars, guiVars, MainPlaces
<1> QED BY <1>1, <1>2, <1>3, <1>4, <1>5

(* What a launched search and an answer given at once leave behind. *)
LEMMA LaunchTypeOK ==
    ASSUME TypeOK, NEW j \in JobType, Launch(j)
    PROVE  spc' \in SearchPlaces /\ job' \in JobType /\ result' \in ResultType /\ out' \in Seq(AnswerType)
BY DEF Launch, SearchPlaces, NoResult, ResultType, Results

LEMMA AnswerAtOnceTypeOK ==
    ASSUME TypeOK, NEW a \in AnswerType, AnswerAtOnce(a)
    PROVE  spc' \in SearchPlaces /\ job' \in JobType /\ result' \in ResultType /\ out' \in Seq(AnswerType)
BY DEF AnswerAtOnce, TypeOK, threadVars

LEMMA GoTypeOK ==
    ASSUME TypeOK, StartSearch
    PROVE  TypeOK'
<1>1. cmd.infinite \in BOOLEAN /\ cmd.ponder \in BOOLEAN
  BY CommandsAreTyped DEF TypeOK, StartSearch, Handle
<1>2. GoValid \in BOOLEAN
  BY DEF GoValid, TypeOK
<1>3. asked' \in [cmd : CommandType, at : Positions \cup {Malformed}, rules : RuleSets]
  BY DEF StartSearch, Ask, TypeOK, OptionType
<1>4. CASE BookAnswers /\ AnswerAtOnce(At("bestmove", "move"))
  <2>1. At("bestmove", "move") \in AnswerType
    BY DEF At, AnswerType
  <2>2. spc' \in SearchPlaces /\ job' \in JobType /\ result' \in ResultType /\ out' \in Seq(AnswerType)
    BY <1>4, <2>1, AnswerAtOnceTypeOK
  <2> QED BY <1>3, <1>4, <2>2
        DEF TypeOK, StartSearch, Handle, Done, Ask, AnswerAtOnce, sessionVars, MainPlaces
<1>5. CASE ~(BookAnswers /\ AnswerAtOnce(At("bestmove", "move")))
  <2> DEFINE j == [kind |-> "go", infinite |-> cmd.infinite, ponder |-> cmd.ponder,
                   valid |-> GoValid, pos |-> position, analyse |-> opt.USI_AnalyseMode,
                   showPonder |-> opt.USI_Ponder /\ ~opt.USI_AnalyseMode]
  <2>1. j \in JobType
    BY <1>1, <1>2 DEF JobType, TypeOK, OptionType
  <2>2. Launch(j) /\ pondering' = cmd.ponder /\ ponderhit' = FALSE /\ suppress' = FALSE
    BY <1>5 DEF StartSearch
  <2>3. spc' \in SearchPlaces /\ job' \in JobType /\ result' \in ResultType /\ out' \in Seq(AnswerType)
    BY <2>1, <2>2, LaunchTypeOK
  <2> HIDE DEF j
  <2> QED BY <1>1, <1>3, <2>2, <2>3
        DEF TypeOK, StartSearch, Handle, Done, Ask, sessionVars, MainPlaces
<1> QED BY <1>4, <1>5

LEMMA MateTypeOK ==
    ASSUME TypeOK, StartMate
    PROVE  TypeOK'
<1>1. asked' \in [cmd : CommandType, at : Positions \cup {Malformed}, rules : RuleSets]
  BY DEF StartMate, Ask, TypeOK, OptionType
<1>2. CASE MateValid
  <2> DEFINE j == [kind |-> "mate", infinite |-> cmd.limit = "infinite", ponder |-> FALSE,
                   valid |-> TRUE, pos |-> position, analyse |-> FALSE, showPonder |-> FALSE]
  <2>1. j \in JobType
    BY DEF JobType, TypeOK
  <2>2. Launch(j)
    BY <1>2 DEF StartMate
  <2>3. spc' \in SearchPlaces /\ job' \in JobType /\ result' \in ResultType /\ out' \in Seq(AnswerType)
    BY <2>1, <2>2, LaunchTypeOK
  <2> QED BY <1>1, <1>2, <2>3
        DEF TypeOK, StartMate, Handle, Done, Ask, sessionVars, MainPlaces
<1>3. CASE ~MateValid
  <2>1. At("checkmate", "timeout") \in AnswerType
    BY DEF At, AnswerType, ResultType, Results
  <2>2. spc' \in SearchPlaces /\ job' \in JobType /\ result' \in ResultType /\ out' \in Seq(AnswerType)
    BY <1>3, <2>1, AnswerAtOnceTypeOK DEF StartMate
  <2> QED BY <1>1, <1>3, <2>2
        DEF TypeOK, StartMate, Handle, Done, Ask, AnswerAtOnce, sessionVars, MainPlaces
<1> QED BY <1>2, <1>3

LEMMA TsumeTypeOK ==
    ASSUME TypeOK, StartTsume
    PROVE  TypeOK'
<1>1. asked' \in [cmd : CommandType, at : Positions \cup {Malformed}, rules : RuleSets]
  BY DEF StartTsume, Ask, TypeOK, OptionType
<1>2. CASE TsumeValid
  <2> DEFINE j == [kind |-> "tsume", infinite |-> FALSE, ponder |-> FALSE,
                   valid |-> TRUE, pos |-> position, analyse |-> FALSE, showPonder |-> FALSE]
  <2>1. j \in JobType
    BY DEF JobType, TypeOK
  <2>2. Launch(j)
    BY <1>2 DEF StartTsume
  <2>3. spc' \in SearchPlaces /\ job' \in JobType /\ result' \in ResultType /\ out' \in Seq(AnswerType)
    BY <2>1, <2>2, LaunchTypeOK
  <2> QED BY <1>1, <1>2, <2>3
        DEF TypeOK, StartTsume, Handle, Done, Ask, sessionVars, MainPlaces
<1>3. CASE ~TsumeValid
  <2>1. At("tsume", "invalid") \in AnswerType
    BY DEF At, AnswerType
  <2>2. spc' \in SearchPlaces /\ job' \in JobType /\ result' \in ResultType /\ out' \in Seq(AnswerType)
    BY <1>3, <2>1, AnswerAtOnceTypeOK DEF StartTsume
  <2> QED BY <1>1, <1>3, <2>2
        DEF TypeOK, StartTsume, Handle, Done, Ask, AnswerAtOnce, sessionVars, MainPlaces
<1> QED BY <1>2, <1>3

(* The commands that change the session, and ponderhit. *)
LEMMA SessionTypeOK ==
    ASSUME TypeOK, SetPosition \/ NewGame \/ SetOption \/ IsReady \/ NothingMore \/ Ponderhit
                   \/ Quit \/ Exit
    PROVE  TypeOK'
<1>1. CASE SetPosition
  <2>1. cmd.pos \in Positions \cup {Malformed}
    BY <1>1, CommandsAreTyped DEF TypeOK, SetPosition, Handle
  <2>2. position' \in PositionType
    BY <1>1, <2>1 DEF TypeOK, SetPosition, PositionType, OptionType
  <2>3. positionValid' \in BOOLEAN /\ matePositionValid' \in BOOLEAN
    BY <1>1 DEF SetPosition
  <2> QED BY <1>1, <2>1, <2>2, <2>3
        DEF TypeOK, SetPosition, Handle, Done, threadVars, flagVars, MainPlaces
<1>2. CASE NewGame
  <2>1. position' \in PositionType /\ latest' \in Positions
    BY <1>2, ConstantsAssumption DEF TypeOK, NewGame, PositionType
  <2> QED BY <1>2, <2>1 DEF TypeOK, NewGame, Handle, Done, threadVars, flagVars, MainPlaces
<1>3. CASE SetOption
  <2>1. cmd.name \in OptionNames /\ cmd.value \in OptionValue(cmd.name)
    BY <1>3, CommandsAreTyped DEF TypeOK, SetOption, Handle
  <2>2. opt' \in OptionType
    BY <1>3, <2>1, OptionsStayTyped DEF TypeOK, SetOption
  <2>3. position' \in PositionType
    BY <1>3, <2>1 DEF TypeOK, SetOption, PositionType, OptionValue
  <2>4. bookLoaded' \in BOOLEAN
    BY <1>3 DEF SetOption, TypeOK
  <2> QED BY <1>3, <2>2, <2>3, <2>4
        DEF TypeOK, SetOption, Handle, Done, threadVars, flagVars, guiVars, MainPlaces
<1>4. CASE IsReady
  <2>1. book' \in BookPaths /\ bookLoaded' \in BOOLEAN
    BY <1>4, ConstantsAssumption DEF TypeOK, IsReady, OptionType
  <2> QED BY <1>4, <2>1
        DEF TypeOK, IsReady, Handle, Done, threadVars, flagVars, guiVars, MainPlaces
<1>5. CASE NothingMore
  BY <1>5 DEF TypeOK, NothingMore, Done, sessionVars, threadVars, flagVars, guiVars, MainPlaces
<1>6. CASE Ponderhit
  <2>1. spc' \in SearchPlaces /\ ponderhit' \in BOOLEAN
    BY <1>6 DEF TypeOK, Ponderhit, Woken, SearchPlaces
  <2> QED BY <1>6, <2>1 DEF TypeOK, Ponderhit, Handle, Done, sessionVars, guiVars, MainPlaces
<1>7. CASE Quit
  BY <1>7, OwnCommands DEF TypeOK, Quit, sessionVars, threadVars, flagVars, guiVars, MainPlaces
<1>8. CASE Exit
  BY <1>8 DEF TypeOK, Exit, sessionVars, threadVars, flagVars, guiVars, MainPlaces
<1> QED BY <1>1, <1>2, <1>3, <1>4, <1>5, <1>6, <1>7, <1>8

LEMMA ThreadTypeOK ==
    ASSUME TypeOK, SearchEnds \/ Lock \/ Evaluate \/ Block \/ Deadline \/ SpuriousWakeup \/ Report
    PROVE  TypeOK'
<1>1. CASE SearchEnds
  <2>1. job.kind \in {"go", "mate", "tsume"} /\ NoResult \in ResultType
    BY DEF TypeOK, JobType, NoResult, ResultType, Results
  <2>2. Results(job.kind) \subseteq ResultType
    BY <2>1 DEF ResultType
  <2>3. result' \in ResultType
    BY <1>1, <2>1, <2>2 DEF SearchEnds
  <2> QED BY <1>1, <2>3
        DEF TypeOK, SearchEnds, mainVars, sessionVars, flagVars, guiVars, SearchPlaces
<1>2. CASE Lock
  BY <1>2 DEF TypeOK, Lock, mainVars, sessionVars, flagVars, guiVars, SearchPlaces
<1>3. CASE Evaluate
  BY <1>3 DEF TypeOK, Evaluate, mainVars, sessionVars, flagVars, guiVars, SearchPlaces
<1>4. CASE Block
  BY <1>4 DEF TypeOK, Block, mainVars, sessionVars, flagVars, guiVars, SearchPlaces
<1>5. CASE Deadline
  BY <1>5 DEF TypeOK, Deadline, mainVars, sessionVars, flagVars, guiVars, SearchPlaces
<1>6. CASE SpuriousWakeup
  BY <1>6 DEF TypeOK, SpuriousWakeup, mainVars, sessionVars, flagVars, guiVars, SearchPlaces
<1>7. CASE Report
  <2>1. out' \in Seq(AnswerType)
    BY <1>7, AnswersAreTyped DEF TypeOK, Report
  <2> QED BY <1>7, <2>1, ZenonT(60) DEF TypeOK, Report, mainVars, sessionVars, SearchPlaces
<1> QED BY <1>1, <1>2, <1>3, <1>4, <1>5, <1>6, <1>7

LEMMA ReadTypeOK ==
    ASSUME TypeOK, NEW c \in Commands, Read(c)
    PROVE  TypeOK'
<1>1. mpc' \in MainPlaces /\ cmd' \in CommandType
  BY ConstantsAssumption DEF Read, MainPlaces
<1>2. heard' \in SUBSET {"stop", "ponderhit"}
  BY DEF Read, TypeOK
<1> QED BY <1>1, <1>2 DEF TypeOK, Read, sessionVars, threadVars, flagVars

LEMMA StepTypeOK == TypeOK /\ [Next]_vars => TypeOK'
<1> SUFFICES ASSUME TypeOK, [Next]_vars PROVE TypeOK'
  OBVIOUS
<1>1. CASE \E c \in Commands : Read(c)
  BY <1>1, ReadTypeOK
<1>2. CASE MainLocks
  BY <1>2, StopSearchTypeOK, SessionTypeOK DEF MainLocks
<1>3. CASE MainRuns
  BY <1>3, StopSearchTypeOK, SessionTypeOK, GoTypeOK, MateTypeOK, TsumeTypeOK DEF MainRuns
<1>4. CASE SearchEnds \/ ThreadRuns \/ SpuriousWakeup
  BY <1>4, ThreadTypeOK DEF ThreadRuns
<1>5. CASE Finished \/ UNCHANGED vars
  BY <1>5, ZenonT(60) DEF Finished, TypeOK, vars, mainVars, sessionVars, threadVars, flagVars, guiVars
<1> QED BY <1>1, <1>2, <1>3, <1>4, <1>5 DEF Next

(* Every variable keeps its type, whatever the GUI sends. *)
THEOREM TypeCorrect == Spec => []TypeOK
BY InitTypeOK, StepTypeOK, PTL DEF Spec

-----------------------------------------------------------------------------
(* The inductive invariant. *)

(* What the session says stands while the session does. *)
LEMMA SessionKept ==
    ASSUME PositionInv, BookFlagIsTrue, UNCHANGED <<sessionVars, latest>>
    PROVE  PositionInv' /\ BookFlagIsTrue'
BY DEF PositionInv, BookFlagIsTrue, sessionVars

(* What is true of a search stays true while it runs. *)
LEMMA JobKept ==
    ASSUME JobInv, UNCHANGED <<job, asked>>, Live' => Live
    PROVE  JobInv'
BY DEF JobInv, SearchesWhatWasAsked, SearchHasItsKings

LEMMA InitIInv == Init => IInv
<1> SUFFICES ASSUME Init PROVE IInv
  OBVIOUS
<1>1. ThreadInv /\ FlagsInv /\ AnswersInv
  BY DEF Init, ThreadInv, FlagsInv, AnswersInv, NoEarlyAnswer, Live
<1>2. PositionInv /\ BookFlagIsTrue
  BY ConstantsAssumption DEF Init, DefaultOptions, PositionInv, BookFlagIsTrue
<1>3. JobInv
  BY DEF Init, JobInv, SearchesWhatWasAsked, SearchHasItsKings, Live
<1> QED BY <1>1, <1>2, <1>3, InitTypeOK DEF IInv

(* stop_search. *)
LEMMA StopSearchIInv ==
    ASSUME IInv, Suppress \/ StoreStop \/ NotifyStop \/ Join \/ ClearFlags
    PROVE  ThreadInv' /\ FlagsInv' /\ AnswersInv' /\ PositionInv' /\ JobInv' /\ BookFlagIsTrue'
<1> USE DEF Live
<1>1. CASE Suppress
  <2>1. ThreadInv'
    BY <1>1 DEF IInv, TypeOK, ThreadInv, FlagsInv, Stops, Suppress, sessionVars, threadVars
  <2>2. FlagsInv'
    BY <1>1 DEF IInv, TypeOK, ThreadInv, FlagsInv, Stops, Suppress, sessionVars, threadVars
  <2>3. AnswersInv'
    BY <1>1 DEF IInv, TypeOK, ThreadInv, FlagsInv, AnswersInv, NoEarlyAnswer, Suppress, sessionVars, threadVars
  <2>4. PositionInv' /\ BookFlagIsTrue'
    BY <1>1, SessionKept DEF IInv, Suppress, sessionVars, threadVars
  <2>5. JobInv'
    BY <1>1, JobKept DEF IInv, Suppress, sessionVars, threadVars, guiVars
  <2> QED BY <2>1, <2>2, <2>3, <2>4, <2>5
<1>2. CASE StoreStop
  <2>1. ThreadInv'
    BY <1>2 DEF IInv, TypeOK, ThreadInv, FlagsInv, Stops, StoreStop, sessionVars, threadVars, guiVars
  <2>2. FlagsInv'
    BY <1>2 DEF IInv, TypeOK, ThreadInv, FlagsInv, Stops, StoreStop, sessionVars, threadVars, guiVars
  <2>3. AnswersInv'
    BY <1>2 DEF IInv, TypeOK, ThreadInv, FlagsInv, AnswersInv, NoEarlyAnswer, StoreStop, sessionVars, threadVars, guiVars
  <2>4. PositionInv' /\ BookFlagIsTrue'
    BY <1>2, SessionKept DEF IInv, StoreStop, sessionVars, threadVars, guiVars
  <2>5. JobInv'
    BY <1>2, JobKept DEF IInv, StoreStop, sessionVars, threadVars, guiVars
  <2> QED BY <2>1, <2>2, <2>3, <2>4, <2>5
<1>3. CASE NotifyStop
  <2>1. ThreadInv'
    BY <1>3 DEF IInv, TypeOK, ThreadInv, FlagsInv, Stops, NotifyStop, Woken, sessionVars, flagVars, guiVars
  <2>2. FlagsInv'
    BY <1>3 DEF IInv, TypeOK, ThreadInv, FlagsInv, Stops, NotifyStop, Woken, sessionVars, flagVars, guiVars
  <2>3. AnswersInv'
    BY <1>3 DEF IInv, TypeOK, ThreadInv, FlagsInv, AnswersInv, NoEarlyAnswer, NotifyStop, Woken, sessionVars, flagVars, guiVars
  <2>4. PositionInv' /\ BookFlagIsTrue'
    BY <1>3, SessionKept DEF IInv, NotifyStop, Woken, sessionVars, flagVars, guiVars
  <2>5. JobInv'
    BY <1>3, JobKept DEF IInv, NotifyStop, Woken, sessionVars, flagVars, guiVars, threadVars
  <2> QED BY <2>1, <2>2, <2>3, <2>4, <2>5
<1>4. CASE Join
  <2>1. ThreadInv'
    BY <1>4 DEF IInv, TypeOK, ThreadInv, FlagsInv, Stops, Join, sessionVars, flagVars, guiVars
  <2>2. FlagsInv'
    BY <1>4 DEF IInv, TypeOK, ThreadInv, FlagsInv, Stops, Join, sessionVars, flagVars, guiVars
  <2>3. AnswersInv'
    BY <1>4 DEF IInv, TypeOK, ThreadInv, FlagsInv, AnswersInv, NoEarlyAnswer, Join, sessionVars, flagVars, guiVars
  <2>4. PositionInv' /\ BookFlagIsTrue'
    BY <1>4, SessionKept DEF IInv, Join, sessionVars, flagVars, guiVars
  <2>5. JobInv'
    BY <1>4, JobKept DEF IInv, Join, sessionVars, flagVars, guiVars, threadVars
  <2> QED BY <2>1, <2>2, <2>3, <2>4, <2>5
<1>5. CASE ClearFlags
  <2>1. ThreadInv'
    BY <1>5 DEF IInv, TypeOK, ThreadInv, FlagsInv, Stops, ClearFlags, sessionVars, threadVars, guiVars
  <2>2. FlagsInv'
    BY <1>5 DEF IInv, TypeOK, ThreadInv, FlagsInv, Stops, ClearFlags, sessionVars, threadVars, guiVars
  <2>3. AnswersInv'
    BY <1>5 DEF IInv, TypeOK, ThreadInv, FlagsInv, AnswersInv, NoEarlyAnswer, ClearFlags, sessionVars, threadVars, guiVars
  <2>4. PositionInv' /\ BookFlagIsTrue'
    BY <1>5, SessionKept DEF IInv, ClearFlags, sessionVars, threadVars, guiVars
  <2>5. JobInv'
    BY <1>5, JobKept DEF IInv, ClearFlags, sessionVars, threadVars, guiVars
  <2> QED BY <2>1, <2>2, <2>3, <2>4, <2>5
<1> QED BY <1>1, <1>2, <1>3, <1>4, <1>5

(* The commands that change neither the session nor the search. *)
LEMMA OtherCommandsIInv ==
    ASSUME IInv, Ponderhit \/ NothingMore \/ Quit \/ Exit
    PROVE  ThreadInv' /\ FlagsInv' /\ AnswersInv' /\ PositionInv' /\ JobInv' /\ BookFlagIsTrue'
<1> USE DEF Live
<1>1. CASE Ponderhit
  <2>1. ThreadInv'
    BY <1>1 DEF IInv, TypeOK, ThreadInv, FlagsInv, Stops, Ponderhit, Handle, Done, Woken, sessionVars, guiVars
  <2>2. FlagsInv'
    BY <1>1 DEF IInv, TypeOK, ThreadInv, FlagsInv, Stops, Ponderhit, Handle, Done, Woken, sessionVars, guiVars
  <2>3. AnswersInv'
    BY <1>1 DEF IInv, TypeOK, ThreadInv, FlagsInv, AnswersInv, NoEarlyAnswer, Ponderhit, Handle, Done, Woken, sessionVars, guiVars
  <2>4. PositionInv' /\ BookFlagIsTrue'
    BY <1>1, SessionKept DEF IInv, Ponderhit, Handle, Done, Woken, sessionVars, guiVars
  <2>5. JobInv'
    BY <1>1, JobKept DEF IInv, Ponderhit, Handle, Done, Woken, sessionVars, guiVars, threadVars
  <2> QED BY <2>1, <2>2, <2>3, <2>4, <2>5
<1>2. CASE NothingMore
  <2>1. ThreadInv'
    BY <1>2 DEF IInv, TypeOK, ThreadInv, FlagsInv, Stops, NothingMore, Done, sessionVars, threadVars, flagVars, guiVars
  <2>2. FlagsInv'
    BY <1>2 DEF IInv, TypeOK, ThreadInv, FlagsInv, Stops, NothingMore, Done, sessionVars, threadVars, flagVars, guiVars
  <2>3. AnswersInv'
    BY <1>2 DEF IInv, TypeOK, ThreadInv, FlagsInv, AnswersInv, NoEarlyAnswer, NothingMore, Done, sessionVars, threadVars, flagVars, guiVars
  <2>4. PositionInv' /\ BookFlagIsTrue'
    BY <1>2, SessionKept DEF IInv, NothingMore, Done, sessionVars, threadVars, flagVars, guiVars
  <2>5. JobInv'
    BY <1>2, JobKept DEF IInv, NothingMore, Done, sessionVars, threadVars, flagVars, guiVars
  <2> QED BY <2>1, <2>2, <2>3, <2>4, <2>5
<1>3. CASE Quit
  <2>1. ThreadInv'
    BY <1>3 DEF IInv, TypeOK, ThreadInv, FlagsInv, Stops, Quit, Handle, sessionVars, threadVars, flagVars, guiVars
  <2>2. FlagsInv'
    BY <1>3 DEF IInv, TypeOK, ThreadInv, FlagsInv, Stops, Quit, Handle, sessionVars, threadVars, flagVars, guiVars
  <2>3. AnswersInv'
    BY <1>3 DEF IInv, TypeOK, ThreadInv, FlagsInv, AnswersInv, NoEarlyAnswer, Quit, Handle, sessionVars, threadVars, flagVars, guiVars
  <2>4. PositionInv' /\ BookFlagIsTrue'
    BY <1>3, SessionKept DEF IInv, Quit, Handle, sessionVars, threadVars, flagVars, guiVars
  <2>5. JobInv'
    BY <1>3, JobKept DEF IInv, Quit, Handle, sessionVars, threadVars, flagVars, guiVars
  <2> QED BY <2>1, <2>2, <2>3, <2>4, <2>5
<1>4. CASE Exit
  <2>1. ThreadInv'
    BY <1>4 DEF IInv, TypeOK, ThreadInv, FlagsInv, Stops, Exit, Handle, sessionVars, threadVars, flagVars, guiVars
  <2>2. FlagsInv'
    BY <1>4 DEF IInv, TypeOK, ThreadInv, FlagsInv, Stops, Exit, Handle, sessionVars, threadVars, flagVars, guiVars
  <2>3. AnswersInv'
    BY <1>4 DEF IInv, TypeOK, ThreadInv, FlagsInv, AnswersInv, NoEarlyAnswer, Exit, Handle, sessionVars, threadVars, flagVars, guiVars
  <2>4. PositionInv' /\ BookFlagIsTrue'
    BY <1>4, SessionKept DEF IInv, Exit, Handle, sessionVars, threadVars, flagVars, guiVars
  <2>5. JobInv'
    BY <1>4, JobKept DEF IInv, Exit, Handle, sessionVars, threadVars, flagVars, guiVars
  <2> QED BY <2>1, <2>2, <2>3, <2>4, <2>5
<1> QED BY <1>1, <1>2, <1>3, <1>4

(* The search thread. *)
LEMMA ThreadIInv ==
    ASSUME IInv, SearchEnds \/ Lock \/ Evaluate \/ Block \/ Deadline \/ SpuriousWakeup \/ Report
    PROVE  ThreadInv' /\ FlagsInv' /\ AnswersInv' /\ PositionInv' /\ JobInv' /\ BookFlagIsTrue'
<1> USE DEF Live
<1>1. CASE SearchEnds
  <2>1. ThreadInv'
    BY <1>1 DEF IInv, TypeOK, ThreadInv, FlagsInv, Stops, SearchEnds, mainVars, sessionVars, flagVars, guiVars
  <2>2. FlagsInv'
    BY <1>1 DEF IInv, TypeOK, ThreadInv, FlagsInv, Stops, SearchEnds, mainVars, sessionVars, flagVars, guiVars
  <2>3. AnswersInv'
    BY <1>1 DEF IInv, TypeOK, ThreadInv, FlagsInv, AnswersInv, NoEarlyAnswer, SearchEnds, mainVars, sessionVars, flagVars, guiVars
  <2>4. PositionInv' /\ BookFlagIsTrue'
    BY <1>1, SessionKept DEF IInv, SearchEnds, mainVars, sessionVars, flagVars, guiVars
  <2>5. JobInv'
    BY <1>1, JobKept DEF IInv, SearchEnds, mainVars, sessionVars, flagVars, guiVars, threadVars
  <2> QED BY <2>1, <2>2, <2>3, <2>4, <2>5
<1>2. CASE Lock
  <2>1. ThreadInv'
    BY <1>2 DEF IInv, TypeOK, ThreadInv, FlagsInv, Stops, Lock, mainVars, sessionVars, flagVars, guiVars
  <2>2. FlagsInv'
    BY <1>2 DEF IInv, TypeOK, ThreadInv, FlagsInv, Stops, Lock, mainVars, sessionVars, flagVars, guiVars
  <2>3. AnswersInv'
    BY <1>2 DEF IInv, TypeOK, ThreadInv, FlagsInv, AnswersInv, NoEarlyAnswer, Lock, mainVars, sessionVars, flagVars, guiVars
  <2>4. PositionInv' /\ BookFlagIsTrue'
    BY <1>2, SessionKept DEF IInv, Lock, mainVars, sessionVars, flagVars, guiVars
  <2>5. JobInv'
    BY <1>2, JobKept DEF IInv, Lock, mainVars, sessionVars, flagVars, guiVars, threadVars
  <2> QED BY <2>1, <2>2, <2>3, <2>4, <2>5
<1>3. CASE Evaluate
  <2>1. ThreadInv'
    BY <1>3 DEF IInv, TypeOK, ThreadInv, FlagsInv, Stops, Evaluate, MayAnswer, mainVars, sessionVars, flagVars, guiVars
  <2>2. FlagsInv'
    BY <1>3 DEF IInv, TypeOK, ThreadInv, FlagsInv, Stops, Evaluate, MayAnswer, mainVars, sessionVars, flagVars, guiVars
  <2>3. AnswersInv'
    BY <1>3 DEF IInv, TypeOK, ThreadInv, FlagsInv, AnswersInv, NoEarlyAnswer, Evaluate, MayAnswer, mainVars, sessionVars, flagVars, guiVars
  <2>4. PositionInv' /\ BookFlagIsTrue'
    BY <1>3, SessionKept DEF IInv, Evaluate, MayAnswer, mainVars, sessionVars, flagVars, guiVars
  <2>5. JobInv'
    BY <1>3, JobKept DEF IInv, Evaluate, MayAnswer, mainVars, sessionVars, flagVars, guiVars, threadVars
  <2> QED BY <2>1, <2>2, <2>3, <2>4, <2>5
<1>4. CASE Block
  <2>1. ThreadInv'
    BY <1>4 DEF IInv, TypeOK, ThreadInv, FlagsInv, Stops, Block, mainVars, sessionVars, flagVars, guiVars
  <2>2. FlagsInv'
    BY <1>4 DEF IInv, TypeOK, ThreadInv, FlagsInv, Stops, Block, mainVars, sessionVars, flagVars, guiVars
  <2>3. AnswersInv'
    BY <1>4 DEF IInv, TypeOK, ThreadInv, FlagsInv, AnswersInv, NoEarlyAnswer, Block, mainVars, sessionVars, flagVars, guiVars
  <2>4. PositionInv' /\ BookFlagIsTrue'
    BY <1>4, SessionKept DEF IInv, Block, mainVars, sessionVars, flagVars, guiVars
  <2>5. JobInv'
    BY <1>4, JobKept DEF IInv, Block, mainVars, sessionVars, flagVars, guiVars, threadVars
  <2> QED BY <2>1, <2>2, <2>3, <2>4, <2>5
<1>5. CASE Deadline
  <2>1. ThreadInv'
    BY <1>5 DEF IInv, TypeOK, ThreadInv, FlagsInv, Stops, Deadline, mainVars, sessionVars, flagVars, guiVars
  <2>2. FlagsInv'
    BY <1>5 DEF IInv, TypeOK, ThreadInv, FlagsInv, Stops, Deadline, mainVars, sessionVars, flagVars, guiVars
  <2>3. AnswersInv'
    BY <1>5 DEF IInv, TypeOK, ThreadInv, FlagsInv, AnswersInv, NoEarlyAnswer, Deadline, mainVars, sessionVars, flagVars, guiVars
  <2>4. PositionInv' /\ BookFlagIsTrue'
    BY <1>5, SessionKept DEF IInv, Deadline, mainVars, sessionVars, flagVars, guiVars
  <2>5. JobInv'
    BY <1>5, JobKept DEF IInv, Deadline, mainVars, sessionVars, flagVars, guiVars, threadVars
  <2> QED BY <2>1, <2>2, <2>3, <2>4, <2>5
<1>6. CASE SpuriousWakeup
  <2>1. ThreadInv'
    BY <1>6 DEF IInv, TypeOK, ThreadInv, FlagsInv, Stops, SpuriousWakeup, mainVars, sessionVars, flagVars, guiVars
  <2>2. FlagsInv'
    BY <1>6 DEF IInv, TypeOK, ThreadInv, FlagsInv, Stops, SpuriousWakeup, mainVars, sessionVars, flagVars, guiVars
  <2>3. AnswersInv'
    BY <1>6 DEF IInv, TypeOK, ThreadInv, FlagsInv, AnswersInv, NoEarlyAnswer, SpuriousWakeup, mainVars, sessionVars, flagVars, guiVars
  <2>4. PositionInv' /\ BookFlagIsTrue'
    BY <1>6, SessionKept DEF IInv, SpuriousWakeup, mainVars, sessionVars, flagVars, guiVars
  <2>5. JobInv'
    BY <1>6, JobKept DEF IInv, SpuriousWakeup, mainVars, sessionVars, flagVars, guiVars, threadVars
  <2> QED BY <2>1, <2>2, <2>3, <2>4, <2>5
<1>7. CASE Report
  <2>1. ThreadInv'
    BY <1>7 DEF IInv, TypeOK, ThreadInv, FlagsInv, Stops, Report, mainVars, sessionVars
  <2>2. FlagsInv'
    BY <1>7 DEF IInv, TypeOK, ThreadInv, FlagsInv, Stops, Report, mainVars, sessionVars
  <2>3. AnswersInv'
    BY <1>7 DEF IInv, TypeOK, ThreadInv, FlagsInv, AnswersInv, NoEarlyAnswer, Report, mainVars, sessionVars
  <2>4. PositionInv' /\ BookFlagIsTrue'
    BY <1>7, SessionKept DEF IInv, Report, mainVars, sessionVars
  <2>5. JobInv'
    BY <1>7, JobKept DEF IInv, Report, mainVars, sessionVars, threadVars, guiVars
  <2> QED BY <2>1, <2>2, <2>3, <2>4, <2>5
<1> QED BY <1>1, <1>2, <1>3, <1>4, <1>5, <1>6, <1>7

(* The commands that change the session. *)
LEMMA SessionIInv ==
    ASSUME IInv, SetPosition \/ NewGame \/ SetOption \/ IsReady
    PROVE  ThreadInv' /\ FlagsInv' /\ AnswersInv' /\ PositionInv' /\ JobInv' /\ BookFlagIsTrue'
<1> USE DEF Live
<1>1. mpc = "act" /\ mpc' = "read" /\ UNCHANGED <<cmd, threadVars, mutex, flagVars, asked, heard, cancelled, out>>
  BY DEF SetPosition, NewGame, SetOption, IsReady, Handle, Done, guiVars
<1>2. ThreadInv' /\ FlagsInv' /\ AnswersInv'
  BY <1>1 DEF IInv, ThreadInv, FlagsInv, AnswersInv, NoEarlyAnswer, Stops, threadVars, flagVars
<1>3. JobInv'
  BY <1>1, JobKept DEF IInv, threadVars
<1>4. CASE SetPosition
  <2>1. cmd.pos \in Positions \cup {Malformed}
    BY <1>4, CommandsAreTyped DEF IInv, TypeOK, SetPosition, Handle
  <2>2. PositionInv'
    BY <1>4, <2>1 DEF IInv, PositionInv, SetPosition
  <2>3. BookFlagIsTrue'
    BY <1>4 DEF IInv, BookFlagIsTrue, SetPosition
  <2> QED BY <1>2, <1>3, <2>2, <2>3
<1>5. CASE NewGame
  <2>1. PositionInv'
    BY <1>5, ConstantsAssumption DEF IInv, TypeOK, PositionType, PositionInv, NewGame
  <2>2. BookFlagIsTrue'
    BY <1>5 DEF IInv, BookFlagIsTrue, NewGame
  <2> QED BY <1>2, <1>3, <2>1, <2>2
<1>6. CASE SetOption
  <2>1. cmd.name \in OptionNames
    BY <1>6, CommandsAreTyped DEF IInv, TypeOK, SetOption, Handle
  <2>2. opt'.Rules = IF cmd.name = "Rules" THEN cmd.value ELSE opt.Rules
    BY <1>6 DEF IInv, TypeOK, OptionType, SetOption
  <2>3. cmd.name # "BookPath" => opt'.BookPath = opt.BookPath
    BY <1>6 DEF IInv, TypeOK, OptionType, SetOption
  <2>4. position'.at = position.at /\ position'.rules = opt'.Rules
    BY <1>6, <2>2 DEF IInv, TypeOK, PositionType, PositionInv, SetOption
  <2>5. PositionInv'
    BY <1>6, <2>4 DEF IInv, PositionInv, SetOption, guiVars
  <2>6. BookFlagIsTrue'
    BY <1>6, <2>3 DEF IInv, BookFlagIsTrue, SetOption
  <2> QED BY <1>2, <1>3, <2>5, <2>6
<1>7. CASE IsReady
  <2>1. PositionInv'
    BY <1>7 DEF IInv, PositionInv, IsReady, guiVars
  <2>2. BookFlagIsTrue'
    BY <1>7 DEF IInv, BookFlagIsTrue, IsReady
  <2> QED BY <1>2, <1>3, <2>1, <2>2
<1> QED BY <1>4, <1>5, <1>6, <1>7

(* A new line. *)
LEMMA ReadIInv ==
    ASSUME IInv, NEW c \in Commands, Read(c)
    PROVE  ThreadInv' /\ FlagsInv' /\ AnswersInv' /\ PositionInv' /\ JobInv' /\ BookFlagIsTrue'
<1> USE DEF Live
<1>1. ThreadInv' /\ FlagsInv'
  BY DEF IInv, ThreadInv, FlagsInv, Stops, Read, threadVars, flagVars
<1>2. AnswersInv'
  BY DEF IInv, AnswersInv, NoEarlyAnswer, Read, threadVars, flagVars
<1>3. PositionInv' /\ BookFlagIsTrue'
  BY SessionKept DEF IInv, Read
<1>4. JobInv'
  BY JobKept DEF IInv, Read, threadVars
<1> QED BY <1>1, <1>2, <1>3, <1>4

(* go, go mate and go tsume, when stop_search has left no search: the flags are
   down, and what is launched is what was asked. *)
LEMMA StartIInv ==
    ASSUME IInv, StartSearch \/ StartMate \/ StartTsume
    PROVE  ThreadInv' /\ FlagsInv' /\ AnswersInv' /\ PositionInv' /\ JobInv' /\ BookFlagIsTrue'
<1> USE DEF Live
<1>1. /\ mpc = "act" /\ mpc' = "read" /\ UNCHANGED <<cmd, sessionVars, latest, mutex>>
      /\ asked' = [cmd |-> cmd, at |-> latest, rules |-> opt.Rules]
      /\ heard' = {} /\ cancelled' = FALSE
  BY DEF StartSearch, StartMate, StartTsume, Handle, Done, Ask
<1>2. cmd.op \in {"go", "mate", "tsume"} /\ spc = "none" /\ mutex # "search"
  BY DEF StartSearch, StartMate, StartTsume, Handle, IInv, ThreadInv, Stops
<1>3. ~suppress /\ ~pondering /\ ~ponderhit
  BY <1>1, <1>2 DEF IInv, FlagsInv
<1>4. PositionInv' /\ BookFlagIsTrue'
  BY <1>1, SessionKept DEF IInv
<1>5. CASE spc' = "none"
  <2>1. UNCHANGED <<threadVars, pondering, ponderhit, suppress>> /\ (StartSearch => ~cmd.ponder /\ ~cmd.infinite)
    BY <1>2, <1>5 DEF StartSearch, StartMate, StartTsume, BookAnswers, AnswerAtOnce, Launch, threadVars
  <2>2. ThreadInv' /\ FlagsInv'
    BY <1>1, <1>2, <1>3, <1>5, <2>1 DEF IInv, ThreadInv, FlagsInv, threadVars
  <2>3. cmd.op = "go" => StartSearch
    BY DEF StartMate, StartTsume, Handle
  <2>4. AnswersInv'
    BY <1>1, <1>2, <1>3, <1>5, <2>1, <2>3 DEF AnswersInv, NoEarlyAnswer
  <2>5. JobInv'
    BY <1>5 DEF JobInv, SearchesWhatWasAsked, SearchHasItsKings
  <2> QED BY <1>4, <2>2, <2>4, <2>5
<1>6. CASE spc' # "none"
  <2>1. /\ spc' = "search" /\ out' = <<>> /\ ~stopRequested' /\ ~suppress' /\ ~ponderhit'
        /\ job'.kind = cmd.op /\ job'.pos = position
        /\ pondering' => job'.kind = "go" /\ job'.ponder
        /\ cmd.op = "go" => /\ job'.infinite = cmd.infinite /\ job'.ponder = cmd.ponder
                            /\ job'.valid = GoValid
        /\ cmd.op = "mate" => MateValid
        /\ cmd.op = "tsume" => TsumeValid
    BY <1>2, <1>3, <1>6 DEF StartSearch, StartMate, StartTsume, AnswerAtOnce, Launch, threadVars, Handle
  <2>2. ThreadInv' /\ FlagsInv'
    BY <1>1, <1>2, <2>1 DEF IInv, ThreadInv, FlagsInv
  <2>3. AnswersInv'
    BY <1>1, <1>2, <2>1 DEF AnswersInv, NoEarlyAnswer
  <2>4. SearchesWhatWasAsked'
    BY <1>1, <1>2, <2>1 DEF IInv, TypeOK, PositionType, PositionInv, SearchesWhatWasAsked, GoValid, MateValid, TsumeValid
  <2>5. SearchHasItsKings'
    BY <1>1, <1>2, <2>1 DEF IInv, PositionInv, SearchHasItsKings, GoValid, MateValid, TsumeValid
  <2> QED BY <1>4, <2>2, <2>3, <2>4, <2>5 DEF JobInv
<1> QED BY <1>5, <1>6

LEMMA StepIInv == IInv /\ [Next]_vars => IInv'
<1> SUFFICES ASSUME IInv, [Next]_vars PROVE IInv'
  OBVIOUS
<1>1. TypeOK'
  BY StepTypeOK DEF IInv
<1>2. ThreadInv' /\ FlagsInv' /\ AnswersInv' /\ PositionInv' /\ JobInv' /\ BookFlagIsTrue'
  <2>1. CASE \E c \in Commands : Read(c)
    BY <2>1, ReadIInv
  <2>2. CASE MainLocks
    BY <2>2, StopSearchIInv, OtherCommandsIInv DEF MainLocks
  <2>3. CASE MainRuns
    BY <2>3, StopSearchIInv, OtherCommandsIInv, SessionIInv, StartIInv DEF MainRuns
  <2>4. CASE SearchEnds \/ ThreadRuns \/ SpuriousWakeup
    BY <2>4, ThreadIInv DEF ThreadRuns
  <2>5. CASE Finished \/ UNCHANGED vars
    <3>1. UNCHANGED vars
      BY <2>5 DEF Finished
    <3>2. UNCHANGED <<mainVars, sessionVars, threadVars, mutex, flagVars, guiVars>>
      BY <3>1 DEF vars
    <3>3. PositionInv' /\ BookFlagIsTrue' /\ JobInv'
      BY <3>2, SessionKept, JobKept DEF IInv, threadVars, guiVars, Live
    <3>4. ThreadInv' /\ FlagsInv' /\ AnswersInv'
      BY <3>2 DEF IInv, ThreadInv, FlagsInv, AnswersInv, NoEarlyAnswer, Stops, Live,
                  mainVars, threadVars, flagVars, guiVars
    <3> QED BY <3>3, <3>4
  <2> QED BY <2>1, <2>2, <2>3, <2>4, <2>5 DEF Next
<1> QED BY <1>1, <1>2 DEF IInv

(* The inductive invariant. *)
THEOREM Invariance == Spec => []IInv
BY InitIInv, StepIInv, PTL DEF Spec

-----------------------------------------------------------------------------
(* What it implies. *)

(* No search is answered before it may be. *)
THEOREM AnswersAreDue == Spec => []NoEarlyAnswer
BY Invariance, PTL DEF IInv, AnswersInv

(* No flag of one search is left for the next. *)
THEOREM FlagsAreFresh == Spec => []NoLeftoverFlag
<1>1. IInv => NoLeftoverFlag
  BY DEF IInv, FlagsInv, NoLeftoverFlag
<1> QED BY <1>1, Invariance, PTL

(* Each search runs on what the GUI described last. *)
THEOREM SearchesAreAsked == Spec => []SearchesWhatWasAsked
BY Invariance, PTL DEF IInv, JobInv

(* Each search has the kings it needs. *)
THEOREM KingsArePresent == Spec => []SearchHasItsKings
BY Invariance, PTL DEF IInv, JobInv

(* book_loaded_ says what the book in memory is. *)
THEOREM BookIsCurrent == Spec => []BookFlagIsTrue
BY Invariance, PTL DEF IInv

(* A discarded search prints nothing more. *)
LEMMA StaleStep == IInv /\ [Next]_vars => [cancelled /\ cancelled' => out' = out]_vars
<1> SUFFICES ASSUME IInv, Next, cancelled, cancelled' PROVE out' = out
  BY DEF vars
<1>1. CASE \E c \in Commands : Read(c)
  BY <1>1 DEF Read
<1>2. CASE MainLocks
  BY <1>2 DEF MainLocks, Suppress, ClearFlags, Ponderhit, guiVars
<1>3. CASE MainRuns
  BY <1>3 DEF MainRuns, StoreStop, NotifyStop, Join, StartSearch, StartMate, StartTsume, Ask,
              SetPosition, NewGame, SetOption, IsReady, NothingMore, Quit, Exit, guiVars
<1>4. CASE SearchEnds \/ Lock \/ Evaluate \/ Block \/ Deadline \/ SpuriousWakeup \/ Finished
  BY <1>4 DEF SearchEnds, Lock, Evaluate, Block, Deadline, SpuriousWakeup, Finished, vars, guiVars
<1>5. CASE Report
  BY <1>5 DEF Report, IInv, FlagsInv, Live
<1> QED BY <1>1, <1>2, <1>3, <1>4, <1>5 DEF Next, ThreadRuns

THEOREM NothingStale == Spec => NoStaleAnswer
BY Invariance, StaleStep, PTL DEF Spec, NoStaleAnswer

-----------------------------------------------------------------------------
(* The engine implements UsiProtocol. *)

LEMMA AnswersOfAppend ==
    ASSUME NEW s \in Seq(AnswerType), NEW a \in AnswerType
    PROVE  [i \in DOMAIN Append(s, a) |-> Append(s, a)[i].word]
               = Append([i \in DOMAIN s |-> s[i].word], a.word)
OBVIOUS

LEMMA AnswersOfOne ==
    ASSUME NEW a \in AnswerType
    PROVE  [i \in DOMAIN <<a>> |-> <<a>>[i].word] = <<a.word>>
OBVIOUS

LEMMA AnswersOfNone == [i \in DOMAIN <<>> |-> <<>>[i].word] = <<>>
OBVIOUS

LEMMA InitProtocol == Init => Protocol!Init
BY AnswersOfNone DEF Init, Protocol!Init, Pending, Answers, Live, Protocol!Nothing

(* Steps that the GUI does not see, and those that give a search up. *)
LEMMA UnseenStep ==
    ASSUME UNCHANGED <<job, heard, out>>, Live' /\ ~cancelled' <=> Live /\ ~cancelled
    PROVE  UNCHANGED Protocol!vars
BY DEF Protocol!vars, Pending, Answers

LEMMA GiveUpStep ==
    ASSUME UNCHANGED <<heard, out>>, ~Live' \/ cancelled'
    PROVE  [Protocol!Next]_(Protocol!vars)
<1>1. Pending' = Protocol!Nothing
  BY DEF Pending, Protocol!Nothing
<1>2. UNCHANGED <<heard, Answers>>
  BY DEF Answers
<1>3. CASE Pending = Protocol!Nothing
  BY <1>1, <1>2, <1>3 DEF Protocol!vars
<1>4. CASE Pending # Protocol!Nothing
  BY <1>1, <1>2, <1>4 DEF Protocol!Next, Protocol!GiveUp
<1> QED BY <1>3, <1>4

(* A line is a word to the protocol if it is stop or ponderhit. *)
LEMMA ReadStep ==
    ASSUME NEW c \in Commands, Read(c)
    PROVE  [Protocol!Next]_(Protocol!vars)
<1>1. UNCHANGED <<Pending, Answers>>
  BY DEF Read, Pending, Answers, Live, threadVars
<1>2. CASE c.op \in {"stop", "ponderhit"}
  <2>1. heard' = heard \cup {c.op}
    BY <1>2 DEF Read
  <2> QED BY <1>1, <1>2, <2>1 DEF Protocol!Next, Protocol!Say
<1>3. CASE c.op \notin {"stop", "ponderhit"}
  <2>1. heard' = heard
    BY <1>3 DEF Read
  <2> QED BY <1>1, <2>1 DEF Protocol!vars
<1> QED BY <1>2, <1>3

(* The three ways to ask for a search. *)
LEMMA StartStep ==
    ASSUME IInv, StartSearch \/ StartMate \/ StartTsume
    PROVE  [Protocol!Next]_(Protocol!vars)
<1>1. spc = "none" /\ cmd.op \in {"go", "mate", "tsume"}
  BY DEF IInv, ThreadInv, StartSearch, StartMate, StartTsume, Handle, Stops
<1>2. Pending = Protocol!Nothing
  BY <1>1 DEF Pending, Live, Protocol!Nothing
<1>3. heard' = {} /\ cancelled' = FALSE
  BY DEF StartSearch, StartMate, StartTsume, Ask
<1>4. CASE spc' = "none"
  <2>1. PICK a \in {At("bestmove", "move"), At("checkmate", "timeout"), At("tsume", "invalid")} :
            AnswerAtOnce(a)
    BY <1>4 DEF StartSearch, StartMate, StartTsume, Launch
  <2>2. a.word \in {"bestmove", "checkmate", "tsume"} /\ a \in AnswerType
    <3>1. "timeout" \in ResultType
      BY DEF ResultType, Results
    <3>2. a.word \in {"bestmove", "checkmate", "tsume"}
      BY <2>1 DEF At
    <3>3. /\ At("bestmove", "move") \in AnswerType /\ At("checkmate", "timeout") \in AnswerType
          /\ At("tsume", "invalid") \in AnswerType
      BY <3>1 DEF At, AnswerType
    <3> QED BY <2>1, <3>2, <3>3
  <2>3. Answers' = <<a.word>>
    BY <2>1, <2>2, AnswersOfOne DEF AnswerAtOnce, Answers
  <2>4. Pending' = Pending
    BY <1>2, <1>4 DEF Pending, Live, Protocol!Nothing
  <2> DEFINE g == [kind |-> a.word, infinite |-> FALSE, ponder |-> FALSE]
  <2>5. g \in Protocol!GoType
    BY <2>2 DEF Protocol!GoType
  <2>6. Protocol!GoAnsweredAtOnce(g)
    BY <1>2, <1>3, <2>3, <2>4 DEF Protocol!GoAnsweredAtOnce
  <2> QED BY <2>5, <2>6 DEF Protocol!Next
<1>5. CASE spc' # "none"
  <2>1. spc' = "search" /\ out' = <<>>
    BY <1>1, <1>5 DEF StartSearch, StartMate, StartTsume, AnswerAtOnce, Launch, threadVars
  <2>2. job' \in JobType
    <3>1. TypeOK'
      BY GoTypeOK, MateTypeOK, TsumeTypeOK DEF IInv
    <3> QED BY <3>1 DEF TypeOK
  <2> DEFINE g == [kind |-> Word(job'.kind), infinite |-> job'.infinite, ponder |-> job'.ponder]
  <2>3. g \in Protocol!GoType
    BY <2>2 DEF Protocol!GoType, JobType, Word
  <2>4. Pending' = g
    BY <1>3, <2>1 DEF Pending, Live
  <2>5. Answers' = <<>>
    BY <2>1, AnswersOfNone DEF Answers
  <2>6. Protocol!Go(g)
    BY <1>2, <1>3, <2>4, <2>5 DEF Protocol!Go
  <2> QED BY <2>3, <2>6 DEF Protocol!Next
<1> QED BY <1>4, <1>5

(* A report that is not suppressed answers the pending go when that is due. *)
LEMMA ReportStep ==
    ASSUME IInv, Report
    PROVE  [Protocol!Next]_(Protocol!vars)
<1>1. spc = "report" /\ spc' = "done" /\ heard' = heard /\ ~Live' /\ Live
  BY DEF Report, Live
<1>2. CASE suppress
  <2>1. out' = out
    BY <1>2 DEF Report
  <2> QED BY <1>1, <2>1, GiveUpStep
<1>3. CASE ~suppress
  <2>1. ~cancelled
    BY <1>1, <1>3 DEF IInv, FlagsInv
  <2>2. Pending = [kind |-> Word(job.kind), infinite |-> job.infinite, ponder |-> job.ponder]
    BY <1>1, <2>1 DEF Pending
  <2>3. Pending' = Protocol!Nothing
    BY <1>1 DEF Pending, Protocol!Nothing
  <2>4. Word(job.kind) \in {"bestmove", "checkmate", "tsume"} /\ (Word(job.kind) = "bestmove" => job.kind = "go")
    BY DEF IInv, TypeOK, JobType, Word
  <2>5. Pending # Protocol!Nothing
    BY <2>2, <2>4 DEF Protocol!Nothing
  <2>6. job.kind = "go" => /\ job.infinite => "stop" \in heard
                           /\ job.ponder => heard # {}
    BY <1>1, <1>3 DEF IInv, FlagsInv, AnswersInv
  <2>7. Protocol!Due(Pending)
    BY <2>2, <2>4, <2>6 DEF Protocol!Due
  <2>8. out' = Append(out, Answer(result, job)) /\ Answer(result, job) \in AnswerType
    BY <1>3, AnswersAreTyped DEF Report, IInv, TypeOK
  <2>9. Answers' = Append(Answers, Answer(result, job).word)
    BY <2>8, AnswersOfAppend DEF Answers, IInv, TypeOK
  <2>10. Answer(result, job).word = Pending.kind
    BY <2>2 DEF Answer
  <2> QED BY <1>1, <2>3, <2>5, <2>7, <2>9, <2>10 DEF Protocol!Next, Protocol!Answer
<1> QED BY <1>2, <1>3

LEMMA StepProtocol == IInv /\ [Next]_vars => [Protocol!Next]_(Protocol!vars)
<1> SUFFICES ASSUME IInv, [Next]_vars PROVE [Protocol!Next]_(Protocol!vars)
  OBVIOUS
<1>1. CASE \E c \in Commands : Read(c)
  BY <1>1, ReadStep
<1>2. CASE Suppress
  <2>1. CASE cmd.op = "stop"
    BY <1>2, <2>1, UnseenStep DEF Suppress, Live, threadVars
  <2>2. CASE cmd.op # "stop"
    BY <1>2, <2>2, GiveUpStep DEF Suppress
  <2> QED BY <2>1, <2>2
<1>3. CASE StoreStop \/ NotifyStop \/ Join \/ ClearFlags \/ Ponderhit
  BY <1>3, UnseenStep DEF StoreStop, NotifyStop, Join, ClearFlags, Ponderhit, Woken, Live, threadVars, guiVars
<1>4. CASE SetPosition \/ NewGame \/ SetOption \/ IsReady \/ NothingMore \/ Quit \/ Exit
  BY <1>4, UnseenStep
     DEF SetPosition, NewGame, SetOption, IsReady, NothingMore, Quit, Exit, Live, threadVars, guiVars
<1>5. CASE StartSearch \/ StartMate \/ StartTsume
  BY <1>5, StartStep
<1>6. CASE SearchEnds \/ Lock \/ Evaluate \/ Block \/ Deadline \/ SpuriousWakeup
  BY <1>6, UnseenStep DEF SearchEnds, Lock, Evaluate, Block, Deadline, SpuriousWakeup, Live, guiVars
<1>7. CASE Report
  BY <1>7, ReportStep
<1>8. CASE Finished \/ UNCHANGED vars
  BY <1>8, UnseenStep DEF Finished, vars, threadVars, guiVars, Live
<1> QED BY <1>1, <1>2, <1>3, <1>4, <1>5, <1>6, <1>7, <1>8 DEF Next, MainLocks, MainRuns, ThreadRuns

(* Every go is answered at most once, with the right word, when it is due, and
   not after it was given up. *)
THEOREM Implementation == Spec => KeepsProtocol
<1>1. Spec => Protocol!Init /\ [][Protocol!Next]_(Protocol!vars)
  BY InitProtocol, StepProtocol, Invariance, PTL DEF Spec
<1> QED BY <1>1 DEF KeepsProtocol, Protocol!Spec
=============================================================================
