-------------------------- MODULE GoCommandProofs ---------------------------
(***************************************************************************)
(* What GoCommand promises about the words of a line, about time and about *)
(* the book, for every line, clock, setting and file of the constants.     *)
(***************************************************************************)
EXTENDS GoCommand, FiniteSetTheorems, TLAPS

FileRuns == INSTANCE FoldTheorems WITH Step <- ReadLine

(* ParseInt gives an integer whatever the word is. *)
LEMMA ParseIntType ==
    ASSUME NEW word, NEW fallback \in Int
    PROVE  ParseInt(word, fallback) \in Int
BY GoAssumption DEF ParseInt

LEMMA ClampType ==
    ASSUME NEW n \in Int, NEW low \in Int, NEW high \in Int
    PROVE  /\ AtLeast(low, n) \in Int /\ AtLeast(low, n) >= low
           /\ Clamp(n, low, high) \in Int
BY DEF AtLeast, Clamp

LEMMA ParseUint64Type ==
    ASSUME NEW word PROVE ParseUint64(word, 0) \in Int
BY GoAssumption DEF ParseUint64

LEMMA DefaultTypes ==
    /\ DefaultOptions \in OptionsType
    /\ \A s \in Settings : [DefaultOptions EXCEPT
                               !.limitStrength = s.limitStrength /\ ~s.analyse,
                               !.strength = s.strength] \in OptionsType
<1>1. DefaultOptions \in OptionsType
  BY GoAssumption DEF DefaultOptions, DefaultStrength, OptionsType
<1>2. ASSUME NEW s \in Settings
      PROVE  (s.limitStrength /\ ~s.analyse) \in BOOLEAN /\ s.strength \in Int
  BY GoAssumption DEF SettingType
<1> QED BY <1>1, <1>2 DEF OptionsType

LEMMA InitTypes == Init => TypeOK
<1> SUFFICES ASSUME Init PROVE TypeOK
  OBVIOUS
<1>1. options \in OptionsType
  BY DefaultTypes DEF Init
<1>2. <<>> \in Seq(WordType)
  OBVIOUS
<1>3. clock \in [ClockNames -> Int]
  BY DEF Init
<1> QED BY <1>1, <1>2, <1>3 DEF Init, TypeOK

LEMMA FreshTypes ==
    ASSUME TypeOK, NEW line \in Seq(WordType), NEW waits \in {"nothing", "name"},
           NEW o \in OptionsType, Fresh(line, waits, o),
           situation' \in Situations, settings' \in Settings
    PROVE  TypeOK'
<1>1. clock' \in [ClockNames -> Int]
  BY DEF Fresh
<1>2. /\ rest' \in Seq(WordType) /\ hasClock' \in BOOLEAN /\ movetime' \in Nat /\ options' \in OptionsType
      /\ awaiting' \in {"nothing", "name"}
  BY DEF Fresh
<1> QED BY <1>1, <1>2 DEF TypeOK

LEMMA ReadTypes ==
    ASSUME TypeOK, Parse
    PROVE  TypeOK'
<1>1. ASSUME NEW waits \in ValueNames \cup {"name", "searchmoves"}, ReadOn(waits), rest # <<>>
      PROVE  /\ rest' \in Seq(WordType) /\ situation' \in Situations /\ settings' \in Settings
             /\ awaiting' \in ValueNames \cup {"nothing", "name", "searchmoves"}
  BY <1>1 DEF ReadOn, TypeOK
<1>2. CASE ReadSearchmove
  <2>1. Head(rest) \in WordType
    BY <1>2 DEF ReadSearchmove, Reading, TypeOK
  <2>2. Head(rest).name \in Names
    BY <2>1 DEF WordType
  <2>3. options' \in OptionsType
    BY <1>2, <2>2 DEF ReadSearchmove, TypeOK, OptionsType
  <2> QED BY <1>1, <1>2, <2>3 DEF ReadSearchmove, Reading, TypeOK
<1>3. CASE ReadName
  <2>1. options' \in OptionsType
    BY <1>3 DEF ReadName, TypeOK, OptionsType
  <2>2. PICK waits \in ValueNames \cup {"name", "searchmoves"} : ReadOn(waits)
    BY <1>3 DEF ReadName
  <2> QED BY <1>1, <1>3, <2>1, <2>2 DEF ReadName, Reading, TypeOK
<1>4. CASE ReadClock
  <2>1. ParseInt(Head(rest), 0) \in Int
    BY ParseIntType
  <2>2. clock \in [ClockNames -> Int] /\ awaiting \in ClockNames
    BY <1>4 DEF ReadClock, Reading, TypeOK
  <2>3. clock' \in [ClockNames -> Int]
    BY <1>4, <2>1, <2>2 DEF ReadClock
  <2> QED BY <1>1, <1>4, <2>3 DEF ReadClock, Reading, TypeOK
<1>5. CASE ReadMovetime
  <2>1. ParseInt(Head(rest), 0) \in Int
    BY ParseIntType
  <2>2. AtLeast(1, ParseInt(Head(rest), 0)) \in Nat
    BY <2>1 DEF AtLeast
  <2> QED BY <1>1, <1>5, <2>2 DEF ReadMovetime, Reading, TypeOK
<1>6. CASE ReadLimit
  <2> DEFINE word == Head(rest)
  <2>1. /\ AtLeast(0, ParseInt(word, 0)) \in Nat
        /\ Clamp(ParseInt(word, options.maxDepth), 1, MaxDepth) \in Int
        /\ AtLeast(1, ParseUint64(word, 0)) \in Int
    <3>1. ParseInt(word, 0) \in Int /\ ParseInt(word, options.maxDepth) \in Int
          /\ ParseUint64(word, 0) \in Int
      BY ParseIntType, ParseUint64Type DEF TypeOK, OptionsType
    <3>2. MaxDepth \in Int
      BY GoAssumption
    <3> QED BY <3>1, <3>2 DEF AtLeast, Clamp
  <2>2. CASE awaiting = "movestogo"
    <3>1. options' = [options EXCEPT !.movesToGo = AtLeast(0, ParseInt(word, 0))]
      BY <1>6, <2>2 DEF ReadLimit
    <3>2. options' \in OptionsType
      BY <2>1, <3>1 DEF TypeOK, OptionsType
    <3> QED BY <1>1, <1>6, <3>2 DEF ReadLimit, Reading, TypeOK
  <2>3. CASE awaiting = "depth"
    <3>1. options' = [options EXCEPT !.maxDepth = Clamp(ParseInt(word, @), 1, MaxDepth)]
      BY <1>6, <2>3 DEF ReadLimit
    <3>2. options' \in OptionsType
      BY <2>1, <3>1 DEF TypeOK, OptionsType
    <3> QED BY <1>1, <1>6, <3>2 DEF ReadLimit, Reading, TypeOK
  <2>4. CASE awaiting = "nodes"
    <3>1. options' = [options EXCEPT !.nodeLimit = AtLeast(1, ParseUint64(word, 0))]
      BY <1>6, <2>4 DEF ReadLimit
    <3>2. options' \in OptionsType
      BY <2>1, <3>1 DEF TypeOK, OptionsType
    <3> QED BY <1>1, <1>6, <3>2 DEF ReadLimit, Reading, TypeOK
  <2> QED BY <1>6, <2>2, <2>3, <2>4 DEF ReadLimit, Reading
<1> QED BY <1>2, <1>3, <1>4, <1>5, <1>6 DEF Parse

LEMMA NextTypes == TypeOK /\ [Next]_vars => TypeOK'
<1> SUFFICES ASSUME TypeOK, [Next]_vars PROVE TypeOK'
  OBVIOUS
<1>1. ASSUME Forget, situation' \in Situations, settings' \in Settings PROVE TypeOK'
  <2>1. <<>> \in Seq(WordType)
    OBVIOUS
  <2> QED BY <1>1, <2>1, FreshTypes, DefaultTypes DEF Forget
<1>2. CASE \E s \in Situations : Position(s)
  BY <1>1, <1>2 DEF Position, TypeOK
<1>3. CASE \E s \in Settings : SetOption(s)
  BY <1>1, <1>3 DEF SetOption, TypeOK
<1>4. CASE \E f \in Files : LoadBook(f)
  BY <1>1, <1>4 DEF LoadBook, TypeOK
<1>5. CASE \E line \in Lines : Go(line)
  <2>1. PICK line \in Lines : Go(line)
    BY <1>5
  <2>2. line \in Seq(WordType)
    BY GoAssumption
  <2>3. settings \in Settings /\ situation' \in Situations /\ settings' \in Settings
    BY <2>1 DEF Go, TypeOK
  <2> QED BY <2>1, <2>2, <2>3, FreshTypes, DefaultTypes DEF Go
<1>6. CASE Parse
  BY <1>6, ReadTypes
<1>7. CASE AnswerFromBook \/ StartSearch
  BY <1>7 DEF AnswerFromBook, StartSearch, TypeOK
<1>8. CASE UNCHANGED vars
  BY <1>8 DEF vars, parseVars, TypeOK
<1> QED BY <1>2, <1>3, <1>4, <1>5, <1>6, <1>7, <1>8 DEF Next

(* Every variable of the parse keeps its type, whatever the words are. *)
THEOREM TypesAreKept == Spec => []TypeOK
BY InitTypes, NextTypes, PTL DEF Spec

-----------------------------------------------------------------------------
(* The clock's arithmetic. *)
LEMMA ClockLimitBounds ==
    ASSUME TypeOK
    PROVE  LET cap == Left - settings.networkDelay2
           IN /\ ClockLimit \in 1 .. IntMax
              /\ ClockLimit <= AtLeast(1, cap)
              /\ ClockLimit >= AtMost(IntMax, AtMost(cap, MinimumTime))
<1>1. \A name \in ClockNames : clock[name] \in Int
  BY DEF TypeOK
<1>2. Remaining \in Nat /\ Increment \in Nat /\ Byoyomi \in Nat
  BY <1>1 DEF Remaining, Increment, Byoyomi, Own, AtLeast, ClockNames
<1>3. Left = Remaining + Increment + Byoyomi
  BY DEF Left, Remaining, Increment, Byoyomi, Own
<1>4. /\ settings.slowMover \in Nat /\ settings.minimumThinkingTime \in Nat
      /\ settings.networkDelay \in Nat /\ settings.networkDelay2 \in Nat
  BY GoAssumption DEF TypeOK, SettingType
<1>5. IntMax \in Nat /\ IntMax >= 1
  BY GoAssumption
<1>6. MinimumTime \in Nat
  BY <1>4 DEF MinimumTime, AtLeast
<1>7. SoftTarget \in Int
  <2>1. Slice \in Int
    <3>1. options.movesToGo \in Nat
      BY DEF TypeOK, OptionsType
    <3>2. Remaining \div (IF options.movesToGo > 0 THEN options.movesToGo ELSE 30) \in Int
      BY <1>2, <3>1
    <3> QED BY <3>2 DEF Slice, AtLeast
  <2>2. Slice * settings.slowMover \in Int
    BY <1>4, <2>1
  <2>3. (Slice * settings.slowMover) \div 100 \in Int
    BY <2>2
  <2> QED BY <1>2, <1>4, <2>3 DEF SoftTarget, AtLeast
<1> DEFINE cap == Left - settings.networkDelay2
<1>8. HardCap = AtLeast(0, cap) /\ cap \in Int
  BY <1>2, <1>3, <1>4 DEF HardCap
<1> HIDE DEF cap
<1>9. ASSUME NEW soft \in Int, NEW least \in Nat, NEW most \in Int, NEW c \in Int, most = AtLeast(0, c)
      PROVE  LET limit == Clamp(AtMost(most, AtLeast(soft, least)), 1, IntMax)
             IN /\ limit \in 1 .. IntMax
                /\ limit <= AtLeast(1, c)
                /\ limit >= AtMost(IntMax, AtMost(c, least))
  BY <1>5, <1>9 DEF Clamp, AtLeast, AtMost
<1>10. HardCap \in Int
  BY <1>8 DEF AtLeast
<1> QED BY <1>6, <1>7, <1>8, <1>9, <1>10 DEF ClockLimit, cap

(* While the words are read there is no answer. *)
UnansweredInv == Idle \/ reply.kind = "none"
TimeInv == TypeOK /\ UnansweredInv /\ TimeIsKept

LEMMA NextUnanswered == UnansweredInv /\ [Next]_vars => UnansweredInv'
<1> SUFFICES ASSUME UnansweredInv, [Next]_vars PROVE UnansweredInv'
  OBVIOUS
<1>1. CASE Parse
  BY <1>1 DEF UnansweredInv, Idle, Parse, ReadSearchmove, ReadName, ReadClock, ReadMovetime, ReadLimit,
     Reading, ReadOn, ClockNames
<1>2. CASE AnswerFromBook \/ StartSearch
  BY <1>2 DEF UnansweredInv, Idle, AnswerFromBook, StartSearch
<1>3. CASE UNCHANGED vars
  BY <1>3 DEF vars, parseVars, UnansweredInv, Idle
<1>4. ASSUME NEW line, NEW waits, NEW o, Fresh(line, waits, o) PROVE UnansweredInv'
  BY <1>4 DEF Fresh, NoReply, UnansweredInv
<1> QED BY <1>1, <1>2, <1>3, <1>4 DEF Next, Position, SetOption, LoadBook, Forget, Go

LEMMA NextTime == TypeOK /\ UnansweredInv /\ TimeIsKept /\ [Next]_vars => TimeIsKept'
<1> SUFFICES ASSUME TypeOK, UnansweredInv, TimeIsKept, [Next]_vars PROVE TimeIsKept'
  OBVIOUS
<1>1. CASE StartSearch
  <2> SUFFICES ASSUME hasClock, movetime = 0, ~options.infinite
               PROVE  LET limit == reply'.options.timeLimit
                          cap == Left - settings.networkDelay2
                      IN /\ limit \in 1 .. IntMax
                         /\ limit <= AtLeast(1, cap)
                         /\ limit >= AtMost(IntMax, AtMost(cap, MinimumTime))
    BY <1>1 DEF StartSearch, TimeIsKept, Left, MinimumTime
  <2>1. SearchOptions.timeLimit = ClockLimit
    <3>1. ClockLimit \in Int
      BY ClockLimitBounds
    <3>2. [options EXCEPT !.timeLimit = TimeLimit] = [options EXCEPT !.timeLimit = ClockLimit]
      BY DEF TimeLimit
    <3>3. [options EXCEPT !.timeLimit = ClockLimit] \in OptionsType
          /\ [options EXCEPT !.timeLimit = ClockLimit].timeLimit = ClockLimit
      BY <3>1 DEF TypeOK, OptionsType
    <3>4. ASSUME NEW o \in OptionsType PROVE ApplyStrengthLimit(o).timeLimit = o.timeLimit
      BY DEF ApplyStrengthLimit, OptionsType
    <3> QED BY <3>2, <3>3, <3>4 DEF SearchOptions
  <2>2. reply'.options.timeLimit = ClockLimit
    BY <1>1, <2>1 DEF StartSearch
  <2> QED BY <2>2, ClockLimitBounds
<1>2. CASE reply'.kind # "search"
  BY <1>2 DEF TimeIsKept, Searching
<1>3. CASE UNCHANGED vars
  BY <1>3 DEF vars, parseVars, TimeIsKept, Searching, Left, MinimumTime
<1>4. CASE Parse
  <2>1. reply.kind = "none" /\ reply' = reply
    BY <1>4 DEF UnansweredInv, Idle, Parse, ReadSearchmove, ReadName, ReadClock, ReadMovetime, ReadLimit,
       Reading, ReadOn, ClockNames
  <2> QED BY <1>2, <2>1
<1>5. CASE AnswerFromBook
  BY <1>2, <1>5 DEF AnswerFromBook, Bestmove
<1>6. ASSUME NEW line, NEW waits, NEW o, Fresh(line, waits, o) PROVE reply'.kind # "search"
  BY <1>6 DEF Fresh, NoReply
<1> QED BY <1>1, <1>2, <1>3, <1>4, <1>5, <1>6 DEF Next, Position, SetOption, LoadBook, Forget, Go

(* A search on the clock has a limit, keeps NetworkDelay2 of the mover's time,
   and takes the minimum thinking time if there is time for it. *)
THEOREM TimeKept == Spec => []TimeIsKept
<1>1. Init => TimeInv
  BY InitTypes DEF Init, TimeInv, UnansweredInv, TimeIsKept, Searching, NoReply
<1>2. TimeInv /\ [Next]_vars => TimeInv'
  BY NextTypes, NextUnanswered, NextTime DEF TimeInv
<1>3. TimeInv => TimeIsKept
  BY DEF TimeInv
<1> QED BY <1>1, <1>2, <1>3, PTL DEF Spec

-----------------------------------------------------------------------------
(* What the first n words of a line say. *)
Had(line, name, n) == {i \in 1 .. n : line[i].name = name}
Saying(line, name, default, n) ==
    IF Had(line, name, n) = {} THEN default ELSE line[Max(Had(line, name, n)) + 1].int
Listing(line, n) ==
    \E i \in 1 .. n : line[i].name = "searchmoves" /\ \A k \in (i + 1) .. n : line[k].name \notin Keywords
Listed(line, n) ==
    {line[j].name : j \in {j \in 1 .. n : Listing(line, j - 1) /\ line[j].name \notin Keywords}}

LEMMA NoWords ==
    ASSUME NEW line
    PROVE  /\ \A name : Had(line, name, 0) = {}
           /\ \A name, default : Saying(line, name, default, 0) = default
           /\ ~Listing(line, 0) /\ Listed(line, 0) = {}
<1>1. 1 .. 0 = {}
  OBVIOUS
<1> QED BY <1>1 DEF Had, Saying, Listing, Listed

LEMMA HadMore ==
    ASSUME NEW line, NEW n \in Nat, NEW name
    PROVE  Had(line, name, n + 1) = IF line[n + 1].name = name THEN Had(line, name, n) \cup {n + 1}
                                    ELSE Had(line, name, n)
<1>1. 1 .. (n + 1) = (1 .. n) \cup {n + 1}
  OBVIOUS
<1> QED BY <1>1 DEF Had

LEMMA SaidMore ==
    ASSUME NEW line, NEW n \in Nat, NEW name, NEW default
    PROVE  Saying(line, name, default, n + 1)
           = IF line[n + 1].name = name THEN line[n + 2].int ELSE Saying(line, name, default, n)
<1>1. CASE line[n + 1].name = name
  <2> DEFINE s == Had(line, name, n) \cup {n + 1}
  <2>1. Had(line, name, n + 1) = s
    BY <1>1, HadMore
  <2>2. \A i \in s : i \in Int /\ n + 1 >= i
    BY DEF Had
  <2>3. n + 1 \in s
    OBVIOUS
  <2> HIDE DEF s
  <2>4. \A i \in s : (\A j \in s : i >= j) => i = n + 1
    BY <2>2, <2>3
  <2>5. Max(s) = n + 1
    BY <2>2, <2>3, <2>4 DEF Max
  <2>6. s # {} /\ n + 1 + 1 = n + 2
    BY <2>3
  <2> QED BY <1>1, <2>1, <2>5, <2>6 DEF Saying
<1>2. CASE line[n + 1].name # name
  <2>1. Had(line, name, n + 1) = Had(line, name, n)
    BY <1>2, HadMore
  <2> QED BY <1>2, <2>1 DEF Saying
<1> QED BY <1>1, <1>2

LEMMA ListMore ==
    ASSUME NEW line, NEW n \in Nat
    PROVE  /\ Listing(line, n + 1) <=> \/ line[n + 1].name = "searchmoves"
                                       \/ Listing(line, n) /\ line[n + 1].name \notin Keywords
           /\ Listed(line, n + 1) = IF Listing(line, n) /\ line[n + 1].name \notin Keywords
                                    THEN Listed(line, n) \cup {line[n + 1].name} ELSE Listed(line, n)
<1>1. 1 .. (n + 1) = (1 .. n) \cup {n + 1} /\ n + 1 - 1 = n
  OBVIOUS
<1>2. ASSUME NEW i \in 1 .. n PROVE (i + 1) .. (n + 1) = ((i + 1) .. n) \cup {n + 1}
  OBVIOUS
<1>3. (n + 1 + 1) .. (n + 1) = {}
  OBVIOUS
<1>4. Listing(line, n + 1) <=> \/ line[n + 1].name = "searchmoves"
                               \/ Listing(line, n) /\ line[n + 1].name \notin Keywords
  <2>1. ASSUME NEW i \in 1 .. n
        PROVE  (\A k \in (i + 1) .. (n + 1) : line[k].name \notin Keywords)
               <=> (\A k \in (i + 1) .. n : line[k].name \notin Keywords) /\ line[n + 1].name \notin Keywords
    BY <1>2
  <2>2. \A k \in (n + 1 + 1) .. (n + 1) : line[k].name \notin Keywords
    BY <1>3
  <2> QED BY <1>1, <2>1, <2>2 DEF Listing
<1> DEFINE Its(m) == {j \in 1 .. m : Listing(line, j - 1) /\ line[j].name \notin Keywords}
<1>5. Its(n + 1) = IF Listing(line, n) /\ line[n + 1].name \notin Keywords THEN Its(n) \cup {n + 1} ELSE Its(n)
  BY <1>1
<1>6. Listed(line, n + 1) = {line[j].name : j \in Its(n + 1)} /\ Listed(line, n) = {line[j].name : j \in Its(n)}
  BY DEF Listed
<1> HIDE DEF Its
<1>7. Listed(line, n + 1) = IF Listing(line, n) /\ line[n + 1].name \notin Keywords
                            THEN Listed(line, n) \cup {line[n + 1].name} ELSE Listed(line, n)
  BY <1>5, <1>6
<1> QED BY <1>4, <1>7

(* What the values are once the first n words, and the numbers they want, are read. *)
Values(line, n) ==
    /\ \A name \in ClockNames : clock[name] = Saying(line, name, 0, n)
    /\ hasClock <=> \E name \in ClockNames : Had(line, name, n) # {}
    /\ movetime = IF Had(line, "movetime", n) = {} THEN 0 ELSE AtLeast(1, Saying(line, "movetime", 0, n))
    /\ options.maxDepth = Clamp(Saying(line, "depth", MaxDepth, n), 1, MaxDepth)
    /\ options.nodeLimit = IF Had(line, "nodes", n) = {} THEN 0
                           ELSE AtLeast(1, Saying(line, "nodes", 0, n) % Uint64)

Switches(line, n) ==
    /\ options.restrict <=> Had(line, "searchmoves", n) # {}
    /\ options.ponder <=> Had(line, "ponder", n) # {}
    /\ options.infinite <=> Had(line, "infinite", n) # {}
    /\ options.searchmoves = Listed(line, n)

LEMMA ValuesStay ==
    ASSUME NEW line, NEW n \in Nat, line[n + 1].name \notin ValueNames
    PROVE  Values(line, n) => Values(line, n + 1)
<1>1. \A name \in ValueNames : /\ Had(line, name, n + 1) = Had(line, name, n)
                               /\ \A default : Saying(line, name, default, n + 1) = Saying(line, name, default, n)
  BY HadMore, SaidMore
<1>2. ClockNames \subseteq ValueNames /\ {"movetime", "depth", "nodes"} \subseteq ValueNames
  BY DEF ValueNames
<1> QED BY <1>1, <1>2 DEF Values

-----------------------------------------------------------------------------
(* While a line is read, what it has said so far is what has been taken from it. *)
Done == Len(asked) - Len(rest)
Counted == IF awaiting \in ValueNames THEN Done - 1 ELSE Done

ReadInv ==
    /\ asked \in Seq(WordType) /\ Done \in 0 .. Len(asked)
    /\ \A i \in 1 .. Len(rest) : rest[i] = asked[Done + i]
    /\ awaiting \in ValueNames => Done > 0 /\ asked[Done].name = awaiting
    /\ awaiting = "searchmoves" <=> Listing(asked, Done)
    /\ Switches(asked, Done)
    /\ Values(asked, Counted)

LEMMA WordIsRead ==
    ASSUME TypeOK, ReadInv, rest # <<>>, NEW waits, ReadOn(waits)
    PROVE  /\ asked' = asked /\ Done \in Nat /\ Done' = Done + 1 /\ Done + 1 \in 1 .. Len(asked)
           /\ Head(rest) = asked[Done + 1] /\ asked[Done + 1] \in WordType /\ awaiting' = waits
           /\ asked' \in Seq(WordType) /\ Done' \in 0 .. Len(asked')
           /\ \A i \in 1 .. Len(rest') : rest'[i] = asked'[Done' + i]
<1>1. asked' = asked /\ rest' = Tail(rest) /\ awaiting' = waits
  BY DEF ReadOn
<1>2. rest \in Seq(WordType) /\ asked \in Seq(WordType) /\ Len(rest) \in Nat /\ Len(asked) \in Nat
  BY DEF TypeOK, ReadInv
<1>3. Len(rest) > 0 /\ Len(rest') = Len(rest) - 1 /\ Head(rest) = rest[1]
      /\ \A i \in 1 .. Len(rest') : rest'[i] = rest[i + 1]
  BY <1>1, <1>2
<1>4. Done \in Nat /\ Done' = Done + 1 /\ Done + 1 \in 1 .. Len(asked)
  BY <1>1, <1>2, <1>3 DEF Done, ReadInv
<1>5. \A i \in 1 .. Len(rest) : rest[i] = asked[Done + i]
  BY DEF ReadInv
<1>6. Head(rest) = asked[Done + 1]
  BY <1>2, <1>3, <1>5
<1>7. \A i \in 1 .. Len(rest') : i + 1 \in 1 .. Len(rest) /\ Done + (i + 1) = Done' + i
  BY <1>2, <1>3, <1>4
<1>8. \A i \in 1 .. Len(rest') : rest'[i] = asked'[Done' + i]
  BY <1>1, <1>3, <1>5, <1>7
<1> HIDE DEF Done
<1> QED BY <1>1, <1>2, <1>4, <1>6, <1>8

LEMMA NumberIsRead ==
    ASSUME TypeOK, ReadInv, WellFormed, awaiting \in ValueNames, Done + 1 \in 1 .. Len(asked)
    PROVE  LET word == asked[Done + 1]
           IN /\ word.name \notin Keywords /\ word.int \in Int
              /\ \A default : ParseInt(word, default) = word.int
              /\ ParseUint64(word, 0) = word.int % Uint64
<1>1. Done \in 1 .. Len(asked) /\ asked[Done].name \in ValueNames /\ Len(asked) \in Nat
  BY DEF ReadInv
<1>2. asked[Done + 1].isInt /\ asked[Done + 1].int \in -IntMax .. IntMax
  BY <1>1 DEF WellFormed, ReadInv
<1>3. asked[Done + 1] \in WordType
  BY DEF ReadInv
<1>4. IntMax \in Nat /\ Uint64 \in Nat /\ Uint64 > IntMax
  BY GoAssumption
<1> HIDE DEF Done
<1> QED BY <1>2, <1>3, <1>4 DEF ParseInt, ParseUint64, WordType

LEMMA SwitchesStay ==
    ASSUME NEW line, NEW n \in Nat, line[n + 1].name \notin {"searchmoves", "ponder", "infinite"},
           Switches(line, n), ~(Listing(line, n) /\ line[n + 1].name \notin Keywords)
    PROVE  Switches(line, n + 1)
<1>1. \A name \in {"searchmoves", "ponder", "infinite"} : Had(line, name, n + 1) = Had(line, name, n)
  <2> SUFFICES ASSUME NEW name \in {"searchmoves", "ponder", "infinite"}
               PROVE  Had(line, name, n + 1) = Had(line, name, n)
    OBVIOUS
  <2>1. line[n + 1].name # name
    OBVIOUS
  <2> QED BY <2>1, HadMore
<1>2. Listed(line, n + 1) = Listed(line, n)
  BY ListMore
<1> QED BY <1>1, <1>2 DEF Switches

(* A word that is no name of a value: what has been taken of the values stays. *)
LEMMA ValuesAreKept ==
    ASSUME ReadInv, Done \in Nat, Done' = Done + 1, asked' = asked, awaiting \notin ValueNames,
           UNCHANGED <<clock, hasClock, movetime, options.maxDepth, options.nodeLimit>>,
           awaiting' \in ValueNames \/ asked[Done + 1].name \notin ValueNames
    PROVE  Values(asked, Counted)'
<1>1. Values(asked, Done)
  BY DEF ReadInv, Counted
<1>2. Values(asked, Done) => Values(asked, Counted')
  <2>1. CASE awaiting' \in ValueNames
    BY <2>1 DEF Counted
  <2>2. CASE awaiting' \notin ValueNames
    BY <2>2, ValuesStay DEF Counted
  <2> QED BY <2>1, <2>2
<1>3. ASSUME NEW n, Values(asked, n) PROVE Values(asked, n)'
  BY <1>3 DEF Values
<1> QED BY <1>1, <1>2, <1>3

LEMMA ReadSearchmoveKeeps == TypeOK /\ ReadInv /\ WellFormed /\ ReadSearchmove => ReadInv'
<1> SUFFICES ASSUME TypeOK, ReadInv, WellFormed, ReadSearchmove PROVE ReadInv'
  OBVIOUS
<1>1. /\ rest # <<>> /\ awaiting = "searchmoves" /\ ReadOn("searchmoves") /\ Head(rest).name \notin Keywords
      /\ options' = [options EXCEPT !.searchmoves = @ \cup {Head(rest).name}]
      /\ UNCHANGED <<clock, hasClock, movetime>>
  BY DEF ReadSearchmove, Reading
<1>2. /\ asked' = asked /\ Done \in Nat /\ Done' = Done + 1 /\ Head(rest) = asked[Done + 1]
      /\ awaiting' = "searchmoves" /\ asked' \in Seq(WordType) /\ Done' \in 0 .. Len(asked')
      /\ \A i \in 1 .. Len(rest') : rest'[i] = asked'[Done' + i]
  BY <1>1, WordIsRead
<1> HIDE DEF Done
<1>3. asked[Done + 1].name \notin Keywords /\ Listing(asked, Done)
  BY <1>1, <1>2 DEF ReadInv
<1>4. Listing(asked, Done + 1) /\ Listed(asked, Done + 1) = Listed(asked, Done) \cup {asked[Done + 1].name}
  BY <1>2, <1>3, ListMore
<1>5. options \in OptionsType
  BY DEF TypeOK
<1>6. /\ options'.restrict = options.restrict /\ options'.ponder = options.ponder
      /\ options'.infinite = options.infinite /\ options'.searchmoves = options.searchmoves \cup {asked[Done + 1].name}
      /\ UNCHANGED <<options.maxDepth, options.nodeLimit>>
  BY <1>1, <1>2, <1>5 DEF OptionsType
<1>7. \A name \in {"searchmoves", "ponder", "infinite"} : Had(asked, name, Done + 1) = Had(asked, name, Done)
  <2> SUFFICES ASSUME NEW name \in {"searchmoves", "ponder", "infinite"}
               PROVE  Had(asked, name, Done + 1) = Had(asked, name, Done)
    OBVIOUS
  <2>1. name \in Keywords
    BY DEF Keywords
  <2>2. asked[Done + 1].name # name
    BY <1>3, <2>1
  <2> QED BY <1>2, <2>2, HadMore, ZenonT(60)
<1>8. Switches(asked, Done)'
  BY <1>2, <1>4, <1>6, <1>7 DEF ReadInv, Switches
<1>9. "searchmoves" \notin ValueNames /\ ValueNames \subseteq Keywords
  BY DEF ValueNames, ClockNames, Keywords
<1>10. Values(asked, Counted)'
  BY <1>1, <1>2, <1>3, <1>6, <1>9, ValuesAreKept
<1> QED BY <1>2, <1>4, <1>8, <1>9, <1>10 DEF ReadInv

LEMMA ReadNameKeeps == TypeOK /\ ReadInv /\ WellFormed /\ ReadName => ReadInv'
<1> SUFFICES ASSUME TypeOK, ReadInv, WellFormed, ReadName PROVE ReadInv'
  OBVIOUS
<1> DEFINE name == Head(rest).name
           waits == IF name \in ValueNames \cup {"searchmoves"} THEN name ELSE "name"
<1>1. /\ rest # <<>> /\ awaiting \in {"name", "searchmoves"} /\ ReadOn(waits)
      /\ awaiting = "searchmoves" => name \in Keywords
      /\ options' = CASE name = "searchmoves" -> [options EXCEPT !.restrict = TRUE]
                      [] name = "ponder"      -> [options EXCEPT !.ponder = TRUE]
                      [] name = "infinite"    -> [options EXCEPT !.infinite = TRUE]
                      [] OTHER                -> options
      /\ UNCHANGED <<clock, hasClock, movetime>>
  BY DEF ReadName, Reading
<1>2. /\ asked' = asked /\ Done \in Nat /\ Done' = Done + 1 /\ Head(rest) = asked[Done + 1]
      /\ awaiting' = waits /\ asked' \in Seq(WordType) /\ Done' \in 0 .. Len(asked')
      /\ \A i \in 1 .. Len(rest') : rest'[i] = asked'[Done' + i]
  BY <1>1, WordIsRead
<1> HIDE DEF Done
<1>3. asked[Done + 1].name = name
  BY <1>2
<1> HIDE DEF name
<1>4. "searchmoves" \notin ValueNames /\ "name" \notin ValueNames
  BY DEF ValueNames, ClockNames
<1>5. ~(Listing(asked, Done) /\ asked[Done + 1].name \notin Keywords)
  BY <1>1, <1>3 DEF ReadInv
<1>6. Listing(asked, Done + 1) <=> awaiting' = "searchmoves"
  BY <1>2, <1>3, <1>4, <1>5, ListMore
<1>7. Listed(asked, Done + 1) = Listed(asked, Done)
  BY <1>2, <1>5, ListMore
<1>8. options \in OptionsType /\ Switches(asked, Done)
  BY DEF TypeOK, ReadInv
<1>9. UNCHANGED <<options.maxDepth, options.nodeLimit>> /\ options'.searchmoves = options.searchmoves
      /\ options'.restrict = (options.restrict \/ name = "searchmoves")
      /\ options'.ponder = (options.ponder \/ name = "ponder")
      /\ options'.infinite = (options.infinite \/ name = "infinite")
  <2>1. CASE name = "searchmoves"
    <3>1. options' = [options EXCEPT !.restrict = TRUE]
      BY <1>1, <2>1
    <3> QED BY <1>8, <2>1, <3>1 DEF OptionsType
  <2>2. CASE name = "ponder"
    <3>1. options' = [options EXCEPT !.ponder = TRUE]
      BY <1>1, <2>2
    <3> QED BY <1>8, <2>2, <3>1 DEF OptionsType
  <2>3. CASE name = "infinite"
    <3>1. options' = [options EXCEPT !.infinite = TRUE]
      BY <1>1, <2>3
    <3> QED BY <1>8, <2>3, <3>1 DEF OptionsType
  <2>4. CASE name \notin {"searchmoves", "ponder", "infinite"}
    <3>1. options' = options
      BY <1>1, <2>4
    <3> QED BY <1>8, <2>4, <3>1 DEF OptionsType
  <2> QED BY <2>1, <2>2, <2>3, <2>4
<1>10. \A other : Had(asked, other, Done + 1) # {} <=> Had(asked, other, Done) # {} \/ name = other
  <2> SUFFICES ASSUME NEW other
               PROVE  Had(asked, other, Done + 1) # {} <=> Had(asked, other, Done) # {} \/ name = other
    OBVIOUS
  <2>1. Had(asked, other, Done + 1) = IF name = other THEN Had(asked, other, Done) \cup {Done + 1}
                                      ELSE Had(asked, other, Done)
    <3>1. Done \in Nat
      BY <1>2
    <3>2. Had(asked, other, Done + 1) = IF asked[Done + 1].name = other THEN Had(asked, other, Done) \cup {Done + 1}
                                        ELSE Had(asked, other, Done)
      BY <3>1, HadMore
    <3> QED BY <1>3, <3>2
  <2> QED BY <2>1
<1>11. Switches(asked, Done)'
  BY <1>2, <1>7, <1>8, <1>9, <1>10 DEF Switches
<1>12. awaiting' \in ValueNames => Done' > 0 /\ asked'[Done'].name = awaiting'
  BY <1>2, <1>3, <1>4
<1>13. Values(asked, Counted)'
  <2>1. awaiting \notin ValueNames
    BY <1>1, <1>4
  <2>2. awaiting' \in ValueNames \/ asked[Done + 1].name \notin ValueNames
    BY <1>2, <1>3
  <2> QED BY <1>1, <1>2, <1>9, <2>1, <2>2, ValuesAreKept
<1> QED BY <1>2, <1>6, <1>11, <1>12, <1>13 DEF ReadInv

(* The word of a value's name, n + 1, and its number after it. *)
LEMMA NumberTold ==
    ASSUME NEW line, NEW n \in Nat, NEW v, line[n + 1].name = v
    PROVE  /\ \A default : Saying(line, v, default, n + 1) = line[n + 2].int
           /\ Had(line, v, n + 1) # {}
           /\ \A name : name # v => /\ Had(line, name, n + 1) = Had(line, name, n)
                                    /\ \A default : Saying(line, name, default, n + 1) = Saying(line, name, default, n)
<1>1. Had(line, v, n + 1) = Had(line, v, n) \cup {n + 1}
  BY HadMore
<1> QED BY <1>1, HadMore, SaidMore

(* The values of the next state, and what the first n words say. *)
ValuesBecome(n) ==
    /\ \A name \in ClockNames : clock'[name] = Saying(asked, name, 0, n)
    /\ hasClock' <=> \E name \in ClockNames : Had(asked, name, n) # {}
    /\ movetime' = IF Had(asked, "movetime", n) = {} THEN 0 ELSE AtLeast(1, Saying(asked, "movetime", 0, n))
    /\ options'.maxDepth = Clamp(Saying(asked, "depth", MaxDepth, n), 1, MaxDepth)
    /\ options'.nodeLimit = IF Had(asked, "nodes", n) = {} THEN 0
                            ELSE AtLeast(1, Saying(asked, "nodes", 0, n) % Uint64)

LEMMA ReadNumberKeeps ==
    ASSUME TypeOK, ReadInv, WellFormed, rest # <<>>, awaiting \in ValueNames, ReadOn("name"),
           UNCHANGED <<options.restrict, options.ponder, options.infinite, options.searchmoves>>,
           ValuesBecome(Done)
    PROVE  ReadInv'
<1>1. /\ asked' = asked /\ Done \in Nat /\ Done' = Done + 1 /\ Done + 1 \in 1 .. Len(asked)
      /\ awaiting' = "name" /\ asked' \in Seq(WordType) /\ Done' \in 0 .. Len(asked')
      /\ \A i \in 1 .. Len(rest') : rest'[i] = asked'[Done' + i]
  BY WordIsRead
<1>2. asked[Done + 1].name \notin Keywords
  BY <1>1, NumberIsRead
<1> HIDE DEF Done
<1>3. "searchmoves" \notin ValueNames /\ "name" \notin ValueNames
      /\ ValueNames \subseteq Keywords /\ {"searchmoves", "ponder", "infinite"} \subseteq Keywords
  BY DEF ValueNames, ClockNames, Keywords
<1>4. ~Listing(asked, Done)
  BY <1>3 DEF ReadInv
<1>5. ~Listing(asked, Done + 1)
  BY <1>1, <1>2, <1>3, <1>4, ListMore
<1>6. Switches(asked, Done + 1)
  BY <1>1, <1>2, <1>3, <1>4, SwitchesStay DEF ReadInv
<1>7. Switches(asked, Done)'
  BY <1>1, <1>6 DEF Switches
<1>8. asked[Done + 1].name \notin ValueNames
  BY <1>2, <1>3
<1>9. Values(asked, Counted)'
  <2>1. \A name \in ValueNames :
            /\ Had(asked, name, Done + 1) = Had(asked, name, Done)
            /\ \A default : Saying(asked, name, default, Done + 1) = Saying(asked, name, default, Done)
    <3> SUFFICES ASSUME NEW name \in ValueNames
                 PROVE  /\ Had(asked, name, Done + 1) = Had(asked, name, Done)
                        /\ \A default : Saying(asked, name, default, Done + 1) = Saying(asked, name, default, Done)
      OBVIOUS
    <3>1. asked[Done + 1].name # name
      BY <1>8
    <3>2. Done \in Nat
      BY <1>1
    <3>3. Had(asked, name, Done + 1) = Had(asked, name, Done)
      BY <3>1, <3>2, HadMore
    <3> QED BY <3>1, <3>2, <3>3, SaidMore
  <2>2. ClockNames \subseteq ValueNames /\ {"movetime", "depth", "nodes"} \subseteq ValueNames
    BY DEF ValueNames
  <2>3. ValuesBecome(Done + 1)
    BY <2>1, <2>2 DEF ValuesBecome
  <2>4. Counted' = Done + 1
    BY <1>1, <1>3 DEF Counted
  <2> QED BY <1>1, <2>3, <2>4 DEF ValuesBecome, Values
<1> QED BY <1>1, <1>3, <1>5, <1>7, <1>9 DEF ReadInv

(* The values, once the number of the name awaited is read, but for that name's own. *)
LEMMA NumberIsNext ==
    ASSUME TypeOK, ReadInv, WellFormed, rest # <<>>, awaiting \in ValueNames, NEW waits, ReadOn(waits)
    PROVE  LET n == Done
               int == asked[Done + 1].int
           IN /\ int \in Int /\ \A default : ParseInt(Head(rest), default) = int
              /\ ParseUint64(Head(rest), 0) = int % Uint64
              /\ \A default : Saying(asked, awaiting, default, n) = int
              /\ Had(asked, awaiting, n) # {}
              /\ \A name : name # awaiting => /\ Had(asked, name, n) = Had(asked, name, n - 1)
                                              /\ \A default : Saying(asked, name, default, n)
                                                              = Saying(asked, name, default, n - 1)
              /\ Values(asked, n - 1)
<1>1. Done \in Nat /\ Done + 1 \in 1 .. Len(asked) /\ Head(rest) = asked[Done + 1]
  BY WordIsRead
<1>2. /\ asked[Done + 1].int \in Int
      /\ \A default : ParseInt(asked[Done + 1], default) = asked[Done + 1].int
      /\ ParseUint64(asked[Done + 1], 0) = asked[Done + 1].int % Uint64
  BY <1>1, NumberIsRead
<1>3. Done > 0 /\ asked[Done].name = awaiting /\ Values(asked, Done - 1)
  BY DEF ReadInv, Counted
<1> DEFINE m == Done - 1
<1> HIDE DEF Done
<1>4. m \in Nat /\ m + 1 = Done /\ m + 2 = Done + 1
  BY <1>1, <1>3
<1> HIDE DEF m
<1>5. /\ \A default : Saying(asked, awaiting, default, m + 1) = asked[m + 2].int
      /\ Had(asked, awaiting, m + 1) # {}
      /\ \A name : name # awaiting => /\ Had(asked, name, m + 1) = Had(asked, name, m)
                                      /\ \A default : Saying(asked, name, default, m + 1)
                                                      = Saying(asked, name, default, m)
  <2>1. asked[m + 1].name = awaiting
    BY <1>3, <1>4
  <2>2. m \in Nat
    BY <1>4
  <2>3. \A default : Saying(asked, awaiting, default, m + 1) = asked[m + 2].int
    BY <2>1, <2>2, NumberTold, ZenonT(60)
  <2>4. Had(asked, awaiting, m + 1) # {}
    BY <2>1, <2>2, NumberTold
  <2>5. ASSUME NEW name, name # awaiting PROVE Had(asked, name, m + 1) = Had(asked, name, m)
    BY <2>1, <2>2, <2>5, NumberTold
  <2>6. ASSUME NEW name, name # awaiting, NEW default
        PROVE  Saying(asked, name, default, m + 1) = Saying(asked, name, default, m)
    BY <2>1, <2>2, <2>6, SaidMore
  <2> QED BY <2>3, <2>4, <2>5, <2>6
<1> QED BY <1>1, <1>2, <1>3, <1>4, <1>5 DEF m

LEMMA ReadClockKeeps == TypeOK /\ ReadInv /\ WellFormed /\ ReadClock => ReadInv'
<1> SUFFICES ASSUME TypeOK, ReadInv, WellFormed, ReadClock PROVE ReadInv'
  OBVIOUS
<1>1. /\ rest # <<>> /\ awaiting \in ClockNames /\ awaiting \in ValueNames /\ ReadOn("name") /\ hasClock'
      /\ clock' = [clock EXCEPT ![awaiting] = ParseInt(Head(rest), 0)] /\ UNCHANGED <<movetime, options>>
  BY DEF ReadClock, Reading, ValueNames
<1> DEFINE n == Done
           int == asked[Done + 1].int
<1>2. /\ ParseInt(Head(rest), 0) = int
      /\ \A default : Saying(asked, awaiting, default, n) = int
      /\ Had(asked, awaiting, n) # {}
      /\ \A name : name # awaiting => /\ Had(asked, name, n) = Had(asked, name, n - 1)
                                      /\ \A default : Saying(asked, name, default, n)
                                                      = Saying(asked, name, default, n - 1)
      /\ Values(asked, n - 1)
  BY <1>1, NumberIsNext
<1>3. clock \in [ClockNames -> Int]
  BY DEF TypeOK
<1> HIDE DEF Done, int
<1>4. \A name \in ClockNames : clock'[name] = Saying(asked, name, 0, n)
  BY <1>1, <1>2, <1>3 DEF Values
<1>5. {"movetime", "depth", "nodes"} \cap ClockNames = {}
  BY DEF ClockNames
<1>6. ValuesBecome(n)
  <2>1. \A name \in {"movetime", "depth", "nodes"} : name # awaiting
    BY <1>1, <1>5
  <2> QED BY <1>1, <1>2, <1>4, <2>1 DEF ValuesBecome, Values
<1> QED BY <1>1, <1>6, ReadNumberKeeps

LEMMA ReadMovetimeKeeps == TypeOK /\ ReadInv /\ WellFormed /\ ReadMovetime => ReadInv'
<1> SUFFICES ASSUME TypeOK, ReadInv, WellFormed, ReadMovetime PROVE ReadInv'
  OBVIOUS
<1>1. /\ rest # <<>> /\ awaiting = "movetime" /\ awaiting \in ValueNames /\ ReadOn("name")
      /\ movetime' = AtLeast(1, ParseInt(Head(rest), 0)) /\ UNCHANGED <<clock, hasClock, options>>
  BY DEF ReadMovetime, Reading, ValueNames
<1> DEFINE n == Done
           int == asked[Done + 1].int
<1>2. /\ ParseInt(Head(rest), 0) = int
      /\ \A default : Saying(asked, awaiting, default, n) = int
      /\ Had(asked, awaiting, n) # {}
      /\ \A name : name # awaiting => /\ Had(asked, name, n) = Had(asked, name, n - 1)
                                      /\ \A default : Saying(asked, name, default, n)
                                                      = Saying(asked, name, default, n - 1)
      /\ Values(asked, n - 1)
  BY <1>1, NumberIsNext
<1> HIDE DEF Done, int
<1>3. "movetime" \notin ClockNames
  BY DEF ClockNames
<1>4. ValuesBecome(n)
  BY <1>1, <1>2, <1>3 DEF ValuesBecome, Values
<1> QED BY <1>1, <1>4, ReadNumberKeeps

LEMMA ReadLimitKeeps == TypeOK /\ ReadInv /\ WellFormed /\ ReadLimit => ReadInv'
<1> SUFFICES ASSUME TypeOK, ReadInv, WellFormed, ReadLimit PROVE ReadInv'
  OBVIOUS
<1> DEFINE word == Head(rest)
<1>1. /\ rest # <<>> /\ awaiting \in {"movestogo", "depth", "nodes"} /\ awaiting \in ValueNames
      /\ ReadOn("name") /\ UNCHANGED <<clock, hasClock, movetime>>
  BY DEF ReadLimit, Reading, ValueNames
<1> DEFINE n == Done
           int == asked[Done + 1].int
<1>2. /\ int \in Int /\ \A default : ParseInt(word, default) = int
      /\ ParseUint64(word, 0) = int % Uint64
      /\ \A default : Saying(asked, awaiting, default, n) = int
      /\ Had(asked, awaiting, n) # {}
      /\ \A name : name # awaiting => /\ Had(asked, name, n) = Had(asked, name, n - 1)
                                      /\ \A default : Saying(asked, name, default, n)
                                                      = Saying(asked, name, default, n - 1)
      /\ Values(asked, n - 1)
  BY <1>1, NumberIsNext
<1>3. options \in OptionsType /\ awaiting \notin ClockNames /\ awaiting # "movetime"
  BY <1>1 DEF TypeOK, ClockNames
<1> HIDE DEF Done, int, word
<1>4. /\ options'.maxDepth = Clamp(Saying(asked, "depth", MaxDepth, n), 1, MaxDepth)
      /\ options'.nodeLimit = IF Had(asked, "nodes", n) = {} THEN 0
                              ELSE AtLeast(1, Saying(asked, "nodes", 0, n) % Uint64)
      /\ UNCHANGED <<options.restrict, options.ponder, options.infinite, options.searchmoves>>
  <2>1. CASE awaiting = "movestogo"
    <3>1. options' = [options EXCEPT !.movesToGo = AtLeast(0, ParseInt(word, 0))]
      BY <2>1 DEF ReadLimit, word
    <3> QED BY <1>2, <1>3, <2>1, <3>1 DEF Values, OptionsType
  <2>2. CASE awaiting = "depth"
    <3>1. options' = [options EXCEPT !.maxDepth = Clamp(ParseInt(word, @), 1, MaxDepth)]
      BY <2>2 DEF ReadLimit, word
    <3> QED BY <1>2, <1>3, <2>2, <3>1 DEF Values, OptionsType
  <2>3. CASE awaiting = "nodes"
    <3>1. options' = [options EXCEPT !.nodeLimit = AtLeast(1, ParseUint64(word, 0))]
      BY <2>3 DEF ReadLimit, word
    <3> QED BY <1>2, <1>3, <2>3, <3>1 DEF Values, OptionsType
  <2> QED BY <1>1, <2>1, <2>2, <2>3
<1>5. ValuesBecome(n)
  <2>1. \A name \in ClockNames \cup {"movetime"} : name # awaiting
    BY <1>3
  <2> QED BY <1>1, <1>2, <1>4, <2>1 DEF ValuesBecome, Values
<1> QED BY <1>1, <1>4, <1>5, ReadNumberKeeps

LEMMA GoStarts ==
    ASSUME TypeOK, NEW line \in Lines, Go(line)
    PROVE  ReadInv'
<1>1. line \in Seq(WordType) /\ Len(line) \in Nat
  BY GoAssumption
<1>2. /\ rest' = line /\ asked' = line /\ awaiting' = "name" /\ clock' = [name \in ClockNames |-> 0]
      /\ hasClock' = FALSE /\ movetime' = 0
      /\ options' = [DefaultOptions EXCEPT !.limitStrength = settings.limitStrength /\ ~settings.analyse,
                                           !.strength = settings.strength]
  BY DEF Go, Fresh
<1>3. Done' = 0 /\ 0 \in 0 .. Len(line)
  BY <1>1, <1>2 DEF Done
<1>4. "name" \notin ValueNames /\ "name" # "searchmoves"
  BY DEF ValueNames, ClockNames
<1>5. Counted' = 0
  BY <1>2, <1>3, <1>4 DEF Counted
<1>6. /\ options'.restrict = FALSE /\ options'.ponder = FALSE /\ options'.infinite = FALSE
      /\ options'.searchmoves = {} /\ options'.maxDepth = MaxDepth /\ options'.nodeLimit = 0
  BY <1>2 DEF DefaultOptions
<1>7. Clamp(MaxDepth, 1, MaxDepth) = MaxDepth
  BY GoAssumption DEF Clamp
<1> HIDE DEF Done, Counted
<1>8. Switches(line, 0)'
  BY <1>6, NoWords DEF Switches
<1>9. Values(line, 0)'
  BY <1>2, <1>6, <1>7, NoWords DEF Values
<1>10. Switches(asked, Done)'
  BY <1>2, <1>3, <1>8 DEF Switches
<1>11. Values(asked, Counted)'
  BY <1>2, <1>5, <1>9 DEF Values
<1>12. ~Listing(line, 0)
  BY NoWords
<1>13. \A i \in 1 .. Len(rest') : rest'[i] = asked'[Done' + i]
  BY <1>1, <1>2, <1>3
<1> QED BY <1>1, <1>2, <1>3, <1>4, <1>10, <1>11, <1>12, <1>13 DEF ReadInv

-----------------------------------------------------------------------------
(* apply_strength_limit only lowers. *)
LEMMA DoublingsArePositive ==
    ASSUME NEW k \in 0 .. 10
    PROVE  256 * 2 ^ k \in Nat /\ 256 * 2 ^ k >= 256
<1>0. k = 0 => 2 ^ k = 1
  OBVIOUS
<1>1. k = 1 => 2 ^ k = 2
  OBVIOUS
<1>2. k = 2 => 2 ^ k = 4
  OBVIOUS
<1>3. k = 3 => 2 ^ k = 8
  OBVIOUS
<1>4. k = 4 => 2 ^ k = 16
  OBVIOUS
<1>5. k = 5 => 2 ^ k = 32
  OBVIOUS
<1>6. k = 6 => 2 ^ k = 64
  OBVIOUS
<1>7. k = 7 => 2 ^ k = 128
  OBVIOUS
<1>8. k = 8 => 2 ^ k = 256
  OBVIOUS
<1>9. k = 9 => 2 ^ k = 512
  OBVIOUS
<1>10. k = 10 => 2 ^ k = 1024
  OBVIOUS
<1> QED BY <1>0, <1>1, <1>2, <1>3, <1>4, <1>5, <1>6, <1>7, <1>8, <1>9, <1>10

LEMMA BudgetIsPositive ==
    ASSUME NEW strength \in Int
    PROVE  Level(strength) \in 0 .. 20 /\ Budget(Level(strength)) \in Nat /\ Budget(Level(strength)) > 0
<1>1. Level(strength) \in 0 .. 20
  <2>1. Clamp(strength, -15, 6) \in -15 .. 6
    BY DEF Clamp
  <2> QED BY <2>1 DEF Level, AtMost
<1> DEFINE level == Level(strength)
           doubled == 256 * 2 ^ (level \div 2)
<1>2. level \div 2 \in 0 .. 10
  BY <1>1
<1>3. doubled \in Nat /\ doubled >= 256
  BY <1>2, DoublingsArePositive
<1> HIDE DEF doubled
<1>4. (doubled * 3) \div 2 \in Nat /\ (doubled * 3) \div 2 > 0
  BY <1>3
<1>5. Budget(level) = IF level % 2 = 0 THEN doubled ELSE (doubled * 3) \div 2
  BY DEF Budget, doubled
<1> QED BY <1>1, <1>3, <1>4, <1>5

LEMMA StrengthLowers ==
    ASSUME NEW o \in OptionsType, o.maxDepth >= 1, o.nodeLimit >= 0
    PROVE  LET a == ApplyStrengthLimit(o)
           IN /\ \A f \in {"restrict", "searchmoves", "ponder", "infinite", "timeLimit", "limitStrength"} : a[f] = o[f]
              /\ IF o.limitStrength
                 THEN a.maxDepth \in 1 .. o.maxDepth /\ a.nodeLimit > 0 /\ (o.nodeLimit > 0 => a.nodeLimit <= o.nodeLimit)
                 ELSE a.maxDepth = o.maxDepth /\ a.nodeLimit = o.nodeLimit
<1>1. o.strength \in Int /\ o.maxDepth \in Int /\ o.nodeLimit \in Int
  BY DEF OptionsType
<1> DEFINE level == Level(o.strength)
           budget == Budget(level)
           depth == AtMost(1 + level \div 3, o.maxDepth)
           nodes == IF o.nodeLimit = 0 THEN budget ELSE AtMost(budget, o.nodeLimit)
<1>2. level \in 0 .. 20 /\ budget \in Nat /\ budget > 0
  BY <1>1, BudgetIsPositive
<1> HIDE DEF level, budget
<1>3. level \div 3 \in Nat
  BY <1>2
<1>4. depth \in 1 .. o.maxDepth
  BY <1>1, <1>3 DEF AtMost
<1>5. nodes > 0 /\ (o.nodeLimit > 0 => nodes <= o.nodeLimit)
  BY <1>1, <1>2 DEF AtMost
<1>6. ApplyStrengthLimit(o) = IF ~o.limitStrength THEN o ELSE [o EXCEPT !.maxDepth = depth, !.nodeLimit = nodes]
  BY DEF ApplyStrengthLimit, level, budget
<1> HIDE DEF depth, nodes
<1> QED BY <1>4, <1>5, <1>6 DEF OptionsType

LEMMA AllIsRead ==
    ASSUME TypeOK, ReadInv, WellFormed, rest = <<>>
    PROVE  /\ \A name : Had(asked, name, Counted) = Places(name) /\ Had(asked, name, Done) = Places(name)
           /\ \A name, default : Saying(asked, name, default, Counted) = Given(name, default)
           /\ Listed(asked, Done) = Movelist
<1>1. asked \in Seq(WordType) /\ Len(asked) \in Nat /\ DOMAIN asked = 1 .. Len(asked)
  BY DEF ReadInv
<1>2. Done = Len(asked)
  <2>1. Len(<<>>) = 0
    OBVIOUS
  <2> QED BY <1>1, <2>1 DEF Done
<1>3. awaiting \notin ValueNames
  <2> SUFFICES ASSUME awaiting \in ValueNames PROVE FALSE
    OBVIOUS
  <2>1. Done > 0 /\ asked[Done].name \in ValueNames
    BY DEF ReadInv
  <2> QED BY <1>1, <1>2, <2>1 DEF WellFormed
<1>4. Counted = Len(asked)
  BY <1>2, <1>3 DEF Counted
<1>5. \A name : Had(asked, name, Len(asked)) = Places(name)
  BY <1>1 DEF Had, Places
<1>6. \A name, default : Saying(asked, name, default, Len(asked)) = Given(name, default)
  BY <1>5 DEF Saying, Given
<1>7. Listed(asked, Len(asked)) = Movelist
  <2> DEFINE Its(j) == \E i \in Places("searchmoves") : i < j /\ \A k \in (i + 1) .. j : asked[k].name \notin Keywords
  <2>1. ASSUME NEW j \in 1 .. Len(asked)
        PROVE  Listing(asked, j - 1) /\ asked[j].name \notin Keywords <=> Its(j)
    <3>1. \A i \in 1 .. Len(asked) : i < j => (i + 1) .. j = ((i + 1) .. (j - 1)) \cup {j}
      BY <1>1
    <3>2. 1 .. (j - 1) = {i \in 1 .. Len(asked) : i < j}
      BY <1>1
    <3>3. Places("searchmoves") = {i \in 1 .. Len(asked) : asked[i].name = "searchmoves"}
      BY <1>1 DEF Places
    <3> QED BY <3>1, <3>2, <3>3 DEF Listing
  <2> DEFINE S == {j \in 1 .. Len(asked) : Listing(asked, j - 1) /\ asked[j].name \notin Keywords}
             T == {j \in DOMAIN asked : Its(j)}
  <2>2. S = T
    BY <1>1, <2>1
  <2>3. Listed(asked, Len(asked)) = {asked[j].name : j \in S} /\ Movelist = {asked[j].name : j \in T}
    BY DEF Listed, Movelist
  <2> HIDE DEF S, T
  <2> QED BY <2>2, <2>3
<1> QED BY <1>2, <1>4, <1>5, <1>6, <1>7

-----------------------------------------------------------------------------
(* The line, read. *)
LineInv == TypeOK /\ UnansweredInv /\ (WellFormed /\ ~Idle => ReadInv) /\ LineIsRead

LEMMA SearchTypes == TypeOK => [options EXCEPT !.timeLimit = TimeLimit] \in OptionsType
<1> SUFFICES ASSUME TypeOK PROVE [options EXCEPT !.timeLimit = TimeLimit] \in OptionsType
  OBVIOUS
<1>1. ClockLimit \in Int /\ movetime \in Nat
  BY ClockLimitBounds DEF TypeOK
<1>2. TimeLimit \in Int
  BY <1>1 DEF TimeLimit
<1> QED BY <1>2 DEF TypeOK, OptionsType

LEMMA SearchReadsLine == TypeOK /\ (WellFormed /\ ~Idle => ReadInv) /\ StartSearch => LineIsRead'
<1> SUFFICES ASSUME TypeOK, ReadInv, StartSearch, WellFormed PROVE LineIsRead'
  <2>1. StartSearch => ~Idle /\ asked' = asked
    BY DEF StartSearch
  <2>2. StartSearch => (WellFormed' <=> WellFormed)
    BY <2>1 DEF WellFormed
  <2> QED BY <2>1, <2>2 DEF LineIsRead
<1> DEFINE o == [options EXCEPT !.timeLimit = TimeLimit]
           a == ApplyStrengthLimit(o)
           depth == Clamp(Given("depth", MaxDepth), 1, MaxDepth)
           nodes == IF Places("nodes") = {} THEN 0 ELSE AtLeast(1, Given("nodes", 0) % Uint64)
<1>1. reply'.options = a /\ rest = <<>> /\ UNCHANGED <<asked, clock, hasClock>>
  BY DEF StartSearch, SearchOptions
<1>2. options \in OptionsType /\ o \in OptionsType
  BY SearchTypes DEF TypeOK
<1>3. /\ o.restrict = options.restrict /\ o.searchmoves = options.searchmoves /\ o.ponder = options.ponder
      /\ o.infinite = options.infinite /\ o.maxDepth = options.maxDepth /\ o.nodeLimit = options.nodeLimit
      /\ o.timeLimit = TimeLimit
  BY <1>2 DEF OptionsType
<1> HIDE DEF o
<1>4. /\ \A name : Had(asked, name, Counted) = Places(name) /\ Had(asked, name, Done) = Places(name)
      /\ \A name, default : Saying(asked, name, default, Counted) = Given(name, default)
      /\ Listed(asked, Done) = Movelist
  BY <1>1, AllIsRead
<1>5. /\ options.restrict <=> Places("searchmoves") # {}
      /\ options.ponder <=> Places("ponder") # {}
      /\ options.infinite <=> Places("infinite") # {}
      /\ options.searchmoves = Movelist
  BY <1>4 DEF ReadInv, Switches
<1>6. /\ \A name \in ClockNames : clock[name] = Given(name, 0)
      /\ hasClock <=> \E name \in ClockNames : Places(name) # {}
      /\ movetime = IF Places("movetime") = {} THEN 0 ELSE AtLeast(1, Given("movetime", 0))
      /\ options.maxDepth = depth /\ options.nodeLimit = nodes
  BY <1>4 DEF ReadInv, Values
<1>7. options.maxDepth \in Int /\ options.nodeLimit \in Int /\ movetime \in Nat
  BY DEF TypeOK, OptionsType
<1>8. depth >= 1
  BY <1>6, <1>7, GoAssumption DEF Clamp
<1>9. nodes >= 0
  BY <1>6, <1>7 DEF AtLeast
<1>10. /\ \A f \in {"restrict", "searchmoves", "ponder", "infinite", "timeLimit", "limitStrength"} : a[f] = o[f]
       /\ IF o.limitStrength
          THEN a.maxDepth \in 1 .. o.maxDepth /\ a.nodeLimit > 0 /\ (o.nodeLimit > 0 => a.nodeLimit <= o.nodeLimit)
          ELSE a.maxDepth = o.maxDepth /\ a.nodeLimit = o.nodeLimit
  BY <1>2, <1>3, <1>6, <1>8, <1>9, StrengthLowers
<1>11. Places("movetime") # {} => a.timeLimit = AtLeast(1, Given("movetime", 0))
  <2> SUFFICES ASSUME Places("movetime") # {} PROVE a.timeLimit = AtLeast(1, Given("movetime", 0))
    OBVIOUS
  <2>1. movetime = AtLeast(1, Given("movetime", 0)) /\ movetime # 0
    BY <1>6 DEF AtLeast
  <2>2. TimeLimit = movetime
    BY <1>7, <2>1 DEF TimeLimit
  <2> QED BY <1>3, <1>10, <2>1, <2>2
<1> HIDE DEF a, depth, nodes
<1>12. /\ a.restrict <=> Places("searchmoves") # {}
       /\ a.searchmoves = Movelist
       /\ a.ponder <=> Places("ponder") # {}
       /\ a.infinite <=> Places("infinite") # {}
       /\ IF a.limitStrength
          THEN a.maxDepth \in 1 .. depth /\ a.nodeLimit > 0 /\ (nodes > 0 => a.nodeLimit <= nodes)
          ELSE a.maxDepth = depth /\ a.nodeLimit = nodes
  BY <1>3, <1>5, <1>6, <1>10
<1>13. /\ \A name : Places(name)' = Places(name)
       /\ \A name, default : Given(name, default)' = Given(name, default)
       /\ Movelist' = Movelist
  BY <1>1 DEF Places, Given, Movelist
<1>14. LineIsRead' =
         (WellFormed /\ Searching =>
            LET q == reply.options
                d == Clamp(Given("depth", MaxDepth), 1, MaxDepth)
                n == IF Places("nodes") = {} THEN 0 ELSE AtLeast(1, Given("nodes", 0) % Uint64)
            IN /\ q.restrict <=> Places("searchmoves") # {}
               /\ q.searchmoves = Movelist
               /\ q.ponder <=> Places("ponder") # {}
               /\ q.infinite <=> Places("infinite") # {}
               /\ IF q.limitStrength
                  THEN q.maxDepth \in 1 .. d /\ q.nodeLimit > 0 /\ (n > 0 => q.nodeLimit <= n)
                  ELSE q.maxDepth = d /\ q.nodeLimit = n
               /\ Places("movetime") # {} => q.timeLimit = AtLeast(1, Given("movetime", 0))
               /\ \A name \in ClockNames : clock[name] = Given(name, 0)
               /\ hasClock <=> \E name \in ClockNames : Places(name) # {})'
  BY DEF LineIsRead
<1> QED BY <1>1, <1>6, <1>11, <1>12, <1>13, <1>14 DEF depth, nodes

LEMMA NextLine == LineInv /\ [Next]_vars => LineInv'
<1> SUFFICES ASSUME LineInv, [Next]_vars PROVE LineInv'
  OBVIOUS
<1>1. TypeOK /\ UnansweredInv /\ (WellFormed /\ ~Idle => ReadInv) /\ LineIsRead
  BY DEF LineInv
<1>2. TypeOK' /\ UnansweredInv'
  BY <1>1, NextTypes, NextUnanswered
<1>3. (WellFormed /\ ~Idle => ReadInv)'
  <2>1. ASSUME asked' = asked PROVE WellFormed' <=> WellFormed
    BY <2>1 DEF WellFormed
  <2>2. CASE Parse
    <3>1. asked' = asked /\ ~Idle
      BY <2>2 DEF Parse, ReadSearchmove, ReadName, ReadClock, ReadMovetime, ReadLimit, Reading, ReadOn, Idle, ClockNames
    <3> QED BY <1>1, <2>1, <2>2, <3>1, ReadSearchmoveKeeps, ReadNameKeeps, ReadClockKeeps, ReadMovetimeKeeps,
               ReadLimitKeeps DEF Parse
  <2>3. CASE AnswerFromBook \/ StartSearch
    BY <2>3 DEF AnswerFromBook, StartSearch, Idle
  <2>4. CASE UNCHANGED vars
    BY <1>1, <2>4 DEF vars, parseVars, WellFormed, Idle, ReadInv, Done, Counted, Switches, Values
  <2>5. ASSUME NEW line \in Lines, Go(line) PROVE ReadInv'
    BY <1>1, <2>5, GoStarts
  <2>6. ASSUME Forget PROVE Idle'
    BY <2>6 DEF Forget, Fresh, Idle
  <2> QED BY <2>2, <2>3, <2>4, <2>5, <2>6 DEF Next, Position, SetOption, LoadBook
<1>4. LineIsRead'
  <2>1. CASE StartSearch
    BY <1>1, <2>1, SearchReadsLine
  <2>2. CASE reply'.kind # "search"
    BY <2>2 DEF LineIsRead, Searching
  <2>3. CASE UNCHANGED vars
    <3>1. UNCHANGED <<asked, reply, clock, hasClock>>
      BY <2>3 DEF vars, parseVars
    <3>2. /\ WellFormed' <=> WellFormed
          /\ Searching' <=> Searching
          /\ \A name : Places(name)' = Places(name)
          /\ \A name, default : Given(name, default)' = Given(name, default)
          /\ Movelist' = Movelist
      BY <3>1 DEF WellFormed, Searching, Places, Given, Movelist
    <3> QED BY <1>1, <3>1, <3>2 DEF LineIsRead
  <2>4. CASE Parse
    <3>1. reply.kind = "none" /\ reply' = reply
      BY <1>1, <2>4 DEF UnansweredInv, Idle, Parse, ReadSearchmove, ReadName, ReadClock, ReadMovetime, ReadLimit,
         Reading, ReadOn, ClockNames
    <3> QED BY <2>2, <3>1
  <2>5. CASE AnswerFromBook
    BY <2>2, <2>5 DEF AnswerFromBook, Bestmove
  <2>6. ASSUME NEW line, NEW waits, NEW o, Fresh(line, waits, o) PROVE reply'.kind # "search"
    BY <2>6 DEF Fresh, NoReply
  <2> QED BY <2>1, <2>2, <2>3, <2>4, <2>5, <2>6 DEF Next, Position, SetOption, LoadBook, Forget, Go
<1> QED BY <1>2, <1>3, <1>4 DEF LineInv

(* Whatever the order of the words, a search gets what each of them says, the last
   number of each name and all moves after searchmoves, and a limit of strength only
   lowers its depth and its nodes. *)
THEOREM LinesAreRead == Spec => []LineIsRead
<1>1. Init => LineInv
  BY InitTypes DEF Init, LineInv, UnansweredInv, LineIsRead, Searching, NoReply, Idle
<1>2. LineInv => LineIsRead
  BY DEF LineInv
<1> QED BY <1>1, <1>2, NextLine, PTL DEF Spec

-----------------------------------------------------------------------------
(* What the first n lines of a book say. *)
Heads(lines, n) == Above(lines, n + 1, "sfen")
Under(lines, n) == IF Heads(lines, n) = {} THEN NoKey ELSE BookKey(lines[Max(Heads(lines, n))].text)
Its(lines, key, n) == {i \in 1 .. n : lines[i].kind = "entry" /\ Under(lines, i - 1) = key}
Limits(lines, n) == {i \in 1 .. n : lines[i].kind = "limit" /\ lines[i].n > 0}
Until(lines, n) == IF Limits(lines, n) = {} THEN 0 ELSE lines[Max(Limits(lines, n))].n

(* entries are the lines in the set, in their order. *)
IsOrder(f, entries, set, lines) ==
    /\ f \in [1 .. Len(entries) -> set]
    /\ \A i \in set : \E a \in 1 .. Len(entries) : f[a] = i
    /\ \A a, b \in 1 .. Len(entries) : a < b => f[a] < f[b]
    /\ \A a \in 1 .. Len(entries) : entries[a] = lines[f[a]]
InOrder(entries, set, lines) == \E f : IsOrder(f, entries, set, lines)

LEMMA MaxOfMore ==
    ASSUME NEW S, NEW n \in Nat, \A i \in S : i \in 1 .. n
    PROVE  Max(S \cup {n + 1}) = n + 1
<1> DEFINE T == S \cup {n + 1}
<1>1. n + 1 \in T /\ \A i \in T : i \in Int /\ n + 1 >= i
  OBVIOUS
<1> HIDE DEF T
<1>2. \A i \in T : (\A j \in T : i >= j) => i = n + 1
  BY <1>1
<1>3. Max(T) = n + 1
  BY <1>1, <1>2 DEF Max
<1> QED BY <1>3 DEF T

LEMMA UnderMore ==
    ASSUME NEW lines, NEW n \in Nat
    PROVE  Under(lines, n + 1) = IF lines[n + 1].kind = "sfen" THEN BookKey(lines[n + 1].text) ELSE Under(lines, n)
<1>1. 1 .. (n + 1) = (1 .. n) \cup {n + 1} /\ n + 1 - 1 = n /\ n + 1 + 1 - 1 = n + 1
  OBVIOUS
<1>2. Heads(lines, n + 1) = IF lines[n + 1].kind = "sfen" THEN Heads(lines, n) \cup {n + 1} ELSE Heads(lines, n)
  BY <1>1 DEF Heads, Above
<1>3. \A i \in Heads(lines, n) : i \in 1 .. n
  BY <1>1 DEF Heads, Above
<1>4. CASE lines[n + 1].kind = "sfen"
  <2>1. Max(Heads(lines, n) \cup {n + 1}) = n + 1
    BY <1>3, MaxOfMore
  <2> QED BY <1>2, <1>4, <2>1 DEF Under
<1> QED BY <1>2, <1>4 DEF Under

LEMMA ItsMore ==
    ASSUME NEW lines, NEW n \in Nat, NEW key
    PROVE  Its(lines, key, n + 1) = IF lines[n + 1].kind = "entry" /\ Under(lines, n) = key
                                    THEN Its(lines, key, n) \cup {n + 1} ELSE Its(lines, key, n)
<1>1. 1 .. (n + 1) = (1 .. n) \cup {n + 1} /\ n + 1 - 1 = n
  OBVIOUS
<1> QED BY <1>1 DEF Its

LEMMA UntilMore ==
    ASSUME NEW lines, NEW n \in Nat
    PROVE  Until(lines, n + 1) = IF lines[n + 1].kind = "limit" /\ lines[n + 1].n > 0 THEN lines[n + 1].n
                                 ELSE Until(lines, n)
<1>1. 1 .. (n + 1) = (1 .. n) \cup {n + 1}
  OBVIOUS
<1>2. Limits(lines, n + 1) = IF lines[n + 1].kind = "limit" /\ lines[n + 1].n > 0
                             THEN Limits(lines, n) \cup {n + 1} ELSE Limits(lines, n)
  BY <1>1 DEF Limits
<1>3. \A i \in Limits(lines, n) : i \in 1 .. n
  BY DEF Limits
<1>4. CASE lines[n + 1].kind = "limit" /\ lines[n + 1].n > 0
  <2>1. Max(Limits(lines, n) \cup {n + 1}) = n + 1
    BY <1>3, MaxOfMore
  <2> QED BY <1>2, <1>4, <2>1 DEF Until
<1> QED BY <1>2, <1>4 DEF Until

LEMMA OrderMore ==
    ASSUME NEW lines, NEW n \in Nat, NEW set, \A i \in set : i \in 1 .. n, NEW S,
           NEW entries \in Seq(S), lines[n + 1] \in S, InOrder(entries, set, lines)
    PROVE  InOrder(Append(entries, lines[n + 1]), set \cup {n + 1}, lines)
<1> DEFINE more == Append(entries, lines[n + 1])
           k == Len(entries)
<1>1. k \in Nat /\ Len(more) = k + 1 /\ more[k + 1] = lines[n + 1] /\ \A a \in 1 .. k : more[a] = entries[a]
  OBVIOUS
<1>2. PICK f : IsOrder(f, entries, set, lines)
  BY DEF InOrder
<1> DEFINE g == [a \in 1 .. (k + 1) |-> IF a = k + 1 THEN n + 1 ELSE f[a]]
<1> HIDE DEF more, k
<1>3. 1 .. (k + 1) = (1 .. k) \cup {k + 1} /\ k + 1 \notin 1 .. k
  BY <1>1
<1>4. /\ f \in [1 .. k -> set]
      /\ \A i \in set : \E a \in 1 .. k : f[a] = i
      /\ \A a, b \in 1 .. k : a < b => f[a] < f[b]
      /\ \A a \in 1 .. k : entries[a] = lines[f[a]]
  BY <1>2 DEF IsOrder, k
<1>5. g[k + 1] = n + 1 /\ \A a \in 1 .. k : g[a] = f[a]
  BY <1>3
<1>6. g \in [1 .. (k + 1) -> set \cup {n + 1}]
  BY <1>3, <1>4
<1> HIDE DEF g
<1>7. \A i \in set \cup {n + 1} : \E a \in 1 .. (k + 1) : g[a] = i
  BY <1>3, <1>4, <1>5
<1>8. \A a, b \in 1 .. (k + 1) : a < b => g[a] < g[b]
  <2> SUFFICES ASSUME NEW a \in 1 .. (k + 1), NEW b \in 1 .. (k + 1), a < b PROVE g[a] < g[b]
    OBVIOUS
  <2>1. a \in 1 .. k
    BY <1>1
  <2>2. f[a] \in 1 .. n
    BY <1>4, <2>1
  <2>3. CASE b = k + 1
    BY <1>5, <2>1, <2>2, <2>3
  <2>4. CASE b \in 1 .. k
    BY <1>4, <1>5, <2>1, <2>4
  <2> QED BY <1>3, <2>3, <2>4
<1>9. \A a \in 1 .. (k + 1) : more[a] = lines[g[a]]
  BY <1>1, <1>3, <1>4, <1>5
<1>10. IsOrder(g, more, set \cup {n + 1}, lines)
  BY <1>1, <1>6, <1>7, <1>8, <1>9 DEF IsOrder
<1> QED BY <1>10 DEF InOrder, more

-----------------------------------------------------------------------------
(* Loading a file. *)
Books(S) == [entries : [Keys -> Seq(S)], loaded : BOOLEAN, maxPly : Nat]
Readers(S) == [book : Books(S), current : Keys \cup {NoKey}]

Says(b, lines, n) ==
    /\ b.maxPly = Until(lines, n)
    /\ \A key \in Keys : InOrder(b.entries[key], Its(lines, key, n), lines)
HasRead(r, lines, n) ==
    r \in Readers(Range(lines)) /\ r.current = Under(lines, n) /\ Says(r.book, lines, n)

LEMMA LineIsTaken ==
    ASSUME NEW lines, lines \in Seq({line \in Range(lines) : IsLine(line)}), NEW n \in Nat, n + 1 \in 1 .. Len(lines),
           NEW r, HasRead(r, lines, n)
    PROVE  HasRead(ReadLine(r, lines[n + 1]), lines, n + 1)
<1> DEFINE line == lines[n + 1]
           S == Range(lines)
           next == ReadLine(r, line)
<1>1. line \in S /\ IsLine(line)
  OBVIOUS
<1>2. /\ r \in Readers(S) /\ r.current = Under(lines, n) /\ r.book.maxPly = Until(lines, n)
      /\ \A key \in Keys : InOrder(r.book.entries[key], Its(lines, key, n), lines)
  BY DEF HasRead, Says
<1>3. /\ Under(lines, n + 1) = IF line.kind = "sfen" THEN BookKey(line.text) ELSE Under(lines, n)
      /\ Until(lines, n + 1) = IF line.kind = "limit" /\ line.n > 0 THEN line.n ELSE Until(lines, n)
      /\ \A key : Its(lines, key, n + 1) = IF line.kind = "entry" /\ Under(lines, n) = key
                                           THEN Its(lines, key, n) \cup {n + 1} ELSE Its(lines, key, n)
  BY UnderMore, UntilMore, ItsMore
<1> HIDE DEF line, S, next
<1>4. CASE line.kind = "limit" /\ line.n > 0
  <2>1. next = [r EXCEPT !.book.maxPly = line.n]
    BY <1>4 DEF next, ReadLine
  <2>2. line.n \in Nat
    BY <1>1, <1>4 DEF IsLine
  <2>3. next \in Readers(S) /\ next.current = r.current /\ next.book.maxPly = line.n
        /\ next.book.entries = r.book.entries
    BY <1>2, <2>1, <2>2 DEF Readers, Books
  <2>4. \A key \in Keys : Its(lines, key, n + 1) = Its(lines, key, n)
    BY <1>3, <1>4
  <2> QED BY <1>2, <1>3, <1>4, <2>3, <2>4 DEF HasRead, Says, line, S, next
<1>5. CASE line.kind = "sfen"
  <2>1. next = [r EXCEPT !.current = BookKey(line.text)]
    BY <1>5 DEF next, ReadLine
  <2>2. BookKey(line.text) \in Keys \cup {NoKey}
    BY <1>1, <1>5 DEF IsLine, BookKey
  <2>3. next \in Readers(S) /\ next.current = BookKey(line.text) /\ next.book = r.book
    BY <1>2, <2>1, <2>2 DEF Readers
  <2>4. \A key \in Keys : Its(lines, key, n + 1) = Its(lines, key, n)
    BY <1>3, <1>5
  <2> QED BY <1>2, <1>3, <1>5, <2>3, <2>4 DEF HasRead, Says, line, S, next
<1>6. CASE line.kind = "entry" /\ r.current # NoKey
  <2> DEFINE at == r.current
  <2>1. next = [r EXCEPT !.book.entries[at] = Append(@, line)]
    BY <1>6 DEF next, ReadLine
  <2>2. at \in Keys /\ at = Under(lines, n)
    BY <1>2, <1>6 DEF Readers
  <2> HIDE DEF at
  <2>3. r.book.entries \in [Keys -> Seq(S)]
    BY <1>2 DEF Readers, Books
  <2>4. r.book.entries[at] \in Seq(S)
    BY <2>2, <2>3
  <2> DEFINE more == [r.book.entries EXCEPT ![at] = Append(r.book.entries[at], line)]
  <2>5. more \in [Keys -> Seq(S)] /\ more[at] = Append(r.book.entries[at], line)
        /\ \A key \in Keys : key # at => more[key] = r.book.entries[key]
    BY <1>1, <2>2, <2>3, <2>4
  <2>6. next = [r EXCEPT !.book.entries = more]
    BY <1>2, <2>1 DEF Readers, Books
  <2> HIDE DEF more
  <2>7. next \in Readers(S) /\ next.current = r.current /\ next.book.maxPly = r.book.maxPly
        /\ next.book.entries = more
    BY <1>2, <2>5, <2>6 DEF Readers, Books
  <2>8. ASSUME NEW key \in Keys PROVE InOrder(more[key], Its(lines, key, n + 1), lines)
    <3>1. CASE key = at
      <4>1. Its(lines, key, n + 1) = Its(lines, key, n) \cup {n + 1}
        BY <1>3, <1>6, <2>2, <3>1
      <4>2. \A i \in Its(lines, key, n) : i \in 1 .. n
        BY DEF Its
      <4>3. InOrder(r.book.entries[key], Its(lines, key, n), lines)
        BY <1>2
      <4>4. lines[n + 1] \in S
        BY <1>1 DEF line
      <4>5. InOrder(Append(r.book.entries[key], lines[n + 1]), Its(lines, key, n) \cup {n + 1}, lines)
        BY <2>4, <3>1, <4>2, <4>3, <4>4, OrderMore
      <4> QED BY <2>5, <3>1, <4>1, <4>5 DEF line
    <3>2. CASE key # at
      BY <1>2, <1>3, <2>2, <2>5, <3>2
    <3> QED BY <3>1, <3>2
  <2>9. Under(lines, n + 1) = Under(lines, n) /\ Until(lines, n + 1) = Until(lines, n)
    BY <1>3, <1>6
  <2> QED BY <1>2, <2>7, <2>8, <2>9 DEF HasRead, Says, line, S, next
<1>7. CASE /\ ~(line.kind = "limit" /\ line.n > 0) /\ line.kind # "sfen"
           /\ ~(line.kind = "entry" /\ r.current # NoKey)
  <2>1. next = r
    BY <1>7 DEF next, ReadLine
  <2>2. ASSUME NEW key \in Keys PROVE Its(lines, key, n + 1) = Its(lines, key, n)
    BY <1>2, <1>3, <1>7, GoAssumption
  <2>3. Under(lines, n + 1) = Under(lines, n) /\ Until(lines, n + 1) = Until(lines, n)
    BY <1>3, <1>7
  <2> QED BY <1>2, <2>1, <2>2, <2>3 DEF HasRead, Says, line, S, next
<1> QED BY <1>4, <1>5, <1>6, <1>7

LEMMA EmptyIsInOrder ==
    ASSUME NEW lines
    PROVE  /\ \A key : Its(lines, key, 0) = {} /\ InOrder(<<>>, {}, lines)
           /\ Until(lines, 0) = 0 /\ Under(lines, 0) = NoKey
<1>1. 1 .. 0 = {} /\ 1 .. (0 + 1 - 1) = {} /\ Len(<<>>) = 0
  OBVIOUS
<1>2. IsOrder(<<>>, <<>>, {}, lines)
  BY <1>1 DEF IsOrder
<1> QED BY <1>1, <1>2 DEF Its, InOrder, Until, Limits, Under, Heads, Above

LEMMA FileIsLoaded ==
    ASSUME NEW old, NEW T, old \in Books(T), NEW f, IsFile(f)
    PROVE  /\ f.readable => /\ Load(old, f) \in Books(Range(f.lines)) /\ Load(old, f).loaded = TRUE
                            /\ Says(Load(old, f), f.lines, Len(f.lines))
           /\ ~f.readable => Load(old, f) \in Books({}) /\ Load(old, f).loaded = FALSE
<1> DEFINE lines == f.lines
           S == Range(lines)
           clear == [entries |-> [key \in Keys |-> <<>>], loaded |-> FALSE, maxPly |-> 0]
           base == [book |-> clear, current |-> NoKey]
           n == Len(lines)
<1>1. f.readable \in BOOLEAN /\ lines \in Seq({line \in S : IsLine(line)}) /\ n \in Nat /\ DOMAIN lines = 1 .. n
  BY DEF IsFile
<1>2. \A U : clear \in Books(U)
  <2>1. \A U : <<>> \in Seq(U)
    OBVIOUS
  <2> QED BY <2>1 DEF Books
<1>3. Cleared(old) = clear
  <2> DEFINE none == [key \in Keys |-> <<>>]
  <2>1. EmptyBook.entries = none
    BY DEF EmptyBook
  <2> HIDE DEF none
  <2>2. Cleared(old) = [entries |-> none, loaded |-> FALSE, maxPly |-> 0]
    <3>1. Cleared(old) = [old EXCEPT !.entries = none, !.loaded = FALSE, !.maxPly = 0]
      BY <2>1 DEF Cleared
    <3>2. old = [entries |-> old.entries, loaded |-> old.loaded, maxPly |-> old.maxPly]
      BY DEF Books
    <3> QED BY <3>1, <3>2
  <2> QED BY <2>2 DEF none
<1>4. HasRead(base, lines, 0)
  <2>1. base \in Readers(S)
    BY <1>2 DEF Readers
  <2>2. \A key \in Keys : clear.entries[key] = <<>>
    OBVIOUS
  <2>3. base.current = NoKey /\ base.book = clear /\ clear.maxPly = 0
    OBVIOUS
  <2> HIDE DEF clear, base, S
  <2> QED BY <2>1, <2>2, <2>3, EmptyIsInOrder DEF HasRead, Says, S
<1> HIDE DEF clear
<1>5. CASE f.readable
  <2>1. Load(old, f) = [FileRuns!Fold(base, lines).book EXCEPT !.loaded = TRUE]
    <3>1. FoldLeft(ReadLine, base, lines) = FileRuns!Fold(base, lines)
      BY DEF FileRuns!Fold, FileRuns!Greatest, FoldLeft, MapThenFoldSet, Max
    <3> QED BY <1>3, <1>5, <3>1 DEF Load
  <2> HIDE DEF base, lines
  <2>2. PICK r : FileRuns!IsRun(r, n, base, lines) /\ r[n] = FileRuns!Fold(base, lines)
    BY <1>1, FileRuns!FoldRuns
  <2> DEFINE A == {m \in Nat : m <= n => HasRead(r[m], lines, m)}
  <2>3. 0 \in A
    BY <1>4, <2>2 DEF FileRuns!IsRun
  <2>4. ASSUME NEW m \in Nat, m \in A PROVE m + 1 \in A
    <3> SUFFICES ASSUME m + 1 <= n PROVE HasRead(r[m + 1], lines, m + 1)
      OBVIOUS
    <3>1. m + 1 \in 1 .. n /\ m + 1 - 1 = m /\ HasRead(r[m], lines, m)
      BY <1>1, <2>4
    <3>2. r[m + 1] = ReadLine(r[m], lines[m + 1])
      BY <2>2, <3>1 DEF FileRuns!IsRun
    <3> QED BY <1>1, <3>1, <3>2, LineIsTaken
  <2> HIDE DEF A
  <2>5. Nat \subseteq A
    BY <2>3, <2>4, FileRuns!Induction
  <2>6. HasRead(r[n], lines, n)
    BY <1>1, <2>5 DEF A
  <2>7. Load(old, f) = [r[n].book EXCEPT !.loaded = TRUE] /\ r[n].book \in Books(S)
    BY <2>1, <2>2, <2>6 DEF HasRead, Readers
  <2>8. /\ Load(old, f) \in Books(S) /\ Load(old, f).loaded = TRUE
        /\ Load(old, f).entries = r[n].book.entries /\ Load(old, f).maxPly = r[n].book.maxPly
    BY <2>7 DEF Books
  <2> QED BY <1>5, <2>6, <2>8 DEF HasRead, Says, lines
<1>6. CASE ~f.readable
  <2>1. Load(old, f) = clear /\ clear.loaded = FALSE
    BY <1>3, <1>6 DEF Load, clear
  <2> QED BY <1>2, <1>6, <2>1
<1> QED BY <1>1, <1>5, <1>6

-----------------------------------------------------------------------------
(* The answer. *)
LEMMA FileSaid ==
    ASSUME NEW lines, Len(lines) \in Nat, DOMAIN lines = 1 .. Len(lines)
    PROVE  /\ \A key \in Keys : Its(lines, key, Len(lines)) = Said(lines, key)
           /\ Until(lines, Len(lines)) = LastPly(lines)
<1>1. ASSUME NEW key \in Keys PROVE Its(lines, key, Len(lines)) = Said(lines, key)
  <2>1. ASSUME NEW i \in 1 .. Len(lines)
        PROVE  Under(lines, i - 1) = key <=> /\ Above(lines, i, "sfen") # {}
                                             /\ BookKey(lines[Max(Above(lines, i, "sfen"))].text) = key
    <3>1. i - 1 + 1 = i
      OBVIOUS
    <3>2. Heads(lines, i - 1) = Above(lines, i, "sfen")
      BY <3>1 DEF Heads
    <3>3. key # NoKey
      BY GoAssumption
    <3> QED BY <3>2, <3>3 DEF Under
  <2> QED BY <2>1 DEF Its, Said
<1>2. Limits(lines, Len(lines)) = {i \in DOMAIN lines : lines[i].kind = "limit" /\ lines[i].n > 0}
  BY DEF Limits
<1>3. Until(lines, Len(lines)) = LastPly(lines)
  BY <1>2 DEF Until, LastPly
<1> QED BY <1>1, <1>3

(* The first of the entries that may be played is on the first line of those that may. *)
Those(seq, set, Can) == {i \in set : seq[i] \in Can}

LEMMA FirstIsFirst ==
    ASSUME NEW lines, NEW set, set \subseteq Nat, NEW entries, Len(entries) \in Nat, InOrder(entries, set, lines),
           NEW Can
    PROVE  LET playable == Those(entries, 1 .. Len(entries), Can)
               mine == Those(lines, set, Can)
           IN /\ playable = {} <=> mine = {}
              /\ mine # {} => entries[Min(playable)] = lines[Min(mine)]
<1> DEFINE playable == Those(entries, 1 .. Len(entries), Can)
           mine == Those(lines, set, Can)
<1>1. PICK f : IsOrder(f, entries, set, lines)
  BY DEF InOrder
<1>2. /\ f \in [1 .. Len(entries) -> set]
      /\ \A i \in set : \E a \in 1 .. Len(entries) : f[a] = i
      /\ \A a, b \in 1 .. Len(entries) : a < b => f[a] < f[b]
      /\ \A a \in 1 .. Len(entries) : entries[a] = lines[f[a]]
  BY <1>1 DEF IsOrder
<1>3. \A a \in playable : a \in 1 .. Len(entries) /\ f[a] \in mine
  BY <1>2 DEF Those
<1>4. \A i \in mine : \E a \in playable : f[a] = i
  BY <1>2 DEF Those
<1>0. (\A a \in playable : a \in Nat) /\ \A i \in mine : i \in Nat
  BY DEF Those
<1> HIDE DEF playable, mine
<1>5. playable = {} <=> mine = {}
  BY <1>3, <1>4
<1>6. ASSUME mine # {} PROVE entries[Min(playable)] = lines[Min(mine)]
  <2>1. playable \subseteq Nat /\ playable # {}
    <3>1. playable \subseteq Nat
      BY <1>0
    <3> QED BY <1>5, <1>6, <3>1
  <2>2. PICK least \in playable : \A b \in playable : least <= b
    BY <2>1, FileRuns!LeastElement
  <2>3. Min(playable) \in playable /\ \A b \in playable : Min(playable) <= b
    BY <2>2 DEF Min
  <2> DEFINE a == Min(playable)
  <2> HIDE DEF a
  <2>4. a \in playable /\ \A b \in playable : a <= b
    BY <2>3 DEF a
  <2>5. f[a] \in mine
    BY <1>3, <2>4
  <2>6. ASSUME NEW i \in mine PROVE f[a] <= i
    <3>1. PICK b \in playable : f[b] = i
      BY <1>4
    <3>2. a \in 1 .. Len(entries) /\ b \in 1 .. Len(entries) /\ a <= b
      BY <1>3, <2>4
    <3>3. f[a] \in Nat /\ f[b] \in Nat
      BY <1>2, <3>2
    <3>4. CASE a = b
      BY <3>1, <3>3, <3>4
    <3>5. CASE a < b
      BY <1>2, <3>1, <3>2, <3>3, <3>5
    <3> QED BY <3>2, <3>4, <3>5
  <2>8. \A i \in mine : (\A j \in mine : i <= j) => i = f[a]
    BY <1>0, <2>5, <2>6
  <2>9. Min(mine) = f[a]
    BY <2>5, <2>6, <2>8 DEF Min
  <2>10. entries[a] = lines[f[a]]
    BY <1>2, <1>3, <2>4
  <2> QED BY <2>5, <2>9, <2>10 DEF a
<1> QED BY <1>5, <1>6 DEF playable, mine

BookInv ==
    /\ IsFile(file) /\ book \in Books(Range(file.lines))
    /\ book.loaded <=> file.readable
    /\ file.readable => Says(book, file.lines, Len(file.lines))
    /\ ~Idle => (options.limitStrength <=> settings.limitStrength /\ ~settings.analyse)

LEMMA SearchIsAsked ==
    TypeOK => LET o == SearchOptions
              IN /\ o.restrict = options.restrict /\ o.searchmoves = options.searchmoves
                 /\ o.ponder = options.ponder /\ o.infinite = options.infinite
                 /\ o.limitStrength = options.limitStrength
<1> SUFFICES ASSUME TypeOK
             PROVE  LET o == SearchOptions
                    IN /\ o.restrict = options.restrict /\ o.searchmoves = options.searchmoves
                       /\ o.ponder = options.ponder /\ o.infinite = options.infinite
                       /\ o.limitStrength = options.limitStrength
  OBVIOUS
<1> DEFINE q == [options EXCEPT !.timeLimit = TimeLimit]
<1>1. q \in OptionsType
  BY SearchTypes
<1>2. /\ q.restrict = options.restrict /\ q.searchmoves = options.searchmoves
      /\ q.ponder = options.ponder /\ q.infinite = options.infinite /\ q.limitStrength = options.limitStrength
  BY DEF TypeOK, OptionsType
<1> HIDE DEF q
<1>3. ASSUME NEW p \in OptionsType
      PROVE  LET o == ApplyStrengthLimit(p)
             IN /\ o.restrict = p.restrict /\ o.searchmoves = p.searchmoves
                /\ o.ponder = p.ponder /\ o.infinite = p.infinite /\ o.limitStrength = p.limitStrength
  BY DEF ApplyStrengthLimit, OptionsType
<1>4. SearchOptions = ApplyStrengthLimit(q)
  BY DEF SearchOptions, q
<1> QED BY <1>1, <1>2, <1>3, <1>4

(* What may be played of the book is what the file says. *)
LEMMA BookIsFile ==
    ASSUME TypeOK, BookInv, file.readable
    PROVE  LET playable == Playable(SearchOptions)
               entries == Lookup(book, situation.text)
           IN /\ playable = {} <=> Mine = {}
              /\ Mine # {} => entries[Min(playable)] = file.lines[Min(Mine)]
<1> DEFINE lines == file.lines
           S == Range(lines)
           text == situation.text
           entries == Lookup(book, text)
           playable == Playable(SearchOptions)
           Can == {e \in S : /\ options.restrict => e.best \in options.searchmoves
                             /\ Legal(situation, e.best)}
<1>1. /\ lines \in Seq(S) /\ Len(lines) \in Nat /\ DOMAIN lines = 1 .. Len(lines) /\ \A i \in 1 .. Len(lines) : lines[i] \in S
      /\ book \in Books(S) /\ book.maxPly = LastPly(lines)
      /\ \A key \in Keys : InOrder(book.entries[key], Said(lines, key), lines)
  <2>1. lines \in Seq({line \in S : IsLine(line)})
    BY DEF BookInv, IsFile
  <2>2. /\ lines \in Seq(S) /\ Len(lines) \in Nat /\ DOMAIN lines = 1 .. Len(lines)
        /\ \A i \in 1 .. Len(lines) : lines[i] \in S
    BY <2>1
  <2> QED BY <2>2, FileSaid DEF BookInv, Says
<1>2. text.key \in Keys /\ text.ply \in Nat
  BY GoAssumption DEF TypeOK, SituationType
<1>3. playable = {i \in DOMAIN entries : /\ options.restrict => entries[i].best \in options.searchmoves
                                         /\ Legal(situation, entries[i].best)}
  BY SearchIsAsked DEF Playable
<1> HIDE DEF S, playable
<1>4. CASE BookKey(text) = NoKey \/ (book.maxPly > 0 /\ text.ply > book.maxPly)
  <2>1. entries = <<>>
    BY <1>4 DEF Lookup
  <2>2. playable = {}
    BY <1>3, <2>1
  <2>3. Mine = {}
    BY <1>1, <1>4 DEF Mine
  <2> QED BY <2>2, <2>3 DEF playable
<1>5. CASE ~(BookKey(text) = NoKey \/ (book.maxPly > 0 /\ text.ply > book.maxPly))
  <2>1. BookKey(text) = text.key
    BY <1>5 DEF BookKey
  <2>2. entries = book.entries[text.key]
    BY <1>5, <2>1 DEF Lookup
  <2>3. entries \in Seq(S)
    BY <1>1, <1>2, <2>2 DEF Books
  <2>4. Len(entries) \in Nat /\ DOMAIN entries = 1 .. Len(entries) /\ \A a \in 1 .. Len(entries) : entries[a] \in S
    BY <2>3
  <2> DEFINE set == Said(lines, text.key)
  <2>5. set \subseteq Nat /\ \A i \in set : lines[i] \in S
    BY <1>1 DEF Said
  <2>6. InOrder(entries, set, lines)
    BY <1>1, <1>2, <2>2
  <2> HIDE DEF entries, set
  <2>7. playable = Those(entries, 1 .. Len(entries), Can)
    BY <1>3, <2>4 DEF Those
  <2>8. Mine = Those(lines, set, Can)
    <3>1. Mine = {i \in set : /\ Legal(situation, lines[i].best)
                              /\ options.restrict => lines[i].best \in options.searchmoves}
      BY <1>1, <1>5 DEF Mine, set
    <3> QED BY <2>5, <3>1 DEF Those
  <2> HIDE DEF Can
  <2>9. /\ playable = {} <=> Mine = {}
        /\ Mine # {} => entries[Min(playable)] = lines[Min(Mine)]
    BY <2>4, <2>5, <2>6, <2>7, <2>8, FirstIsFirst
  <2> QED BY <2>9 DEF entries, playable
<1> QED BY <1>4, <1>5

FollowInv == TypeOK /\ UnansweredInv /\ BookInv /\ BookFollowsItsFile

LEMMA BookIsKept == TypeOK /\ BookInv /\ [Next]_vars => BookInv'
<1> SUFFICES ASSUME TypeOK, BookInv, [Next]_vars PROVE BookInv'
  OBVIOUS
<1>1. /\ IsFile(file) /\ book \in Books(Range(file.lines))
      /\ book.loaded <=> file.readable
      /\ file.readable => Says(book, file.lines, Len(file.lines))
      /\ ~Idle => (options.limitStrength <=> settings.limitStrength /\ ~settings.analyse)
  BY DEF BookInv
<1>2. ASSUME UNCHANGED <<file, book, settings, options>>, Idle' \/ ~Idle PROVE BookInv'
  BY <1>1, <1>2 DEF BookInv, Says
<1>3. ASSUME UNCHANGED <<file, book>>, Idle' PROVE BookInv'
  BY <1>1, <1>3 DEF BookInv, Says
<1>4. CASE \E s \in Situations : Position(s)
  BY <1>3, <1>4 DEF Position, Forget, Fresh, Idle
<1>5. CASE \E s \in Settings : SetOption(s)
  BY <1>3, <1>5 DEF SetOption, Forget, Fresh, Idle
<1>6. CASE \E f \in Files : LoadBook(f)
  <2>1. PICK f \in Files : LoadBook(f)
    BY <1>6
  <2>2. book' = Load(book, f) /\ file' = f /\ Idle' /\ IsFile(f) /\ f.readable \in BOOLEAN
    BY <2>1, GoAssumption DEF LoadBook, Forget, Fresh, Idle, IsFile
  <2>3. /\ f.readable => /\ book' \in Books(Range(f.lines)) /\ book'.loaded = TRUE
                         /\ Says(book', f.lines, Len(f.lines))
        /\ ~f.readable => book' \in Books({}) /\ book'.loaded = FALSE
    BY <1>1, <2>2, FileIsLoaded
  <2>4. Books({}) \subseteq Books(Range(f.lines))
    <3>1. Seq({}) \subseteq Seq(Range(f.lines))
      OBVIOUS
    <3> QED BY <3>1 DEF Books
  <2>5. (Says(book, file.lines, Len(file.lines)))' <=> Says(book', f.lines, Len(f.lines))
    BY <2>2 DEF Says
  <2> QED BY <2>2, <2>3, <2>4, <2>5 DEF BookInv
<1>7. CASE \E line \in Lines : Go(line)
  <2>1. PICK line \in Lines : Go(line)
    BY <1>7
  <2>2. /\ UNCHANGED <<settings, book, file>>
        /\ options' = [DefaultOptions EXCEPT !.limitStrength = settings.limitStrength /\ ~settings.analyse,
                                             !.strength = settings.strength]
    BY <2>1 DEF Go, Fresh
  <2>3. options'.limitStrength = (settings.limitStrength /\ ~settings.analyse)
    BY <2>2 DEF DefaultOptions
  <2> QED BY <1>1, <2>2, <2>3 DEF BookInv, Says
<1>8. CASE Parse
  <2>1. UNCHANGED <<file, book, settings>> /\ ~Idle
    BY <1>8 DEF Parse, ReadSearchmove, ReadName, ReadClock, ReadMovetime, ReadLimit, Reading, ReadOn, Idle, ClockNames
  <2>2. options'.limitStrength = options.limitStrength
    <3>1. options \in OptionsType
      BY DEF TypeOK
    <3>2. CASE ReadName
      <4>1. options' \in {[options EXCEPT !.restrict = TRUE], [options EXCEPT !.ponder = TRUE],
                          [options EXCEPT !.infinite = TRUE], options}
        BY <3>2 DEF ReadName
      <4> QED BY <3>1, <4>1 DEF OptionsType
    <3>3. CASE ReadLimit
      <4>1. \/ \E n : options' = [options EXCEPT !.movesToGo = n]
            \/ \E n : options' = [options EXCEPT !.maxDepth = n]
            \/ \E n : options' = [options EXCEPT !.nodeLimit = n]
        <5>1. awaiting \in {"movestogo", "depth", "nodes"}
          BY <3>3 DEF ReadLimit, Reading
        <5>2. CASE awaiting = "movestogo"
          BY <3>3, <5>2 DEF ReadLimit
        <5>3. CASE awaiting = "depth"
          BY <3>3, <5>3 DEF ReadLimit
        <5>4. CASE awaiting = "nodes"
          BY <3>3, <5>4 DEF ReadLimit
        <5> QED BY <5>1, <5>2, <5>3, <5>4
      <4> QED BY <3>1, <4>1 DEF OptionsType
    <3>4. CASE ReadSearchmove
      BY <3>1, <3>4 DEF ReadSearchmove, OptionsType
    <3>5. CASE ReadClock \/ ReadMovetime
      BY <3>5 DEF ReadClock, ReadMovetime
    <3> QED BY <1>8, <3>2, <3>3, <3>4, <3>5 DEF Parse
  <2> QED BY <1>1, <2>1, <2>2 DEF BookInv, Says
<1>9. CASE AnswerFromBook \/ StartSearch
  BY <1>2, <1>9 DEF AnswerFromBook, StartSearch, Idle
<1>10. CASE UNCHANGED vars
  BY <1>2, <1>10 DEF vars, parseVars, Idle
<1> QED BY <1>4, <1>5, <1>6, <1>7, <1>8, <1>9, <1>10 DEF Next

(* Whether there is an answer from the book, and that it is the file's. *)
LEMMA AnswersFollow ==
    ASSUME TypeOK, BookInv, ~Idle, AnswerFromBook \/ StartSearch
    PROVE  BookFollowsItsFile'
<1> DEFINE o == SearchOptions
           entries == Lookup(book, situation.text)
           playable == Playable(o)
           used == MayUseBook(o) /\ ~situation.terminal /\ playable # {}
           first == file.lines[Min(Mine)]
           Follows(r) == IF Mine = {} \/ ~BookIsWanted THEN r.kind = "search"
                         ELSE LET after == Goes[situation, first.best]
                              IN /\ r.kind = "bestmove" /\ r.best = first.best
                                 /\ r.ponder = IF settings.usiPonder /\ ~after.terminal /\ Legal(after, first.ponder)
                                               THEN first.ponder ELSE NoMove
<1>1. used <=> Mine # {} /\ BookIsWanted
  <2>1. file.readable => (playable = {} <=> Mine = {})
    BY BookIsFile
  <2>2. ~file.readable => Mine = {}
    BY DEF Mine
  <2>3. MayUseBook(o) /\ ~situation.terminal <=> BookIsWanted /\ file.readable
    BY SearchIsAsked DEF MayUseBook, BookIsWanted, BookInv
  <2> QED BY <2>1, <2>2, <2>3
<1>2. Mine # {} => entries[Min(playable)] = first
  <2>1. Mine # {} => file.readable
    BY DEF Mine
  <2> QED BY <2>1, BookIsFile
<1>3. UNCHANGED <<situation, settings, options, file>>
  BY DEF AnswerFromBook, StartSearch
<1>4. Follows(reply')
  <2>1. CASE used
    <3>1. AnswerFromBook
      BY <2>1 DEF StartSearch
    <3>2. reply' = Bestmove(first)
      BY <1>1, <1>2, <2>1, <3>1 DEF AnswerFromBook
    <3> HIDE DEF first
    <3>3. /\ reply'.kind = "bestmove" /\ reply'.best = first.best
          /\ reply'.ponder = IF Ponders(first) THEN first.ponder ELSE NoMove
      BY <3>2 DEF Bestmove
    <3> QED BY <1>1, <2>1, <3>3 DEF Ponders
  <2>2. CASE ~used
    <3>1. StartSearch
      BY <2>2 DEF AnswerFromBook
    <3>2. reply'.kind = "search"
      BY <3>1 DEF StartSearch
    <3> QED BY <1>1, <2>2, <3>2
  <2> QED BY <2>1, <2>2
<1>5. Mine' = Mine /\ (BookIsWanted' <=> BookIsWanted)
  BY <1>3 DEF Mine, BookIsWanted
<1>6. BookFollowsItsFile' <=> (reply'.kind # "none" => Follows(reply'))
  BY <1>3, <1>5 DEF BookFollowsItsFile, Searching
<1> QED BY <1>4, <1>6

LEMMA NextFollows == FollowInv /\ [Next]_vars => FollowInv'
<1> SUFFICES ASSUME FollowInv, [Next]_vars PROVE FollowInv'
  OBVIOUS
<1>1. TypeOK /\ UnansweredInv /\ BookInv /\ BookFollowsItsFile
  BY DEF FollowInv
<1>2. TypeOK' /\ UnansweredInv' /\ BookInv'
  BY <1>1, NextTypes, NextUnanswered, BookIsKept
<1>3. BookFollowsItsFile'
  <2>1. CASE reply'.kind = "none"
    BY <2>1 DEF BookFollowsItsFile
  <2>2. CASE AnswerFromBook \/ StartSearch
    <3>1. ~Idle
      BY <2>2 DEF AnswerFromBook, StartSearch
    <3> QED BY <1>1, <2>2, <3>1, AnswersFollow
  <2>3. CASE UNCHANGED vars
    <3>1. UNCHANGED <<situation, settings, options, file, reply>>
      BY <2>3 DEF vars, parseVars
    <3>2. Mine' = Mine /\ (BookIsWanted' <=> BookIsWanted)
      BY <3>1 DEF Mine, BookIsWanted
    <3> QED BY <1>1, <3>1, <3>2 DEF BookFollowsItsFile, Searching
  <2>4. CASE Parse
    <3>1. reply.kind = "none" /\ reply' = reply
      BY <1>1, <2>4 DEF UnansweredInv, Idle, Parse, ReadSearchmove, ReadName, ReadClock, ReadMovetime, ReadLimit,
         Reading, ReadOn, ClockNames
    <3> QED BY <2>1, <3>1
  <2>5. ASSUME NEW line, NEW waits, NEW o, Fresh(line, waits, o) PROVE reply'.kind = "none"
    BY <2>5 DEF Fresh, NoReply
  <2> QED BY <2>1, <2>2, <2>3, <2>4, <2>5 DEF Next, Position, SetOption, LoadBook, Forget, Go
<1> QED BY <1>2, <1>3 DEF FollowInv

(* The book answers exactly when the file loaded last has a line for this position that
   may be played, with the first such line and its ponder move; whatever the file says,
   in whatever order, and whatever was loaded before. *)
THEOREM BooksAreFollowed == Spec => []BookFollowsItsFile
<1>1. Init => FollowInv
  <2> SUFFICES ASSUME Init PROVE FollowInv
    OBVIOUS
  <2>1. TypeOK /\ Idle /\ reply.kind = "none" /\ book = EmptyBook /\ file = Unreadable
    BY InitTypes DEF Init, Idle, NoReply
  <2>2. IsFile(Unreadable) /\ ~Unreadable.readable
    <3>1. \A S : <<>> \in Seq(S)
      OBVIOUS
    <3> QED BY <3>1 DEF IsFile, Unreadable
  <2>3. EmptyBook \in Books(Range(Unreadable.lines)) /\ EmptyBook.loaded = FALSE
    <3>1. \A S : <<>> \in Seq(S)
      OBVIOUS
    <3>2. [key \in Keys |-> <<>>] \in [Keys -> Seq(Range(Unreadable.lines))]
      BY <3>1
    <3> QED BY <3>2 DEF EmptyBook, Books
  <2> QED BY <2>1, <2>2, <2>3 DEF FollowInv, UnansweredInv, BookInv, BookFollowsItsFile
<1>2. FollowInv => BookFollowsItsFile
  BY DEF FollowInv
<1> QED BY <1>1, <1>2, NextFollows, PTL DEF Spec
=============================================================================
