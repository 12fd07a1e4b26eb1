---------------------------- MODULE MCGoCommand -----------------------------
(* GoCommand in a game of two moves for each side.  An int ends at 5000 and a *)
(* std::uint64_t has 20000 values.                                            *)
EXTENDS GoCommand, TLC

CONSTANTS k0, k1, k2, k3, none   \* positions; no position

Situation(key, ply, side, terminal) == [text |-> Text(key, ply), side |-> side, terminal |-> terminal]
Start == Situation(k0, 1, "black", FALSE)
Left1 == Situation(k1, 2, "white", FALSE)
Right1 == Situation(k2, 2, "white", FALSE)
Start3 == Situation(k0, 3, "black", FALSE)   \* the first position again
Over   == Situation(k3, 2, "white", TRUE)
MCSituations == {Start, Left1, Start3, Over}
MCGoes == (<<Start, "left">> :> Left1) @@ (<<Start, "right">> :> Right1) @@ (<<Start, "end">> :> Over)
          @@ (<<Start3, "left">> :> Left1) @@ (<<Left1, "back">> :> Start3) @@ (<<Left1, "left">> :> Over)
          @@ (<<Over, "back">> :> Start3)

(* Entries that may not be played, texts of no position with entries below
   them, the same position twice, limits. *)
Wide == File(<<Comment, Entry("left", "none"), Limit(0), Heading(Text(k0, 1)), Entry("back", "none"),
               Entry("end", "back"), Comment, Heading(Text(none, 1)), Entry("left", "none"),
               Heading(Text(k1, 9)), Entry("left", "back"), Heading(Text(k1, 0)), Entry("back", "none"),
               Heading(Text(k0, 5)), Entry("left", "back"), Entry("right", "back")>>)
Short == File(<<Limit(2), Heading(Text(k0, 3)), Entry("left", "left"), Heading(Text(k3, 1)),
                Entry("back", "none"), Limit(-1)>>)
MCFiles == {Wide, Short, Unreadable}

Plain == [ownBook |-> TRUE, noBook |-> FALSE, analyse |-> FALSE, usiPonder |-> TRUE,
          limitStrength |-> FALSE, strength |-> 1, slowMover |-> 100, minimumThinkingTime |-> 0,
          networkDelay |-> 0, networkDelay2 |-> 0]
MCSettings ==
    {Plain,
     [Plain EXCEPT !.slowMover = 1000, !.networkDelay2 = 40, !.noBook = TRUE],
     [Plain EXCEPT !.minimumThinkingTime = 600, !.networkDelay = 70, !.networkDelay2 = 30, !.usiPonder = FALSE],
     [Plain EXCEPT !.limitStrength = TRUE, !.strength = -15, !.slowMover = 1],
     [Plain EXCEPT !.limitStrength = TRUE, !.strength = 6, !.analyse = TRUE],
     [Plain EXCEPT !.limitStrength = TRUE, !.strength = 6, !.ownBook = FALSE]}

Of(name, n) == <<Word(name), Numeral(n)>>
Clocks == {<<>>, Of("btime", 0) \o Of("wtime", 900), Of("wtime", 3000) \o Of("btime", 20) \o Of("binc", 40),
           Of("byoyomi", 100), Of("btime", 4900) \o Of("winc", 10) \o Of("byoyomi", 400) \o Of("btime", 4000),
           Of("btime", -7) \o Of("wtime", 5001), <<Word("btime"), Word("ponder")>>}
Limits == {<<>>, Of("movestogo", 2) \o Of("nodes", 0), Of("movestogo", -3) \o Of("depth", 0),
           Of("depth", 3) \o Of("depth", 5001), Of("nodes", 4000), Of("nodes", -1),
           Of("nodes", 20000), Of("movetime", 70), Of("movetime", -1)}
Moves == {<<>>, <<Word("searchmoves"), Word("right"), Word("left")>>, <<Word("searchmoves")>>,
          <<Word("searchmoves"), Word("end"), Word("mate"), Word("left")>>}
Ends == {<<>>, <<Word("ponder")>>, <<Word("infinite")>>, <<Word("movetime"), Word("x")>>, <<Word("depth")>>}
MCLines == {m \o c \o l : m \in Moves, c \in Clocks, l \in Limits}
           \cup {e \o l \o m : m \in Moves, l \in Limits, e \in Ends \ {<<>>}}
           \cup {l \o c \o e : c \in Clocks, l \in {<<>>, Of("nodes", 0)}, e \in Ends}

MCNames == {"int", "left", "right", "end", "x"} \cup Keywords

(* A higher strength has more nodes, and no less depth. *)
ASSUME StrengthAssumption ==
    \A s, t \in -15 .. 6 \ {0} : s < t => Level(t) = Level(s) + (IF s < 0 /\ t > 0 THEN t - s - 1 ELSE t - s)
                                          /\ Budget(Level(s)) < Budget(Level(t))
=============================================================================
