--------------------------- MODULE MCTsumeSearch ----------------------------
(* TsumeSearch on small games.  Even positions are black's, odd ones white's. *)
EXTENDS TsumeSearch

Game(n, legal, checks) ==
    [legal |-> legal,
     checking |-> [p \in 0 .. n |-> SelectSeq(Reverse(legal[p]), LAMBDA q : q \in checks)],
     side |-> [p \in 0 .. n |-> IF p % 2 = 0 THEN "black" ELSE "white"],
     inCheck |-> [p \in 0 .. n |-> p \in checks]]

(* Two positions a side, with the mates, cycles and choices there are. *)
ShortGames ==
    {Game(3, (0 :> l0) @@ (1 :> l1) @@ (2 :> l2) @@ (3 :> l3), c) :
        l0 \in {<<1, 3>>}, l1 \in {<<2>>, <<2, 0>>}, l2 \in {<<1>>, <<3, 1>>},
        l3 \in {<< >>, <<0>>}, c \in {0 .. 3, {1, 2}}}

(* A mate in five, 0 1 2 3 4 5, with short cuts, detours and ways back. *)
LongGames ==
    {Game(5, (0 :> l0) @@ (1 :> l1) @@ (2 :> <<1, 3>>) @@ (3 :> l3) @@ (4 :> <<1, 5>>) @@ (5 :> l5),
          0 .. 5) :
        l0 \in {<<3, 1>>}, l1 \in {<<2>>, <<4, 2>>},
        l3 \in {<<4>>, <<2, 4>>}, l5 \in {<< >>, <<0>>}}

AllGames == ShortGames \cup LongGames

(* The generation wraps in the fourth call, if each one is for the other side: then
   an entry left from the first would be read as one for the wrong attacker. *)
WrapGames == {g \in ShortGames : g.legal[1] = <<2, 0>> /\ g.legal[2] = <<3, 1>> /\ g.inCheck[0]}

MCNext ==
    /\ Next
    /\ game \in LongGames => solves' <= 2
    /\ solves' > 3 => game \in WrapGames
    /\ game \in WrapGames /\ solves' # solves /\ solves > 0 => attacker' # attacker
MCSpec == Init /\ [][MCNext]_vars
=============================================================================
