---------------------------- MODULE UsiProtocol ----------------------------
(* What Hayanagi promises the GUI about one "go" after another (README.md,  *)
(* the sections on the commands and on USI_Ponder): one answer of the right *)
(* kind, not before it is due, and none once the search was given up.       *)
EXTENDS Sequences

VARIABLES
    pending,   \* the go that awaits its answer, or Nothing
    said,      \* "stop" / "ponderhit" received since
    answers    \* the first words of the answers to the last go
vars == <<pending, said, answers>>

GoType == [kind : {"bestmove", "checkmate", "tsume"},
           infinite : BOOLEAN, ponder : BOOLEAN]
Nothing == [kind |-> "nothing"]

Init == pending = Nothing /\ said = {} /\ answers = <<>>

(* Due at once: a finite search, or go mate, which stops when it has solved. *)
Due(g) == g.kind = "bestmove" => /\ g.infinite => "stop" \in said
                                 /\ g.ponder => said # {}

Go(g) ==
    /\ pending = Nothing
    /\ pending' = g /\ said' = {} /\ answers' = <<>>

GoAnsweredAtOnce(g) ==
    /\ pending = Nothing /\ ~g.infinite /\ ~g.ponder
    /\ said' = {} /\ answers' = <<g.kind>>
    /\ UNCHANGED pending

Say(word) ==
    /\ said' = said \cup {word}
    /\ UNCHANGED <<pending, answers>>

Answer ==
    /\ pending # Nothing /\ Due(pending)
    /\ answers' = Append(answers, pending.kind)
    /\ pending' = Nothing
    /\ UNCHANGED said

GiveUp ==
    /\ pending # Nothing
    /\ pending' = Nothing
    /\ UNCHANGED <<said, answers>>

Next ==
    \/ \E g \in GoType : Go(g) \/ GoAnsweredAtOnce(g)
    \/ \E word \in {"stop", "ponderhit"} : Say(word)
    \/ Answer
    \/ GiveUp

Spec == Init /\ [][Next]_vars
=============================================================================
