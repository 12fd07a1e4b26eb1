---------------------------- MODULE ParallelFor ----------------------------
(* What ParallelTeam::run promises its callers (src/parallel.h): the task    *)
(* runs at most once for each index, only between the call and its end, for  *)
(* every index unless one of them throws, and an exception is not lost.      *)
EXTENDS Naturals

CONSTANT Counts   \* the counts a caller may pass

VARIABLES
    phase,     \* "making", "idle", "running" or "gone"
    asked,     \* the count of the last run
    done,      \* the indices whose task returned in it
    thrown,    \* the indices whose task threw
    outcome    \* how the last run ended
vars == <<phase, asked, done, thrown, outcome>>

Init == phase = "making" /\ asked = 0 /\ done = {} /\ thrown = {} /\ outcome = "none"

Made == phase = "making" /\ phase' = "idle" /\ UNCHANGED <<asked, done, thrown, outcome>>

Begin(n) ==
    /\ phase = "idle"
    /\ phase' = "running" /\ asked' = n
    /\ done' = {} /\ thrown' = {} /\ outcome' = "none"

Left == 0 .. (asked - 1) \ (done \cup thrown)

Succeed(i) ==
    /\ phase = "running" /\ i \in Left
    /\ done' = done \cup {i}
    /\ UNCHANGED <<phase, asked, thrown, outcome>>

Throw(i) ==
    /\ phase = "running" /\ i \in Left
    /\ thrown' = thrown \cup {i}
    /\ UNCHANGED <<phase, asked, done, outcome>>

Return ==
    /\ phase = "running" /\ done = 0 .. (asked - 1)
    /\ phase' = "idle" /\ outcome' = "returned"
    /\ UNCHANGED <<asked, done, thrown>>

Rethrow ==
    /\ phase = "running" /\ thrown # {}
    /\ phase' = "idle" /\ outcome' = "threw"
    /\ UNCHANGED <<asked, done, thrown>>

Destroy ==
    /\ phase \in {"making", "idle"}
    /\ phase' = "gone"
    /\ UNCHANGED <<asked, done, thrown, outcome>>

Next == \/ Made
        \/ \E n \in Counts : Begin(n)
        \/ \E i \in 0 .. (asked - 1) : Succeed(i) \/ Throw(i)
        \/ Return
        \/ Rethrow
        \/ Destroy

Spec == Init /\ [][Next]_vars
=============================================================================
