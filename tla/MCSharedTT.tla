----------------------------- MODULE MCSharedTT -----------------------------
(* The table in three kinds of behaviours: one entry written and read at      *)
(* several plies (TTEntry); calls on a cluster that do not overlap, over more *)
(* positions, depths and generations; and calls that do (SharedTT).           *)
EXTENDS SharedTT, TTEntry

CONSTANTS t1, t2, zero, a, b, c

(* An entry: plies and distances at both ends of their ranges; every kind of
   move. *)
MCPlies == {0, 1, 63, 128}
MCDistances == {0, 5, 128}
MCEvaluations == {1 - DecisiveThreshold, -1, 0, DecisiveThreshold - 1}
MCEntryDepths == {-1, 0, 64}
MCMoves == {[from |-> 80, to |-> 0, piece |-> 14, promote |-> 0, drop |-> 0],
            [from |-> 0, to |-> 80, piece |-> 1, promote |-> 1, drop |-> 0],
            [from |-> -1, to |-> 40, piece |-> 7, promote |-> 0, drop |-> 1],
            NoMove}
MCGenerations == {1, 255}

VARIABLES about,   \* an entry or a cluster
          serial   \* calls do not overlap
MCVars == <<vars, entryVars, about, serial>>

(* For the behaviours of a cluster: the same entry throughout. *)
Draw == [kind |-> "evaluation", value |-> 0]
SameEntry == /\ outcome = Draw
             /\ entry = EntryOf(Draw, 0, 0, NoMove, 1, -Infinity, Infinity)
             /\ word = Pack(entry)

MCInit ==
    /\ Init
    /\ \/ about = "cluster" /\ serial \in BOOLEAN /\ SameEntry
       \/ about = "entry" /\ serial = TRUE /\ EntryInit

(* One after the other, all by t1; or at once, over two positions in one search
   and one table. *)
Serially == pc'[t2] = "idle" /\ found'[t2] = found[t2]
AtOnce == /\ generation' = 1 /\ \A t \in Threads : item'[t].for # c /\ item'[t].depth < 2
          /\ \A s \in Slots : key[s] # ZeroKey => key'[s] # ZeroKey

ClusterStep == /\ about = "cluster" /\ Next /\ (IF serial THEN Serially ELSE AtOnce)
               /\ UNCHANGED <<entryVars, about, serial>>
EntryStep == about = "entry" /\ EntryNext /\ UNCHANGED <<vars, about, serial>>

MCNext == ClusterStep \/ EntryStep
MCSpec == MCInit /\ [][MCNext]_MCVars

NoTornReadInit == Init /\ about = "cluster" /\ serial = FALSE /\ SameEntry
NoTornReadSpec == NoTornReadInit /\ [][MCNext]_MCVars
=============================================================================
