--------------------------- MODULE TsumeParallel ----------------------------
(***************************************************************************)
(* visit_parallel of src/tsume.cpp: the replies of one position are        *)
(* searched by a pool of workers, which takes them in order but finishes   *)
(* them in any.  cutoff is the smallest reply so far that decides the      *)
(* position; replies beyond it are skipped or cancelled, and their slots   *)
(* hold nothing that means anything.  Then the replies are put together in *)
(* their order.                                                            *)
(*                                                                         *)
(* What the search of a reply finds when nothing interrupts it is given    *)
(* (found); TsumeSearch is about that.                                     *)
(***************************************************************************)
EXTENDS Integers, TsumeResult

CONSTANTS Workers, MaxMoves, MaxReplyPlies

ASSUME ParallelAssumption ==
    Workers # {} /\ MaxMoves \in Nat \ {0} /\ MaxReplyPlies \in Nat

VARIABLES
    attacking, \* whether the attacker is to move
    count,     \* moves.size()
    found,     \* what each reply's search would find
    taken,     \* the pool's next_
    pc, index, \* of each worker
    previous,  \* its copy of cutoff
    cutoff,
    replies,
    stopping,  \* the stop flag is set or the deadline is past
    added, total \* how many replies have been summed up, and their sum
visitVars == <<attacking, count, found, taken, pc, index, previous, cutoff, replies, stopping,
               added, total>>

Statuses == {"Mate", "NoMate", "Limit"}
NoReply == -1
Replied(status, plies) == [status |-> status, plies |-> plies]

Indices == 0 .. (count - 1)
Unset == Replied("Limit", 0)   \* a TsumeResult by default
NoneAdded == Result(IF attacking THEN "NoMate" ELSE "Mate", NoReply, 0)

FoundType == {r \in [status : Statuses, plies : 0 .. MaxReplyPlies] :
                 r.status # "Mate" => r.plies = 0}

ReplyType == [status : Statuses \cup Aborts, plies : 0 .. MaxReplyPlies]
ResultType == [status : Statuses \cup Aborts, move : Indices \cup {NoReply},
               plies : 0 .. (MaxReplyPlies + 1)]

VisitInit ==
    /\ attacking \in BOOLEAN /\ count \in 1 .. MaxMoves
    /\ found \in [0 .. (count - 1) -> FoundType]
    /\ taken = 0 /\ cutoff = count
    /\ pc = [w \in Workers |-> "take"] /\ index = [w \in Workers |-> 0]
    /\ previous = [w \in Workers |-> 0]
    /\ replies = [i \in 0 .. (count - 1) |-> Unset]
    /\ stopping = FALSE
    /\ added = 0 /\ total = NoneAdded

Goto(w, place) == pc' = [pc EXCEPT ![w] = place]
given == <<attacking, count, found>>
totals == <<added, total>>

(* The pool hands out the next index, or none is left. *)
Take(w) ==
    /\ pc[w] = "take"
    /\ IF taken < count
       THEN index' = [index EXCEPT ![w] = taken] /\ taken' = taken + 1 /\ Goto(w, "look")
       ELSE Goto(w, "out") /\ UNCHANGED <<index, taken>>
    /\ UNCHANGED <<given, previous, cutoff, replies, stopping, totals>>

(* index > cutoff: the reply is not searched at all. *)
Skip(w) ==
    /\ pc[w] = "look" /\ index[w] > cutoff
    /\ Goto(w, "take")
    /\ UNCHANGED <<given, taken, index, previous, cutoff, replies, stopping, totals>>

(* A relaxed load may miss the latest cutoff, so this is possible at any time. *)
Search(w) ==
    /\ pc[w] = "look"
    /\ Goto(w, "search")
    /\ UNCHANGED <<given, taken, index, previous, cutoff, replies, stopping, totals>>

Answer(w, r, place) ==
    /\ replies' = [replies EXCEPT ![index[w]] = r]
    /\ Goto(w, place)
    /\ UNCHANGED <<given, taken, index, previous, cutoff, stopping, totals>>

(* A visit notices that a reply before this one decides. *)
CancelledByReply(w) ==
    /\ pc[w] = "search" /\ index[w] > cutoff
    /\ Answer(w, Replied("Cancelled", 0), "take")

(* A visit notices the stop flag or the deadline. *)
Stopped(w, status) ==
    /\ pc[w] = "search" /\ stopping /\ status \in Aborts
    /\ Answer(w, Replied(status, 0), "take")

(* Mutant: every reply cuts off those after it. *)
FoundAlwaysCuts(w) ==
    /\ pc[w] = "search"
    /\ Answer(w, found[index[w]], "load cutoff")

Found(w) ==
    /\ pc[w] = "search"
    /\ Answer(w, found[index[w]],
              IF Decisive(attacking, found[index[w]].status) THEN "load cutoff" ELSE "take")

LoadCutoff(w) ==
    /\ pc[w] = "load cutoff"
    /\ previous' = [previous EXCEPT ![w] = cutoff]
    /\ Goto(w, "lower cutoff")
    /\ UNCHANGED <<given, taken, index, cutoff, replies, stopping, totals>>

(* Mutant: the loop compares with the old copy for ever. *)
LowerCutoffStale(w) ==
    /\ pc[w] = "lower cutoff"
    /\ \/ index[w] >= previous[w] /\ Goto(w, "take") /\ UNCHANGED cutoff
       \/ /\ index[w] < previous[w] /\ cutoff = previous[w]
          /\ cutoff' = index[w] /\ Goto(w, "take")
    /\ UNCHANGED <<given, taken, index, previous, replies, stopping, totals>>

(* compare_exchange_weak: it loads the value it finds when it fails, which it
   may do for no reason. *)
LowerCutoff(w) ==
    /\ pc[w] = "lower cutoff"
    /\ \/ index[w] >= previous[w] /\ Goto(w, "take") /\ UNCHANGED <<cutoff, previous>>
       \/ /\ index[w] < previous[w] /\ cutoff = previous[w]
          /\ cutoff' = index[w] /\ Goto(w, "take") /\ UNCHANGED previous
       \/ /\ index[w] < previous[w]
          /\ previous' = [previous EXCEPT ![w] = cutoff] /\ UNCHANGED <<cutoff, pc>>
    /\ UNCHANGED <<given, taken, index, replies, stopping, totals>>

(* stop, or the passing of time. *)
StopSearch ==
    /\ ~stopping /\ stopping' = TRUE
    /\ UNCHANGED <<given, taken, pc, index, previous, cutoff, replies, totals>>

-----------------------------------------------------------------------------
(* run has returned: the replies in their order. *)

(* Mutant: a shorter reply replaces a longer one. *)
AccumulatedShortest(i) ==
    LET r == replies[i]
    IN IF r.status \in Aborts THEN Result(r.status, NoReply, 0)
       ELSE IF Decisive(attacking, r.status) THEN Result(r.status, i, r.plies + 1)
       ELSE IF r.status = "Limit" THEN Result("Limit", i, 0)
       ELSE IF ~attacking /\ total.status = "Mate" THEN Result("Mate", i, r.plies + 1)
       ELSE total

Accumulated(i) ==
    LET r == replies[i]
    IN IF r.status \in Aborts THEN Result(r.status, NoReply, 0)
       ELSE IF Decisive(attacking, r.status) THEN Result(r.status, i, r.plies + 1)
       ELSE IF r.status = "Limit" THEN Result("Limit", i, 0)
       ELSE IF ~attacking /\ total.status = "Mate" /\ r.plies + 1 > total.plies
       THEN Result("Mate", i, r.plies + 1)
       ELSE total

AllOut == \A w \in Workers : pc[w] = "out"
Ended == total.status \in Aborts \/ Decisive(attacking, total.status) \/ added = count

AddReply ==
    /\ AllOut /\ ~Ended
    /\ total' = Accumulated(added) /\ added' = added + 1
    /\ UNCHANGED <<given, taken, pc, index, previous, cutoff, replies, stopping>>

WorkerStep(w) ==
    \/ Take(w) \/ Skip(w) \/ Search(w) \/ CancelledByReply(w) \/ Found(w)
    \/ \E status \in Aborts : Stopped(w, status)
    \/ LoadCutoff(w) \/ LowerCutoff(w)
VisitNext == (\E w \in Workers : WorkerStep(w)) \/ StopSearch \/ AddReply

VisitSpec == VisitInit /\ [][VisitNext]_visitVars
(* The pool runs every worker, a search ends, and a weak exchange does not fail
   for no reason for ever (such a failure changes nothing: it is a stutter). *)
FairVisitSpec == /\ VisitSpec /\ WF_visitVars(AddReply)
                 /\ \A w \in Workers : WF_visitVars(WorkerStep(w))

-----------------------------------------------------------------------------
(* Properties. *)

VisitTypeOK ==
    /\ attacking \in BOOLEAN /\ count \in 1 .. MaxMoves /\ found \in [Indices -> FoundType]
    /\ taken \in 0 .. count /\ cutoff \in 0 .. count
    /\ pc \in [Workers -> {"take", "look", "search", "load cutoff", "lower cutoff", "out"}]
    /\ index \in [Workers -> Indices] /\ previous \in [Workers -> 0 .. count]
    /\ replies \in [Indices -> ReplyType]
    /\ stopping \in BOOLEAN /\ added \in 0 .. count
    /\ total \in ResultType

Decides(i) == Decisive(attacking, found[i].status)
Limits(i) == found[i].status = "Limit"

(* No two workers have the same reply, and none leaves before all are taken. *)
InWork(w) == pc[w] \in {"look", "search", "load cutoff", "lower cutoff"}
Busy(i) == \E w \in Workers : pc[w] \in {"look", "search"} /\ index[w] = i
PoolInv ==
    /\ \A w \in Workers : /\ InWork(w) => index[w] < taken
                          /\ pc[w] = "out" => taken = count
    /\ \A w, u \in Workers : InWork(w) /\ InWork(u) /\ w # u => index[w] # index[u]

(* A slot that is not yet, or never, filled is being searched, or beyond cutoff. *)
RepliesInv ==
    \A i \in Indices : i < taken =>
        \/ Busy(i) \/ cutoff < i \/ replies[i] = found[i]
        \/ replies[i].status \in Aborts /\ stopping

(* cutoff is a reply that decides and whose search is over. *)
CutoffInv ==
    /\ cutoff < count => /\ cutoff < taken /\ Decides(cutoff) /\ ~Busy(cutoff)
                         /\ replies[cutoff] = found[cutoff]
    /\ \A w \in Workers : pc[w] \in {"load cutoff", "lower cutoff"} =>
           Decides(index[w]) /\ replies[index[w]] = found[index[w]]

(* What one thread would have after the first n replies: the reply that decides
   the position, the last that went out of depth, or the first of the longest. *)
DecidedBy(i, r) ==
    /\ Decides(i) /\ \A j \in 0 .. (i - 1) : ~Decides(j)
    /\ r = Result(found[i].status, i, found[i].plies + 1)
NoneDecides(n) == \A j \in 0 .. (n - 1) : ~Decides(j)
NoneLimits(n) == \A j \in 0 .. (n - 1) : ~Limits(j)
LastLimit(i, n, r) ==
    Limits(i) /\ r = Result("Limit", i, 0) /\ \A j \in (i + 1) .. (n - 1) : ~Limits(j)
FirstLongest(i, n, r) ==
    /\ \A j \in 0 .. (n - 1) : found[j].plies <= found[i].plies
    /\ \A j \in 0 .. (i - 1) : found[j].plies < found[i].plies
    /\ r = Result("Mate", i, found[i].plies + 1)
Undecided(n, r) ==
    /\ NoneDecides(n)
    /\ \/ \E i \in 0 .. (n - 1) : LastLimit(i, n, r)
       \/ NoneLimits(n) /\ (attacking \/ n = 0) /\ r = NoneAdded
       \/ NoneLimits(n) /\ ~attacking /\ \E i \in 0 .. (n - 1) : FirstLongest(i, n, r)
Prefix(n, r) == (\E i \in Indices : n = i + 1 /\ DecidedBy(i, r)) \/ Undecided(n, r)

SumInv ==
    /\ added > 0 => AllOut
    /\ total.status \in Aborts => stopping
    /\ total.status \notin Aborts =>
          Prefix(added, total) /\ (Decisive(attacking, total.status) \/ added <= cutoff)

(* The inductive invariant behind SameAsSequential. *)
ParallelInv == VisitTypeOK /\ PoolInv /\ RepliesInv /\ CutoffInv /\ SumInv

(* What one thread would find, reply by reply. *)
Sequential(r) == (\E i \in Indices : DecidedBy(i, r)) \/ Undecided(count, r)

Returned == AllOut /\ Ended

(* However the workers race, the result is the one a single thread would have
   found: same verdict, same move, same length; not the first to arrive. *)
SameAsSequential ==
    Returned /\ total.status \notin Aborts => Sequential(total)

(* Only a stop or the deadline interrupts the position: no reply cancelled on
   account of a better one, and no slot never filled, is ever taken for one. *)
OnlyStopsAbort ==
    Returned /\ total.status \in Aborts => stopping

(* cutoff only falls, and only to a reply that decides. *)
CutoffFalls == [][cutoff' # cutoff => cutoff' < cutoff /\ Decides(cutoff')]_visitVars

(* The workers leave the pool and the replies are summed up. *)
Returns == <>Returned
=============================================================================
