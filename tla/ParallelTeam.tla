---------------------------- MODULE ParallelTeam ----------------------------
(***************************************************************************)
(* ParallelTeam (src/parallel.h): a caller and its worker threads share    *)
(* the indices 0 .. count-1 of one run after another.                      *)
(*                                                                         *)
(* No critical section of mutex_ is left half done: each is one step, and  *)
(* so is the evaluation of a wait predicate with the blocking that follows *)
(* it, because the predicates read only variables written under the mutex. *)
(* next_ and failed_ are atomics used outside it.                          *)
(***************************************************************************)
EXTENDS Naturals, FiniteSets

CONSTANTS
    Workers,      \* the threads of threads_
    Caller,       \* the thread that owns the team
    Counts,       \* the counts it passes to run
    GenModulus    \* generation_ is a size_t: it wraps here

ASSUME TeamAssumption ==
    /\ IsFiniteSet(Workers) /\ Caller \notin Workers
    /\ Counts \subseteq Nat
    /\ GenModulus \in Nat /\ GenModulus >= 2

Threads == Workers \cup {Caller}

VARIABLES
    pc,           \* where each thread is
    index,        \* the index each thread took last
    seen,         \* the local generation of each worker
    generation, count, active, next, failed, exiting,
    error,        \* error_ is set
    (* What the caller sees, as in ParallelFor; read by no action. *)
    asked, done, thrown, outcome

teamVars == <<generation, count, active, exiting>>
seeVars  == <<asked, done, thrown, outcome>>
vars == <<pc, index, seen, teamVars, next, failed, error, seeVars>>

Goto(t, place) == pc' = [pc EXCEPT ![t] = place]

NextGeneration == IF generation + 1 = GenModulus THEN 0 ELSE generation + 1

Init ==
    /\ pc = [t \in Threads |-> IF t = Caller THEN "making" ELSE "absent"]
    /\ index = [t \in Threads |-> 0]
    /\ seen = [w \in Workers |-> 0]
    /\ generation = 0 /\ count = 0 /\ active = 0 /\ next = 0
    /\ failed = FALSE /\ exiting = FALSE /\ error = FALSE
    /\ asked = 0 /\ done = {} /\ thrown = {} /\ outcome = "none"

-----------------------------------------------------------------------------
(* The caller: the constructor, run and shutdown. *)

CreateWorker(w) ==
    /\ pc[Caller] = "making" /\ pc[w] = "absent"
    /\ Goto(w, "start")
    /\ UNCHANGED <<index, seen, teamVars, next, failed, error, seeVars>>

Constructed ==
    /\ pc[Caller] = "making" /\ \A w \in Workers : pc[w] # "absent"
    /\ Goto(Caller, "idle")
    /\ UNCHANGED <<index, seen, teamVars, next, failed, error, seeVars>>

(* std::thread throws: the threads made so far are shut down. *)
ConstructionFails ==
    /\ pc[Caller] = "making" /\ \E w \in Workers : pc[w] = "absent"
    /\ exiting' = TRUE
    /\ Goto(Caller, "notifyExit")
    /\ UNCHANGED <<index, seen, generation, count, active, next, failed, error, seeVars>>

Alone(n) == n <= 1 \/ Workers = {}

(* Without helpers the loop of run starts here: the caller alone counts. *)
RunAlone(n) ==
    /\ pc[Caller] = "idle" /\ Alone(n)
    /\ index' = [index EXCEPT ![Caller] = 0]
    /\ asked' = n /\ done' = {} /\ thrown' = {} /\ outcome' = "none"
    /\ Goto(Caller, "alone")
    /\ UNCHANGED <<seen, teamVars, next, failed, error>>

(* Mutant: an exception does not end the loop of the caller alone. *)
TaskAloneGoesOn ==
    /\ pc[Caller] = "alone" /\ index[Caller] < asked
    /\ \/ done' = done \cup {index[Caller]} /\ UNCHANGED thrown
       \/ thrown' = thrown \cup {index[Caller]} /\ UNCHANGED done
    /\ index' = [index EXCEPT ![Caller] = @ + 1]
    /\ UNCHANGED <<pc, seen, teamVars, next, failed, error, asked, outcome>>

TaskAlone ==
    /\ pc[Caller] = "alone" /\ index[Caller] < asked
    /\ \/ /\ done' = done \cup {index[Caller]}
          /\ index' = [index EXCEPT ![Caller] = @ + 1]
          /\ UNCHANGED <<pc, thrown, outcome>>
       \/ /\ thrown' = thrown \cup {index[Caller]}
          /\ Goto(Caller, "alone threw")
          /\ UNCHANGED <<index, done, outcome>>
    /\ UNCHANGED <<seen, teamVars, next, failed, error, asked>>

ReturnAlone ==
    /\ \/ pc[Caller] = "alone" /\ index[Caller] >= asked /\ outcome' = "returned"
       \/ pc[Caller] = "alone threw" /\ outcome' = "threw"
    /\ Goto(Caller, "idle")
    /\ UNCHANGED <<index, seen, teamVars, next, failed, error, asked, done, thrown>>

Publish(n) ==
    /\ pc[Caller] = "idle" /\ ~Alone(n)
    /\ count' = n /\ next' = 0 /\ failed' = FALSE /\ error' = FALSE
    /\ active' = Cardinality(Workers)
    /\ generation' = NextGeneration
    /\ asked' = n /\ done' = {} /\ thrown' = {} /\ outcome' = "none"
    /\ Goto(Caller, "notify")
    /\ UNCHANGED <<index, seen, exiting>>

(* Mutant: notify_one. *)
NotifyOne ==
    /\ pc[Caller] \in {"notify", "notifyExit"}
    /\ LET place == IF pc[Caller] = "notify" THEN "check" ELSE "join"
       IN IF \E w \in Workers : pc[w] = "waiting"
          THEN \E w \in Workers : /\ pc[w] = "waiting"
                                 /\ pc' = [pc EXCEPT ![w] = "start", ![Caller] = place]
          ELSE Goto(Caller, place)
    /\ UNCHANGED <<index, seen, teamVars, next, failed, error, seeVars>>

(* start_.notify_all, by run or by shutdown. *)
NotifyStart ==
    /\ pc[Caller] \in {"notify", "notifyExit"}
    /\ pc' = [t \in Threads |->
                IF t = Caller THEN IF pc[t] = "notify" THEN "check" ELSE "join"
                ELSE IF pc[t] = "waiting" THEN "start" ELSE pc[t]]
    /\ UNCHANGED <<index, seen, teamVars, next, failed, error, seeVars>>

(* The end of run: done_.wait, and error_ handed over to the caller. *)
WaitDone ==
    /\ pc[Caller] = "leave" /\ active # 0
    /\ Goto(Caller, "waitDone")
    /\ UNCHANGED <<index, seen, teamVars, next, failed, error, seeVars>>

(* Mutants: the wait ends one worker early; error_ is copied, not taken. *)
FinishEarly ==
    /\ pc[Caller] = "leave" /\ active <= 1
    /\ outcome' = IF error THEN "threw" ELSE "returned"
    /\ error' = FALSE
    /\ Goto(Caller, "idle")
    /\ UNCHANGED <<index, seen, teamVars, next, failed, asked, done, thrown>>

FinishKeepsError ==
    /\ pc[Caller] = "leave" /\ active = 0
    /\ outcome' = IF error THEN "threw" ELSE "returned"
    /\ Goto(Caller, "idle")
    /\ UNCHANGED <<index, seen, teamVars, next, failed, error, asked, done, thrown>>

Finish ==
    /\ pc[Caller] = "leave" /\ active = 0
    /\ outcome' = IF error THEN "threw" ELSE "returned"
    /\ error' = FALSE
    /\ Goto(Caller, "idle")
    /\ UNCHANGED <<index, seen, teamVars, next, failed, asked, done, thrown>>

Shutdown ==
    /\ pc[Caller] = "idle"
    /\ exiting' = TRUE
    /\ Goto(Caller, "notifyExit")
    /\ UNCHANGED <<index, seen, generation, count, active, next, failed, error, seeVars>>

Join ==
    /\ pc[Caller] = "join" /\ \A w \in Workers : pc[w] \in {"absent", "exited"}
    /\ Goto(Caller, "gone")
    /\ UNCHANGED <<index, seen, teamVars, next, failed, error, seeVars>>

-----------------------------------------------------------------------------
(* execute, by the caller and by every worker. *)

(* failed_ is read relaxed: TRUE may be seen late, so going on is always
   possible.  A stale TRUE is not: run resets it under the mutex. *)
CheckFailed(t) ==
    /\ pc[t] = "check"
    /\ Goto(t, "take") \/ (failed /\ Goto(t, "leave"))
    /\ UNCHANGED <<index, seen, teamVars, next, failed, error, seeVars>>

(* Mutant: off by one. *)
TakeLeavesLast(t) ==
    /\ pc[t] = "take"
    /\ index' = [index EXCEPT ![t] = next]
    /\ next' = next + 1
    /\ Goto(t, IF next + 1 >= count THEN "leave" ELSE "task")
    /\ UNCHANGED <<seen, teamVars, failed, error, seeVars>>

Take(t) ==
    /\ pc[t] = "take"
    /\ index' = [index EXCEPT ![t] = next]
    /\ next' = next + 1
    /\ Goto(t, IF next >= count THEN "leave" ELSE "task")
    /\ UNCHANGED <<seen, teamVars, failed, error, seeVars>>

TaskReturns(t) ==
    /\ pc[t] = "task"
    /\ done' = done \cup {index[t]}
    /\ Goto(t, "check")
    /\ UNCHANGED <<index, seen, teamVars, next, failed, error, asked, thrown, outcome>>

TaskThrows(t) ==
    /\ pc[t] = "task"
    /\ thrown' = thrown \cup {index[t]}
    /\ Goto(t, "throw")
    /\ UNCHANGED <<index, seen, teamVars, next, failed, error, asked, done, outcome>>

StoreFailed(t) ==
    /\ pc[t] = "throw"
    /\ failed' = TRUE
    /\ Goto(t, "record")
    /\ UNCHANGED <<index, seen, teamVars, next, error, seeVars>>

RecordError(t) ==
    /\ pc[t] = "record"
    /\ error' = TRUE
    /\ Goto(t, "leave")
    /\ UNCHANGED <<index, seen, teamVars, next, failed, seeVars>>

-----------------------------------------------------------------------------
(* worker_loop *)

WaitStart(w) ==
    /\ pc[w] = "start" /\ ~exiting /\ generation = seen[w]
    /\ Goto(w, "waiting")
    /\ UNCHANGED <<index, seen, teamVars, next, failed, error, seeVars>>

ExitLoop(w) ==
    /\ pc[w] = "start" /\ exiting
    /\ Goto(w, "exited")
    /\ UNCHANGED <<index, seen, teamVars, next, failed, error, seeVars>>

Enter(w) ==
    /\ pc[w] = "start" /\ ~exiting /\ generation # seen[w]
    /\ seen' = [seen EXCEPT ![w] = generation]
    /\ Goto(w, "check")
    /\ UNCHANGED <<index, teamVars, next, failed, error, seeVars>>

(* Only the last worker notifies done_. *)
Leave(w) ==
    /\ pc[w] = "leave"
    /\ active' = active - 1
    /\ pc' = [pc EXCEPT ![w] = "start",
                        ![Caller] = IF active = 1 /\ @ = "waitDone" THEN "leave" ELSE @]
    /\ UNCHANGED <<index, seen, generation, count, exiting, next, failed, error, seeVars>>

SpuriousWakeup(t) ==
    /\ pc[t] \in {"waiting", "waitDone"}
    /\ Goto(t, IF t = Caller THEN "leave" ELSE "start")
    /\ UNCHANGED <<index, seen, teamVars, next, failed, error, seeVars>>

-----------------------------------------------------------------------------
Execute(t) == \/ CheckFailed(t) \/ Take(t) \/ TaskReturns(t) \/ TaskThrows(t)
              \/ StoreFailed(t) \/ RecordError(t)

CallerStep == \/ Constructed \/ ConstructionFails
              \/ TaskAlone \/ ReturnAlone \/ NotifyStart
              \/ WaitDone \/ Finish \/ Join

WorkerStep(w) == WaitStart(w) \/ ExitLoop(w) \/ Enter(w) \/ Leave(w)

(* What nothing obliges the caller to do. *)
CallerMay == \/ \E w \in Workers : CreateWorker(w)
             \/ \E n \in Counts : RunAlone(n) \/ Publish(n)
             \/ Shutdown

Finished == pc[Caller] = "gone" /\ UNCHANGED vars

Next == \/ CallerMay \/ CallerStep
        \/ \E w \in Workers : WorkerStep(w)
        \/ \E t \in Threads : Execute(t) \/ SpuriousWakeup(t)
        \/ Finished

(* Every thread that can run does, and tasks end; threads are created. *)
Fairness ==
    /\ WF_vars(CallerStep \/ Execute(Caller) \/ \E w \in Workers : CreateWorker(w))
    /\ \A w \in Workers : WF_vars(WorkerStep(w) \/ Execute(w))

Spec == Init /\ [][Next]_vars
FairSpec == Spec /\ Fairness

-----------------------------------------------------------------------------
(* Properties. *)

CallerPlaces == {"making", "idle", "alone", "alone threw", "notify", "check", "take",
                 "task", "throw", "record", "leave", "waitDone", "notifyExit",
                 "join", "gone"}
WorkerPlaces == {"absent", "start", "waiting", "check", "take", "task", "throw",
                 "record", "leave", "exited"}
Executing    == {"check", "take", "task", "throw", "record", "leave"}

(* Every variable keeps its type. *)
TypeOK ==
    /\ pc \in [Threads -> CallerPlaces \cup WorkerPlaces]
    /\ pc[Caller] \in CallerPlaces
    /\ \A w \in Workers : pc[w] \in WorkerPlaces
    /\ index \in [Threads -> Nat]
    /\ seen \in [Workers -> 0 .. (GenModulus - 1)]
    /\ generation \in 0 .. (GenModulus - 1)
    /\ count \in Nat /\ active \in Nat /\ next \in Nat /\ asked \in Nat
    /\ failed \in BOOLEAN /\ exiting \in BOOLEAN /\ error \in BOOLEAN
    /\ done \subseteq Nat /\ thrown \subseteq Nat
    /\ outcome \in {"none", "returned", "threw"}

(* No index is given to two threads, or to one thread after another. *)
TakenOnce ==
    \A t \in Threads : pc[t] = "task" =>
        /\ index[t] \in 0 .. (asked - 1)
        /\ index[t] \notin done \cup thrown
        /\ \A u \in Threads \ {t} : pc[u] = "task" => index[u] # index[t]

(* When run returns, the task ran for every index. *)
ReturnMeansAllDone == outcome = "returned" => done = 0 .. (asked - 1)

(* An exception of any thread reaches the caller, and only then does run throw:
   error_ is never lost, and never left over for a later run. *)
ErrorReachesCaller ==
    pc[Caller] = "idle" => /\ ~error
                           /\ outcome # "none" => (outcome = "threw") = (thrown # {})

(* Outside run no worker is between wait and --active_: none can still be using
   task_, or what its lambda captured by reference from the caller's frame. *)
QuietOutsideRun ==
    pc[Caller] \in {"idle", "alone", "notifyExit", "join", "gone"} =>
        \A w \in Workers : pc[w] \notin Executing

(* Each worker enters each run once: none sleeps through a generation, not even
   when generation_ wraps, and active_ counts exactly those still to leave. *)
Owing == {w \in Workers : pc[w] \in Executing \/ seen[w] # generation}
ActiveCountsWorkers == active = Cardinality(Owing)

(* The code implements the parallel loop its callers rely on. *)
Phase == CASE pc[Caller] \in {"making", "idle"}             -> pc[Caller]
           [] pc[Caller] \in {"notifyExit", "join", "gone"} -> "gone"
           [] OTHER                                          -> "running"
PF == INSTANCE ParallelFor WITH phase <- Phase
ImplementsParallelFor == PF!Spec

(* run returns if its tasks do, and so does the destructor: no notification is
   lost on either condition variable. *)
CallsReturn ==
    /\ pc[Caller] \in {"notify", "alone"} ~> pc[Caller] = "idle"
    /\ pc[Caller] = "notifyExit" ~> pc[Caller] = "gone"

-----------------------------------------------------------------------------
(* The inductive invariant behind the theorems of ParallelTeamProofs. *)

InRun == pc[Caller] \in {"notify", "check", "take", "task", "throw", "record",
                         "leave", "waitDone"}

(* A worker executes in the generation it has seen, and only during a run. *)
WorkersInv ==
    /\ ActiveCountsWorkers
    /\ \A w \in Workers : pc[w] \in Executing => seen[w] = generation
    /\ ~InRun => active = 0
    /\ InRun => asked = count

(* Every index below next_ is done, thrown, or in the hands of one thread. *)
IndicesInv ==
    /\ TakenOnce
    /\ \A t \in Threads : pc[t] = "task" => index[t] < next
    /\ InRun => /\ \A i \in done \cup thrown : i < next /\ i < count
                /\ \A i \in 0 .. (count - 1) :
                       i < next => \/ i \in done \cup thrown
                                   \/ \E t \in Threads : pc[t] = "task" /\ index[t] = i

(* error_ follows an exception; the caller leaves execute for a reason. *)
ErrorInv ==
    /\ ~InRun => ~error
    /\ InRun => /\ error \/ failed => thrown # {}
                /\ thrown # {} => \/ error
                                  \/ \E t \in Threads : pc[t] \in {"throw", "record"}
    /\ \A t \in Threads : pc[t] \in {"throw", "record"} => thrown # {}
    /\ \A t \in Threads : pc[t] = "record" => failed
    /\ pc[Caller] \in {"leave", "waitDone"} => failed \/ next >= count

(* The caller's own loop, and what it was told at the end of a run. *)
OutcomeInv ==
    /\ pc[Caller] \in {"alone", "alone threw"} \/ InRun => outcome = "none"
    /\ pc[Caller] = "alone" => /\ index[Caller] <= asked /\ thrown = {}
                               /\ done = 0 .. (index[Caller] - 1)
    /\ pc[Caller] = "alone threw" => thrown # {}
    /\ outcome = "returned" => thrown = {} /\ done = 0 .. (asked - 1)
    /\ outcome = "threw" => thrown # {}

IInv == TypeOK /\ WorkersInv /\ IndicesInv /\ ErrorInv /\ OutcomeInv
=============================================================================
