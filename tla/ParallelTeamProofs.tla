------------------------ MODULE ParallelTeamProofs -------------------------
(* TLAPS proofs about ParallelTeam, for every set of workers, every set of  *)
(* counts and every width of the generation counter.                        *)
EXTENDS ParallelTeam, FiniteSetTheorems, TLAPS

-----------------------------------------------------------------------------
(* What the parts of the invariant say of each other. *)

(* active_ = 0 means that every worker has been through the last run. *)
LEMMA Quiet ==
    ASSUME IInv, active = 0
    PROVE  \A w \in Workers : pc[w] \notin Executing /\ seen[w] = generation
<1>1. IsFiniteSet(Owing)
  BY TeamAssumption, FS_Subset DEF Owing
<1>2. Owing = {}
  BY <1>1, FS_EmptySet DEF IInv, WorkersInv, ActiveCountsWorkers
<1> QED BY <1>2 DEF Owing

(* Outside run, no thread is in a task. *)
LEMMA NoTaskOutsideRun ==
    ASSUME IInv, ~InRun
    PROVE  \A t \in Threads : pc[t] \notin Executing
BY Quiet DEF IInv, WorkersInv, TypeOK, Threads, Executing, InRun

(* With no thread in a task and no run, nothing is claimed of the indices. *)
LEMMA IndicesOutsideRun ==
    ASSUME ~InRun', \A t \in Threads : pc'[t] # "task"
    PROVE  IndicesInv'
BY DEF IndicesInv, TakenOnce

(* A step that moves no thread into or out of a task keeps the indices. *)
LEMMA IndicesKept ==
    ASSUME IndicesInv,
           UNCHANGED <<index, next, count, asked, done, thrown>>,
           \A t \in Threads : (pc'[t] = "task") = (pc[t] = "task"),
           InRun' => InRun
    PROVE  IndicesInv'
<1>1. TakenOnce'
  BY DEF IndicesInv, TakenOnce
<1>2. \A t \in Threads : pc'[t] = "task" => index'[t] < next'
  BY DEF IndicesInv
<1>3. ASSUME InRun', NEW i \in 0 .. (count' - 1), i < next', i \notin (done \cup thrown)'
      PROVE  \E t \in Threads : pc'[t] = "task" /\ index'[t] = i
  <2>1. PICK t \in Threads : pc[t] = "task" /\ index[t] = i
    BY <1>3 DEF IndicesInv
  <2> QED BY <2>1
<1>4. InRun' => \A i \in (done \cup thrown)' : i < next' /\ i < count'
  BY DEF IndicesInv
<1> QED BY <1>1, <1>2, <1>3, <1>4 DEF IndicesInv

(* A worker in a task, or about to be, has a caller that waits for it. *)
LEMMA ExecutingInRun ==
    ASSUME IInv, NEW t \in Threads, pc[t] \in Executing
    PROVE  InRun
BY NoTaskOutsideRun

(* A step of one thread t that may take or finish an index. *)
LEMMA IndicesFrame ==
    ASSUME IInv, InRun, InRun', NEW t \in Threads,
           \A u \in Threads \ {t} : pc'[u] = pc[u] /\ index'[u] = index[u],
           next <= next', next' \in Nat, UNCHANGED <<asked, count>>,
           (done \cup thrown) \subseteq (done \cup thrown)',
           \A i \in (done \cup thrown)' : i < next' /\ i < count,
           \A u \in Threads \ {t} : pc[u] = "task" => index[u] \notin (done \cup thrown)',
           pc'[t] = "task" => /\ index'[t] \in 0 .. (asked - 1) /\ index'[t] < next'
                              /\ index'[t] \notin (done \cup thrown)'
                              /\ \A u \in Threads \ {t} : pc[u] = "task" => index[u] # index'[t],
           \A i \in 0 .. (count - 1) :
              (i < next' /\ (next <= i \/ (pc[t] = "task" /\ index[t] = i))) =>
                  i \in (done \cup thrown)' \/ (pc'[t] = "task" /\ index'[t] = i)
    PROVE  IndicesInv'
<1> USE DEF IInv
<1>1. TakenOnce'
  BY DEF IndicesInv, TakenOnce
<1>2. \A u \in Threads : pc'[u] = "task" => index'[u] < next'
  <2>1. ASSUME NEW u \in Threads \ {t}, pc'[u] = "task" PROVE index'[u] < next'
    <3>1. index[u] \in Nat /\ index[u] < next /\ next \in Nat
      BY <2>1 DEF TypeOK, IndicesInv
    <3> QED BY <2>1, <3>1
  <2> QED BY <2>1
<1>3. ASSUME NEW i \in 0 .. (count - 1), i < next', i \notin (done \cup thrown)'
      PROVE  \E u \in Threads : pc'[u] = "task" /\ index'[u] = i
  <2>1. CASE next <= i \/ (pc[t] = "task" /\ index[t] = i)
    BY <1>3, <2>1
  <2>2. CASE i < next /\ ~(pc[t] = "task" /\ index[t] = i)
    <3>1. PICK u \in Threads : pc[u] = "task" /\ index[u] = i
      BY <1>3, <2>2 DEF IndicesInv
    <3> QED BY <2>2, <3>1
  <2>3. i \in Nat /\ next \in Nat
    BY DEF TypeOK
  <2> QED BY <2>1, <2>2, <2>3
<1> QED BY <1>1, <1>2, <1>3 DEF IndicesInv

-----------------------------------------------------------------------------
(* One lemma per action: the caller outside a run. *)

LEMMA CreateWorkerStep == ASSUME IInv, NEW w \in Workers, CreateWorker(w) PROVE IInv'
<1> USE TeamAssumption DEF IInv, TypeOK, CreateWorker, Goto, teamVars, seeVars
<1>1. TypeOK'
  BY DEF Threads, CallerPlaces, WorkerPlaces
<1>2. WorkersInv'
  BY <1>1 DEF WorkersInv, ActiveCountsWorkers, Owing, Threads, Executing, InRun, CallerPlaces, WorkerPlaces
<1>3. IndicesInv'
  BY IndicesKept DEF InRun, Threads, CallerPlaces, WorkerPlaces
<1>4. ErrorInv'
  BY <1>1 DEF WorkersInv, ErrorInv, Threads, InRun
<1>5. OutcomeInv'
  BY <1>1 DEF WorkersInv, OutcomeInv, Threads, InRun
<1> QED BY <1>1, <1>2, <1>3, <1>4, <1>5

LEMMA ConstructedStep == ASSUME IInv, Constructed PROVE IInv'
<1> USE TeamAssumption DEF IInv, TypeOK, Constructed, Goto, teamVars, seeVars
<1>1. TypeOK'
  BY DEF Threads, CallerPlaces, WorkerPlaces
<1>2. WorkersInv'
  BY <1>1 DEF WorkersInv, ActiveCountsWorkers, Owing, Threads, Executing, InRun, CallerPlaces, WorkerPlaces
<1>3. IndicesInv'
  BY NoTaskOutsideRun, IndicesOutsideRun DEF InRun, Threads, Executing
<1>4. ErrorInv'
  BY <1>1 DEF WorkersInv, ErrorInv, Threads, InRun
<1>5. OutcomeInv'
  BY <1>1 DEF WorkersInv, OutcomeInv, Threads, InRun
<1> QED BY <1>1, <1>2, <1>3, <1>4, <1>5

LEMMA ConstructionFailsStep == ASSUME IInv, ConstructionFails PROVE IInv'
<1> USE TeamAssumption DEF IInv, TypeOK, ConstructionFails, Goto, teamVars, seeVars
<1>1. TypeOK'
  BY DEF Threads, CallerPlaces, WorkerPlaces
<1>2. WorkersInv'
  BY <1>1 DEF WorkersInv, ActiveCountsWorkers, Owing, Threads, Executing, InRun, CallerPlaces, WorkerPlaces
<1>3. IndicesInv'
  BY NoTaskOutsideRun, IndicesOutsideRun DEF InRun, Threads, Executing
<1>4. ErrorInv'
  BY <1>1 DEF WorkersInv, ErrorInv, Threads, InRun
<1>5. OutcomeInv'
  BY <1>1 DEF WorkersInv, OutcomeInv, Threads, InRun
<1> QED BY <1>1, <1>2, <1>3, <1>4, <1>5

LEMMA ShutdownStep == ASSUME IInv, Shutdown PROVE IInv'
<1> USE TeamAssumption DEF IInv, TypeOK, Shutdown, Goto, teamVars, seeVars
<1>1. TypeOK'
  BY DEF Threads, CallerPlaces, WorkerPlaces
<1>2. WorkersInv'
  BY <1>1 DEF WorkersInv, ActiveCountsWorkers, Owing, Threads, Executing, InRun, CallerPlaces, WorkerPlaces
<1>3. IndicesInv'
  BY NoTaskOutsideRun, IndicesOutsideRun DEF InRun, Threads, Executing
<1>4. ErrorInv'
  BY <1>1 DEF WorkersInv, ErrorInv, Threads, InRun
<1>5. OutcomeInv'
  BY <1>1 DEF WorkersInv, OutcomeInv, Threads, InRun
<1> QED BY <1>1, <1>2, <1>3, <1>4, <1>5

LEMMA JoinStep == ASSUME IInv, Join PROVE IInv'
<1> USE TeamAssumption DEF IInv, TypeOK, Join, Goto, teamVars, seeVars
<1>1. TypeOK'
  BY DEF Threads, CallerPlaces, WorkerPlaces
<1>2. WorkersInv'
  BY <1>1 DEF WorkersInv, ActiveCountsWorkers, Owing, Threads, Executing, InRun, CallerPlaces, WorkerPlaces
<1>3. IndicesInv'
  BY NoTaskOutsideRun, IndicesOutsideRun DEF InRun, Threads, Executing
<1>4. ErrorInv'
  BY <1>1 DEF WorkersInv, ErrorInv, Threads, InRun
<1>5. OutcomeInv'
  BY <1>1 DEF WorkersInv, OutcomeInv, Threads, InRun
<1> QED BY <1>1, <1>2, <1>3, <1>4, <1>5

LEMMA RunAloneStep == ASSUME IInv, NEW n \in Counts, RunAlone(n) PROVE IInv'
<1>1. /\ index'[Caller] = 0 /\ asked' \in Nat /\ done' = {} /\ thrown' = {}
      /\ outcome' = "none" /\ pc'[Caller] = "alone"
      /\ \A w \in Workers : pc'[w] = pc[w]
      /\ pc' \in [Threads -> CallerPlaces \cup WorkerPlaces] /\ index' \in [Threads -> Nat]
  BY TeamAssumption DEF IInv, TypeOK, RunAlone, Threads, Goto, CallerPlaces
<1>2. TypeOK'
  BY <1>1 DEF IInv, TypeOK, RunAlone, teamVars, CallerPlaces
<1>3. ~InRun /\ ~InRun'
  BY <1>1 DEF RunAlone, InRun
<1>4. WorkersInv'
  BY <1>1, <1>3 DEF IInv, WorkersInv, ActiveCountsWorkers, Owing, RunAlone, teamVars
<1>5. IndicesInv'
  BY <1>1, <1>3, NoTaskOutsideRun, IndicesOutsideRun DEF Threads, Executing
<1>6. ErrorInv'
  BY <1>1, <1>3, NoTaskOutsideRun DEF IInv, ErrorInv, RunAlone, Threads, Executing
<1>7. OutcomeInv'
  BY <1>1, <1>3 DEF OutcomeInv
<1> QED BY <1>2, <1>4, <1>5, <1>6, <1>7 DEF IInv

LEMMA TaskAloneStep == ASSUME IInv, TaskAlone PROVE IInv'
<1>1. /\ pc[Caller] = "alone" /\ index[Caller] \in Nat /\ asked \in Nat
      /\ done = 0 .. (index[Caller] - 1) /\ thrown = {} /\ outcome = "none"
      /\ index[Caller] < asked
  BY DEF IInv, TypeOK, OutcomeInv, TaskAlone, Threads
<1>2. /\ pc'[Caller] \in {"alone", "alone threw"}
      /\ \A w \in Workers : pc'[w] = pc[w]
  BY <1>1, TeamAssumption DEF IInv, TypeOK, TaskAlone, Goto, Threads
<1>3. ~InRun /\ ~InRun'
  BY <1>1, <1>2 DEF InRun
<1>4. TypeOK' /\ OutcomeInv'
  <2>1. CASE /\ done' = done \cup {index[Caller]} /\ index' = [index EXCEPT ![Caller] = @ + 1]
             /\ UNCHANGED <<pc, thrown, outcome>>
    <3>1. index'[Caller] = index[Caller] + 1 /\ index' \in [Threads -> Nat]
      BY <1>1, <2>1 DEF IInv, TypeOK, Threads
    <3>2. done' = 0 .. (index'[Caller] - 1)
      BY <1>1, <2>1, <3>1
    <3>3. done' \subseteq Nat /\ index'[Caller] <= asked
      BY <1>1, <3>1, <3>2
    <3>4. TypeOK'
      BY <2>1, <3>1, <3>3 DEF IInv, TypeOK, TaskAlone, teamVars
    <3>5. OutcomeInv'
      BY <1>1, <2>1, <3>2, <3>3 DEF OutcomeInv, InRun, TaskAlone
    <3> QED BY <3>4, <3>5
  <2>2. CASE /\ thrown' = thrown \cup {index[Caller]} /\ Goto(Caller, "alone threw")
             /\ UNCHANGED <<index, done, outcome>>
    <3>1. TypeOK'
      BY <1>1, <2>2, TeamAssumption
         DEF IInv, TypeOK, TaskAlone, teamVars, Goto, Threads, CallerPlaces, WorkerPlaces
    <3>2. pc'[Caller] = "alone threw" /\ thrown' # {} /\ outcome' = "none"
      BY <1>1, <2>2 DEF IInv, TypeOK, Goto, Threads
    <3> QED BY <3>1, <3>2 DEF OutcomeInv, InRun
  <2> QED BY <2>1, <2>2 DEF TaskAlone
<1>5. WorkersInv'
  BY <1>2, <1>3 DEF IInv, WorkersInv, ActiveCountsWorkers, Owing, TaskAlone, teamVars
<1>6. IndicesInv'
  BY <1>2, <1>3, NoTaskOutsideRun, IndicesOutsideRun DEF Threads, Executing
<1>7. ErrorInv'
  BY <1>2, <1>3, NoTaskOutsideRun DEF IInv, ErrorInv, TaskAlone, Threads, Executing
<1> QED BY <1>4, <1>5, <1>6, <1>7 DEF IInv

LEMMA ReturnAloneStep == ASSUME IInv, ReturnAlone PROVE IInv'
<1> USE TeamAssumption DEF IInv, TypeOK, ReturnAlone, Goto, teamVars, seeVars
<1>1. TypeOK'
  BY DEF Threads, CallerPlaces, WorkerPlaces
<1>2. WorkersInv'
  BY <1>1 DEF WorkersInv, ActiveCountsWorkers, Owing, Threads, Executing, InRun, CallerPlaces, WorkerPlaces
<1>3. IndicesInv'
  BY NoTaskOutsideRun, IndicesOutsideRun DEF InRun, Threads, Executing
<1>4. ErrorInv'
  BY <1>1 DEF WorkersInv, ErrorInv, Threads, InRun
<1>5. OutcomeInv'
  <2>1. pc'[Caller] = "idle" /\ UNCHANGED <<thrown, done, asked>>
    BY DEF Threads
  <2>2. CASE pc[Caller] = "alone" /\ index[Caller] >= asked /\ outcome' = "returned"
    <3>1. index[Caller] = asked /\ thrown = {} /\ done = 0 .. (asked - 1)
      BY <2>2 DEF OutcomeInv, Threads
    <3> QED BY <2>1, <2>2, <3>1 DEF OutcomeInv, InRun
  <2>3. CASE pc[Caller] = "alone threw" /\ outcome' = "threw"
    BY <2>1, <2>3 DEF OutcomeInv, InRun
  <2> QED BY <2>2, <2>3
<1> QED BY <1>1, <1>2, <1>3, <1>4, <1>5

-----------------------------------------------------------------------------
(* The caller inside a run. *)

LEMMA PublishStep == ASSUME IInv, NEW n \in Counts, Publish(n) PROVE IInv'
<1>1. /\ active' = Cardinality(Workers) /\ active' \in Nat
      /\ n \in Nat /\ asked' = n /\ count' = n
  BY TeamAssumption, FS_CardinalityType DEF Publish
<1>2. generation' \in 0 .. (GenModulus - 1) /\ generation' # generation
  BY TeamAssumption DEF IInv, TypeOK, Publish, NextGeneration
<1>3. pc'[Caller] = "notify" /\ \A w \in Workers : pc'[w] = pc[w]
  BY TeamAssumption DEF IInv, TypeOK, Publish, Goto, Threads
<1>4. \A t \in Threads : pc'[t] \notin Executing
  BY <1>3, NoTaskOutsideRun DEF Publish, InRun, Executing, Threads
<1>5. pc' \in [Threads -> CallerPlaces \cup WorkerPlaces]
  BY DEF IInv, TypeOK, Publish, Goto, CallerPlaces
<1>6. TypeOK'
  BY <1>1, <1>2, <1>3, <1>5 DEF IInv, TypeOK, Publish, CallerPlaces
<1>7. WorkersInv'
  <2>1. active = 0
    BY DEF IInv, WorkersInv, Publish, InRun
  <2>2. Owing' = Workers
    BY <1>2, <2>1, Quiet DEF Owing, Publish
  <2> QED BY <1>1, <1>3, <1>4, <2>2 DEF WorkersInv, ActiveCountsWorkers, InRun, Threads
<1>8. IndicesInv'
  BY <1>1, <1>4 DEF IndicesInv, TakenOnce, Publish, Executing
<1>9. ErrorInv'
  BY <1>3, <1>4 DEF ErrorInv, Publish, InRun, Executing
<1>10. OutcomeInv'
  BY <1>3 DEF OutcomeInv, Publish, InRun
<1> QED BY <1>6, <1>7, <1>8, <1>9, <1>10 DEF IInv

LEMMA NotifyStartStep == ASSUME IInv, NotifyStart PROVE IInv'
<1> USE TeamAssumption DEF IInv, TypeOK, NotifyStart, Goto, teamVars, seeVars
<1>1. TypeOK'
  BY DEF Threads, CallerPlaces, WorkerPlaces
<1>2. WorkersInv'
  BY <1>1 DEF WorkersInv, ActiveCountsWorkers, Owing, Threads, Executing, InRun, CallerPlaces, WorkerPlaces
<1>3. IndicesInv'
  BY IndicesKept DEF InRun, Threads, CallerPlaces, WorkerPlaces
<1>4. ErrorInv'
  BY <1>1 DEF WorkersInv, ErrorInv, Threads, InRun
<1>5. OutcomeInv'
  BY <1>1 DEF WorkersInv, OutcomeInv, Threads, InRun
<1> QED BY <1>1, <1>2, <1>3, <1>4, <1>5

LEMMA WaitDoneStep == ASSUME IInv, WaitDone PROVE IInv'
<1> USE TeamAssumption DEF IInv, TypeOK, WaitDone, Goto, teamVars, seeVars
<1>1. TypeOK'
  BY DEF Threads, CallerPlaces, WorkerPlaces
<1>2. WorkersInv'
  BY <1>1 DEF WorkersInv, ActiveCountsWorkers, Owing, Threads, Executing, InRun, CallerPlaces, WorkerPlaces
<1>3. IndicesInv'
  BY IndicesKept DEF InRun, Threads, CallerPlaces, WorkerPlaces
<1>4. ErrorInv'
  BY <1>1 DEF WorkersInv, ErrorInv, Threads, InRun
<1>5. OutcomeInv'
  BY <1>1 DEF WorkersInv, OutcomeInv, Threads, InRun
<1> QED BY <1>1, <1>2, <1>3, <1>4, <1>5

LEMMA FinishStep == ASSUME IInv, Finish PROVE IInv'
<1> USE TeamAssumption DEF IInv, TypeOK, Finish, Goto, teamVars, seeVars
<1>1. TypeOK'
  BY DEF Threads, CallerPlaces, WorkerPlaces
<1>2. WorkersInv'
  BY <1>1 DEF WorkersInv, ActiveCountsWorkers, Owing, Threads, Executing, InRun, CallerPlaces, WorkerPlaces
<1>3. IndicesInv'
  BY Quiet, IndicesOutsideRun DEF Threads, InRun, Executing
<1>4. ErrorInv'
  BY <1>1 DEF WorkersInv, ErrorInv, Threads, InRun
<1>5. OutcomeInv'
  <2>1. pc'[Caller] = "idle" /\ UNCHANGED <<thrown, done, asked>>
    BY DEF Threads
  <2>2. \A t \in Threads : pc[t] \notin {"task", "throw", "record"}
    BY Quiet DEF Threads, Executing
  <2>3. InRun /\ asked = count /\ count \in Nat /\ next \in Nat
    BY DEF InRun, WorkersInv
  <2>4. error => thrown # {}
    BY <2>3 DEF ErrorInv
  <2>5. ASSUME ~error PROVE thrown = {} /\ done = 0 .. (asked - 1)
    <3>1. thrown = {} /\ ~failed /\ next >= count
      BY <2>2, <2>3, <2>5 DEF ErrorInv
    <3>2. \A i \in 0 .. (count - 1) : i \in done
      BY <2>2, <2>3, <3>1 DEF IndicesInv
    <3>3. \A i \in done : i \in 0 .. (count - 1)
      BY <2>3 DEF IndicesInv
    <3> QED BY <2>3, <3>1, <3>2, <3>3
  <2> QED BY <2>1, <2>4, <2>5 DEF OutcomeInv, InRun
<1> QED BY <1>1, <1>2, <1>3, <1>4, <1>5

-----------------------------------------------------------------------------
(* execute, by any thread. *)

LEMMA CheckFailedStep == ASSUME IInv, NEW t \in Threads, CheckFailed(t) PROVE IInv'
<1> USE TeamAssumption DEF IInv, TypeOK, CheckFailed, Goto, teamVars, seeVars
<1>1. TypeOK'
  BY DEF Threads, CallerPlaces, WorkerPlaces
<1>2. WorkersInv'
  BY <1>1 DEF WorkersInv, ActiveCountsWorkers, Owing, Threads, Executing, InRun, CallerPlaces, WorkerPlaces
<1>3. IndicesInv'
  BY IndicesKept DEF InRun, Threads, CallerPlaces, WorkerPlaces
<1>4. ErrorInv'
  BY <1>1 DEF WorkersInv, ErrorInv, Threads, InRun
<1>5. OutcomeInv'
  BY <1>1 DEF WorkersInv, OutcomeInv, Threads, InRun
<1> QED BY <1>1, <1>2, <1>3, <1>4, <1>5

LEMMA TakeStep == ASSUME IInv, NEW t \in Threads, Take(t) PROVE IInv'
<1>1. InRun
  BY ExecutingInRun DEF Take, Executing
<1>2. TypeOK'
  <2>1. next' \in Nat /\ index' \in [Threads -> Nat]
    BY DEF IInv, TypeOK, Take
  <2>2. /\ pc' \in [Threads -> CallerPlaces \cup WorkerPlaces]
        /\ pc'[Caller] \in CallerPlaces
        /\ \A w \in Workers : pc'[w] \in WorkerPlaces
    BY TeamAssumption DEF IInv, TypeOK, Take, Goto, Threads, CallerPlaces, WorkerPlaces
  <2> QED BY <2>1, <2>2 DEF IInv, TypeOK, Take, teamVars, seeVars
<1>3. InRun' /\ IndicesInv'
  <2> USE <1>1
  <2>1. /\ next' = next + 1 /\ next \in Nat /\ count \in Nat /\ asked = count
        /\ index'[t] = next /\ pc[t] = "take"
        /\ pc'[t] = IF next >= count THEN "leave" ELSE "task"
        /\ \A u \in Threads \ {t} : pc'[u] = pc[u] /\ index'[u] = index[u]
        /\ UNCHANGED <<asked, count, done, thrown>>
    BY DEF IInv, TypeOK, WorkersInv, Take, Goto, teamVars, seeVars
  <2>2. InRun'
    BY <2>1 DEF InRun, Threads
  <2>3. \A i \in done \cup thrown : i < next /\ i < count /\ i \in Nat
    BY DEF IInv, IndicesInv, TypeOK
  <2>4. \A u \in Threads : pc[u] = "task" => index[u] \notin done \cup thrown /\ index[u] < next
    BY DEF IInv, IndicesInv, TakenOnce
  <2>5. pc'[t] = "task" => /\ next \in 0 .. (asked - 1) /\ next \notin done \cup thrown
                           /\ \A u \in Threads \ {t} : pc[u] = "task" => index[u] # next
    BY <2>1, <2>3, <2>4 DEF IInv, TypeOK
  <2>6. \A i \in 0 .. (count - 1) : i < next + 1 /\ next <= i => pc'[t] = "task" /\ next = i
    BY <2>1
  <2>7. \A i \in done \cup thrown : i < next'
    BY <2>1, <2>3
  <2> QED BY <2>1, <2>2, <2>3, <2>4, <2>5, <2>6, <2>7, IndicesFrame
<1>4. WorkersInv'
  BY <1>1, <1>3, TeamAssumption DEF IInv, TypeOK, WorkersInv, ActiveCountsWorkers, Owing,
     Take, Goto, teamVars, seeVars, Threads, Executing
<1>5. ErrorInv'
  <2>1. /\ next \in Nat /\ count \in Nat /\ next' = next + 1 /\ pc[t] = "take"
        /\ pc'[t] = IF next >= count THEN "leave" ELSE "task"
        /\ \A u \in Threads \ {t} : pc'[u] = pc[u]
        /\ UNCHANGED <<error, failed, thrown, count>>
    BY DEF IInv, TypeOK, Take, Goto, teamVars, seeVars
  <2>2. ASSUME pc'[Caller] \in {"leave", "waitDone"} PROVE failed \/ next' >= count
    <3>1. failed \/ next >= count
      BY <2>1, <2>2 DEF IInv, ErrorInv, Threads
    <3> QED BY <2>1, <3>1
  <2>3. \A u \in Threads : pc'[u] \in {"throw", "record"} <=> pc'[u] = pc[u] /\ pc[u] \in {"throw", "record"}
    BY <2>1
  <2>4. \A u \in Threads : pc[u] \in {"throw", "record"} => pc'[u] = pc[u]
    BY <2>1
  <2> QED BY <1>1, <1>3, <2>1, <2>2, <2>3, <2>4 DEF IInv, ErrorInv
<1>6. OutcomeInv'
  BY <1>1, <1>3 DEF IInv, OutcomeInv, Take, InRun, seeVars
<1> QED BY <1>2, <1>3, <1>4, <1>5, <1>6 DEF IInv

LEMMA TaskReturnsStep == ASSUME IInv, NEW t \in Threads, TaskReturns(t) PROVE IInv'
<1>1. InRun
  BY ExecutingInRun DEF TaskReturns, Executing
<1>2. TypeOK'
  BY TeamAssumption DEF IInv, TypeOK, TaskReturns, Goto, teamVars, seeVars, Threads, CallerPlaces, WorkerPlaces
<1>3. InRun' /\ IndicesInv'
  <2> USE <1>1
  <2>1. /\ UNCHANGED <<next, asked, count, index>> /\ next \in Nat /\ asked = count
        /\ pc[t] = "task" /\ pc'[t] = "check"
        /\ (done \cup thrown)' = (done \cup thrown) \cup {index[t]}
        /\ \A u \in Threads \ {t} : pc'[u] = pc[u] /\ index'[u] = index[u]
    BY DEF IInv, TypeOK, WorkersInv, TaskReturns, Goto, teamVars, seeVars
  <2>2. InRun'
    BY <2>1 DEF InRun, Threads
  <2>3. /\ \A i \in done \cup thrown : i < next /\ i < count
        /\ index[t] < next /\ index[t] \in 0 .. (count - 1)
    BY <2>1 DEF IInv, IndicesInv, TakenOnce
  <2>4. \A u \in Threads \ {t} : pc[u] = "task" => index[u] \notin (done \cup thrown)'
    BY <2>1 DEF IInv, IndicesInv, TakenOnce
  <2>5. index[t] < count /\ count \in Nat
    BY <2>3 DEF IInv, TypeOK
  <2>6. \A i \in (done \cup thrown)' : i < next' /\ i < count
    BY <2>1, <2>3, <2>5
  <2>7. \A i \in 0 .. (count - 1) :
          (i < next' /\ (next <= i \/ (pc[t] = "task" /\ index[t] = i))) => i \in (done \cup thrown)'
    BY <2>1
  <2>8. next <= next' /\ next' \in Nat
    BY <2>1
  <2> QED BY <2>1, <2>2, <2>4, <2>6, <2>7, <2>8, IndicesFrame
<1>4. WorkersInv'
  BY <1>1, <1>3, TeamAssumption DEF IInv, TypeOK, WorkersInv, ActiveCountsWorkers, Owing,
     TaskReturns, Goto, teamVars, seeVars, Threads, Executing
<1>5. ErrorInv'
  BY <1>1, <1>3, TeamAssumption DEF IInv, TypeOK, ErrorInv, TaskReturns, Goto, teamVars, seeVars, Threads
<1>6. OutcomeInv'
  BY <1>1, <1>3 DEF IInv, OutcomeInv, TaskReturns, InRun, seeVars
<1> QED BY <1>2, <1>3, <1>4, <1>5, <1>6 DEF IInv

LEMMA TaskThrowsStep == ASSUME IInv, NEW t \in Threads, TaskThrows(t) PROVE IInv'
<1>1. InRun
  BY ExecutingInRun DEF TaskThrows, Executing
<1>2. TypeOK'
  BY TeamAssumption DEF IInv, TypeOK, TaskThrows, Goto, teamVars, seeVars, Threads, CallerPlaces, WorkerPlaces
<1>3. InRun' /\ IndicesInv'
  <2> USE <1>1
  <2>1. /\ UNCHANGED <<next, asked, count, index>> /\ next \in Nat /\ asked = count
        /\ pc[t] = "task" /\ pc'[t] = "throw"
        /\ (done \cup thrown)' = (done \cup thrown) \cup {index[t]}
        /\ \A u \in Threads \ {t} : pc'[u] = pc[u] /\ index'[u] = index[u]
    BY DEF IInv, TypeOK, WorkersInv, TaskThrows, Goto, teamVars, seeVars
  <2>2. InRun'
    BY <2>1 DEF InRun, Threads
  <2>3. /\ \A i \in done \cup thrown : i < next /\ i < count
        /\ index[t] < next /\ index[t] \in 0 .. (count - 1)
    BY <2>1 DEF IInv, IndicesInv, TakenOnce
  <2>4. \A u \in Threads \ {t} : pc[u] = "task" => index[u] \notin (done \cup thrown)'
    BY <2>1 DEF IInv, IndicesInv, TakenOnce
  <2>5. index[t] < count /\ count \in Nat
    BY <2>3 DEF IInv, TypeOK
  <2>6. \A i \in (done \cup thrown)' : i < next' /\ i < count
    BY <2>1, <2>3, <2>5
  <2>7. \A i \in 0 .. (count - 1) :
          (i < next' /\ (next <= i \/ (pc[t] = "task" /\ index[t] = i))) => i \in (done \cup thrown)'
    BY <2>1
  <2>8. next <= next' /\ next' \in Nat
    BY <2>1
  <2> QED BY <2>1, <2>2, <2>4, <2>6, <2>7, <2>8, IndicesFrame
<1>4. WorkersInv'
  BY <1>1, <1>3, TeamAssumption DEF IInv, TypeOK, WorkersInv, ActiveCountsWorkers, Owing,
     TaskThrows, Goto, teamVars, seeVars, Threads, Executing
<1>5. ErrorInv'
  <2>1. /\ pc[t] = "task" /\ pc'[t] = "throw" /\ thrown' # {}
        /\ \A u \in Threads \ {t} : pc'[u] = pc[u]
        /\ UNCHANGED <<error, failed, next, count>>
    BY DEF IInv, TypeOK, TaskThrows, Goto, teamVars
  <2>2. pc'[t] \in {"throw", "record"}
    BY <2>1
  <2>3. \A u \in Threads : pc'[u] = "record" => failed'
    BY <1>1, <2>1 DEF IInv, ErrorInv
  <2>4. pc'[Caller] \in {"leave", "waitDone"} => failed' \/ next' >= count'
    BY <2>1 DEF IInv, ErrorInv, Threads
  <2> QED BY <1>3, <2>1, <2>2, <2>3, <2>4 DEF ErrorInv
<1>6. OutcomeInv'
  BY <1>1, <1>3 DEF IInv, OutcomeInv, TaskThrows, InRun, seeVars
<1> QED BY <1>2, <1>3, <1>4, <1>5, <1>6 DEF IInv

LEMMA StoreFailedStep == ASSUME IInv, NEW t \in Threads, StoreFailed(t) PROVE IInv'
<1>1. InRun
  BY ExecutingInRun DEF StoreFailed, Executing
<1>2. TypeOK'
  BY TeamAssumption DEF IInv, TypeOK, StoreFailed, Goto, teamVars, seeVars, Threads, CallerPlaces, WorkerPlaces
<1>3. InRun' /\ ErrorInv'
  <2> USE <1>1
  <2>1. /\ failed' /\ pc[t] = "throw" /\ pc'[t] = "record"
        /\ \A u \in Threads \ {t} : pc'[u] = pc[u]
        /\ UNCHANGED <<error, thrown, next, count>>
    BY DEF IInv, TypeOK, StoreFailed, Goto, teamVars, seeVars
  <2>2. InRun'
    BY <2>1 DEF InRun, Threads
  <2>3. thrown # {}
    BY <1>1, <2>1 DEF IInv, ErrorInv
  <2> QED BY <1>1, <2>1, <2>2, <2>3 DEF IInv, ErrorInv, Threads
<1>4. WorkersInv'
  BY <1>1, <1>3, TeamAssumption DEF IInv, TypeOK, WorkersInv, ActiveCountsWorkers, Owing,
     StoreFailed, Goto, teamVars, seeVars, Threads, Executing
<1>5. IndicesInv'
  BY <1>1, <1>3, TeamAssumption, IndicesKept DEF IInv, TypeOK, StoreFailed, Goto, teamVars, seeVars
<1>6. OutcomeInv'
  BY <1>1, <1>3 DEF IInv, OutcomeInv, StoreFailed, InRun, seeVars
<1> QED BY <1>2, <1>3, <1>4, <1>5, <1>6 DEF IInv

LEMMA RecordErrorStep == ASSUME IInv, NEW t \in Threads, RecordError(t) PROVE IInv'
<1>1. InRun
  BY ExecutingInRun DEF RecordError, Executing
<1>2. TypeOK'
  BY TeamAssumption DEF IInv, TypeOK, RecordError, Goto, teamVars, seeVars, Threads, CallerPlaces, WorkerPlaces
<1>3. InRun' /\ ErrorInv'
  <2> USE <1>1
  <2>1. /\ error' = TRUE /\ failed /\ pc[t] = "record" /\ pc'[t] = "leave" /\ thrown # {}
        /\ \A u \in Threads \ {t} : pc'[u] = pc[u]
        /\ UNCHANGED <<failed, thrown, next, count>>
    BY DEF IInv, TypeOK, ErrorInv, RecordError, Goto, teamVars, seeVars
  <2>2. InRun'
    BY <2>1 DEF InRun, Threads
  <2> QED BY <1>1, <2>1, <2>2 DEF IInv, ErrorInv, Threads
<1>4. WorkersInv'
  BY <1>1, <1>3, TeamAssumption DEF IInv, TypeOK, WorkersInv, ActiveCountsWorkers, Owing,
     RecordError, Goto, teamVars, seeVars, Threads, Executing
<1>5. IndicesInv'
  BY <1>1, <1>3, TeamAssumption, IndicesKept DEF IInv, TypeOK, RecordError, Goto, teamVars, seeVars
<1>6. OutcomeInv'
  BY <1>1, <1>3 DEF IInv, OutcomeInv, RecordError, InRun, seeVars
<1> QED BY <1>2, <1>3, <1>4, <1>5, <1>6 DEF IInv

-----------------------------------------------------------------------------
(* worker_loop *)

LEMMA WaitStartStep == ASSUME IInv, NEW w \in Workers, WaitStart(w) PROVE IInv'
<1> USE TeamAssumption DEF IInv, TypeOK, WaitStart, Goto, teamVars, seeVars
<1>1. TypeOK'
  BY DEF Threads, CallerPlaces, WorkerPlaces
<1>2. WorkersInv'
  BY <1>1 DEF WorkersInv, ActiveCountsWorkers, Owing, Threads, Executing, InRun, CallerPlaces, WorkerPlaces
<1>3. IndicesInv'
  BY IndicesKept DEF InRun, Threads, CallerPlaces, WorkerPlaces
<1>4. ErrorInv'
  BY <1>1 DEF WorkersInv, ErrorInv, Threads, InRun
<1>5. OutcomeInv'
  BY <1>1 DEF WorkersInv, OutcomeInv, Threads, InRun
<1> QED BY <1>1, <1>2, <1>3, <1>4, <1>5

LEMMA ExitLoopStep == ASSUME IInv, NEW w \in Workers, ExitLoop(w) PROVE IInv'
<1> USE TeamAssumption DEF IInv, TypeOK, ExitLoop, Goto, teamVars, seeVars
<1>1. TypeOK'
  BY DEF Threads, CallerPlaces, WorkerPlaces
<1>2. WorkersInv'
  BY <1>1 DEF WorkersInv, ActiveCountsWorkers, Owing, Threads, Executing, InRun, CallerPlaces, WorkerPlaces
<1>3. IndicesInv'
  BY IndicesKept DEF InRun, Threads, CallerPlaces, WorkerPlaces
<1>4. ErrorInv'
  BY <1>1 DEF WorkersInv, ErrorInv, Threads, InRun
<1>5. OutcomeInv'
  BY <1>1 DEF WorkersInv, OutcomeInv, Threads, InRun
<1> QED BY <1>1, <1>2, <1>3, <1>4, <1>5

LEMMA EnterStep == ASSUME IInv, NEW w \in Workers, Enter(w) PROVE IInv'
<1> USE TeamAssumption DEF IInv, TypeOK, Enter, Goto, teamVars, seeVars
<1>1. TypeOK'
  BY DEF Threads, CallerPlaces, WorkerPlaces
<1>2. WorkersInv'
  BY <1>1, ZenonT(60) DEF WorkersInv, ActiveCountsWorkers, Owing, Threads, Executing, InRun, CallerPlaces, WorkerPlaces
<1>3. IndicesInv'
  BY IndicesKept DEF InRun, Threads, CallerPlaces, WorkerPlaces
<1>4. ErrorInv'
  BY <1>1 DEF WorkersInv, ErrorInv, Threads, InRun
<1>5. OutcomeInv'
  BY <1>1 DEF WorkersInv, OutcomeInv, Threads, InRun
<1> QED BY <1>1, <1>2, <1>3, <1>4, <1>5

LEMMA LeaveStep == ASSUME IInv, NEW w \in Workers, Leave(w) PROVE IInv'
<1>1. /\ pc[w] = "leave" /\ active' = active - 1 /\ pc'[w] = "start"
      /\ \A u \in Workers \ {w} : pc'[u] = pc[u]
      /\ pc'[Caller] = IF active = 1 /\ pc[Caller] = "waitDone" THEN "leave" ELSE pc[Caller]
      /\ pc' \in [Threads -> CallerPlaces \cup WorkerPlaces]
      /\ UNCHANGED <<seen, generation>> /\ seen[w] = generation
  BY TeamAssumption DEF IInv, TypeOK, WorkersInv, Leave, Threads, CallerPlaces, WorkerPlaces, Executing
<1>2. w \in Owing /\ IsFiniteSet(Owing) /\ active = Cardinality(Owing)
  BY <1>1, TeamAssumption, FS_Subset DEF IInv, WorkersInv, ActiveCountsWorkers, Owing, Executing
<1>3. Owing' = Owing \ {w}
  BY <1>1 DEF Owing, Executing
<1>4. active' = Cardinality(Owing') /\ active' \in Nat
  <2>1. Cardinality(Owing') = Cardinality(Owing) - 1
    BY <1>2, <1>3, FS_RemoveElement
  <2>2. IsFiniteSet(Owing')
    BY <1>2, <1>3, FS_RemoveElement
  <2> QED BY <1>1, <1>2, <2>1, <2>2, FS_CardinalityType
<1>5. InRun /\ InRun'
  BY <1>1, <1>2, FS_EmptySet DEF IInv, WorkersInv, InRun
<1>6. TypeOK'
  BY <1>1, <1>4 DEF IInv, TypeOK, Leave, seeVars, CallerPlaces, WorkerPlaces
<1>7. WorkersInv'
  BY <1>1, <1>4, <1>5 DEF IInv, WorkersInv, ActiveCountsWorkers, Leave, seeVars, Executing
<1>8. IndicesInv'
  BY <1>1, <1>5, IndicesKept DEF IInv, Leave, seeVars, Threads
<1>9. ErrorInv'
  BY <1>1, <1>5 DEF IInv, ErrorInv, Leave, seeVars, Threads
<1>10. OutcomeInv'
  BY <1>1, <1>5 DEF IInv, OutcomeInv, Leave, seeVars, InRun
<1> QED BY <1>6, <1>7, <1>8, <1>9, <1>10 DEF IInv

LEMMA SpuriousWakeupStep == ASSUME IInv, NEW t \in Threads, SpuriousWakeup(t) PROVE IInv'
<1> USE TeamAssumption DEF IInv, TypeOK, SpuriousWakeup, Goto, teamVars, seeVars
<1>1. TypeOK'
  BY DEF Threads, CallerPlaces, WorkerPlaces
<1>2. WorkersInv'
  BY <1>1 DEF WorkersInv, ActiveCountsWorkers, Owing, Threads, Executing, InRun, CallerPlaces, WorkerPlaces
<1>3. IndicesInv'
  BY IndicesKept DEF InRun, Threads, CallerPlaces, WorkerPlaces
<1>4. ErrorInv'
  <2>1. /\ UNCHANGED <<error, failed, thrown, next, count>>
        /\ \A u \in Threads : \/ pc'[u] = pc[u]
                             \/ /\ u = Caller /\ pc[u] = "waitDone" /\ pc'[u] = "leave"
                             \/ /\ u \in Workers /\ pc[u] = "waiting" /\ pc'[u] = "start"
    BY DEF Threads, CallerPlaces, WorkerPlaces
  <2>2. InRun' = InRun /\ \A u \in Threads : pc[u] \in {"throw", "record"} <=> pc'[u] \in {"throw", "record"}
    BY <2>1 DEF InRun, Threads
  <2>3. \A u \in Threads : pc[u] = "record" <=> pc'[u] = "record"
    BY <2>1
  <2>4. pc'[Caller] \in {"leave", "waitDone"} => pc[Caller] \in {"leave", "waitDone"}
    BY <2>1 DEF Threads
  <2> QED BY <2>1, <2>2, <2>3, <2>4 DEF ErrorInv
<1>5. OutcomeInv'
  <2>1. /\ UNCHANGED <<outcome, index, done, thrown, asked>>
        /\ \/ pc'[Caller] = pc[Caller]
           \/ pc[Caller] = "waitDone" /\ pc'[Caller] = "leave"
    BY DEF Threads, CallerPlaces, WorkerPlaces
  <2> QED BY <2>1 DEF OutcomeInv, InRun
<1> QED BY <1>1, <1>2, <1>3, <1>4, <1>5

-----------------------------------------------------------------------------
(* The theorems. *)

LEMMA InitIInv == Init => IInv
<1> SUFFICES ASSUME Init PROVE IInv
  OBVIOUS
<1>1. TypeOK
  <2>1. /\ pc \in [Threads -> CallerPlaces \cup WorkerPlaces] /\ pc[Caller] \in CallerPlaces
        /\ \A w \in Workers : pc[w] \in WorkerPlaces
    BY TeamAssumption DEF Init, Threads, CallerPlaces, WorkerPlaces
  <2>2. 0 \in 0 .. (GenModulus - 1)
    BY TeamAssumption
  <2> QED BY <2>1, <2>2 DEF Init, TypeOK
<1>2. Owing = {} /\ Cardinality(Owing) = 0
  BY TeamAssumption, FS_EmptySet DEF Init, Owing, Threads, Executing
<1>3. \A t \in Threads : pc[t] \in {"making", "absent"}
  BY DEF Init
<1>4. ~InRun /\ pc[Caller] = "making"
  BY DEF Init, InRun, Threads
<1> QED BY <1>1, <1>2, <1>3, <1>4 DEF IInv, Init, WorkersInv, ActiveCountsWorkers,
           IndicesInv, TakenOnce, ErrorInv, OutcomeInv, Executing, Threads

LEMMA NextIInv == IInv /\ [Next]_vars => IInv'
<1> SUFFICES ASSUME IInv, [Next]_vars PROVE IInv'
  OBVIOUS
<1>1. CASE CallerMay
  BY <1>1, CreateWorkerStep, RunAloneStep, PublishStep, ShutdownStep DEF CallerMay
<1>2. CASE CallerStep
  BY <1>2, ConstructedStep, ConstructionFailsStep, TaskAloneStep, ReturnAloneStep,
     NotifyStartStep, WaitDoneStep, FinishStep, JoinStep DEF CallerStep
<1>3. ASSUME NEW w \in Workers, WorkerStep(w) PROVE IInv'
  BY <1>3, WaitStartStep, ExitLoopStep, EnterStep, LeaveStep DEF WorkerStep
<1>4. ASSUME NEW t \in Threads, Execute(t) \/ SpuriousWakeup(t) PROVE IInv'
  BY <1>4, CheckFailedStep, TakeStep, TaskReturnsStep, TaskThrowsStep, StoreFailedStep,
     RecordErrorStep, SpuriousWakeupStep DEF Execute
<1>5. CASE UNCHANGED vars
  BY <1>5, ZenonT(60) DEF vars, teamVars, seeVars, IInv, TypeOK, WorkersInv, ActiveCountsWorkers, Owing,
     IndicesInv, TakenOnce, ErrorInv, OutcomeInv, InRun
<1> QED BY <1>1, <1>2, <1>3, <1>4, <1>5 DEF Next, Finished

(* The invariant holds in every reachable state, for any number of workers. *)
THEOREM Invariance == Spec => []IInv
BY InitIInv, NextIInv, PTL DEF Spec

(* Every variable keeps its type; active_ and next_ never go below zero. *)
THEOREM TypeCorrect == Spec => []TypeOK
<1>1. IInv => TypeOK
  BY DEF IInv
<1> QED BY <1>1, Invariance, PTL

(* The task never runs twice for one index, and never for one out of range. *)
THEOREM NoIndexTwice == Spec => []TakenOnce
<1>1. IInv => TakenOnce
  BY DEF IInv, IndicesInv
<1> QED BY <1>1, Invariance, PTL

(* A run that returns has run its task for every index. *)
THEOREM AllDoneOnReturn == Spec => []ReturnMeansAllDone
<1>1. IInv => ReturnMeansAllDone
  BY DEF IInv, OutcomeInv, ReturnMeansAllDone
<1> QED BY <1>1, Invariance, PTL

(* Between runs no worker can touch task_ or what it captured. *)
THEOREM QuietBetweenRuns == Spec => []QuietOutsideRun
<1>1. IInv => QuietOutsideRun
  BY NoTaskOutsideRun DEF QuietOutsideRun, InRun, Threads
<1> QED BY <1>1, Invariance, PTL

(* active_ counts the workers that have not finished the current run. *)
THEOREM ActiveIsExact == Spec => []ActiveCountsWorkers
<1>1. IInv => ActiveCountsWorkers
  BY DEF IInv, WorkersInv
<1> QED BY <1>1, Invariance, PTL

(* run throws exactly when some task of the run threw, whoever executed it. *)
THEOREM ErrorsReachCaller == Spec => []ErrorReachesCaller
<1>1. IInv => ErrorReachesCaller
  <2> SUFFICES ASSUME IInv, pc[Caller] = "idle" PROVE ErrorReachesCaller
    BY DEF ErrorReachesCaller
  <2>1. ~error
    BY DEF IInv, ErrorInv, InRun
  <2>2. CASE outcome = "threw"
    BY <2>1, <2>2 DEF IInv, OutcomeInv, ErrorReachesCaller
  <2>3. CASE outcome = "returned"
    BY <2>1, <2>3 DEF IInv, OutcomeInv, ErrorReachesCaller
  <2>4. CASE outcome = "none"
    BY <2>1, <2>4 DEF ErrorReachesCaller
  <2> QED BY <2>2, <2>3, <2>4 DEF IInv, TypeOK
<1> QED BY <1>1, Invariance, PTL

-----------------------------------------------------------------------------
(* Refinement: each step of the threads is a step of ParallelFor or none. *)

LEMMA PhaseInRun == ASSUME IInv, InRun PROVE Phase = "running"
BY DEF InRun, Phase

LEMMA InitRefines == Init => PF!Init
BY DEF Init, PF!Init, Phase, Threads

(* Steps that leave the caller's view alone. *)
LEMMA Stutter ==
    ASSUME Phase' = Phase, UNCHANGED seeVars
    PROVE  UNCHANGED PF!vars
BY DEF PF!vars, seeVars

(* A task that returns or throws does so for an index that was still left. *)
LEMMA TaskRefines ==
    ASSUME IInv, NEW t \in Threads, TaskReturns(t) \/ TaskThrows(t)
    PROVE  PF!Next
<1>1. InRun /\ Phase = "running"
  BY ExecutingInRun, PhaseInRun DEF TaskReturns, TaskThrows, Executing
<1>2. InRun' /\ Phase' = "running"
  BY <1>1 DEF TaskReturns, TaskThrows, Goto, IInv, TypeOK, InRun, Threads, Phase
<1>3. index[t] \in 0 .. (asked - 1) /\ index[t] \notin done \cup thrown
  BY DEF TaskReturns, TaskThrows, IInv, IndicesInv, TakenOnce
<1>4. PF!Succeed(index[t]) \/ PF!Throw(index[t])
  BY <1>1, <1>2, <1>3 DEF TaskReturns, TaskThrows, PF!Succeed, PF!Throw, PF!Left
<1> QED BY <1>3, <1>4 DEF PF!Next

LEMMA TaskAloneRefines == ASSUME IInv, TaskAlone PROVE PF!Next
<1>0. /\ index[Caller] \in Nat /\ asked \in Nat /\ index[Caller] < asked
      /\ done = 0 .. (index[Caller] - 1) /\ thrown = {}
  BY DEF IInv, TypeOK, OutcomeInv, TaskAlone, Threads
<1>1. index[Caller] \in 0 .. (asked - 1) /\ index[Caller] \notin done \cup thrown
  BY <1>0
<1>2. Phase = "running" /\ Phase' = "running"
  BY DEF TaskAlone, Goto, IInv, TypeOK, Phase, Threads
<1>3. PF!Succeed(index[Caller]) \/ PF!Throw(index[Caller])
  BY <1>1, <1>2 DEF TaskAlone, PF!Succeed, PF!Throw, PF!Left
<1> QED BY <1>1, <1>3 DEF PF!Next

LEMMA BeginRefines ==
    ASSUME IInv, NEW n \in Counts, RunAlone(n) \/ Publish(n)
    PROVE  PF!Next
<1>1. Phase = "idle" /\ Phase' = "running"
  BY DEF RunAlone, Publish, Goto, IInv, TypeOK, Phase, Threads
<1>2. PF!Begin(n)
  BY <1>1 DEF RunAlone, Publish, PF!Begin
<1> QED BY <1>2 DEF PF!Next

LEMMA EndRefines ==
    ASSUME IInv, IInv', ReturnAlone \/ Finish
    PROVE  PF!Next
<1>1. Phase = "running" /\ Phase' = "idle" /\ UNCHANGED <<asked, done, thrown>>
  BY DEF ReturnAlone, Finish, Goto, IInv, TypeOK, Phase, Threads
<1>2. outcome' \in {"returned", "threw"}
  BY DEF ReturnAlone, Finish
<1>3. CASE outcome' = "returned"
  <2>1. done' = 0 .. (asked' - 1)
    BY <1>3 DEF IInv, OutcomeInv
  <2> QED BY <1>1, <1>3, <2>1 DEF PF!Return, PF!Next
<1>4. CASE outcome' = "threw"
  <2>1. thrown' # {}
    BY <1>4 DEF IInv, OutcomeInv
  <2> QED BY <1>1, <1>4, <2>1 DEF PF!Rethrow, PF!Next
<1> QED BY <1>2, <1>3, <1>4

LEMMA MakeRefines ==
    ASSUME IInv, Constructed \/ ConstructionFails \/ Shutdown
    PROVE  PF!Next
<1>1. CASE Constructed
  <2>1. Phase = "making" /\ Phase' = "idle"
    BY <1>1 DEF Constructed, Goto, IInv, TypeOK, Phase, Threads
  <2> QED BY <1>1, <2>1 DEF Constructed, PF!Made, PF!Next, seeVars
<1>2. CASE ConstructionFails \/ Shutdown
  <2>1. Phase \in {"making", "idle"} /\ Phase' = "gone"
    BY <1>2 DEF ConstructionFails, Shutdown, Goto, IInv, TypeOK, Phase, Threads
  <2> QED BY <1>2, <2>1 DEF ConstructionFails, Shutdown, PF!Destroy, PF!Next, seeVars
<1> QED BY <1>1, <1>2

(* The other steps only move threads about. *)
LEMMA OtherRefines ==
    ASSUME IInv,
           \/ NotifyStart \/ WaitDone \/ Join
           \/ \E w \in Workers : CreateWorker(w) \/ WorkerStep(w)
           \/ \E t \in Threads : \/ CheckFailed(t) \/ Take(t) \/ StoreFailed(t)
                                \/ RecordError(t) \/ SpuriousWakeup(t)
    PROVE  UNCHANGED PF!vars
<1>1. CASE NotifyStart \/ WaitDone \/ Join
  BY <1>1, Stutter DEF NotifyStart, WaitDone, Join, Goto, IInv, TypeOK, Phase, Threads
<1>2. ASSUME NEW w \in Workers, CreateWorker(w) \/ WorkerStep(w) PROVE UNCHANGED PF!vars
  <2>1. CASE ~Leave(w)
    <3>1. pc'[Caller] = pc[Caller] /\ UNCHANGED seeVars
      BY <1>2, <2>1, TeamAssumption DEF CreateWorker, WorkerStep, WaitStart, ExitLoop, Enter,
         Goto, IInv, TypeOK, Threads
    <3> QED BY <3>1, Stutter DEF Phase
  <2>2. CASE Leave(w)
    <3>1. /\ UNCHANGED seeVars
          /\ \/ pc'[Caller] = pc[Caller]
             \/ pc[Caller] = "waitDone" /\ pc'[Caller] = "leave"
      BY <2>2, TeamAssumption DEF Leave, IInv, TypeOK, Threads
    <3> QED BY <3>1, Stutter DEF Phase
  <2> QED BY <2>1, <2>2
<1>3. ASSUME NEW t \in Threads,
             \/ CheckFailed(t) \/ Take(t) \/ StoreFailed(t) \/ RecordError(t)
             \/ SpuriousWakeup(t)
      PROVE  UNCHANGED PF!vars
  <2>1. UNCHANGED seeVars
    BY <1>3 DEF CheckFailed, Take, StoreFailed, RecordError, SpuriousWakeup
  <2>2. \/ pc'[Caller] = pc[Caller]
        \/ Phase = "running" /\ pc'[Caller] \in {"take", "leave", "task", "record"}
    BY <1>3 DEF CheckFailed, Take, StoreFailed, RecordError, SpuriousWakeup, Goto, IInv,
       TypeOK, Threads, Phase, CallerPlaces
  <2>3. Phase' = Phase
    BY <2>2 DEF Phase
  <2> QED BY <2>1, <2>3, Stutter
<1> QED BY <1>1, <1>2, <1>3

(* ParallelTeam implements the parallel loop that its callers rely on. *)
THEOREM Implementation == Spec => ImplementsParallelFor
<1>1. IInv /\ IInv' /\ [Next]_vars => [PF!Next]_PF!vars
  <2> SUFFICES ASSUME IInv, IInv', [Next]_vars PROVE [PF!Next]_PF!vars
    OBVIOUS
  <2>1. CASE CallerMay
    BY <2>1, BeginRefines, MakeRefines, OtherRefines DEF CallerMay
  <2>2. CASE CallerStep
    BY <2>2, MakeRefines, TaskAloneRefines, EndRefines, OtherRefines DEF CallerStep
  <2>3. ASSUME NEW w \in Workers, WorkerStep(w) PROVE [PF!Next]_PF!vars
    BY <2>3, OtherRefines
  <2>4. ASSUME NEW t \in Threads, Execute(t) \/ SpuriousWakeup(t) PROVE [PF!Next]_PF!vars
    BY <2>4, TaskRefines, OtherRefines DEF Execute
  <2>5. CASE UNCHANGED vars
    BY <2>5, Stutter DEF vars, Phase
  <2> QED BY <2>1, <2>2, <2>3, <2>4, <2>5 DEF Next, Finished
<1> QED BY <1>1, InitRefines, Invariance, PTL DEF Spec, PF!Spec, ImplementsParallelFor
=============================================================================
