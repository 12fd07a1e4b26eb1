----------------------------- MODULE TsumeTable -----------------------------
(***************************************************************************)
(* The proof table of TsumeSearch (src/tsume.cpp): buckets of entries that *)
(* say, of one position and one attacker, that it is mate within so many   *)
(* plies, that it is never mate, or that it is not mate within so many.    *)
(*                                                                         *)
(* A table is a record [entries, generation, live]: table_, generation_    *)
(* and live_entries_.  An entry counts only if it is of the generation.    *)
(***************************************************************************)
EXTENDS Integers, Sequences, SequencesExt, FiniteSets, TsumeResult

CONSTANTS
    BucketSize,       \* kBucketSize
    InitialSize,      \* kInitialTableSize
    MaxSize,          \* kMaxTableSize
    GenerationLimit   \* 2^16, the width of generation_

ASSUME TsumeTableAssumption ==
    /\ BucketSize \in Nat \ {0} /\ GenerationLimit \in Nat /\ GenerationLimit > 2
    /\ InitialSize \in Nat \ {0} /\ InitialSize % BucketSize = 0
    /\ MaxSize \in Nat /\ MaxSize >= InitialSize

Unknown == 255   \* kUnknown
NoMove == 0      \* a packed move that is not valid

EmptyEntry == [key |-> 0, move |-> NoMove, generation |-> 0, mate |-> 0, limit |-> 0,
               noMate |-> FALSE]

NewTable(size) == [entries |-> [i \in 1 .. size |-> EmptyEntry], generation |-> 1, live |-> 0]
NoTable == [NewTable(0) EXCEPT !.entries = << >>]

Size(T) == Len(T.entries)

(* The slots of the bucket of a key: the number of buckets is a power of two. *)
Bucket(T, key) ==
    LET first == (key % (Size(T) \div BucketSize)) * BucketSize
    IN (first + 1) .. (first + BucketSize)

Live(T, i) == T.entries[i].generation = T.generation
Holders(T, key) == {i \in Bucket(T, key) : Live(T, i) /\ T.entries[i].key = key}

Proven(e) == e.mate # Unknown \/ e.noMate

(* Mutant: a shallow proof is worth as little as it is deep. *)
ValueByDepth(T, i) ==
    LET e == T.entries[i]
    IN IF ~Live(T, i) THEN -1
       ELSE IF e.mate # Unknown THEN e.mate
       ELSE IF e.limit = Unknown THEN 0 ELSE e.limit + 1

(* What an entry is worth: nothing if it is dead, most if it is a proof. *)
Value(T, i) ==
    LET e == T.entries[i]
    IN IF ~Live(T, i) THEN -1
       ELSE IF Proven(e) THEN 1000
       ELSE IF e.limit = Unknown THEN 0 ELSE e.limit + 1

Victim(T, key) ==
    CHOOSE i \in Bucket(T, key) :
        \A j \in Bucket(T, key) : \/ Value(T, i) < Value(T, j)
                                  \/ Value(T, i) = Value(T, j) /\ i <= j

(* find_slot: the table with a slot for the key, and the slot. *)
FindSlot(T, key) ==
    IF Holders(T, key) # {} THEN [table |-> T, at |-> CHOOSE i \in Holders(T, key) : TRUE]
    ELSE LET v == Victim(T, key)
         IN [table |-> [T EXCEPT !.live = IF Live(T, v) THEN @ ELSE @ + 1,
                                 !.entries[v] = [EmptyEntry EXCEPT
                                     !.key = key, !.generation = T.generation,
                                     !.mate = Unknown, !.limit = Unknown]],
             at |-> v]

InsertEntry(T, e) ==
    LET s == FindSlot(T, e.key) IN [s.table EXCEPT !.entries[s.at] = e]

(* Mutant: the entries stay where they are. *)
GrowTableInPlace(T) == [T EXCEPT !.entries = @ \o NewTable(Size(T)).entries]

KeepEntry(T, e) == IF e.generation = T.generation THEN InsertEntry(T, e) ELSE T
GrowTable(T) ==
    FoldLeft(KeepEntry, [NewTable(2 * Size(T)) EXCEPT !.generation = T.generation], T.entries)

(* new_generation.  generation_ wraps: then everything is erased. *)
NewGeneration(T) ==
    IF (T.generation + 1) % GenerationLimit = 0
    THEN NewTable(Size(T))
    ELSE [T EXCEPT !.generation = @ + 1, !.live = 0]

-----------------------------------------------------------------------------
(* Results in the table. *)

(* What store writes over the fields of a slot. *)
Updated(e, remaining, r) ==
    CASE r.status = "Mate" ->
            IF e.mate = Unknown \/ r.plies < e.mate
            THEN [e EXCEPT !.mate = r.plies, !.move = r.move] ELSE e
      [] r.status = "NoMate" -> [e EXCEPT !.noMate = TRUE, !.move = r.move]
      [] r.status = "Limit" ->
            IF e.limit = Unknown \/ remaining > e.limit
            THEN [e EXCEPT !.limit = remaining, !.move = IF Proven(e) THEN @ ELSE r.move] ELSE e

StoreIn(T, key, remaining, r) ==
    LET s == FindSlot(T, key)
        N == [s.table EXCEPT !.entries[s.at] = Updated(@, remaining, r)]
    IN IF N.live * 2 > Size(N) /\ Size(N) < MaxSize THEN GrowTable(N) ELSE N

Missing == Result("None", NoMove, 0)

(* Mutant: a mate is used although it is longer than the depth allows. *)
ProbeInAnyDepth(T, key, remaining) ==
    IF Holders(T, key) = {} THEN Missing
    ELSE LET e == T.entries[CHOOSE i \in Holders(T, key) : TRUE]
         IN IF e.noMate THEN Result("NoMate", e.move, 0)
            ELSE IF e.mate # Unknown THEN Result("Mate", e.move, e.mate)
            ELSE IF e.limit # Unknown /\ e.limit >= remaining THEN Result("Limit", e.move, 0)
            ELSE Missing

(* probe: what the table already knows of a position at a depth. *)
ProbeIn(T, key, remaining) ==
    IF Holders(T, key) = {} THEN Missing
    ELSE LET e == T.entries[CHOOSE i \in Holders(T, key) : TRUE]
         IN IF e.noMate THEN Result("NoMate", e.move, 0)
            ELSE IF e.mate # Unknown /\ e.mate <= remaining THEN Result("Mate", e.move, e.mate)
            ELSE IF e.limit # Unknown /\ e.limit >= remaining THEN Result("Limit", e.move, 0)
            ELSE Missing

(* prepare, for the table: proofs of another attacker are dropped. *)
Prepared(T, tableAttacker, attacker) ==
    IF Size(T) = 0 THEN [NewTable(InitialSize) EXCEPT !.generation = T.generation]
    ELSE IF tableAttacker # attacker THEN NewGeneration(T) ELSE T
=============================================================================
