------------------------------ MODULE SharedTT ------------------------------
(***************************************************************************)
(* One cluster of the shared transposition table (SharedTranspositionTable *)
(* in src/search.cpp).  The search threads probe and store without a lock: *)
(* each load and each store of an atomic word is a step of its own.  Keys  *)
(* that fall into different clusters never meet, so one cluster is enough. *)
(*                                                                         *)
(* A payload carries, besides its depth and generation, the position its   *)
(* score and move are about ("for").  The code has no such field: it is    *)
(* what the properties are about.                                          *)
(***************************************************************************)
EXTENDS Integers

CONSTANTS
    Threads,         \* the search threads
    LastSlot,        \* kTtClusterSize - 1
    Keys,            \* the keys of the cluster (0 is none: it is one position in 2^64)
    ZeroKey,         \* 0, the key of an empty slot
    Depths,          \* the depths stores are made with
    MaxGeneration    \* 255: generations are 1 .. MaxGeneration, cyclically

ASSUME TableAssumption ==
    /\ LastSlot \in Nat
    /\ ZeroKey \notin Keys
    /\ Depths \subseteq 0 .. 254   \* as are all up to kMaxDepth
    /\ MaxGeneration \in Nat \ {0}

VARIABLES
    key, payload,   \* the two words of each slot
    generation,     \* that of the current search
    pc, slot,       \* what each thread does, and at which slot
    item,           \* the entry it stores; its "for" is the key it looks for
    seen, loaded,   \* the words it has loaded from the slot
    victim,         \* its replacement so far
    (* Read by no action. *)
    last,           \* the last store for each key in this table
    overlapped,     \* slots that two stores have written at the same time
    writers,        \* the stores each probe has loaded a payload from, unfinished
    restored,       \* probes whose key left the slot and came back
    found,          \* what the last probe of each thread returned
    alone           \* no call has begun during another
tableVars  == <<key, payload, generation>>
threadVars == <<pc, slot, item, seen, loaded, victim>>
ghostVars  == <<last, overlapped, writers, restored, found, alone>>
vars == <<tableVars, threadVars, ghostVars>>

Slots == 0 .. LastSlot

Empty == [for |-> ZeroKey, depth |-> -1, gen |-> 0]
Words == Keys \cup {ZeroKey}
PayloadType == [for : Words, depth : Depths \cup {-1}, gen : 0 .. MaxGeneration]
NoVictim == [none |-> TRUE, at |-> 0, payload |-> Empty]
Miss == [hit |-> FALSE, key |-> ZeroKey, payload |-> Empty, excused |-> FALSE]

Init ==
    /\ key = [s \in Slots |-> ZeroKey] /\ payload = [s \in Slots |-> Empty]
    /\ generation = 1
    /\ pc = [t \in Threads |-> "idle"] /\ slot = [t \in Threads |-> 0]
    /\ item = [t \in Threads |-> Empty]
    /\ seen = [t \in Threads |-> ZeroKey] /\ loaded = [t \in Threads |-> Empty]
    /\ victim = [t \in Threads |-> NoVictim]
    /\ last = [k \in Keys |-> Empty]
    /\ overlapped = {} /\ restored = {}
    /\ writers = [t \in Threads |-> {}]
    /\ found = [t \in Threads |-> Miss]
    /\ alone = TRUE

Goto(t, place) == pc' = [pc EXCEPT ![t] = place]

(* The stores between their two writes to a slot. *)
Writing(s) == {t \in Threads : pc[t] = "store key" /\ slot[t] = s}

(* next_generation, called by find_best_move before its threads start: a
   64-bit counter modulo 256 that skips 0. *)
NextGeneration ==
    /\ \A t \in Threads : pc[t] = "idle"
    /\ generation' = (generation % MaxGeneration) + 1
    /\ UNCHANGED <<key, payload, threadVars, ghostVars>>

(* resize_mb, called by the Hash option after it has joined the search: a new
   and empty table, or the old one if there is no memory for it, which is no
   step.  The generations go on. *)
Resize ==
    /\ \A t \in Threads : pc[t] = "idle"
    /\ key' = [s \in Slots |-> ZeroKey] /\ payload' = [s \in Slots |-> Empty]
    /\ last' = [k \in Keys |-> Empty] /\ overlapped' = {}
    /\ UNCHANGED <<generation, threadVars, writers, restored, found, alone>>

(* A call begins at the first slot. *)
Begin(t, e, place) ==
    /\ pc[t] = "idle"
    /\ item' = [item EXCEPT ![t] = e]
    /\ slot' = [slot EXCEPT ![t] = 0]
    /\ victim' = [victim EXCEPT ![t] = NoVictim]
    /\ found' = [found EXCEPT ![t] = Miss]
    /\ alone' = (alone /\ \A u \in Threads : pc[u] = "idle")
    /\ Goto(t, place)
    /\ UNCHANGED <<tableVars, seen, loaded, last, overlapped, writers, restored>>

-----------------------------------------------------------------------------
(* probe *)

Probe(t, k) == Begin(t, [Empty EXCEPT !.for = k], "probe key")

TryNextSlot(t) ==
    IF slot[t] = LastSlot
    THEN Goto(t, "idle") /\ UNCHANGED slot
    ELSE Goto(t, "probe key") /\ slot' = [slot EXCEPT ![t] = @ + 1]

ProbeKey(t) ==
    /\ pc[t] = "probe key"
    /\ IF key[slot[t]] = item[t].for THEN Goto(t, "probe payload") /\ UNCHANGED slot
                                     ELSE TryNextSlot(t)
    /\ UNCHANGED <<tableVars, item, seen, loaded, victim, ghostVars>>

ProbePayload(t) ==
    /\ pc[t] = "probe payload"
    /\ loaded' = [loaded EXCEPT ![t] = payload[slot[t]]]
    /\ writers' = [writers EXCEPT ![t] = Writing(slot[t])]
    /\ restored' = restored \ {t}
    /\ Goto(t, "probe again")
    /\ UNCHANGED <<tableVars, slot, item, seen, victim, last, overlapped, found, alone>>

Hit(t) == [hit |-> TRUE, key |-> item[t].for, payload |-> loaded[t],
           excused |-> slot[t] \in overlapped \/ t \in restored \/ writers[t] # {}]

(* Mutant: no second look at the key. *)
ProbeAgainNever(t) ==
    /\ pc[t] = "probe again"
    /\ found' = [found EXCEPT ![t] = Hit(t)]
    /\ Goto(t, "idle")
    /\ UNCHANGED <<tableVars, slot, item, seen, loaded, victim, last, overlapped, writers, restored,
                   alone>>

ProbeAgain(t) ==
    /\ pc[t] = "probe again"
    /\ IF key[slot[t]] = item[t].for
       THEN found' = [found EXCEPT ![t] = Hit(t)] /\ Goto(t, "idle") /\ UNCHANGED slot
       ELSE TryNextSlot(t) /\ UNCHANGED found
    /\ UNCHANGED <<tableVars, item, seen, loaded, victim, last, overlapped, writers, restored, alone>>

-----------------------------------------------------------------------------
(* store *)

Store(t, k, d) == Begin(t, [for |-> k, depth |-> d, gen |-> generation], "store look")

(* The two loads at a slot. *)
StoreLook(t) ==
    /\ pc[t] = "store look"
    /\ seen' = [seen EXCEPT ![t] = key[slot[t]]]
    /\ Goto(t, "store load")
    /\ UNCHANGED <<tableVars, slot, item, loaded, victim, ghostVars>>

StoreLoad(t) ==
    /\ pc[t] = "store load"
    /\ loaded' = [loaded EXCEPT ![t] = payload[slot[t]]]
    /\ Goto(t, "store decide")
    /\ UNCHANGED <<tableVars, slot, item, seen, victim, ghostVars>>

(* Mutant: only an empty slot is taken. *)
UsableIfEmpty(t) == seen[t] = ZeroKey

(* The slot is the position's own, or empty. *)
Usable(t) == seen[t] \in {item[t].for, ZeroKey}

(* Mutant: the deeper entry of an earlier search is kept as well. *)
KeptInEverySearch(t) == seen[t] = item[t].for /\ loaded[t].depth > item[t].depth

(* The entry in the table is deeper, and of this search. *)
Kept(t) == /\ seen[t] = item[t].for
           /\ loaded[t].depth > item[t].depth /\ loaded[t].gen = item[t].gen

KeepOld(t) ==
    /\ pc[t] = "store decide" /\ Usable(t) /\ Kept(t)
    /\ last' = [last EXCEPT ![item[t].for] = item[t]]
    /\ Goto(t, "idle")
    /\ UNCHANGED <<tableVars, slot, item, seen, loaded, victim, overlapped, writers, restored, found,
                   alone>>

UseSlot(t) ==
    /\ pc[t] = "store decide" /\ Usable(t) /\ ~Kept(t)
    /\ Goto(t, "store payload")
    /\ UNCHANGED <<tableVars, slot, item, seen, loaded, victim, ghostVars>>

(* Mutant: the age of an entry does not count. *)
ReplacementScoreByDepth(p, gen) == 255 - (p.depth + 1)

ReplacementScore(p, gen) == (IF p.gen = gen THEN 0 ELSE 1024) + (255 - (p.depth + 1))

BetterVictim(t) ==
    \/ victim[t].none
    \/ ReplacementScore(loaded[t], item[t].gen) > ReplacementScore(victim[t].payload, item[t].gen)

PassSlot(t) ==
    /\ pc[t] = "store decide" /\ ~Usable(t)
    /\ LET v == IF BetterVictim(t) THEN [none |-> FALSE, at |-> slot[t], payload |-> loaded[t]]
                ELSE victim[t]
       IN /\ victim' = [victim EXCEPT ![t] = v]
          /\ slot' = [slot EXCEPT ![t] = IF @ = LastSlot THEN v.at ELSE @ + 1]
    /\ Goto(t, IF slot[t] = LastSlot THEN "store payload" ELSE "store look")
    /\ UNCHANGED <<tableVars, item, seen, loaded, ghostVars>>

StorePayload(t) ==
    /\ pc[t] = "store payload"
    /\ payload' = [payload EXCEPT ![slot[t]] = item[t]]
    /\ Goto(t, "store key")
    /\ overlapped' = IF Writing(slot[t]) = {} THEN overlapped ELSE overlapped \cup {slot[t]}
    /\ UNCHANGED <<key, generation, slot, item, seen, loaded, victim, last, writers, restored, found,
                   alone>>

StoreKey(t) ==
    /\ pc[t] = "store key"
    /\ key' = [key EXCEPT ![slot[t]] = item[t].for]
    /\ last' = [last EXCEPT ![item[t].for] = item[t]]
    /\ writers' = [u \in Threads |-> writers[u] \ {t}]
    /\ restored' = restored \cup {u \in Threads :
           /\ pc[u] = "probe again" /\ slot[u] = slot[t]
           /\ item[u].for = item[t].for /\ key[slot[t]] # item[t].for
           /\ t \notin writers[u]}
    /\ Goto(t, "idle")
    /\ UNCHANGED <<payload, generation, slot, item, seen, loaded, victim, overlapped, found, alone>>

-----------------------------------------------------------------------------
ProbeStep(t) == ProbeKey(t) \/ ProbePayload(t) \/ ProbeAgain(t)
StoreStep(t) == \/ StoreLook(t) \/ StoreLoad(t) \/ KeepOld(t) \/ UseSlot(t) \/ PassSlot(t)
                \/ StorePayload(t) \/ StoreKey(t)

Next == \/ NextGeneration \/ Resize
        \/ \E t \in Threads : \/ \E k \in Keys : Probe(t, k)
                              \/ \E k \in Keys, d \in Depths : Store(t, k, d)
                              \/ ProbeStep(t) \/ StoreStep(t)

Spec == Init /\ [][Next]_vars

-----------------------------------------------------------------------------
(* Properties. *)

Places == {"idle", "probe key", "probe payload", "probe again", "store look", "store load",
           "store decide", "store payload", "store key"}

(* Every variable keeps its type. *)
TypeOK ==
    /\ key \in [Slots -> Words] /\ payload \in [Slots -> PayloadType]
    /\ generation \in 1 .. MaxGeneration
    /\ pc \in [Threads -> Places] /\ slot \in [Threads -> Slots]
    /\ item \in [Threads -> PayloadType]
    /\ seen \in [Threads -> Words] /\ loaded \in [Threads -> PayloadType]
    /\ victim \in [Threads -> [none : BOOLEAN, at : Slots, payload : PayloadType]]
    /\ last \in [Keys -> PayloadType]
    /\ overlapped \subseteq Slots /\ restored \subseteq Threads
    /\ writers \in [Threads -> SUBSET Threads]
    /\ found \in [Threads -> [hit : BOOLEAN, key : Words, payload : PayloadType,
                              excused : BOOLEAN]]
    /\ alone \in BOOLEAN

(* What the two looks at the key are worth: a hit is about the position that
   was asked for, unless two stores have overlapped in the slot, or a store was
   between its two writes from the load of the payload to the second look, or
   the key left the slot and came back in between. *)
HitIsExact ==
    \A t \in Threads :
        found[t].hit /\ ~found[t].excused => found[t].payload.for = found[t].key

(* A slot that no two stores have written at once holds one position, or the
   payload of the one store between its two writes. *)
SlotsInv ==
    \A s \in Slots \ overlapped :
        /\ Writing(s) = {} => payload[s].for = key[s]
        /\ \A t \in Writing(s) : payload[s] = item[t] /\ Writing(s) = {t}

(* The stores a probe has met are still between their two writes, and it is
   their payload that it has loaded. *)
WritersInv ==
    \A t \in Threads : pc[t] = "probe again" =>
        \A u \in writers[t] : /\ u \in Writing(slot[t])
                              /\ slot[t] \notin overlapped => loaded[t] = item[u]

(* A probe has loaded what it looks for, or will find another key, or has an
   excuse. *)
ProbesInv ==
    \A t \in Threads : pc[t] = "probe again" =>
        \/ loaded[t].for = item[t].for
        \/ key[slot[t]] # item[t].for
        \/ slot[t] \in overlapped \/ t \in restored \/ writers[t] # {}

(* The inductive invariant behind HitIsExact. *)
IInv == TypeOK /\ SlotsInv /\ WritersInv /\ ProbesInv /\ HitIsExact

(* SharedTranspositionTable::store and probe, as long as no call begins during
   another: a hit is the last entry stored for the position, or a deeper one of
   the same search. *)
LastOrDeeper(p, l) == p = l \/ (p.for = l.for /\ p.gen = l.gen /\ p.depth > l.depth)

HitIsLastOrDeeper ==
    [][\A t \in Threads : alone /\ found'[t].hit /\ ~found[t].hit =>
          LastOrDeeper(found'[t].payload, last[found'[t].key])]_vars

(* As long as no call begins during another, no two slots hold the same
   position, so that a probe, which stops at the first, does not miss the
   better entry. *)
SlotsDiffer == \A r, s \in Slots : r # s /\ key[r] = key[s] => key[r] = ZeroKey

OneSlotPerKey == alone => SlotsDiffer

(* As long as no call begins during another, an entry gives way to that of
   another position only when no slot is empty, none holds an older search
   while it is of this one, and none of its own age is shallower. *)
EvictsTheWorst ==
    [][\A s \in Slots :
          (/\ alone /\ payload'[s] # payload[s]
           /\ {key[s], payload'[s].for} \subseteq Keys /\ key[s] # payload'[s].for) =>
              LET old(r) == payload[r].gen # payload'[s].gen
              IN \A r \in Slots : /\ key[r] # ZeroKey
                                  /\ old(r) => old(s)
                                  /\ old(r) = old(s) => payload[s].depth <= payload[r].depth]_vars

(* An interrupted read is noticed, because the key changes. *)
NoTornRead == \A t \in Threads : found[t].hit => found[t].payload.for = found[t].key
=============================================================================
