--------------------------- MODULE SharedTTProofs ---------------------------
(***************************************************************************)
(* TLAPS proofs about the transposition table: an entry, for every set of  *)
(* plies, scores and moves (TTEntry); a cluster, for every set of threads, *)
(* number of slots and set of keys (SharedTT); and its calls that do not   *)
(* overlap: what the table promises a search that shares it with nobody.   *)
(***************************************************************************)
EXTENDS SharedTT, TTEntry, TLAPS

-----------------------------------------------------------------------------
(* An entry. *)

Int16 == {s \in Int : -32768 <= s /\ s <= 32767}

EntryType == [move : Moves, score : Int16, depth : EntryDepths,
              bound : Bounds, generation : Generations]

(* The entry holds a score that was adjusted at some ply, and was packed. *)
EntryInv ==
    /\ outcome \in OutcomeType
    /\ entry \in EntryType
    /\ word = Pack(entry)
    /\ \E ply \in Plies : entry.score = ScoreToTT(ScoreAt(outcome, ply), ply)

-----------------------------------------------------------------------------
(* Sixteen bits are enough. *)
LEMMA SixteenBits ==
    ASSUME NEW s \in Int, -32768 <= s, s <= 32767
    PROVE  ToInt16(s % 65536) = s
<1>1. CASE s >= 0
  <2>1. s % 65536 = s
    BY <1>1
  <2> QED BY <1>1, <2>1 DEF ToInt16
<1>2. CASE s < 0
  <2>1. s % 65536 = s + 65536
    BY <1>2
  <2> QED BY <1>2, <2>1 DEF ToInt16
<1> QED BY <1>1, <1>2

(* The thresholds, as numbers. *)
LEMMA Thresholds == /\ MateScore = 30000 /\ TerminalWinScore = 29000
                    /\ DecisiveThreshold = 28744
BY DEF MateScore, TerminalWinScore, DecisiveThreshold

(* The constants, element by element. *)
LEMMA Ranges ==
    /\ \A p \in Plies : p \in Int /\ 0 <= p /\ p <= 128
    /\ \A n \in Distances : n \in Int /\ 0 <= n /\ n <= 128
    /\ \A v \in Evaluations : v \in Int /\ -28744 < v /\ v < 28744
    /\ \A d \in EntryDepths : d \in Int /\ -1 <= d /\ d <= 254
    /\ \A g \in Generations : g \in Int /\ 0 <= g /\ g <= 255
<1>1. \A p \in Plies : p \in 0 .. 128
  BY EntryAssumption
<1>2. \A n \in Distances : n \in 0 .. 128
  BY EntryAssumption
<1>3. \A v \in Evaluations : v \in (1 - DecisiveThreshold) .. (DecisiveThreshold - 1)
  BY EntryAssumption
<1>4. \A d \in EntryDepths : d \in -1 .. 254
  BY EntryAssumption
<1>5. \A g \in Generations : g \in 0 .. 255
  BY EntryAssumption
<1>6. \A v \in Evaluations : v \in Int /\ -28744 < v /\ v < 28744
  <2>1. \A d \in Int : \A v \in (1 - d) .. (d - 1) : v \in Int /\ -d < v /\ v < d
    OBVIOUS
  <2>2. PICK d : d = DecisiveThreshold
    OBVIOUS
  <2>3. \A v \in Evaluations : v \in (1 - d) .. (d - 1)
    BY <1>3, <2>2
  <2>4. d = 28744
    BY <2>2, Thresholds
  <2>5. d \in Int
    BY <2>4
  <2>6. \A v \in Evaluations : v \in Int /\ -d < v /\ v < d
    BY <2>1, <2>3, <2>5
  <2> QED BY <2>4, <2>6
<1>7. \A d \in EntryDepths : d \in Int /\ -1 <= d /\ d <= 254
  BY <1>4
<1> QED BY <1>1, <1>2, <1>5, <1>6, <1>7

(* An evaluation is left alone. *)
LEMMA Unadjusted ==
    ASSUME NEW v \in Int, -28744 < v, v < 28744, NEW p
    PROVE  ScoreToTT(v, p) = v /\ ScoreFromTT(v, p) = v
BY Thresholds DEF ScoreToTT, ScoreFromTT

(* A score adjusted at one ply means the same at another. *)
LEMMA Adjusted ==
    ASSUME NEW o \in OutcomeType, NEW p \in Plies
    PROVE  LET s == ScoreToTT(ScoreAt(o, p), p)
           IN /\ s \in Int /\ -32768 <= s /\ s <= 32767
              /\ \A q \in Plies : ScoreFromTT(s, q) = ScoreAt(o, q)
<1>0. \A q \in Plies : q \in Int /\ 0 <= q /\ q <= 128
  BY Ranges
<1>1. CASE o.kind = "evaluation"
  <2>0. o.value \in Evaluations
    BY <1>1 DEF OutcomeType
  <2>1. o.value \in Int /\ -28744 < o.value /\ o.value < 28744
    BY <2>0, Ranges
  <2>2. \A q \in Plies : ScoreAt(o, q) = o.value
    BY <1>1 DEF ScoreAt
  <2>3. \A q \in Plies : ScoreToTT(o.value, q) = o.value /\ ScoreFromTT(o.value, q) = o.value
    BY <2>1, Unadjusted
  <2>4. ScoreToTT(ScoreAt(o, p), p) = o.value
    BY <2>2, <2>3
  <2> QED BY <2>1, <2>2, <2>3, <2>4
<1>2. CASE o.kind \in {"mate", "terminal"}
  <2>0. o.in \in Distances /\ o.wins \in BOOLEAN
    BY <1>2 DEF OutcomeType
  <2>1. PICK n \in Int : n = o.in /\ 0 <= n /\ n <= 128
    BY <2>0, Ranges
  <2>2. PICK B \in Int : /\ 29000 <= B /\ B <= 30000
                         /\ \A q \in Plies : ScoreAt(o, q) = Signed(o.wins, B - (q + n))
    BY <1>2, <2>1, Thresholds DEF ScoreAt
  <2>3. CASE o.wins
    <3>1. \A q \in Plies : ScoreAt(o, q) = B - (q + n)
      BY <2>2, <2>3 DEF Signed
    <3>2. ScoreToTT(ScoreAt(o, p), p) = B - n
      <4>1. p \in Int /\ 0 <= p /\ p <= 128
        BY <1>0
      <4> QED BY <4>1, <2>1, <2>2, <3>1, Thresholds DEF ScoreToTT
    <3>3. ASSUME NEW q \in Plies
          PROVE  ScoreFromTT(B - n, q) = B - (q + n)
      <4>1. q \in Int /\ 0 <= q /\ q <= 128
        BY <1>0
      <4> QED BY <4>1, <2>1, <2>2, Thresholds DEF ScoreFromTT
    <3>4. B - n \in Int /\ -32768 <= B - n /\ B - n <= 32767
      BY <2>1, <2>2
    <3> QED BY <3>1, <3>2, <3>3, <3>4
  <2>4. CASE ~o.wins
    <3>1. \A q \in Plies : ScoreAt(o, q) = -(B - (q + n))
      BY <2>2, <2>4 DEF Signed
    <3>2. ScoreToTT(ScoreAt(o, p), p) = -(B - n)
      <4>1. p \in Int /\ 0 <= p /\ p <= 128
        BY <1>0
      <4> QED BY <4>1, <2>1, <2>2, <3>1, Thresholds DEF ScoreToTT
    <3>3. ASSUME NEW q \in Plies
          PROVE  ScoreFromTT(-(B - n), q) = -(B - (q + n))
      <4>1. q \in Int /\ 0 <= q /\ q <= 128
        BY <1>0
      <4> QED BY <4>1, <2>1, <2>2, Thresholds DEF ScoreFromTT
    <3>4. -(B - n) \in Int /\ -32768 <= -(B - n) /\ -(B - n) <= 32767
      BY <2>1, <2>2
    <3> QED BY <3>1, <3>2, <3>3, <3>4
  <2> QED BY <2>0, <2>3, <2>4
<1>3. o.kind \in {"mate", "terminal", "evaluation"}
  BY DEF OutcomeType
<1> QED BY <1>1, <1>2, <1>3

(* A field and what lies above it come back as they went in. *)
LEMMA SevenBits ==
    ASSUME NEW a \in 0 .. 127, NEW n \in Int
    PROVE  (a + 128 * n) % 128 = a /\ (a + 128 * n) \div 128 = n
BY SMT

LEMMA FourBits ==
    ASSUME NEW a \in 0 .. 15, NEW n \in Int
    PROVE  (a + 16 * n) % 16 = a /\ (a + 16 * n) \div 16 = n
BY SMT

LEMMA OneBit ==
    ASSUME NEW a \in 0 .. 1, NEW n \in Int
    PROVE  (a + 2 * n) % 2 = a /\ (a + 2 * n) \div 2 = n
BY SMT

(* The five fields of a move come back as they went in. *)
LEMMA Fields ==
    ASSUME NEW a \in 0 .. 127, NEW b \in 0 .. 127, NEW c \in 0 .. 15,
           NEW d \in 0 .. 1, NEW e \in 0 .. 1
    PROVE  DecodeMove(MoveBits(a, b, c, d, e)) =
               [from |-> a - 1, to |-> b, piece |-> c, promote |-> d, drop |-> e]
<1>1. PICK n1 \in Int : n1 = d + 2 * e
  BY SMT
<1>2. PICK n2 \in Int : n2 = c + 16 * n1
  BY SMT
<1>3. PICK n3 \in Int : n3 = b + 128 * n2
  BY SMT
<1>4. PICK n4 \in Int : n4 = a + 128 * n3
  BY SMT
<1>5. MoveBits(a, b, c, d, e) = n4
  BY <1>1, <1>2, <1>3, <1>4, Zenon DEF MoveBits
<1>6. n4 % 128 = a /\ n4 \div 128 = n3
  BY <1>4, SMT
<1>7. n3 % 128 = b /\ n3 \div 128 = n2
  BY <1>3, SMT
<1>8. n2 % 16 = c /\ n2 \div 16 = n1
  BY <1>2, SMT
<1>9. n1 % 2 = d /\ n1 \div 2 = e /\ e % 2 = e
  BY <1>1, SMT
<1> QED BY <1>5, <1>6, <1>7, <1>8, <1>9, Zenon DEF DecodeMove

LEMMA MoveComesBack ==
    ASSUME NEW mv \in MoveType
    PROVE  IF Valid(mv) THEN DecodeMove(EncodeMove(mv)) = mv
                        ELSE ~Valid(DecodeMove(EncodeMove(mv)))
<1>0. /\ mv.from \in -1 .. 80 /\ mv.to \in -1 .. 80 /\ mv.piece \in 0 .. 14
      /\ mv.promote \in 0 .. 1 /\ mv.drop \in 0 .. 1
      /\ mv = [from |-> mv.from, to |-> mv.to, piece |-> mv.piece,
               promote |-> mv.promote, drop |-> mv.drop]
  BY DEF MoveType, SquareCount
<1>1. CASE Valid(mv)
  <2>1. PICK a \in 0 .. 127 : a = mv.from + 1 /\ a - 1 = mv.from
    BY <1>0
  <2>2. PICK b \in 0 .. 127 : b = mv.to
    BY <1>0, <1>1 DEF Valid
  <2>3. PICK c \in 0 .. 15 : c = mv.piece
    BY <1>0
  <2>4. EncodeMove(mv) = MoveBits(a, b, c, mv.promote, mv.drop)
    BY <1>1, <2>1, <2>2, <2>3 DEF EncodeMove
  <2>5. DecodeMove(MoveBits(a, b, c, mv.promote, mv.drop)) =
          [from |-> a - 1, to |-> b, piece |-> c, promote |-> mv.promote, drop |-> mv.drop]
    BY <1>0, Fields, Zenon
  <2> QED BY <1>0, <1>1, <2>1, <2>2, <2>3, <2>4, <2>5, Zenon
<1>2. CASE ~Valid(mv)
  <2>1. EncodeMove(mv) = MoveBits(0, 0, 0, mv.promote, mv.drop)
    BY <1>2 DEF EncodeMove
  <2>2. 0 \in 0 .. 127 /\ 0 \in 0 .. 15
    OBVIOUS
  <2>3. DecodeMove(EncodeMove(mv)) =
          [from |-> 0 - 1, to |-> 0, piece |-> 0, promote |-> mv.promote, drop |-> mv.drop]
    BY <1>0, <2>1, <2>2, Fields, ZenonT(60)
  <2> QED BY <1>2, <2>3 DEF Valid
<1> QED BY <1>1, <1>2

-----------------------------------------------------------------------------
LEMMA EntryOfInv ==
    ASSUME NEW o \in OutcomeType, NEW ply \in Plies, NEW depth \in EntryDepths,
           NEW mv \in Moves, NEW g \in Generations, NEW alpha, NEW beta
    PROVE  LET e == EntryOf(o, ply, depth, mv, g, alpha, beta)
           IN e \in EntryType /\ e.score = ScoreToTT(ScoreAt(o, ply), ply)
<1>1. BoundOf(ScoreAt(o, ply), alpha, beta) \in Bounds
  BY DEF BoundOf, Bounds
<1>2. ScoreToTT(ScoreAt(o, ply), ply) \in Int16
  BY Adjusted DEF Int16
<1> QED BY <1>1, <1>2 DEF EntryOf, EntryType

LEMMA InitEntry == EntryInit => EntryInv
<1> SUFFICES ASSUME EntryInit PROVE EntryInv
  OBVIOUS
<1>1. PICK i \in Inputs :
        /\ outcome = i[1]
        /\ entry = EntryOf(i[1], i[2], i[3], i[4], i[5], -Infinity, Infinity)
        /\ word = Pack(entry)
  BY DEF EntryInit
<1>2. i[1] \in OutcomeType /\ i[2] \in Plies /\ i[3] \in EntryDepths /\ i[4] \in Moves
      /\ i[5] \in Generations
  BY DEF Inputs
<1> QED BY <1>1, <1>2, EntryOfInv DEF EntryInv

LEMMA NextEntry == EntryInv /\ [EntryNext]_entryVars => EntryInv'
<1> SUFFICES ASSUME EntryInv, [EntryNext]_entryVars PROVE EntryInv'
  OBVIOUS
<1>1. CASE EntryNext
  <2>1. PICK i \in Inputs : StoreTT(i[1], i[2], i[3], i[4], i[5])
    BY <1>1 DEF EntryNext
  <2>2. i[1] \in OutcomeType /\ i[2] \in Plies /\ i[3] \in EntryDepths /\ i[4] \in Moves
        /\ i[5] \in Generations
    BY DEF Inputs
  <2>3. PICK alpha, beta : entry' = EntryOf(i[1], i[2], i[3], i[4], i[5], alpha, beta)
    BY <2>1 DEF StoreTT
  <2> QED BY <2>1, <2>2, <2>3, EntryOfInv DEF EntryInv, StoreTT
<1>2. CASE UNCHANGED entryVars
  BY <1>2 DEF EntryInv, entryVars
<1> QED BY <1>1, <1>2

(* What is packed comes back: the parts ScoreSurvives and EntrySurvives need. *)
LEMMA UnpackPack ==
    ASSUME EntryInv
    PROVE  LET e == Unpack(word)
           IN /\ e.score = entry.score /\ e.depth = entry.depth
              /\ e.bound = entry.bound /\ e.generation = entry.generation
              /\ e.move = DecodeMove(EncodeMove(entry.move))
<1>0. entry.score \in Int16 /\ entry.depth \in EntryDepths /\ entry.generation \in Generations
  BY DEF EntryInv, EntryType
<1>1. /\ entry.score \in Int /\ -32768 <= entry.score /\ entry.score <= 32767
      /\ entry.depth \in Int /\ -1 <= entry.depth /\ entry.depth <= 254
      /\ entry.generation \in Int /\ 0 <= entry.generation /\ entry.generation <= 255
  BY <1>0, Ranges DEF Int16
<1>2. ToInt16(entry.score % 65536) = entry.score
  BY <1>1, SixteenBits
<1>3. ((IF entry.depth < -1 THEN -1 ELSE entry.depth) + 1) % 256 = entry.depth + 1
  BY <1>1
<1>4. entry.generation % 256 = entry.generation
  BY <1>1
<1> QED BY <1>1, <1>2, <1>3, <1>4 DEF EntryInv, Pack, Unpack

(* The inductive invariant of the entry holds in every state. *)
THEOREM EntryInvariance == EntrySpec => []EntryInv
BY InitEntry, NextEntry, PTL DEF EntrySpec

(* A score survives the table: written at any ply, it names the same outcome at
   the same distance when read at any other. *)
THEOREM ScoresSurvive == EntrySpec => []ScoreSurvives
<1>1. EntryInv => ScoreSurvives
  <2> SUFFICES ASSUME EntryInv PROVE ScoreSurvives
    OBVIOUS
  <2>1. PICK p \in Plies : entry.score = ScoreToTT(ScoreAt(outcome, p), p)
    BY DEF EntryInv
  <2>2. \A q \in Plies : ScoreFromTT(entry.score, q) = ScoreAt(outcome, q)
    BY <2>1, Adjusted DEF EntryInv
  <2> QED BY <2>2, UnpackPack DEF ScoreSurvives, ScoreReadAt
<1> QED BY <1>1, EntryInvariance, PTL

(* The 54 bits of the payload hold the whole entry. *)
THEOREM EntriesSurvive == EntrySpec => []EntrySurvives
<1>1. EntryInv => EntrySurvives
  <2> SUFFICES ASSUME EntryInv PROVE EntrySurvives
    OBVIOUS
  <2>1. entry.move \in MoveType
    BY EntryAssumption DEF EntryInv, EntryType
  <2> QED BY <2>1, UnpackPack, MoveComesBack DEF EntrySurvives
<1> QED BY <1>1, EntryInvariance, PTL

-----------------------------------------------------------------------------
(* A cluster, whatever the calls. *)

LEMMA InitIInv == Init => IInv
<1> SUFFICES ASSUME Init PROVE IInv
  OBVIOUS
<1> USE DEF Init
<1>1. ZeroKey \in Words /\ Empty \in PayloadType /\ 0 \in Slots /\ "idle" \in Places
  BY TableAssumption DEF Words, Empty, PayloadType, Slots, Places
<1>2. Empty.for = ZeroKey
  BY DEF Empty
<1>3. TypeOK
  BY <1>1, TableAssumption DEF TypeOK, NoVictim, Miss
<1>4. SlotsInv
  BY <1>2 DEF SlotsInv, Writing
<1>5. WritersInv /\ ProbesInv
  BY DEF WritersInv, ProbesInv
<1>6. HitIsExact
  BY DEF HitIsExact, Miss
<1> QED BY <1>3, <1>4, <1>5, <1>6 DEF IInv

-----------------------------------------------------------------------------
(* Types. *)

LEMMA TypeStep == TypeOK /\ [Next]_vars => TypeOK'
<1> SUFFICES ASSUME TypeOK, [Next]_vars PROVE TypeOK'
  OBVIOUS
<1> USE DEF TypeOK, Goto
<1>1. CASE NextGeneration
  <2>1. (generation % MaxGeneration) + 1 \in 1 .. MaxGeneration
    BY TableAssumption
  <2> QED BY <1>1, <2>1 DEF NextGeneration, threadVars, ghostVars
<1>0. CASE Resize
  <2>1. Empty \in PayloadType /\ ZeroKey \in Words
    BY TableAssumption DEF Empty, PayloadType, Words
  <2> QED BY <1>0, <2>1 DEF Resize, threadVars
<1>2. ASSUME NEW t \in Threads, NEW e \in PayloadType, NEW place \in Places, Begin(t, e, place)
      PROVE  TypeOK'
  <2>1. Empty \in PayloadType /\ 0 \in Slots /\ ZeroKey \in Words
    BY TableAssumption DEF Empty, PayloadType, Words, Slots
  <2>2. NoVictim \in [none : BOOLEAN, at : Slots, payload : PayloadType]
    BY <2>1 DEF NoVictim
  <2>3. Miss \in [hit : BOOLEAN, key : Words, payload : PayloadType, excused : BOOLEAN]
    BY <2>1 DEF Miss
  <2> QED BY <1>2, <2>1, <2>2, <2>3 DEF Begin, tableVars
<1>3. ASSUME NEW t \in Threads, ProbeStep(t) PROVE TypeOK'
  <2>0. TryNextSlot(t) => pc' \in [Threads -> Places] /\ slot' \in [Threads -> Slots]
    <3>1. slot[t] # LastSlot => slot[t] + 1 \in Slots
      BY TableAssumption DEF Slots
    <3> QED BY <3>1, ZenonT(60) DEF TryNextSlot, Places
  <2>1. CASE ProbeKey(t)
    BY <2>0, <2>1 DEF ProbeKey, Places, tableVars, ghostVars
  <2>2. CASE ProbePayload(t)
    BY <2>2 DEF ProbePayload, Places, Writing, tableVars
  <2>3. CASE ProbeAgain(t)
    <3>1. item[t].for \in Words
      BY DEF PayloadType
    <3>2. Hit(t) \in [hit : BOOLEAN, key : Words, payload : PayloadType, excused : BOOLEAN]
      BY <3>1 DEF Hit
    <3>3. pc' \in [Threads -> Places] /\ slot' \in [Threads -> Slots]
      BY <2>0, <2>3 DEF ProbeAgain, Places
    <3>4. found' \in [Threads -> [hit : BOOLEAN, key : Words, payload : PayloadType,
                                  excused : BOOLEAN]]
      BY <2>3, <3>2 DEF ProbeAgain
    <3> QED BY <2>3, <3>3, <3>4 DEF ProbeAgain, tableVars
  <2> QED BY <1>3, <2>1, <2>2, <2>3 DEF ProbeStep
<1>4. ASSUME NEW t \in Threads, StoreStep(t) PROVE TypeOK'
  <2>1. CASE StoreLook(t)
    BY <2>1 DEF StoreLook, Places, tableVars, ghostVars
  <2>2. CASE StoreLoad(t)
    BY <2>2 DEF StoreLoad, Places, tableVars, ghostVars
  <2>3. CASE KeepOld(t)
    BY <2>3 DEF KeepOld, Places, tableVars
  <2>4. CASE UseSlot(t)
    BY <2>4 DEF UseSlot, Places, tableVars, threadVars, ghostVars
  <2>5. CASE PassSlot(t)
    <3> DEFINE v == IF BetterVictim(t)
                    THEN [none |-> FALSE, at |-> slot[t], payload |-> loaded[t]]
                    ELSE victim[t]
    <3>1. v \in [none : BOOLEAN, at : Slots, payload : PayloadType]
      OBVIOUS
    <3>2. v.at \in Slots
      BY <3>1
    <3>3. slot[t] # LastSlot => slot[t] + 1 \in Slots
      BY TableAssumption DEF Slots
    <3>4. slot' \in [Threads -> Slots] /\ victim' \in [Threads -> [none : BOOLEAN, at : Slots, payload : PayloadType]]
      BY <2>5, <3>1, <3>2, <3>3 DEF PassSlot
    <3> QED BY <2>5, <3>4 DEF PassSlot, Places, tableVars, ghostVars
  <2>6. CASE StorePayload(t)
    BY <2>6 DEF StorePayload, Places
  <2>7. CASE StoreKey(t)
    <3>1. item[t].for \in Words
      BY DEF PayloadType
    <3>2. key' \in [Slots -> Words] /\ last' \in [Keys -> PayloadType]
      BY <2>7, <3>1 DEF StoreKey
    <3>3. writers' \in [Threads -> SUBSET Threads] /\ restored' \subseteq Threads
      BY <2>7 DEF StoreKey
    <3> QED BY <2>7, <3>2, <3>3 DEF StoreKey, Places
  <2> QED BY <1>4, <2>1, <2>2, <2>3, <2>4, <2>5, <2>6, <2>7 DEF StoreStep
<1>5. CASE UNCHANGED vars
  BY <1>5 DEF vars, tableVars, threadVars, ghostVars
<1>6. ASSUME NEW t \in Threads, NEW k \in Keys, Probe(t, k) PROVE TypeOK'
  <2>1. [Empty EXCEPT !.for = k] \in PayloadType /\ "probe key" \in Places
    <3>1. [Empty EXCEPT !.for = k] = [for |-> k, depth |-> -1, gen |-> 0]
      BY DEF Empty
    <3>2. k \in Words /\ 0 \in 0 .. MaxGeneration
      BY TableAssumption DEF Words
    <3>3. [for |-> k, depth |-> -1, gen |-> 0] \in PayloadType
      BY <3>2 DEF PayloadType
    <3> QED BY <3>1, <3>3 DEF Places
  <2> QED BY <1>2, <1>6, <2>1 DEF Probe
<1>7. ASSUME NEW t \in Threads, NEW k \in Keys, NEW d \in Depths, Store(t, k, d) PROVE TypeOK'
  <2>1. [for |-> k, depth |-> d, gen |-> generation] \in PayloadType /\ "store look" \in Places
    <3>1. k \in Words /\ generation \in 0 .. MaxGeneration
      BY TableAssumption DEF Words
    <3> QED BY <3>1 DEF PayloadType, Places
  <2> QED BY <1>2, <1>7, <2>1 DEF Store
<1> QED BY <1>0, <1>1, <1>3, <1>4, <1>5, <1>6, <1>7 DEF Next

-----------------------------------------------------------------------------
(* The steps that write nothing to the table. *)

(* A step of one thread that writes nothing and is not about to: what is known
   of the slots and of the other threads' probes stays. *)
LEMMA Frame ==
    ASSUME SlotsInv, WritersInv, ProbesInv, NEW t \in Threads,
           UNCHANGED <<key, payload, overlapped, writers, restored>>,
           pc[t] # "store key", pc'[t] \notin {"store key", "probe again"},
           \A u \in Threads \ {t} : /\ pc'[u] = pc[u] /\ slot'[u] = slot[u]
                                    /\ item'[u] = item[u] /\ loaded'[u] = loaded[u]
    PROVE  SlotsInv' /\ WritersInv' /\ ProbesInv'
<1>1. \A s : Writing(s)' = Writing(s)
  BY DEF Writing
<1>2. \A s : \A u \in Writing(s) : item'[u] = item[u]
  BY DEF Writing
<1>3. SlotsInv'
  BY <1>1, <1>2 DEF SlotsInv
<1>4. WritersInv'
  BY <1>1, <1>2, ZenonT(60) DEF WritersInv
<1>5. ProbesInv'
  BY DEF ProbesInv
<1> QED BY <1>3, <1>4, <1>5

(* A step that touches none of it at all. *)
LEMMA Still ==
    ASSUME SlotsInv, WritersInv, ProbesInv,
           UNCHANGED <<key, payload, overlapped, writers, restored, pc, slot, item, loaded>>
    PROVE  SlotsInv' /\ WritersInv' /\ ProbesInv'
<1>1. \A s : Writing(s)' = Writing(s)
  BY DEF Writing
<1> QED BY <1>1 DEF SlotsInv, WritersInv, ProbesInv

(* An empty table, with nobody at it. *)
LEMMA ResizeStep ==
    ASSUME IInv, Resize PROVE SlotsInv' /\ WritersInv' /\ ProbesInv'
<1>1. \A t \in Threads : pc'[t] = "idle"
  BY DEF Resize, threadVars
<1>2. Empty.for = ZeroKey
  BY DEF Empty
<1>3. SlotsInv'
  BY <1>1, <1>2 DEF Resize, SlotsInv, Writing
<1>4. WritersInv' /\ ProbesInv'
  BY <1>1 DEF WritersInv, ProbesInv
<1> QED BY <1>3, <1>4

LEMMA QuietStep ==
    ASSUME IInv, NEW t \in Threads,
           \/ \E e, place : Begin(t, e, place) /\ place \in {"probe key", "store look"}
           \/ ProbeKey(t) \/ ProbeAgain(t) \/ StoreLook(t) \/ StoreLoad(t)
           \/ KeepOld(t) \/ PassSlot(t)
           \/ UseSlot(t)
    PROVE  SlotsInv' /\ WritersInv' /\ ProbesInv'
<1> USE DEF IInv, TypeOK, Goto
<1>1. UNCHANGED <<key, payload, overlapped, writers, restored>>
  BY DEF Begin, ProbeKey, ProbeAgain, StoreLook, StoreLoad, KeepOld, PassSlot, UseSlot,
         tableVars, ghostVars
<1>2. pc[t] # "store key"
  BY DEF Begin, ProbeKey, ProbeAgain, StoreLook, StoreLoad, KeepOld, PassSlot, UseSlot
<1>3. pc'[t] \notin {"store key", "probe again"}
  BY DEF Begin, ProbeKey, ProbeAgain, StoreLook, StoreLoad, KeepOld, PassSlot, UseSlot, TryNextSlot
<1>4. \A u \in Threads \ {t} : /\ pc'[u] = pc[u] /\ slot'[u] = slot[u]
                               /\ item'[u] = item[u] /\ loaded'[u] = loaded[u]
  BY DEF Begin, ProbeKey, ProbeAgain, StoreLook, StoreLoad, KeepOld, PassSlot, UseSlot, TryNextSlot
<1> QED BY <1>1, <1>2, <1>3, <1>4, Frame

-----------------------------------------------------------------------------
(* The load of a payload. *)

LEMMA ProbePayloadStep ==
    ASSUME IInv, NEW t \in Threads, ProbePayload(t)
    PROVE  SlotsInv' /\ WritersInv' /\ ProbesInv'
<1> USE DEF IInv, TypeOK, Goto
<1>1. UNCHANGED <<key, payload, overlapped, slot, item>>
  BY DEF ProbePayload, tableVars
<1>2. /\ pc[t] = "probe payload" /\ pc'[t] = "probe again"
      /\ loaded'[t] = payload[slot[t]] /\ writers'[t] = Writing(slot[t])
      /\ \A u \in Threads \ {t} : /\ pc'[u] = pc[u] /\ loaded'[u] = loaded[u]
                                  /\ writers'[u] = writers[u]
                                  /\ u \in restored' <=> u \in restored
  BY DEF ProbePayload
<1>3. \A s : Writing(s)' = Writing(s)
  BY <1>1, <1>2 DEF Writing
<1>4. SlotsInv'
  BY <1>1, <1>3 DEF SlotsInv
<1>5. WritersInv'
  <2> SUFFICES ASSUME NEW u \in Threads, pc'[u] = "probe again", NEW w \in writers'[u]
               PROVE  /\ w \in Writing(slot[u])'
                      /\ (slot[u] \notin overlapped => loaded[u] = item[w])'
    BY DEF WritersInv
  <2>1. CASE u = t
    <3>1. w \in Writing(slot[t]) /\ loaded'[t] = payload[slot[t]]
      BY <1>2, <2>1
    <3>2. slot[t] \notin overlapped => payload[slot[t]] = item[w]
      BY <3>1 DEF SlotsInv
    <3> QED BY <1>1, <1>3, <2>1, <3>1, <3>2
  <2>2. CASE u # t
    <3>1. w \in Writing(slot[u]) /\ (slot[u] \notin overlapped => loaded[u] = item[w])
      BY <1>2, <2>2 DEF WritersInv
    <3> QED BY <1>1, <1>2, <1>3, <2>2, <3>1
  <2> QED BY <2>1, <2>2
<1>6. ProbesInv'
  <2> SUFFICES ASSUME NEW u \in Threads, pc'[u] = "probe again"
               PROVE  \/ loaded'[u].for = item'[u].for
                      \/ key'[slot'[u]] # item'[u].for
                      \/ slot'[u] \in overlapped' \/ u \in restored' \/ writers'[u] # {}
    BY DEF ProbesInv
  <2>1. CASE u = t
    <3>1. CASE slot[t] \in overlapped \/ Writing(slot[t]) # {}
      BY <1>1, <1>2, <2>1, <3>1
    <3>2. CASE slot[t] \notin overlapped /\ Writing(slot[t]) = {}
      <4>1. loaded'[t].for = key[slot[t]]
        BY <1>2, <3>2, ZenonT(60) DEF SlotsInv
      <4> QED BY <1>1, <2>1, <4>1
    <3> QED BY <3>1, <3>2
  <2>2. CASE u # t
    BY <1>1, <1>2, <2>2 DEF ProbesInv
  <2> QED BY <2>1, <2>2
<1> QED BY <1>4, <1>5, <1>6

(* The first write of a store. *)
LEMMA StorePayloadStep ==
    ASSUME IInv, NEW t \in Threads, StorePayload(t)
    PROVE  SlotsInv' /\ WritersInv' /\ ProbesInv'
<1> USE DEF IInv, TypeOK, Goto
<1>1. UNCHANGED <<key, slot, item, loaded, writers, restored>>
  BY DEF StorePayload
<1>2. /\ pc[t] = "store payload" /\ pc'[t] = "store key"
      /\ payload'[slot[t]] = item[t]
      /\ \A s \in Slots \ {slot[t]} : payload'[s] = payload[s]
      /\ \A u \in Threads \ {t} : pc'[u] = pc[u]
  BY DEF StorePayload
<1>3. overlapped \subseteq overlapped' /\ (Writing(slot[t]) = {} \/ slot[t] \in overlapped')
  BY DEF StorePayload
<1>4. /\ Writing(slot[t])' = Writing(slot[t]) \cup {t}
      /\ \A s \in Slots \ {slot[t]} : Writing(s)' = Writing(s)
  BY <1>1, <1>2 DEF Writing
<1>5. SlotsInv'
  <2> SUFFICES ASSUME NEW s \in Slots \ overlapped'
               PROVE  /\ Writing(s)' = {} => payload'[s].for = key'[s]
                      /\ \A u \in Writing(s)' : payload'[s] = item'[u] /\ Writing(s)' = {u}
    BY DEF SlotsInv
  <2>1. CASE s = slot[t]
    BY <1>1, <1>2, <1>3, <1>4, <2>1
  <2>2. CASE s # slot[t]
    <3>1. Writing(s)' = Writing(s) /\ payload'[s] = payload[s] /\ s \notin overlapped
      BY <1>2, <1>3, <1>4, <2>2
    <3> QED BY <1>1, <3>1 DEF SlotsInv
  <2> QED BY <2>1, <2>2
<1>6. WritersInv'
  <2> SUFFICES ASSUME NEW u \in Threads, pc'[u] = "probe again", NEW w \in writers'[u]
               PROVE  /\ w \in Writing(slot[u])'
                      /\ (slot[u] \notin overlapped => loaded[u] = item[w])'
    BY DEF WritersInv
  <2>1. u # t /\ pc[u] = "probe again"
    BY <1>2
  <2>2. w \in Writing(slot[u]) /\ (slot[u] \notin overlapped => loaded[u] = item[w])
    BY <1>1, <2>1 DEF WritersInv
  <2> QED BY <1>1, <1>3, <1>4, <2>2
<1>7. ProbesInv'
  BY <1>1, <1>2, <1>3 DEF ProbesInv
<1> QED BY <1>5, <1>6, <1>7

(* The second write of a store. *)
LEMMA StoreKeyStep ==
    ASSUME IInv, NEW t \in Threads, StoreKey(t)
    PROVE  SlotsInv' /\ WritersInv' /\ ProbesInv'
<1> USE DEF IInv, TypeOK, Goto
<1>1. UNCHANGED <<payload, slot, item, loaded, overlapped>>
  BY DEF StoreKey
<1>2. /\ pc[t] = "store key" /\ pc'[t] = "idle"
      /\ key'[slot[t]] = item[t].for
      /\ \A s \in Slots \ {slot[t]} : key'[s] = key[s]
      /\ \A u \in Threads \ {t} : pc'[u] = pc[u]
      /\ \A u \in Threads : writers'[u] = writers[u] \ {t}
  BY DEF StoreKey
<1>3. /\ restored \subseteq restored'
      /\ \A u \in Threads :
             /\ pc[u] = "probe again" /\ slot[u] = slot[t] /\ item[u].for = item[t].for
             /\ key[slot[t]] # item[t].for /\ t \notin writers[u]
             => u \in restored'
  BY DEF StoreKey
<1>4. /\ t \in Writing(slot[t]) /\ \A s \in Slots \ {slot[t]} : t \notin Writing(s)
      /\ \A s \in Slots : Writing(s)' = Writing(s) \ {t}
  BY <1>1, <1>2 DEF Writing
<1>5. SlotsInv'
  <2> SUFFICES ASSUME NEW s \in Slots \ overlapped
               PROVE  /\ Writing(s)' = {} => payload[s].for = key'[s]
                      /\ \A u \in Writing(s)' : payload[s] = item[u] /\ Writing(s)' = {u}
    BY <1>1 DEF SlotsInv
  <2>1. CASE s = slot[t]
    <3>1. Writing(s) = {t} /\ payload[s] = item[t]
      BY <1>4, <2>1 DEF SlotsInv
    <3>2. Writing(s)' = {}
      BY <1>4, <3>1
    <3> QED BY <1>2, <2>1, <3>1, <3>2
  <2>2. CASE s # slot[t]
    <3>1. Writing(s)' = Writing(s)
      <4>1. Writing(s)' = Writing(s) \ {t} /\ t \notin Writing(s)
        BY <1>4, <2>2
      <4> QED BY <4>1
    <3>2. key'[s] = key[s]
      BY <1>2, <2>2
    <3> QED BY <3>1, <3>2 DEF SlotsInv
  <2> QED BY <2>1, <2>2
<1>6. WritersInv'
  <2> SUFFICES ASSUME NEW u \in Threads, pc'[u] = "probe again", NEW w \in writers'[u]
               PROVE  /\ w \in Writing(slot[u])'
                      /\ (slot[u] \notin overlapped => loaded[u] = item[w])'
    BY DEF WritersInv
  <2>1. u # t /\ pc[u] = "probe again" /\ w \in writers[u] /\ w # t
    BY <1>2
  <2>2. w \in Writing(slot[u]) /\ (slot[u] \notin overlapped => loaded[u] = item[w])
    BY <2>1 DEF WritersInv
  <2> QED BY <1>1, <1>4, <2>1, <2>2
<1>7. ProbesInv'
  <2> SUFFICES ASSUME NEW u \in Threads, pc'[u] = "probe again",
                      slot[u] \notin overlapped, u \notin restored', writers'[u] = {},
                      key'[slot[u]] = item[u].for
               PROVE  loaded[u].for = item[u].for
    BY <1>1 DEF ProbesInv
  <2>1. u # t /\ pc[u] = "probe again" /\ writers[u] \subseteq {t} /\ u \notin restored
    BY <1>2, <1>3
  <2>2. CASE t \in writers[u]
    <3>1. t \in Writing(slot[u]) /\ loaded[u] = item[t]
      BY <2>1, <2>2 DEF WritersInv
    <3>2. slot[u] = slot[t]
      BY <3>1 DEF Writing
    <3> QED BY <1>2, <3>1, <3>2
  <2>3. CASE t \notin writers[u]
    <3>1. loaded[u].for = item[u].for \/ key[slot[u]] # item[u].for
      <4>1. writers[u] = {}
        BY <2>1, <2>3
      <4> QED BY <2>1, <4>1 DEF ProbesInv
    <3> QED BY <1>2, <1>3, <2>1, <2>3, <3>1
  <2> QED BY <2>2, <2>3
<1> QED BY <1>5, <1>6, <1>7

-----------------------------------------------------------------------------
(* What a probe returns. *)

LEMMA HitStep == IInv /\ [Next]_vars => HitIsExact'
<1> SUFFICES ASSUME IInv, [Next]_vars PROVE HitIsExact'
  OBVIOUS
<1> USE DEF IInv, TypeOK, Goto
<1>1. CASE UNCHANGED found
  BY <1>1 DEF HitIsExact
<1>2. ASSUME NEW t \in Threads, NEW e, NEW place, Begin(t, e, place) PROVE HitIsExact'
  <2>1. found' = [found EXCEPT ![t] = Miss] /\ ~Miss.hit
    BY <1>2 DEF Begin, Miss
  <2> QED BY <2>1 DEF HitIsExact
<1>3. ASSUME NEW t \in Threads, ProbeAgain(t) PROVE HitIsExact'
  <2>1. CASE key[slot[t]] = item[t].for
    <3>1. found' = [found EXCEPT ![t] = Hit(t)]
      BY <1>3, <2>1 DEF ProbeAgain
    <3>2. ~Hit(t).excused => Hit(t).payload.for = Hit(t).key
      BY <1>3, <2>1 DEF Hit, ProbeAgain, ProbesInv
    <3> QED BY <3>1, <3>2 DEF HitIsExact
  <2>2. CASE key[slot[t]] # item[t].for
    BY <1>1, <1>3, <2>2 DEF ProbeAgain
  <2> QED BY <2>1, <2>2
<1>4. CASE UNCHANGED vars
  BY <1>1, <1>4 DEF vars, ghostVars
<1>5. CASE NextGeneration \/ Resize
  BY <1>1, <1>5 DEF NextGeneration, Resize, ghostVars
<1>6. ASSUME NEW t \in Threads, \/ \E k \in Keys : Probe(t, k)
                                \/ \E k \in Keys, d \in Depths : Store(t, k, d)
      PROVE  HitIsExact'
  BY <1>2, <1>6 DEF Probe, Store
<1>7. ASSUME NEW t \in Threads, ProbeStep(t) PROVE HitIsExact'
  BY <1>1, <1>3, <1>7 DEF ProbeStep, ProbeKey, ProbePayload, ghostVars
<1>8. ASSUME NEW t \in Threads, StoreStep(t) PROVE HitIsExact'
  <2>1. UNCHANGED found
    BY <1>8 DEF StoreStep, StoreLook, StoreLoad, KeepOld, UseSlot, PassSlot, StorePayload,
                StoreKey, ghostVars
  <2> QED BY <1>1, <2>1
<1> QED BY <1>4, <1>5, <1>6, <1>7, <1>8 DEF Next

LEMMA NextIInv == IInv /\ [Next]_vars => IInv'
<1> SUFFICES ASSUME IInv, [Next]_vars PROVE IInv'
  OBVIOUS
<1>1. TypeOK' /\ HitIsExact'
  BY TypeStep, HitStep DEF IInv
<1>2. SlotsInv' /\ WritersInv' /\ ProbesInv'
  <2>1. CASE NextGeneration \/ UNCHANGED vars
    BY <2>1, Still DEF NextGeneration, vars, tableVars, threadVars, ghostVars, IInv
  <2>2. ASSUME NEW t \in Threads, \/ \E k \in Keys : Probe(t, k)
                                  \/ \E k \in Keys, d \in Depths : Store(t, k, d)
        PROVE  \E e, place : Begin(t, e, place) /\ place \in {"probe key", "store look"}
    BY <2>2 DEF Probe, Store
  <2>3. ASSUME NEW t \in Threads, ProbeStep(t) \/ StoreStep(t)
        PROVE  SlotsInv' /\ WritersInv' /\ ProbesInv'
    BY <2>3, QuietStep, ProbePayloadStep, StorePayloadStep, StoreKeyStep DEF ProbeStep, StoreStep
  <2>4. CASE Resize
    BY <2>4, ResizeStep
  <2> QED BY <2>1, <2>2, <2>3, <2>4, QuietStep DEF Next
<1> QED BY <1>1, <1>2 DEF IInv

THEOREM Invariance == Spec => []IInv
<1>1. Init => IInv
  BY InitIInv
<1>2. IInv /\ [Next]_vars => IInv'
  BY NextIInv
<1> QED BY <1>1, <1>2, PTL DEF Spec

(* Every variable keeps its type, for any number of threads and slots. *)
THEOREM TypeCorrect == Spec => []TypeOK
<1>1. IInv => TypeOK
  BY DEF IInv
<1> QED BY <1>1, Invariance, PTL

(* Any number of threads may probe and store in a cluster of any size: a hit is
   about the position asked for, unless two stores have overlapped in its slot,
   a store was between its writes throughout the probe's second half, or the
   key left the slot and came back in it. *)
THEOREM HitsAreExact == Spec => []HitIsExact
<1>1. IInv => HitIsExact
  BY DEF IInv
<1> QED BY <1>1, Invariance, PTL

-----------------------------------------------------------------------------
(* Calls that do not overlap. *)

(* The inductive invariant. *)

(* One call at a time. *)
Alone == \A t, u \in Threads : pc[t] # "idle" /\ pc[u] # "idle" => t = u

(* The empty slots are the last ones. *)
Packed == \A r, s \in Slots : r < s /\ key[r] = ZeroKey => key[s] = ZeroKey

(* A slot holds the last entry stored for its position, or a deeper one. *)
Current == \A s \in Slots : key[s] # ZeroKey /\ Writing(s) = {} =>
              LastOrDeeper(payload[s], last[key[s]])

TableInv == overlapped = {} /\ SlotsDiffer /\ Packed /\ Current

Scanning == {"store look", "store load", "store decide"}
Score(t, r) == ReplacementScore(payload[r], item[t].gen)

(* The slots a store has passed are of other positions. *)
PassedInv(t) ==
    pc[t] \in Scanning =>
        \A r \in Slots : r < slot[t] => key[r] \notin {item[t].for, ZeroKey}

(* Its victim is the best of them. *)
VictimInv(t) ==
    pc[t] \in Scanning =>
        \/ victim[t].none /\ slot[t] = 0
        \/ /\ ~victim[t].none
           /\ victim[t].at < slot[t] /\ victim[t].payload = payload[victim[t].at]
           /\ \A r \in Slots : r < slot[t] => Score(t, r) <= Score(t, victim[t].at)

(* What it has loaded is still there. *)
LoadedInv(t) ==
    /\ pc[t] \in {"store load", "store decide"} => seen[t] = key[slot[t]]
    /\ pc[t] \in {"store decide", "probe again"} => loaded[t] = payload[slot[t]]

(* The slot it writes to is the only one for its position, and the first empty
   one if it is empty. *)
TargetInv(t) ==
    pc[t] \in {"store payload", "store key"} =>
        /\ \A r \in Slots : r # slot[t] => key[r] # item[t].for
        /\ \A r \in Slots : r < slot[t] => key[r] # ZeroKey

(* If it is another position's, there is no better one. *)
WorstInv(t) ==
    pc[t] = "store payload" /\ key[slot[t]] \notin {item[t].for, ZeroKey} =>
        \A r \in Slots : key[r] # ZeroKey /\ Score(t, r) <= Score(t, slot[t])

CallInv(t) ==
    /\ pc[t] # "idle" => item[t].for \in Keys
    /\ PassedInv(t) /\ VictimInv(t) /\ LoadedInv(t) /\ TargetInv(t) /\ WorstInv(t)

SerialInv == IInv /\ (alone => Alone /\ TableInv /\ \A t \in Threads : CallInv(t))

-----------------------------------------------------------------------------
LEMMA SlotOrder ==
    /\ 0 \in Slots
    /\ \A s \in Slots : s \in 0 .. LastSlot
    /\ \A s \in Slots : s # LastSlot => s + 1 \in Slots
    /\ \A r, s \in Slots : r < s + 1 <=> r < s \/ r = s
    /\ \A r \in Slots : ~(r < 0) /\ (r < LastSlot \/ r = LastSlot)
BY TableAssumption DEF Slots

LEMMA ZeroIsNoKey == \A k \in Keys : k # ZeroKey
BY TableAssumption

LEMMA ScoresAreNumbers ==
    ASSUME NEW p \in PayloadType, NEW g PROVE ReplacementScore(p, g) \in Int
<1>1. p.depth \in Depths \cup {-1}
  BY DEF PayloadType
<1>2. p.depth \in Int
  <2>1. Depths \subseteq Int
    BY TableAssumption
  <2>2. p.depth \in Depths \/ p.depth = -1
    BY <1>1
  <2>3. CASE p.depth = -1
    BY ONLY <2>3
  <2> QED BY <2>1, <2>2, <2>3
<1> QED BY <1>2 DEF ReplacementScore

(* A step of the one call under way leaves the others idle, and an idle thread
   knows nothing. *)
LEMMA OthersIdle ==
    ASSUME TypeOK, Alone, NEW t \in Threads, pc[t] # "idle", NEW p, Goto(t, p)
    PROVE  /\ Alone' /\ pc'[t] = p
           /\ \A u \in Threads \ {t} : pc[u] = "idle" /\ CallInv(u)'
<1>1. \A u \in Threads \ {t} : pc[u] = "idle" /\ pc'[u] = "idle"
  BY DEF TypeOK, Alone, Goto
<1>2. \A u \in Threads \ {t} : CallInv(u)'
  BY <1>1 DEF CallInv, PassedInv, VictimInv, LoadedInv, TargetInv, WorstInv, Scanning
<1> QED BY <1>1, <1>2 DEF TypeOK, Alone, Goto

LEMMA TableStill ==
    ASSUME TableInv, UNCHANGED <<key, payload, last, overlapped>>,
           \A s \in Slots : Writing(s)' = Writing(s)
    PROVE  TableInv'
BY DEF TableInv, SlotsDiffer, Packed, Current

(* A step that neither is, nor leads to, the second write. *)
LEMMA WritingStill ==
    ASSUME TypeOK, NEW t \in Threads, pc[t] # "store key", NEW p, p # "store key", Goto(t, p),
           \A u \in Threads \ {t} : slot'[u] = slot[u]
    PROVE  \A s \in Slots : Writing(s)' = Writing(s)
BY DEF Writing, TypeOK, Goto

-----------------------------------------------------------------------------
(* The steps of a call.  None but the last two of a store change the table. *)

LEMMA ProbeSteps ==
    ASSUME TypeOK, Alone, TableInv, NEW t \in Threads, CallInv(t), ProbeStep(t)
    PROVE  Alone' /\ TableInv' /\ \A u \in Threads : CallInv(u)'
<1> USE DEF ProbeStep
<1>1. PICK p \in {"idle", "probe key", "probe payload", "probe again"} : Goto(t, p)
  BY DEF ProbeKey, ProbePayload, ProbeAgain, TryNextSlot
<1>2. /\ pc[t] \notin {"idle", "store key"} /\ item[t].for \in Keys
      /\ UNCHANGED <<key, payload, last, overlapped, item>>
      /\ \A u \in Threads \ {t} : slot'[u] = slot[u]
  BY DEF ProbeKey, ProbePayload, ProbeAgain, TryNextSlot, CallInv, tableVars, ghostVars, TypeOK
<1>3. TableInv'
  BY <1>1, <1>2, WritingStill, TableStill
<1>4. pc'[t] = p /\ Alone' /\ \A u \in Threads \ {t} : CallInv(u)'
  BY <1>1, <1>2, OthersIdle
<1>5. p = "probe again" => loaded'[t] = payload'[slot'[t]]
  <2>1. CASE ProbePayload(t)
    BY <2>1 DEF ProbePayload, TypeOK, tableVars
  <2>2. CASE ProbeKey(t) \/ ProbeAgain(t)
    <3>1. pc'[t] # "probe again"
      BY <2>2 DEF ProbeKey, ProbeAgain, TryNextSlot, Goto, TypeOK
    <3> QED BY <1>4, <3>1
  <2> QED BY <2>1, <2>2
<1>6. CallInv(t)'
  BY <1>1, <1>2, <1>4, <1>5 DEF CallInv, PassedInv, VictimInv, LoadedInv, TargetInv, WorstInv, Scanning
<1> QED BY <1>3, <1>4, <1>6

LEMMA LoadSteps ==
    ASSUME TypeOK, Alone, TableInv, NEW t \in Threads, CallInv(t), StoreLook(t) \/ StoreLoad(t)
    PROVE  Alone' /\ TableInv' /\ \A u \in Threads : CallInv(u)'
<1>1. PICK p \in {"store load", "store decide"} : Goto(t, p)
  BY DEF StoreLook, StoreLoad
<1>2. /\ pc[t] \in {"store look", "store load"}
      /\ UNCHANGED <<key, payload, last, overlapped, item, slot, victim>>
  BY DEF StoreLook, StoreLoad, tableVars, ghostVars
<1>3. TableInv'
  BY <1>1, <1>2, WritingStill, TableStill
<1>4. pc'[t] = p /\ Alone' /\ \A u \in Threads \ {t} : CallInv(u)'
  BY <1>1, <1>2, OthersIdle
<1>5. /\ seen'[t] = key[slot[t]]
      /\ p = "store decide" => loaded'[t] = payload[slot[t]]
  BY <1>1, <1>2, <1>4 DEF StoreLook, StoreLoad, Goto, TypeOK, CallInv, LoadedInv
<1>6. CallInv(t)'
  <2>1. PassedInv(t)' /\ VictimInv(t)'
    BY <1>2, <1>4 DEF CallInv, PassedInv, VictimInv, Scanning, Score
  <2>2. LoadedInv(t)' /\ TargetInv(t)' /\ WorstInv(t)' /\ item'[t].for \in Keys
    BY <1>2, <1>4, <1>5 DEF CallInv, LoadedInv, TargetInv, WorstInv
  <2> QED BY <2>1, <2>2 DEF CallInv
<1> QED BY <1>3, <1>4, <1>6

LEMMA KeepStep ==
    ASSUME IInv, Alone, TableInv, NEW t \in Threads, CallInv(t), KeepOld(t)
    PROVE  Alone' /\ TableInv' /\ \A u \in Threads : CallInv(u)'
<1> USE DEF IInv
<1>1. /\ Goto(t, "idle") /\ pc[t] = "store decide"
      /\ UNCHANGED <<key, payload, overlapped, slot>>
      /\ last' = [last EXCEPT ![item[t].for] = item[t]]
  BY DEF KeepOld, tableVars
<1>2. Alone' /\ pc'[t] = "idle" /\ \A u \in Threads \ {t} : pc[u] = "idle" /\ CallInv(u)'
  BY <1>1, OthersIdle
<1>3. CallInv(t)'
  BY <1>2 DEF CallInv, PassedInv, VictimInv, LoadedInv, TargetInv, WorstInv, Scanning
<1>4. \A s \in Slots : Writing(s)' = Writing(s) /\ Writing(s) = {}
  BY <1>1, <1>2, WritingStill DEF Writing
<1>5. /\ slot[t] \in Slots /\ item[t].for \in Keys /\ item[t].for # ZeroKey
      /\ key[slot[t]] = item[t].for
      /\ payload[slot[t]].depth > item[t].depth /\ payload[slot[t]].gen = item[t].gen
  BY <1>1, ZeroIsNoKey DEF KeepOld, Kept, TypeOK, CallInv, LoadedInv
<1>6. payload[slot[t]].for = item[t].for
  BY <1>4, <1>5 DEF SlotsInv, TableInv
<1>7. Current'
  <2> SUFFICES ASSUME NEW s \in Slots, key[s] # ZeroKey
               PROVE  LastOrDeeper(payload[s], last'[key[s]])
    BY <1>1 DEF Current
  <2>1. CASE s = slot[t]
    BY <1>1, <1>5, <1>6, <2>1 DEF LastOrDeeper, TypeOK
  <2>2. CASE s # slot[t]
    <3>1. key[s] # item[t].for
      BY <1>5, <2>2 DEF TableInv, SlotsDiffer
    <3>2. last'[key[s]] = last[key[s]]
      <4>1. key[s] \in Keys
        BY DEF TypeOK, Words
      <4> QED BY <1>1, <3>1, <4>1 DEF TypeOK
    <3> QED BY <1>4, <3>2 DEF TableInv, Current
  <2> QED BY <2>1, <2>2
<1>8. TableInv'
  BY <1>1, <1>7 DEF TableInv, SlotsDiffer, Packed
<1> QED BY <1>2, <1>3, <1>8

LEMMA UseStep ==
    ASSUME TypeOK, Alone, TableInv, NEW t \in Threads, CallInv(t), UseSlot(t)
    PROVE  Alone' /\ TableInv' /\ \A u \in Threads : CallInv(u)'
<1>1. /\ Goto(t, "store payload") /\ pc[t] = "store decide"
      /\ UNCHANGED <<key, payload, last, overlapped, item, slot>>
  BY DEF UseSlot, tableVars, threadVars, ghostVars
<1>2. Alone' /\ pc'[t] = "store payload" /\ \A u \in Threads \ {t} : CallInv(u)'
  BY <1>1, OthersIdle
<1>3. TableInv'
  BY <1>1, WritingStill, TableStill
<1>4. /\ slot[t] \in Slots /\ item[t].for \in Keys /\ item[t].for # ZeroKey
      /\ key[slot[t]] \in {item[t].for, ZeroKey}
      /\ \A r \in Slots : r < slot[t] => key[r] \notin {item[t].for, ZeroKey}
  BY <1>1, ZeroIsNoKey DEF UseSlot, Usable, TypeOK, CallInv, LoadedInv, PassedInv, Scanning
<1>5. ASSUME NEW r \in Slots, r # slot[t] PROVE key[r] # item[t].for
  <2>1. CASE key[slot[t]] = item[t].for
    BY <1>4, <1>5, <2>1 DEF TableInv, SlotsDiffer
  <2>2. CASE key[slot[t]] = ZeroKey
    <3>1. r < slot[t] \/ slot[t] < r
      BY <1>4, <1>5, SlotOrder
    <3> QED BY <1>4, <2>2, <3>1 DEF TableInv, Packed
  <2> QED BY <1>4, <2>1, <2>2
<1>6. CallInv(t)'
  <2>1. TargetInv(t)' /\ WorstInv(t)'
    BY <1>1, <1>2, <1>4, <1>5 DEF TargetInv, WorstInv
  <2>2. PassedInv(t)' /\ VictimInv(t)' /\ LoadedInv(t)' /\ item'[t].for \in Keys
    BY <1>1, <1>2, <1>4 DEF PassedInv, VictimInv, LoadedInv, Scanning
  <2> QED BY <2>1, <2>2 DEF CallInv
<1> QED BY <1>2, <1>3, <1>6

(* The victim after a slot that is not taken. *)
LEMMA VictimStep ==
    ASSUME TypeOK, NEW t \in Threads, VictimInv(t), LoadedInv(t), PassSlot(t)
    PROVE  LET v == victim'[t]
           IN /\ ~v.none
              /\ v.at \in Slots /\ v.at < slot[t] + 1 /\ v.payload = payload[v.at]
              /\ \A r \in Slots : r < slot[t] + 1 => Score(t, r) <= Score(t, v.at)
<1> DEFINE here == [none |-> FALSE, at |-> slot[t], payload |-> loaded[t]]
<1>1. /\ pc[t] = "store decide" /\ loaded[t] = payload[slot[t]] /\ slot[t] \in Slots
      /\ victim[t].at \in Slots
      /\ victim'[t] = IF BetterVictim(t) THEN here ELSE victim[t]
  BY DEF PassSlot, LoadedInv, TypeOK
<1>2. \A r \in Slots : Score(t, r) \in Int
  BY ScoresAreNumbers DEF TypeOK, Score
<1>3. \/ victim[t].none /\ slot[t] = 0
      \/ /\ ~victim[t].none
         /\ victim[t].at < slot[t] /\ victim[t].payload = payload[victim[t].at]
         /\ \A r \in Slots : r < slot[t] => Score(t, r) <= Score(t, victim[t].at)
  BY <1>1 DEF VictimInv, Scanning
<1>4. CASE BetterVictim(t)
  <2>1. victim'[t] = here
    BY <1>1, <1>4
  <2>2. victim[t].none \/ Score(t, slot[t]) > ReplacementScore(victim[t].payload, item[t].gen)
    BY <1>1, <1>4 DEF BetterVictim, Score
  <2>3. ASSUME NEW r \in Slots, r < slot[t] + 1 PROVE Score(t, r) <= Score(t, slot[t])
    <3>1. CASE r = slot[t]
      BY <1>2, <3>1
    <3>2. CASE r < slot[t]
      <4>1. slot[t] # 0
        BY <3>2, SlotOrder
      <4>2. Score(t, r) <= Score(t, victim[t].at) /\ victim[t].payload = payload[victim[t].at]
        BY <1>3, <3>2, <4>1
      <4>3. victim[t].none \/ Score(t, slot[t]) > Score(t, victim[t].at)
        BY <2>2, <4>2 DEF Score
      <4>4. CASE victim[t].none
        BY <1>3, <4>1, <4>4
      <4>5. CASE ~victim[t].none
        <5> DEFINE a == Score(t, r)  b == Score(t, victim[t].at)  c == Score(t, slot[t])
        <5>1. a \in Int /\ b \in Int /\ c \in Int
          BY <1>1, <1>2
        <5>2. a <= b /\ c > b
          BY <4>2, <4>3, <4>5
        <5> QED BY ONLY <5>1, <5>2
      <4> QED BY <4>4, <4>5
    <3> QED BY <1>1, <2>3, <3>1, <3>2, SlotOrder
  <2>4. ~here.none /\ here.at = slot[t] /\ here.payload = loaded[t] /\ slot[t] < slot[t] + 1
    BY <1>1, SlotOrder
  <2> HIDE DEF here
  <2> QED BY <1>1, <2>1, <2>3, <2>4
<1>5. CASE ~BetterVictim(t)
  <2>1. victim'[t] = victim[t] /\ ~victim[t].none
    BY <1>1, <1>5 DEF BetterVictim
  <2>2. victim[t].at < slot[t] + 1
    BY <1>1, <1>3, <2>1, SlotOrder
  <2>3. Score(t, slot[t]) <= Score(t, victim[t].at)
    <3>1. ~(Score(t, slot[t]) > Score(t, victim[t].at))
      BY <1>1, <1>3, <1>5, <2>1 DEF BetterVictim, Score
    <3>2. Score(t, slot[t]) \in Int /\ Score(t, victim[t].at) \in Int
      BY <1>1, <1>2
    <3> QED BY ONLY <3>1, <3>2
  <2>4. ASSUME NEW r \in Slots, r < slot[t] + 1 PROVE Score(t, r) <= Score(t, victim[t].at)
    BY <1>1, <1>3, <2>1, <2>3, <2>4, SlotOrder
  <2> QED BY <1>1, <1>3, <2>1, <2>2, <2>4
<1> QED BY <1>4, <1>5

LEMMA PassStep ==
    ASSUME TypeOK, Alone, TableInv, NEW t \in Threads, CallInv(t), PassSlot(t)
    PROVE  Alone' /\ TableInv' /\ \A u \in Threads : CallInv(u)'
<1> DEFINE p == IF slot[t] = LastSlot THEN "store payload" ELSE "store look"
<1>1. /\ Goto(t, p) /\ pc[t] = "store decide"
      /\ UNCHANGED <<key, payload, last, overlapped, item>>
      /\ slot[t] \in Slots /\ item[t].for \in Keys
      /\ \A u \in Threads \ {t} : slot'[u] = slot[u]
  BY DEF PassSlot, tableVars, ghostVars, TypeOK, CallInv
<1>2. slot'[t] = IF slot[t] = LastSlot THEN victim'[t].at ELSE slot[t] + 1
  BY DEF PassSlot, TypeOK
<1>3. Alone' /\ pc'[t] = p /\ \A u \in Threads \ {t} : CallInv(u)'
  BY <1>1, OthersIdle
<1>4. TableInv'
  BY <1>1, WritingStill, TableStill
<1>5. \A r \in Slots : r < slot[t] + 1 => key[r] \notin {item[t].for, ZeroKey}
  BY <1>1, SlotOrder DEF PassSlot, Usable, CallInv, PassedInv, LoadedInv, Scanning
<1>6. /\ ~victim'[t].none
      /\ victim'[t].at \in Slots /\ victim'[t].at < slot[t] + 1
      /\ victim'[t].payload = payload[victim'[t].at]
      /\ \A r \in Slots : r < slot[t] + 1 => Score(t, r) <= Score(t, victim'[t].at)
  BY VictimStep DEF CallInv
<1>8. CASE slot[t] = LastSlot
  <2>1. /\ pc'[t] = "store payload" /\ slot'[t] = victim'[t].at
        /\ \A r \in Slots : r < slot[t] + 1
    <3>1. pc'[t] = "store payload" /\ slot'[t] = victim'[t].at
      BY <1>2, <1>3, <1>8
    <3>2. \A r \in Slots : r < slot[t] + 1
      BY <1>1, <1>8, SlotOrder
    <3> QED BY <3>1, <3>2
  <2>2. TargetInv(t)' /\ WorstInv(t)'
    BY <1>1, <1>5, <1>6, <2>1 DEF TargetInv, WorstInv, Score
  <2>3. PassedInv(t)' /\ VictimInv(t)' /\ LoadedInv(t)'
    BY <2>1 DEF PassedInv, VictimInv, LoadedInv, Scanning
  <2> QED BY <1>1, <1>3, <1>4, <2>2, <2>3 DEF CallInv
<1>9. CASE slot[t] # LastSlot
  <2>1. pc'[t] = "store look" /\ slot'[t] = slot[t] + 1
    BY <1>2, <1>3, <1>9
  <2>2. PassedInv(t)' /\ VictimInv(t)'
    BY <1>1, <1>5, <1>6, <2>1 DEF PassedInv, VictimInv, Score
  <2>3. LoadedInv(t)' /\ TargetInv(t)' /\ WorstInv(t)'
    BY <2>1 DEF LoadedInv, TargetInv, WorstInv
  <2> QED BY <1>1, <1>3, <1>4, <2>2, <2>3 DEF CallInv
<1> QED BY <1>8, <1>9

LEMMA PayloadStep ==
    ASSUME TypeOK, Alone, TableInv, NEW t \in Threads, CallInv(t), StorePayload(t)
    PROVE  Alone' /\ TableInv' /\ \A u \in Threads : CallInv(u)'
<1>1. /\ Goto(t, "store key") /\ pc[t] = "store payload" /\ slot[t] \in Slots
      /\ UNCHANGED <<key, last, item, slot>>
      /\ \A s \in Slots \ {slot[t]} : payload'[s] = payload[s]
  BY DEF StorePayload, TypeOK
<1>2. Alone' /\ pc'[t] = "store key" /\ \A u \in Threads \ {t} : pc[u] = "idle" /\ CallInv(u)'
  BY <1>1, OthersIdle
<1>3. /\ \A s \in Slots : Writing(s) = {}
      /\ t \in Writing(slot[t])'
  BY <1>1, <1>2 DEF Writing
<1>4. overlapped' = {}
  BY <1>1, <1>3 DEF StorePayload, TableInv
<1>5. Current'
  <2> SUFFICES ASSUME NEW s \in Slots, key[s] # ZeroKey, Writing(s)' = {}
               PROVE  LastOrDeeper(payload'[s], last[key[s]])
    BY <1>1 DEF Current
  <2>1. s # slot[t]
    <3>1. CASE s = slot[t]
      BY <1>1, <1>2, <3>1 DEF Writing
    <3> QED BY <3>1
  <2> QED BY <1>1, <1>3, <2>1 DEF TableInv, Current
<1>6. CallInv(t)'
  BY <1>1, <1>2 DEF CallInv, PassedInv, VictimInv, LoadedInv, TargetInv, WorstInv, Scanning
<1> QED BY <1>1, <1>2, <1>4, <1>5, <1>6 DEF TableInv, SlotsDiffer, Packed

LEMMA KeyStep ==
    ASSUME IInv, Alone, TableInv, NEW t \in Threads, CallInv(t), StoreKey(t)
    PROVE  Alone' /\ TableInv' /\ \A u \in Threads : CallInv(u)'
<1> USE DEF IInv
<1>1. /\ Goto(t, "idle") /\ pc[t] = "store key" /\ slot[t] \in Slots
      /\ UNCHANGED <<payload, overlapped, item, slot>>
      /\ key'[slot[t]] = item[t].for /\ \A s \in Slots \ {slot[t]} : key'[s] = key[s]
      /\ last'[item[t].for] = item[t] /\ \A k \in Keys \ {item[t].for} : last'[k] = last[k]
  BY DEF StoreKey, TypeOK, CallInv
<1>2. Alone' /\ pc'[t] = "idle" /\ \A u \in Threads \ {t} : pc[u] = "idle" /\ CallInv(u)'
  BY <1>1, OthersIdle
<1>3. CallInv(t)'
  BY <1>2 DEF CallInv, PassedInv, VictimInv, LoadedInv, TargetInv, WorstInv, Scanning
<1>4. /\ \A r \in Slots : r # slot[t] => key[r] # item[t].for
      /\ \A r \in Slots : r < slot[t] => key[r] # ZeroKey
      /\ item[t].for \in Keys /\ item[t].for # ZeroKey
  BY <1>1, ZeroIsNoKey DEF CallInv, TargetInv
<1>5. SlotsDiffer'
  <2> SUFFICES ASSUME NEW r \in Slots, NEW s \in Slots, r # s, key'[r] = key'[s]
               PROVE  key'[r] = ZeroKey
    BY DEF SlotsDiffer
  <2>1. r # slot[t] /\ s # slot[t]
    BY <1>1, <1>4
  <2> QED BY <1>1, <2>1 DEF TableInv, SlotsDiffer
<1>6. Packed'
  <2> SUFFICES ASSUME NEW r \in Slots, NEW s \in Slots, r < s, key'[r] = ZeroKey
               PROVE  key'[s] = ZeroKey
    BY DEF Packed
  <2>1. r # slot[t] /\ key[r] = ZeroKey
    BY <1>1, <1>4
  <2>2. s # slot[t] /\ key[s] = ZeroKey
    BY <1>4, <2>1 DEF TableInv, Packed
  <2> QED BY <1>1, <2>2
<1>7. Current'
  <2> SUFFICES ASSUME NEW s \in Slots, key'[s] # ZeroKey
               PROVE  LastOrDeeper(payload[s], last'[key'[s]])
    BY <1>1 DEF Current
  <2>1. CASE s = slot[t]
    <3>1. payload[s] = item[t]
      BY <1>1, <2>1 DEF SlotsInv, TableInv, Writing
    <3> QED BY <1>1, <2>1, <3>1 DEF LastOrDeeper
  <2>2. CASE s # slot[t]
    <3>1. key'[s] = key[s] /\ key[s] \in Keys /\ key[s] # item[t].for
      BY <1>1, <1>4, <2>2 DEF TypeOK, Words
    <3>2. Writing(s) = {}
      BY <1>1, <1>2, <2>2 DEF Writing
    <3> QED BY <1>1, <3>1, <3>2 DEF TableInv, Current
  <2> QED BY <2>1, <2>2
<1> QED BY <1>1, <1>2, <1>3, <1>5, <1>6, <1>7 DEF TableInv

(* A call that begins when no other is under way. *)
LEMMA BeginStep ==
    ASSUME TypeOK, TableInv, NEW t \in Threads, NEW e, NEW place,
           Begin(t, e, place), place \in {"probe key", "store look"}, e.for \in Keys, alone'
    PROVE  Alone' /\ TableInv' /\ \A u \in Threads : CallInv(u)'
<1>1. /\ Goto(t, place) /\ pc[t] = "idle"
      /\ UNCHANGED <<key, payload, last, overlapped>>
      /\ item'[t] = e /\ slot'[t] = 0 /\ victim'[t] = NoVictim
      /\ \A u \in Threads \ {t} : slot'[u] = slot[u]
      /\ \A u \in Threads : pc[u] = "idle"
  BY DEF Begin, tableVars, TypeOK
<1>2. pc'[t] = place /\ \A u \in Threads \ {t} : pc'[u] = "idle"
  BY <1>1 DEF Goto, TypeOK
<1>3. TableInv'
  BY <1>1, WritingStill, TableStill
<1>4. ASSUME NEW u \in Threads PROVE CallInv(u)'
  <2>1. CASE u # t
    <3>1. pc'[u] = "idle"
      BY <1>2, <1>4, <2>1
    <3> QED BY <3>1 DEF CallInv, PassedInv, VictimInv, LoadedInv, TargetInv, WorstInv, Scanning
  <2>2. CASE u = t
    <3>0. victim'[t].none /\ slot'[t] = 0 /\ \A r \in Slots : ~(r < 0)
      <4>1. NoVictim.none
        BY DEF NoVictim
      <4>2. \A r \in Slots : ~(r < 0)
        BY SlotOrder
      <4> QED BY <1>1, <4>1, <4>2
    <3>1. PassedInv(t)' /\ VictimInv(t)'
      BY <3>0 DEF PassedInv, VictimInv
    <3>2. LoadedInv(t)' /\ TargetInv(t)' /\ WorstInv(t)'
      BY <1>2 DEF LoadedInv, TargetInv, WorstInv
    <3> QED BY <1>1, <2>2, <3>1, <3>2 DEF CallInv
  <2> QED BY <2>1, <2>2
<1> QED BY <1>2, <1>3, <1>4 DEF Alone

-----------------------------------------------------------------------------
LEMMA NextSerial == SerialInv /\ [Next]_vars => SerialInv'
<1> SUFFICES ASSUME SerialInv, [Next]_vars PROVE SerialInv'
  OBVIOUS
<1>1. IInv /\ TypeOK /\ IInv'
  BY NextIInv DEF SerialInv, IInv
<1> SUFFICES ASSUME alone' PROVE Alone' /\ TableInv' /\ \A u \in Threads : CallInv(u)'
  BY <1>1 DEF SerialInv
<1>2. alone
  <2>1. UNCHANGED alone \/ \E t, e, place : Begin(t, e, place)
    BY DEF Next, NextGeneration, Resize, Probe, Store, ProbeStep, ProbeKey, ProbePayload, ProbeAgain,
           StoreStep, StoreLook, StoreLoad, KeepOld, UseSlot, PassSlot, StorePayload, StoreKey,
           vars, ghostVars
  <2> QED BY <2>1 DEF Begin
<1>3. Alone /\ TableInv /\ \A u \in Threads : CallInv(u)
  BY <1>2 DEF SerialInv
<1>4. CASE NextGeneration \/ UNCHANGED vars
  <2>1. UNCHANGED <<key, payload, threadVars, last, overlapped>>
    BY <1>4 DEF NextGeneration, vars, tableVars, ghostVars
  <2>2. TableInv'
    BY <1>3, <2>1, TableStill DEF Writing, threadVars
  <2>3. Alone'
    BY <1>3, <2>1 DEF Alone, threadVars
  <2>4. ASSUME NEW u \in Threads PROVE CallInv(u)'
    BY <1>3, <2>1 DEF threadVars, CallInv, PassedInv, VictimInv, LoadedInv, TargetInv, WorstInv, Score
  <2> QED BY <2>2, <2>3, <2>4
<1>5. ASSUME NEW t \in Threads, NEW k \in Keys, Probe(t, k)
      PROVE  Alone' /\ TableInv' /\ \A u \in Threads : CallInv(u)'
  <2>1. [Empty EXCEPT !.for = k].for = k
    BY DEF Empty
  <2> QED BY <1>1, <1>3, <1>5, <2>1, BeginStep DEF Probe
<1>6. ASSUME NEW t \in Threads, NEW k \in Keys, NEW d \in Depths, Store(t, k, d)
      PROVE  Alone' /\ TableInv' /\ \A u \in Threads : CallInv(u)'
  <2>1. [for |-> k, depth |-> d, gen |-> generation].for = k
    OBVIOUS
  <2> QED BY <1>1, <1>3, <1>6, <2>1, BeginStep DEF Store
<1>7. ASSUME NEW t \in Threads, ProbeStep(t) \/ StoreStep(t)
      PROVE  Alone' /\ TableInv' /\ \A u \in Threads : CallInv(u)'
  BY <1>1, <1>3, <1>7, ProbeSteps, LoadSteps, KeepStep, UseStep, PassStep, PayloadStep, KeyStep
     DEF StoreStep
<1>8. CASE Resize
  <2>1. \A t \in Threads : pc'[t] = "idle"
    BY <1>8 DEF Resize, threadVars
  <2>2. TableInv'
    BY <1>8 DEF Resize, TableInv, SlotsDiffer, Packed, Current
  <2>3. \A u \in Threads : CallInv(u)'
    BY <2>1 DEF CallInv, PassedInv, VictimInv, LoadedInv, TargetInv, WorstInv, Scanning
  <2> QED BY <2>1, <2>2, <2>3 DEF Alone
<1> QED BY <1>4, <1>5, <1>6, <1>7, <1>8 DEF Next

LEMMA InitSerial == Init => SerialInv
<1> SUFFICES ASSUME Init PROVE SerialInv
  OBVIOUS
<1>1. \A t \in Threads : pc[t] = "idle"
  BY DEF Init
<1>2. \A t \in Threads : CallInv(t)
  BY <1>1 DEF CallInv, PassedInv, VictimInv, LoadedInv, TargetInv, WorstInv, Scanning
<1>3. overlapped = {} /\ \A s \in Slots : key[s] = ZeroKey
  BY DEF Init
<1>4. TableInv
  BY <1>3 DEF TableInv, SlotsDiffer, Packed, Current
<1> QED BY <1>1, <1>2, <1>4, InitIInv DEF SerialInv, Alone

THEOREM SerialInvariance == Spec => []SerialInv
<1> QED BY InitSerial, NextSerial, PTL DEF Spec

(* Calls that do not overlap never put one position into two slots, however
   many slots a cluster has. *)
THEOREM OneSlotForEachKey == Spec => []OneSlotPerKey
<1>1. SerialInv => OneSlotPerKey
  BY DEF SerialInv, TableInv, OneSlotPerKey
<1> QED BY <1>1, SerialInvariance, PTL

(* A probe that overlaps no store returns the entry stored last for its
   position, or one of the same search that is deeper. *)
THEOREM HitsAreLastOrDeeper == Spec => HitIsLastOrDeeper
<1>1. ASSUME SerialInv, [Next]_vars, NEW t \in Threads, alone, found'[t].hit, ~found[t].hit
      PROVE  LastOrDeeper(found'[t].payload, last[found'[t].key])
  <2>1. /\ TypeOK /\ Alone /\ TableInv /\ CallInv(t)
    BY <1>1 DEF SerialInv, IInv
  <2>2. ProbeAgain(t) /\ key[slot[t]] = item[t].for /\ found'[t] = Hit(t)
    <3>1. found' # found
      BY <1>1
    <3>2. PICK u \in Threads : \/ \E e, place : Begin(u, e, place)
                               \/ ProbeAgain(u)
      BY <1>1, <3>1 DEF Next, NextGeneration, Resize, Probe, Store, ProbeStep, ProbeKey, ProbePayload,
             StoreStep, StoreLook, StoreLoad, KeepOld, UseSlot, PassSlot, StorePayload,
             StoreKey, vars, ghostVars
    <3>3. ~(\E e, place : Begin(u, e, place))
      <4> SUFFICES ASSUME NEW e, NEW place, Begin(u, e, place) PROVE FALSE
        OBVIOUS
      <4>1. found' = [found EXCEPT ![u] = Miss] /\ ~Miss.hit
        BY DEF Begin, Miss
      <4>2. found'[t] = Miss \/ found'[t] = found[t]
        BY <2>1, <4>1 DEF TypeOK
      <4> QED BY <1>1, <4>1, <4>2
    <3>4. ProbeAgain(u) /\ u = t
      BY <1>1, <2>1, <3>2, <3>3 DEF ProbeAgain, TypeOK
    <3> QED BY <1>1, <2>1, <3>4 DEF ProbeAgain, TypeOK
  <2>3. /\ pc[t] = "probe again" /\ slot[t] \in Slots /\ loaded[t] = payload[slot[t]]
        /\ item[t].for # ZeroKey
    BY <2>1, <2>2, ZeroIsNoKey DEF ProbeAgain, CallInv, LoadedInv, TypeOK
  <2>4. Writing(slot[t]) = {}
    BY <2>1, <2>3 DEF Alone, Writing
  <2>5. LastOrDeeper(payload[slot[t]], last[key[slot[t]]])
    BY <2>1, <2>2, <2>3, <2>4 DEF TableInv, Current
  <2>6. found'[t].payload = loaded[t] /\ found'[t].key = item[t].for
    BY <2>2 DEF Hit
  <2> QED BY <2>2, <2>3, <2>5, <2>6
<1>2. SerialInv /\ [Next]_vars =>
        [\A t \in Threads : alone /\ found'[t].hit /\ ~found[t].hit =>
            LastOrDeeper(found'[t].payload, last[found'[t].key])]_vars
  BY <1>1
<1> QED BY <1>2, SerialInvariance, PTL DEF Spec, HitIsLastOrDeeper

(* What replacement scores compare: an older search counts more than any depth. *)
LEMMA ScoreGaps ==
    \A P, Q \in -1 .. 254 :
        /\ 0 + (255 - (P + 1)) <= 0 + (255 - (Q + 1)) => Q <= P
        /\ 1024 + (255 - (P + 1)) <= 1024 + (255 - (Q + 1)) => Q <= P
        /\ ~(1024 + (255 - (P + 1)) <= 0 + (255 - (Q + 1)))
OBVIOUS

LEMMA ScoreOrder ==
    ASSUME NEW p \in PayloadType, NEW q \in PayloadType, NEW g,
           ReplacementScore(p, g) <= ReplacementScore(q, g)
    PROVE  /\ p.gen # g => q.gen # g
           /\ (p.gen # g <=> q.gen # g) => q.depth <= p.depth
<1>1. p.depth \in -1 .. 254 /\ q.depth \in -1 .. 254
  <2>1. Depths \subseteq 0 .. 254
    BY TableAssumption
  <2>2. \A d \in Depths \cup {-1} : d \in -1 .. 254
    BY <2>1
  <2> QED BY <2>2 DEF PayloadType
<1> PICK P \in -1 .. 254, Q \in -1 .. 254 : P = p.depth /\ Q = q.depth
  BY <1>1
<1>2. (IF p.gen = g THEN 0 ELSE 1024) + (255 - (P + 1))
        <= (IF q.gen = g THEN 0 ELSE 1024) + (255 - (Q + 1))
  BY DEF ReplacementScore
<1>3. CASE p.gen = g
  <2>1. CASE q.gen = g
    <3>1. 0 + (255 - (P + 1)) <= 0 + (255 - (Q + 1))
      BY <1>2, <1>3, <2>1
    <3> QED BY <3>1, <1>3, <2>1, ScoreGaps
  <2> QED BY <1>3, <2>1
<1>4. CASE p.gen # g
  <2>1. CASE q.gen = g
    <3>1. 1024 + (255 - (P + 1)) <= 0 + (255 - (Q + 1))
      BY <1>2, <1>4, <2>1
    <3> QED BY <3>1, <1>4, <2>1, ScoreGaps
  <2>2. CASE q.gen # g
    <3>1. 1024 + (255 - (P + 1)) <= 1024 + (255 - (Q + 1))
      BY <1>2, <1>4, <2>2
    <3> QED BY <3>1, <1>4, <2>2, ScoreGaps
  <2> QED BY <2>1, <2>2
<1> QED BY <1>3, <1>4

(* A position is given up for another's only when every slot holds another
   position, and none is of an older search, or of the same age and shallower. *)
THEOREM TheWorstIsEvicted == Spec => EvictsTheWorst
<1>1. ASSUME SerialInv, [Next]_vars, NEW s \in Slots,
             alone, payload'[s] # payload[s],
             {key[s], payload'[s].for} \subseteq Keys, key[s] # payload'[s].for
      PROVE  \A r \in Slots :
                 /\ key[r] # ZeroKey
                 /\ payload[r].gen # payload'[s].gen => payload[s].gen # payload'[s].gen
                 /\ (payload[r].gen # payload'[s].gen) = (payload[s].gen # payload'[s].gen)
                        => payload[s].depth <= payload[r].depth
  <2>1. /\ TypeOK /\ \A t \in Threads : CallInv(t)
        /\ key[s] \notin {ZeroKey, payload'[s].for}
    BY <1>1, ZeroIsNoKey DEF SerialInv, IInv
  <2>0. ~Resize
    <3>1. Empty.for \notin Keys
      BY TableAssumption DEF Empty
    <3> QED BY <1>1, <3>1 DEF Resize
  <2>2. PICK t \in Threads : StorePayload(t)
    BY <1>1, <2>0 DEF Next, NextGeneration, Probe, Store, Begin, ProbeStep, ProbeKey, ProbePayload,
           ProbeAgain, StoreStep, StoreLook, StoreLoad, KeepOld, UseSlot, PassSlot, StoreKey,
           vars, tableVars
  <2>3. s = slot[t] /\ payload'[s] = item[t] /\ pc[t] = "store payload"
    BY <1>1, <2>1, <2>2 DEF StorePayload, TypeOK
  <2> SUFFICES ASSUME NEW r \in Slots
               PROVE  /\ key[r] # ZeroKey
                      /\ payload[r].gen # item[t].gen => payload[s].gen # item[t].gen
                      /\ (payload[r].gen # item[t].gen) = (payload[s].gen # item[t].gen)
                             => payload[s].depth <= payload[r].depth
    BY <2>3
  <2>4. key[r] # ZeroKey /\ Score(t, r) <= Score(t, s)
    BY <1>1, <2>1, <2>3 DEF CallInv, WorstInv
  <2>5. payload[r] \in PayloadType /\ payload[s] \in PayloadType
    BY <2>1 DEF TypeOK
  <2> QED BY <2>4, <2>5, ScoreOrder DEF Score
<1>2. SerialInv /\ [Next]_vars =>
        [\A s \in Slots :
            (/\ alone /\ payload'[s] # payload[s]
             /\ {key[s], payload'[s].for} \subseteq Keys /\ key[s] # payload'[s].for) =>
                LET old(r) == payload[r].gen # payload'[s].gen
                IN \A r \in Slots : /\ key[r] # ZeroKey
                                    /\ old(r) => old(s)
                                    /\ old(r) = old(s) => payload[s].depth <= payload[r].depth]_vars
  BY <1>1
<1> QED BY <1>2, SerialInvariance, PTL DEF Spec, EvictsTheWorst
=============================================================================
