------------------------- MODULE TsumeProofs --------------------------------
(***************************************************************************)
(* TLAPS proofs about TsumeSearch and its table, for every game, every     *)
(* size of table and bucket, and however often solve is called and         *)
(* interrupted: the table tells the truth, and so does solve.              *)
(***************************************************************************)
EXTENDS TsumeSearch, TsumeParallel, FiniteSetTheorems, SequenceTheorems, TLAPS

(* The positions a mate in n plies is built from, and the tables of grow_table. *)
MateStep(before, gc) == MatesFrom(gc[1], gc[2], before)
Mates == INSTANCE FoldTheorems WITH Step <- MateStep
Growth == INSTANCE FoldTheorems WITH Step <- KeepEntry

-----------------------------------------------------------------------------
(* Mates in n plies. *)

LEMMA MateDefined ==
    ASSUME NEW g, IsGame(g), NEW c
    PROVE  /\ Horizon(g) \in Nat /\ Horizon(g) >= MaxPlies + 2
           /\ MateWithin(g, c)[0] = {p \in DOMAIN g.legal : g.side[p] # c /\ g.legal[p] = << >>}
           /\ \A n \in 1 .. Horizon(g) : MateWithin(g, c)[n] = MatesFrom(g, c, MateWithin(g, c)[n - 1])
<1> DEFINE H == Horizon(g)
           zero == {p \in DOMAIN g.legal : g.side[p] # c /\ g.legal[p] = << >>}
           Is(m) == m = [n \in 0 .. H |-> IF n = 0 THEN zero ELSE MatesFrom(g, c, m[n - 1])]
           mate == CHOOSE m : Is(m)
<1>1. H \in Nat /\ H >= MaxPlies + 2
  <2>1. Cardinality(DOMAIN g.legal) \in Nat
    BY FS_CardinalityType DEF IsGame
  <2> QED BY <2>1, TsumeSearchAssumption DEF Horizon
<1>2. MateWithin(g, c) = mate
  BY DEF MateWithin
<1> HIDE DEF H, zero
<1>3. \E m : Is(m)
  <2> DEFINE of == [i \in 1 .. H |-> <<g, c>>]
  <2>1. PICK r : DOMAIN r = 0 .. H /\ Mates!IsRun(r, H, zero, of)
    BY <1>1, Mates!RunExists
  <2> DEFINE m == [n \in 0 .. H |-> r[n]]
  <2>2. m[0] = zero
    BY <1>1, <2>1 DEF Mates!IsRun
  <2>3. ASSUME NEW n \in 1 .. H PROVE m[n] = MatesFrom(g, c, m[n - 1])
    <3>1. r[n] = MateStep(r[n - 1], of[n])
      BY <2>1 DEF Mates!IsRun
    <3>2. n - 1 \in 0 .. H /\ n \in 0 .. H /\ of[n] = <<g, c>>
      BY <1>1
    <3> QED BY <3>1, <3>2 DEF MateStep
  <2>4. \A n \in 0 .. H : n = 0 \/ n \in 1 .. H
    BY <1>1
  <2> HIDE DEF of
  <2>5. \A n \in 0 .. H : m[n] = IF n = 0 THEN zero ELSE MatesFrom(g, c, m[n - 1])
    BY <2>2, <2>3, <2>4
  <2>6. DOMAIN m = 0 .. H /\ m = [n \in 0 .. H |-> m[n]]
    OBVIOUS
  <2> HIDE DEF m
  <2>7. Is(m)
    BY <2>5, <2>6
  <2> HIDE DEF Is
  <2> QED BY <2>7
<1>4. Is(mate)
  BY <1>3
<1> HIDE DEF mate
<1>5. mate[0] = zero
  BY <1>1, <1>4
<1>6. ASSUME NEW n \in 1 .. H PROVE mate[n] = MatesFrom(g, c, mate[n - 1])
  <2>1. n \in 0 .. H /\ n # 0
    BY <1>1
  <2> QED BY <1>4, <2>1
<1> QED BY <1>1, <1>2, <1>5, <1>6 DEF H, zero

(* A longer limit loses no mate. *)
LEMMA MatesGrow ==
    ASSUME NEW g, IsGame(g), NEW c, NEW m \in 0 .. Horizon(g), NEW n \in 0 .. m
    PROVE  MateWithin(g, c)[n] \subseteq MateWithin(g, c)[m]
<1> DEFINE M == MateWithin(g, c)
           A == {k \in Nat : k + 1 <= Horizon(g) => M[k] \subseteq M[k + 1]}
<1>1. /\ Horizon(g) \in Nat
      /\ M[0] = {p \in DOMAIN g.legal : g.side[p] # c /\ g.legal[p] = << >>}
      /\ \A i \in 1 .. Horizon(g) : M[i] = MatesFrom(g, c, M[i - 1])
  BY MateDefined
<1> HIDE DEF M
<1>2. 0 \in A
  <2> SUFFICES ASSUME 1 <= Horizon(g), NEW p \in M[0] PROVE p \in M[1]
    OBVIOUS
  <2>1. M[1] = MatesFrom(g, c, M[0])
    <3>1. 1 \in 1 .. Horizon(g) /\ 1 - 1 = 0
      BY <1>1
    <3> QED BY <1>1, <3>1
  <2>2. p \in DOMAIN g.legal /\ g.side[p] # c /\ g.legal[p] = << >>
    BY <1>1
  <2>3. Range(g.legal[p]) = {}
    BY <2>2 DEF Range
  <2> QED BY <2>1, <2>2, <2>3 DEF MatesFrom
<1>3. ASSUME NEW k \in Nat, k \in A PROVE k + 1 \in A
  <2> SUFFICES ASSUME k + 1 + 1 <= Horizon(g), NEW p \in M[k + 1] PROVE p \in M[k + 1 + 1]
    OBVIOUS
  <2>1. M[k] \subseteq M[k + 1]
    BY <1>1, <1>3
  <2>2. M[k + 1] = MatesFrom(g, c, M[k]) /\ M[k + 1 + 1] = MatesFrom(g, c, M[k + 1])
    <3>1. k + 1 \in 1 .. Horizon(g) /\ k + 1 + 1 \in 1 .. Horizon(g) /\ k + 1 - 1 = k /\ k + 1 + 1 - 1 = k + 1
      BY <1>1
    <3> QED BY <1>1, <3>1
  <2> QED BY <2>1, <2>2 DEF MatesFrom
<1> HIDE DEF A
<1>4. Nat \subseteq A
  BY <1>2, <1>3, Mates!Induction
<1> DEFINE B == {k \in Nat : n + k <= Horizon(g) => M[n] \subseteq M[n + k]}
<1>5. n \in Nat /\ m \in Nat /\ m - n \in Nat /\ n + (m - n) = m
  BY <1>1
<1>6. 0 \in B
  BY <1>5
<1>7. ASSUME NEW k \in Nat, k \in B PROVE k + 1 \in B
  <2> SUFFICES ASSUME n + (k + 1) <= Horizon(g) PROVE M[n] \subseteq M[n + (k + 1)]
    OBVIOUS
  <2>1. n + k \in Nat /\ (n + k) + 1 = n + (k + 1) /\ n + k <= Horizon(g)
    BY <1>1, <1>5
  <2>2. M[n + k] \subseteq M[n + (k + 1)]
    BY <1>4, <2>1 DEF A
  <2> QED BY <1>7, <2>1, <2>2
<1> HIDE DEF B
<1>8. Nat \subseteq B
  BY <1>6, <1>7, Mates!Induction
<1> QED BY <1>5, <1>8 DEF B, M

(* What mates in n + 1 plies, and what never does, for either side to move. *)
LEMMA MateByCheck ==
    ASSUME NEW g, IsGame(g), NEW c, NEW n \in 0 .. (Horizon(g) - 1), NEW p \in DOMAIN g.legal
    PROVE  /\ g.side[p] = c =>
                (p \in MateWithin(g, c)[n + 1] <=> \E q \in ChecksOf(g, p) : q \in MateWithin(g, c)[n])
           /\ g.side[p] # c =>
                (p \in MateWithin(g, c)[n + 1] <=> Range(g.legal[p]) \subseteq MateWithin(g, c)[n])
<1>1. Horizon(g) \in Nat
  BY MateDefined
<1>2. n + 1 \in 1 .. Horizon(g) /\ n + 1 - 1 = n
  BY <1>1
<1>3. MateWithin(g, c)[n + 1] = MatesFrom(g, c, MateWithin(g, c)[n])
  BY <1>2, MateDefined
<1> QED BY <1>3 DEF MatesFrom

LEMMA NeverIsNever ==
    ASSUME NEW g, IsGame(g), NEW c, NEW p \in NeverMate(g, c), NEW n \in 0 .. Horizon(g)
    PROVE  p \notin MateWithin(g, c)[n]
<1>1. Horizon(g) \in Nat /\ Horizon(g) \in 0 .. Horizon(g) /\ n \in 0 .. Horizon(g)
  BY MateDefined
<1>2. MateWithin(g, c)[n] \subseteq MateWithin(g, c)[Horizon(g)]
  BY <1>1, MatesGrow
<1> QED BY <1>2 DEF NeverMate

LEMMA NeverByReplies ==
    ASSUME NEW g, IsGame(g), NEW c, NEW p \in DOMAIN g.legal
    PROVE  /\ g.side[p] = c /\ ChecksOf(g, p) \subseteq NeverMate(g, c) => p \in NeverMate(g, c)
           /\ g.side[p] # c /\ (\E q \in Range(g.legal[p]) : q \in NeverMate(g, c)) => p \in NeverMate(g, c)
<1> DEFINE n == Horizon(g) - 1
<1>1. n \in 0 .. (Horizon(g) - 1) /\ n + 1 = Horizon(g) /\ n \in 0 .. Horizon(g)
  BY MateDefined, TsumeSearchAssumption
<1>2. \A q \in NeverMate(g, c) : q \notin MateWithin(g, c)[n]
  BY <1>1, NeverIsNever
<1>3. p \notin MateWithin(g, c)[n + 1] => p \in NeverMate(g, c)
  BY <1>1 DEF NeverMate
<1> HIDE DEF n
<1> QED BY <1>1, <1>2, <1>3, MateByCheck

(* The horizon is far enough: what is no mate within it is none at any depth. *)
THEOREM NeverStays ==
    ASSUME NEW g, IsGame(g), NEW c
    PROVE  MatesFrom(g, c, MateWithin(g, c)[Horizon(g)]) = MateWithin(g, c)[Horizon(g)]
<1> DEFINE M == MateWithin(g, c)
           H == Horizon(g)
           N == Cardinality(DOMAIN g.legal)
<1>1. N \in Nat /\ IsFiniteSet(DOMAIN g.legal)
  BY FS_CardinalityType DEF IsGame
<1>2. H \in Nat /\ H > N /\ H >= 1
  BY <1>1, TsumeSearchAssumption DEF Horizon
<1>3. \A n \in 1 .. H : M[n] = MatesFrom(g, c, M[n - 1])
  BY MateDefined
<1>4. \A n \in 0 .. H : M[n] \subseteq DOMAIN g.legal
  <2>1. \A n \in 0 .. H : n = 0 \/ n \in 1 .. H
    BY <1>2
  <2>2. M[0] \subseteq DOMAIN g.legal
    BY MateDefined
  <2> QED BY <1>3, <2>1, <2>2 DEF MatesFrom
<1>5. \A n \in 0 .. (H - 1) : M[n] \subseteq M[n + 1]
  <2> SUFFICES ASSUME NEW n \in 0 .. (H - 1) PROVE M[n] \subseteq M[n + 1]
    OBVIOUS
  <2>1. n \in 0 .. (n + 1) /\ n + 1 \in 0 .. H
    BY <1>2
  <2> QED BY <2>1, MatesGrow
<1> HIDE DEF M, H, N
<1>6. \E n \in 0 .. (H - 1) : M[n] = M[n + 1]
  <2> SUFFICES ASSUME \A n \in 0 .. (H - 1) : M[n] # M[n + 1] PROVE FALSE
    OBVIOUS
  <2> DEFINE A == {n \in Nat : n <= H => Cardinality(M[n]) \in Nat /\ Cardinality(M[n]) >= n}
  <2>1. \A n \in 0 .. H : IsFiniteSet(M[n]) /\ Cardinality(M[n]) \in Nat /\ Cardinality(M[n]) <= N
    BY <1>1, <1>4, FS_Subset, FS_CardinalityType DEF N
  <2>2. 0 \in A
    <3>1. 0 \in 0 .. H
      BY <1>2
    <3> QED BY <2>1, <3>1
  <2>3. ASSUME NEW n \in Nat, n \in A PROVE n + 1 \in A
    <3> SUFFICES ASSUME n + 1 <= H
                 PROVE  Cardinality(M[n + 1]) \in Nat /\ Cardinality(M[n + 1]) >= n + 1
      OBVIOUS
    <3>1. n \in 0 .. (H - 1) /\ n \in 0 .. H /\ n + 1 \in 0 .. H
      BY <1>2
    <3>2. M[n] \subseteq M[n + 1] /\ M[n] # M[n + 1]
      BY <1>5, <3>1
    <3>3. /\ Cardinality(M[n]) <= Cardinality(M[n + 1])
          /\ Cardinality(M[n]) # Cardinality(M[n + 1])
      BY <2>1, <3>1, <3>2, FS_Subset
    <3>4. Cardinality(M[n]) \in Nat /\ Cardinality(M[n + 1]) \in Nat /\ Cardinality(M[n]) >= n
      BY <2>1, <2>3, <3>1
    <3> QED BY <3>3, <3>4
  <2> HIDE DEF A
  <2>4. Nat \subseteq A
    BY <2>2, <2>3, Mates!Induction
  <2>5. Cardinality(M[H]) >= H /\ Cardinality(M[H]) \in Nat /\ Cardinality(M[H]) <= N
    <3>1. H \in A /\ H \in 0 .. H
      BY <1>2, <2>4
    <3> QED BY <1>2, <2>1, <3>1 DEF A
  <2> QED BY <1>1, <1>2, <2>5
<1>7. PICK n \in 0 .. (H - 1) : M[n] = M[n + 1]
  BY <1>6
<1> DEFINE B == {k \in Nat : n + k <= H - 1 => M[n + k] = M[n + k + 1]}
<1>8. 0 \in B
  BY <1>7
<1>9. ASSUME NEW k \in Nat, k \in B PROVE k + 1 \in B
  <2> SUFFICES ASSUME n + (k + 1) <= H - 1 PROVE M[n + (k + 1)] = M[n + (k + 1) + 1]
    OBVIOUS
  <2>1. /\ n + (k + 1) \in 1 .. H /\ n + (k + 1) + 1 \in 1 .. H
        /\ n + (k + 1) - 1 = n + k /\ n + (k + 1) + 1 - 1 = n + (k + 1) /\ n + (k + 1) = n + k + 1
        /\ n + k <= H - 1
    BY <1>2
  <2>2. M[n + k] = M[n + (k + 1)]
    BY <1>9, <2>1
  <2>3. M[n + (k + 1)] = MatesFrom(g, c, M[n + k]) /\ M[n + (k + 1) + 1] = MatesFrom(g, c, M[n + (k + 1)])
    BY <1>3, <2>1
  <2> QED BY <2>2, <2>3
<1> HIDE DEF B
<1>10. Nat \subseteq B
  BY <1>8, <1>9, Mates!Induction
<1>11. M[H - 1] = M[H]
  <2>1. H - 1 - n \in Nat /\ n + (H - 1 - n) = H - 1 /\ H - 1 + 1 = H
    BY <1>2, <1>7
  <2>2. H - 1 - n \in B
    BY <1>10, <2>1
  <2> QED BY <1>2, <2>1, <2>2 DEF B
<1>12. H \in 1 .. H
  BY <1>2
<1>13. M[H] = MatesFrom(g, c, M[H - 1])
  BY <1>3, <1>12
<1> QED BY <1>11, <1>13 DEF M, H

-----------------------------------------------------------------------------
(* The table: what it is, wherever its entries come from. *)

Entries == [key : Nat, move : Nat, generation : Nat, mate : 0 .. Unknown, limit : 0 .. Unknown,
            noMate : BOOLEAN]
Tables == [entries : Seq(Entries), generation : 1 .. (GenerationLimit - 1), live : Nat]

Fields == {"entries", "generation", "live"}
Whole(T) == T = [f \in Fields |-> T[f]]
EntryFields == {"key", "move", "generation", "mate", "limit", "noMate"}

LEMMA TableFields ==
    ASSUME NEW T
    PROVE  /\ T \in Tables <=> /\ Whole(T) /\ T.entries \in Seq(Entries) /\ T.live \in Nat
                                /\ T.generation \in 1 .. (GenerationLimit - 1)
           /\ \A N : (/\ Whole(T) /\ Whole(N) /\ T.entries = N.entries
                      /\ T.generation = N.generation /\ T.live = N.live) => T = N
<1>1. T \in Tables => Whole(T)
  BY DEF Tables, Whole, Fields
<1>2. Whole(T) /\ T.entries \in Seq(Entries) /\ T.live \in Nat /\ T.generation \in 1 .. (GenerationLimit - 1)
      => T \in Tables
  BY DEF Tables, Whole, Fields
<1>3. ASSUME NEW N, Whole(T), Whole(N), T.entries = N.entries, T.generation = N.generation, T.live = N.live
      PROVE  T = N
  BY <1>3 DEF Whole, Fields
<1>4. T \in Tables => T.entries \in Seq(Entries) /\ T.live \in Nat /\ T.generation \in 1 .. (GenerationLimit - 1)
  BY DEF Tables
<1> QED BY <1>1, <1>2, <1>3, <1>4

LEMMA EntryFieldsAre ==
    ASSUME NEW e
    PROVE  e \in Entries <=> /\ e = [f \in EntryFields |-> e[f]]
                             /\ e.key \in Nat /\ e.move \in Nat /\ e.generation \in Nat
                             /\ e.mate \in 0 .. Unknown /\ e.limit \in 0 .. Unknown /\ e.noMate \in BOOLEAN
BY DEF Entries, EntryFields

LiveSlots(T) == {i \in 1 .. Size(T) : Live(T, i)}

(* No entry is of a later generation, every live one is in the bucket of its key, alone
   with that key, and counted. *)
Kept(T) ==
    /\ \A i \in 1 .. Size(T) : T.entries[i].generation <= T.generation
    /\ \A i \in LiveSlots(T) : i \in Bucket(T, T.entries[i].key)
    /\ \A i, j \in LiveSlots(T) : T.entries[i].key = T.entries[j].key => i = j
    /\ T.live = Cardinality(LiveSlots(T))

(* What an entry says of its position, in game g with attacker c. *)
EntryTrue(g, c, e) ==
    /\ e.mate # Unknown => /\ e.mate <= MaxPlies /\ e.key \in MateWithin(g, c)[e.mate]
                           /\ e.mate > 0 => e.move \in MateWithin(g, c)[e.mate - 1]
    /\ e.limit # Unknown => e.limit <= MaxPlies /\ e.key \notin MateWithin(g, c)[e.limit]
    /\ e.noMate => e.key \in NeverMate(g, c)

(* Tables of n buckets and one generation that are in order and true. *)
Good(g, c, n, generation) ==
    {T \in Tables : /\ Size(T) = n * BucketSize /\ T.generation = generation /\ Kept(T)
                    /\ \A i \in LiveSlots(T) : EntryTrue(g, c, T.entries[i])}

LEMMA Quotient ==
    ASSUME NEW n \in Nat, NEW b \in Nat, b > 0
    PROVE  (n * b) \div b = n
<1>1. n * b \in Nat
  OBVIOUS
<1> DEFINE q == (n * b) \div b
           r == (n * b) % b
<1>2. q \in Nat /\ r \in Nat /\ r < b /\ n * b = q * b + r
  BY <1>1
<1> HIDE DEF q, r
<1>3. ~(q < n)
  <2> SUFFICES ASSUME q < n PROVE FALSE
    OBVIOUS
  <2>1. PICK d \in Nat : n = q + 1 + d
    <3>1. n - q - 1 \in Nat /\ n = q + 1 + (n - q - 1)
      BY <1>2
    <3> QED BY <3>1
  <2>2. n * b = q * b + b + d * b /\ d * b \in Nat /\ q * b \in Nat
    BY <1>2, <2>1
  <2> QED BY <1>2, <2>2
<1>4. ~(q > n)
  <2> SUFFICES ASSUME q > n PROVE FALSE
    OBVIOUS
  <2>1. PICK d \in Nat : q = n + 1 + d
    <3>1. q - n - 1 \in Nat /\ q = n + 1 + (q - n - 1)
      BY <1>2
    <3> QED BY <3>1
  <2>2. q * b = n * b + b + d * b /\ d * b \in Nat
    BY <1>2, <2>1
  <2> QED BY <1>1, <1>2, <2>2
<1>5. q = n
  BY <1>2, <1>3, <1>4
<1> QED BY <1>5 DEF q

(* Buckets divide the slots. *)
LEMMA BucketIs ==
    ASSUME NEW T, NEW n \in Nat, n > 0, Size(T) = n * BucketSize, NEW key \in Nat
    PROVE  /\ Bucket(T, key) = ((key % n) * BucketSize + 1) .. ((key % n) * BucketSize + BucketSize)
           /\ Bucket(T, key) \subseteq 1 .. Size(T) /\ Bucket(T, key) # {}
<1>1. BucketSize \in Nat /\ BucketSize > 0
  BY TsumeTableAssumption
<1>2. Size(T) \div BucketSize = n
  BY <1>1, Quotient
<1>3. Bucket(T, key) = ((key % n) * BucketSize + 1) .. ((key % n) * BucketSize + BucketSize)
  BY <1>2 DEF Bucket
<1> DEFINE k == key % n
<1>4. k \in Nat /\ n - 1 - k \in Nat
  OBVIOUS
<1> HIDE DEF k
<1>5. (n - 1 - k) * BucketSize \in Nat /\ k * BucketSize \in Nat
  BY <1>1, <1>4
<1>6. n * BucketSize = k * BucketSize + BucketSize + (n - 1 - k) * BucketSize
  BY <1>1, <1>4
<1>7. (k * BucketSize + 1) .. (k * BucketSize + BucketSize) \subseteq 1 .. Size(T)
  BY <1>1, <1>5, <1>6
<1>8. k * BucketSize + 1 \in (k * BucketSize + 1) .. (k * BucketSize + BucketSize)
  BY <1>1, <1>5
<1> QED BY <1>3, <1>7, <1>8 DEF k

LEMMA SameBucket ==
    ASSUME NEW T, NEW n \in Nat, n > 0, Size(T) = n * BucketSize, NEW key \in Nat, NEW other \in Nat,
           NEW i \in Bucket(T, key), i \in Bucket(T, other)
    PROVE  Bucket(T, key) = Bucket(T, other)
<1> DEFINE j == key % n
           k == other % n
           B == BucketSize
<1>1. /\ Bucket(T, key) = (j * B + 1) .. (j * B + B) /\ Bucket(T, other) = (k * B + 1) .. (k * B + B)
      /\ j \in Nat /\ k \in Nat /\ B \in Nat /\ B > 0
  BY BucketIs, TsumeTableAssumption
<1> HIDE DEF j, k, B
<1>2. j * B \in Nat /\ k * B \in Nat
  BY <1>1
<1>3. i \in Nat /\ j * B < i /\ i <= j * B + B /\ k * B < i /\ i <= k * B + B
  BY <1>1, <1>2
<1>4. ~(j < k)
  <2> SUFFICES ASSUME j < k PROVE FALSE
    OBVIOUS
  <2>1. (k - j - 1) \in Nat /\ (k - j - 1) * B \in Nat
    BY <1>1
  <2>2. k * B = j * B + B + (k - j - 1) * B
    BY <1>1
  <2> QED BY <1>1, <1>2, <1>3, <2>1, <2>2
<1>5. ~(k < j)
  <2> SUFFICES ASSUME k < j PROVE FALSE
    OBVIOUS
  <2>1. (j - k - 1) \in Nat /\ (j - k - 1) * B \in Nat
    BY <1>1
  <2>2. j * B = k * B + B + (j - k - 1) * B
    BY <1>1
  <2> QED BY <1>1, <1>2, <1>3, <2>1, <2>2
<1> QED BY <1>1, <1>4, <1>5

LEMMA EntryAt ==
    ASSUME NEW T \in Tables, NEW i \in 1 .. Size(T)
    PROVE  T.entries[i] \in Entries
BY ElementOfSeq DEF Tables, Size

LEMMA ValueIs ==
    ASSUME NEW T \in Tables, NEW i \in 1 .. Size(T)
    PROVE  /\ Value(T, i) \in (-1) .. 1000
           /\ Value(T, i) = 1000 <=> Live(T, i) /\ Proven(T.entries[i])
<1>1. T.entries[i] \in Entries
  BY EntryAt
<1>2. T.entries[i].limit \in 0 .. 255
  BY <1>1 DEF Entries, Unknown
<1>3. PICK e : e = T.entries[i]
  OBVIOUS
<1>4. Value(T, i) = IF ~Live(T, i) THEN -1
                    ELSE IF Proven(e) THEN 1000 ELSE IF e.limit = 255 THEN 0 ELSE e.limit + 1
  BY <1>3 DEF Value, Unknown
<1>5. PICK n \in 0 .. 255 : n = e.limit
  BY <1>2, <1>3
<1>6. Value(T, i) = IF ~Live(T, i) THEN -1 ELSE IF Proven(e) THEN 1000 ELSE IF n = 255 THEN 0 ELSE n + 1
  BY <1>4, <1>5
<1>7. /\ -1 \in (-1) .. 1000 /\ 1000 \in (-1) .. 1000 /\ 0 \in (-1) .. 1000 /\ n + 1 \in (-1) .. 1000
      /\ n + 1 # 1000
  OBVIOUS
<1> QED BY <1>3, <1>6, <1>7

(* The victim is a slot of the bucket, and none there is worth less. *)
LEMMA VictimIs ==
    ASSUME NEW T \in Tables, NEW n \in Nat, n > 0, Size(T) = n * BucketSize, NEW key \in Nat
    PROVE  /\ Victim(T, key) \in Bucket(T, key)
           /\ \A j \in Bucket(T, key) : Value(T, Victim(T, key)) <= Value(T, j)
<1> DEFINE B == Bucket(T, key)
           Worth == {Value(T, i) + 1 : i \in B}
<1>1. B \subseteq 1 .. Size(T) /\ B # {} /\ B \subseteq Nat
  <2>1. B \subseteq 1 .. Size(T) /\ B # {}
    BY BucketIs
  <2> QED BY <2>1
<1>2. \A i \in B : Value(T, i) \in Int /\ Value(T, i) + 1 \in Nat
  <2> SUFFICES ASSUME NEW i \in B PROVE Value(T, i) \in Int /\ Value(T, i) + 1 \in Nat
    OBVIOUS
  <2>1. i \in 1 .. Size(T)
    BY <1>1
  <2>2. Value(T, i) \in (-1) .. 1000
    BY <2>1, ValueIs
  <2> QED BY <2>2
<1> HIDE DEF B
<1>3. Worth \subseteq Nat /\ Worth # {}
  BY <1>1, <1>2
<1>4. PICK w \in Worth : \A u \in Worth : w <= u
  BY <1>3, Mates!LeastElement
<1> DEFINE Least == {i \in B : Value(T, i) + 1 = w}
<1>5. Least \subseteq Nat /\ Least # {}
  BY <1>1, <1>4
<1>6. PICK i \in Least : \A j \in Least : i <= j
  BY <1>5, Mates!LeastElement
<1>7. i \in B /\ \A j \in B : Value(T, i) < Value(T, j) \/ (Value(T, i) = Value(T, j) /\ i <= j)
  <2>1. i \in B /\ Value(T, i) + 1 = w
    BY <1>6
  <2>2. ASSUME NEW j \in B PROVE Value(T, i) < Value(T, j) \/ (Value(T, i) = Value(T, j) /\ i <= j)
    <3>1. Value(T, i) + 1 <= Value(T, j) + 1
      BY <1>4, <2>1
    <3>2. Value(T, j) = Value(T, i) => i <= j
      BY <1>6, <2>1
    <3>3. Value(T, i) \in Int /\ Value(T, j) \in Int
      BY <1>2, <2>1
    <3> HIDE DEF Worth, Least
    <3> QED BY <2>1, <3>1, <3>2, <3>3
  <2> QED BY <2>1, <2>2
<1>8. /\ Victim(T, key) \in B
      /\ \A j \in B : \/ Value(T, Victim(T, key)) < Value(T, j)
                      \/ Value(T, Victim(T, key)) = Value(T, j) /\ Victim(T, key) <= j
  BY <1>7 DEF Victim, B
<1> QED BY <1>2, <1>8 DEF B

(* One entry more, or another in a slot: it must be of this generation, true, in its
   bucket, and the only one of its key. *)
Placing(T, i, e) == [T EXCEPT !.live = IF Live(T, i) THEN @ ELSE @ + 1, !.entries[i] = e]

OnlyAt(i, N, T) == \A j \in 1 .. Size(T) : j # i => N.entries[j] = T.entries[j]

MayPlace(g, c, T, i, e) ==
    /\ i \in 1 .. Size(T) /\ e \in Entries /\ e.generation = T.generation
    /\ i \in Bucket(T, e.key) /\ EntryTrue(g, c, e)
    /\ \A j \in LiveSlots(T) : T.entries[j].key = e.key => j = i

LEMMA PlacingKeeps ==
    ASSUME NEW g, NEW c, NEW n \in Nat, NEW generation, NEW T \in Good(g, c, n, generation),
           NEW i, NEW e, MayPlace(g, c, T, i, e)
    PROVE  /\ Placing(T, i, e) \in Good(g, c, n, generation)
           /\ LiveSlots(Placing(T, i, e)) = LiveSlots(T) \cup {i}
           /\ Placing(T, i, e).entries[i] = e
           /\ OnlyAt(i, Placing(T, i, e), T)
<1> DEFINE N == Placing(T, i, e)
<1>1. /\ T \in Tables /\ Size(T) = n * BucketSize /\ T.generation = generation /\ Kept(T)
      /\ \A j \in LiveSlots(T) : EntryTrue(g, c, T.entries[j])
  BY DEF Good
<1> USE DEF MayPlace
<1>2. T.entries \in Seq(Entries) /\ T.live \in Nat /\ DOMAIN T.entries = 1 .. Size(T) /\ Size(T) \in Nat
  BY <1>1 DEF Tables, Size
<1>3. /\ N.entries = [T.entries EXCEPT ![i] = e] /\ N.generation = T.generation
      /\ N.live = (IF Live(T, i) THEN T.live ELSE T.live + 1)
      /\ Whole(N)
  <2>1. Whole(T)
    BY <1>1, TableFields
  <2> QED BY <2>1 DEF Placing, Whole, Fields
<1>4. /\ N.entries \in Seq(Entries) /\ Len(N.entries) = Len(T.entries)
      /\ N.entries[i] = e /\ \A j \in 1 .. Size(T) : j # i => N.entries[j] = T.entries[j]
  BY <1>2, <1>3, ExceptSeq DEF Size
<1> HIDE DEF N
<1>5. Size(N) = Size(T) /\ N \in Tables
  BY <1>1, <1>2, <1>3, <1>4, TableFields, SMTT(30) DEF Size
<1>6. \A key : Bucket(N, key) = Bucket(T, key)
  BY <1>5 DEF Bucket
<1>7. \A j \in 1 .. Size(T) : Live(N, j) <=> j = i \/ Live(T, j)
  BY <1>1, <1>3, <1>4 DEF Live
<1>8. LiveSlots(N) = LiveSlots(T) \cup {i}
  BY <1>5, <1>7 DEF LiveSlots
<1>9. \A j \in LiveSlots(N) : j # i => j \in LiveSlots(T) /\ N.entries[j] = T.entries[j]
  BY <1>4, <1>5, <1>8 DEF LiveSlots
<1>10. Kept(N)
  <2>1. \A j \in 1 .. Size(N) : N.entries[j].generation <= N.generation
    <3> SUFFICES ASSUME NEW j \in 1 .. Size(N) PROVE N.entries[j].generation <= N.generation
      OBVIOUS
    <3>1. j # i => N.entries[j].generation <= N.generation
      BY <1>1, <1>3, <1>4, <1>5 DEF Kept
    <3>2. generation \in Int
      BY <1>1 DEF Tables
    <3> QED BY <1>1, <1>3, <1>4, <3>1, <3>2
  <2>2. \A j \in LiveSlots(N) : j \in Bucket(N, N.entries[j].key)
    BY <1>1, <1>4, <1>6, <1>9 DEF Kept
  <2>3. \A j, k \in LiveSlots(N) : N.entries[j].key = N.entries[k].key => j = k
    BY <1>1, <1>4, <1>9 DEF Kept
  <2>4. N.live = Cardinality(LiveSlots(N))
    <3>1. IsFiniteSet(LiveSlots(T))
      <4>1. IsFiniteSet(1 .. Size(T)) /\ LiveSlots(T) \in SUBSET (1 .. Size(T))
        BY <1>2, FS_Interval DEF LiveSlots
      <4> QED BY <4>1, FS_Subset
    <3>2. Cardinality(LiveSlots(N)) = IF i \in LiveSlots(T) THEN Cardinality(LiveSlots(T))
                                      ELSE Cardinality(LiveSlots(T)) + 1
      BY <1>8, <3>1, FS_AddElement
    <3>3. i \in LiveSlots(T) <=> Live(T, i)
      BY DEF LiveSlots
    <3> QED BY <1>1, <1>3, <3>2, <3>3 DEF Kept
  <2> QED BY <2>1, <2>2, <2>3, <2>4 DEF Kept
<1>11. \A j \in LiveSlots(N) : EntryTrue(g, c, N.entries[j])
  BY <1>1, <1>4, <1>9
<1>12. N \in Good(g, c, n, generation)
  BY <1>1, <1>3, <1>5, <1>10, <1>11 DEF Good
<1> QED BY <1>4, <1>8, <1>12 DEF N, OnlyAt

Fresh(key, generation) ==
    [EmptyEntry EXCEPT !.key = key, !.generation = generation, !.mate = Unknown, !.limit = Unknown]

LEMMA FreshIs ==
    ASSUME NEW g, NEW c, NEW key \in Nat, NEW generation \in Nat
    PROVE  /\ Fresh(key, generation) \in Entries /\ EntryTrue(g, c, Fresh(key, generation))
           /\ Fresh(key, generation).key = key /\ Fresh(key, generation).generation = generation
           /\ ~Proven(Fresh(key, generation))
<1> DEFINE e == Fresh(key, generation)
<1>1. /\ e = [f \in EntryFields |-> e[f]]
      /\ e.key = key /\ e.move = 0 /\ e.generation = generation
      /\ e.mate = 255 /\ e.limit = 255 /\ e.noMate = FALSE
  BY ZenonT(60) DEF Fresh, EmptyEntry, EntryFields, Unknown, NoMove
<1> HIDE DEF e
<1>2. e \in Entries
  <2>1. 0 \in Nat /\ 255 \in 0 .. 255 /\ FALSE \in BOOLEAN
    OBVIOUS
  <2> QED BY <1>1, <2>1, EntryFieldsAre DEF Unknown
<1>3. EntryTrue(g, c, e) /\ ~Proven(e)
  BY <1>1 DEF EntryTrue, Proven, Unknown
<1> QED BY <1>1, <1>2, <1>3 DEF e

(* find_slot, in words: a slot of the bucket that holds the key, as it was if there was
   one, or instead of the victim; all else stays. *)
SlotFor(T, key, s) ==
    /\ Size(s.table) = Size(T) /\ s.at \in Bucket(T, key) /\ s.at \in 1 .. Size(T)
    /\ s.at \in LiveSlots(s.table) /\ s.table.entries[s.at].key = key
    /\ OnlyAt(s.at, s.table, T)
    /\ \/ Holders(T, key) # {} /\ s.table = T
       \/ Holders(T, key) = {} /\ s.at = Victim(T, key)

LEMMA FindSlotIs ==
    ASSUME NEW g, NEW c, NEW n \in Nat, n > 0, NEW generation, NEW T \in Good(g, c, n, generation),
           NEW key \in Nat
    PROVE  FindSlot(T, key).table \in Good(g, c, n, generation) /\ SlotFor(T, key, FindSlot(T, key))
<1> DEFINE s == FindSlot(T, key)
<1>1. T \in Tables /\ Size(T) = n * BucketSize /\ T.generation = generation /\ Kept(T) /\ generation \in Nat
  BY DEF Good, Tables
<1>2. Bucket(T, key) \subseteq 1 .. Size(T)
  BY <1>1, BucketIs
<1> SUFFICES s.table \in Good(g, c, n, generation) /\ SlotFor(T, key, s)
  OBVIOUS
<1> USE DEF SlotFor
<1>3. CASE Holders(T, key) # {}
  <2>1. s.table = T /\ s.at \in Holders(T, key)
    BY <1>3 DEF FindSlot
  <2> QED BY <1>2, <1>3, <2>1 DEF Holders, LiveSlots, OnlyAt
<1>4. CASE Holders(T, key) = {}
  <2> DEFINE v == Victim(T, key)
             e == Fresh(key, generation)
  <2>1. s.at = v /\ s.table = Placing(T, v, e)
    BY <1>1, <1>4 DEF FindSlot, Placing, Fresh
  <2>2. v \in Bucket(T, key) /\ v \in 1 .. Size(T)
    BY <1>1, <1>2, VictimIs
  <2>3. e \in Entries /\ EntryTrue(g, c, e) /\ e.key = key /\ e.generation = generation
    BY <1>1, FreshIs
  <2> HIDE DEF v, e
  <2>4. \A j \in LiveSlots(T) : T.entries[j].key # key
    BY <1>1, <1>4 DEF Holders, LiveSlots, Kept
  <2>5. /\ s.table \in Good(g, c, n, generation) /\ LiveSlots(s.table) = LiveSlots(T) \cup {v}
        /\ s.table.entries[v] = e
        /\ OnlyAt(v, s.table, T)
    <3>1. v \in Bucket(T, e.key) /\ \A j \in LiveSlots(T) : T.entries[j].key = e.key => j = v
      BY <2>2, <2>3, <2>4
    <3>2. /\ Placing(T, v, e) \in Good(g, c, n, generation)
          /\ LiveSlots(Placing(T, v, e)) = LiveSlots(T) \cup {v}
          /\ Placing(T, v, e).entries[v] = e
          /\ OnlyAt(v, Placing(T, v, e), T)
      <4>1. MayPlace(g, c, T, v, e)
        BY <1>1, <2>2, <2>3, <3>1 DEF MayPlace
      <4> QED BY <4>1, PlacingKeeps
    <3> QED BY <2>1, <3>2
  <2>6. Size(s.table) = Size(T)
    BY <1>1, <2>5 DEF Good
  <2> QED BY <1>4, <2>1, <2>2, <2>3, <2>5, <2>6 DEF v
<1> QED BY <1>3, <1>4

(* What may then be written into the slot. *)
Rewritten(T, i, e) == [T EXCEPT !.entries[i] = e]

MayRewrite(g, c, T, i, e) ==
    /\ i \in LiveSlots(T) /\ e \in Entries /\ EntryTrue(g, c, e)
    /\ e.generation = T.generation /\ e.key = T.entries[i].key

LEMMA RewriteKeeps ==
    ASSUME NEW g, NEW c, NEW n \in Nat, NEW generation, NEW T \in Good(g, c, n, generation),
           NEW i, NEW e, MayRewrite(g, c, T, i, e)
    PROVE  /\ Rewritten(T, i, e) \in Good(g, c, n, generation)
           /\ Rewritten(T, i, e).entries[i] = e /\ LiveSlots(Rewritten(T, i, e)) = LiveSlots(T)
           /\ OnlyAt(i, Rewritten(T, i, e), T)
<1>1. T \in Tables /\ Kept(T) /\ i \in 1 .. Size(T) /\ Live(T, i)
  BY DEF Good, LiveSlots, MayRewrite
<1>2. Rewritten(T, i, e) = Placing(T, i, e)
  <2> DEFINE N == Rewritten(T, i, e)
  <2>1. Whole(T)
    BY <1>1, TableFields
  <2>2. /\ Whole(N) /\ N.entries = [T.entries EXCEPT ![i] = e]
        /\ N.generation = T.generation /\ N.live = T.live
    BY <2>1 DEF Whole, Fields, Rewritten
  <2>3. /\ Whole(Placing(T, i, e)) /\ Placing(T, i, e).entries = [T.entries EXCEPT ![i] = e]
        /\ Placing(T, i, e).generation = T.generation /\ Placing(T, i, e).live = T.live
    BY <1>1, <2>1 DEF Placing, Whole, Fields
  <2> HIDE DEF N
  <2>4. N = Placing(T, i, e)
    BY <2>2, <2>3, TableFields
  <2> QED BY <2>4 DEF N
<1>3. i \in Bucket(T, e.key) /\ \A j \in LiveSlots(T) : T.entries[j].key = e.key => j = i
  BY <1>1 DEF Kept, MayRewrite
<1>4. MayPlace(g, c, T, i, e)
  BY <1>1, <1>3 DEF MayPlace, MayRewrite
<1>5. LiveSlots(T) \cup {i} = LiveSlots(T)
  BY DEF MayRewrite
<1>6. /\ Placing(T, i, e) \in Good(g, c, n, generation)
      /\ LiveSlots(Placing(T, i, e)) = LiveSlots(T) \cup {i}
      /\ Placing(T, i, e).entries[i] = e /\ OnlyAt(i, Placing(T, i, e), T)
  BY <1>4, PlacingKeeps
<1> QED BY <1>2, <1>5, <1>6

(* A new table has nothing in it. *)
Cleared(size, generation) == [NewTable(size) EXCEPT !.generation = generation]

LEMMA ClearedIsGood ==
    ASSUME NEW g, NEW c, NEW n \in Nat, NEW generation \in 1 .. (GenerationLimit - 1)
    PROVE  Cleared(n * BucketSize, generation) \in Good(g, c, n, generation)
<1> DEFINE T == Cleared(n * BucketSize, generation)
           size == n * BucketSize
<1>1. BucketSize \in Nat /\ GenerationLimit \in Nat
  BY TsumeTableAssumption
<1>2. size \in Nat
  BY <1>1
<1>3. EmptyEntry \in Entries /\ EmptyEntry.generation = 0
  <2> DEFINE e == EmptyEntry
  <2>1. /\ e = [f \in EntryFields |-> e[f]]
        /\ e.key = 0 /\ e.move = 0 /\ e.generation = 0 /\ e.mate = 0 /\ e.limit = 0 /\ e.noMate = FALSE
    BY DEF EmptyEntry, EntryFields, NoMove
  <2> HIDE DEF e
  <2>2. 0 \in Nat /\ 0 \in 0 .. 255 /\ FALSE \in BOOLEAN
    OBVIOUS
  <2>3. e \in Entries
    BY <2>1, <2>2, EntryFieldsAre DEF Unknown
  <2> QED BY <2>1, <2>3 DEF e
<1>5. T.entries = [i \in 1 .. size |-> EmptyEntry] /\ T.generation = generation /\ T.live = 0 /\ Whole(T)
  BY DEF Cleared, NewTable, Whole, Fields
<1> HIDE DEF T, size
<1>6. T.entries \in Seq(Entries) /\ Size(T) = size
  BY <1>2, <1>3, <1>5 DEF Size
<1>7. \A i \in 1 .. Size(T) : T.entries[i].generation = 0
  BY <1>3, <1>5, <1>6
<1>8. LiveSlots(T) = {}
  <2>1. generation # 0
    OBVIOUS
  <2> QED BY <1>5, <1>7, <2>1 DEF LiveSlots, Live
<1>9. T \in Tables
  BY <1>5, <1>6, TableFields
<1>10. Kept(T)
  <2>1. 0 <= generation
    OBVIOUS
  <2>2. \A i \in 1 .. Size(T) : T.entries[i].generation <= T.generation
    BY <1>5, <1>7, <2>1
  <2> QED BY <1>5, <1>8, <2>2, FS_EmptySet DEF Kept
<1> QED BY <1>5, <1>6, <1>8, <1>9, <1>10 DEF Good, T, size

LEMMA InsertKeeps ==
    ASSUME NEW g, NEW c, NEW n \in Nat, n > 0, NEW generation, NEW T \in Good(g, c, n, generation),
           NEW e \in Entries, e.generation = generation, EntryTrue(g, c, e)
    PROVE  InsertEntry(T, e) \in Good(g, c, n, generation)
<1> DEFINE s == FindSlot(T, e.key)
<1>1. PICK key \in Nat : key = e.key
  BY EntryFieldsAre
<1>2. /\ s.table \in Good(g, c, n, generation)
      /\ s.at \in LiveSlots(s.table) /\ s.table.entries[s.at].key = e.key
  <2>1. FindSlot(T, key).table \in Good(g, c, n, generation) /\ SlotFor(T, key, FindSlot(T, key))
    BY FindSlotIs
  <2> QED BY <1>1, <2>1 DEF SlotFor
<1>3. InsertEntry(T, e) = Rewritten(s.table, s.at, e)
  BY DEF InsertEntry, Rewritten, s
<1>4. MayRewrite(g, c, s.table, s.at, e)
  BY <1>2 DEF MayRewrite, Good
<1> QED BY <1>2, <1>3, <1>4, RewriteKeeps

(* Growing moves the entries to a table of twice the size. *)
LEMMA GrowthKeeps ==
    ASSUME NEW g, NEW c, NEW n \in Nat, n > 0, NEW generation, NEW T \in Good(g, c, n, generation)
    PROVE  GrowTable(T) \in Good(g, c, 2 * n, generation)
<1> DEFINE base == Cleared((2 * n) * BucketSize, generation)
           Larger == Good(g, c, 2 * n, generation)
<1>1. /\ T \in Tables /\ Size(T) = n * BucketSize /\ T.generation = generation
      /\ \A i \in LiveSlots(T) : EntryTrue(g, c, T.entries[i])
  BY DEF Good
<1>2. generation \in 1 .. (GenerationLimit - 1) /\ BucketSize \in Nat /\ 2 * n \in Nat /\ 2 * n > 0
  BY <1>1, TsumeTableAssumption DEF Tables
<1>3. base \in Larger
  BY <1>2, ClearedIsGood
<1>4. 2 * Size(T) = (2 * n) * BucketSize
  BY <1>1, <1>2
<1>5. GrowTable(T) = Growth!Fold(base, T.entries)
  <2>1. GrowTable(T) = Growth!Fold([NewTable(2 * Size(T)) EXCEPT !.generation = T.generation], T.entries)
    BY DEF GrowTable, Growth!Fold, Growth!Greatest, FoldLeft, MapThenFoldSet, Max
  <2>2. base = [NewTable(2 * Size(T)) EXCEPT !.generation = T.generation]
    BY <1>1, <1>4 DEF Cleared
  <2> QED BY <2>1, <2>2
<1>6. DOMAIN T.entries = 1 .. Size(T) /\ Size(T) \in Nat
  BY <1>1 DEF Tables, Size
<1> HIDE DEF base
<1>7. PICK r : Growth!IsRun(r, Size(T), base, T.entries) /\ r[Size(T)] = Growth!Fold(base, T.entries)
  BY <1>6, Growth!FoldRuns
<1>8. ASSUME NEW i \in 1 .. Size(T), NEW N \in Larger PROVE KeepEntry(N, T.entries[i]) \in Larger
  <2> DEFINE e == T.entries[i]
  <2>1. N.generation = generation
    BY DEF Good
  <2>2. e \in Entries
    BY <1>1, EntryAt
  <2>3. e.generation = generation => EntryTrue(g, c, e)
    BY <1>1 DEF LiveSlots, Live
  <2> HIDE DEF e, Larger
  <2>4. CASE e.generation = generation
    <3>1. InsertEntry(N, e) \in Larger
      BY <1>2, <2>2, <2>3, <2>4, InsertKeeps DEF Larger
    <3> QED BY <2>1, <2>4, <3>1 DEF KeepEntry, e
  <2>5. CASE e.generation # generation
    BY <2>1, <2>5 DEF KeepEntry, e
  <2> QED BY <2>4, <2>5
<1> HIDE DEF Larger
<1>9. \A i \in 0 .. Size(T) : r[i] \in Larger
  BY <1>3, <1>6, <1>7, <1>8, Growth!RunKeeps
<1>10. Size(T) \in 0 .. Size(T)
  BY <1>6
<1> QED BY <1>5, <1>7, <1>9, <1>10 DEF Larger

(* A new generation holds nothing yet, so it can be for either attacker. *)
LEMMA NewGenerationIsGood ==
    ASSUME NEW g, NEW c, NEW d, NEW n \in Nat, NEW generation, NEW T \in Good(g, c, n, generation)
    PROVE  \E next : NewGeneration(T) \in Good(g, d, n, next)
<1>1. T \in Tables /\ Size(T) = n * BucketSize /\ T.generation = generation /\ Kept(T)
  BY DEF Good
<1>2. GenerationLimit \in Nat /\ GenerationLimit > 2 /\ generation \in 1 .. (GenerationLimit - 1)
  BY <1>1, TsumeTableAssumption DEF Tables
<1>3. CASE (T.generation + 1) % GenerationLimit = 0
  <2>1. NewTable(Size(T)) = Cleared(n * BucketSize, 1)
    <3>1. NewTable(Size(T)).generation = 1
      BY DEF NewTable
    <3> QED BY <1>1, <3>1 DEF Cleared, NewTable
  <2>2. NewTable(Size(T)) \in Good(g, d, n, 1)
    BY <1>2, <2>1, ClearedIsGood
  <2> QED BY <1>3, <2>2 DEF NewGeneration
<1>4. CASE (T.generation + 1) % GenerationLimit # 0
  <2> DEFINE N == NewGeneration(T)
  <2>1. generation + 1 \in 1 .. (GenerationLimit - 1)
    <3>1. generation + 1 \in 1 .. GenerationLimit
      BY <1>2
    <3>2. GenerationLimit % GenerationLimit = 0
      BY <1>2
    <3>3. generation + 1 # GenerationLimit
      BY <1>1, <1>4, <3>2
    <3> QED BY <1>2, <3>1, <3>3
  <2>2. /\ Whole(N) /\ N.entries = T.entries /\ N.generation = generation + 1 /\ N.live = 0
    <3>1. Whole(T)
      BY <1>1, TableFields
    <3> QED BY <1>1, <1>4, <3>1 DEF NewGeneration, Whole, Fields
  <2> HIDE DEF N
  <2>3. N \in Tables /\ Size(N) = Size(T)
    <3>1. T.entries \in Seq(Entries)
      BY <1>1 DEF Tables
    <3> QED BY <2>1, <2>2, <3>1, TableFields DEF Size
  <2>4. \A i \in 1 .. Size(N) : N.entries[i].generation <= generation /\ N.entries[i].generation \in Nat
    <3> SUFFICES ASSUME NEW i \in 1 .. Size(N)
                 PROVE  N.entries[i].generation <= generation /\ N.entries[i].generation \in Nat
      OBVIOUS
    <3>1. T.entries[i] \in Entries
      BY <1>1, <2>3, EntryAt
    <3>2. T.entries[i].generation \in Nat
      BY <3>1, EntryFieldsAre
    <3> QED BY <1>1, <2>2, <2>3, <3>2 DEF Kept
  <2>5. LiveSlots(N) = {}
    <3> SUFFICES ASSUME NEW i \in 1 .. Size(N), Live(N, i) PROVE FALSE
      BY DEF LiveSlots
    <3>1. N.entries[i].generation = generation + 1
      BY <2>2 DEF Live
    <3> QED BY <1>2, <2>4, <3>1
  <2>6. \A i \in 1 .. Size(N) : N.entries[i].generation <= N.generation
    <3> SUFFICES ASSUME NEW i \in 1 .. Size(N) PROVE N.entries[i].generation <= N.generation
      OBVIOUS
    <3>1. N.entries[i].generation <= generation /\ N.entries[i].generation \in Nat
      BY <2>4
    <3> QED BY <1>2, <2>2, <3>1
  <2>7. Kept(N)
    BY <2>2, <2>5, <2>6, FS_EmptySet DEF Kept
  <2>8. N \in Good(g, d, n, generation + 1)
    BY <1>1, <2>2, <2>3, <2>5, <2>7 DEF Good
  <2> QED BY <2>8 DEF N
<1> QED BY <1>3, <1>4

-----------------------------------------------------------------------------
(* Results, and what store and probe make of them. *)

Results == [status : {"Mate", "NoMate", "Limit"}, move : Nat, plies : Nat]

(* What a result says of position p, searched n plies deep. *)
ResultTrue(g, c, p, n, r) ==
    /\ r.status = "Mate" => /\ r.plies <= n /\ p \in MateWithin(g, c)[r.plies]
                            /\ r.plies > 0 => r.move \in MateWithin(g, c)[r.plies - 1]
    /\ r.status = "NoMate" => p \in NeverMate(g, c)
    /\ r.status = "Limit" => p \notin MateWithin(g, c)[n]

LEMMA UpdatedIsTrue ==
    ASSUME NEW g, IsGame(g), NEW c, NEW e \in Entries, EntryTrue(g, c, e),
           NEW n \in 0 .. MaxPlies, NEW r \in Results, ResultTrue(g, c, e.key, n, r)
    PROVE  /\ Updated(e, n, r) \in Entries /\ EntryTrue(g, c, Updated(e, n, r))
           /\ Updated(e, n, r).key = e.key /\ Updated(e, n, r).generation = e.generation
<1> DEFINE N == Updated(e, n, r)
           Mate(k) == MateWithin(g, c)[k]
           Never == NeverMate(g, c)
<1>1. /\ e = [f \in EntryFields |-> e[f]]
      /\ e.key \in Nat /\ e.move \in Nat /\ e.generation \in Nat
      /\ e.mate \in 0 .. 255 /\ e.limit \in 0 .. 255 /\ e.noMate \in BOOLEAN
  BY EntryFieldsAre DEF Unknown
<1>2. r.status \in {"Mate", "NoMate", "Limit"} /\ r.move \in Nat /\ r.plies \in Nat
  BY DEF Results
<1>3. MaxPlies \in Nat /\ MaxPlies < 255 /\ MaxPlies <= Horizon(g) /\ Horizon(g) \in Nat
  BY MateDefined, TsumeSearchAssumption DEF Unknown
<1>4. /\ e.mate # 255 => /\ e.mate <= MaxPlies /\ e.key \in Mate(e.mate)
                         /\ e.mate > 0 => e.move \in Mate(e.mate - 1)
      /\ e.limit # 255 => e.limit <= MaxPlies /\ e.key \notin Mate(e.limit)
      /\ e.noMate => e.key \in Never
  BY DEF EntryTrue, Unknown
<1>5. /\ r.status = "Mate" => /\ r.plies <= n /\ e.key \in Mate(r.plies)
                              /\ r.plies > 0 => r.move \in Mate(r.plies - 1)
      /\ r.status = "NoMate" => e.key \in Never
      /\ r.status = "Limit" => e.key \notin Mate(n)
  BY DEF ResultTrue
<1>6. \A k \in 0 .. MaxPlies : e.key \in Never => e.key \notin Mate(k)
  BY <1>3, NeverIsNever
<1> HIDE DEF Mate, Never
<1> SUFFICES /\ N = [f \in EntryFields |-> N[f]]
             /\ N.key = e.key /\ N.generation = e.generation /\ N.move \in Nat
             /\ N.mate \in 0 .. 255 /\ N.limit \in 0 .. 255 /\ N.noMate \in BOOLEAN
             /\ N.mate # 255 => /\ N.mate <= MaxPlies /\ e.key \in Mate(N.mate)
                                /\ N.mate > 0 => N.move \in Mate(N.mate - 1)
             /\ N.limit # 255 => N.limit <= MaxPlies /\ e.key \notin Mate(N.limit)
             /\ N.noMate => e.key \in Never
  <2> HIDE DEF N
  <2> SUFFICES N \in Entries /\ EntryTrue(g, c, N) /\ N.key = e.key /\ N.generation = e.generation
    BY DEF N
  <2>1. N \in Entries
    BY <1>1, EntryFieldsAre DEF Unknown
  <2>2. EntryTrue(g, c, N)
    BY DEF EntryTrue, Unknown, Mate, Never
  <2> QED BY <2>1, <2>2
<1>7. CASE r.status = "Mate" /\ (e.mate = 255 \/ r.plies < e.mate)
  <2>1. /\ N = [f \in EntryFields |-> N[f]] /\ N.key = e.key /\ N.generation = e.generation
        /\ N.mate = r.plies /\ N.move = r.move /\ N.limit = e.limit /\ N.noMate = e.noMate
    BY <1>1, <1>7 DEF Updated, Unknown, EntryFields
  <2> HIDE DEF N
  <2>2. r.plies \in 0 .. MaxPlies /\ r.plies \in 0 .. 255
    BY <1>2, <1>3, <1>5, <1>7
  <2> QED BY <1>1, <1>2, <1>4, <1>5, <1>7, <2>1, <2>2
<1>8. CASE r.status = "NoMate"
  <2>1. /\ N = [f \in EntryFields |-> N[f]] /\ N.key = e.key /\ N.generation = e.generation
        /\ N.mate = e.mate /\ N.move = r.move /\ N.limit = e.limit /\ N.noMate = TRUE
    BY <1>1, <1>8 DEF Updated, Unknown, EntryFields
  <2> HIDE DEF N
  <2>2. e.mate = 255
    <3> SUFFICES ASSUME e.mate # 255 PROVE FALSE
      OBVIOUS
    <3>1. e.mate \in 0 .. MaxPlies /\ e.key \in Mate(e.mate)
      BY <1>1, <1>3, <1>4
    <3>2. e.key \notin Mate(e.mate)
      BY <1>5, <1>6, <1>8, <3>1
    <3> QED BY <3>1, <3>2
  <2> QED BY <1>1, <1>2, <1>4, <1>5, <1>8, <2>1, <2>2
<1>9. CASE r.status = "Limit" /\ (e.limit = 255 \/ n > e.limit)
  <2>1. /\ N = [f \in EntryFields |-> N[f]] /\ N.key = e.key /\ N.generation = e.generation
        /\ N.mate = e.mate /\ N.move = (IF e.mate # 255 \/ e.noMate THEN e.move ELSE r.move)
        /\ N.limit = n /\ N.noMate = e.noMate
    BY <1>1, <1>9 DEF Updated, Unknown, EntryFields, Proven
  <2> HIDE DEF N
  <2>2. n \in 0 .. 255
    BY <1>3
  <2> QED BY <1>1, <1>2, <1>4, <1>5, <1>9, <2>1, <2>2
<1>10. CASE \/ r.status = "Mate" /\ ~(e.mate = 255 \/ r.plies < e.mate)
            \/ r.status = "Limit" /\ ~(e.limit = 255 \/ n > e.limit)
  <2>1. N = e
    BY <1>10 DEF Updated, Unknown
  <2> HIDE DEF N
  <2> QED BY <1>1, <1>4, <2>1
<1> QED BY <1>2, <1>7, <1>8, <1>9, <1>10

LEMMA StoreKeeps ==
    ASSUME NEW g, IsGame(g), NEW c, NEW n \in Nat, n > 0, NEW generation,
           NEW T \in Good(g, c, n, generation), NEW key \in Nat, NEW remaining \in 0 .. MaxPlies,
           NEW r \in Results, ResultTrue(g, c, key, remaining, r)
    PROVE  \/ StoreIn(T, key, remaining, r) \in Good(g, c, n, generation)
           \/ StoreIn(T, key, remaining, r) \in Good(g, c, 2 * n, generation)
<1> DEFINE s == FindSlot(T, key)
           e == s.table.entries[s.at]
           new == Updated(e, remaining, r)
           N == Rewritten(s.table, s.at, new)
<1>1. s.table \in Good(g, c, n, generation) /\ SlotFor(T, key, s)
  BY FindSlotIs
<1>2. StoreIn(T, key, remaining, r) \in {N, GrowTable(N)}
  BY DEF StoreIn, Rewritten
<1> HIDE DEF s
<1>3. /\ s.at \in LiveSlots(s.table) /\ e.key = key
      /\ s.table \in Tables /\ s.at \in 1 .. Size(s.table) /\ EntryTrue(g, c, e)
      /\ e.generation = s.table.generation
  BY <1>1 DEF SlotFor, Good, LiveSlots, Live
<1>4. e \in Entries
  BY <1>3, EntryAt
<1> HIDE DEF e
<1>5. /\ new \in Entries /\ EntryTrue(g, c, new) /\ new.key = e.key /\ new.generation = e.generation
  BY <1>3, <1>4, UpdatedIsTrue
<1> HIDE DEF new
<1>6. MayRewrite(g, c, s.table, s.at, new)
  BY <1>3, <1>5 DEF MayRewrite, e
<1>7. N \in Good(g, c, n, generation)
  BY <1>1, <1>6, RewriteKeeps
<1> HIDE DEF N
<1>8. GrowTable(N) \in Good(g, c, 2 * n, generation)
  BY <1>7, GrowthKeeps
<1> QED BY <1>2, <1>7, <1>8

LEMMA ProbeIsTrue ==
    ASSUME NEW g, IsGame(g), NEW c, NEW n \in Nat, n > 0, NEW generation,
           NEW T \in Good(g, c, n, generation), NEW key \in Nat, NEW remaining \in 0 .. MaxPlies,
           ProbeIn(T, key, remaining) # Missing
    PROVE  /\ ProbeIn(T, key, remaining) \in Results
           /\ ResultTrue(g, c, key, remaining, ProbeIn(T, key, remaining))
<1> DEFINE i == CHOOSE k \in Holders(T, key) : TRUE
           e == T.entries[i]
           r == ProbeIn(T, key, remaining)
<1>1. Holders(T, key) # {}
  BY DEF ProbeIn
<1>2. i \in Holders(T, key)
  BY <1>1
<1>3. T \in Tables /\ Size(T) = n * BucketSize /\ \A k \in LiveSlots(T) : EntryTrue(g, c, T.entries[k])
  BY DEF Good
<1>4. Bucket(T, key) \subseteq 1 .. Size(T)
  BY <1>3, BucketIs
<1>5. e.key = key /\ i \in 1 .. Size(T) /\ EntryTrue(g, c, e)
  BY <1>2, <1>3, <1>4 DEF Holders, LiveSlots
<1>6. \/ e.noMate /\ r = Result("NoMate", e.move, 0)
      \/ e.mate # Unknown /\ e.mate <= remaining /\ r = Result("Mate", e.move, e.mate)
      \/ e.limit # Unknown /\ e.limit >= remaining /\ r = Result("Limit", e.move, 0)
  BY <1>1 DEF ProbeIn
<1> HIDE DEF i, r
<1>7. e \in Entries
  BY <1>3, <1>5, EntryAt
<1> HIDE DEF e
<1>8. e.move \in Nat /\ e.mate \in 0 .. 255 /\ e.limit \in 0 .. 255
  BY <1>7, EntryFieldsAre DEF Unknown
<1>9. MaxPlies \in Nat /\ MaxPlies <= Horizon(g) /\ Horizon(g) \in Nat
  BY MateDefined, TsumeSearchAssumption
<1>10. CASE e.noMate /\ r = Result("NoMate", e.move, 0)
  BY <1>5, <1>8, <1>10 DEF Result, Results, ResultTrue, EntryTrue, r
<1>11. CASE e.mate # Unknown /\ e.mate <= remaining /\ r = Result("Mate", e.move, e.mate)
  BY <1>5, <1>8, <1>11 DEF Result, Results, ResultTrue, EntryTrue, r
<1>12. CASE e.limit # Unknown /\ e.limit >= remaining /\ r = Result("Limit", e.move, 0)
  <2>1. e.limit \in 0 .. Horizon(g) /\ remaining \in 0 .. e.limit /\ key \notin MateWithin(g, c)[e.limit]
    BY <1>5, <1>8, <1>9, <1>12 DEF EntryTrue
  <2>2. key \notin MateWithin(g, c)[remaining]
    BY <2>1, MatesGrow
  <2> QED BY <1>8, <1>12, <2>2 DEF Result, Results, ResultTrue, r
<1> QED BY <1>6, <1>10, <1>11, <1>12

-----------------------------------------------------------------------------
(* The inductive invariant. *)

MovesOf(g, c, p) == IF g.side[p] = c THEN g.checking[p] ELSE g.legal[p]

Frames == [pos : Nat, moves : Seq(Nat), next : Nat, remaining : Nat, result : Results]

(* What a frame knows of the replies it has had: with the attacker to move none of them
   mates in time, and if all were refuted none ever does; with the other side to move
   all of them are mates so far, the longest as long as it says, or one escapes. *)
SumTrue(g, c, f) ==
    LET Had == {f.moves[i] : i \in 1 .. (f.next - 1)}
        Mate(n) == MateWithin(g, c)[n]
    IN IF g.side[f.pos] = c
       THEN /\ f.result.status \in {"NoMate", "Limit"}
            /\ Had \cap Mate(f.remaining - 1) = {}
            /\ f.result.status = "NoMate" => Had \subseteq NeverMate(g, c)
       ELSE /\ f.result.status \in {"Mate", "Limit"}
            /\ f.result.status = "Limit" => ~(Had \subseteq Mate(f.remaining - 1))
            /\ f.result.status = "Mate" =>
                 IF f.next = 1 THEN f.result.plies = 0
                 ELSE /\ f.result.plies \in 1 .. f.remaining
                      /\ Had \subseteq Mate(f.result.plies - 1)
                      /\ f.result.move \in Mate(f.result.plies - 1)

FrameTrue(g, c, f) ==
    /\ f.pos \in DOMAIN g.legal /\ f.moves = MovesOf(g, c, f.pos)
    /\ f.next \in 1 .. Len(f.moves) /\ f.remaining \in 1 .. MaxPlies
    /\ SumTrue(g, c, f)

(* The position and depth a frame waits for an answer about. *)
Wanted(f) == [pos |-> f.moves[f.next], remaining |-> f.remaining - 1]
Asked == IF stack = << >> THEN [pos |-> root, remaining |-> depth] ELSE Wanted(Top)

StackInv ==
    /\ stack \in Seq(Frames)
    /\ \A k \in 1 .. Len(stack) : FrameTrue(game, attacker, stack[k])
    /\ \A k \in 1 .. Len(stack) :
           [pos |-> stack[k].pos, remaining |-> stack[k].remaining]
           = IF k = 1 THEN [pos |-> root, remaining |-> depth] ELSE Wanted(stack[k - 1])

InOrder(g, c, T) == T \in Good(g, c, Size(T) \div BucketSize, T.generation)

TableInv ==
    /\ InOrder(game, tableAttacker, table)
    /\ phase # "idle" => Size(table) > 0

(* solve: the iterations before this one found nothing; with a limit of 0 and the
   attacker to move there is none. *)
CallInv ==
    /\ game \in Games /\ attacker \in Colors /\ tableAttacker = attacker
    /\ root \in Positions /\ limit \in 0 .. MaxPlies /\ depth \in Nat
    /\ phase \in {"idle", "enter", "leave"}
    /\ depth >= 2 => root \notin MateWithin(game, attacker)[depth - 2]
    /\ depth <= limit \/ (depth = 1 /\ stack = << >> /\ phase # "enter")

Unthreatened == stack = << >> /\ ~Attack(root) /\ ~game.inCheck[root]

ReplyTrue ==
    \/ reply.status \in Aborts
    \/ depth > limit /\ reply.status = "Limit"
    \/ Unthreatened /\ reply.status = "NoMate"
    \/ /\ depth <= limit /\ reply \in Results
       /\ ResultTrue(game, attacker, Asked.pos, Asked.remaining, reply)

VisitInv ==
    /\ phase = "enter" => entered = Asked
    /\ phase = "leave" => ReplyTrue
    /\ phase = "idle" => stack = << >> /\ (solves > 0 => ReplyTrue /\ Concluded)

IInv == CallInv /\ TableInv /\ StackInv /\ VisitInv

-----------------------------------------------------------------------------
(* Adding up replies. *)

Elements(s) == {s[i] : i \in 1 .. Len(s)}

LEMMA MovesAre ==
    ASSUME NEW g, IsGame(g), NEW c, NEW p \in DOMAIN g.legal
    PROVE  /\ MovesOf(g, c, p) \in Seq(DOMAIN g.legal)
           /\ g.side[p] = c => Elements(MovesOf(g, c, p)) = ChecksOf(g, p)
           /\ g.side[p] # c => Elements(MovesOf(g, c, p)) = Range(g.legal[p])
<1>1. /\ g.legal[p] \in Seq(DOMAIN g.legal) /\ g.checking[p] \in Seq(DOMAIN g.legal)
      /\ Range(g.checking[p]) = ChecksOf(g, p)
  BY DEF IsGame, ChecksOf
<1>2. \A s \in Seq(DOMAIN g.legal) : Elements(s) = Range(s)
  BY DEF Range, Elements
<1> QED BY <1>1, <1>2 DEF MovesOf

LEMMA WantedIs ==
    ASSUME NEW g, IsGame(g), NEW c, NEW f, FrameTrue(g, c, f)
    PROVE  /\ f.moves \in Seq(DOMAIN g.legal) /\ Len(f.moves) \in Nat
           /\ Wanted(f).pos = f.moves[f.next] /\ Wanted(f).remaining = f.remaining - 1
           /\ Wanted(f).pos \in DOMAIN g.legal /\ Wanted(f).pos \in Nat
           /\ Wanted(f).remaining \in 0 .. MaxPlies
           /\ f.pos \in Nat /\ f.remaining \in Nat /\ f.next \in Nat
<1>1. /\ f.pos \in DOMAIN g.legal /\ f.moves = MovesOf(g, c, f.pos)
      /\ f.next \in 1 .. Len(f.moves) /\ f.remaining \in 1 .. MaxPlies
  BY DEF FrameTrue
<1>2. f.moves \in Seq(DOMAIN g.legal)
  BY <1>1, MovesAre
<1>3. DOMAIN g.legal \subseteq Nat
  BY DEF IsGame
<1>4. f.moves[f.next] \in DOMAIN g.legal
  BY <1>1, <1>2, ElementOfSeq
<1>5. f.remaining - 1 \in 0 .. MaxPlies /\ f.remaining \in Nat
  BY <1>1, TsumeSearchAssumption
<1>6. Len(f.moves) \in Nat
  BY <1>2, LenProperties
<1> QED BY <1>1, <1>2, <1>3, <1>4, <1>5, <1>6 DEF Wanted

(* accumulate_reply, by whose turn it is. *)
Summed(side, c, move, r, result) == Accumulate(side = c, move, r, result)

(* A reply that does not decide: what the frame knows then. *)
More(g, c, f, r) ==
    [f EXCEPT !.result = Summed(g.side[f.pos], c, f.moves[f.next], r, f.result), !.next = @ + 1]

LEMMA SummedIs ==
    ASSUME NEW side, NEW c, NEW move, NEW r \in Results, NEW result,
           r.status # (IF side = c THEN "Mate" ELSE "NoMate")
    PROVE  /\ r.status = "Limit" => Summed(side, c, move, r, result) = Result("Limit", move, 0)
           /\ side = c /\ r.status = "NoMate" => Summed(side, c, move, r, result) = result
           /\ side # c /\ r.status = "Mate" =>
                Summed(side, c, move, r, result) =
                    IF result.status = "Mate" /\ r.plies + 1 > result.plies
                    THEN Result("Mate", move, r.plies + 1) ELSE result
<1>1. r.status \in {"Mate", "NoMate", "Limit"} /\ r.status \notin Aborts
  BY DEF Results, Aborts
<1> QED BY <1>1 DEF Summed, Accumulate, Decisive

LEMMA MoreIs ==
    ASSUME NEW g, NEW c, NEW f \in Frames, NEW r
    PROVE  /\ More(g, c, f, r).result = Summed(g.side[f.pos], c, f.moves[f.next], r, f.result)
           /\ More(g, c, f, r).next = f.next + 1
           /\ More(g, c, f, r).pos = f.pos /\ More(g, c, f, r).moves = f.moves
           /\ More(g, c, f, r).remaining = f.remaining
           /\ DOMAIN More(g, c, f, r) = DOMAIN f
BY DEF Frames, More

LEMMA MoreKeepsSum ==
    ASSUME NEW g, IsGame(g), NEW c, NEW f \in Frames, FrameTrue(g, c, f), NEW r \in Results,
           ResultTrue(g, c, Wanted(f).pos, Wanted(f).remaining, r),
           ~Decisive(g.side[f.pos] = c, r.status)
    PROVE  SumTrue(g, c, More(g, c, f, r)) /\ More(g, c, f, r).result \in Results
<1> DEFINE n == f.remaining - 1
           q == f.moves[f.next]
           F == More(g, c, f, r)
           Had == {f.moves[i] : i \in 1 .. (f.next - 1)}
           Has == {F.moves[i] : i \in 1 .. (F.next - 1)}
           attack == g.side[f.pos] = c
           Mate(k) == MateWithin(g, c)[k]
           Never == NeverMate(g, c)
<1>1. /\ q \in DOMAIN g.legal /\ q \in Nat /\ n \in 0 .. MaxPlies /\ f.next \in Nat /\ f.next >= 1
      /\ f.remaining = n + 1 /\ n \in Nat
      /\ Wanted(f).pos = q /\ Wanted(f).remaining = n
  BY WantedIs DEF FrameTrue
<1>2. /\ F.next = f.next + 1 /\ F.pos = f.pos /\ F.moves = f.moves /\ F.remaining = f.remaining
      /\ F.result = Summed(g.side[f.pos], c, q, r, f.result)
  BY MoreIs
<1>3. r.status \in {"Mate", "NoMate", "Limit"} /\ r.plies \in Nat
  BY DEF Results
<1>4. /\ r.status = "Mate" => r.plies <= n /\ q \in Mate(r.plies)
      /\ r.status = "NoMate" => q \in Never
      /\ r.status = "Limit" => q \notin Mate(n)
  BY <1>1 DEF ResultTrue
<1>5. Horizon(g) \in Nat /\ MaxPlies \in Nat /\ MaxPlies + 2 <= Horizon(g)
  BY MateDefined, TsumeSearchAssumption
<1>6. q \in Never => q \notin Mate(n)
  BY <1>1, <1>5, NeverIsNever
<1>7. \A k \in 0 .. MaxPlies : \A i \in 0 .. k : Mate(i) \subseteq Mate(k)
  BY <1>5, MatesGrow
<1>8. SumTrue(g, c, f)
  BY DEF FrameTrue
<1>9. f.result \in Results
  BY DEF Frames
<1> HIDE DEF n, q, F, Mate, Never
<1>16. /\ attack => r.status # "Mate"
       /\ ~attack => r.status # "NoMate"
       /\ r.status \notin Aborts
  BY <1>3 DEF Decisive, Aborts
<1>15. /\ r.status = "Limit" => F.result = Result("Limit", q, 0)
       /\ attack /\ r.status = "NoMate" => F.result = f.result
       /\ ~attack /\ r.status = "Mate" =>
             F.result = IF f.result.status = "Mate" /\ r.plies + 1 > f.result.plies
                        THEN Result("Mate", q, r.plies + 1) ELSE f.result
  <2>1. r.status # (IF attack THEN "Mate" ELSE "NoMate")
    BY DEF Decisive
  <2> QED BY <1>2, <2>1, SummedIs
<1>10. Has = Had \cup {q}
  <2>1. 1 .. (F.next - 1) = 1 .. (f.next - 1) \cup {f.next}
    BY <1>1, <1>2
  <2> QED BY <1>2, <2>1 DEF q
<1>11. (\A i \in 1 .. (F.next - 1) : TRUE) /\ F.next # 1
  BY <1>1, <1>2
<1>12. F.result \in Results
  <2>1. \A status \in {"Mate", "NoMate", "Limit"}, m \in Nat : Result(status, q, m) \in Results
    BY <1>1 DEF Results, Result
  <2>2. \/ F.result = Result("Limit", q, 0) \/ F.result = Result("Mate", q, r.plies + 1)
        \/ F.result = f.result
    BY <1>3, <1>15, <1>16
  <2>3. r.plies + 1 \in Nat
    BY <1>3
  <2> QED BY <1>9, <2>1, <2>2, <2>3
<1>13. CASE attack
  <2>1. /\ f.result.status \in {"NoMate", "Limit"} /\ Had \cap Mate(n) = {}
        /\ f.result.status = "NoMate" => Had \subseteq Never
    BY <1>8, <1>13 DEF SumTrue, Mate, Never, n
  <2>2. r.status \in {"NoMate", "Limit"}
    BY <1>3, <1>13 DEF Decisive
  <2>3. F.result = IF r.status = "Limit" THEN Result("Limit", q, 0) ELSE f.result
    BY <1>15, <1>13, <2>2
  <2>4. q \notin Mate(n)
    BY <1>4, <1>6, <2>2
  <2>5. /\ F.result.status \in {"NoMate", "Limit"} /\ Has \cap Mate(n) = {}
        /\ F.result.status = "NoMate" => Has \subseteq Never
    <3> HIDE DEF Had, Has
    <3>1. Result("Limit", q, 0).status = "Limit"
      BY DEF Result
    <3> QED BY <1>4, <1>10, <2>1, <2>2, <2>3, <2>4, <3>1
  <2> QED BY <1>1, <1>2, <1>12, <1>13, <2>5 DEF SumTrue, Mate, Never, n, F
<1>14. CASE ~attack
  <2>1. /\ f.result.status \in {"Mate", "Limit"} /\ f.result.plies \in Nat
        /\ f.result.status = "Limit" => ~(Had \subseteq Mate(n))
        /\ f.result.status = "Mate" =>
             IF f.next = 1 THEN f.result.plies = 0
             ELSE /\ f.result.plies \in 1 .. f.remaining /\ Had \subseteq Mate(f.result.plies - 1)
                  /\ f.result.move \in Mate(f.result.plies - 1)
    BY <1>8, <1>9, <1>14 DEF SumTrue, Mate, n, Results
  <2>2. r.status \in {"Mate", "Limit"}
    BY <1>3, <1>14 DEF Decisive
  <2> HIDE DEF Had, Has
  <2>3. CASE r.status = "Limit"
    <3>1. F.result = Result("Limit", q, 0) /\ F.result.status = "Limit"
      BY <1>15, <2>3 DEF Result
    <3>2. ~(Has \subseteq Mate(n))
      BY <1>4, <1>10, <2>3
    <3> QED BY <1>1, <1>2, <1>12, <1>14, <3>1, <3>2 DEF SumTrue, Mate, n, F, Has
  <2>4. CASE r.status = "Mate" /\ f.result.status = "Limit"
    <3>1. F.result = f.result
      BY <1>15, <1>14, <2>4
    <3>2. ~(Has \subseteq Mate(n))
      BY <1>10, <2>1, <2>4
    <3> QED BY <1>1, <1>2, <1>12, <1>14, <2>4, <3>1, <3>2 DEF SumTrue, Mate, n, F, Has
  <2>5. CASE r.status = "Mate" /\ f.result.status = "Mate"
    <3>1. F.result = IF r.plies + 1 > f.result.plies THEN Result("Mate", q, r.plies + 1) ELSE f.result
      BY <1>15, <1>14, <2>5
    <3>2. r.plies <= n /\ q \in Mate(r.plies)
      BY <1>4, <2>5
    <3>3. f.next = 1 => Had = {}
      BY DEF Had
    <3>4. /\ F.result.status = "Mate" /\ F.result.plies \in 1 .. f.remaining
          /\ Has \subseteq Mate(F.result.plies - 1) /\ F.result.move \in Mate(F.result.plies - 1)
      <4>1. CASE r.plies + 1 > f.result.plies
        <5>1. F.result.status = "Mate" /\ F.result.plies = r.plies + 1 /\ F.result.move = q
          BY <3>1, <4>1 DEF Result
        <5>2. r.plies + 1 - 1 = r.plies /\ r.plies + 1 \in 1 .. f.remaining /\ r.plies \in 0 .. MaxPlies
          BY <1>1, <1>3, <1>5, <3>2
        <5>3. Had \subseteq Mate(r.plies)
          <6>1. CASE f.next = 1
            BY <3>3, <6>1
          <6>2. CASE f.next # 1
            <7>1. f.result.plies - 1 \in 0 .. r.plies /\ Had \subseteq Mate(f.result.plies - 1)
              BY <1>3, <2>1, <2>5, <4>1, <6>2
            <7> QED BY <1>7, <5>2, <7>1
          <6> QED BY <6>1, <6>2
        <5> QED BY <1>10, <3>2, <5>1, <5>2, <5>3
      <4>2. CASE ~(r.plies + 1 > f.result.plies)
        <5>1. F.result = f.result /\ f.next # 1
          BY <1>3, <2>1, <2>5, <3>1, <4>2
        <5>2. /\ f.result.plies \in 1 .. f.remaining /\ Had \subseteq Mate(f.result.plies - 1)
              /\ f.result.move \in Mate(f.result.plies - 1)
          BY <2>1, <2>5, <5>1
        <5>3. f.result.plies - 1 \in 0 .. MaxPlies /\ r.plies \in 0 .. (f.result.plies - 1)
          BY <1>1, <1>3, <1>5, <4>2, <5>2
        <5>4. q \in Mate(f.result.plies - 1)
          BY <1>7, <3>2, <5>3
        <5> QED BY <1>10, <2>5, <5>1, <5>2, <5>4
      <4> QED BY <4>1, <4>2
    <3> QED BY <1>1, <1>2, <1>11, <1>12, <1>14, <3>4 DEF SumTrue, Mate, F, Has
  <2> QED BY <2>1, <2>2, <2>3, <2>4, <2>5
<1> QED BY <1>13, <1>14

(* With a reply more the frame is still true, if it has a move left. *)
LEMMA MoreKeepsFrame ==
    ASSUME NEW g, IsGame(g), NEW c, NEW f \in Frames, FrameTrue(g, c, f), NEW r \in Results,
           ResultTrue(g, c, Wanted(f).pos, Wanted(f).remaining, r),
           ~Decisive(g.side[f.pos] = c, r.status), f.next # Len(f.moves)
    PROVE  More(g, c, f, r) \in Frames /\ FrameTrue(g, c, More(g, c, f, r))
<1> DEFINE F == More(g, c, f, r)
<1>1. SumTrue(g, c, F) /\ F.result \in Results
  BY MoreKeepsSum
<1>2. /\ F.next = f.next + 1 /\ F.pos = f.pos /\ F.moves = f.moves /\ F.remaining = f.remaining
      /\ F = [f EXCEPT !.result = F.result, !.next = F.next]
  BY DEF More, Frames
<1> HIDE DEF F
<1>3. /\ f.pos \in DOMAIN g.legal /\ f.moves = MovesOf(g, c, f.pos)
      /\ f.next \in 1 .. Len(f.moves) /\ f.remaining \in 1 .. MaxPlies
  BY DEF FrameTrue
<1>4. Len(f.moves) \in Nat
  BY WantedIs
<1>5. F.next \in 1 .. Len(f.moves)
  BY <1>2, <1>3, <1>4
<1>6. F \in Frames
  <2>1. F.next \in Nat
    BY <1>4, <1>5
  <2> QED BY <1>1, <1>2, <2>1 DEF Frames
<1>7. FrameTrue(g, c, F)
  BY <1>1, <1>2, <1>3, <1>5 DEF FrameTrue
<1> QED BY <1>6, <1>7 DEF F

(* With the last reply in, what it has added up is true of its position. *)
LEMMA LastReplyIsTrue ==
    ASSUME NEW g, IsGame(g), NEW c, NEW f \in Frames, FrameTrue(g, c, f), NEW r \in Results,
           ResultTrue(g, c, Wanted(f).pos, Wanted(f).remaining, r),
           ~Decisive(g.side[f.pos] = c, r.status), f.next = Len(f.moves)
    PROVE  /\ More(g, c, f, r).result \in Results
           /\ ResultTrue(g, c, f.pos, f.remaining, More(g, c, f, r).result)
<1> DEFINE F == More(g, c, f, r)
           R == F.result
           p == f.pos
           n == f.remaining - 1
           Has == {F.moves[i] : i \in 1 .. (F.next - 1)}
           Mate(k) == MateWithin(g, c)[k]
           Never == NeverMate(g, c)
<1>1. SumTrue(g, c, F) /\ R \in Results
  BY MoreKeepsSum
<1>2. F.next = f.next + 1 /\ F.pos = p /\ F.moves = f.moves /\ F.remaining = f.remaining
  BY MoreIs
<1> HIDE DEF F
<1>3. p \in DOMAIN g.legal /\ f.moves = MovesOf(g, c, p) /\ f.next \in 1 .. Len(f.moves)
  BY DEF FrameTrue
<1>4. Has = IF g.side[p] = c THEN ChecksOf(g, p) ELSE Range(g.legal[p])
  <2>1. F.next - 1 = Len(f.moves)
    BY <1>2, <1>3, WantedIs
  <2> DEFINE moves == MovesOf(g, c, p)
  <2>2. Has = Elements(moves)
    <3>1. F.moves = moves /\ 1 .. (F.next - 1) = 1 .. Len(moves)
      BY <1>2, <1>3, <2>1
    <3> HIDE DEF moves
    <3> QED BY <3>1 DEF Elements
  <2> QED BY <1>3, <2>2, MovesAre
<1>5. /\ n \in 0 .. MaxPlies /\ n + 1 = f.remaining /\ MaxPlies \in Nat
      /\ Horizon(g) \in Nat /\ MaxPlies + 2 <= Horizon(g)
  BY WantedIs, MateDefined, TsumeSearchAssumption
<1>6. F.next # 1
  BY <1>2, WantedIs DEF FrameTrue
<1>7. CASE g.side[p] = c
  <2>1. /\ R.status \in {"NoMate", "Limit"} /\ Has \cap Mate(n) = {}
        /\ R.status = "NoMate" => Has \subseteq Never
    BY <1>1, <1>2, <1>7 DEF SumTrue
  <2> HIDE DEF Has, n
  <2>2. p \notin Mate(n + 1)
    <3>1. n \in 0 .. (Horizon(g) - 1)
      BY <1>5
    <3> QED BY <1>3, <1>4, <1>7, <2>1, <3>1, MateByCheck
  <2>3. R.status = "NoMate" => p \in Never
    BY <1>3, <1>4, <1>7, <2>1, NeverByReplies
  <2>4. R.status # "Mate"
    BY <2>1
  <2> QED BY <1>1, <1>5, <2>2, <2>3, <2>4 DEF ResultTrue, F
<1>8. CASE g.side[p] # c
  <2>1. /\ R.status \in {"Mate", "Limit"}
        /\ R.status = "Limit" => ~(Has \subseteq Mate(n))
        /\ R.status = "Mate" => /\ R.plies \in 1 .. f.remaining /\ Has \subseteq Mate(R.plies - 1)
                                /\ R.move \in Mate(R.plies - 1)
    BY <1>1, <1>2, <1>6, <1>8 DEF SumTrue
  <2> HIDE DEF Has, n, R
  <2>2. R.status = "Limit" => p \notin Mate(n + 1)
    <3>1. n \in 0 .. (Horizon(g) - 1)
      BY <1>5
    <3> QED BY <1>3, <1>4, <1>8, <2>1, <3>1, MateByCheck
  <2>3. R.status = "Mate" => p \in Mate(R.plies) /\ R.plies <= f.remaining
    <3> SUFFICES ASSUME R.status = "Mate" PROVE p \in Mate(R.plies) /\ R.plies <= f.remaining
      OBVIOUS
    <3> DEFINE k == R.plies - 1
    <3>1. k \in 0 .. (Horizon(g) - 1) /\ k + 1 = R.plies /\ R.plies <= f.remaining
      BY <1>5, <2>1
    <3>2. Range(g.legal[p]) \subseteq Mate(k)
      BY <1>4, <1>8, <2>1
    <3> HIDE DEF k
    <3>3. p \in Mate(k + 1)
      BY <1>3, <1>8, <3>1, <3>2, MateByCheck
    <3> QED BY <3>1, <3>3
  <2>4. R.status # "NoMate"
    BY <2>1
  <2> QED BY <1>1, <1>5, <2>1, <2>2, <2>3, <2>4 DEF ResultTrue, F, R
<1> QED BY <1>7, <1>8

(* A decisive reply decides. *)
LEMMA DecisiveIsTrue ==
    ASSUME NEW g, IsGame(g), NEW c, NEW f \in Frames, FrameTrue(g, c, f), NEW r \in Results,
           ResultTrue(g, c, Wanted(f).pos, Wanted(f).remaining, r),
           Decisive(g.side[f.pos] = c, r.status)
    PROVE  /\ Summed(g.side[f.pos], c, f.moves[f.next], r, f.result) \in Results
           /\ ResultTrue(g, c, f.pos, f.remaining,
                         Summed(g.side[f.pos], c, f.moves[f.next], r, f.result))
<1> DEFINE p == f.pos
           q == f.moves[f.next]
           n == f.remaining - 1
           R == Result(r.status, q, r.plies + 1)
           Mate(k) == MateWithin(g, c)[k]
           Never == NeverMate(g, c)
<1>1. /\ r.status \in {"Mate", "NoMate", "Limit"} /\ r.status \notin Aborts
      /\ r.plies \in Nat /\ r.plies + 1 \in Nat
  BY DEF Results, Aborts
<1>2. Summed(g.side[p], c, q, r, f.result) = R
  BY <1>1 DEF Summed, Accumulate
<1>3. /\ q \in DOMAIN g.legal /\ q \in Nat /\ n \in 0 .. MaxPlies /\ n + 1 = f.remaining
      /\ Wanted(f).pos = q /\ Wanted(f).remaining = n
      /\ MaxPlies \in Nat /\ Horizon(g) \in Nat /\ MaxPlies + 2 <= Horizon(g)
  BY WantedIs, MateDefined, TsumeSearchAssumption
<1>4. /\ r.status = "Mate" => r.plies <= n /\ q \in Mate(r.plies)
      /\ r.status = "NoMate" => q \in Never
  BY <1>3 DEF ResultTrue
<1>5. /\ p \in DOMAIN g.legal
      /\ q \in IF g.side[p] = c THEN ChecksOf(g, p) ELSE Range(g.legal[p])
  <2>1. p \in DOMAIN g.legal /\ f.moves = MovesOf(g, c, p) /\ f.next \in 1 .. Len(f.moves)
    BY DEF FrameTrue
  <2>2. q \in Elements(MovesOf(g, c, p))
    BY <2>1 DEF Elements
  <2> HIDE DEF q
  <2> QED BY <2>1, <2>2, MovesAre
<1>6. R.status = r.status /\ R.move = q /\ R.plies = r.plies + 1 /\ R \in Results
  BY <1>1, <1>3 DEF Result, Results
<1> HIDE DEF q, n, R
<1>7. CASE g.side[p] = c
  <2>1. r.status = "Mate"
    BY <1>7 DEF Decisive
  <2>2. r.plies \in 0 .. (Horizon(g) - 1)
    BY <1>1, <1>3, <1>4, <2>1
  <2>3. p \in Mate(r.plies + 1)
    BY <1>4, <1>5, <1>7, <2>1, <2>2, MateByCheck
  <2>4. R.plies <= f.remaining /\ R.plies - 1 = r.plies
    BY <1>1, <1>3, <1>4, <1>6, <2>1
  <2>5. ResultTrue(g, c, p, f.remaining, R)
    BY <1>4, <1>6, <2>1, <2>3, <2>4 DEF ResultTrue
  <2> QED BY <1>2, <1>6, <2>5 DEF q
<1>8. CASE g.side[p] # c
  <2>1. r.status = "NoMate"
    BY <1>8 DEF Decisive
  <2>2. p \in Never
    BY <1>4, <1>5, <1>8, <2>1, NeverByReplies
  <2> QED BY <1>2, <1>6, <2>1, <2>2 DEF ResultTrue, q
<1> QED BY <1>7, <1>8

(* Without moves the result is what it starts as: stalemate without a check is never
   mate, and a side without replies is mate at once.  With moves a frame starts true. *)
Begun(g, c, p) == Result(IF g.side[p] = c THEN "NoMate" ELSE "Mate", NoMove, 0)

LEMMA BegunIsTrue ==
    ASSUME NEW g, IsGame(g), NEW c, NEW p \in DOMAIN g.legal, MovesOf(g, c, p) = << >>, NEW n \in Nat
    PROVE  ResultTrue(g, c, p, n, Begun(g, c, p)) /\ Begun(g, c, p) \in Results
<1>1. Range(MovesOf(g, c, p)) = {}
  BY DEF Range
<1>2. CASE g.side[p] = c
  <2>1. ChecksOf(g, p) = {}
    BY <1>1, <1>2 DEF IsGame, ChecksOf, MovesOf
  <2>2. p \in NeverMate(g, c)
    BY <1>2, <2>1, NeverByReplies
  <2> QED BY <1>2, <2>2 DEF ResultTrue, Begun, Result, Results, NoMove
<1>3. CASE g.side[p] # c
  <2>1. p \in MateWithin(g, c)[0]
    BY <1>3, MateDefined DEF MovesOf
  <2> QED BY <1>3, <2>1 DEF ResultTrue, Begun, Result, Results, NoMove
<1> QED BY <1>2, <1>3

FirstFrame(g, c, p, n) ==
    [pos |-> p, moves |-> MovesOf(g, c, p), next |-> 1, remaining |-> n, result |-> Begun(g, c, p)]

LEMMA FirstFrameIsTrue ==
    ASSUME NEW g, IsGame(g), NEW c, NEW p \in DOMAIN g.legal, MovesOf(g, c, p) # << >>,
           NEW n \in 1 .. MaxPlies
    PROVE  FirstFrame(g, c, p, n) \in Frames /\ FrameTrue(g, c, FirstFrame(g, c, p, n))
<1> DEFINE f == FirstFrame(g, c, p, n)
<1>1. f.pos = p /\ f.moves = MovesOf(g, c, p) /\ f.next = 1 /\ f.remaining = n /\ f.result = Begun(g, c, p)
  BY DEF FirstFrame
<1>2. MovesOf(g, c, p) \in Seq(DOMAIN g.legal) /\ DOMAIN g.legal \subseteq Nat
  BY MovesAre DEF IsGame
<1>3. MovesOf(g, c, p) \in Seq(Nat) /\ 1 \in 1 .. Len(MovesOf(g, c, p))
  <2>1. MovesOf(g, c, p) \in Seq(Nat)
    BY <1>2
  <2> QED BY <1>2, <2>1
<1>4. Begun(g, c, p) \in Results
  BY DEF Begun, Result, Results, NoMove
<1>5. f \in Frames
  BY <1>2, <1>3, <1>4, TsumeSearchAssumption DEF FirstFrame, Frames
<1>6. SumTrue(g, c, f)
  <2>1. {f.moves[i] : i \in 1 .. (f.next - 1)} = {}
    BY <1>1
  <2>2. CASE g.side[p] = c
    <3>1. f.result.status = "NoMate"
      BY <1>1, <2>2 DEF Begun, Result
    <3> HIDE DEF f
    <3> QED BY <1>1, <2>1, <2>2, <3>1 DEF SumTrue
  <2>3. CASE g.side[p] # c
    <3>1. f.result.status = "Mate" /\ f.result.plies = 0
      BY <1>1, <2>3 DEF Begun, Result
    <3> HIDE DEF f
    <3> QED BY <1>1, <2>1, <2>3, <3>1 DEF SumTrue
  <2> QED BY <2>2, <2>3
<1> HIDE DEF f
<1>7. FrameTrue(g, c, f)
  BY <1>1, <1>3, <1>6 DEF FrameTrue
<1> QED BY <1>5, <1>7 DEF f

-----------------------------------------------------------------------------
(* The table, whatever its size and generation. *)

LEMMA InOrderIs ==
    ASSUME NEW g, NEW c, NEW T
    PROVE  /\ \A n \in Nat : \A generation :
                T \in Good(g, c, n, generation) => InOrder(g, c, T) /\ (n > 0 => Size(T) > 0)
           /\ InOrder(g, c, T) => /\ Size(T) \in Nat /\ Size(T) \div BucketSize \in Nat
                                  /\ Size(T) > 0 => Size(T) \div BucketSize > 0
<1>1. BucketSize \in Nat /\ BucketSize > 0
  BY TsumeTableAssumption
<1>2. ASSUME NEW n \in Nat, NEW generation, T \in Good(g, c, n, generation)
      PROVE  InOrder(g, c, T) /\ (n > 0 => Size(T) > 0)
  <2>1. Size(T) = n * BucketSize /\ T.generation = generation
    BY <1>2 DEF Good
  <2>2. Size(T) \div BucketSize = n
    BY <1>1, <2>1, Quotient
  <2>3. n > 0 => n * BucketSize > 0
    BY <1>1
  <2> QED BY <1>2, <2>1, <2>2, <2>3 DEF InOrder
<1>3. ASSUME InOrder(g, c, T)
      PROVE  /\ Size(T) \in Nat /\ Size(T) \div BucketSize \in Nat
             /\ Size(T) > 0 => Size(T) \div BucketSize > 0
  <2> DEFINE n == Size(T) \div BucketSize
  <2>1. T \in Tables /\ Size(T) = n * BucketSize
    BY <1>3 DEF InOrder, Good
  <2>2. Size(T) \in Nat
    BY <2>1 DEF Tables, Size
  <2>3. n \in Nat
    BY <1>1, <2>2
  <2> HIDE DEF n
  <2>4. Size(T) > 0 => n > 0
    BY <1>1, <2>1, <2>3
  <2> QED BY <2>2, <2>3, <2>4 DEF n
<1> QED BY <1>2, <1>3

LEMMA StoreInOrder ==
    ASSUME NEW g, IsGame(g), NEW c, NEW T, InOrder(g, c, T), Size(T) > 0,
           NEW key \in Nat, NEW remaining \in 0 .. MaxPlies,
           NEW r \in Results, ResultTrue(g, c, key, remaining, r)
    PROVE  /\ InOrder(g, c, StoreIn(T, key, remaining, r))
           /\ Size(StoreIn(T, key, remaining, r)) > 0
<1> DEFINE n == Size(T) \div BucketSize
<1>1. n \in Nat /\ n > 0 /\ 2 * n \in Nat /\ 2 * n > 0 /\ T \in Good(g, c, n, T.generation)
  BY InOrderIs DEF InOrder
<1> HIDE DEF n
<1>2. \/ StoreIn(T, key, remaining, r) \in Good(g, c, n, T.generation)
      \/ StoreIn(T, key, remaining, r) \in Good(g, c, 2 * n, T.generation)
  BY <1>1, StoreKeeps
<1> QED BY <1>1, <1>2, InOrderIs

LEMMA ProbeInOrder ==
    ASSUME NEW g, IsGame(g), NEW c, NEW T, InOrder(g, c, T), Size(T) > 0,
           NEW key \in Nat, NEW remaining \in 0 .. MaxPlies, ProbeIn(T, key, remaining) # Missing
    PROVE  /\ ProbeIn(T, key, remaining) \in Results
           /\ ResultTrue(g, c, key, remaining, ProbeIn(T, key, remaining))
<1> DEFINE n == Size(T) \div BucketSize
<1>1. n \in Nat /\ n > 0 /\ T \in Good(g, c, n, T.generation)
  BY InOrderIs DEF InOrder
<1> HIDE DEF n
<1> QED BY <1>1, ProbeIsTrue

LEMMA PreparedInOrder ==
    ASSUME NEW g, NEW c, NEW d, NEW T, InOrder(g, c, T)
    PROVE  InOrder(g, d, Prepared(T, c, d)) /\ Size(Prepared(T, c, d)) > 0
<1> DEFINE n == Size(T) \div BucketSize
<1>1. /\ Size(T) \in Nat /\ n \in Nat /\ (Size(T) > 0 => n > 0) /\ T \in Good(g, c, n, T.generation)
      /\ T.generation \in 1 .. (GenerationLimit - 1)
  BY InOrderIs DEF InOrder, Good, Tables
<1> HIDE DEF n
<1>2. CASE Size(T) = 0
  <2> DEFINE k == InitialSize \div BucketSize
  <2>1. k \in Nat /\ InitialSize = k * BucketSize /\ k > 0
    <3>1. BucketSize \in Nat /\ BucketSize > 0 /\ InitialSize \in Nat /\ InitialSize > 0
          /\ InitialSize % BucketSize = 0
      BY TsumeTableAssumption
    <3>2. k \in Nat /\ InitialSize = k * BucketSize
      BY <3>1
    <3> HIDE DEF k
    <3> QED BY <3>1, <3>2
  <2>2. Prepared(T, c, d) = Cleared(k * BucketSize, T.generation)
    BY <1>2, <2>1 DEF Prepared, Cleared
  <2> HIDE DEF k
  <2>3. Prepared(T, c, d) \in Good(g, d, k, T.generation)
    BY <1>1, <2>1, <2>2, ClearedIsGood
  <2> QED BY <2>1, <2>3, InOrderIs
<1>3. CASE Size(T) # 0 /\ c # d
  <2>1. PICK next : NewGeneration(T) \in Good(g, d, n, next)
    BY <1>1, NewGenerationIsGood
  <2>2. Prepared(T, c, d) = NewGeneration(T)
    BY <1>3 DEF Prepared
  <2> QED BY <1>1, <1>3, <2>1, <2>2, InOrderIs
<1>4. CASE Size(T) # 0 /\ c = d
  BY <1>1, <1>4 DEF Prepared
<1> QED BY <1>2, <1>3, <1>4

LEMMA NoTableInOrder ==
    ASSUME NEW g, NEW c
    PROVE  InOrder(g, c, NoTable)
<1>1. 1 \in 1 .. (GenerationLimit - 1) /\ 0 \in Nat /\ BucketSize \in Nat
  BY TsumeTableAssumption
<1>2. NoTable = Cleared(0 * BucketSize, 1)
  <2>1. 0 * BucketSize = 0
    BY <1>1
  <2>2. [i \in 1 .. 0 |-> EmptyEntry] = << >>
    OBVIOUS
  <2> QED BY <2>1, <2>2 DEF NoTable, Cleared, NewTable
<1>3. NoTable \in Good(g, c, 0, 1)
  BY <1>1, <1>2, ClearedIsGood
<1> QED BY <1>1, <1>3, InOrderIs

-----------------------------------------------------------------------------
(* The invariant is inductive. *)

LEMMA Basics ==
    ASSUME IInv
    PROVE  /\ IsGame(game) /\ Positions \subseteq Nat /\ root \in Positions
           /\ stack # << >> => /\ Len(stack) \in 1 .. Len(stack)
                               /\ Top \in Frames /\ FrameTrue(game, attacker, Top)
           /\ phase = "enter" => /\ entered.pos \in Positions /\ entered.pos \in Nat
                                 /\ entered.remaining \in 0 .. MaxPlies
           /\ phase = "leave" /\ stack # << >> /\ reply.status \notin Aborts =>
                 /\ reply \in Results
                 /\ ResultTrue(game, attacker, Wanted(Top).pos, Wanted(Top).remaining, reply)
<1>1. IsGame(game) /\ Positions \subseteq Nat /\ root \in Positions
  BY TsumeSearchAssumption DEF IInv, CallInv, IsGame, Positions
<1>2. ASSUME stack # << >>
      PROVE  Len(stack) \in 1 .. Len(stack) /\ Top \in Frames /\ FrameTrue(game, attacker, Top)
  <2>1. stack \in Seq(Frames) /\ \A k \in 1 .. Len(stack) : FrameTrue(game, attacker, stack[k])
    BY DEF IInv, StackInv
  <2>2. Len(stack) \in 1 .. Len(stack)
    BY <1>2, <2>1, EmptySeq, LenProperties
  <2>3. stack[Len(stack)] \in Frames
    BY <2>1, <2>2, ElementOfSeq
  <2> QED BY <2>1, <2>2, <2>3 DEF Top
<1>3. ASSUME phase = "enter"
      PROVE  entered.pos \in Positions /\ entered.pos \in Nat /\ entered.remaining \in 0 .. MaxPlies
  <2>1. entered = Asked
    BY <1>3 DEF IInv, VisitInv
  <2>2. CASE stack = << >>
    <3>1. depth \in 0 .. MaxPlies
      BY <1>3, TsumeSearchAssumption DEF IInv, CallInv
    <3> QED BY <1>1, <2>1, <2>2, <3>1 DEF Asked
  <2>3. CASE stack # << >>
    <3>1. entered = Wanted(Top)
      BY <2>1, <2>3 DEF Asked
    <3> QED BY <1>1, <1>2, <2>3, <3>1, WantedIs DEF Positions
  <2> QED BY <2>2, <2>3
<1>4. ASSUME phase = "leave", stack # << >>, reply.status \notin Aborts
      PROVE  /\ reply \in Results
             /\ ResultTrue(game, attacker, Wanted(Top).pos, Wanted(Top).remaining, reply)
  <2>1. ReplyTrue
    BY <1>4 DEF IInv, VisitInv
  <2>2. ~(depth > limit)
    BY <1>4 DEF IInv, CallInv
  <2>3. Asked = Wanted(Top)
    BY <1>4 DEF Asked
  <2> QED BY <1>4, <2>1, <2>2, <2>3 DEF ReplyTrue, Unthreatened
<1> QED BY <1>1, <1>2, <1>3, <1>4

LEMMA InitIsGood == Init => IInv
<1> SUFFICES ASSUME Init PROVE IInv
  OBVIOUS
<1>1. IsGame(game) /\ root \in Positions
  <2>1. IsGame(game)
    BY TsumeSearchAssumption DEF Init
  <2>2. Positions # {}
    BY <2>1 DEF IsGame, Positions
  <2> QED BY <2>1, <2>2 DEF Init
<1>2. CallInv
  <2>1. attacker = "black" /\ tableAttacker = "black" /\ limit = 0 /\ depth = 0 /\ game \in Games
        /\ phase = "idle"
    BY DEF Init
  <2> QED BY <1>1, <2>1, TsumeSearchAssumption DEF CallInv, Colors
<1>3. TableInv
  BY NoTableInOrder DEF TableInv, Init
<1>4. StackInv
  <2>1. stack = << >>
    BY DEF Init
  <2>2. stack \in Seq(Frames) /\ 1 .. Len(stack) = {}
    BY <2>1
  <2> QED BY <2>2 DEF StackInv
<1>5. VisitInv
  <2>1. stack = << >> /\ phase = "idle" /\ solves = 0
    BY DEF Init
  <2> QED BY <2>1 DEF VisitInv
<1> QED BY <1>2, <1>3, <1>4, <1>5 DEF IInv

(* A visit that does not search leaves the stack alone. *)
LEMMA EarlyLeaves ==
    ASSUME IInv, phase = "enter", phase' = "leave", TableInv',
           UNCHANGED <<unchangedByVisit, stack, entered>>,
           \/ reply'.status \in Aborts
           \/ Unthreatened /\ reply'.status = "NoMate"
           \/ /\ reply' \in Results
              /\ ResultTrue(game, attacker, entered.pos, entered.remaining, reply')
    PROVE  IInv'
<1>1. CallInv'
  BY DEF IInv, CallInv, Positions, unchangedByVisit
<1>2. StackInv'
  BY DEF IInv, StackInv, unchangedByVisit
<1>3. VisitInv'
  <2>1. Asked' = Asked /\ entered = Asked
    BY DEF IInv, VisitInv, Asked, Top, unchangedByVisit
  <2>2. Unthreatened' <=> Unthreatened
    BY DEF Unthreatened, Attack, Side, unchangedByVisit
  <2>3. depth <= limit
    BY DEF IInv, CallInv
  <2>4. ReplyTrue'
    BY <2>1, <2>2, <2>3 DEF ReplyTrue, unchangedByVisit
  <2> QED BY <2>4 DEF VisitInv
<1> QED BY <1>1, <1>2, <1>3 DEF IInv

(* A visit that fills a slot. *)
LEMMA TableIsKept ==
    ASSUME IInv, phase # "idle", UNCHANGED unchangedByVisit,
           \/ table' = table
           \/ \E key \in Nat, remaining \in 0 .. MaxPlies, r \in Results :
                 /\ ResultTrue(game, attacker, key, remaining, r)
                 /\ table' = StoreIn(table, key, remaining, r)
    PROVE  TableInv'
<1>1. /\ InOrder(game, tableAttacker, table) /\ Size(table) > 0 /\ tableAttacker = attacker
      /\ IsGame(game) /\ game' = game /\ tableAttacker' = tableAttacker
  BY Basics DEF IInv, TableInv, CallInv, unchangedByVisit
<1>2. CASE table' = table
  BY <1>1, <1>2 DEF TableInv
<1>3. ASSUME NEW key \in Nat, NEW remaining \in 0 .. MaxPlies, NEW r \in Results,
             ResultTrue(game, attacker, key, remaining, r),
             table' = StoreIn(table, key, remaining, r)
      PROVE  TableInv'
  <2>1. InOrder(game, tableAttacker, table') /\ Size(table') > 0
    BY <1>1, <1>3, StoreInOrder
  <2> QED BY <1>1, <2>1 DEF TableInv
<1> QED BY <1>2, <1>3

LEMMA SolveKeeps ==
    ASSUME IInv, NEW p \in Positions, NEW color \in Colors, NEW plies \in 0 .. (MaxPlies + 1),
           Solve(p, color, plies)
    PROVE  IInv'
<1> DEFINE first == IF Side(p) = color THEN 1 ELSE 0
<1>1. /\ game' = game /\ tableAttacker' = color /\ attacker' = color /\ root' = p /\ stack' = << >>
      /\ table' = Prepared(table, tableAttacker, color) /\ depth' = first
      /\ limit' = (IF plies > MaxPlies THEN MaxPlies ELSE plies)
  BY DEF Solve
<1>2. \/ /\ first > limit' /\ phase' = "leave" /\ reply' = Result("Limit", NoMove, 0)
      \/ /\ first <= limit' /\ phase' = "enter" /\ entered' = [pos |-> p, remaining |-> first]
  <2>1. first \in {0, 1} /\ limit' \in Nat
    BY <1>1, TsumeSearchAssumption
  <2> HIDE DEF first
  <2>2. IF first > limit' THEN Reply(Result("Limit", NoMove, 0)) /\ UNCHANGED entered
        ELSE Visit(p, first) /\ UNCHANGED reply
    BY DEF Solve, first
  <2> QED BY <2>1, <2>2 DEF Reply, Visit
<1>3. first \in {0, 1} /\ limit' \in 0 .. MaxPlies /\ limit' \in Nat
  BY <1>1, TsumeSearchAssumption
<1> HIDE DEF first
<1>4. CallInv'
  <2>1. ~(depth' >= 2) /\ depth' \in Nat
    BY <1>1, <1>3
  <2>2. depth' <= limit' \/ (depth' = 1 /\ stack' = << >> /\ phase' # "enter")
    BY <1>1, <1>2, <1>3
  <2>3. phase' \in {"idle", "enter", "leave"}
    BY <1>2
  <2> QED BY <1>1, <1>3, <2>1, <2>2, <2>3 DEF IInv, CallInv, Positions
<1>5. TableInv'
  <2>1. InOrder(game, tableAttacker, table)
    BY DEF IInv, TableInv
  <2>2. InOrder(game, color, table') /\ Size(table') > 0
    BY <1>1, <2>1, PreparedInOrder
  <2> QED BY <1>1, <2>2 DEF TableInv
<1>6. StackInv'
  <2>1. stack' \in Seq(Frames) /\ 1 .. Len(stack') = {}
    BY <1>1
  <2> QED BY <2>1 DEF StackInv
<1>7. VisitInv'
  <2>1. Asked' = [pos |-> p, remaining |-> first]
    BY <1>1 DEF Asked
  <2>2. phase' = "leave" => ReplyTrue'
    <3>1. phase' = "leave" => depth' > limit' /\ reply'.status = "Limit"
      BY <1>1, <1>2 DEF Result
    <3> QED BY <3>1 DEF ReplyTrue
  <2>3. phase' # "idle" /\ (phase' = "enter" => entered' = Asked')
    BY <1>2, <2>1
  <2> QED BY <2>2, <2>3 DEF VisitInv
<1> QED BY <1>4, <1>5, <1>6, <1>7 DEF IInv

LEMMA AbortKeeps ==
    ASSUME IInv, NEW status \in Aborts, Abort(status)
    PROVE  IInv'
<1>1. /\ phase = "enter" /\ phase' = "leave" /\ reply'.status \in Aborts
      /\ UNCHANGED <<unchangedByVisit, stack, entered>> /\ UNCHANGED unchangedByVisit /\ table' = table
  BY DEF Abort, Entering, Reply, Result
<1>2. TableInv'
  BY <1>1, TableIsKept
<1> QED BY <1>1, <1>2, EarlyLeaves

LEMMA LeaveUnthreatenedKeeps == IInv /\ LeaveUnthreatened => IInv'
<1> SUFFICES ASSUME IInv, LeaveUnthreatened PROVE IInv'
  OBVIOUS
<1>1. /\ phase = "enter" /\ phase' = "leave" /\ reply' = Result("NoMate", NoMove, 0)
      /\ UNCHANGED <<unchangedByVisit, stack, entered>> /\ UNCHANGED unchangedByVisit /\ table' = table
      /\ NotInCheckAtRoot
  BY DEF LeaveUnthreatened, Entering, Reply
<1>2. TableInv'
  BY <1>1, TableIsKept
<1>3. Unthreatened
  <2>1. entered = Asked /\ stack = << >>
    BY <1>1 DEF IInv, VisitInv, NotInCheckAtRoot
  <2>2. entered.pos = root
    BY <2>1 DEF Asked
  <2> QED BY <1>1, <2>1, <2>2 DEF NotInCheckAtRoot, Unthreatened
<1>4. reply'.status = "NoMate"
  BY <1>1 DEF Result
<1> QED BY <1>1, <1>2, <1>3, <1>4, EarlyLeaves

LEMMA LeaveLastDefenceKeeps == IInv /\ LeaveLastDefence => IInv'
<1> SUFFICES ASSUME IInv, LeaveLastDefence PROVE IInv'
  OBVIOUS
<1> DEFINE p == entered.pos
           r == Result(IF game.legal[p] = << >> THEN "Mate" ELSE "Limit", NoMove, 0)
<1>1. /\ phase = "enter" /\ phase' = "leave" /\ reply' = r
      /\ UNCHANGED <<unchangedByVisit, stack, entered>> /\ UNCHANGED unchangedByVisit /\ table' = table
      /\ game.side[p] # attacker /\ entered.remaining = 0
  BY DEF LeaveLastDefence, DefenceAtDepth0, Entering, Reply, Attack, Side
<1>2. TableInv'
  BY <1>1, TableIsKept
<1>3. IsGame(game) /\ p \in DOMAIN game.legal
  BY <1>1, Basics DEF Positions
<1>4. p \in MateWithin(game, attacker)[0] <=> game.legal[p] = << >>
  BY <1>1, <1>3, MateDefined
<1>5. r \in Results /\ ResultTrue(game, attacker, p, 0, r)
  BY <1>4 DEF Result, Results, ResultTrue, NoMove
<1> QED BY <1>1, <1>2, <1>5, EarlyLeaves

LEMMA LeaveCachedKeeps == IInv /\ LeaveCached => IInv'
<1> SUFFICES ASSUME IInv, LeaveCached PROVE IInv'
  OBVIOUS
<1>1. /\ phase = "enter" /\ phase' = "leave" /\ reply' = Cached /\ Cached # Missing
      /\ UNCHANGED <<unchangedByVisit, stack, entered>> /\ UNCHANGED unchangedByVisit /\ table' = table
  BY DEF LeaveCached, Searches, Entering, Reply
<1>2. TableInv'
  BY <1>1, TableIsKept
<1>3. /\ IsGame(game) /\ entered.pos \in Nat /\ entered.remaining \in 0 .. MaxPlies
      /\ InOrder(game, attacker, table) /\ Size(table) > 0
  BY <1>1, Basics DEF IInv, TableInv, CallInv
<1>4. Cached \in Results /\ ResultTrue(game, attacker, entered.pos, entered.remaining, Cached)
  BY <1>1, <1>3, ProbeInOrder DEF Cached
<1> QED BY <1>1, <1>2, <1>4, EarlyLeaves

LEMMA MovesAreMovesOf ==
    ASSUME NEW p
    PROVE  Moves(p) = MovesOf(game, attacker, p) /\ Start(p) = Begun(game, attacker, p)
BY DEF Moves, MovesOf, Start, Begun, Attack, Side

LEMMA LeaveWithoutMovesKeeps == IInv /\ LeaveWithoutMoves => IInv'
<1> SUFFICES ASSUME IInv, LeaveWithoutMoves PROVE IInv'
  OBVIOUS
<1> DEFINE p == entered.pos
           n == entered.remaining
           r == Start(p)
<1>1. /\ phase = "enter" /\ phase' = "leave" /\ reply' = r /\ Moves(p) = << >>
      /\ UNCHANGED <<unchangedByVisit, stack, entered>> /\ UNCHANGED unchangedByVisit
      /\ table' = StoreIn(table, p, n, r)
  BY DEF LeaveWithoutMoves, Searches, Entering, Reply
<1>2. IsGame(game) /\ p \in Nat /\ n \in 0 .. MaxPlies /\ n \in Nat /\ p \in DOMAIN game.legal
  BY <1>1, Basics DEF Positions
<1>3. r \in Results /\ ResultTrue(game, attacker, p, n, r)
  BY <1>1, <1>2, MovesAreMovesOf, BegunIsTrue
<1> HIDE DEF p, n, r
<1>4. TableInv'
  BY <1>1, <1>2, <1>3, TableIsKept
<1> QED BY <1>1, <1>3, <1>4, EarlyLeaves DEF p, n

LEMMA LeaveAtLimitKeeps == IInv /\ LeaveAtLimit => IInv'
<1> SUFFICES ASSUME IInv, LeaveAtLimit PROVE IInv'
  OBVIOUS
<1> DEFINE p == entered.pos
           r == Result("Limit", NoMove, 0)
<1>1. /\ phase = "enter" /\ phase' = "leave" /\ reply' = r
      /\ UNCHANGED <<unchangedByVisit, stack, entered>> /\ UNCHANGED unchangedByVisit /\ table' = table
      /\ entered.remaining = 0 /\ game.side[p] = attacker
  BY DEF LeaveAtLimit, Searches, DefenceAtDepth0, Entering, Reply, Attack, Side
<1>2. TableInv'
  BY <1>1, TableIsKept
<1>3. IsGame(game)
  BY <1>1, Basics
<1>4. p \notin MateWithin(game, attacker)[0]
  BY <1>1, <1>3, MateDefined
<1>5. r \in Results /\ ResultTrue(game, attacker, p, 0, r)
  BY <1>4 DEF Result, Results, ResultTrue, NoMove
<1> QED BY <1>1, <1>2, <1>5, EarlyLeaves

LEMMA ExpandKeeps == IInv /\ Expand => IInv'
<1> SUFFICES ASSUME IInv, Expand PROVE IInv'
  OBVIOUS
<1> DEFINE p == entered.pos
           n == entered.remaining
           F == FirstFrame(game, attacker, p, n)
           L == Len(stack)
<1>1. /\ phase = "enter" /\ phase' = "enter" /\ entered' = [pos |-> Moves(p)[1], remaining |-> n - 1]
      /\ UNCHANGED <<unchangedByVisit, table, reply>> /\ UNCHANGED unchangedByVisit
      /\ Moves(p) # << >> /\ n > 0 /\ table' = table
  BY DEF Expand, Searches, Entering, Visit
<1>2. stack' = Append(stack, F)
  BY MovesAreMovesOf DEF Expand, FirstFrame
<1>3. IsGame(game) /\ p \in DOMAIN game.legal /\ n \in 1 .. MaxPlies
  BY <1>1, Basics DEF Positions
<1>4. F \in Frames /\ FrameTrue(game, attacker, F)
  BY <1>1, <1>3, MovesAreMovesOf, FirstFrameIsTrue
<1>5. F.pos = p /\ F.remaining = n /\ Wanted(F) = [pos |-> Moves(p)[1], remaining |-> n - 1]
  BY MovesAreMovesOf DEF FirstFrame, Wanted
<1> HIDE DEF F
<1>6. /\ stack \in Seq(Frames) /\ L \in Nat /\ stack' \in Seq(Frames)
      /\ Len(stack') = L + 1 /\ stack'[L + 1] = F /\ \A k \in 1 .. L : stack'[k] = stack[k]
  <2>1. stack \in Seq(Frames)
    BY DEF IInv, StackInv
  <2> QED BY <1>2, <1>4, <2>1, AppendProperties, LenProperties
<1>7. stack' # << >> /\ Top' = F
  BY <1>6 DEF Top
<1>8. CallInv'
  BY <1>1 DEF IInv, CallInv, Positions, unchangedByVisit
<1>9. TableInv'
  BY <1>1, TableIsKept
<1>10. StackInv'
  <2>1. \A k \in 1 .. Len(stack') : FrameTrue(game', attacker', stack'[k])
    <3> SUFFICES ASSUME NEW k \in 1 .. Len(stack') PROVE FrameTrue(game, attacker, stack'[k])
      BY <1>1 DEF unchangedByVisit
    <3>1. k = L + 1 \/ k \in 1 .. L
      BY <1>6
    <3> QED BY <1>4, <1>6, <3>1 DEF IInv, StackInv
  <2>2. ASSUME NEW k \in 1 .. Len(stack')
        PROVE  [pos |-> stack'[k].pos, remaining |-> stack'[k].remaining]
               = IF k = 1 THEN [pos |-> root, remaining |-> depth] ELSE Wanted(stack'[k - 1])
    <3>1. CASE k \in 1 .. L
      <4>1. stack'[k] = stack[k] /\ (k # 1 => k - 1 \in 1 .. L /\ stack'[k - 1] = stack[k - 1])
        BY <1>6, <3>1
      <4> QED BY <3>1, <4>1 DEF IInv, StackInv
    <3>2. CASE k = L + 1
      <4>1. entered = Asked
        BY <1>1 DEF IInv, VisitInv
      <4>2. Asked = IF k = 1 THEN [pos |-> root, remaining |-> depth] ELSE Wanted(stack'[k - 1])
        <5>1. stack = << >> <=> k = 1
          BY <1>6, <3>2, EmptySeq
        <5>2. k # 1 => k - 1 = L /\ L \in 1 .. L
          BY <1>6, <3>2
        <5>3. k # 1 => stack'[k - 1] = Top
          BY <1>6, <5>2 DEF Top
        <5> QED BY <5>1, <5>3 DEF Asked
      <4>3. entered = [pos |-> p, remaining |-> n]
        BY <4>1 DEF Asked, Wanted
      <4> QED BY <1>5, <1>6, <3>2, <4>1, <4>2, <4>3
    <3>3. k = L + 1 \/ k \in 1 .. L
      BY <1>6
    <3> QED BY <3>1, <3>2, <3>3
  <2> QED BY <1>1, <1>6, <2>1, <2>2 DEF StackInv, unchangedByVisit
<1>11. VisitInv'
  <2>1. Asked' = Wanted(F)
    BY <1>7 DEF Asked
  <2> QED BY <1>1, <1>5, <2>1 DEF VisitInv
<1> QED BY <1>8, <1>9, <1>10, <1>11 DEF IInv

LEMMA SumIsSummed ==
    ASSUME TRUE
    PROVE  /\ Sum = Summed(game.side[Top.pos], attacker, Top.moves[Top.next], reply, Top.result)
           /\ Sum = More(game, attacker, Top, reply).result \/ Top \notin Frames
           /\ Settled(Attack(Top.pos), reply) <=>
                reply.status \in Aborts \/ Decisive(game.side[Top.pos] = attacker, reply.status)
<1>1. Sum = Summed(game.side[Top.pos], attacker, Top.moves[Top.next], reply, Top.result)
  BY DEF Sum, Summed, Attack, Side
<1>2. Top \in Frames => More(game, attacker, Top, reply).result
        = Summed(game.side[Top.pos], attacker, Top.moves[Top.next], reply, Top.result)
  BY MoreIs
<1>3. Settled(Attack(Top.pos), reply) <=>
        reply.status \in Aborts \/ Decisive(game.side[Top.pos] = attacker, reply.status)
  BY DEF Settled, Attack, Side
<1> QED BY <1>1, <1>2, <1>3

LEMMA NextReplyKeeps == IInv /\ NextReply => IInv'
<1> SUFFICES ASSUME IInv, NextReply PROVE IInv'
  OBVIOUS
<1> DEFINE F == More(game, attacker, Top, reply)
           L == Len(stack)
<1>1. /\ phase = "leave" /\ phase' = "enter" /\ stack # << >>
      /\ entered' = [pos |-> Top.moves[Top.next + 1], remaining |-> Top.remaining - 1]
      /\ UNCHANGED <<unchangedByVisit, table, reply>> /\ UNCHANGED unchangedByVisit /\ table' = table
      /\ stack' = [stack EXCEPT ![L].result = Sum, ![L].next = @ + 1]
      /\ reply.status \notin Aborts /\ ~Decisive(game.side[Top.pos] = attacker, reply.status)
      /\ Top.next # Len(Top.moves)
  BY SumIsSummed DEF NextReply, TopIsDone, Settled, Visit
<1>2. /\ IsGame(game) /\ L \in 1 .. L /\ Top \in Frames /\ FrameTrue(game, attacker, Top)
      /\ reply \in Results /\ Top = stack[L]
      /\ ResultTrue(game, attacker, Wanted(Top).pos, Wanted(Top).remaining, reply)
  BY <1>1, Basics DEF Top
<1>3. F \in Frames /\ FrameTrue(game, attacker, F)
  BY <1>1, <1>2, MoreKeepsFrame
<1>4. /\ F.pos = Top.pos /\ F.remaining = Top.remaining
      /\ Wanted(F) = [pos |-> Top.moves[Top.next + 1], remaining |-> Top.remaining - 1]
  BY <1>2, MoreIs DEF Wanted
<1>5. F = [Top EXCEPT !.result = Sum, !.next = @ + 1]
  BY SumIsSummed DEF More
<1>6. /\ stack \in Seq(Frames) /\ L \in Nat /\ stack' \in Seq(Frames)
      /\ Len(stack') = L /\ stack'[L] = F /\ \A k \in 1 .. L : k # L => stack'[k] = stack[k]
  <2>1. stack \in Seq(Frames) /\ L \in Nat
    BY LenProperties DEF IInv, StackInv
  <2>2. stack' = [stack EXCEPT ![L] = F]
    BY <1>1, <1>2, <1>5, <2>1
  <2> HIDE DEF F
  <2> QED BY <1>2, <1>3, <2>1, <2>2, ExceptSeq
<1> HIDE DEF F
<1>7. stack' # << >> /\ Top' = F
  <2>1. stack' # << >>
    BY <1>2, <1>6
  <2> QED BY <1>6, <2>1 DEF Top
<1>8. CallInv'
  BY <1>1 DEF IInv, CallInv, Positions, unchangedByVisit
<1>9. TableInv'
  BY <1>1, TableIsKept
<1>10. StackInv'
  <2>1. \A k \in 1 .. Len(stack') : FrameTrue(game', attacker', stack'[k])
    <3> SUFFICES ASSUME NEW k \in 1 .. Len(stack') PROVE FrameTrue(game, attacker, stack'[k])
      BY <1>1 DEF unchangedByVisit
    <3> QED BY <1>3, <1>6 DEF IInv, StackInv
  <2>2. ASSUME NEW k \in 1 .. Len(stack')
        PROVE  [pos |-> stack'[k].pos, remaining |-> stack'[k].remaining]
               = IF k = 1 THEN [pos |-> root, remaining |-> depth] ELSE Wanted(stack'[k - 1])
    <3>1. k \in 1 .. L /\ (k # 1 => k - 1 \in 1 .. L /\ k - 1 # L)
      BY <1>6
    <3>2. stack'[k].pos = stack[k].pos /\ stack'[k].remaining = stack[k].remaining
      BY <1>2, <1>4, <1>6, <3>1
    <3>3. k # 1 => stack'[k - 1] = stack[k - 1]
      BY <1>6, <3>1
    <3> QED BY <3>1, <3>2, <3>3 DEF IInv, StackInv
  <2> QED BY <1>1, <1>6, <2>1, <2>2, SMTT(30) DEF StackInv, unchangedByVisit
<1>11. VisitInv'
  <2>1. Asked' = Wanted(F)
    BY <1>7 DEF Asked
  <2> QED BY <1>1, <1>4, <2>1 DEF VisitInv
<1> QED BY <1>8, <1>9, <1>10, <1>11 DEF IInv

(* What a frame stores as it is left is true of its position. *)
LEMMA LeaveStores ==
    ASSUME IInv, Leave
    PROVE  /\ Top.pos \in Nat /\ Top.remaining \in 0 .. MaxPlies /\ phase # "idle"
           /\ \/ Sum.status \in Aborts
              \/ Sum \in Results /\ ResultTrue(game, attacker, Top.pos, Top.remaining, Sum)
           /\ \/ table' = table
              \/ \E key \in Nat, remaining \in 0 .. MaxPlies, r \in Results :
                    /\ ResultTrue(game, attacker, key, remaining, r)
                    /\ table' = StoreIn(table, key, remaining, r)
<1> DEFINE L == Len(stack)
           f == Top
<1>1. /\ phase = "leave" /\ phase' = "leave" /\ stack # << >> /\ TopIsDone /\ reply' = Sum
      /\ table' = (IF Sum.status \in Aborts THEN table ELSE StoreIn(table, f.pos, f.remaining, Sum))
      /\ stack' = SubSeq(stack, 1, L - 1)
      /\ UNCHANGED unchangedByVisit
  BY DEF Leave, Reply
<1>2. /\ IsGame(game) /\ L \in 1 .. L /\ f \in Frames /\ FrameTrue(game, attacker, f) /\ f = stack[L]
      /\ reply.status \notin Aborts =>
            /\ reply \in Results
            /\ ResultTrue(game, attacker, Wanted(f).pos, Wanted(f).remaining, reply)
  BY <1>1, Basics DEF Top
<1>3. f.pos \in Nat /\ f.remaining \in 0 .. MaxPlies
  BY <1>2, WantedIs, TsumeSearchAssumption DEF FrameTrue
<1>4. \/ Sum.status \in Aborts
      \/ Sum \in Results /\ ResultTrue(game, attacker, f.pos, f.remaining, Sum)
  <2>1. CASE reply.status \in Aborts
    BY <2>1 DEF Sum, Accumulate
  <2>2. CASE reply.status \notin Aborts /\ Decisive(game.side[f.pos] = attacker, reply.status)
    BY <1>2, <2>2, SumIsSummed, DecisiveIsTrue
  <2>3. CASE reply.status \notin Aborts /\ ~Decisive(game.side[f.pos] = attacker, reply.status)
    <3>1. f.next = Len(f.moves)
      BY <1>1, <2>3, SumIsSummed DEF TopIsDone
    <3> QED BY <1>2, <2>3, <3>1, SumIsSummed, LastReplyIsTrue
  <2> QED BY <2>1, <2>2, <2>3
<1>5. CASE Sum.status \in Aborts
  BY <1>1, <1>3, <1>5
<1>6. CASE Sum.status \notin Aborts
  <2>1. Sum \in Results /\ ResultTrue(game, attacker, f.pos, f.remaining, Sum)
    BY <1>4, <1>6
  <2>2. table' = StoreIn(table, f.pos, f.remaining, Sum)
    BY <1>1, <1>6
  <2> QED BY <1>1, <1>3, <2>1, <2>2
<1> QED BY <1>5, <1>6

LEMMA LeaveKeeps == IInv /\ Leave => IInv'
<1> SUFFICES ASSUME IInv, Leave PROVE IInv'
  OBVIOUS
<1> DEFINE L == Len(stack)
           f == Top
<1>1. /\ phase = "leave" /\ phase' = "leave" /\ stack # << >> /\ TopIsDone /\ reply' = Sum
      /\ table' = (IF Sum.status \in Aborts THEN table ELSE StoreIn(table, f.pos, f.remaining, Sum))
      /\ stack' = SubSeq(stack, 1, L - 1)
      /\ UNCHANGED unchangedByVisit
  BY DEF Leave, Reply
<1>2. /\ IsGame(game) /\ L \in 1 .. L /\ f \in Frames /\ FrameTrue(game, attacker, f) /\ f = stack[L]
      /\ reply.status \notin Aborts =>
            /\ reply \in Results
            /\ ResultTrue(game, attacker, Wanted(f).pos, Wanted(f).remaining, reply)
  BY <1>1, Basics DEF Top
<1>4. \/ Sum.status \in Aborts
      \/ Sum \in Results /\ ResultTrue(game, attacker, f.pos, f.remaining, Sum)
  BY LeaveStores
<1>5. TableInv'
  BY <1>1, LeaveStores, TableIsKept
<1>6. /\ stack \in Seq(Frames) /\ L \in Nat /\ L >= 1 /\ stack' \in Seq(Frames)
      /\ Len(stack') = L - 1 /\ \A k \in 1 .. (L - 1) : stack'[k] = stack[k]
  <2>1. stack \in Seq(Frames) /\ L \in Nat
    BY LenProperties DEF IInv, StackInv
  <2>2. L >= 1 /\ L - 1 \in 0 .. L
    BY <1>2, <2>1
  <2>3. /\ SubSeq(stack, 1, L - 1) \in Seq(Frames)
        /\ Len(SubSeq(stack, 1, L - 1)) = L - 1
        /\ \A k \in 1 .. (L - 1) : SubSeq(stack, 1, L - 1)[k] = stack[k]
    BY <2>1, <2>2, SubSeqProperties, SMTT(30)
  <2> QED BY <1>1, <2>1, <2>2, <2>3
<1>7. CallInv'
  <2>1. depth <= limit
    BY <1>1 DEF IInv, CallInv
  <2> QED BY <1>1, <2>1 DEF IInv, CallInv, Positions, unchangedByVisit
<1>8. StackInv'
  <2>1. ASSUME NEW k \in 1 .. Len(stack')
        PROVE  /\ FrameTrue(game, attacker, stack'[k])
               /\ [pos |-> stack'[k].pos, remaining |-> stack'[k].remaining]
                  = IF k = 1 THEN [pos |-> root, remaining |-> depth] ELSE Wanted(stack'[k - 1])
    <3>1. k \in 1 .. L /\ stack'[k] = stack[k] /\ (k # 1 => k - 1 \in 1 .. (L - 1))
      BY <1>6
    <3>2. k # 1 => stack'[k - 1] = stack[k - 1]
      BY <1>6, <3>1
    <3> QED BY <3>1, <3>2 DEF IInv, StackInv
  <2> QED BY <1>1, <1>6, <2>1 DEF StackInv, unchangedByVisit
<1>9. Asked'.pos = f.pos /\ Asked'.remaining = f.remaining
  <2>1. [pos |-> f.pos, remaining |-> f.remaining]
        = IF L = 1 THEN [pos |-> root, remaining |-> depth] ELSE Wanted(stack[L - 1])
    BY <1>2 DEF IInv, StackInv
  <2>2. stack' = << >> <=> L = 1
    BY <1>6, EmptySeq
  <2>3. L # 1 => Top' = stack[L - 1]
    <3>1. L # 1 => L - 1 \in 1 .. (L - 1)
      BY <1>6
    <3> QED BY <1>6, <3>1 DEF Top
  <2>4. Asked' = [pos |-> f.pos, remaining |-> f.remaining]
    <3>1. root' = root /\ depth' = depth
      BY <1>1 DEF unchangedByVisit
    <3> HIDE DEF f
    <3> QED BY <2>1, <2>2, <2>3, <3>1 DEF Asked
  <2> QED BY <2>4
<1>10. VisitInv'
  <2>1. ReplyTrue'
    <3>1. game' = game /\ attacker' = attacker /\ depth' <= limit'
      BY <1>1 DEF IInv, CallInv, unchangedByVisit
    <3> HIDE DEF f
    <3> QED BY <1>1, <1>4, <1>9, <3>1 DEF ReplyTrue
  <2> QED BY <1>1, <2>1 DEF VisitInv
<1> QED BY <1>5, <1>7, <1>8, <1>10 DEF IInv

LEMMA DeepenKeeps == IInv /\ Deepen => IInv'
<1> SUFFICES ASSUME IInv, Deepen PROVE IInv'
  OBVIOUS
<1>1. /\ phase = "leave" /\ phase' = "enter" /\ stack = << >> /\ stack' = << >>
      /\ reply.status = "Limit" /\ ~(depth + 2 > limit) /\ depth' = depth + 2
      /\ entered' = [pos |-> root, remaining |-> depth + 2]
      /\ UNCHANGED <<game, table, tableAttacker, attacker, root, limit, solves, stack, reply>>
  BY DEF Deepen, Concluded, Visit
<1>2. depth \in Nat /\ limit \in 0 .. MaxPlies /\ limit \in Nat /\ IsGame(game)
  BY Basics, TsumeSearchAssumption DEF IInv, CallInv
<1>3. root \notin MateWithin(game, attacker)[depth]
  <2>1. ReplyTrue
    BY <1>1 DEF IInv, VisitInv
  <2>2. ~(depth > limit) /\ reply.status \notin Aborts /\ reply.status # "NoMate"
    BY <1>1, <1>2 DEF Aborts
  <2>3. Asked.pos = root /\ Asked.remaining = depth
    BY <1>1 DEF Asked
  <2>4. ResultTrue(game, attacker, root, depth, reply)
    BY <2>1, <2>2, <2>3 DEF ReplyTrue
  <2> QED BY <1>1, <2>4 DEF ResultTrue
<1>4. CallInv'
  <2>1. depth + 2 \in Nat /\ depth + 2 <= limit /\ depth + 2 - 2 = depth
    BY <1>1, <1>2
  <2> QED BY <1>1, <1>3, <2>1 DEF IInv, CallInv, Positions
<1>5. TableInv'
  BY <1>1 DEF IInv, TableInv
<1>6. StackInv'
  <2>1. stack' \in Seq(Frames) /\ 1 .. Len(stack') = {}
    BY <1>1
  <2> QED BY <2>1 DEF StackInv
<1>7. VisitInv'
  BY <1>1 DEF VisitInv, Asked
<1> QED BY <1>4, <1>5, <1>6, <1>7 DEF IInv

LEMMA SolveReturnsKeeps == IInv /\ SolveReturns => IInv'
<1> SUFFICES ASSUME IInv, SolveReturns PROVE IInv'
  OBVIOUS
<1>1. /\ phase = "leave" /\ phase' = "idle" /\ stack = << >> /\ Concluded
      /\ UNCHANGED <<unchangedByVisit, table, stack, reply, entered>>
  BY DEF SolveReturns
<1>2. CallInv'
  BY <1>1 DEF IInv, CallInv, Positions, unchangedByVisit
<1>3. TableInv'
  BY <1>1 DEF IInv, TableInv, unchangedByVisit
<1>4. StackInv'
  BY <1>1 DEF IInv, StackInv, unchangedByVisit
<1>5. VisitInv'
  <2>1. ReplyTrue /\ Asked' = Asked
    BY <1>1 DEF IInv, VisitInv, Asked, Top, unchangedByVisit
  <2>2. ReplyTrue' /\ Concluded'
    BY <1>1, <2>1 DEF ReplyTrue, Unthreatened, Attack, Side, Concluded, unchangedByVisit
  <2> QED BY <1>1, <2>2 DEF VisitInv
<1> QED BY <1>2, <1>3, <1>4, <1>5 DEF IInv

LEMMA StutterKeeps == IInv /\ UNCHANGED vars => IInv'
<1> SUFFICES ASSUME IInv, UNCHANGED vars PROVE IInv'
  OBVIOUS
<1>1. CallInv'
  BY DEF IInv, CallInv, Positions, vars
<1>2. TableInv' /\ StackInv'
  BY DEF IInv, TableInv, StackInv, vars
<1>3. VisitInv'
  <2>1. Asked' = Asked
    BY DEF Asked, Top, vars
  <2>2. (ReplyTrue' <=> ReplyTrue) /\ (Concluded' <=> Concluded)
    BY <2>1 DEF ReplyTrue, Unthreatened, Attack, Side, Concluded, vars
  <2> QED BY <2>1, <2>2 DEF IInv, VisitInv, vars
<1> QED BY <1>1, <1>2, <1>3 DEF IInv

(* IInv holds in every reachable state: every node on the stack of visit has added up the
   replies it has had truly, and what the table keeps is true of the attacker it is for. *)
THEOREM Inductive == Spec => []IInv
<1>1. IInv /\ [Next]_vars => IInv'
  BY SolveKeeps, AbortKeeps, LeaveUnthreatenedKeeps, LeaveLastDefenceKeeps, LeaveCachedKeeps,
     LeaveWithoutMovesKeeps, LeaveAtLimitKeeps, ExpandKeeps, NextReplyKeeps, LeaveKeeps,
     DeepenKeeps, SolveReturnsKeeps, StutterKeeps DEF Next
<1> QED BY <1>1, InitIsGood, PTL DEF Spec

-----------------------------------------------------------------------------
(* What follows. *)

LEMMA TableHolds == IInv => TableIsTrue /\ TableIsSound
<1> SUFFICES ASSUME IInv PROVE TableIsTrue /\ TableIsSound
  OBVIOUS
<1> DEFINE n == Size(table) \div BucketSize
<1>1. /\ IsGame(game) /\ table \in Tables /\ Kept(table)
      /\ \A i \in LiveSlots(table) : EntryTrue(game, tableAttacker, table.entries[i])
  BY Basics DEF IInv, TableInv, InOrder, Good
<1>2. TableIsTrue
  BY <1>1 DEF TableIsTrue, LiveSlots, EntryTrue
<1>3. OneEntryPerKey
  BY <1>1 DEF OneEntryPerKey, Kept, LiveSlots
<1>4. LiveIsExact
  BY <1>1 DEF LiveIsExact, Kept, LiveSlots
<1> QED BY <1>2, <1>3, <1>4 DEF TableIsSound

LEMMA AnswerHolds == IInv => AnswerIsTrue
<1> SUFFICES ASSUME IInv, phase = "idle", solves > 0 PROVE AnswerIsTrue
  BY DEF AnswerIsTrue
<1> DEFINE Mate(k) == MateWithin(game, attacker)[k]
<1>1. /\ stack = << >> /\ ReplyTrue /\ Concluded /\ Asked.pos = root /\ Asked.remaining = depth
  BY DEF IInv, VisitInv, Asked
<1>2. /\ IsGame(game) /\ limit \in 0 .. MaxPlies /\ limit \in Nat /\ depth \in Nat
      /\ (depth >= 2 => root \notin Mate(depth - 2)) /\ (depth <= limit \/ depth = 1)
      /\ MaxPlies \in Nat /\ Horizon(game) \in Nat /\ MaxPlies + 2 <= Horizon(game)
  BY Basics, MateDefined, TsumeSearchAssumption DEF IInv, CallInv
<1>3. \/ reply.status \in Aborts
      \/ depth > limit /\ reply.status = "Limit"
      \/ ~Attack(root) /\ ~game.inCheck[root] /\ reply.status = "NoMate"
      \/ depth <= limit /\ reply \in Results /\ ResultTrue(game, attacker, root, depth, reply)
  BY <1>1 DEF ReplyTrue, Unthreatened
<1>4. ASSUME reply.status = "Mate"
      PROVE  /\ root \in Mate(reply.plies) /\ reply.plies <= limit
             /\ reply.plies >= 2 => root \notin Mate(reply.plies - 2)
             /\ reply.plies > 0 => reply.move \in Mate(reply.plies - 1)
  <2>1. depth <= limit /\ reply \in Results /\ ResultTrue(game, attacker, root, depth, reply)
    BY <1>3, <1>4 DEF Aborts
  <2>2. /\ reply.plies \in Nat /\ reply.plies <= depth /\ root \in Mate(reply.plies)
        /\ reply.plies > 0 => reply.move \in Mate(reply.plies - 1)
    BY <1>4, <2>1 DEF Results, ResultTrue
  <2>3. reply.plies >= 2 => root \notin Mate(reply.plies - 2)
    <3> SUFFICES ASSUME reply.plies >= 2 PROVE root \notin Mate(reply.plies - 2)
      OBVIOUS
    <3>1. /\ depth >= 2 /\ depth - 2 \in 0 .. Horizon(game)
          /\ reply.plies - 2 \in 0 .. (depth - 2)
      BY <1>2, <2>1, <2>2
    <3>2. Mate(reply.plies - 2) \subseteq Mate(depth - 2)
      BY <1>2, <3>1, MatesGrow
    <3> QED BY <1>2, <3>1, <3>2
  <2>4. reply.plies <= limit
    BY <1>2, <2>1, <2>2
  <2> QED BY <2>2, <2>3, <2>4
<1>5. ASSUME reply.status = "NoMate"
      PROVE  root \in NeverMate(game, attacker) \/ (~Attack(root) /\ ~game.inCheck[root])
  BY <1>3, <1>5 DEF Aborts, ResultTrue
<1>6. ASSUME reply.status = "Limit"
      PROVE  limit < depth \/ (root \notin Mate(depth) /\ depth + 2 > limit)
  BY <1>1, <1>2, <1>3, <1>6 DEF Aborts, ResultTrue, Concluded
<1> QED BY <1>4, <1>5, <1>6 DEF AnswerIsTrue

(* A proof gives way only in a bucket full of proofs. *)
Spared(T, N) ==
    \A i \in 1 .. Size(T) :
        Live(T, i) /\ Proven(T.entries[i]) /\ N.entries[i].key # T.entries[i].key =>
            \A j \in Bucket(T, T.entries[i].key) : Live(T, j) /\ Proven(T.entries[j])

LEMMA StoreSpares ==
    ASSUME NEW g, IsGame(g), NEW c, NEW T, InOrder(g, c, T), Size(T) > 0,
           NEW key \in Nat, NEW remaining \in 0 .. MaxPlies,
           NEW r \in Results, ResultTrue(g, c, key, remaining, r),
           Size(StoreIn(T, key, remaining, r)) = Size(T)
    PROVE  Spared(T, StoreIn(T, key, remaining, r))
<1> DEFINE n == Size(T) \div BucketSize
           generation == T.generation
           s == FindSlot(T, key)
           e == s.table.entries[s.at]
           new == Updated(e, remaining, r)
           N == Rewritten(s.table, s.at, new)
<1>1. /\ n \in Nat /\ n > 0 /\ 2 * n \in Nat /\ T \in Good(g, c, n, generation) /\ Kept(T)
      /\ T \in Tables /\ Size(T) = n * BucketSize
  <2>1. n \in Nat /\ n > 0 /\ T \in Good(g, c, n, generation)
    BY InOrderIs DEF InOrder
  <2> HIDE DEF n, generation
  <2> QED BY <2>1 DEF Good
<1>2. BucketSize \in Nat /\ BucketSize > 0
  BY TsumeTableAssumption
<1> HIDE DEF n, generation
<1>3. s.table \in Good(g, c, n, generation) /\ SlotFor(T, key, s)
  BY <1>1, FindSlotIs
<1>4. StoreIn(T, key, remaining, r) \in {N, GrowTable(N)}
  BY DEF StoreIn, Rewritten
<1> HIDE DEF s
<1>5. /\ s.at \in LiveSlots(s.table) /\ e.key = key
      /\ s.table \in Tables /\ s.at \in 1 .. Size(s.table) /\ EntryTrue(g, c, e)
      /\ e.generation = s.table.generation
  BY <1>3 DEF SlotFor, Good, LiveSlots, Live
<1>6. e \in Entries
  BY <1>5, EntryAt
<1> HIDE DEF e
<1>7. /\ new \in Entries /\ EntryTrue(g, c, new) /\ new.key = e.key /\ new.generation = e.generation
  BY <1>5, <1>6, UpdatedIsTrue
<1> HIDE DEF new
<1>8. MayRewrite(g, c, s.table, s.at, new)
  BY <1>5, <1>7 DEF MayRewrite, e
<1>9. N \in Good(g, c, n, generation) /\ N.entries[s.at] = new /\ OnlyAt(s.at, N, s.table)
  <2> DEFINE U == s.table
             at == s.at
  <2>1. U \in Good(g, c, n, generation) /\ MayRewrite(g, c, U, at, new)
    BY <1>3, <1>8
  <2> HIDE DEF U, at
  <2>2. /\ Rewritten(U, at, new) \in Good(g, c, n, generation)
        /\ Rewritten(U, at, new).entries[at] = new /\ OnlyAt(at, Rewritten(U, at, new), U)
    BY <1>1, <2>1, RewriteKeeps
  <2> QED BY <2>2 DEF U, at
<1> HIDE DEF N
<1>10. StoreIn(T, key, remaining, r) = N
  <2>1. GrowTable(N) \in Good(g, c, 2 * n, generation)
    BY <1>1, <1>9, GrowthKeeps
  <2>2. Size(GrowTable(N)) = (2 * n) * BucketSize
    BY <2>1 DEF Good
  <2>3. (2 * n) * BucketSize # n * BucketSize
    <3>1. n * BucketSize \in Nat /\ n * BucketSize > 0
      BY <1>1, <1>2
    <3>2. (2 * n) * BucketSize = n * BucketSize + n * BucketSize
      BY <1>1, <1>2
    <3> QED BY <3>1, <3>2
  <2> QED BY <1>1, <1>4, <2>2, <2>3
<1> SUFFICES ASSUME NEW i \in 1 .. Size(T), Live(T, i), Proven(T.entries[i]),
                    N.entries[i].key # T.entries[i].key,
                    NEW j \in Bucket(T, T.entries[i].key)
             PROVE  Live(T, j) /\ Proven(T.entries[j])
  BY <1>10 DEF Spared
<1>11. /\ Size(s.table) = Size(T) /\ s.at \in Bucket(T, key) /\ OnlyAt(s.at, s.table, T)
       /\ \/ Holders(T, key) # {} /\ s.table = T
          \/ Holders(T, key) = {} /\ s.at = Victim(T, key)
       /\ s.table.entries[s.at].key = key
  BY <1>3 DEF SlotFor
<1>12. i = s.at
  BY <1>9, <1>11 DEF OnlyAt
<1>13. s.at = Victim(T, key)
  <2>1. N.entries[i].key = key
    BY <1>5, <1>7, <1>9, <1>12
  <2> QED BY <1>11, <1>12, <2>1
<1>14. i \in LiveSlots(T) /\ i \in Bucket(T, T.entries[i].key) /\ T.entries[i].key \in Nat
  <2>1. T.entries[i] \in Entries
    BY <1>1, EntryAt
  <2> QED BY <1>1, <2>1, EntryFieldsAre DEF Kept, LiveSlots
<1>15. Bucket(T, T.entries[i].key) = Bucket(T, key) /\ Bucket(T, key) \subseteq 1 .. Size(T)
  <2> DEFINE other == T.entries[i].key
  <2>1. other \in Nat /\ i \in Bucket(T, other) /\ i \in Bucket(T, key)
    BY <1>11, <1>12, <1>14
  <2> HIDE DEF other
  <2>2. Bucket(T, other) = Bucket(T, key) /\ Bucket(T, key) \subseteq 1 .. Size(T)
    BY <1>1, <2>1, SameBucket, BucketIs
  <2> QED BY <2>2 DEF other
<1>16. Value(T, i) = 1000
  BY <1>1, ValueIs
<1>17. Value(T, i) <= Value(T, j)
  BY <1>1, <1>12, <1>13, <1>15, VictimIs
<1>18. j \in 1 .. Size(T)
  BY <1>15
<1>19. Value(T, j) \in (-1) .. 1000
  BY <1>1, <1>18, ValueIs
<1>20. Value(T, j) = 1000
  BY <1>16, <1>17, <1>19
<1> QED BY <1>1, <1>18, <1>20, ValueIs

LEMMA PreparedSpares ==
    ASSUME NEW g, NEW c, NEW d, NEW T, InOrder(g, c, T),
           Prepared(T, c, d).generation = T.generation, Size(Prepared(T, c, d)) = Size(T)
    PROVE  Spared(T, Prepared(T, c, d))
<1>1. T.generation \in 1 .. (GenerationLimit - 1) /\ GenerationLimit \in Nat /\ GenerationLimit > 2
  BY TsumeTableAssumption DEF InOrder, Good, Tables
<1>2. CASE Size(T) = 0
  BY <1>2 DEF Spared
<1>3. CASE Size(T) # 0 /\ c = d
  BY <1>3 DEF Prepared, Spared
<1>4. CASE Size(T) # 0 /\ c # d
  <2>1. Prepared(T, c, d) = NewGeneration(T)
    BY <1>4 DEF Prepared
  <2>2. CASE (T.generation + 1) % GenerationLimit = 0
    <3>1. NewGeneration(T).generation = 1
      BY <2>2 DEF NewGeneration, NewTable
    <3>2. T.generation = 1
      BY <2>1, <3>1
    <3>3. (1 + 1) % GenerationLimit = 2
      BY <1>1
    <3> QED BY <2>2, <3>2, <3>3
  <2>3. CASE (T.generation + 1) % GenerationLimit # 0
    <3>1. T \in Tables
      BY DEF InOrder, Good
    <3>2. NewGeneration(T).generation = T.generation + 1
      BY <2>3, <3>1 DEF NewGeneration, Tables
    <3> QED BY <1>1, <2>1, <3>2
  <2> QED BY <2>2, <2>3
<1> QED BY <1>2, <1>3, <1>4

LEMMA StepSpares ==
    ASSUME IInv, [Next]_vars, table'.generation = table.generation, Size(table') = Size(table)
    PROVE  Spared(table, table')
<1>1. /\ InOrder(game, tableAttacker, table) /\ IsGame(game) /\ tableAttacker = attacker
      /\ phase # "idle" => Size(table) > 0
  BY Basics DEF IInv, TableInv, CallInv
<1>2. CASE table' = table
  BY <1>2 DEF Spared
<1>3. ASSUME NEW key \in Nat, NEW remaining \in 0 .. MaxPlies, NEW r \in Results, phase # "idle",
             ResultTrue(game, attacker, key, remaining, r),
             table' = StoreIn(table, key, remaining, r)
      PROVE  Spared(table, table')
  BY <1>1, <1>3, StoreSpares
<1>4. ASSUME NEW p \in Positions, NEW color \in Colors, NEW plies \in 0 .. (MaxPlies + 1),
             Solve(p, color, plies)
      PROVE  Spared(table, table')
  <2>1. table' = Prepared(table, tableAttacker, color)
    BY <1>4 DEF Solve
  <2> QED BY <1>1, <2>1, PreparedSpares
<1>5. CASE LeaveWithoutMoves
  <2> DEFINE p == entered.pos
             n == entered.remaining
             r == Start(p)
  <2>1. /\ phase = "enter" /\ Moves(p) = << >> /\ table' = StoreIn(table, p, n, r)
    BY <1>5 DEF LeaveWithoutMoves, Searches, Entering
  <2>2. IsGame(game) /\ p \in Nat /\ n \in 0 .. MaxPlies /\ n \in Nat /\ p \in DOMAIN game.legal
    BY <2>1, Basics DEF Positions
  <2>3. r \in Results /\ ResultTrue(game, attacker, p, n, r)
    BY <2>1, <2>2, MovesAreMovesOf, BegunIsTrue
  <2> HIDE DEF p, n, r
  <2> QED BY <1>3, <2>1, <2>2, <2>3
<1>6. CASE Leave
  BY <1>2, <1>3, <1>6, LeaveStores
<1>7. CASE UNCHANGED vars
  BY <1>2, <1>7 DEF vars
<1>8. CASE \/ \E status \in Aborts : Abort(status)
           \/ LeaveUnthreatened \/ LeaveLastDefence \/ LeaveCached \/ LeaveAtLimit
           \/ Expand \/ NextReply \/ Deepen \/ SolveReturns
  BY <1>2, <1>8 DEF Abort, LeaveUnthreatened, LeaveLastDefence, LeaveCached, LeaveAtLimit,
     Expand, NextReply, Deepen, SolveReturns
<1> QED BY <1>4, <1>5, <1>6, <1>7, <1>8 DEF Next

-----------------------------------------------------------------------------
(* The theorems. *)

(* TableIsTrue holds in every reachable state: whatever the stops, the deadlines, the
   evictions, the doublings and the changes of attacker, a live entry that names a mate
   names one within the plies it says, a limit has no mate, and no mate means never. *)
THEOREM TheTableIsTrue == Spec => []TableIsTrue
<1> QED BY Inductive, TableHolds, PTL

(* TableIsSound holds in every reachable state: a key has one live entry, and
   live_entries_ counts the live entries, however the table fills, evicts and grows. *)
THEOREM TheTableIsSound == Spec => []TableIsSound
<1> QED BY Inductive, TableHolds, PTL

(* AnswerIsTrue holds in every reachable state: what solve returns is what the rules
   say, with the depth that iterative deepening promises. *)
THEOREM TheAnswerIsTrue == Spec => []AnswerIsTrue
<1> QED BY Inductive, AnswerHolds, PTL

(* ProofsStay holds of every step: find_slot gives up a proof only when its bucket holds
   nothing else. *)
THEOREM ProofsAreKept == Spec => ProofsStay
<1>1. IInv /\ [Next]_vars =>
        [table'.generation = table.generation /\ Size(table') = Size(table) =>
            \A i \in 1 .. Size(table) :
                Live(table, i) /\ Proven(table.entries[i])
                /\ table'.entries[i].key # table.entries[i].key =>
                    \A j \in Bucket(table, table.entries[i].key) :
                        Live(table, j) /\ Proven(table.entries[j])]_vars
  BY StepSpares DEF Spared
<1> QED BY <1>1, Inductive, PTL DEF Spec, ProofsStay

-----------------------------------------------------------------------------
(* visit_parallel (TsumeParallel), for every set of workers, number of replies
   and length of mate. *)

LEMMA CountIsPositive == ASSUME VisitTypeOK PROVE count \in Nat /\ count >= 1
<1>1. count \in 1 .. MaxMoves
  BY DEF VisitTypeOK
<1>2. MaxMoves \in Nat
  BY ParallelAssumption
<1> QED BY <1>1, <1>2

LEMMA Numbers ==
    ASSUME VisitTypeOK
    PROVE  /\ count \in Nat /\ count >= 1 /\ taken \in Nat /\ taken <= count
           /\ cutoff \in Nat /\ cutoff <= count /\ added \in Nat /\ added <= count
           /\ \A w \in Workers : /\ index[w] \in Nat /\ index[w] < count
                                 /\ previous[w] \in Nat /\ previous[w] <= count
<1>1. taken \in 0 .. count /\ cutoff \in 0 .. count /\ added \in 0 .. count
  BY DEF VisitTypeOK
<1>2. \A w \in Workers : index[w] \in 0 .. (count - 1) /\ previous[w] \in 0 .. count
  BY DEF VisitTypeOK, Indices
<1> QED BY <1>1, <1>2, CountIsPositive

LEMMA RepliesTyped ==
    ASSUME VisitTypeOK
    PROVE  /\ FoundType \subseteq ReplyType /\ Unset \in ReplyType
           /\ \A s \in Aborts : Replied(s, 0) \in ReplyType
<1>1. 0 \in 0 .. MaxReplyPlies
  BY ParallelAssumption
<1> QED BY <1>1 DEF FoundType, ReplyType, Unset, Replied, Statuses

LEMMA InitParallelInv == VisitInit => ParallelInv
<1> SUFFICES ASSUME VisitInit PROVE ParallelInv
  OBVIOUS
<1> USE ParallelAssumption DEF VisitInit, Indices
<1>1. VisitTypeOK
  <2>1. Unset \in ReplyType
    BY DEF Unset, Replied, Statuses, ReplyType
  <2>2. total \in ResultType
    BY DEF NoneAdded, Result, Statuses, ResultType
  <2>3. count \in Nat /\ 0 \in 0 .. count /\ count \in 0 .. count /\ 0 \in Indices
    OBVIOUS
  <2>4. replies \in [Indices -> ReplyType] /\ index \in [Workers -> Indices]
    BY <2>1, <2>3
  <2> QED BY <2>2, <2>3, <2>4 DEF VisitTypeOK
<1>2. PoolInv /\ RepliesInv /\ CutoffInv
  BY DEF PoolInv, InWork, RepliesInv, CutoffInv
<1>3. SumInv
  <2>1. total.status \notin Aborts
    BY DEF NoneAdded, Result, Aborts
  <2>2. Prefix(0, NoneAdded)
    <3>1. 0 .. (0 - 1) = {}
      OBVIOUS
    <3> QED BY <3>1 DEF Prefix, Undecided, NoneDecides, NoneLimits
  <2> QED BY <2>1, <2>2 DEF SumInv
<1> QED BY <1>1, <1>2, <1>3 DEF ParallelInv

-----------------------------------------------------------------------------
(* The steps of a worker leave the sum alone; it has not been begun. *)

LEMMA NotAllOut ==
    ASSUME NEW w \in Workers, WorkerStep(w)
    PROVE  pc[w] # "out" /\ UNCHANGED <<attacking, count, found, added, total>>
BY DEF WorkerStep, Take, Skip, Search, CancelledByReply, Stopped, Found, LoadCutoff, LowerCutoff,
       Answer, given, totals

LEMMA TypeWorker ==
    ASSUME VisitTypeOK, NEW w \in Workers, WorkerStep(w)
    PROVE  VisitTypeOK'
<1> USE DEF VisitTypeOK, Goto, given, totals
<1>1. ASSUME NEW r \in ReplyType, NEW place \in {"take", "load cutoff"}, Answer(w, r, place)
      PROVE  VisitTypeOK'
  <2>1. replies' \in [Indices -> ReplyType]
    BY <1>1 DEF Answer
  <2>2. pc' \in [Workers -> {"take", "look", "search", "load cutoff", "lower cutoff", "out"}]
    BY <1>1 DEF Answer
  <2> QED BY <1>1, <2>1, <2>2 DEF Answer, Indices, ResultType
<1>2. CASE Take(w)
  <2> HIDE DEF VisitTypeOK
  <2>1. taken < count => taken \in Indices /\ taken + 1 \in 0 .. count
    BY Numbers DEF Indices
  <2>2. UNCHANGED <<attacking, count, found, previous, cutoff, replies, stopping, added, total>>
    BY <1>2 DEF Take
  <2> USE DEF VisitTypeOK
  <2>3. taken' \in 0 .. count /\ index' \in [Workers -> Indices]
    BY <1>2, <2>1 DEF Take
  <2>4. pc' \in [Workers -> {"take", "look", "search", "load cutoff", "lower cutoff", "out"}]
    BY <1>2 DEF Take
  <2> QED BY <2>2, <2>3, <2>4 DEF Indices, ResultType
<1>3. CASE Skip(w) \/ Search(w)
  BY <1>3 DEF Skip, Search, Indices, ResultType
<1>4. CASE CancelledByReply(w) \/ \E status \in Aborts : Stopped(w, status)
  <2>1. "Cancelled" \in Aborts
    BY DEF Aborts
  <2> QED BY <1>1, <1>4, <2>1, RepliesTyped DEF CancelledByReply, Stopped
<1>5. CASE Found(w)
  <2>1. found[index[w]] \in ReplyType
    BY RepliesTyped
  <2> QED BY <1>1, <1>5, <2>1 DEF Found
<1>6. CASE LoadCutoff(w)
  BY <1>6 DEF LoadCutoff, Indices, ResultType
<1>7. CASE LowerCutoff(w)
  <2> HIDE DEF VisitTypeOK
  <2>1. index[w] \in 0 .. count
    BY Numbers DEF Indices
  <2> USE DEF VisitTypeOK
  <2>2. cutoff' \in 0 .. count /\ previous' \in [Workers -> 0 .. count]
    BY <1>7, <2>1 DEF LowerCutoff
  <2>3. UNCHANGED <<attacking, count, found, taken, index, replies, stopping, added, total>>
    BY <1>7 DEF LowerCutoff
  <2>4. pc' \in [Workers -> {"take", "look", "search", "load cutoff", "lower cutoff", "out"}]
    BY <1>7 DEF LowerCutoff
  <2> QED BY <2>2, <2>3, <2>4 DEF Indices, ResultType
<1> QED BY <1>2, <1>3, <1>4, <1>5, <1>6, <1>7 DEF WorkerStep

LEMMA NumbersNext ==
    ASSUME VisitTypeOK, NEW w \in Workers, WorkerStep(w)
    PROVE  taken' \in Nat /\ cutoff' \in Nat
<1>1. taken' \in 0 .. count' /\ cutoff' \in 0 .. count'
  BY TypeWorker DEF VisitTypeOK
<1> QED BY <1>1, NotAllOut, Numbers

LEMMA PoolWorker ==
    ASSUME VisitTypeOK, PoolInv, NEW w \in Workers, WorkerStep(w)
    PROVE  PoolInv'
<1> USE Numbers DEF Goto, given, totals
<1>1. CASE Take(w) /\ taken < count
  <2>1. /\ taken' = taken + 1 /\ index'[w] = taken /\ pc'[w] = "look"
        /\ \A u \in Workers \ {w} : index'[u] = index[u] /\ pc'[u] = pc[u]
        /\ count' = count
    BY <1>1 DEF Take, VisitTypeOK
  <2>2. /\ taken \in Nat /\ \A u \in Workers : index[u] \in Nat
        /\ \A u \in Workers \ {w} : InWork(u)' = InWork(u)
    BY <2>1 DEF InWork
  <2>3. \A u \in Workers : pc'[u] # "out"
    <3>1. \A u \in Workers : pc[u] # "out"
      BY <1>1 DEF PoolInv
    <3> QED BY <2>1, <3>1
  <2>4. \A u \in Workers \ {w} : InWork(u)' => index'[u] < taken
    BY <2>1, <2>2 DEF PoolInv
  <2>5. \A u \in Workers : InWork(u)' => index'[u] < taken'
    <3>1. \A u \in Workers \ {w} : InWork(u)' => index'[u] < taken'
      BY <2>1, <2>2, <2>4
    <3>2. index'[w] < taken'
      BY <2>1, <2>2
    <3> QED BY <3>1, <3>2
  <2>6. \A u, v \in Workers : InWork(u)' /\ InWork(v)' /\ u # v => index'[u] # index'[v]
    <3> SUFFICES ASSUME NEW u \in Workers, NEW v \in Workers, InWork(u)', InWork(v)', u # v,
                        index'[u] = index'[v]
                 PROVE  FALSE
      OBVIOUS
    <3>1. CASE u = w
      BY <2>1, <2>2, <2>4, <3>1
    <3>2. CASE v = w
      BY <2>1, <2>2, <2>4, <3>2
    <3>3. CASE u # w /\ v # w
      BY <2>1, <2>2, <3>3 DEF PoolInv
    <3> QED BY <3>1, <3>2, <3>3
  <2> QED BY <2>3, <2>5, <2>6 DEF PoolInv
<1>2. CASE Take(w) /\ ~(taken < count)
  <2>1. /\ UNCHANGED <<taken, index, count>> /\ pc'[w] = "out" /\ taken = count
        /\ \A u \in Workers \ {w} : pc'[u] = pc[u]
    <3>1. taken = count
      BY <1>2
    <3> QED BY <1>2, <3>1 DEF Take, VisitTypeOK
  <2> QED BY <2>1 DEF PoolInv, InWork
<1>3. CASE ~Take(w)
  <2>1. /\ UNCHANGED <<taken, index, count>> /\ InWork(w) /\ pc'[w] # "out"
        /\ \A u \in Workers \ {w} : pc'[u] = pc[u]
    BY <1>3 DEF WorkerStep, Skip, Search, CancelledByReply, Stopped, Found, LoadCutoff,
                LowerCutoff, Answer, InWork, VisitTypeOK
  <2> QED BY <2>1 DEF PoolInv, InWork
<1> QED BY <1>1, <1>2, <1>3

(* A worker's step, as seen by the others. *)
LEMMA WorkerFrame ==
    ASSUME VisitTypeOK, NEW w \in Workers, WorkerStep(w)
    PROVE  /\ \A u \in Workers \ {w} : pc'[u] = pc[u] /\ index'[u] = index[u]
           /\ cutoff' <= cutoff /\ taken <= taken' /\ stopping' = stopping
           /\ pc[w] # "take" => index'[w] = index[w] /\ taken' = taken
           /\ pc[w] # "search" => replies' = replies
           /\ \A i \in Indices : i # index[w] => replies'[i] = replies[i]
           /\ pc[w] # "lower cutoff" => cutoff' = cutoff
<1>1. pc \in [Workers -> {"take", "look", "search", "load cutoff", "lower cutoff", "out"}]
      /\ index \in [Workers -> Indices] /\ replies \in [Indices -> ReplyType]
  BY DEF VisitTypeOK
<1>2. cutoff' <= cutoff
  <2>1. cutoff \in Nat /\ index[w] \in Nat
    BY Numbers
  <2>2. \/ cutoff' = cutoff
        \/ cutoff' = index[w] /\ index[w] < previous[w] /\ cutoff = previous[w]
    BY DEF WorkerStep, Take, Skip, Search, CancelledByReply, Stopped, Found,
                      LoadCutoff, LowerCutoff, Answer
  <2> QED BY <2>1, <2>2
<1>3. taken <= taken'
  <2>1. taken \in Nat
    BY Numbers
  <2>2. taken' = taken \/ taken' = taken + 1
    BY DEF WorkerStep, Take, Skip, Search, CancelledByReply, Stopped, Found,
                      LoadCutoff, LowerCutoff, Answer
  <2> QED BY <2>1, <2>2
<1> QED BY <1>1, <1>2, <1>3 DEF WorkerStep, Take, Skip, Search, CancelledByReply, Stopped, Found,
                                LoadCutoff, LowerCutoff, Answer, Goto

LEMMA RepliesWorker ==
    ASSUME VisitTypeOK, RepliesInv, NEW w \in Workers, WorkerStep(w)
    PROVE  RepliesInv'
<1> SUFFICES ASSUME NEW i \in Indices, i < taken'
             PROVE  \/ Busy(i)' \/ cutoff' < i \/ replies'[i] = found[i]
                    \/ replies'[i].status \in Aborts /\ stopping'
  BY NotAllOut DEF RepliesInv, Indices
<1>0. pc \in [Workers -> {"take", "look", "search", "load cutoff", "lower cutoff", "out"}]
      /\ index \in [Workers -> Indices] /\ replies \in [Indices -> ReplyType]
  BY DEF VisitTypeOK
<1>1. cutoff \in Nat /\ cutoff' \in Nat /\ taken \in Nat /\ i \in Nat
  BY Numbers, NumbersNext DEF Indices
<1>2. CASE i >= taken
  <2>0. taken' # taken
    BY <1>1, <1>2
  <2>1. pc[w] = "take" /\ Take(w)
    BY <2>0 DEF WorkerStep, Take, Skip, Search, CancelledByReply, Stopped, Found,
               LoadCutoff, LowerCutoff, Answer
  <2>2. taken' = taken + 1 /\ index'[w] = taken /\ pc'[w] = "look"
    BY <1>0, <2>0, <2>1 DEF Take, Goto
  <2> QED BY <1>1, <1>2, <2>2 DEF Busy
<1>3. CASE i < taken /\ ~(i = index[w] /\ pc[w] \in {"look", "search"})
  <2>1. Busy(i) => Busy(i)'
    BY <1>3, WorkerFrame DEF Busy
  <2>2. replies'[i] = replies[i]
    <3>1. CASE i = index[w]
      BY <1>3, <3>1, WorkerFrame
    <3>2. CASE i # index[w]
      BY <3>2, WorkerFrame
    <3> QED BY <3>1, <3>2
  <2>3. cutoff < i => cutoff' < i
    <3>1. cutoff' <= cutoff
      BY WorkerFrame
    <3> QED BY <1>1, <3>1
  <2>4. stopping' = stopping
    BY WorkerFrame
  <2> QED BY <1>3, <2>1, <2>2, <2>3, <2>4 DEF RepliesInv
<1>4. CASE i = index[w] /\ pc[w] \in {"look", "search"}
  <2>1. CASE Skip(w) \/ CancelledByReply(w)
    BY <1>4, <2>1 DEF Skip, CancelledByReply, Answer
  <2>2. CASE Search(w)
    <3>1. pc'[w] = "search" /\ index'[w] = index[w]
      BY <1>0, <2>2 DEF Search, Goto
    <3> QED BY <1>4, <3>1 DEF Busy
  <2>3. CASE \E status \in Aborts : Stopped(w, status)
    <3>1. PICK status \in Aborts : Stopped(w, status)
      BY <2>3
    <3>2. replies'[i] = Replied(status, 0) /\ stopping /\ stopping' = stopping
      BY <1>0, <1>4, <3>1 DEF Stopped, Answer
    <3>3. Replied(status, 0).status = status
      BY DEF Replied
    <3> QED BY <3>1, <3>2, <3>3
  <2>4. CASE Found(w)
    BY <1>0, <1>4, <2>4 DEF Found, Answer
  <2> QED BY <1>4, <2>1, <2>2, <2>3, <2>4
          DEF WorkerStep, Take, LoadCutoff, LowerCutoff
<1> QED BY <1>1, <1>2, <1>3, <1>4

LEMMA CutoffWorker ==
    ASSUME VisitTypeOK, PoolInv, CutoffInv, NEW w \in Workers, WorkerStep(w)
    PROVE  CutoffInv'
<1>0. pc \in [Workers -> {"take", "look", "search", "load cutoff", "lower cutoff", "out"}]
      /\ index \in [Workers -> Indices] /\ replies \in [Indices -> ReplyType]
  BY DEF VisitTypeOK
<1>1. UNCHANGED <<attacking, count, found>>
  BY NotAllOut
<1>2. ASSUME cutoff' = cutoff, cutoff < count
      PROVE  /\ cutoff < taken' /\ Decides(cutoff)' /\ ~Busy(cutoff)'
             /\ replies'[cutoff] = found[cutoff]
  <2>1. cutoff < taken /\ Decides(cutoff) /\ ~Busy(cutoff) /\ replies[cutoff] = found[cutoff]
        /\ cutoff \in Indices
    <3>1. cutoff \in Indices
      BY <1>2, Numbers DEF Indices
    <3> QED BY <1>2, <3>1 DEF CutoffInv
  <2>2. cutoff < taken'
    <3>1. taken' \in Int /\ taken \in Int /\ cutoff \in Int
      BY Numbers, NumbersNext
    <3>2. taken <= taken'
      BY WorkerFrame
    <3> QED BY <2>1, <3>1, <3>2
  <2>3. ~Busy(cutoff)'
    <3> SUFFICES ASSUME NEW u \in Workers, pc'[u] \in {"look", "search"}, index'[u] = cutoff
                 PROVE  FALSE
      BY <1>2 DEF Busy
    <3>1. u = w
      BY <2>1, WorkerFrame, ZenonT(60) DEF Busy
    <3>2. CASE Take(w)
      <4>1. index'[w] = taken
        BY <1>0, <3>1, <3>2 DEF Take, Goto
      <4> QED BY <2>1, <3>1, <4>1, Numbers
    <3>3. CASE ~Take(w)
      <4>1. pc[w] \in {"look", "search"} /\ index'[w] = index[w]
        BY <1>0, <3>1, <3>3 DEF WorkerStep, Skip, Search, CancelledByReply, Stopped, Found,
                               LoadCutoff, LowerCutoff, Answer, Goto
      <4> QED BY <2>1, <3>1, <4>1 DEF Busy
    <3> QED BY <3>2, <3>3
  <2>4. replies'[cutoff] = replies[cutoff]
    <3>1. CASE pc[w] = "search"
      BY <2>1, <3>1, WorkerFrame DEF Busy
    <3>2. CASE pc[w] # "search"
      BY <3>2, WorkerFrame
    <3> QED BY <3>1, <3>2
  <2> QED BY <1>1, <1>2, <2>1, <2>2, <2>3, <2>4 DEF Decides, Decisive
<1>3. ASSUME cutoff' # cutoff
      PROVE  /\ cutoff' < taken' /\ Decides(cutoff') /\ ~Busy(cutoff)'
             /\ replies'[cutoff'] = found[cutoff']
  <2>1. pc[w] = "lower cutoff" /\ cutoff' = index[w] /\ pc'[w] = "take"
    BY <1>0, <1>3, WorkerFrame DEF WorkerStep, Take, Skip, Search, CancelledByReply, Stopped, Found,
                                  LoadCutoff, LowerCutoff, Answer, Goto
  <2>2. Decides(index[w]) /\ replies[index[w]] = found[index[w]]
    BY <2>1 DEF CutoffInv
  <2>3. replies' = replies /\ taken' = taken
    BY <2>1, WorkerFrame
  <2>4. index[w] < taken
    BY <2>1 DEF PoolInv, InWork
  <2>5. ~Busy(cutoff)'
    <3> SUFFICES ASSUME NEW u \in Workers, pc'[u] \in {"look", "search"}, index'[u] = index[w]
                 PROVE  FALSE
      BY <2>1 DEF Busy
    <3>1. u # w
      BY <2>1
    <3>2. pc[u] \in {"look", "search"} /\ index[u] = index[w]
      BY <3>1, WorkerFrame
    <3> QED BY <2>1, <3>1, <3>2 DEF PoolInv, InWork
  <2> QED BY <2>1, <2>2, <2>3, <2>4, <2>5
<1>4. ASSUME NEW u \in Workers, pc'[u] \in {"load cutoff", "lower cutoff"}
      PROVE  Decides(index'[u]) /\ replies'[index'[u]] = found[index'[u]]
  <2>1. CASE u # w
    <3>1. pc[u] = pc'[u] /\ index'[u] = index[u] /\ index[u] \in Indices
      BY <1>0, <2>1, WorkerFrame
    <3>2. Decides(index[u]) /\ replies[index[u]] = found[index[u]]
      BY <1>4, <3>1 DEF CutoffInv
    <3>3. replies'[index[u]] = replies[index[u]]
      <4>1. CASE pc[w] # "search"
        BY <4>1, WorkerFrame
      <4>2. CASE pc[w] = "search"
        <5>1. index[u] # index[w]
          BY <1>4, <2>1, <3>1, <4>2 DEF PoolInv, InWork
        <5> QED BY <3>1, <5>1, WorkerFrame
      <4> QED BY <4>1, <4>2
    <3> QED BY <3>1, <3>2, <3>3
  <2>2. CASE u = w /\ Found(w)
    <3>1. Decisive(attacking, found[index[w]].status) /\ index' = index
          /\ replies'[index[w]] = found[index[w]]
      BY <1>0, <1>4, <2>2 DEF Found, Answer, Goto
    <3> QED BY <2>2, <3>1 DEF Decides
  <2>3. CASE u = w /\ ~Found(w)
    <3>1. pc[w] \in {"load cutoff", "lower cutoff"} /\ index' = index /\ replies' = replies
      BY <1>0, <1>4, <2>3 DEF WorkerStep, Take, Skip, Search, CancelledByReply, Stopped,
                             LoadCutoff, LowerCutoff, Answer, Goto
    <3> QED BY <2>3, <3>1 DEF CutoffInv
  <2> QED BY <2>1, <2>2, <2>3
<1>5. \A i \in Indices : Decides(i)' = Decides(i)
  BY <1>1 DEF Decides, Decisive
<1>6. cutoff' < count' => /\ cutoff' < taken' /\ Decides(cutoff') /\ ~Busy(cutoff)'
                         /\ replies'[cutoff'] = found'[cutoff']
  BY <1>1, <1>2, <1>3, Numbers DEF Decides, Decisive
<1> QED BY <1>1, <1>4, <1>6 DEF CutoffInv, Decides, Decisive

LEMMA SumWorker ==
    ASSUME VisitTypeOK, SumInv, NEW w \in Workers, WorkerStep(w)
    PROVE  SumInv'
<1>1. added = 0
  BY NotAllOut, Numbers DEF SumInv, AllOut
<1>2. UNCHANGED <<attacking, count, found, added, total>>
  BY NotAllOut
<1>3. 0 <= cutoff'
  BY NumbersNext
<1>4. Prefix(added, total) => Prefix(added, total)'
  BY <1>2 DEF Prefix, Undecided, DecidedBy, NoneDecides, NoneLimits, LastLimit, FirstLongest,
              Decides, Limits, Decisive, NoneAdded, Indices
<1>5. stopping' = stopping
  BY WorkerFrame
<1>6. added' = 0 /\ total' = total
  BY <1>1, <1>2
<1>7. total'.status \in Aborts => stopping'
  BY <1>5, <1>6 DEF SumInv
<1>8. total'.status \notin Aborts => Prefix(added, total)'
  BY <1>4, <1>6 DEF SumInv
<1> QED BY <1>3, <1>6, <1>7, <1>8 DEF SumInv

-----------------------------------------------------------------------------
(* The sum of the replies. *)

LEMMA FoundTyped ==
    ASSUME VisitTypeOK, NEW i \in Indices
    PROVE  /\ found[i].status \in Statuses /\ found[i].plies \in Nat
           /\ i \in Nat /\ i < count
<1>1. found[i] \in FoundType
  BY DEF VisitTypeOK
<1>2. found[i].plies \in 0 .. MaxReplyPlies /\ found[i].status \in Statuses
  BY <1>1 DEF FoundType
<1> QED BY <1>2, Numbers DEF Indices

LEMMA StillNoneDecides ==
    ASSUME NEW n \in Nat, NoneDecides(n), ~Decides(n)
    PROVE  NoneDecides(n + 1)
<1> SUFFICES ASSUME NEW j \in 0 .. ((n + 1) - 1) PROVE ~Decides(j)
  BY DEF NoneDecides
<1>1. j \in 0 .. (n - 1) \/ j = n
  OBVIOUS
<1> QED BY <1>1 DEF NoneDecides

LEMMA StillNoneLimits ==
    ASSUME NEW n \in Nat, NoneLimits(n), ~Limits(n)
    PROVE  NoneLimits(n + 1)
<1> SUFFICES ASSUME NEW j \in 0 .. ((n + 1) - 1) PROVE ~Limits(j)
  BY DEF NoneLimits
<1>1. j \in 0 .. (n - 1) \/ j = n
  OBVIOUS
<1> QED BY <1>1 DEF NoneLimits

LEMMA StillLastLimit ==
    ASSUME NEW n \in Nat, NEW r, NEW i \in 0 .. (n - 1), LastLimit(i, n, r), ~Limits(n)
    PROVE  LastLimit(i, n + 1, r)
<1>1. ASSUME NEW j \in (i + 1) .. ((n + 1) - 1) PROVE ~Limits(j)
  <2>1. j \in (i + 1) .. (n - 1) \/ j = n
    OBVIOUS
  <2> QED BY <2>1 DEF LastLimit
<1> QED BY <1>1 DEF LastLimit

LEMMA StillFirstLongest ==
    ASSUME NEW n \in Nat, NEW r, NEW i \in 0 .. (n - 1), FirstLongest(i, n, r),
           found[n].plies <= found[i].plies
    PROVE  FirstLongest(i, n + 1, r)
<1>1. ASSUME NEW j \in 0 .. ((n + 1) - 1) PROVE found[j].plies <= found[i].plies
  <2>1. j \in 0 .. (n - 1) \/ j = n
    OBVIOUS
  <2> QED BY <2>1 DEF FirstLongest
<1> QED BY <1>1 DEF FirstLongest

(* A reply longer than the first of the longest takes its place. *)
LEMMA NowFirstLongest ==
    ASSUME NEW n \in Nat, \A j \in 0 .. (n - 1) : found[j].plies < found[n].plies,
           found[n].plies \in Nat,
           \A j \in 0 .. (n - 1) : found[j].plies \in Nat
    PROVE  FirstLongest(n, n + 1, Result("Mate", n, found[n].plies + 1))
<1>1. ASSUME NEW j \in 0 .. ((n + 1) - 1) PROVE found[j].plies <= found[n].plies
  <2>1. j \in 0 .. (n - 1) \/ j = n
    OBVIOUS
  <2> QED BY <2>1
<1> QED BY <1>1 DEF FirstLongest

LEMMA LimitIsUndecided ==
    ASSUME NEW n, NEW r, NEW i \in 0 .. (n - 1), LastLimit(i, n, r), NoneDecides(n)
    PROVE  Undecided(n, r)
<1>1. \E k \in 0 .. (n - 1) : LastLimit(k, n, r)
  BY Zenon
<1> QED BY <1>1, Zenon DEF Undecided

LEMMA PrefixStep ==
    ASSUME VisitTypeOK, added < count, Prefix(added, total), ~Decisive(attacking, total.status),
           replies[added] = found[added]
    PROVE  /\ Prefix(added + 1, Accumulated(added)) /\ Accumulated(added).status \notin Aborts
           /\ Decides(added) => Decisive(attacking, Accumulated(added).status)
<1> DEFINE n == added
           r == total
           f == found[n]
<1>0. n \in Nat /\ n \in Indices /\ count \in Nat
  BY Numbers DEF Indices
<1>1. f.status \in Statuses /\ f.plies \in Nat
  BY <1>0, FoundTyped
<1>2. f.status \notin Aborts
  BY <1>1 DEF Statuses, Aborts
<1>3. Undecided(n, r)
  <2>1. ~\E i \in Indices : DecidedBy(i, r)
    BY DEF DecidedBy, Decides, Result
  <2> QED BY <2>1 DEF Prefix
<1>4. \A i \in 0 .. n : i \in 0 .. ((n + 1) - 1)
  BY <1>0
<1>5. CASE Decides(n)
  <2>1. Accumulated(n) = Result(f.status, n, f.plies + 1)
    BY <1>2, <1>5 DEF Accumulated, Decides
  <2>2. DecidedBy(n, Accumulated(n))
    BY <1>3, <1>5, <2>1 DEF DecidedBy, Undecided, NoneDecides
  <2>3. Prefix(n + 1, Accumulated(n))
    BY <1>0, <2>2 DEF Prefix
  <2> QED BY <1>2, <1>5, <2>1, <2>3 DEF Result, Decides
<1>6. CASE Limits(n)
  <2>1. ~Decides(n)
    BY <1>6 DEF Limits, Decides, Decisive
  <2>2. Accumulated(n) = Result("Limit", n, 0)
    BY <1>2, <1>6, <2>1 DEF Accumulated, Decides, Limits
  <2>3. NoneDecides(n + 1)
    <3>1. NoneDecides(n)
      BY <1>3 DEF Undecided
    <3> QED BY ONLY <1>0, <2>1, <3>1, StillNoneDecides
  <2>4. n \in 0 .. ((n + 1) - 1) /\ (n + 1) .. (n + 1 - 1) = {}
    BY <1>0
  <2>5. LastLimit(n, n + 1, Accumulated(n))
    BY <1>6, <2>2, <2>4 DEF LastLimit
  <2>6. Prefix(n + 1, Accumulated(n))
    BY <2>3, <2>4, <2>5 DEF Prefix, Undecided
  <2> QED BY <2>1, <2>2, <2>6 DEF Result, Aborts
<1>7. CASE ~Decides(n) /\ ~Limits(n)
  <2>0. NoneDecides(n + 1)
    <3>1. NoneDecides(n)
      BY <1>3 DEF Undecided
    <3> QED BY ONLY <1>0, <1>7, <3>1, StillNoneDecides
  <2>1. Accumulated(n) = IF ~attacking /\ r.status = "Mate" /\ f.plies + 1 > r.plies
                         THEN Result("Mate", n, f.plies + 1) ELSE r
    BY <1>2, <1>7 DEF Accumulated, Decides, Limits
  <2>2. ASSUME NEW i \in 0 .. (n - 1), LastLimit(i, n, r)
        PROVE  Prefix(n + 1, Accumulated(n)) /\ Accumulated(n).status \notin Aborts
    <3>1. Accumulated(n) = r /\ r.status = "Limit"
      BY <2>1, <2>2 DEF Result, LastLimit
    <3>2. i \in 0 .. ((n + 1) - 1)
      BY <1>0
    <3>4. LastLimit(i, n + 1, r)
      BY <1>0, <1>7, <2>2, StillLastLimit
    <3>5. Undecided(n + 1, r)
      BY <2>0, <3>2, <3>4, LimitIsUndecided
    <3> QED BY <3>1, <3>5 DEF Aborts, Prefix
  <2>3. NoneLimits(n) => NoneLimits(n + 1)
    BY ONLY <1>0, <1>7, StillNoneLimits
  <2>4. CASE NoneLimits(n) /\ attacking /\ r = NoneAdded
    <3>1. Accumulated(n) = NoneAdded
      BY <2>1, <2>4
    <3>2. Prefix(n + 1, NoneAdded)
      BY <2>0, <2>3, <2>4 DEF Prefix, Undecided
    <3> QED BY <1>7, <3>1, <3>2 DEF NoneAdded, Result, Aborts
  <2>5. CASE NoneLimits(n) /\ ~attacking /\ n = 0 /\ r = NoneAdded
    <3>1. Accumulated(n) = Result("Mate", 0, f.plies + 1)
      BY <1>1, <2>1, <2>5 DEF NoneAdded, Result
    <3>2. \A j \in 0 .. ((0 + 1) - 1) : j = 0
      OBVIOUS
    <3>3. 0 \in 0 .. ((0 + 1) - 1) /\ 0 .. (0 - 1) = {}
      OBVIOUS
    <3>4. f.plies <= f.plies
      BY <1>1
    <3>5. FirstLongest(0, 0 + 1, Accumulated(n))
      BY <2>5, <3>1, <3>2, <3>3, <3>4 DEF FirstLongest
    <3>6. Prefix(0 + 1, Accumulated(n))
      BY <2>0, <2>3, <2>5, <3>3, <3>5 DEF Prefix, Undecided
    <3> QED BY <1>7, <2>5, <3>1, <3>6 DEF Result, Aborts
  <2>6. ASSUME NoneLimits(n), ~attacking, NEW i \in 0 .. (n - 1), FirstLongest(i, n, r)
        PROVE  Prefix(n + 1, Accumulated(n)) /\ Accumulated(n).status \notin Aborts
    <3>1. \A j \in 0 .. n : found[j].plies \in Nat
      <4>1. \A j \in 0 .. n : j \in Indices
        BY <1>0 DEF Indices
      <4> QED BY <4>1, FoundTyped
    <3>2. i \in Nat /\ i < n /\ i \in 0 .. n /\ n \in 0 .. n /\ found[i].plies \in Nat
      BY <1>0, <3>1
    <3>3. r.status = "Mate" /\ r.plies = found[i].plies + 1
      BY <2>6 DEF FirstLongest, Result
    <3>4. CASE f.plies > found[i].plies
      <4>1. Accumulated(n) = Result("Mate", n, f.plies + 1)
        BY <1>1, <2>1, <2>6, <3>2, <3>3, <3>4
      <4>2. ASSUME NEW j \in 0 .. (n - 1) PROVE found[j].plies < f.plies
        <5>1. found[j].plies <= found[i].plies
          BY <2>6 DEF FirstLongest
        <5>2. found[j].plies \in Nat
          BY <1>0, <3>1
        <5> QED BY <1>1, <3>2, <3>4, <5>1, <5>2
      <4>3. \A j \in 0 .. (n - 1) : found[j].plies \in Nat
        BY <1>0, <3>1
      <4>4. FirstLongest(n, n + 1, Accumulated(n))
        BY <1>0, <1>1, <4>1, <4>2, <4>3, NowFirstLongest
      <4>5. Undecided(n + 1, Accumulated(n))
        BY <1>4, <2>0, <2>3, <2>6, <3>2, <4>4 DEF Undecided
      <4> QED BY <4>1, <4>5 DEF Result, Aborts, Prefix
    <3>5. CASE ~(f.plies > found[i].plies)
      <4>1. Accumulated(n) = r
        BY <1>1, <2>1, <3>2, <3>3, <3>5
      <4>2. f.plies <= found[i].plies
        BY <1>1, <3>2, <3>5
      <4>4. FirstLongest(i, n + 1, r)
        BY <1>0, <2>6, <4>2, StillFirstLongest
      <4>5. Undecided(n + 1, r)
        BY <1>4, <2>0, <2>3, <2>6, <3>2, <4>4 DEF Undecided
      <4> QED BY <3>3, <4>1, <4>5 DEF Aborts, Prefix
    <3> QED BY <3>4, <3>5
  <2> QED BY <1>3, <1>7, <2>2, <2>4, <2>5, <2>6 DEF Undecided
<1> QED BY <1>5, <1>6, <1>7

LEMMA AddReplyStep ==
    ASSUME ParallelInv, AddReply
    PROVE  ParallelInv'
<1> USE DEF ParallelInv
<1>1. /\ UNCHANGED <<attacking, count, found, taken, pc, index, previous, cutoff, replies, stopping>>
      /\ AllOut /\ added < count /\ total' = Accumulated(added) /\ added' = added + 1
      /\ total.status \notin Aborts /\ ~Decisive(attacking, total.status)
  BY Numbers DEF AddReply, given, Ended
<1>2. added \in Indices /\ added \in Nat /\ added <= cutoff /\ cutoff \in Nat /\ count \in Nat
      /\ added + 1 \in 0 .. count
  BY <1>1, Numbers DEF SumInv, Indices
<1>3. taken = count /\ ~Busy(added)
  <2>1. PICK w \in Workers : TRUE
    BY ParallelAssumption
  <2> QED BY <1>1, <2>1 DEF AllOut, PoolInv, Busy
<1>4. replies[added] = found[added] \/ (replies[added].status \in Aborts /\ stopping)
  <2>1. ~(cutoff < added)
    BY <1>2
  <2> QED BY <1>1, <1>2, <1>3, <2>1 DEF RepliesInv
<1>5. PoolInv' /\ RepliesInv' /\ CutoffInv'
  BY <1>1 DEF PoolInv, InWork, RepliesInv, Busy, CutoffInv, Decides, Decisive, Indices
<1>6. total' \in ResultType
  <2>1. replies[added] \in ReplyType
    BY <1>2 DEF VisitTypeOK
  <2>2. replies[added].status \in Statuses \cup Aborts /\ replies[added].plies \in 0 .. MaxReplyPlies
    BY <2>1 DEF ReplyType
  <2>3. 0 \in 0 .. (MaxReplyPlies + 1) /\ replies[added].plies + 1 \in 0 .. (MaxReplyPlies + 1)
    BY <2>2, ParallelAssumption
  <2>4. {"Mate", "Limit"} \subseteq Statuses
    BY DEF Statuses
  <2>5. total \in ResultType
    BY DEF VisitTypeOK
  <2> QED BY <1>1, <1>2, <2>2, <2>3, <2>4, <2>5 DEF Accumulated, Result, ResultType
<1>7. VisitTypeOK'
  <2>1. added' \in 0 .. count
    BY <1>1, <1>2
  <2> QED BY <1>1, <1>6, <2>1 DEF VisitTypeOK, Indices, ResultType
<1>8. CASE replies[added] = found[added]
  <2>1. /\ Prefix(added + 1, Accumulated(added)) /\ Accumulated(added).status \notin Aborts
        /\ Decides(added) => Decisive(attacking, Accumulated(added).status)
    BY <1>1, <1>2, <1>8, PrefixStep DEF SumInv
  <2>2. Prefix(added, total)'
    BY <1>1, <2>1 DEF Prefix, Undecided, DecidedBy, NoneDecides, NoneLimits, LastLimit,
                      FirstLongest, Decides, Limits, Decisive, NoneAdded, Indices
  <2>3. Decisive(attacking, total.status)' \/ added' <= cutoff'
    <3>1. CASE Decides(added)
      BY <1>1, <2>1, <3>1 DEF Decisive
    <3>2. CASE ~Decides(added)
      <4>1. added # cutoff
        BY <1>1, <3>2 DEF CutoffInv
      <4> QED BY <1>1, <1>2, <4>1
    <3> QED BY <3>1, <3>2
  <2>4. AllOut'
    BY <1>1 DEF AllOut
  <2> QED BY <1>1, <1>5, <1>7, <2>1, <2>2, <2>3, <2>4 DEF SumInv
<1>9. CASE replies[added].status \in Aborts /\ stopping
  <2>1. total'.status \in Aborts /\ stopping'
    BY <1>1, <1>9 DEF Accumulated, Result
  <2>2. AllOut'
    BY <1>1 DEF AllOut
  <2> QED BY <1>5, <1>7, <2>1, <2>2 DEF SumInv
<1> QED BY <1>4, <1>8, <1>9

-----------------------------------------------------------------------------
LEMMA NextParallelInv == ParallelInv /\ [VisitNext]_visitVars => ParallelInv'
<1> SUFFICES ASSUME ParallelInv, [VisitNext]_visitVars PROVE ParallelInv'
  OBVIOUS
<1>1. ASSUME NEW w \in Workers, WorkerStep(w) PROVE ParallelInv'
  BY <1>1, TypeWorker, PoolWorker, RepliesWorker, CutoffWorker, SumWorker DEF ParallelInv
<1>2. CASE StopSearch
  <2>1. VisitTypeOK'
    BY <1>2 DEF StopSearch, ParallelInv, VisitTypeOK, given, totals, Indices, ResultType
  <2>2. PoolInv' /\ RepliesInv' /\ CutoffInv'
    BY <1>2, ZenonT(60) DEF StopSearch, ParallelInv, given, totals, PoolInv, InWork, RepliesInv, Busy, CutoffInv, Decides,
                Decisive, Indices
  <2>3. SumInv'
    BY <1>2 DEF StopSearch, ParallelInv, given, totals, SumInv, AllOut, Prefix, Undecided, DecidedBy,
                NoneDecides, NoneLimits, LastLimit, FirstLongest, Decides, Limits, Decisive, NoneAdded,
                Indices
  <2> QED BY <2>1, <2>2, <2>3 DEF ParallelInv
<1>3. CASE AddReply
  BY <1>3, AddReplyStep
<1>4. CASE UNCHANGED visitVars
  <2>1. VisitTypeOK'
    BY <1>4 DEF visitVars, ParallelInv, VisitTypeOK, Indices, ResultType
  <2>2. PoolInv' /\ RepliesInv' /\ CutoffInv'
    BY <1>4 DEF visitVars, ParallelInv, PoolInv, InWork, RepliesInv, Busy, CutoffInv, Decides, Decisive, Indices
  <2>3. SumInv'
    BY <1>4 DEF visitVars, ParallelInv, SumInv, AllOut, Prefix, Undecided, DecidedBy, NoneDecides, NoneLimits,
                LastLimit, FirstLongest, Decides, Limits, Decisive, NoneAdded, Indices
  <2> QED BY <2>1, <2>2, <2>3 DEF ParallelInv
<1> QED BY <1>1, <1>2, <1>3, <1>4 DEF VisitNext

THEOREM ParallelInvariance == VisitSpec => []ParallelInv
BY InitParallelInv, NextParallelInv, PTL DEF VisitSpec

(* However many workers race over however many replies, the position gets the
   verdict, the move and the length that one thread would have given it. *)
THEOREM ParallelIsSequential == VisitSpec => []SameAsSequential
<1>1. ParallelInv => SameAsSequential
  <2> SUFFICES ASSUME ParallelInv, Returned, total.status \notin Aborts PROVE Sequential(total)
    BY DEF SameAsSequential
  <2>1. Prefix(added, total)
    BY DEF ParallelInv, SumInv
  <2>2. CASE \E i \in Indices : DecidedBy(i, total)
    BY <2>2 DEF Sequential
  <2>3. CASE ~\E i \in Indices : DecidedBy(i, total)
    <3>1. Undecided(added, total)
      BY <2>1, <2>3 DEF Prefix
    <3>2. ~Decisive(attacking, total.status)
      BY <3>1 DEF Undecided, LastLimit, FirstLongest, NoneAdded, Result, Decisive
    <3>3. added = count
      BY <3>2 DEF Returned, Ended
    <3> QED BY <3>1, <3>3 DEF Sequential
  <2> QED BY <2>2, <2>3
<1> QED BY <1>1, ParallelInvariance, PTL

(* Cancelling a reply because an earlier one decides never aborts the position. *)
THEOREM AbortsAreStops == VisitSpec => []OnlyStopsAbort
<1>1. ParallelInv => OnlyStopsAbort
  BY DEF ParallelInv, SumInv, OnlyStopsAbort
<1> QED BY <1>1, ParallelInvariance, PTL

(* The shared cutoff only falls, and only to a reply that decides. *)
THEOREM CutoffOnlyFalls == VisitSpec => CutoffFalls
<1>1. ASSUME ParallelInv, [VisitNext]_visitVars, cutoff' # cutoff
      PROVE  cutoff' < cutoff /\ Decides(cutoff')
  <2>1. PICK w \in Workers : WorkerStep(w)
    BY <1>1 DEF VisitNext, StopSearch, AddReply, visitVars, given
  <2>2. /\ pc[w] = "lower cutoff" /\ cutoff' = index[w] /\ index[w] < previous[w]
        /\ cutoff = previous[w]
    BY <1>1, <2>1 DEF WorkerStep, Take, Skip, Search, CancelledByReply, Stopped, Found,
                      LoadCutoff, LowerCutoff, Answer
  <2> QED BY <1>1, <2>2 DEF ParallelInv, CutoffInv
<1>2. ParallelInv /\ [VisitNext]_visitVars => [cutoff' # cutoff => cutoff' < cutoff /\ Decides(cutoff')]_visitVars
  BY <1>1
<1> QED BY <1>2, ParallelInvariance, PTL DEF VisitSpec, CutoffFalls
=============================================================================
