---------------------------- MODULE FoldTheorems ----------------------------
(***************************************************************************)
(* What proofs need of induction and of the folds of the community         *)
(* modules.  The library's theorems of induction are about operators, which *)
(* no prover here can instantiate; these are about sets, and about a step   *)
(* that is a constant of this module: an instance names the step it is for. *)
(***************************************************************************)
EXTENDS Integers, FiniteSets, FiniteSetTheorems, WellFoundedInduction, TLAPS

CONSTANT Step(_, _)   \* what there is so far, and an element

-----------------------------------------------------------------------------
(* Induction: a set of numbers, and a set of subsets of a finite set. *)
Less == {p \in Nat \X Nat : p[1] < p[2]}

LEMMA LeastElement ==
    ASSUME NEW T, T \subseteq Nat, T # {}
    PROVE  \E n \in T : \A k \in T : n <= k
<1>1. OpToRel(<, Nat) = Less
  BY DEF OpToRel, Less
<1>2. IsWellFoundedOn(Less, Nat)
  BY <1>1, NatLessThanWellFounded
<1>3. PICK n \in T : \A k \in T : <<k, n>> \notin Less
  BY <1>2, WFMin
<1>4. ASSUME NEW k \in T PROVE n <= k
  <2>1. n \in Nat /\ k \in Nat /\ <<k, n>> \notin Less
    BY <1>3
  <2> QED BY <2>1 DEF Less
<1> QED BY <1>4

LEMMA Induction ==
    ASSUME NEW A, 0 \in A, \A n \in Nat : n \in A => n + 1 \in A
    PROVE  Nat \subseteq A
<1> SUFFICES ASSUME Nat \ A # {} PROVE FALSE
  OBVIOUS
<1>1. PICK n \in Nat \ A : \A k \in Nat \ A : n <= k
  BY LeastElement
<1>2. n - 1 \in A
  BY <1>1
<1> QED BY <1>1, <1>2

LEMMA SubsetInduction ==
    ASSUME NEW S, IsFiniteSet(S), NEW A, {} \in A,
           \A s \in SUBSET S : s # {} /\ (\A x \in s : s \ {x} \in A) => s \in A
    PROVE  SUBSET S \subseteq A
<1> DEFINE B == {n \in Nat : \A s \in SUBSET S : Cardinality(s) = n => s \in A}
<1>1. \A s \in SUBSET S : IsFiniteSet(s) /\ Cardinality(s) \in Nat
  BY FS_Subset, FS_CardinalityType
<1>2. 0 \in B
  BY <1>1, FS_EmptySet
<1>3. ASSUME NEW n \in Nat, n \in B PROVE n + 1 \in B
  <2> SUFFICES ASSUME NEW s \in SUBSET S, Cardinality(s) = n + 1 PROVE s \in A
    OBVIOUS
  <2>1. s # {}
    BY <1>1, FS_EmptySet
  <2>2. ASSUME NEW x \in s PROVE s \ {x} \in A
    <3>1. Cardinality(s \ {x}) = n
      BY <1>1, FS_RemoveElement
    <3> QED BY <1>3, <3>1
  <2> QED BY <2>1, <2>2
<1> HIDE DEF B
<1>4. Nat \subseteq B
  BY <1>2, <1>3, Induction
<1> QED BY <1>1, <1>4 DEF B

(* A fold over the subsets of a finite set, each from the smaller subset that a
   choice leaves, is a function there is. *)
IsFold(g, S, base, choice, of) ==
    g = [s \in SUBSET S |-> IF s = {} THEN base ELSE Step(g[s \ {choice[s]}], of[choice[s]])]

LEMMA FoldExists ==
    ASSUME NEW S, IsFiniteSet(S), NEW base, NEW choice, NEW of,
           \A s \in SUBSET S : s # {} => choice[s] \in s
    PROVE  \E g : IsFold(g, S, base, choice, of)
<1> DEFINE Small(n) == {s \in SUBSET S : Cardinality(s) <= n}
           Fold(n, g) == g = [s \in Small(n) |-> IF s = {} THEN base
                                                 ELSE Step(g[s \ {choice[s]}], of[choice[s]])]
           B == {n \in Nat : \E g : Fold(n, g)}
<1>1. \A s \in SUBSET S : IsFiniteSet(s) /\ Cardinality(s) \in Nat /\ (Cardinality(s) = 0 <=> s = {})
  BY FS_Subset, FS_CardinalityType, FS_EmptySet
<1>2. 0 \in B
  <2> DEFINE g == [s \in Small(0) |-> base]
  <2>1. \A s \in Small(0) : s = {}
    BY <1>1
  <2> HIDE DEF Small
  <2>2. Fold(0, g)
    BY <2>1
  <2> QED BY <2>2
<1>3. ASSUME NEW n \in Nat, n \in B PROVE n + 1 \in B
  <2>1. PICK g : Fold(n, g)
    BY <1>3
  <2> DEFINE h == [s \in Small(n + 1) |-> IF s = {} THEN base ELSE Step(g[s \ {choice[s]}], of[choice[s]])]
  <2>2. Small(n) \subseteq Small(n + 1)
    BY <1>1
  <2>3. ASSUME NEW s \in Small(n + 1), s # {} PROVE s \ {choice[s]} \in Small(n)
    <3>1. choice[s] \in s
      BY <2>3
    <3>2. Cardinality(s \ {choice[s]}) = Cardinality(s) - 1
      BY <1>1, <3>1, FS_RemoveElement
    <3> QED BY <1>1, <3>2
  <2> HIDE DEF Small
  <2>4. \A s \in Small(n) : h[s] = g[s]
    BY <2>1, <2>2
  <2>5. Fold(n + 1, h)
    BY <2>3, <2>4
  <2> HIDE DEF h, Fold
  <2>6. \E f : Fold(n + 1, f)
    BY <2>5
  <2> QED BY <2>6
<1> HIDE DEF B
<1>4. Cardinality(S) \in B
  BY <1>2, <1>3, Induction, FS_CardinalityType
<1>5. PICK g : Fold(Cardinality(S), g)
  BY <1>4 DEF B
<1>6. Small(Cardinality(S)) = SUBSET S
  BY FS_Subset
<1> HIDE DEF Small
<1>7. IsFold(g, S, base, choice, of)
  BY <1>5, <1>6 DEF IsFold
<1> HIDE DEF Fold
<1> QED BY <1>7

-----------------------------------------------------------------------------
(* A fold over a sequence goes from its first element to its last. *)
Greatest(s) == CHOOSE x \in s : \A y \in s : x >= y

LEMMA LastOf ==
    ASSUME NEW i \in Nat, i > 0
    PROVE  Greatest(1 .. i) = i /\ (1 .. i) \ {i} = 1 .. (i - 1)
<1>1. i \in 1 .. i /\ \A y \in 1 .. i : i >= y
  OBVIOUS
<1>2. \A x \in 1 .. i : (\A y \in 1 .. i : x >= y) => x = i
  BY <1>1
<1> QED BY <1>1, <1>2 DEF Greatest

IsLeftFold(g, n, base, of) ==
    g = [s \in SUBSET (1 .. n) |-> IF s = {} THEN base ELSE Step(g[s \ {Greatest(s)}], of[Greatest(s)])]

(* r[i] is what the first i elements have made of the base. *)
IsRun(r, n, base, of) ==
    /\ r[0] = base
    /\ \A i \in 1 .. n : r[i] = Step(r[i - 1], of[i])

LEMMA LargestElement ==
    ASSUME NEW n \in Nat
    PROVE  \A s \in SUBSET (1 .. n) : s # {} => Greatest(s) \in s
<1> SUFFICES ASSUME NEW s \in SUBSET (1 .. n), s # {} PROVE Greatest(s) \in s
  OBVIOUS
<1> DEFINE T == {k \in 0 .. n : n - k \in s}
<1>1. T \subseteq Nat /\ T # {}
  <2>1. PICK x : x \in s
    OBVIOUS
  <2>2. n - x \in T
    BY <2>1
  <2> QED BY <2>2
<1>2. PICK k \in T : \A j \in T : k <= j
  <2> HIDE DEF T
  <2> QED BY <1>1, LeastElement
<1>3. \A y \in s : n - y \in T
  OBVIOUS
<1>4. n - k \in s /\ \A y \in s : n - k >= y
  BY <1>2, <1>3
<1> QED BY <1>4 DEF Greatest

LEMMA LeftFoldExists ==
    ASSUME NEW n \in Nat, NEW base, NEW of
    PROVE  \E g : IsLeftFold(g, n, base, of)
<1> DEFINE choice == [s \in SUBSET (1 .. n) |-> Greatest(s)]
<1>1. \A s \in SUBSET (1 .. n) : choice[s] = Greatest(s)
  OBVIOUS
<1>2. \A s \in SUBSET (1 .. n) : s # {} => choice[s] \in s
  BY <1>1, LargestElement
<1> HIDE DEF choice
<1>3. IsFiniteSet(1 .. n)
  BY FS_Interval
<1>4. PICK g : IsFold(g, 1 .. n, base, choice, of)
  BY <1>2, <1>3, FoldExists
<1>5. ASSUME NEW s \in SUBSET (1 .. n)
      PROVE  Step(g[s \ {choice[s]}], of[choice[s]]) = Step(g[s \ {Greatest(s)}], of[Greatest(s)])
  BY <1>1
<1>6. IsLeftFold(g, n, base, of)
  BY <1>4, <1>5 DEF IsFold, IsLeftFold
<1> QED BY <1>6

LEMMA LeftFoldRuns ==
    ASSUME NEW n \in Nat, NEW base, NEW of, NEW g, IsLeftFold(g, n, base, of)
    PROVE  \E r : IsRun(r, n, base, of) /\ r[n] = g[1 .. n]
<1> DEFINE r == [i \in 0 .. n |-> g[1 .. i]]
<1>1. r[0] = base
  <2>1. 1 .. 0 = {}
    OBVIOUS
  <2>2. g[{}] = base
    BY DEF IsLeftFold
  <2> QED BY <2>1, <2>2
<1>2. ASSUME NEW i \in 1 .. n PROVE r[i] = Step(r[i - 1], of[i])
  <2>1. 1 .. i \in SUBSET (1 .. n) /\ 1 .. i # {} /\ i \in Nat /\ i > 0 /\ i - 1 \in 0 .. n /\ i \in 0 .. n
    OBVIOUS
  <2>2. g[1 .. i] = Step(g[(1 .. i) \ {Greatest(1 .. i)}], of[Greatest(1 .. i)])
    BY <2>1 DEF IsLeftFold
  <2>3. Greatest(1 .. i) = i /\ (1 .. i) \ {i} = 1 .. (i - 1)
    BY <2>1, LastOf
  <2> QED BY <2>1, <2>2, <2>3
<1>3. r[n] = g[1 .. n]
  OBVIOUS
<1> HIDE DEF r
<1>4. IsRun(r, n, base, of)
  BY <1>1, <1>2 DEF IsRun
<1> QED BY <1>3, <1>4

(* FoldLeft(Step, base, seq) of SequencesExt, written out. *)
Fold(base, seq) ==
    LET iter[s \in SUBSET DOMAIN seq] ==
            IF s = {} THEN base ELSE Step(iter[s \ {Greatest(s)}], seq[Greatest(s)])
    IN iter[DOMAIN seq]

LEMMA FoldRuns ==
    ASSUME NEW seq, NEW n \in Nat, DOMAIN seq = 1 .. n, NEW base
    PROVE  \E r : IsRun(r, n, base, seq) /\ r[n] = Fold(base, seq)
<1> DEFINE IsIt(g) == g = [s \in SUBSET DOMAIN seq |-> IF s = {} THEN base
                                                   ELSE Step(g[s \ {Greatest(s)}], seq[Greatest(s)])]
           it == CHOOSE g : IsIt(g)
<1>1. ASSUME NEW g PROVE IsLeftFold(g, n, base, seq) <=> IsIt(g)
  BY DEF IsLeftFold
<1>2. Fold(base, seq) = it[DOMAIN seq]
  BY DEF Fold
<1> HIDE DEF IsIt
<1>3. IsLeftFold(it, n, base, seq)
  BY <1>1, LeftFoldExists
<1> HIDE DEF it
<1>4. PICK r : IsRun(r, n, base, seq) /\ r[n] = it[1 .. n]
  BY <1>3, LeftFoldRuns
<1> QED BY <1>2, <1>4

(* There are runs, and two of the same elements agree. *)
LEMMA RunExists ==
    ASSUME NEW n \in Nat, NEW base, NEW of
    PROVE  \E r : DOMAIN r = 0 .. n /\ IsRun(r, n, base, of)
<1>1. PICK r : IsRun(r, n, base, of)
  BY LeftFoldExists, LeftFoldRuns
<1> DEFINE q == [i \in 0 .. n |-> r[i]]
<1>2. DOMAIN q = 0 .. n /\ \A i \in 0 .. n : q[i] = r[i]
  OBVIOUS
<1>3. \A i \in 1 .. n : i \in 0 .. n /\ i - 1 \in 0 .. n
  OBVIOUS
<1>4. 0 \in 0 .. n
  OBVIOUS
<1> HIDE DEF q
<1>5. IsRun(q, n, base, of)
  BY <1>1, <1>2, <1>3, <1>4 DEF IsRun
<1> QED BY <1>2, <1>5

LEMMA RunsAgree ==
    ASSUME NEW n \in Nat, NEW m \in Nat, m <= n, NEW base, NEW of, NEW also, NEW r, NEW q,
           IsRun(r, n, base, of), IsRun(q, m, base, also), \A i \in 1 .. m : of[i] = also[i]
    PROVE  \A i \in 0 .. m : r[i] = q[i]
<1> DEFINE A == {i \in Nat : i <= m => r[i] = q[i]}
<1>1. 0 \in A
  BY DEF IsRun
<1>2. ASSUME NEW i \in Nat, i \in A PROVE i + 1 \in A
  <2> SUFFICES ASSUME i + 1 <= m PROVE r[i + 1] = q[i + 1]
    OBVIOUS
  <2>1. i + 1 \in 1 .. m /\ i + 1 \in 1 .. n /\ i + 1 - 1 = i
    OBVIOUS
  <2>2. r[i] = q[i]
    BY <1>2
  <2> QED BY <2>1, <2>2 DEF IsRun
<1> HIDE DEF A
<1>3. Nat \subseteq A
  BY <1>1, <1>2, Induction
<1> QED BY <1>3 DEF A

IsLength(k, n, m) == k = n + m   \* of a whole, in two parts

(* A run over two parts ends where the run of the second does, begun where that
   of the first has ended. *)
LEMMA RunsJoin ==
    ASSUME NEW n \in Nat, NEW m \in Nat, NEW k, IsLength(k, n, m), NEW base, NEW whole, NEW of, NEW also,
           NEW r, NEW p, NEW q,
           IsRun(r, k, base, whole), IsRun(p, n, base, of), IsRun(q, m, p[n], also),
           \A i \in 1 .. n : whole[i] = of[i], \A i \in 1 .. m : whole[n + i] = also[i]
    PROVE  r[k] = q[m]
<1> USE DEF IsLength
<1> DEFINE A == {i \in Nat : i <= m => r[n + i] = q[i]}
<1>1. 0 \in A
  <2>1. k \in Nat /\ n <= k /\ n \in 0 .. n /\ n + 0 = n
    OBVIOUS
  <2>2. r[n] = p[n]
    BY <2>1, RunsAgree
  <2> QED BY <2>1, <2>2 DEF IsRun
<1>2. ASSUME NEW i \in Nat, i \in A PROVE i + 1 \in A
  <2> SUFFICES ASSUME i + 1 <= m PROVE r[n + (i + 1)] = q[i + 1]
    OBVIOUS
  <2>1. /\ i + 1 \in 1 .. m /\ i + 1 - 1 = i /\ n + (i + 1) \in 1 .. k
        /\ n + (i + 1) - 1 = n + i
    OBVIOUS
  <2>2. r[n + i] = q[i]
    BY <1>2
  <2>3. r[n + (i + 1)] = Step(r[n + (i + 1) - 1], whole[n + (i + 1)])
    BY <2>1 DEF IsRun
  <2>4. q[i + 1] = Step(q[i + 1 - 1], also[i + 1])
    BY <2>1 DEF IsRun
  <2> QED BY <2>1, <2>2, <2>3, <2>4
<1> HIDE DEF A
<1>3. Nat \subseteq A
  BY <1>1, <1>2, Induction
<1> QED BY <1>3 DEF A

(* What every step keeps, the run has at its end. *)
LEMMA RunKeeps ==
    ASSUME NEW n \in Nat, NEW base, NEW of, NEW r, IsRun(r, n, base, of), NEW Good,
           base \in Good, \A i \in 1 .. n, x \in Good : Step(x, of[i]) \in Good
    PROVE  \A i \in 0 .. n : r[i] \in Good
<1> DEFINE A == {i \in Nat : i <= n => r[i] \in Good}
<1>1. 0 \in A
  BY DEF IsRun
<1>2. ASSUME NEW i \in Nat, i \in A PROVE i + 1 \in A
  <2> SUFFICES ASSUME i + 1 <= n PROVE r[i + 1] \in Good
    OBVIOUS
  <2>1. i + 1 \in 1 .. n /\ i + 1 - 1 = i
    OBVIOUS
  <2>2. r[i] \in Good
    BY <1>2
  <2> QED BY <2>1, <2>2 DEF IsRun
<1> HIDE DEF A
<1>3. Nat \subseteq A
  BY <1>1, <1>2, Induction
<1> QED BY <1>3 DEF A

(* Levels, each made from the one below, the lowest from nothing. *)
IsLevels(h, n, of) == h = [i \in 0 .. n |-> Step(IF i = 0 THEN <<>> ELSE h[i - 1], of[i])]

LEMMA LevelsExist ==
    ASSUME NEW n \in Nat, NEW of
    PROVE  \E h : IsLevels(h, n, of)
<1> DEFINE at == [i \in 1 .. (n + 1) |-> of[i - 1]]
<1>1. PICK r : DOMAIN r = 0 .. (n + 1) /\ IsRun(r, n + 1, <<>>, at)
  <2>1. n + 1 \in Nat
    OBVIOUS
  <2> HIDE DEF at
  <2> QED BY <2>1, RunExists
<1> DEFINE h == [i \in 0 .. n |-> r[i + 1]]
<1>2. ASSUME NEW i \in 0 .. n PROVE h[i] = Step(IF i = 0 THEN <<>> ELSE h[i - 1], of[i])
  <2>1. i + 1 \in 1 .. (n + 1) /\ i + 1 - 1 = i /\ at[i + 1] = of[i]
    OBVIOUS
  <2> HIDE DEF at
  <2>2. r[i + 1] = Step(r[i], of[i])
    BY <1>1, <2>1 DEF IsRun
  <2>3. r[i] = IF i = 0 THEN <<>> ELSE h[i - 1]
    <3>1. CASE i = 0
      BY <1>1, <3>1 DEF IsRun
    <3>2. CASE i # 0
      <4>1. i - 1 \in 0 .. n /\ i - 1 + 1 = i
        BY <3>2
      <4> QED BY <3>2, <4>1
    <3> QED BY <3>1, <3>2
  <2> QED BY <2>2, <2>3
<1>3. h = [i \in 0 .. n |-> h[i]]
  OBVIOUS
<1> HIDE DEF h
<1> QED BY <1>2, <1>3 DEF IsLevels
=============================================================================
