---------------------------- MODULE Masonry_proofs ----------------------------
(***************************************************************************)
(* Proofs about the layout of Masonry: nothing is lost and nothing is      *)
(* doubled, however long the columns are.  The layout is built from folds  *)
(* over sequences, that is from recursive functions, so that the proofs    *)
(* need induction.  It comes from two facts of the library: Nat is well    *)
(* founded, and a well founded set has minimal elements.                   *)
(***************************************************************************)
EXTENDS Masonry, FiniteSetTheorems, TLAPS

-----------------------------------------------------------------------------
(* Induction. *)

\* Induction over the natural numbers, for a set.
LEMMA SetInduction ==
  ASSUME NEW S, 0 \in S, \A n \in Nat : n \in S => n + 1 \in S
  PROVE  Nat \subseteq S
<1> DEFINE T == Nat \ S
<1> SUFFICES ASSUME T # {} PROVE FALSE
  OBVIOUS
<1>1. PICK x \in T : \A y \in T : ~(<<y, x>> \in OpToRel(<, Nat))
  <2> HIDE DEF T
  <2>1. T \subseteq Nat
    BY DEF T
  <2> QED BY <2>1, NatLessThanWellFounded, WFMin
<1>2. \A y \in T : ~(y < x)
  BY <1>1 DEF OpToRel
<1>3. x # 0 /\ x - 1 \in Nat
  OBVIOUS
<1>4. x - 1 \in T
  BY <1>3
<1> QED BY <1>2, <1>4

\* A set of natural numbers has a least member.
LEMMA Least ==
  ASSUME NEW S \in SUBSET Nat, S # {}
  PROVE  \E x \in S : \A y \in S : x <= y
<1>1. PICK x \in S : \A y \in S : ~(<<y, x>> \in OpToRel(<, Nat))
  BY NatLessThanWellFounded, WFMin
<1>2. \A y \in S : ~(y < x)
  BY <1>1 DEF OpToRel
<1> QED BY <1>2

\* A bounded one has a greatest member, which Max chooses.
LEMMA MaxIs ==
  ASSUME NEW n \in Nat, NEW S \in SUBSET (0..n), S # {}
  PROVE  Max(S) \in S /\ \A y \in S : y <= Max(S)
<1> DEFINE T == {n - x : x \in S}
<1>1. T \in SUBSET Nat /\ T # {}
  <2>1. \A x \in S : x \in 0..n
    OBVIOUS
  <2>2. \A x \in S : n - x \in Nat
    BY <2>1
  <2> QED BY <2>2
<1>2. PICK t \in T : \A u \in T : t <= u
  <2> HIDE DEF T
  <2> QED BY <1>1, Least
<1>3. PICK x \in S : t = n - x
  OBVIOUS
<1>4. \A y \in S : x >= y
  BY <1>2, <1>3
<1> QED BY <1>4 DEF Max

\* What makes a function a sequence.
LEMMA IsSequence ==
  ASSUME NEW n \in Nat, NEW R, NEW s, s = [i \in 1..n |-> s[i]], \A i \in 1..n : s[i] \in R
  PROVE  s \in Seq(R) /\ Len(s) = n /\ DOMAIN s = 1..n
<1>1. s \in [1..n -> R]
  OBVIOUS
<1>2. s \in Seq(R)
  BY <1>1
<1>3. DOMAIN s = 1..n
  BY <1>1
<1>4. Len(s) = n
  BY <1>2, <1>3
<1> QED BY <1>2, <1>3, <1>4

-----------------------------------------------------------------------------
(* FlattenSeq. *)

\* The recursive function of FlattenSeq exists.
LEMMA FlattenExists ==
  ASSUME NEW seqs, NEW n \in Nat
  PROVE  \E f : f = [i \in 1..n |-> IF i = 1 THEN seqs[i] ELSE f[i - 1] \o seqs[i]]
<1> DEFINE Fits(f, k) == f = [i \in 1..k |-> IF i = 1 THEN seqs[i] ELSE f[i - 1] \o seqs[i]]
           S == {k \in Nat : \E f : Fits(f, k)}
<1>1. 0 \in S
  <2>1. Fits([i \in 1..0 |-> 0], 0)
    OBVIOUS
  <2> QED BY <2>1
<1>2. ASSUME NEW k \in Nat, k \in S PROVE k + 1 \in S
  <2>1. PICK f : Fits(f, k)
    BY <1>2
  <2>2. \A i \in 1..k : f[i] = IF i = 1 THEN seqs[i] ELSE f[i - 1] \o seqs[i]
    BY <2>1
  <2> DEFINE g == [i \in 1..(k + 1) |-> IF i = 1 THEN seqs[i] ELSE f[i - 1] \o seqs[i]]
  <2> HIDE DEF Fits
  <2>3. \A i \in 1..k : g[i] = f[i]
    BY <2>2
  <2>4. \A i \in 1..(k + 1) : i # 1 => i - 1 \in 1..k
    OBVIOUS
  <2>5. g = [i \in 1..(k + 1) |-> IF i = 1 THEN seqs[i] ELSE g[i - 1] \o seqs[i]]
    <3>1. \A i \in 1..(k + 1) : (IF i = 1 THEN seqs[i] ELSE f[i - 1] \o seqs[i])
                              = (IF i = 1 THEN seqs[i] ELSE g[i - 1] \o seqs[i])
      <4> HIDE DEF g
      <4> QED BY <2>3, <2>4
    <3>2. \A h : (\A i \in 1..(k + 1) : (IF i = 1 THEN seqs[i] ELSE f[i - 1] \o seqs[i])
                                      = (IF i = 1 THEN seqs[i] ELSE h[i - 1] \o seqs[i]))
                 => g = [i \in 1..(k + 1) |-> IF i = 1 THEN seqs[i] ELSE h[i - 1] \o seqs[i]]
      OBVIOUS
    <3> HIDE DEF g
    <3> QED BY <3>1, <3>2
  <2> HIDE DEF g
  <2>6. Fits(g, k + 1)
    BY <2>5 DEF Fits
  <2> QED BY <2>6
<1>3. n \in S
  <2> HIDE DEF S
  <2> QED BY <1>1, <1>2, SetInduction
<1> QED BY <1>3

\* What it computes.
LEMMA FlattenIs ==
  ASSUME NEW seqs, Len(seqs) \in Nat \ {0}
  PROVE  \E f : /\ f[1] = seqs[1]
                /\ \A i \in 2..Len(seqs) : f[i] = f[i - 1] \o seqs[i]
                /\ FlattenSeq(seqs) = f[Len(seqs)]
<1> DEFINE n == Len(seqs)
           Fits(f) == f = [i \in 1..n |-> IF i = 1 THEN seqs[i] ELSE f[i - 1] \o seqs[i]]
           f == CHOOSE f : Fits(f)
<1>1. Fits(f)
  BY FlattenExists
<1>2. FlattenSeq(seqs) = f[n]
  BY DEF FlattenSeq
<1>3. \A i \in 1..n : f[i] = IF i = 1 THEN seqs[i] ELSE f[i - 1] \o seqs[i]
  <2> HIDE DEF f
  <2> QED BY <1>1
<1>4. f[1] = seqs[1] /\ \A i \in 2..n : f[i] = f[i - 1] \o seqs[i]
  <2> HIDE DEF f, Fits
  <2>1. n \in Nat \ {0}
    OBVIOUS
  <2> HIDE DEF n
  <2>2. 1 \in 1..n /\ \A i \in 2..n : i \in 1..n /\ i # 1
    BY <2>1
  <2> QED BY <1>3, <2>2
<1> HIDE DEF f
<1> QED BY <1>2, <1>4

\* The same, as steps from the empty sequence.
LEMMA FlattenSteps ==
  ASSUME NEW X, NEW seqs \in Seq(Seq(X))
  PROVE  \E f :
           /\ \A k \in 0..Len(seqs) : f[k] \in Seq(X)
           /\ f[0] = <<>>
           /\ \A i \in 1..Len(seqs) : f[i] = f[i - 1] \o seqs[i]
           /\ FlattenSeq(seqs) = f[Len(seqs)]
<1> DEFINE n == Len(seqs)
<1>1. n \in Nat /\ \A i \in 1..n : seqs[i] \in Seq(X)
  OBVIOUS
<1>2. CASE n = 0
  <2>1. seqs = <<>> /\ FlattenSeq(seqs) = seqs
    BY <1>2 DEF FlattenSeq
  <2> DEFINE f == [i \in 0..0 |-> <<>>]
  <2>2. (\A k \in 0..n : f[k] \in Seq(X)) /\ f[0] = <<>> /\ f[n] = seqs
    BY <1>2, <2>1
  <2>3. \A i \in 1..n : f[i] = f[i - 1] \o seqs[i]
    BY <1>2
  <2> QED BY <2>1, <2>2, <2>3
<1>3. CASE n # 0
  <2>1. PICK g : /\ g[1] = seqs[1]
                 /\ \A i \in 2..n : g[i] = g[i - 1] \o seqs[i]
                 /\ FlattenSeq(seqs) = g[n]
    BY <1>1, <1>3, FlattenIs
  <2> DEFINE f == [i \in 0..n |-> IF i = 0 THEN <<>> ELSE g[i]]
             S == {k \in Nat : k < n => g[k + 1] \in Seq(X)}
  <2> HIDE DEF n
  <2>2. 0 \in S
    BY <1>1, <1>3, <2>1
  <2>3. ASSUME NEW k \in Nat, k \in S PROVE k + 1 \in S
    <3> SUFFICES ASSUME k + 1 < n PROVE g[k + 2] \in Seq(X)
      BY <2>3
    <3>1. g[k + 2] = g[k + 1] \o seqs[k + 2]
      <4>1. k + 2 \in 2..n /\ (k + 2) - 1 = k + 1
        BY <1>1
      <4> QED BY <2>1, <4>1
    <3>2. g[k + 1] \in Seq(X) /\ seqs[k + 2] \in Seq(X)
      BY <1>1, <2>3
    <3> QED BY <3>1, <3>2
  <2>4. Nat \subseteq S
    <3> HIDE DEF S
    <3> QED BY <2>2, <2>3, SetInduction
  <2>5. \A i \in 1..n : g[i] \in Seq(X)
    <3> TAKE i \in 1..n
    <3>1. i - 1 \in Nat /\ i - 1 < n /\ (i - 1) + 1 = i
      BY <1>1
    <3> QED BY <2>4, <3>1
  <2>6. \A k \in 0..n : f[k] \in Seq(X)
    <3> TAKE k \in 0..n
    <3>1. CASE k = 0
      BY <3>1
    <3>2. CASE k # 0
      <4>1. k \in 1..n /\ f[k] = g[k]
        BY <1>1, <3>2
      <4> QED BY <2>5, <4>1
    <3> QED BY <3>1, <3>2
  <2>7. \A i \in 1..n : f[i] = f[i - 1] \o seqs[i]
    <3> TAKE i \in 1..n
    <3>1. f[i] = g[i] /\ i - 1 \in 0..n
      BY <1>1
    <3>2. CASE i = 1
      <4>1. seqs[1] \in Seq(X) /\ f[0] = <<>>
        BY <1>1, <3>2
      <4>2. <<>> \o seqs[1] = seqs[1]
        BY <4>1
      <4> QED BY <2>1, <3>1, <3>2, <4>1, <4>2
    <3>3. CASE i # 1
      <4>1. f[i - 1] = g[i - 1] /\ i \in 2..n
        BY <1>1, <3>1, <3>3
      <4> HIDE DEF f
      <4> QED BY <2>1, <3>1, <4>1
    <3> QED BY <3>2, <3>3
  <2>8. f[0] = <<>> /\ f[n] = g[n]
    BY <1>1, <1>3
  <2> HIDE DEF f
  <2> QED BY <2>1, <2>6, <2>7, <2>8 DEF n
<1> QED BY <1>2, <1>3

-----------------------------------------------------------------------------
(* Folds. *)

\* `pick` chooses from each set of positions.
Picks(pick, n) == \A s \in (SUBSET (1..n)) \ {{}} : pick[s] \in s

\* `step` combines an item, given by its position, with a value, and stays within R.
Steps(step, n, R) == \A i \in 1..n, r \in R : step[<<i, r>>] \in R

\* f folds each set of positions, from `base`.
Folds(f, n, R, base, pick, step) ==
  /\ f = [s \in SUBSET (1..n) |-> f[s]]
  /\ \A s \in SUBSET (1..n) : f[s] \in R
  /\ \A s \in SUBSET (1..n) : f[s] = IF s = {} THEN base ELSE step[<<pick[s], f[s \ {pick[s]}]>>]

\* The recursive function of MapThenFoldSet exists.
LEMMA FoldExists ==
  ASSUME NEW n \in Nat, NEW R, NEW base \in R, NEW pick, Picks(pick, n), NEW step, Steps(step, n, R)
  PROVE  \E f : Folds(f, n, R, base, pick, step)
<1> DEFINE Level(k) == {s \in SUBSET (1..n) : Cardinality(s) <= k}
           Fits(f, k) == \A s \in Level(k) :
                           f[s] = IF s = {} THEN base ELSE step[<<pick[s], f[s \ {pick[s]}]>>]
           S == {k \in Nat : \E f \in [Level(k) -> R] : Fits(f, k)}
<1>1. \A s \in SUBSET (1..n) : IsFiniteSet(s) /\ Cardinality(s) \in Nat /\ Cardinality(s) <= n
  <2>1. IsFiniteSet(1..n) /\ Cardinality(1..n) = n
    BY FS_Interval
  <2> HIDE DEF Level, Fits
  <2> QED BY <2>1, FS_Subset, FS_CardinalityType
<1> USE DEF Picks, Steps
<1>2. 0 \in S
  <2>1. \A s \in Level(0) : s = {}
    BY <1>1, FS_EmptySet
  <2> DEFINE f == [s \in Level(0) |-> base]
  <2>2. f \in [Level(0) -> R] /\ Fits(f, 0)
    BY <2>1
  <2> QED BY <2>2
<1>3. ASSUME NEW k \in Nat, k \in S PROVE k + 1 \in S
  <2>1. PICK f \in [Level(k) -> R] : Fits(f, k)
    BY <1>3
  <2> DEFINE g == [s \in Level(k + 1) |-> IF s = {} THEN base ELSE step[<<pick[s], f[s \ {pick[s]}]>>]]
  <2>2. \A s \in Level(k + 1) : s # {} =>
           pick[s] \in 1..n /\ s \ {pick[s]} \in Level(k)
    <3> TAKE s \in Level(k + 1)
    <3> HAVE s # {}
    <3>1. pick[s] \in s
      OBVIOUS
    <3>2. Cardinality(s \ {pick[s]}) = Cardinality(s) - 1
      BY <1>1, <3>1, FS_RemoveElement
    <3>3. s \in SUBSET (1..n) /\ Cardinality(s) \in Nat /\ Cardinality(s) <= k + 1
      BY <1>1
    <3>4. Cardinality(s \ {pick[s]}) <= k
      BY <3>2, <3>3
    <3>5. s \ {pick[s]} \in SUBSET (1..n) /\ pick[s] \in 1..n
      BY <3>1, <3>3
    <3> QED BY <3>4, <3>5
  <2>3. \A s \in Level(k) : s \in Level(k + 1) /\ g[s] = f[s]
    BY <1>1, <2>1
  <2>4. g \in [Level(k + 1) -> R]
    <3>1. \A s \in Level(k + 1) : s # {} => step[<<pick[s], f[s \ {pick[s]}]>>] \in R
      <4> TAKE s \in Level(k + 1)
      <4> HAVE s # {}
      <4> HIDE DEF Level
      <4>1. pick[s] \in 1..n /\ f[s \ {pick[s]}] \in R
        BY <2>1, <2>2
      <4> QED BY <4>1
    <3> HIDE DEF Level
    <3> QED BY <3>1
  <2>5. Fits(g, k + 1)
    <3> HIDE DEF Level
    <3> QED BY <2>2, <2>3
  <2> HIDE DEF Level, Fits, g
  <2> QED BY <2>4, <2>5
<1>4. n \in S
  <2> HIDE DEF S
  <2> QED BY <1>2, <1>3, SetInduction
<1>5. Level(n) = SUBSET (1..n)
  BY <1>1
<1>6. PICK f \in [Level(n) -> R] : Fits(f, n)
  BY <1>4
<1>7. Folds(f, n, R, base, pick, step)
  <2> HIDE DEF Level
  <2>1. f = [s \in SUBSET (1..n) |-> f[s]] /\ \A s \in SUBSET (1..n) : f[s] \in R
    BY <1>5
  <2> QED BY <1>5, <1>6, <2>1 DEF Folds
<1> HIDE DEF Level
<1> QED BY <1>7

\* What a fold over the sets of positions keeps.
LEMMA FoldTyped ==
  ASSUME NEW n \in Nat, NEW R,
         NEW pick, \A s \in (SUBSET (1..n)) \ {{}} : pick[s] \in s,
         NEW iter, iter[{}] \in R,
         \A s \in (SUBSET (1..n)) \ {{}} : iter[s \ {pick[s]}] \in R => iter[s] \in R
  PROVE  iter[1..n] \in R
<1> DEFINE S == {k \in Nat : \A s \in SUBSET (1..n) : Cardinality(s) <= k => iter[s] \in R}
<1>1. IsFiniteSet(1..n) /\ Cardinality(1..n) = n
  BY FS_Interval
<1>2. \A s \in SUBSET (1..n) : IsFiniteSet(s) /\ Cardinality(s) \in Nat
  BY <1>1, FS_Subset, FS_CardinalityType
<1>3. 0 \in S
  <2>1. ASSUME NEW s \in SUBSET (1..n), Cardinality(s) <= 0 PROVE iter[s] \in R
    <3>1. s = {}
      BY <1>2, <2>1, FS_EmptySet
    <3> QED BY <3>1
  <2> QED BY <2>1
<1>4. ASSUME NEW k \in Nat, k \in S PROVE k + 1 \in S
  <2>1. ASSUME NEW s \in SUBSET (1..n), Cardinality(s) <= k + 1 PROVE iter[s] \in R
    <3>1. CASE s = {}
      BY <3>1
    <3>2. CASE s # {}
      <4>1. pick[s] \in s /\ s \ {pick[s]} \in SUBSET (1..n)
        BY <3>2
      <4>2. Cardinality(s \ {pick[s]}) = Cardinality(s) - 1
        BY <1>2, <4>1, FS_RemoveElement
      <4>3. Cardinality(s \ {pick[s]}) <= k
        BY <1>2, <2>1, <4>2
      <4>4. iter[s \ {pick[s]}] \in R
        BY <1>4, <4>1, <4>3
      <4> QED BY <3>2, <4>4
    <3> QED BY <3>1, <3>2
  <2> QED BY <2>1
<1>5. n \in S
  <2> HIDE DEF S
  <2> QED BY <1>3, <1>4, SetInduction
<1> QED BY <1>1, <1>5

\* Counting up to n.
LEMMA UpTo ==
  ASSUME NEW n \in Nat, NEW S, 0 \in S, \A k \in 1..n : k - 1 \in S => k \in S
  PROVE  0..n \subseteq S
<1> DEFINE T == {k \in Nat : k <= n => k \in S}
<1>1. 0 \in T
  OBVIOUS
<1>2. \A k \in Nat : k \in T => k + 1 \in T
  <2> SUFFICES ASSUME NEW k \in Nat, k \in T, k + 1 <= n PROVE k + 1 \in S
    OBVIOUS
  <2>1. k \in S /\ k + 1 \in 1..n /\ (k + 1) - 1 = k
    OBVIOUS
  <2> QED BY <2>1
<1>3. Nat \subseteq T
  <2> HIDE DEF T
  <2> QED BY <1>1, <1>2, SetInduction
<1>4. \A k \in 0..n : k \in Nat /\ k <= n
  OBVIOUS
<1>5. \A k \in 0..n : k \in T
  <2> HIDE DEF T
  <2> QED BY <1>3, <1>4
<1> QED BY <1>4, <1>5

\* Of the positions 1..k, those of a fold from the left, the last one is folded last.
LEMMA MaxOfPositions ==
  ASSUME NEW k \in Nat \ {0}
  PROVE  Max(1..k) = k /\ (1..k) \ {Max(1..k)} = 1..(k - 1) /\ 1..k # {}
<1>1. 1..k \in SUBSET (0..k) /\ k \in 1..k
  OBVIOUS
<1>2. Max(1..k) \in 1..k /\ \A y \in 1..k : y <= Max(1..k)
  BY <1>1, MaxIs
<1>3. Max(1..k) = k
  BY <1>1, <1>2
<1>4. (1..k) \ {k} = 1..(k - 1)
  <2>1. \A x : x \in (1..k) \ {k} <=> x \in 1..(k - 1)
    OBVIOUS
  <2> QED BY <2>1
<1> QED BY <1>1, <1>3, <1>4

LEMMA MaxPicks ==
  ASSUME NEW n \in Nat
  PROVE  \A s \in (SUBSET (1..n)) \ {{}} : Max(s) \in s
<1> TAKE s \in (SUBSET (1..n)) \ {{}}
<1>1. \A x \in 1..n : x \in 0..n
  OBVIOUS
<1>2. s \in SUBSET (0..n) /\ s # {}
  BY <1>1
<1> QED BY <1>2, MaxIs

\* `iter` folds each set of positions from the left.
FoldsLeft(iter, n, R, base, step) ==
  /\ iter[{}] = base
  /\ \A s \in (SUBSET (1..n)) \ {{}} :
       iter[s \ {Max(s)}] \in R => iter[s] = step[<<Max(s), iter[s \ {Max(s)}]>>]

\* f is a value before the first step and after each of n steps.
Walks(f, n, R, base, step) ==
  /\ \A k \in 0..n : f[k] \in R
  /\ f[0] = base
  /\ \A k \in 1..n : f[k] = step[<<k, f[k - 1]>>]

\* A fold from the left, as steps.
LEMMA LeftSteps ==
  ASSUME NEW n \in Nat, NEW R, NEW base \in R, NEW step, Steps(step, n, R),
         NEW iter, FoldsLeft(iter, n, R, base, step)
  PROVE  \E f : Walks(f, n, R, base, step) /\ f[n] = iter[1..n]
<1> USE DEF Steps, FoldsLeft
<1> DEFINE f == [k \in 0..n |-> iter[1..k]]
           S == {k \in 0..n : iter[1..k] \in R}
<1>1. iter[1..0] = base
  <2>1. \A x : x \notin 1..0
    OBVIOUS
  <2>2. 1..0 = {}
    BY <2>1
  <2> QED BY <2>2
<1>2. \A k \in 1..n : iter[1..(k - 1)] \in R =>
                        iter[1..k] = step[<<k, iter[1..(k - 1)]>>] /\ iter[1..k] \in R
  <2> TAKE k \in 1..n
  <2>1. 1..k \in SUBSET (1..n) /\ k \in Nat \ {0}
    OBVIOUS
  <2>2. Max(1..k) = k /\ (1..k) \ {k} = 1..(k - 1) /\ 1..k # {}
    BY <2>1, MaxOfPositions
  <2> HAVE iter[1..(k - 1)] \in R
  <2>3. iter[1..k] = step[<<k, iter[1..(k - 1)]>>]
    BY <2>1, <2>2
  <2> QED BY <2>3
<1>3. 0 \in S
  BY <1>1
<1>4. \A k \in 1..n : k - 1 \in S => k \in S
  <2> TAKE k \in 1..n
  <2> HAVE k - 1 \in S
  <2>1. iter[1..(k - 1)] \in R /\ k \in 0..n
    OBVIOUS
  <2>2. iter[1..k] \in R
    BY <1>2, <2>1
  <2> QED BY <2>1, <2>2
<1>5. \A k \in 0..n : iter[1..k] \in R
  <2>1. 0..n \subseteq S
    <3> HIDE DEF S
    <3> QED BY <1>3, <1>4, UpTo
  <2> QED BY <2>1
<1>6. \A k \in 0..n : f[k] \in R
  BY <1>5
<1>7. f[0] = base /\ f[n] = iter[1..n]
  BY <1>1
<1>8. \A k \in 1..n : f[k] = step[<<k, f[k - 1]>>]
  <2> TAKE k \in 1..n
  <2>1. f[k] = iter[1..k] /\ f[k - 1] = iter[1..(k - 1)] /\ k - 1 \in 0..n
    OBVIOUS
  <2> HIDE DEF f
  <2> QED BY <1>2, <1>5, <2>1
<1> HIDE DEF f
<1>9. Walks(f, n, R, base, step)
  BY <1>6, <1>7, <1>8 DEF Walks
<1> QED BY <1>7, <1>9

-----------------------------------------------------------------------------
(* Placing. *)

\* The height of a column is a number.
LEMMA HeightsNat ==
  ASSUME NEW X, \A x \in X : Height[x] \in Nat, NEW column \in Seq(X)
  PROVE  Heights(column) \in Nat
<1> DEFINE n == Len(column)
           one(s) == CHOOSE x \in s : TRUE
           pick == [s \in SUBSET (1..n) |-> one(s)]
           step == [p \in (1..n) \X Nat |-> Height[column[p[1]]] + p[2]]
           Sum(s, f) == IF s = {} THEN 0 ELSE Height[column[one(s)]] + f[s \ {one(s)}]
           Fits(f) == f = [s \in SUBSET (1..n) |-> Sum(s, f)]
           iter == CHOOSE f : Fits(f)
<1>1. n \in Nat /\ DOMAIN column = 1..n /\ \A i \in 1..n : column[i] \in X
  OBVIOUS
<1>2. Heights(column) = iter[1..n]
  BY <1>1 DEF Heights, FoldSeq, FoldFunction, FoldFunctionOnSet, MapThenFoldSet
<1>3. \A s : s # {} => one(s) \in s
  OBVIOUS
<1> HIDE DEF n, one, iter
<1>4. \A s \in (SUBSET (1..n)) \ {{}} : pick[s] \in s /\ pick[s] = one(s) /\ one(s) \in 1..n
  BY <1>3
<1>5. \A i \in 1..n, r \in Nat : step[<<i, r>>] = Height[column[i]] + r /\ Height[column[i]] \in Nat
  BY <1>1
<1> HIDE DEF pick, step, Fits
<1>6. PICK f : Folds(f, n, Nat, 0, pick, step)
  <2>1. Picks(pick, n)
    BY <1>4 DEF Picks
  <2>2. Steps(step, n, Nat)
    <3>1. \A i \in 1..n, r \in Nat : step[<<i, r>>] \in Nat
      <4> TAKE i \in 1..n, r \in Nat
      <4>1. step[<<i, r>>] = Height[column[i]] + r /\ Height[column[i]] \in Nat
        BY <1>5
      <4> QED BY <4>1
    <3> QED BY <3>1 DEF Steps
  <2> HIDE DEF Sum
  <2> QED BY <1>1, <2>1, <2>2, FoldExists
<1>7. \A s \in SUBSET (1..n) : f[s] = Sum(s, f)
  <2> TAKE s \in SUBSET (1..n)
  <2>1. CASE s = {}
    BY <1>6, <2>1 DEF Folds
  <2>2. CASE s # {}
    <3>1. pick[s] = one(s) /\ one(s) \in 1..n /\ f[s \ {one(s)}] \in Nat
      BY <1>4, <1>6, <2>2 DEF Folds
    <3> QED BY <1>5, <1>6, <2>2, <3>1 DEF Folds
  <2> QED BY <2>1, <2>2
<1>8. Fits(f)
  <2> HIDE DEF Sum
  <2>1. f = [s \in SUBSET (1..n) |-> f[s]]
    BY <1>6 DEF Folds
  <2> QED BY <1>7, <2>1 DEF Fits
<1>9. Fits(iter)
  BY <1>8 DEF iter
<1>10. \A s \in SUBSET (1..n) : iter[s] = Sum(s, iter)
  <2> HIDE DEF Sum
  <2> QED BY <1>9 DEF Fits
<1>11. iter[{}] \in Nat
  <2>1. {} \in SUBSET (1..n) /\ Sum({}, iter) = 0
    OBVIOUS
  <2> HIDE DEF Sum
  <2> QED BY <1>10, <2>1
<1>12. \A s \in (SUBSET (1..n)) \ {{}} : iter[s \ {pick[s]}] \in Nat => iter[s] \in Nat
  <2> TAKE s \in (SUBSET (1..n)) \ {{}}
  <2> HAVE iter[s \ {pick[s]}] \in Nat
  <2>1. pick[s] = one(s) /\ Height[column[one(s)]] \in Nat
    BY <1>1, <1>4
  <2>2. iter[s] = Height[column[one(s)]] + iter[s \ {one(s)}]
    BY <1>10
  <2> QED BY <2>1, <2>2
<1>13. iter[1..n] \in Nat
  <2>1. \A s \in (SUBSET (1..n)) \ {{}} : pick[s] \in s
    BY <1>4
  <2> QED BY <1>1, <1>11, <1>12, <2>1, FoldTyped
<1> QED BY <1>2, <1>13

\* Heights are compared, and the first of the least is a column.
LEMMA ShortestIs ==
  ASSUME NEW X, \A x \in X : Height[x] \in Nat, NEW columns \in Seq(Seq(X)), columns # <<>>
  PROVE  Shortest(columns) \in DOMAIN columns
<1> DEFINE H == {Heights(columns[c]) : c \in DOMAIN columns}
<1>1. \A c \in DOMAIN columns : Heights(columns[c]) \in Nat /\ c \in Nat
  <2> TAKE c \in DOMAIN columns
  <2>1. columns[c] \in Seq(X) /\ c \in Nat
    OBVIOUS
  <2> QED BY <2>1, HeightsNat
<1>2. 1 \in DOMAIN columns
  OBVIOUS
<1>3. H \in SUBSET Nat /\ H # {}
  BY <1>1, <1>2
<1>4. PICK h \in H : \A g \in H : h <= g
  <2> HIDE DEF H
  <2> QED BY <1>3, Least
<1> DEFINE D == {c \in DOMAIN columns : Heights(columns[c]) = h}
<1>5. D \in SUBSET Nat /\ D # {}
  BY <1>1
<1>6. PICK c \in D : \A d \in D : c <= d
  <2> HIDE DEF D
  <2> QED BY <1>5, Least
<1>7. \A d \in DOMAIN columns : \/ Heights(columns[c]) < Heights(columns[d])
                                \/ Heights(columns[c]) = Heights(columns[d]) /\ c <= d
  <2> TAKE d \in DOMAIN columns
  <2>1. Heights(columns[c]) = h /\ h \in Nat /\ h <= Heights(columns[d]) /\ Heights(columns[d]) \in Nat
    BY <1>1, <1>3, <1>4
  <2>2. Heights(columns[d]) = h => c <= d
    BY <1>6
  <2> QED BY <2>1, <2>2
<1>8. c \in DOMAIN columns
  OBVIOUS
<1> QED BY <1>7, <1>8, Zenon DEF Shortest

LEMMA PlaceTyped ==
  ASSUME NEW X, NEW columns \in Seq(Seq(X)), NEW item \in X
  PROVE  Place(columns, item) \in Seq(Seq(X)) /\ Len(Place(columns, item)) = Len(columns)
<1> DEFINE c == Shortest(columns)
<1>1. CASE item \in Coverless \/ columns = <<>>
  BY <1>1 DEF Place
<1>2. CASE ~(item \in Coverless \/ columns = <<>>)
  <2>1. Place(columns, item) = [columns EXCEPT ![c] = Append(columns[c], item)]
    BY <1>2 DEF Place
  <2>2. c \in DOMAIN columns => Append(columns[c], item) \in Seq(X)
    OBVIOUS
  <2> DEFINE n == Len(columns)
             new == [i \in 1..n |-> IF i = c THEN Append(columns[c], item) ELSE columns[i]]
  <2> HIDE DEF c
  <2>3. n \in Nat /\ columns = [i \in 1..n |-> columns[i]] /\ \A i \in 1..n : columns[i] \in Seq(X)
    OBVIOUS
  <2>4. Place(columns, item) = new
    BY <2>1, <2>3
  <2>5. new \in [1..n -> Seq(X)]
    BY <2>2, <2>3
  <2>6. new \in Seq(Seq(X)) /\ Len(new) = n
    <3> HIDE DEF new
    <3> QED BY <2>3, <2>5
  <2> QED BY <2>4, <2>6
<1> QED BY <1>1, <1>2

\* PlaceAll as steps.
LEMMA PlaceSteps ==
  ASSUME NEW X, NEW columns \in Seq(Seq(X)), NEW items \in Seq(X)
  PROVE  \E f :
           /\ \A k \in 0..Len(items) : f[k] \in Seq(Seq(X))
           /\ f[0] = columns
           /\ \A k \in 1..Len(items) : f[k] = Place(f[k - 1], items[k])
           /\ f[Len(items)] = PlaceAll(columns, items)
<1> DEFINE n == Len(items)
           R == Seq(Seq(X))
           pick == [s \in SUBSET (1..n) |-> Max(s)]
           step == [p \in (1..n) \X R |-> Place(p[2], items[p[1]])]
           Put(s, f) == IF s = {} THEN columns ELSE Place(f[s \ {Max(s)}], items[Max(s)])
           Fits(f) == f = [s \in SUBSET (1..n) |-> Put(s, f)]
           iter == CHOOSE f : Fits(f)
<1>1. n \in Nat /\ DOMAIN items = 1..n /\ \A i \in 1..n : items[i] \in X
  OBVIOUS
<1>2. PlaceAll(columns, items) = iter[1..n]
  BY <1>1 DEF PlaceAll, FoldLeft, MapThenFoldSet
<1> HIDE DEF n, iter
<1>3. \A s \in (SUBSET (1..n)) \ {{}} : pick[s] \in s /\ pick[s] = Max(s) /\ Max(s) \in 1..n
  BY <1>1, MaxPicks
<1>4. \A i \in 1..n, r \in R : step[<<i, r>>] = Place(r, items[i]) /\ Place(r, items[i]) \in R
  <2> TAKE i \in 1..n, r \in R
  <2>1. Place(r, items[i]) \in R
    BY <1>1, PlaceTyped
  <2> QED BY <2>1
<1>5. columns \in R
  OBVIOUS
<1> HIDE DEF pick, step, Fits, R
<1>6. Picks(pick, n) /\ Steps(step, n, R)
  <2>1. \A i \in 1..n, r \in R : step[<<i, r>>] \in R
    <3> TAKE i \in 1..n, r \in R
    <3>1. step[<<i, r>>] = Place(r, items[i]) /\ Place(r, items[i]) \in R
      BY <1>4
    <3> QED BY <3>1
  <2> QED BY <1>3, <2>1 DEF Picks, Steps
<1>7. PICK f : Folds(f, n, R, columns, pick, step)
  <2> HIDE DEF Put
  <2> QED BY <1>1, <1>5, <1>6, FoldExists
<1>8. \A s \in SUBSET (1..n) : f[s] = Put(s, f)
  <2> TAKE s \in SUBSET (1..n)
  <2>1. CASE s = {}
    BY <1>7, <2>1 DEF Folds
  <2>2. CASE s # {}
    <3>1. pick[s] = Max(s) /\ Max(s) \in 1..n /\ f[s \ {Max(s)}] \in R
      BY <1>3, <1>7, <2>2 DEF Folds
    <3> QED BY <1>4, <1>7, <2>2, <3>1 DEF Folds
  <2> QED BY <2>1, <2>2
<1>9. Fits(iter)
  <2> HIDE DEF Put
  <2>1. f = [s \in SUBSET (1..n) |-> f[s]]
    BY <1>7 DEF Folds
  <2>2. Fits(f)
    BY <1>8, <2>1 DEF Fits
  <2> QED BY <2>2 DEF iter
<1>10. \A s \in SUBSET (1..n) : iter[s] = Put(s, iter)
  <2> HIDE DEF Put
  <2> QED BY <1>9 DEF Fits
<1>11. iter[{}] = columns
  <2>1. {} \in SUBSET (1..n) /\ Put({}, iter) = columns
    OBVIOUS
  <2> HIDE DEF Put
  <2> QED BY <1>10, <2>1
<1>12. \A s \in (SUBSET (1..n)) \ {{}} :
         iter[s \ {Max(s)}] \in R => iter[s] = step[<<Max(s), iter[s \ {Max(s)}]>>]
  <2> TAKE s \in (SUBSET (1..n)) \ {{}}
  <2> HAVE iter[s \ {Max(s)}] \in R
  <2>1. Max(s) \in 1..n
    BY <1>3
  <2>2. iter[s] = Place(iter[s \ {Max(s)}], items[Max(s)])
    BY <1>10
  <2> QED BY <1>4, <2>1, <2>2
<1>13. FoldsLeft(iter, n, R, columns, step)
  BY <1>11, <1>12 DEF FoldsLeft
<1>14. PICK g : Walks(g, n, R, columns, step) /\ g[n] = iter[1..n]
  <2> HIDE DEF Put
  <2> QED BY <1>1, <1>5, <1>6, <1>13, LeftSteps
<1>15. \A k \in 1..n : g[k] = Place(g[k - 1], items[k])
  <2> TAKE k \in 1..n
  <2>1. k - 1 \in 0..n
    BY <1>1
  <2>2. g[k - 1] \in R
    BY <1>14, <2>1 DEF Walks
  <2> QED BY <1>4, <1>14, <2>2 DEF Walks
<1>16. g[0] = columns /\ \A k \in 0..n : g[k] \in R
  BY <1>14 DEF Walks
<1> QED BY <1>2, <1>14, <1>15, <1>16 DEF n, R

-----------------------------------------------------------------------------
(* Counting. *)

\* The places of an item in a sequence: Times counts them.
Places(x, items) == { i \in DOMAIN items : items[i] = x }

LEMMA PlacesFinite ==
  ASSUME NEW X, NEW items \in Seq(X), NEW x
  PROVE  /\ IsFiniteSet(Places(x, items))
         /\ Places(x, items) \in SUBSET (1..Len(items))
         /\ Times(x, items) = Cardinality(Places(x, items))
         /\ Times(x, items) \in Nat
<1>1. DOMAIN items = 1..Len(items) /\ Len(items) \in Nat
  OBVIOUS
<1>2. IsFiniteSet(1..Len(items))
  BY <1>1, FS_Interval
<1>3. Places(x, items) \in SUBSET (1..Len(items))
  BY <1>1 DEF Places
<1>4. IsFiniteSet(Places(x, items)) /\ Cardinality(Places(x, items)) \in Nat
  BY <1>2, <1>3, FS_Subset, FS_CardinalityType
<1>5. Times(x, items) = Cardinality(Places(x, items))
  BY DEF Times, Places
<1> QED BY <1>3, <1>4, <1>5

\* Two sets of which one is the image of the other, one to one, are of a size.
LEMMA SameSize ==
  ASSUME NEW S, IsFiniteSet(S), NEW T, NEW f,
         \A x \in S : f[x] \in T,
         \A x, y \in S : f[x] = f[y] => x = y,
         \A y \in T : \E x \in S : f[x] = y
  PROVE  IsFiniteSet(T) /\ Cardinality(T) = Cardinality(S)
<1> DEFINE g == [x \in S |-> f[x]]
<1>1. g \in Bijection(S, T)
  BY DEF Bijection, Injection, Surjection, IsInjective
<1>2. ExistsBijection(S, T)
  BY <1>1 DEF ExistsBijection
<1> QED BY <1>2, FS_Bijection

LEMMA DisjointUnion ==
  ASSUME NEW S, NEW T, IsFiniteSet(S), IsFiniteSet(T), S \cap T = {}
  PROVE  IsFiniteSet(S \cup T) /\ Cardinality(S \cup T) = Cardinality(S) + Cardinality(T)
<1>1. /\ IsFiniteSet(S \cup T)
      /\ Cardinality(S \cup T) = Cardinality(S) + Cardinality(T) - Cardinality(S \cap T)
  BY FS_Union
<1>2. Cardinality({}) = 0 /\ Cardinality(S) \in Nat /\ Cardinality(T) \in Nat
  BY FS_EmptySet, FS_CardinalityType
<1>3. Cardinality(S \cap T) = 0
  BY <1>2
<1>4. Cardinality(S) + Cardinality(T) - 0 = Cardinality(S) + Cardinality(T)
  BY <1>2
<1> QED BY <1>1, <1>3, <1>4

LEMMA TimesOfConcat ==
  ASSUME NEW X, NEW a \in Seq(X), NEW b \in Seq(X), NEW x
  PROVE  Times(x, a \o b) = Times(x, a) + Times(x, b)
<1> DEFINE A == Places(x, a)
           B == Places(x, b)
           m == Len(a)
           n == Len(b)
           f == [i \in B |-> i + m]
           T == {i + m : i \in B}
<1>1. m \in Nat /\ n \in Nat /\ a \o b \in Seq(X) /\ Len(a \o b) = m + n
  OBVIOUS
<1>2. /\ DOMAIN (a \o b) = 1..(m + n) /\ DOMAIN a = 1..m /\ DOMAIN b = 1..n
      /\ \A i \in 1..m : (a \o b)[i] = a[i]
      /\ \A i \in 1..n : (a \o b)[i + m] = b[i]
  OBVIOUS
<1>3. /\ IsFiniteSet(A) /\ A \in SUBSET (1..m) /\ Times(x, a) = Cardinality(A)
      /\ IsFiniteSet(B) /\ B \in SUBSET (1..n) /\ Times(x, b) = Cardinality(B)
      /\ Times(x, a \o b) = Cardinality(Places(x, a \o b))
      /\ Cardinality(A) \in Nat /\ Cardinality(B) \in Nat
  BY <1>1, PlacesFinite
<1> HIDE DEF m, n
<1>4. IsFiniteSet(T) /\ Cardinality(T) = Cardinality(B)
  <2>1. \A i \in B : i \in Nat /\ f[i] = i + m
    BY <1>1, <1>3
  <2>2. \A i \in B : f[i] \in T
    BY <2>1
  <2>3. \A i, j \in B : f[i] = f[j] => i = j
    BY <1>1, <2>1
  <2>4. \A y \in T : \E i \in B : f[i] = y
    BY <2>1
  <2> HIDE DEF f, T, B
  <2> QED BY <1>3, <2>2, <2>3, <2>4, SameSize
<1>5. A \cap T = {}
  BY <1>1, <1>3
<1>6. Places(x, a \o b) = A \cup T
  <2>1. ASSUME NEW i \in Places(x, a \o b) PROVE i \in A \cup T
    <3>1. i \in 1..(m + n) /\ (a \o b)[i] = x
      BY <1>2 DEF Places
    <3>2. CASE i <= m
      BY <1>1, <1>2, <3>1, <3>2 DEF Places
    <3>3. CASE ~(i <= m)
      <4>1. i - m \in 1..n /\ (i - m) + m = i
        BY <1>1, <3>1, <3>3
      <4>2. i - m \in B
        BY <1>2, <3>1, <4>1 DEF Places
      <4> QED BY <4>1, <4>2
    <3> QED BY <3>2, <3>3
  <2>2. ASSUME NEW i \in A PROVE i \in Places(x, a \o b)
    BY <1>1, <1>2 DEF Places
  <2>3. ASSUME NEW i \in B PROVE i + m \in Places(x, a \o b)
    BY <1>1, <1>2 DEF Places
  <2> HIDE DEF A, B
  <2> QED BY <2>1, <2>2, <2>3
<1> HIDE DEF A, B, T
<1>7. Cardinality(A \cup T) = Cardinality(A) + Cardinality(T)
  BY <1>3, <1>4, <1>5, DisjointUnion
<1> QED BY <1>3, <1>4, <1>6, <1>7

\* The sets part[k] stand for the places of x in the sequences seqs[k].
Parts(part, x, seqs) ==
  /\ \A k \in 1..Len(seqs) : IsFiniteSet(part[k]) /\ Cardinality(part[k]) = Times(x, seqs[k])
  /\ \A j, k \in 1..Len(seqs) : j # k => part[j] \cap part[k] = {}

UpToPart(part, n) == UNION {part[k] : k \in 1..n}

\* An item occurs in a flattened sequence as often as in the parts.
LEMMA TimesOfFlatten ==
  ASSUME NEW X, NEW seqs \in Seq(Seq(X)), NEW x, NEW part, Parts(part, x, seqs)
  PROVE  /\ IsFiniteSet(UpToPart(part, Len(seqs)))
         /\ Cardinality(UpToPart(part, Len(seqs))) = Times(x, FlattenSeq(seqs))
<1> DEFINE n == Len(seqs)
           upTo(k) == UpToPart(part, k)
<1>1. n \in Nat /\ \A k \in 1..n : seqs[k] \in Seq(X)
  OBVIOUS
<1>2. /\ \A k \in 1..n : IsFiniteSet(part[k]) /\ Cardinality(part[k]) = Times(x, seqs[k])
      /\ \A j, k \in 1..n : j # k => part[j] \cap part[k] = {}
  BY DEF Parts
<1>3. PICK f : /\ \A k \in 0..n : f[k] \in Seq(X)
               /\ f[0] = <<>>
               /\ \A i \in 1..n : f[i] = f[i - 1] \o seqs[i]
               /\ FlattenSeq(seqs) = f[n]
  BY FlattenSteps
<1> DEFINE P(k) == IsFiniteSet(upTo(k)) /\ Cardinality(upTo(k)) = Times(x, f[k])
           S == {k \in 0..n : P(k)}
<1> HIDE DEF n
<1>4. P(0)
  <2>1. upTo(0) = {}
    <3>1. \A j : j \notin 1..0
      OBVIOUS
    <3> QED BY <3>1 DEF UpToPart
  <2>2. Times(x, f[0]) = 0
    <3>1. Places(x, <<>>) = {}
      BY DEF Places
    <3>2. Times(x, <<>>) = Cardinality({})
      BY <3>1 DEF Times, Places
    <3> QED BY <1>3, <3>2, FS_EmptySet
  <2> HIDE DEF upTo
  <2> QED BY <2>1, <2>2, FS_EmptySet
<1>5. ASSUME NEW k \in 1..n, P(k - 1) PROVE P(k)
  <2>1. k - 1 \in 0..n /\ k \in 0..n
    BY <1>1
  <2>2. f[k - 1] \in Seq(X) /\ seqs[k] \in Seq(X) /\ f[k] = f[k - 1] \o seqs[k]
    BY <1>1, <1>3, <2>1
  <2>3. Times(x, f[k]) = Times(x, f[k - 1]) + Times(x, seqs[k])
    BY <2>2, TimesOfConcat
  <2>4. IsFiniteSet(upTo(k - 1)) /\ Cardinality(upTo(k - 1)) = Times(x, f[k - 1])
    BY <1>5
  <2>5. IsFiniteSet(part[k]) /\ Cardinality(part[k]) = Times(x, seqs[k])
    BY <1>2
  <2>6. upTo(k) = upTo(k - 1) \cup part[k]
    <3>1. \A j : j \in 1..k <=> j \in 1..(k - 1) \/ j = k
      BY <1>1
    <3> QED BY <3>1 DEF UpToPart
  <2>7. upTo(k - 1) \cap part[k] = {}
    <3>1. \A j \in 1..(k - 1) : j \in 1..n /\ j # k
      BY <1>1
    <3> QED BY <1>2, <3>1 DEF UpToPart
  <2>8. Times(x, f[k - 1]) \in Nat /\ Times(x, seqs[k]) \in Nat
    BY <2>2, PlacesFinite
  <2> HIDE DEF upTo
  <2>9. /\ IsFiniteSet(upTo(k - 1) \cup part[k])
        /\ Cardinality(upTo(k - 1) \cup part[k]) = Cardinality(upTo(k - 1)) + Cardinality(part[k])
    BY <2>4, <2>5, <2>7, DisjointUnion
  <2> QED BY <2>3, <2>4, <2>5, <2>6, <2>8, <2>9
<1>6. P(n)
  <2> HIDE DEF P
  <2>1. 0 \in S /\ \A k \in 1..n : k - 1 \in S => k \in S
    BY <1>1, <1>4, <1>5
  <2> HIDE DEF S
  <2>2. 0..n \subseteq S
    BY <1>1, <2>1, UpTo
  <2>3. n \in S
    BY <1>1, <2>2
  <2> QED BY <2>3 DEF S
<1> HIDE DEF upTo
<1>7. IsFiniteSet(upTo(n)) /\ Cardinality(upTo(n)) = Times(x, FlattenSeq(seqs))
  BY <1>3, <1>6
<1> QED BY <1>7 DEF n, upTo

\* The places of an item in the columns.
Spots(x, columns) ==
  { p \in (1..Len(columns)) \X Nat : p[2] \in DOMAIN columns[p[1]] /\ columns[p[1]][p[2]] = x }

\* Laid end to end, the columns hold an item once for each of its places.
LEMMA TimesOfSpots ==
  ASSUME NEW X, NEW columns \in Seq(Seq(X)), NEW x
  PROVE  /\ IsFiniteSet(Spots(x, columns))
         /\ Cardinality(Spots(x, columns)) = Times(x, FlattenSeq(columns))
         /\ Times(x, FlattenSeq(columns)) \in Nat
<1> DEFINE n == Len(columns)
           part == [k \in 1..n |-> {k} \X Places(x, columns[k])]
<1>1. n \in Nat /\ \A k \in 1..n : columns[k] \in Seq(X)
  OBVIOUS
<1>2. \A k \in 1..n : part[k] = {k} \X Places(x, columns[k])
  OBVIOUS
<1> HIDE DEF n, part
<1>3. \A k \in 1..n : IsFiniteSet(part[k]) /\ Cardinality(part[k]) = Times(x, columns[k])
  <2> TAKE k \in 1..n
  <2>1. /\ IsFiniteSet(Places(x, columns[k]))
        /\ Times(x, columns[k]) = Cardinality(Places(x, columns[k]))
        /\ Cardinality(Places(x, columns[k])) \in Nat
    BY <1>1, PlacesFinite
  <2>2. IsFiniteSet({k}) /\ Cardinality({k}) = 1
    BY FS_Singleton
  <2>3. /\ IsFiniteSet({k} \X Places(x, columns[k]))
        /\ Cardinality({k} \X Places(x, columns[k])) = 1 * Cardinality(Places(x, columns[k]))
    BY <2>1, <2>2, FS_Product
  <2>4. 1 * Cardinality(Places(x, columns[k])) = Cardinality(Places(x, columns[k]))
    BY <2>1
  <2>5. part[k] = {k} \X Places(x, columns[k])
    BY <1>2
  <2> QED BY <2>1, <2>3, <2>4, <2>5
<1>4. \A j, k \in 1..n : j # k => part[j] \cap part[k] = {}
  BY <1>2
<1>5. Spots(x, columns) = UpToPart(part, n)
  <2>1. ASSUME NEW p \in Spots(x, columns) PROVE p \in UpToPart(part, n)
    <3>1. p[1] \in 1..n /\ p = <<p[1], p[2]>> /\ p[2] \in Places(x, columns[p[1]])
      BY DEF Spots, Places, n
    <3>2. p \in part[p[1]]
      BY <1>2, <3>1
    <3> QED BY <3>1, <3>2 DEF UpToPart
  <2>2. ASSUME NEW k \in 1..n, NEW p \in part[k] PROVE p \in Spots(x, columns)
    <3>1. Places(x, columns[k]) \in SUBSET (1..Len(columns[k]))
      BY <1>1, PlacesFinite
    <3>2. columns[k] \in Seq(X)
      BY <1>1
    <3>3. PICK i \in Places(x, columns[k]) : p = <<k, i>>
      BY <1>2
    <3>4. i \in Nat
      BY <3>1, <3>2
    <3> QED BY <3>3, <3>4 DEF Spots, Places, n
  <2> QED BY <2>1, <2>2 DEF UpToPart
<1>6. IsFiniteSet(Spots(x, columns)) /\ Cardinality(Spots(x, columns)) = Times(x, FlattenSeq(columns))
  <2>1. Parts(part, x, columns)
    BY <1>3, <1>4 DEF Parts, n
  <2> QED BY <1>5, <2>1, TimesOfFlatten DEF n
<1> QED BY <1>6, FS_CardinalityType

-----------------------------------------------------------------------------
(* The layout keeps all. *)

\* What placing an item that has a cover adds to the counts.
Adds(x, item) == IF item = x /\ item \notin Coverless THEN 1 ELSE 0

LEMMA PlaceCounts ==
  ASSUME NEW X, \A y \in X : Height[y] \in Nat,
         NEW columns \in Seq(Seq(X)), columns # <<>>, NEW item \in X, NEW x
  PROVE  Times(x, FlattenSeq(Place(columns, item))) = Times(x, FlattenSeq(columns)) + Adds(x, item)
<1> DEFINE c == Shortest(columns)
           n == Len(columns)
           new == Place(columns, item)
           m == Len(columns[c])
<1>1. c \in 1..n /\ n \in Nat
  <2>1. c \in DOMAIN columns
    BY ShortestIs
  <2> HIDE DEF c
  <2> QED BY <2>1
<1>2. new \in Seq(Seq(X)) /\ Len(new) = n
  BY PlaceTyped
<1>3. /\ IsFiniteSet(Spots(x, columns)) /\ Cardinality(Spots(x, columns)) = Times(x, FlattenSeq(columns))
      /\ Cardinality(Spots(x, new)) = Times(x, FlattenSeq(new))
      /\ Times(x, FlattenSeq(columns)) \in Nat
  BY <1>2, TimesOfSpots
<1>4. CASE item \in Coverless
  <2>1. new = columns /\ Adds(x, item) = 0
    BY <1>4 DEF Place, Adds
  <2> QED BY <1>3, <2>1
<1>5. CASE item \notin Coverless
  <2>1. new = [columns EXCEPT ![c] = Append(columns[c], item)]
    BY <1>5 DEF Place
  <2> HIDE DEF c, new
  <2>2. columns[c] \in Seq(X) /\ m \in Nat
    BY <1>1
  <2>3. /\ new[c] = Append(columns[c], item)
        /\ \A d \in 1..n : d # c => new[d] = columns[d]
    BY <1>1, <2>1
  <2>4. /\ DOMAIN new[c] = 1..(m + 1) /\ DOMAIN columns[c] = 1..m
        /\ \A i \in 1..m : new[c][i] = columns[c][i]
        /\ new[c][m + 1] = item
    BY <2>2, <2>3
  <2> HIDE DEF n, m
  <2>5. ASSUME NEW d \in 1..n, NEW i \in Nat
        PROVE  <<d, i>> \in Spots(x, new) <=>
                 <<d, i>> \in Spots(x, columns) \/ (d = c /\ i = m + 1 /\ item = x)
    <3>1. <<d, i>> \in Spots(x, new) <=> i \in DOMAIN new[d] /\ new[d][i] = x
      BY <1>2 DEF Spots
    <3>2. <<d, i>> \in Spots(x, columns) <=> i \in DOMAIN columns[d] /\ columns[d][i] = x
      BY DEF Spots, n
    <3>3. CASE d = c
      <4>1. i \in 1..(m + 1) <=> i \in 1..m \/ i = m + 1
        BY <2>2
      <4>2. m + 1 \notin 1..m
        BY <2>2
      <4> QED BY <2>4, <3>1, <3>2, <3>3, <4>1, <4>2
    <3>4. CASE d # c
      BY <2>3, <3>1, <3>2, <3>4
    <3> QED BY <3>3, <3>4
  <2>6. \A p \in Spots(x, new) \cup Spots(x, columns) : \E d \in 1..n, i \in Nat : p = <<d, i>>
    BY <1>2 DEF Spots, n
  <2>7. CASE item = x
    <3>1. Spots(x, new) = Spots(x, columns) \cup {<<c, m + 1>>}
      <4>1. <<c, m + 1>> \in Spots(x, new)
        BY <1>1, <2>2, <2>5, <2>7
      <4> QED BY <2>5, <2>6, <2>7, <4>1
    <3>2. <<c, m + 1>> \notin Spots(x, columns)
      BY <2>2, <2>4 DEF Spots
    <3>3. Cardinality(Spots(x, new)) = Cardinality(Spots(x, columns)) + 1
      BY <1>3, <3>1, <3>2, FS_AddElement
    <3> QED BY <1>3, <1>5, <2>7, <3>3 DEF Adds, new
  <2>8. CASE item # x
    <3>1. \A p : p \in Spots(x, new) <=> p \in Spots(x, columns)
      BY <2>5, <2>6, <2>8
    <3>2. Spots(x, new) = Spots(x, columns)
      BY <3>1
    <3> QED BY <1>3, <2>8, <3>2 DEF Adds, new
  <2> QED BY <2>7, <2>8
<1> QED BY <1>4, <1>5

\* How often x is placed when `items` are.
Covered(x, items) == IF x \in Coverless THEN 0 ELSE Times(x, items)

LEMMA PlaceAllCounts ==
  ASSUME NEW X, \A y \in X : Height[y] \in Nat,
         NEW columns \in Seq(Seq(X)), columns # <<>>, NEW items \in Seq(X)
  PROVE  /\ PlaceAll(columns, items) \in Seq(Seq(X))
         /\ Len(PlaceAll(columns, items)) = Len(columns)
         /\ \A x : Times(x, FlattenSeq(PlaceAll(columns, items)))
                     = Times(x, FlattenSeq(columns)) + Covered(x, items)
<1> DEFINE n == Len(items)
<1>1. n \in Nat /\ DOMAIN items = 1..n /\ \A k \in 1..n : items[k] \in X
  OBVIOUS
<1>2. PICK f : /\ \A k \in 0..n : f[k] \in Seq(Seq(X))
               /\ f[0] = columns
               /\ \A k \in 1..n : f[k] = Place(f[k - 1], items[k])
               /\ f[n] = PlaceAll(columns, items)
  BY PlaceSteps
<1> HIDE DEF n
<1>3. 0 \in 0..n /\ n \in 0..n
  BY <1>1
<1>4. Len(f[n]) = Len(columns) /\ \A k \in 0..n : Len(f[k]) = Len(columns)
  <2> DEFINE S == {k \in 0..n : Len(f[k]) = Len(columns)}
  <2>1. 0 \in S
    BY <1>2, <1>3
  <2>2. ASSUME NEW k \in 1..n, k - 1 \in S PROVE k \in S
    <3>1. k - 1 \in 0..n /\ k \in 0..n /\ items[k] \in X
      BY <1>1
    <3>2. Len(Place(f[k - 1], items[k])) = Len(f[k - 1])
      BY <1>2, <3>1, PlaceTyped
    <3> QED BY <1>2, <2>2, <3>1, <3>2
  <2>3. 0..n \subseteq S
    <3> HIDE DEF S
    <3> QED BY <1>1, <2>1, <2>2, UpTo
  <2> QED BY <1>3, <2>3
<1>5. ASSUME NEW x
      PROVE  Times(x, FlattenSeq(f[n])) = Times(x, FlattenSeq(columns)) + Covered(x, items)
  <2> DEFINE Q(k) == {i \in 1..k : items[i] = x}
             N(k) == IF x \in Coverless THEN 0 ELSE Cardinality(Q(k))
             P(k) == Times(x, FlattenSeq(f[k])) = Times(x, FlattenSeq(columns)) + N(k)
             S == {k \in 0..n : P(k)}
  <2>1. \A k \in 0..n : IsFiniteSet(Q(k)) /\ Cardinality(Q(k)) \in Nat
    <3> TAKE k \in 0..n
    <3>1. k \in Int /\ IsFiniteSet(1..k)
      BY <1>1, FS_Interval
    <3>2. Q(k) \in SUBSET (1..k)
      OBVIOUS
    <3> QED BY <3>1, <3>2, FS_Subset, FS_CardinalityType
  <2>2. \A k \in 0..n : Times(x, FlattenSeq(f[k])) \in Nat
    BY <1>2, TimesOfSpots
  <2>3. 0 \in S
    <3>1. Q(0) = {}
      <4>1. \A i : i \notin 1..0
        OBVIOUS
      <4> QED BY <4>1
    <3>2. N(0) = 0
      BY <3>1, FS_EmptySet
    <3> HIDE DEF N
    <3> QED BY <1>2, <1>3, <2>2, <3>2
  <2>4. ASSUME NEW k \in 1..n, k - 1 \in S PROVE k \in S
    <3>1. k - 1 \in 0..n /\ k \in 0..n /\ items[k] \in X
      BY <1>1
    <3>2. f[k - 1] \in Seq(Seq(X)) /\ Len(f[k - 1]) = Len(columns)
      BY <1>2, <1>4, <3>1
    <3>3. f[k - 1] # <<>>
      BY <3>2
    <3>4. Times(x, FlattenSeq(f[k])) = Times(x, FlattenSeq(f[k - 1])) + Adds(x, items[k])
      <4>1. Times(x, FlattenSeq(Place(f[k - 1], items[k])))
              = Times(x, FlattenSeq(f[k - 1])) + Adds(x, items[k])
        <5> HIDE DEF P, S
        <5> QED BY <3>1, <3>2, <3>3, PlaceCounts
      <4>2. f[k] = Place(f[k - 1], items[k])
        BY <1>2
      <4> QED BY <4>1, <4>2
    <3>5. \A i : i \in 1..k <=> i \in 1..(k - 1) \/ i = k
      BY <1>1
    <3>6. k \notin 1..(k - 1)
      BY <1>1
    <3>7. N(k) = N(k - 1) + Adds(x, items[k])
      <4>1. CASE x \in Coverless
        BY <4>1 DEF Adds
      <4>2. CASE x \notin Coverless /\ items[k] = x
        <5>1. Q(k) = Q(k - 1) \cup {k} /\ k \notin Q(k - 1)
          BY <3>5, <3>6, <4>2
        <5>2. Cardinality(Q(k)) = Cardinality(Q(k - 1)) + 1
          <6> HIDE DEF Q
          <6> QED BY <2>1, <3>1, <5>1, FS_AddElement
        <5> HIDE DEF Q
        <5> QED BY <4>2, <5>2 DEF Adds
      <4>3. CASE x \notin Coverless /\ items[k] # x
        <5>1. Q(k) = Q(k - 1)
          BY <3>5, <4>3
        <5> HIDE DEF Q
        <5> QED BY <2>1, <3>1, <4>3, <5>1 DEF Adds
      <4> QED BY <4>1, <4>2, <4>3
    <3>8. N(k) \in Nat /\ N(k - 1) \in Nat /\ Adds(x, items[k]) \in Nat
      <4> HIDE DEF Q
      <4> QED BY <2>1, <3>1 DEF Adds
    <3>9. P(k - 1)
      BY <2>4
    <3>10. Times(x, FlattenSeq(columns)) \in Nat
      BY TimesOfSpots
    <3>11. P(k)
      <4> HIDE DEF N
      <4> QED BY <3>4, <3>7, <3>8, <3>9, <3>10
    <3> HIDE DEF P
    <3> QED BY <3>1, <3>11
  <2>5. P(n)
    <3> HIDE DEF P
    <3>1. 0..n \subseteq S
      <4> HIDE DEF S
      <4> QED BY <1>1, <2>3, <2>4, UpTo
    <3> QED BY <1>3, <3>1
  <2>6. N(n) = Covered(x, items)
    BY <1>1 DEF Covered, Times
  <2> HIDE DEF N
  <2> QED BY <2>5, <2>6
<1>6. f[n] \in Seq(Seq(X))
  BY <1>2, <1>3
<1> QED BY <1>2, <1>4, <1>5, <1>6

\* The longest column.
LEMMA Longest ==
  ASSUME NEW X, NEW columns \in Seq(Seq(X))
  PROVE  LET m == Max({0} \cup {Len(columns[c]) : c \in DOMAIN columns})
         IN  m \in Nat /\ \A c \in DOMAIN columns : Len(columns[c]) <= m
<1> DEFINE n == Len(columns)
           L == {0} \cup {Len(columns[c]) : c \in DOMAIN columns}
           S == {k \in 0..n : \E b \in Nat : \A c \in 1..k : Len(columns[c]) <= b}
<1>1. n \in Nat /\ DOMAIN columns = 1..n /\ \A c \in 1..n : Len(columns[c]) \in Nat
  <2>1. \A c \in 1..n : columns[c] \in Seq(X)
    OBVIOUS
  <2>2. \A c \in 1..n : Len(columns[c]) \in Nat
    BY <2>1
  <2> QED BY <2>2
<1> HIDE DEF n
<1>2. 0 \in S
  <2>1. \A c : c \notin 1..0
    OBVIOUS
  <2> QED BY <1>1, <2>1
<1>3. ASSUME NEW k \in 1..n, k - 1 \in S PROVE k \in S
  <2>1. PICK b \in Nat : \A c \in 1..(k - 1) : Len(columns[c]) <= b
    BY <1>3
  <2> DEFINE d == IF Len(columns[k]) <= b THEN b ELSE Len(columns[k])
  <2>2. d \in Nat /\ b <= d /\ Len(columns[k]) <= d
    BY <1>1
  <2>3. \A c \in 1..k : Len(columns[c]) \in Nat /\ (c \in 1..(k - 1) \/ c = k)
    BY <1>1
  <2> HIDE DEF d
  <2>4. \A c \in 1..k : Len(columns[c]) <= d
    BY <2>1, <2>2, <2>3
  <2>5. k \in 0..n
    BY <1>1
  <2> QED BY <2>2, <2>4, <2>5
<1>4. n \in S
  <2>1. 0..n \subseteq S
    <3> HIDE DEF S
    <3> QED BY <1>1, <1>2, <1>3, UpTo
  <2>2. n \in 0..n
    BY <1>1
  <2> HIDE DEF S
  <2> QED BY <2>1, <2>2
<1>5. PICK b \in Nat : \A c \in 1..n : Len(columns[c]) <= b
  BY <1>4
<1>6. L \in SUBSET (0..b) /\ L # {}
  BY <1>1, <1>5
<1>7. Max(L) \in L /\ \A y \in L : y <= Max(L)
  <2> HIDE DEF L
  <2> QED BY <1>6, MaxIs
<1>8. Max(L) \in Nat
  <2>1. \A y \in 0..b : y \in Nat
    OBVIOUS
  <2>2. L \subseteq Nat
    BY <1>6, <2>1
  <2> HIDE DEF L
  <2> QED BY <1>7, <2>2
<1>9. \A c \in DOMAIN columns : Len(columns[c]) \in L
  OBVIOUS
<1> HIDE DEF L
<1>10. Max(L) \in Nat /\ \A c \in DOMAIN columns : Len(columns[c]) <= Max(L)
  BY <1>7, <1>8, <1>9
<1> QED BY <1>10 DEF L

LEMMA FlattenTyped ==
  ASSUME NEW X, NEW seqs \in Seq(Seq(X))
  PROVE  FlattenSeq(seqs) \in Seq(X)
<1>1. PICK f : (\A k \in 0..Len(seqs) : f[k] \in Seq(X)) /\ FlattenSeq(seqs) = f[Len(seqs)]
  BY FlattenSteps
<1>2. Len(seqs) \in 0..Len(seqs)
  OBVIOUS
<1> QED BY <1>1, <1>2

\* The places of an item in row r.
InRow(x, columns, r) == {p \in Spots(x, columns) : p[2] = r}

\* A row has the items of the columns that are in it.
LEMMA RowCounts ==
  ASSUME NEW X, NEW columns \in Seq(Seq(X)), NEW r \in Nat \ {0}
  PROVE  /\ Row(columns, r) \in Seq(X)
         /\ \A x : /\ IsFiniteSet(InRow(x, columns, r))
                   /\ Cardinality(InRow(x, columns, r)) = Times(x, Row(columns, r))
<1> DEFINE n == Len(columns)
           cells == [c \in DOMAIN columns |-> IF r \in DOMAIN columns[c] THEN <<columns[c][r]>> ELSE <<>>]
<1>1. n \in Nat /\ DOMAIN columns = 1..n /\ \A c \in 1..n : columns[c] \in Seq(X)
  OBVIOUS
<1>2. \A c \in 1..n : cells[c] = IF r \in DOMAIN columns[c] THEN <<columns[c][r]>> ELSE <<>>
  BY <1>1
<1>3. \A c \in 1..n : cells[c] \in Seq(X)
  <2> TAKE c \in 1..n
  <2>1. CASE r \in DOMAIN columns[c]
    <3>1. columns[c][r] \in X
      BY <1>1, <2>1
    <3> QED BY <1>2, <2>1, <3>1
  <2>2. CASE r \notin DOMAIN columns[c]
    BY <1>2, <2>2
  <2> QED BY <2>1, <2>2
<1>4. cells \in Seq(Seq(X)) /\ Len(cells) = n
  <2>1. cells = [c \in 1..n |-> cells[c]]
    BY <1>1
  <2> HIDE DEF cells, n
  <2> QED BY <1>1, <1>3, <2>1, IsSequence
<1>5. Row(columns, r) = FlattenSeq(cells)
  BY DEF Row
<1> HIDE DEF cells, n
<1>6. Row(columns, r) \in Seq(X)
  BY <1>4, <1>5, FlattenTyped
<1>7. ASSUME NEW x
      PROVE  /\ IsFiniteSet(InRow(x, columns, r))
             /\ Cardinality(InRow(x, columns, r)) = Times(x, Row(columns, r))
  <2> DEFINE S == InRow(x, columns, r)
             f == [p \in Spots(x, cells) |-> <<p[1], r>>]
  <2>1. /\ IsFiniteSet(Spots(x, cells))
        /\ Cardinality(Spots(x, cells)) = Times(x, FlattenSeq(cells))
    BY <1>4, TimesOfSpots
  <2>2. \A c \in 1..n : <<c, r>> \in S <=> r \in DOMAIN columns[c] /\ columns[c][r] = x
    BY DEF InRow, Spots, n
  <2>3. \A c \in 1..n, i \in Nat :
          <<c, i>> \in Spots(x, cells) <=> i = 1 /\ r \in DOMAIN columns[c] /\ columns[c][r] = x
    <3> TAKE c \in 1..n, i \in Nat
    <3>1. <<c, i>> \in Spots(x, cells) <=> i \in DOMAIN cells[c] /\ cells[c][i] = x
      BY <1>4 DEF Spots
    <3>2. CASE r \in DOMAIN columns[c]
      <4>1. cells[c] = <<columns[c][r]>>
        BY <1>2, <3>2
      <4>2. DOMAIN cells[c] = {1} /\ cells[c][1] = columns[c][r]
        BY <4>1
      <4> QED BY <3>1, <3>2, <4>2
    <3>3. CASE r \notin DOMAIN columns[c]
      <4>1. cells[c] = <<>>
        BY <1>2, <3>3
      <4>2. DOMAIN cells[c] = {}
        BY <4>1
      <4> QED BY <3>1, <3>3, <4>2
    <3> QED BY <3>2, <3>3
  <2>4. \A p \in Spots(x, cells) : \E c \in 1..n : p = <<c, 1>> /\ <<c, 1>> \in Spots(x, cells)
    <3>1. \A p \in Spots(x, cells) : \E c \in 1..n, i \in Nat : p = <<c, i>>
      BY <1>4 DEF Spots
    <3> QED BY <2>3, <3>1
  <2>5. \A p \in S : \E c \in 1..n : p = <<c, r>>
    BY DEF InRow, Spots, n
  <2> HIDE DEF S
  <2>6. \A p \in Spots(x, cells) : f[p] = <<p[1], r>>
    OBVIOUS
  <2> HIDE DEF f
  <2>7. \A p \in Spots(x, cells) : f[p] \in S
    <3> TAKE p \in Spots(x, cells)
    <3>1. PICK c \in 1..n : p = <<c, 1>> /\ <<c, 1>> \in Spots(x, cells)
      BY <2>4
    <3>2. f[p] = <<c, r>>
      BY <2>6, <3>1
    <3>3. r \in DOMAIN columns[c] /\ columns[c][r] = x
      BY <2>3, <3>1
    <3> QED BY <2>2, <3>2, <3>3
  <2>8. \A p, q \in Spots(x, cells) : f[p] = f[q] => p = q
    <3> TAKE p, q \in Spots(x, cells)
    <3>1. PICK c \in 1..n : p = <<c, 1>>
      BY <2>4
    <3>2. PICK d \in 1..n : q = <<d, 1>>
      BY <2>4
    <3>3. f[p] = <<c, r>> /\ f[q] = <<d, r>>
      BY <2>6, <3>1, <3>2
    <3> QED BY <3>1, <3>2, <3>3
  <2>9. \A p \in S : \E q \in Spots(x, cells) : f[q] = p
    <3> TAKE p \in S
    <3>1. PICK c \in 1..n : p = <<c, r>>
      BY <2>5
    <3>2. <<c, 1>> \in Spots(x, cells)
      BY <2>2, <2>3, <3>1
    <3> QED BY <2>6, <3>1, <3>2
  <2>10. IsFiniteSet(S) /\ Cardinality(S) = Cardinality(Spots(x, cells))
    BY <2>1, <2>7, <2>8, <2>9, SameSize
  <2> QED BY <1>5, <2>1, <2>10 DEF S
<1> QED BY <1>6, <1>7

\* Row by row, the columns hold what they hold column by column.
LEMMA ByRowsCounts ==
  ASSUME NEW X, NEW columns \in Seq(Seq(X))
  PROVE  /\ ByRows(columns) \in Seq(X)
         /\ \A x : Times(x, ByRows(columns)) = Times(x, FlattenSeq(columns))
<1> DEFINE m == Max({0} \cup {Len(columns[c]) : c \in DOMAIN columns})
           rows == [r \in 1..m |-> Row(columns, r)]
<1>1. m \in Nat /\ \A c \in DOMAIN columns : Len(columns[c]) <= m
  BY Longest
<1>2. ByRows(columns) = FlattenSeq(rows)
  BY DEF ByRows
<1> HIDE DEF m
<1>3. \A r \in 1..m : r \in Nat \ {0}
  BY <1>1
<1>4. \A r \in 1..m : rows[r] = Row(columns, r) /\ rows[r] \in Seq(X)
  BY <1>3, RowCounts
<1>5. rows = [r \in 1..m |-> rows[r]]
  OBVIOUS
<1> HIDE DEF rows
<1>6. rows \in Seq(Seq(X)) /\ Len(rows) = m
  BY <1>1, <1>4, <1>5
<1>7. ASSUME NEW x PROVE Times(x, ByRows(columns)) = Times(x, FlattenSeq(columns))
  <2> DEFINE part == [r \in 1..m |-> InRow(x, columns, r)]
  <2>1. \A r \in 1..m : part[r] = InRow(x, columns, r)
    OBVIOUS
  <2> HIDE DEF part
  <2>2. \A r \in 1..m : IsFiniteSet(part[r]) /\ Cardinality(part[r]) = Times(x, rows[r])
    <3> TAKE r \in 1..m
    <3>1. r \in Nat \ {0} /\ rows[r] = Row(columns, r) /\ part[r] = InRow(x, columns, r)
      BY <1>3, <1>4, <2>1
    <3>2. /\ IsFiniteSet(InRow(x, columns, r))
          /\ Cardinality(InRow(x, columns, r)) = Times(x, Row(columns, r))
      BY <3>1, RowCounts
    <3> QED BY <3>1, <3>2
  <2>3. Parts(part, x, rows)
    <3>1. \A j, k \in 1..m : j # k => part[j] \cap part[k] = {}
      BY <2>1 DEF InRow
    <3> QED BY <1>6, <2>2, <3>1 DEF Parts
  <2>4. \A p \in Spots(x, columns) : p[2] \in 1..m
    <3> TAKE p \in Spots(x, columns)
    <3>1. p[1] \in DOMAIN columns /\ p[2] \in DOMAIN columns[p[1]] /\ columns[p[1]] \in Seq(X)
      BY DEF Spots
    <3>2. Len(columns[p[1]]) <= m /\ Len(columns[p[1]]) \in Nat /\ p[2] \in 1..Len(columns[p[1]])
      BY <1>1, <3>1
    <3> QED BY <1>1, <3>2
  <2>5. UpToPart(part, m) = Spots(x, columns)
    BY <2>1, <2>4 DEF UpToPart, InRow
  <2>6. Cardinality(UpToPart(part, m)) = Times(x, FlattenSeq(rows))
    BY <1>6, <2>3, TimesOfFlatten
  <2> QED BY <1>2, <2>5, <2>6, TimesOfSpots
<1>8. ByRows(columns) \in Seq(X)
  BY <1>2, <1>6, FlattenTyped
<1> QED BY <1>7, <1>8

\* Empty columns hold nothing.
LEMMA EmptyHolds ==
  ASSUME NEW X, NEW n \in Nat \ {0}
  PROVE  /\ Empty(n) \in Seq(Seq(X)) /\ Len(Empty(n)) = n /\ Empty(n) # <<>>
         /\ \A x : Times(x, FlattenSeq(Empty(n))) = 0
<1> DEFINE e == Empty(n)
<1>1. e = [c \in 1..n |-> e[c]] /\ \A c \in 1..n : e[c] = <<>>
  BY DEF Empty
<1>2. \A c \in 1..n : e[c] \in Seq(X)
  <2>1. <<>> \in Seq(X)
    OBVIOUS
  <2> QED BY <1>1, <2>1
<1> HIDE DEF e
<1>3. e \in Seq(Seq(X)) /\ Len(e) = n
  BY <1>1, <1>2, IsSequence
<1>4. e # <<>>
  BY <1>3
<1>5. \A x : Times(x, FlattenSeq(e)) = 0
  <2> TAKE x
  <2>1. Spots(x, e) = {}
    BY <1>1, <1>3 DEF Spots
  <2> QED BY <1>3, <2>1, TimesOfSpots, FS_EmptySet
<1> QED BY <1>3, <1>4, <1>5 DEF e

\* Whatever was laid out and into however many columns, a new layout holds the same items, as
\* often, but posts without a cover (the width effect of results.rs).
THEOREM RelayoutKeepsAll ==
  ASSUME NEW X, \A y \in X : Height[y] \in Nat, NEW columns \in Seq(Seq(X)), NEW n \in Nat \ {0}
  PROVE  /\ Relayout(columns, n) \in Seq(Seq(X))
         /\ Len(Relayout(columns, n)) = n
         /\ \A x : Times(x, FlattenSeq(Relayout(columns, n)))
                     = IF x \in Coverless THEN 0 ELSE Times(x, FlattenSeq(columns))
<1> DEFINE new == Relayout(columns, n)
<1>1. ByRows(columns) \in Seq(X) /\ \A x : Times(x, ByRows(columns)) = Times(x, FlattenSeq(columns))
  BY ByRowsCounts
<1>2. /\ Empty(n) \in Seq(Seq(X)) /\ Len(Empty(n)) = n /\ Empty(n) # <<>>
      /\ \A x : Times(x, FlattenSeq(Empty(n))) = 0
  BY EmptyHolds
<1>5. /\ new \in Seq(Seq(X)) /\ Len(new) = n
      /\ \A x : Times(x, FlattenSeq(new)) = Times(x, FlattenSeq(Empty(n))) + Covered(x, ByRows(columns))
  BY <1>1, <1>2, PlaceAllCounts DEF Relayout
<1>6. ASSUME NEW x
      PROVE  Times(x, FlattenSeq(new)) = IF x \in Coverless THEN 0 ELSE Times(x, FlattenSeq(columns))
  <2>1. Times(x, FlattenSeq(columns)) \in Nat
    BY TimesOfSpots
  <2> HIDE DEF new
  <2> QED BY <1>1, <1>2, <1>5, <2>1 DEF Covered
<1> QED BY <1>5, <1>6
=============================================================================
