-------------------------- MODULE MaterialStepProofs --------------------------
(***************************************************************************)
(* Proofs about MaterialStep, for every set of scenes, configurations and  *)
(* orders:                                                                 *)
(*  - the cut is monotone in the weights (CutsMonotone), from the sums of  *)
(*    costs below a cut;                                                   *)
(*  - the plans of two ranks are the whole plan taken apart                *)
(*    (PlansTakenApart), from listings of targets and flat indices;        *)
(*  - fields and memory stay in place in every stage of a half step        *)
(*    (MemoryInhabited), whence every configuration accepts the checkpoint *)
(*    of every other (CheckpointsLoad).                                    *)
(***************************************************************************)
EXTENDS MaterialStep, TLAPS, FiniteSetTheorems, WellFoundedInduction, NaturalsInduction,
  SequenceTheorems

(* The order of the naturals. *)
Less == OpToRel(<, Nat)

\* Their order is well founded.
LEMMA LessWellFounded == IsWellFoundedOn(Less, Nat)
  BY NatLessThanWellFounded DEF OpToRel, Less

\* A nonempty set of naturals has a least element.
LEMMA LeastExists ==
  ASSUME NEW S, S \subseteq Nat, S # {}
  PROVE  \E i \in S : \A j \in S : i <= j
<1>1. PICK i \in S : \A j \in S : ~(<<j, i>> \in Less)
  BY LessWellFounded, WFMin, Zenon
<1>2. ASSUME NEW j \in S PROVE i <= j
  <2>1. i \in Nat /\ j \in Nat
    OBVIOUS
  <2>2. j < i => <<j, i>> \in Less
    BY <2>1 DEF Less, OpToRel
  <2>3. ~(j < i)
    BY <1>1, <2>2
  <2> QED BY <2>1, <2>3
<1> QED BY <1>2

\* Induction over a set of naturals.
LEMMA SetInduction ==
  ASSUME NEW T, 0 \in T, \A k \in Nat : k \in T => k + 1 \in T
  PROVE  Nat \subseteq T
<1> SUFFICES ASSUME Nat \ T # {} PROVE FALSE
  OBVIOUS
<1>1. PICK k \in Nat \ T : \A j \in Nat \ T : k <= j
  BY LeastExists
<1>2. k # 0 /\ k - 1 \in Nat /\ k - 1 \in T
  BY <1>1
<1> QED BY <1>1, <1>2

-----------------------------------------------------------------------------
(* Sums over a finite set: g is the recursion a fold by addition unfolds   *)
(* to, val the summands, and pick the order they are taken in.             *)
SumStep(g, s, val, pick) ==
  IF s = {} THEN 0 ELSE g[s \ {pick[s]}] + val[pick[s]]

Sums(g, S, val, pick) == g = [s \in SUBSET S |-> SumStep(g, s, val, pick)]

Picks(pick, S) == \A s \in SUBSET S : s # {} => pick[s] \in s

\* Finite sets have a cardinality.
LEMMA SizeNatural ==
  ASSUME NEW S, IsFiniteSet(S), NEW s \in SUBSET S
  PROVE  Cardinality(s) \in Nat /\ Cardinality(s) <= Cardinality(S) /\ Cardinality(S) \in Nat
BY FS_Subset, FS_CardinalityType

\* Taking an element out leaves a smaller set.
LEMMA OneLess ==
  ASSUME NEW S, IsFiniteSet(S), NEW pick, Picks(pick, S), NEW s \in SUBSET S
  PROVE  /\ Cardinality(s) \in Nat
         /\ s # {} => /\ s \ {pick[s]} \in SUBSET S
                      /\ Cardinality(s \ {pick[s]}) < Cardinality(s)
<1>1. IsFiniteSet(s)
  BY FS_Subset
<1>2. Cardinality(s) \in Nat
  BY SizeNatural
<1>3. ASSUME s # {} PROVE Cardinality(s \ {pick[s]}) < Cardinality(s)
  <2>1. pick[s] \in s
    BY <1>3 DEF Picks
  <2>2. Cardinality(s \ {pick[s]}) = Cardinality(s) - 1
    BY <1>1, <2>1, FS_RemoveElement
  <2> QED BY <1>2, <2>2
<1> QED BY <1>2, <1>3

\* The recursion has a solution.
LEMMA SumsExist ==
  ASSUME NEW S, IsFiniteSet(S), NEW pick, Picks(pick, S), NEW val
  PROVE  \E g : Sums(g, S, val, pick)
<1> DEFINE Sized(k) == {s \in SUBSET S : Cardinality(s) < k}
           Solves(g, k) == g = [s \in Sized(k) |-> SumStep(g, s, val, pick)]
           T == {k \in Nat : \E g : Solves(g, k)}
<1>1. 0 \in T
  <2>1. \A s \in SUBSET S : Cardinality(s) \in Nat
    BY SizeNatural
  <2>2. Sized(0) = {}
    BY <2>1
  <2>3. Solves([s \in {} |-> s], 0)
    BY <2>2
  <2> HIDE DEF Solves
  <2> QED BY <2>3
<1>2. ASSUME NEW k \in Nat, k \in T PROVE k + 1 \in T
  <2>1. PICK g : Solves(g, k)
    BY <1>2
  <2> DEFINE f == [s \in Sized(k + 1) |-> SumStep(g, s, val, pick)]
  <2>2. \A r \in Sized(k) : r \in Sized(k + 1) /\ f[r] = g[r]
    <3> TAKE r \in Sized(k)
    <3>1. r \in Sized(k + 1)
      <4>1. Cardinality(r) \in Nat
        BY SizeNatural
      <4> QED BY <4>1
    <3>2. g[r] = SumStep(g, r, val, pick)
      BY <2>1
    <3> HIDE DEF Sized
    <3> QED BY <3>1, <3>2
  <2>3. ASSUME NEW s \in Sized(k + 1) PROVE f[s] = SumStep(f, s, val, pick)
    <3>1. f[s] = SumStep(g, s, val, pick)
      BY <2>3
    <3>2. s # {} => s \ {pick[s]} \in Sized(k)
      <4>1. /\ s \in SUBSET S /\ Cardinality(s) \in Nat /\ Cardinality(s) < k + 1
            /\ s # {} => /\ s \ {pick[s]} \in SUBSET S
                         /\ Cardinality(s \ {pick[s]}) < Cardinality(s)
        BY OneLess
      <4>2. s # {} => Cardinality(s \ {pick[s]}) \in Nat
        BY <4>1, OneLess
      <4> QED BY <4>1, <4>2
    <3>3. s # {} => f[s \ {pick[s]}] = g[s \ {pick[s]}]
      BY <2>2, <3>2
    <3> HIDE DEF f
    <3> QED BY <3>1, <3>3 DEF SumStep
  <2>4. Solves(f, k + 1)
    <3>1. f = [s \in Sized(k + 1) |-> f[s]]
      OBVIOUS
    <3> HIDE DEF f, Sized
    <3> QED BY <2>3, <3>1
  <2> HIDE DEF Solves, f
  <2> QED BY <2>4
<1>3. Cardinality(S) + 1 \in T
  <2>1. Cardinality(S) + 1 \in Nat
    BY FS_CardinalityType
  <2> HIDE DEF T
  <2> QED BY <1>1, <1>2, <2>1, SetInduction
<1>4. PICK g : Solves(g, Cardinality(S) + 1)
  BY <1>3
<1>5. Sized(Cardinality(S) + 1) = SUBSET S
  <2>1. ASSUME NEW s \in SUBSET S PROVE Cardinality(s) < Cardinality(S) + 1
    <3>1. Cardinality(s) \in Nat /\ Cardinality(s) <= Cardinality(S) /\ Cardinality(S) \in Nat
      BY SizeNatural
    <3> QED BY <3>1
  <2> QED BY <2>1
<1> HIDE DEF Sized
<1> QED BY <1>4, <1>5 DEF Sums

\* A sum stays in a set of numbers that addition does not leave.
LEMMA SumsClosed ==
  ASSUME NEW V, 0 \in V, \A x, y \in V : x + y \in V,
         NEW S, IsFiniteSet(S), NEW pick, Picks(pick, S), NEW val,
         \A x \in S : val[x] \in V, NEW g, Sums(g, S, val, pick)
  PROVE  \A s \in SUBSET S : g[s] \in V
<1> DEFINE T == {k \in Nat : \A s \in SUBSET S : Cardinality(s) < k => g[s] \in V}
<1>1. 0 \in T
  <2>1. \A s \in SUBSET S : Cardinality(s) \in Nat
    BY SizeNatural
  <2> QED BY <2>1
<1>2. ASSUME NEW k \in Nat, k \in T PROVE k + 1 \in T
  <2> SUFFICES ASSUME NEW s \in SUBSET S, Cardinality(s) < k + 1 PROVE g[s] \in V
    OBVIOUS
  <2>1. g[s] = SumStep(g, s, val, pick)
    BY DEF Sums
  <2>2. CASE s = {}
    BY <2>1, <2>2 DEF SumStep
  <2>3. CASE s # {}
    <3> DEFINE r == s \ {pick[s]}
    <3>1. r \in SUBSET S /\ Cardinality(r) < Cardinality(s) /\ Cardinality(s) \in Nat
      BY <2>3, OneLess
    <3>2. Cardinality(r) \in Nat
      BY <3>1, OneLess
    <3>3. Cardinality(r) < k
      BY <3>1, <3>2
    <3>4. g[r] \in V
      BY <1>2, <3>1, <3>3
    <3>5. val[pick[s]] \in V
      BY <2>3 DEF Picks
    <3> QED BY <2>1, <2>3, <3>4, <3>5 DEF SumStep
  <2> QED BY <2>2, <2>3
<1>3. ASSUME NEW s \in SUBSET S PROVE g[s] \in V
  <2>1. Cardinality(s) \in Nat
    BY OneLess
  <2>2. Cardinality(s) + 1 \in T
    <3> HIDE DEF T
    <3> QED BY <1>1, <1>2, <2>1, SetInduction
  <2>3. Cardinality(s) < Cardinality(s) + 1
    BY <2>1
  <2> QED BY <2>2, <2>3
<1> QED BY <1>3

\* Sums of naturals are naturals.
LEMMA SumsNatural ==
  ASSUME NEW S, IsFiniteSet(S), NEW pick, Picks(pick, S), NEW val,
         \A x \in S : val[x] \in Nat, NEW g, Sums(g, S, val, pick)
  PROVE  \A s \in SUBSET S : g[s] \in Nat
<1>1. 0 \in Nat /\ \A x, y \in Nat : x + y \in Nat
  OBVIOUS
<1> QED BY <1>1, SumsClosed

\* Sums of integers are integers.
LEMMA SumsInteger ==
  ASSUME NEW S, IsFiniteSet(S), NEW pick, Picks(pick, S), NEW val,
         \A x \in S : val[x] \in Int, NEW g, Sums(g, S, val, pick)
  PROVE  \A s \in SUBSET S : g[s] \in Int
<1>1. 0 \in Int /\ \A x, y \in Int : x + y \in Int
  OBVIOUS
<1> QED BY <1>1, SumsClosed

-----------------------------------------------------------------------------
(* The estimate of a cut. *)
Sized(s) == s.n \in [Axes -> Nat \ {0}] /\ IsFiniteSet(DOMAIN s.sources)

Cells(s) == (0..(s.n[1] - 1)) \X (0..(s.n[2] - 1)) \X (0..(s.n[3] - 1))

\* A scene has finitely many cells.
LEMMA CellsFinite ==
  ASSUME NEW s, Sized(s)
  PROVE  IsFiniteSet(Cells(s))
<1> DEFINE I(a) == 0..(s.n[a] - 1)
           Q == (I(1) \X I(2)) \X I(3)
           f == [q \in Q |-> <<q[1][1], q[1][2], q[2]>>]
<1>1. \A a \in Axes : IsFiniteSet(I(a))
  <2> TAKE a \in Axes
  <2>1. s.n[a] - 1 \in Int
    BY DEF Sized
  <2> QED BY <2>1, FS_Interval
<1>2. IsFiniteSet(Q)
  <2> HIDE DEF I
  <2>1. IsFiniteSet(I(1)) /\ IsFiniteSet(I(2)) /\ IsFiniteSet(I(3))
    BY <1>1 DEF Axes
  <2>2. IsFiniteSet(I(1) \X I(2))
    BY <2>1, FS_Product
  <2> QED BY <2>1, <2>2, FS_Product
<1>3. f \in Surjection(Q, Cells(s))
  <2>1. f \in [Q -> Cells(s)]
    BY DEF Cells
  <2>2. ASSUME NEW v \in Cells(s) PROVE \E q \in Q : f[q] = v
    <3>1. v = <<v[1], v[2], v[3]>> /\ v[1] \in I(1) /\ v[2] \in I(2) /\ v[3] \in I(3)
      BY <2>2 DEF Cells
    <3>2. << <<v[1], v[2]>>, v[3] >> \in Q
      BY <3>1
    <3>3. f[<< <<v[1], v[2]>>, v[3] >>] = v
      BY <3>1, <3>2
    <3> QED BY <3>2, <3>3
  <2> HIDE DEF f, Q
  <2> QED BY <2>1, <2>2 DEF Surjection
<1> HIDE DEF f, Q
<1> QED BY <1>2, <1>3, FS_Surjection

\* The cost of a material is a natural.
LEMMA WeightNatural ==
  ASSUME NEW type
  PROVE  MaterialWeight(type) \in Nat
BY DEF MaterialWeight

\* So is that of a plane of cells.
LEMMA PlaneCostNatural ==
  ASSUME NEW s, Sized(s), NEW axis, NEW i
  PROVE  PlaneCost(s, axis, i) \in Nat
<1> DEFINE S == {v \in Cells(s) : v[axis] = i}
           centre(v) == [a \in Axes |-> 2 * v[a] + 1]
           weight(v) == MaterialWeight(Material(s, On(s, centre(v), Len(s.objects))).type)
           val == [v \in S |-> weight(v)]
           pick == [r \in SUBSET S |-> CHOOSE v \in r : TRUE]
           h == CHOOSE g : g = [r \in SUBSET S |->
                  IF r = {} THEN 0
                  ELSE g[r \ {CHOOSE v \in r : TRUE}] + weight(CHOOSE v \in r : TRUE)]
<1>1. PlaneCost(s, axis, i) = h[S]
  BY DEF PlaneCost, FoldSet, MapThenFoldSet, Cells
<1>2. IsFiniteSet(S)
  BY CellsFinite, FS_Subset
<1>3. \A v \in S : val[v] = weight(v) /\ val[v] \in Nat
  BY WeightNatural
<1>4. \A r \in SUBSET S : r # {} => pick[r] = (CHOOSE v \in r : TRUE) /\ pick[r] \in r
  OBVIOUS
<1> HIDE DEF S, weight, val, pick
<1>5. \A g : [r \in SUBSET S |->
                IF r = {} THEN 0
                ELSE g[r \ {CHOOSE v \in r : TRUE}] + weight(CHOOSE v \in r : TRUE)]
             = [r \in SUBSET S |-> SumStep(g, r, val, pick)]
  <2> TAKE g
  <2>1. ASSUME NEW r \in SUBSET S
        PROVE  (IF r = {} THEN 0
                ELSE g[r \ {CHOOSE v \in r : TRUE}] + weight(CHOOSE v \in r : TRUE))
               = SumStep(g, r, val, pick)
    <3>1. r # {} => /\ pick[r] = (CHOOSE v \in r : TRUE)
                    /\ val[pick[r]] = weight(pick[r])
      BY <1>3, <1>4
    <3> QED BY <3>1 DEF SumStep
  <2> QED BY <2>1
<1>6. Picks(pick, S)
  BY <1>4 DEF Picks
<1>7. Sums(h, S, val, pick)
  <2>1. \E g : Sums(g, S, val, pick)
    BY <1>2, <1>6, SumsExist
  <2> DEFINE X(g) == [r \in SUBSET S |->
                IF r = {} THEN 0
                ELSE g[r \ {CHOOSE v \in r : TRUE}] + weight(CHOOSE v \in r : TRUE)]
  <2>2. h = CHOOSE g : g = X(g)
    OBVIOUS
  <2>3. \A g : X(g) = [r \in SUBSET S |-> SumStep(g, r, val, pick)]
    BY <1>5
  <2> HIDE DEF X, h
  <2>4. h = X(h)
    <3>1. PICK g : g = [r \in SUBSET S |-> SumStep(g, r, val, pick)]
      BY <2>1 DEF Sums
    <3>2. X(g) = [r \in SUBSET S |-> SumStep(g, r, val, pick)]
      BY <2>3
    <3>3. \E q : q = X(q)
      BY <3>1, <3>2, Zenon
    <3> QED BY <2>2, <3>3, Zenon
  <2>5. X(h) = [r \in SUBSET S |-> SumStep(h, r, val, pick)]
    BY <2>3
  <2> QED BY <2>4, <2>5 DEF Sums
<1> HIDE DEF h
<1>8. h[S] \in Nat
  BY <1>2, <1>3, <1>6, <1>7, SumsNatural
<1> QED BY <1>1, <1>8

\* The greatest of the first naturals.
LEMMA MaxOfInterval ==
  /\ \A n \in Nat : \A S \in SUBSET (1..n) : S # {} => Max(S) \in S
  /\ \A k \in Nat : Max(1..(k + 1)) = k + 1 /\ (1..(k + 1)) \ {k + 1} = 1..k
<1>1. ASSUME NEW n \in Nat, NEW S \in SUBSET (1..n), S # {} PROVE Max(S) \in S
  <2> DEFINE M == {n - i : i \in S}
  <2>1. M \subseteq Nat /\ M # {}
    <3>1. ASSUME NEW i \in S PROVE n - i \in Nat
      <4>1. i \in 1..n
        OBVIOUS
      <4> QED BY <4>1
    <3> QED BY <1>1, <3>1
  <2>2. PICK m \in M : \A j \in M : m <= j
    BY <2>1, LeastExists
  <2>3. PICK i \in S : m = n - i
    BY <2>2
  <2>4. ASSUME NEW j \in S PROVE i >= j
    <3>1. n - j \in M
      OBVIOUS
    <3>2. n - i <= n - j
      BY <2>2, <2>3, <3>1
    <3> QED BY <3>2
  <2>5. \E x \in S : \A y \in S : x >= y
    BY <2>4
  <2> QED BY <2>5, Zenon DEF Max
<1>2. ASSUME NEW k \in Nat PROVE Max(1..(k + 1)) = k + 1 /\ (1..(k + 1)) \ {k + 1} = 1..k
  <2> DEFINE S == 1..(k + 1)
             m == CHOOSE x \in S : \A y \in S : x >= y
  <2>1. k + 1 \in S /\ \A y \in S : k + 1 >= y
    OBVIOUS
  <2>2. m \in S /\ \A y \in S : m >= y
    <3> HIDE DEF S
    <3> QED BY <2>1, Zenon
  <2>3. m = k + 1
    <3> HIDE DEF m
    <3> QED BY <2>1, <2>2
  <2> QED BY <2>3 DEF Max
<1> QED BY <1>1, <1>2

Accumulates(f, s, axis, cut) ==
  /\ CostBelow(s, axis, cut) = f[1..cut]
  /\ f[1..0] = 0
  /\ \A j \in Nat : j < cut => f[1..(j + 1)] = f[1..j] + PlaneCost(s, axis, j)

\* The prefix sums of a cost profile exist as a function.
LEMMA PrefixSums ==
  ASSUME NEW s, Sized(s), NEW axis, NEW cut \in Nat
  PROVE  \E f : Accumulates(f, s, axis, cut)
<1> DEFINE S == 1..cut
           seq == [i \in 1..cut |-> PlaneCost(s, axis, i - 1)]
           pick == [r \in SUBSET S |-> Max(r)]
           X(g) == [r \in SUBSET S |-> IF r = {} THEN 0 ELSE g[r \ {Max(r)}] + seq[Max(r)]]
           h == CHOOSE g : g = X(g)
<1>1. CostBelow(s, axis, cut) = h[S]
  <2>1. DOMAIN seq = S
    OBVIOUS
  <2>2. CostBelow(s, axis, cut) = SumOf(seq)
    BY DEF CostBelow
  <2> HIDE DEF seq, S
  <2>3. SumOf(seq) = h[S]
    BY <2>1 DEF SumOf, FoldLeft, MapThenFoldSet
  <2> QED BY <2>2, <2>3
<1>2. \A r \in SUBSET S : pick[r] = Max(r) /\ (r # {} => pick[r] \in r)
  BY MaxOfInterval
<1> HIDE DEF pick
<1>3. \A g : X(g) = [r \in SUBSET S |-> SumStep(g, r, seq, pick)]
  BY <1>2 DEF SumStep
<1> HIDE DEF X, h
<1>4. Picks(pick, S) /\ IsFiniteSet(S)
  BY <1>2, FS_Interval DEF Picks
<1>5. \E g : Sums(g, S, seq, pick)
  <2> HIDE DEF S, seq
  <2> QED BY <1>4, SumsExist
<1>6. h = X(h)
  <2>1. PICK g : g = [r \in SUBSET S |-> SumStep(g, r, seq, pick)]
    BY <1>5 DEF Sums
  <2>2. \E q : q = X(q)
    <3> HIDE DEF S, seq
    <3> QED BY <1>3, <2>1, Zenon
  <2> QED BY <2>2, Zenon DEF h
<1>7. \A r \in SUBSET S : h[r] = IF r = {} THEN 0 ELSE h[r \ {Max(r)}] + seq[Max(r)]
  BY <1>6 DEF X
<1>8. h[1..0] = 0
  <2>1. 1..0 = {} /\ 1..0 \in SUBSET S
    OBVIOUS
  <2> QED BY <1>7, <2>1
<1>9. ASSUME NEW j \in Nat, j < cut PROVE h[1..(j + 1)] = h[1..j] + PlaneCost(s, axis, j)
  <2>1. 1..(j + 1) \in SUBSET S /\ 1..(j + 1) # {}
    BY <1>9
  <2>2. h[1..(j + 1)] = h[1..j] + seq[j + 1]
    <3> HIDE DEF S, seq
    <3> QED BY <1>7, <2>1, MaxOfInterval
  <2>3. seq[j + 1] = PlaneCost(s, axis, j)
    BY <1>9
  <2> QED BY <2>2, <2>3
<1> QED BY <1>1, <1>8, <1>9 DEF Accumulates

\* A cut one plane further has that plane's cost more below it.
LEMMA CostStep ==
  ASSUME NEW s, Sized(s), NEW axis, NEW k \in Nat
  PROVE  /\ CostBelow(s, axis, 0) = 0
         /\ CostBelow(s, axis, k + 1) = CostBelow(s, axis, k) + PlaneCost(s, axis, k)
<1>1. PICK z : Accumulates(z, s, axis, 0)
  BY PrefixSums
<1>2. PICK f : Accumulates(f, s, axis, k)
  BY PrefixSums
<1>3. PICK g : Accumulates(g, s, axis, k + 1)
  BY PrefixSums
<1> DEFINE T == {j \in Nat : j <= k => f[1..j] = g[1..j]}
<1>4. 0 \in T
  BY <1>2, <1>3 DEF Accumulates
<1>5. ASSUME NEW j \in Nat, j \in T PROVE j + 1 \in T
  <2> SUFFICES ASSUME j + 1 <= k PROVE f[1..(j + 1)] = g[1..(j + 1)]
    OBVIOUS
  <2>1. j < k /\ j < k + 1 /\ j <= k
    OBVIOUS
  <2>2. f[1..j] = g[1..j]
    BY <1>5, <2>1
  <2> QED BY <1>2, <1>3, <2>1, <2>2 DEF Accumulates
<1>6. k \in T
  <2> HIDE DEF T
  <2> QED BY <1>4, <1>5, SetInduction
<1>7. f[1..k] = g[1..k] /\ k < k + 1
  BY <1>6
<1> QED BY <1>1, <1>2, <1>3, <1>7 DEF Accumulates

\* The cost below a cut is a natural and grows with the cut.
LEMMA CostGrows ==
  ASSUME NEW s, Sized(s), NEW axis
  PROVE  /\ \A k \in Nat : CostBelow(s, axis, k) \in Nat
         /\ \A c, d \in Nat : c <= d => CostBelow(s, axis, c) <= CostBelow(s, axis, d)
<1> DEFINE B(k) == CostBelow(s, axis, k)
           T == {k \in Nat : B(k) \in Nat}
<1>1. B(0) = 0
  <2>1. 0 \in Nat
    OBVIOUS
  <2> QED BY <2>1, CostStep
<1>2. \A k \in Nat : B(k + 1) = B(k) + PlaneCost(s, axis, k) /\ PlaneCost(s, axis, k) \in Nat
  BY CostStep, PlaneCostNatural
<1> HIDE DEF B
<1>3. \A k \in Nat : B(k) \in Nat
  <2>1. 0 \in T
    BY <1>1
  <2>2. \A k \in Nat : k \in T => k + 1 \in T
    BY <1>2
  <2>3. Nat \subseteq T
    <3> HIDE DEF T
    <3> QED BY <2>1, <2>2, SetInduction
  <2> QED BY <2>3
<1>4. ASSUME NEW c \in Nat, NEW d \in Nat, c <= d PROVE B(c) <= B(d)
  <2> DEFINE U == {k \in Nat : B(c) <= B(c + k)}
  <2>1. 0 \in U
    BY <1>3
  <2>2. ASSUME NEW k \in Nat, k \in U PROVE k + 1 \in U
    <3>1. c + k \in Nat /\ c + (k + 1) = (c + k) + 1
      OBVIOUS
    <3>2. B((c + k) + 1) = B(c + k) + PlaneCost(s, axis, c + k) /\ PlaneCost(s, axis, c + k) \in Nat
      BY <1>2, <3>1
    <3>3. B(c) \in Nat /\ B(c + k) \in Nat /\ B(c) <= B(c + k)
      BY <1>3, <2>2, <3>1
    <3> QED BY <3>1, <3>2, <3>3
  <2>3. d - c \in U
    <3>1. d - c \in Nat
      BY <1>4
    <3> HIDE DEF U
    <3> QED BY <2>1, <2>2, <3>1, SetInduction
  <2>4. c + (d - c) = d
    OBVIOUS
  <2> QED BY <2>3, <2>4
<1> QED BY <1>3, <1>4 DEF B

-----------------------------------------------------------------------------
(* How the estimates of two cuts change with the weights. *)
LEMMA Grows ==
  ASSUME NEW k \in Nat, NEW x \in Int, NEW y \in Int, x <= y
  PROVE  k * x <= k * y /\ k * x \in Int /\ k * y \in Int
<1>1. k * (y - x) >= 0
  BY SMT
<1>2. k * (y - x) = k * y - k * x
  BY SMT
<1>3. k * x \in Int /\ k * y \in Int
  OBVIOUS
<1> QED BY <1>1, <1>2, <1>3

\* Scaling commutes with taking the larger.
LEMMA LargerScales ==
  ASSUME NEW k \in Nat, NEW x \in Int, NEW y \in Int
  PROVE  /\ k * Larger(x, y) = Larger(k * x, k * y)
         /\ Larger(x, y) \in Int
<1>1. CASE x >= y
  BY <1>1, Grows DEF Larger
<1>2. CASE x <= y
  BY <1>2, Grows DEF Larger
<1> QED BY <1>1, <1>2 DEF Larger

\* Of two cuts, the one further up gains from a larger first weight: u and v are
\* the factors of the parts below and above at the smaller weight, x and y at the
\* larger one.
LEMMA FurtherGains ==
  ASSUME NEW u \in Nat, NEW v \in Nat, NEW x \in Nat, NEW y \in Nat, x <= u, v <= y,
         NEW b \in Nat, NEW B \in Nat, NEW a \in Nat, NEW A \in Nat, b <= B, A <= a
  PROVE  Larger(x * B, y * A) + Larger(u * b, v * a)
           <= Larger(u * B, v * A) + Larger(x * b, y * a)
<1> DEFINE uB == u * B
           ub == u * b
           xB == x * B
           xb == x * b
           yA == y * A
           ya == y * a
           vA == v * A
           va == v * a
<1>1. /\ uB \in Int /\ ub \in Int /\ xB \in Int /\ xb \in Int
      /\ yA \in Int /\ ya \in Int /\ vA \in Int /\ va \in Int
  OBVIOUS
<1>2. ub <= uB /\ yA <= ya
  BY Grows
<1>3. xB <= uB /\ va <= ya
  <2>1. B * x <= B * u /\ a * v <= a * y
    BY Grows
  <2> QED BY <2>1
<1>4. xB - xb <= uB - ub
  <2>1. (B - b) * x <= (B - b) * u
    <3>1. B - b \in Nat
      OBVIOUS
    <3> QED BY <3>1, Grows
  <2>2. (B - b) * x = xB - xb /\ (B - b) * u = uB - ub
    BY SMT
  <2> QED BY <2>1, <2>2
<1>5. va - vA <= ya - yA
  <2>1. (a - A) * v <= (a - A) * y
    <3>1. a - A \in Nat
      OBVIOUS
    <3> QED BY <3>1, Grows
  <2>2. (a - A) * v = va - vA /\ (a - A) * y = ya - yA
    BY SMT
  <2> QED BY <2>1, <2>2
<1> HIDE DEF uB, ub, xB, xb, yA, ya, vA, va
<1>6. Larger(xB, yA) + Larger(ub, va) <= Larger(uB, vA) + Larger(xb, ya)
  BY <1>1, <1>2, <1>3, <1>4, <1>5 DEF Larger
<1> QED BY <1>6 DEF uB, ub, xB, xb, yA, ya, vA, va

\* The estimate of a cut with b below and a above, at weights p and q, when the
\* exchange costs k.
CostOf(p, q, b, a, k) == (p + q) * Larger(b * q, a * p) + p * q * k

\* The same for the estimates themselves, at weights p, q and r, t of the devices.
LEMMA EstimateGains ==
  ASSUME NEW p \in Nat \ {0}, NEW q \in Nat \ {0}, NEW r \in Nat \ {0}, NEW t \in Nat \ {0},
         r * q >= p * t,
         NEW b \in Nat, NEW B \in Nat, NEW a \in Nat, NEW A \in Nat, b <= B, A <= a,
         NEW k \in Nat, NEW K \in Nat,
         CostOf(p, q, B, A, K) < CostOf(p, q, b, a, k)
  PROVE  CostOf(r, t, B, A, K) < CostOf(r, t, b, a, k)
<1> DEFINE pq == p * q
           rt == r * t
           u == rt * (p + q) * q
           v == rt * (p + q) * p
           x == pq * (r + t) * t
           y == pq * (r + t) * r
<1>1. pq \in Nat \ {0} /\ rt \in Nat \ {0}
  BY SMT
<1>2. u \in Nat /\ v \in Nat /\ x \in Nat /\ y \in Nat
  BY SMT
<1>3. x <= u
  <2>1. (q * t) * (p * t) <= (q * t) * (r * q)
    BY Grows, SMT
  <2>2. u - x = (q * t) * (r * q) - (q * t) * (p * t)
    BY SMT
  <2> QED BY <1>2, <2>1, <2>2
<1>4. v <= y
  <2>1. (p * r) * (p * t) <= (p * r) * (r * q)
    BY Grows, SMT
  <2>2. y - v = (p * r) * (r * q) - (p * r) * (p * t)
    BY SMT
  <2> QED BY <1>2, <2>1, <2>2
<1>5. ASSUME NEW i \in Nat, NEW j \in Nat
      PROVE  /\ rt * ((p + q) * Larger(i * q, j * p)) = Larger(u * i, v * j)
             /\ pq * ((r + t) * Larger(i * t, j * r)) = Larger(x * i, y * j)
             /\ Larger(i * q, j * p) \in Int /\ Larger(i * t, j * r) \in Int
  <2>1. rt * (p + q) \in Nat /\ pq * (r + t) \in Nat
    BY SMT
  <2>2. i * q \in Int /\ j * p \in Int /\ i * t \in Int /\ j * r \in Int
    OBVIOUS
  <2>3. /\ (rt * (p + q)) * Larger(i * q, j * p)
            = Larger((rt * (p + q)) * (i * q), (rt * (p + q)) * (j * p))
        /\ (pq * (r + t)) * Larger(i * t, j * r)
            = Larger((pq * (r + t)) * (i * t), (pq * (r + t)) * (j * r))
        /\ Larger(i * q, j * p) \in Int /\ Larger(i * t, j * r) \in Int
    <3> HIDE DEF pq, rt
    <3> QED BY <2>1, <2>2, LargerScales
  <2>4. /\ (rt * (p + q)) * (i * q) = u * i /\ (rt * (p + q)) * (j * p) = v * j
        /\ (pq * (r + t)) * (i * t) = x * i /\ (pq * (r + t)) * (j * r) = y * j
    <3> HIDE DEF pq, rt
    <3> QED BY <1>1, SMT
  <2>5. \A l \in Int : /\ rt * ((p + q) * l) = (rt * (p + q)) * l
                       /\ pq * ((r + t) * l) = (pq * (r + t)) * l
    <3> HIDE DEF pq, rt
    <3> QED BY <1>1, SMT
  <2> QED BY <2>3, <2>4, <2>5
<1> HIDE DEF u, v, x, y
<1>6. Larger(x * B, y * A) + Larger(u * b, v * a) <= Larger(u * B, v * A) + Larger(x * b, y * a)
  BY <1>2, <1>3, <1>4, FurtherGains
<1>7. /\ Larger(u * b, v * a) \in Int /\ Larger(u * B, v * A) \in Int
      /\ Larger(x * b, y * a) \in Int /\ Larger(x * B, y * A) \in Int
  <2>1. \A m, n \in Int : Larger(m, n) \in Int
    BY DEF Larger
  <2>2. /\ u * b \in Int /\ v * a \in Int /\ u * B \in Int /\ v * A \in Int
        /\ x * b \in Int /\ y * a \in Int /\ x * B \in Int /\ y * A \in Int
    BY <1>2
  <2> QED BY <2>1, <2>2
<1> DEFINE ec == CostOf(p, q, b, a, k)
           ed == CostOf(p, q, B, A, K)
           fc == CostOf(r, t, b, a, k)
           fd == CostOf(r, t, B, A, K)
           lc == (p + q) * Larger(b * q, a * p)
           ld == (p + q) * Larger(B * q, A * p)
           mc == (r + t) * Larger(b * t, a * r)
           md == (r + t) * Larger(B * t, A * r)
<1>8. /\ lc \in Int /\ ld \in Int /\ mc \in Int /\ md \in Int
      /\ rt * lc = Larger(u * b, v * a) /\ rt * ld = Larger(u * B, v * A)
      /\ pq * mc = Larger(x * b, y * a) /\ pq * md = Larger(x * B, y * A)
  <2>1. /\ rt * lc = Larger(u * b, v * a) /\ pq * mc = Larger(x * b, y * a)
        /\ Larger(b * q, a * p) \in Int /\ Larger(b * t, a * r) \in Int
    <3> HIDE DEF pq, rt
    <3> QED BY <1>5
  <2>2. /\ rt * ld = Larger(u * B, v * A) /\ pq * md = Larger(x * B, y * A)
        /\ Larger(B * q, A * p) \in Int /\ Larger(B * t, A * r) \in Int
    <3> HIDE DEF pq, rt
    <3> QED BY <1>5
  <2>3. \A l \in Int : (p + q) * l \in Int /\ (r + t) * l \in Int
    OBVIOUS
  <2> QED BY <2>1, <2>2, <2>3
<1> HIDE DEF lc, ld, mc, md
<1>9. ec = lc + pq * k /\ ed = ld + pq * K /\ fc = mc + rt * k /\ fd = md + rt * K
  BY DEF lc, ld, mc, md, CostOf
<1> HIDE DEF ec, ed, fc, fd
<1> HIDE DEF pq, rt
<1>10. pq * (md - mc) <= rt * (ld - lc)
  <2>1. pq * (md - mc) = pq * md - pq * mc /\ rt * (ld - lc) = rt * ld - rt * lc
    BY <1>1, <1>8, SMT
  <2> QED BY <1>6, <1>7, <1>8, <2>1
<1>11. pq * (fd - fc) <= rt * (ed - ec)
  <2>1. pq * (fd - fc) = pq * (md - mc) + pq * (rt * (K - k))
    BY <1>1, <1>8, <1>9, SMT
  <2>2. rt * (ed - ec) = rt * (ld - lc) + pq * (rt * (K - k))
    BY <1>1, <1>8, <1>9, SMT
  <2>3. /\ pq * (md - mc) \in Int /\ rt * (ld - lc) \in Int
        /\ pq * (rt * (K - k)) \in Int
    BY <1>1, <1>8
  <2> QED BY <1>10, <2>1, <2>2, <2>3
<1>12. ec \in Int /\ ed \in Int /\ fc \in Int /\ fd \in Int
  BY <1>1, <1>8, <1>9
<1>13. rt * (ed - ec) < 0
  <2>1. ed < ec
    BY DEF ed, ec
  <2> QED BY <1>1, <1>12, <2>1, SMT
<1>14. pq * (fd - fc) < 0
  BY <1>1, <1>11, <1>12, <1>13
<1>15. fd - fc < 0
  <2> SUFFICES ASSUME fd - fc >= 0 PROVE FALSE
    BY <1>12
  <2>1. pq * (fd - fc) >= 0
    BY <1>1, <1>12, SMT
  <2> QED BY <1>1, <1>12, <1>14, <2>1
<1> QED BY <1>12, <1>15 DEF fc, fd

-----------------------------------------------------------------------------
(* The choice. *)
Asked == [weights : (Nat \ {0}) \X (Nat \ {0}), axis : Axes \cup {0}, cut : Nat]

Surface(axis) == IF axis = 1 THEN 16 ELSE 64

\* What an exchange across a cut costs, whatever the weights.
Exchange(s, axis, cut) ==
  20 * (CrossSection(s, axis) * (Surface(axis) + 16 * SourceCrossings(s, axis, cut)))

\* The crossings and the surface of a cut are counted in naturals.
LEMMA ExchangeNatural ==
  ASSUME NEW s, Sized(s), NEW axis \in Axes, NEW cut \in Nat
  PROVE  /\ SourceCrossings(s, axis, cut) \in Nat /\ CrossSection(s, axis) \in Nat
         /\ Exchange(s, axis, cut) \in Nat
<1>1. SourceCrossings(s, axis, cut) \in Nat
  BY FS_Subset, FS_CardinalityType DEF SourceCrossings, Sized
<1>2. CrossSection(s, axis) \in Nat
  <2>1. s.n[1] \in Nat /\ s.n[2] \in Nat /\ s.n[3] \in Nat /\ s.n[axis] \in Nat \ {0}
    BY DEF Sized, Axes
  <2>2. s.n[1] * s.n[2] * s.n[3] \in Nat
    BY <2>1
  <2> QED BY <2>1, <2>2 DEF CrossSection
<1> QED BY <1>1, <1>2 DEF Exchange, Surface

\* The parts of a cut inside the domain, and its estimate from them.
LEMMA Estimate ==
  ASSUME NEW s, Sized(s), NEW axis \in Axes, NEW cut \in Nat, cut <= s.n[axis],
         NEW w, w \in (Nat \ {0}) \X (Nat \ {0})
  PROVE  LET below == CostBelow(s, axis, cut)
             above == CostBelow(s, axis, s.n[axis]) - below
         IN  /\ below \in Nat /\ above \in Nat
             /\ Predicted(s, w, axis, cut)
                  = CostOf(w[1], w[2], below, above, Exchange(s, axis, cut))
             /\ Predicted(s, w, axis, cut) \in Nat
<1> DEFINE below == CostBelow(s, axis, cut)
           all == CostBelow(s, axis, s.n[axis])
           above == all - below
           C == CrossSection(s, axis)
           Z == Surface(axis) + 16 * SourceCrossings(s, axis, cut)
           X == Exchange(s, axis, cut)
<1>1. below \in Nat /\ above \in Nat
  <2>1. s.n[axis] \in Nat
    BY DEF Sized
  <2>2. below \in Nat /\ all \in Nat /\ below <= all
    BY <2>1, CostGrows
  <2> QED BY <2>2
<1>2. C \in Nat /\ Z \in Nat /\ X = 20 * (C * Z) /\ X \in Nat
  BY ExchangeNatural DEF Exchange, Surface
<1>3. Predicted(s, w, axis, cut)
        = (w[1] + w[2]) * Larger(below * w[2], above * w[1]) + 20 * w[1] * w[2] * C * Z
  BY DEF Predicted, Surface
<1> HIDE DEF below, above, C, Z, X
<1>4. w[1] \in Nat \ {0} /\ w[2] \in Nat \ {0}
  OBVIOUS
<1>5. 20 * w[1] * w[2] * C * Z = w[1] * w[2] * X
  BY <1>2, <1>4, SMT
<1>6. /\ (w[1] + w[2]) * Larger(below * w[2], above * w[1]) \in Nat
      /\ w[1] * w[2] * X \in Nat
  <2>1. below * w[2] \in Nat /\ above * w[1] \in Nat
    BY <1>1, <1>4
  <2>2. Larger(below * w[2], above * w[1]) \in Nat
    BY <2>1 DEF Larger
  <2> QED BY <1>2, <1>4, <2>2
<1>7. Predicted(s, w, axis, cut)
        = (w[1] + w[2]) * Larger(below * w[2], above * w[1]) + w[1] * w[2] * X
  BY <1>3, <1>5
<1>8. Predicted(s, w, axis, cut) \in Nat
  BY <1>6, <1>7
<1> QED BY <1>1, <1>7, <1>8 DEF below, above, X, all, CostOf

\* The candidates lie inside the domain.
LEMMA Candidates ==
  ASSUME NEW s, Sized(s), NEW order \in Asked, Decomposable(s, order)
  PROVE  /\ SplitAxes(s, order) # {} /\ SplitAxes(s, order) \subseteq Axes
         /\ \A a \in SplitAxes(s, order) :
              /\ Cuts(s, order, a) # {}
              /\ \A cut \in Cuts(s, order, a) : cut \in Nat /\ cut <= s.n[a]
<1>1. SplitAxes(s, order) # {} /\ SplitAxes(s, order) \subseteq Axes
  BY DEF Decomposable, SplitAxes, Asked
<1>2. ASSUME NEW a \in SplitAxes(s, order) PROVE Cuts(s, order, a) # {}
  <2>1. s.n[a] \in Nat /\ s.n[a] >= 4
    BY <1>1, <1>2 DEF SplitAxes, Sized
  <2>2. 2 \in 2..(s.n[a] - 2)
    BY <2>1
  <2> QED BY <2>2 DEF Cuts
<1>3. ASSUME NEW a \in SplitAxes(s, order), NEW cut \in Cuts(s, order, a)
      PROVE  cut \in Nat /\ cut <= s.n[a]
  <2>1. s.n[a] \in Nat
    BY <1>1 DEF Sized
  <2>2. 1 < cut /\ cut < s.n[a] - 1
    BY DEF Decomposable
  <2>3. cut \in Int
    BY <2>1 DEF Cuts, Asked
  <2> QED BY <2>1, <2>2, <2>3
<1> QED BY <1>1, <1>2, <1>3

\* The choice is a candidate, the lowest of the best ones on its axis.
LEMMA ChoiceIsLowest ==
  ASSUME NEW s, Sized(s), NEW order \in Asked, Decomposable(s, order)
  PROVE  LET a == Choose(s, order)[1]
             d == Choose(s, order)[2]
             cost(c) == Predicted(s, order.weights, a, c)
         IN  /\ a \in SplitAxes(s, order) /\ d \in Cuts(s, order, a)
             /\ \A c \in Cuts(s, order, a) : cost(d) <= cost(c) /\ (c < d => cost(d) < cost(c))
<1> DEFINE D == UNION {{a} \X Cuts(s, order, a) : a \in SplitAxes(s, order)}
           costs == [x \in D |-> Predicted(s, order.weights, x[1], x[2])]
           best == {x \in D : \A y \in D : costs[x] <= costs[y]}
           first(x) == \A y \in best : x = y \/ PairBefore(x, y)
<1>1. Choose(s, order) = CHOOSE x \in best : first(x)
  BY DEF Choose
<1>2. ASSUME NEW x \in D
      PROVE  /\ x = <<x[1], x[2]>> /\ x[1] \in SplitAxes(s, order) /\ x[2] \in Cuts(s, order, x[1])
             /\ x[1] \in Axes /\ x[2] \in Nat /\ x[2] <= s.n[x[1]]
  BY <1>2, Candidates
<1>3. \A a \in SplitAxes(s, order) : \A c \in Cuts(s, order, a) : <<a, c>> \in D
  OBVIOUS
<1>4. \A x \in D : costs[x] = Predicted(s, order.weights, x[1], x[2]) /\ costs[x] \in Nat
  <2> TAKE x \in D
  <2>1. x[1] \in Axes /\ x[2] \in Nat /\ x[2] <= s.n[x[1]]
    BY <1>2
  <2>2. order.weights \in (Nat \ {0}) \X (Nat \ {0})
    BY DEF Asked
  <2> HIDE DEF D
  <2> QED BY <2>1, <2>2, Estimate
<1> HIDE DEF D, costs
<1>5. D # {}
  BY <1>3, Candidates
<1>6. best # {}
  <2> DEFINE M == {costs[x] : x \in D}
  <2>1. M \subseteq Nat /\ M # {}
    BY <1>4, <1>5
  <2>2. PICK m \in M : \A j \in M : m <= j
    BY <2>1, LeastExists
  <2>3. PICK x \in D : m = costs[x]
    BY <2>2
  <2>4. x \in best
    BY <2>2, <2>3
  <2> QED BY <2>4
<1>7. \A x \in best : x \in D
  OBVIOUS
<1> HIDE DEF best
<1>8. \E x \in best : first(x)
  <2> DEFINE M == {x[1] : x \in best}
  <2>1. M \subseteq Nat /\ M # {}
    BY <1>2, <1>6, <1>7 DEF Axes
  <2>2. PICK a \in M : \A j \in M : a <= j
    BY <2>1, LeastExists
  <2> DEFINE N == {x[2] : x \in {y \in best : y[1] = a}}
  <2>3. N \subseteq Nat /\ N # {}
    BY <1>2, <1>7, <2>2
  <2>4. PICK c \in N : \A j \in N : c <= j
    BY <2>3, LeastExists
  <2>5. PICK x \in best : x[1] = a /\ x[2] = c
    BY <2>4
  <2>6. ASSUME NEW y \in best PROVE x = y \/ PairBefore(x, y)
    <3>1. y[1] \in M /\ a <= y[1] /\ (y[1] = a => c <= y[2])
      BY <2>2, <2>4
    <3>2. /\ x = <<x[1], x[2]>> /\ y = <<y[1], y[2]>> /\ x[1] \in Int /\ x[2] \in Int
          /\ y[1] \in Int /\ y[2] \in Int
      BY <1>2, <1>7 DEF Axes
    <3> QED BY <2>5, <3>1, <3>2 DEF PairBefore
  <2> QED BY <2>6
<1>9. Choose(s, order) \in best /\ first(Choose(s, order))
  <2> HIDE DEF first
  <2> QED BY <1>1, <1>8
<1> DEFINE x == Choose(s, order)
<1> HIDE DEF x
<1>10. x \in best /\ first(x) /\ x \in D
  BY <1>7, <1>9 DEF x
<1>11. ASSUME NEW c \in Cuts(s, order, x[1])
       PROVE  /\ Predicted(s, order.weights, x[1], x[2]) <= Predicted(s, order.weights, x[1], c)
              /\ c < x[2] => Predicted(s, order.weights, x[1], x[2])
                               < Predicted(s, order.weights, x[1], c)
  <2> DEFINE y == <<x[1], c>>
  <2>1. y \in D /\ y[1] = x[1] /\ y[2] = c
    BY <1>2, <1>3, <1>10
  <2>2. costs[x] <= costs[y] /\ costs[x] \in Nat /\ costs[y] \in Nat
    BY <1>4, <1>10, <2>1 DEF best
  <2>3. c < x[2] => costs[x] # costs[y]
    <3> SUFFICES ASSUME c < x[2], costs[x] = costs[y] PROVE FALSE
      OBVIOUS
    <3>1. y \in best
      BY <1>10, <2>1 DEF best
    <3>2. x = y \/ PairBefore(x, y)
      BY <1>10, <3>1
    <3>3. x[2] \in Int /\ c \in Int /\ x[1] \in Int
      BY <1>2, <1>10, <2>1 DEF Axes
    <3> HIDE DEF y
    <3> QED BY <2>1, <3>2, <3>3 DEF PairBefore
  <2>4. /\ costs[x] = Predicted(s, order.weights, x[1], x[2])
        /\ costs[y] = Predicted(s, order.weights, x[1], c)
    BY <1>4, <1>10, <2>1
  <2> HIDE DEF y
  <2> QED BY <2>2, <2>3, <2>4
<1>12. x[1] \in SplitAxes(s, order) /\ x[2] \in Cuts(s, order, x[1])
  BY <1>2, <1>10
<1> QED BY <1>11, <1>12 DEF x

-----------------------------------------------------------------------------
\* The simulation is the one constructed for the scene, and a split what was chosen.
THEOREM Inductive == Spec => []IInv
<1>1. Init => IInv
  BY DEF Init, IInv, SplitChosen
<1>2. IInv /\ [Next]_vars => IInv'
  <2> SUFFICES ASSUME IInv, [Next]_vars PROVE IInv'
    OBVIOUS
  <2>1. CASE UNCHANGED <<scene, sim, split>>
    BY <2>1 DEF IInv, SplitChosen, Chosen, This, Simulations
  <2>2. ASSUME NEW order \in Orders, Split(order) PROVE IInv'
    BY <2>2 DEF Split, IInv, SplitChosen, Chosen, This, Simulations
  <2>3. ASSUME NEW k \in DOMAIN Configs, Carry(k) PROVE IInv'
    <3>1. sim' = Simulations[scene][k] /\ UNCHANGED <<scene, split>>
      BY <2>3 DEF Carry
    <3>2. k \in DOMAIN Simulations[scene]
      BY DEF IInv, Simulations
    <3>3. sim' \in Range(Simulations[scene])
      BY <3>1, <3>2 DEF Range
    <3> QED BY <3>1, <3>3 DEF IInv, SplitChosen, Chosen, This, Simulations
  <2>4. Electric \/ Magnetic \/ Terminated \/ UNCHANGED vars => UNCHANGED <<scene, sim, split>>
    BY DEF Electric, Magnetic, Becomes, Terminated, vars
  <2> QED BY <2>1, <2>2, <2>3, <2>4 DEF Next
<1> QED BY <1>1, <1>2, PTL DEF Spec

\* The choice of a cut is monotone in the weights: a first device that is relatively
\* faster gets no fewer cells.
LEMMA ChoiceMonotone ==
  ASSUME IInv
  PROVE  HeavierGetsMore
<1> SUFFICES ASSUME split # <<>>, split.order.cut = 0, NEW o \in Orders,
                    o.weights[1] * split.order.weights[2]
                      >= split.order.weights[1] * o.weights[2]
             PROVE  Choose(This, [o EXCEPT !.axis = split.axis, !.cut = 0])[2] >= split.cut
  BY DEF HeavierGetsMore
<1> DEFINE s == This
           a == split.axis
           other == [o EXCEPT !.axis = a, !.cut = 0]
           w == split.order.weights
           z == o.weights
           d == split.cut
           c == Choose(s, other)[2]
<1>1. PICK order \in Orders : Decomposable(s, order) /\ split = Chosen(order)
  BY DEF IInv, SplitChosen
<1>2. /\ split.order = order /\ a = Choose(s, order)[1] /\ d = Choose(s, order)[2]
      /\ order.cut = 0 /\ order.weights = w
  BY <1>1 DEF Chosen
<1>3. Sized(s)
  BY SceneAssumption DEF IInv, WellFormed, Sized, This
<1>4. order \in Asked /\ o \in Asked
  BY OrderAssumption DEF Asked
<1>5. /\ w \in (Nat \ {0}) \X (Nat \ {0}) /\ z \in (Nat \ {0}) \X (Nat \ {0})
  BY <1>2, <1>4 DEF Asked
<1> HIDE DEF s
<1>6. /\ a \in SplitAxes(s, order) /\ d \in Cuts(s, order, a)
      /\ \A e \in Cuts(s, order, a) :
           /\ Predicted(s, w, a, d) <= Predicted(s, w, a, e)
           /\ e < d => Predicted(s, w, a, d) < Predicted(s, w, a, e)
  BY <1>1, <1>2, <1>3, <1>4, ChoiceIsLowest
<1>7. a \in Axes /\ s.n[a] >= 4 /\ s.n[a] \in Nat
  BY <1>3, <1>4, <1>6 DEF SplitAxes, Asked, Sized
<1>8. other \in Asked /\ other.axis = a /\ other.cut = 0 /\ other.weights = z
  BY <1>4, <1>7 DEF Asked
<1> HIDE DEF other
<1>9. SplitAxes(s, other) = {a}
  BY <1>7, <1>8 DEF SplitAxes, Axes
<1>10. Cuts(s, other, a) = 2..(s.n[a] - 2) /\ Cuts(s, order, a) = 2..(s.n[a] - 2)
  BY <1>2, <1>8 DEF Cuts
<1>11. Decomposable(s, other)
  BY <1>7, <1>9, <1>10 DEF Decomposable
<1>12. /\ c \in Cuts(s, other, a)
       /\ \A e \in Cuts(s, other, a) : Predicted(s, z, a, c) <= Predicted(s, z, a, e)
  <2>1. Choose(s, other)[1] = a
    BY <1>3, <1>8, <1>9, <1>11, ChoiceIsLowest
  <2> QED BY <1>3, <1>8, <1>11, <2>1, ChoiceIsLowest
<1> HIDE DEF c
<1>13. /\ c \in Nat /\ c <= s.n[a] /\ d \in Nat /\ d <= s.n[a]
  BY <1>6, <1>7, <1>10, <1>12
<1> SUFFICES ASSUME c < d PROVE FALSE
  BY <1>13 DEF c, s, other
<1>14. Predicted(s, w, a, d) < Predicted(s, w, a, c) /\ Predicted(s, z, a, c) <= Predicted(s, z, a, d)
  BY <1>6, <1>10, <1>12
<1> DEFINE b == CostBelow(s, a, c)
           B == CostBelow(s, a, d)
           g == CostBelow(s, a, s.n[a]) - b
           G == CostBelow(s, a, s.n[a]) - B
<1>15. b \in Nat /\ B \in Nat /\ g \in Nat /\ G \in Nat /\ b <= B /\ G <= g
  <2>1. b \in Nat /\ g \in Nat
    BY <1>3, <1>5, <1>7, <1>13, Estimate
  <2>2. B \in Nat /\ G \in Nat
    BY <1>3, <1>5, <1>7, <1>13, Estimate
  <2>3. b <= B /\ CostBelow(s, a, s.n[a]) \in Nat
    <3>1. c <= d
      BY <1>13
    <3> QED BY <1>3, <1>7, <1>13, <3>1, CostGrows
  <2> QED BY <2>1, <2>2, <2>3
<1>16. /\ Predicted(s, w, a, c) = CostOf(w[1], w[2], b, g, Exchange(s, a, c))
       /\ Predicted(s, z, a, c) = CostOf(z[1], z[2], b, g, Exchange(s, a, c))
       /\ Predicted(s, z, a, c) \in Nat
  BY <1>3, <1>5, <1>7, <1>13, Estimate
<1>17. /\ Predicted(s, w, a, d) = CostOf(w[1], w[2], B, G, Exchange(s, a, d))
       /\ Predicted(s, z, a, d) = CostOf(z[1], z[2], B, G, Exchange(s, a, d))
       /\ Predicted(s, z, a, d) \in Nat
  BY <1>3, <1>5, <1>7, <1>13, Estimate
<1>18. Exchange(s, a, c) \in Nat /\ Exchange(s, a, d) \in Nat
  BY <1>3, <1>7, <1>13, ExchangeNatural
<1>19. /\ w[1] \in Nat \ {0} /\ w[2] \in Nat \ {0} /\ z[1] \in Nat \ {0} /\ z[2] \in Nat \ {0}
       /\ z[1] * w[2] >= w[1] * z[2]
  BY <1>2, <1>5
<1> HIDE DEF b, B, g, G, w, z
<1>20. Predicted(s, z, a, d) < Predicted(s, z, a, c)
  <2>1. CostOf(w[1], w[2], B, G, Exchange(s, a, d)) < CostOf(w[1], w[2], b, g, Exchange(s, a, c))
    BY <1>14, <1>16, <1>17
  <2>2. CostOf(z[1], z[2], B, G, Exchange(s, a, d)) < CostOf(z[1], z[2], b, g, Exchange(s, a, c))
    <3> DEFINE k == Exchange(s, a, c)
               K == Exchange(s, a, d)
               p == w[1]
               q == w[2]
               r == z[1]
               t == z[2]
    <3>1. /\ p \in Nat \ {0} /\ q \in Nat \ {0} /\ r \in Nat \ {0} /\ t \in Nat \ {0}
          /\ r * q >= p * t /\ k \in Nat /\ K \in Nat
          /\ CostOf(p, q, B, G, K) < CostOf(p, q, b, g, k)
      BY <1>18, <1>19, <2>1
    <3> HIDE DEF k, K, p, q, r, t
    <3>2. CostOf(r, t, B, G, K) < CostOf(r, t, b, g, k)
      BY <1>15, <3>1, EstimateGains
    <3> QED BY <3>2 DEF k, K, r, t
  <2> QED BY <1>16, <1>17, <2>2
<1> QED BY <1>14, <1>16, <1>17, <1>20

\* HeavierGetsMore: a relatively faster first device never gets fewer cells.
THEOREM CutsMonotone == Spec => []HeavierGetsMore
BY Inductive, ChoiceMonotone, PTL

-----------------------------------------------------------------------------
Grown(s) ==
  /\ s.n \in [Axes -> Nat \ {0}]
  /\ Len(s.objects) \in Nat \ {0} /\ DOMAIN s.objects = 1..Len(s.objects)
  /\ \A j \in DOMAIN s.objects :
       LET m == Material(s, j)
       IN  m.type \in Range(Models) /\ m.poles \in Nat /\ m.points \in Nat
  /\ Material(s, 1).type \notin Absorbers

-----------------------------------------------------------------------------
(* Sequences of the elements of a set. *)
Lists(q, S) ==
  /\ \A k \in DOMAIN q : q[k] \in S
  /\ \A e \in S : \E k \in DOMAIN q : q[k] = e

TotalOn(R, S) ==
  /\ \A x \in S : <<x, x>> \notin R
  /\ \A x, y, z \in S : <<x, y>> \in R /\ <<y, z>> \in R => <<x, z>> \in R
  /\ \A x, y \in S : x = y \/ <<x, y>> \in R \/ <<y, x>> \in R

Counts(place, R, S) ==
  \A e \in S : place[e] = Cardinality({x \in S : <<x, e>> \in R}) + 1

OneToOne(place, S) ==
  /\ Cardinality(S) \in Nat
  /\ \A e \in S : place[e] \in 1..Cardinality(S)
  /\ \A e, f \in S : place[e] = place[f] => e = f
  /\ \A k \in 1..Cardinality(S) : \E e \in S : place[e] = k

\* The places of the elements of a finite set in a total order are 1, 2, ... up to
\* its size.
LEMMA PlacesAreOneToOne ==
  ASSUME NEW S, IsFiniteSet(S), NEW R, TotalOn(R, S), NEW place, Counts(place, R, S)
  PROVE  OneToOne(place, S)
<1> DEFINE n == Cardinality(S)
           below(e) == {x \in S : <<x, e>> \in R}
<1>1. n \in Nat
  BY FS_CardinalityType
<1>2. ASSUME NEW e \in S PROVE IsFiniteSet(below(e)) /\ Cardinality(below(e)) \in Nat
  <2>1. below(e) \in SUBSET S
    OBVIOUS
  <2> HIDE DEF below
  <2> QED BY <2>1, FS_Subset, FS_CardinalityType
<1>3. ASSUME NEW e \in S PROVE place[e] \in 1..n
  <2>1. below(e) \in SUBSET S /\ below(e) # S
    BY DEF TotalOn
  <2>2. place[e] = Cardinality(below(e)) + 1
    BY DEF Counts
  <2>3. Cardinality(below(e)) \in Nat
    BY <1>2
  <2> HIDE DEF below
  <2>4. Cardinality(below(e)) < n
    BY <1>1, <2>1, <2>3, FS_Subset
  <2> HIDE DEF n
  <2> QED BY <1>1, <2>2, <2>3, <2>4
<1>4. ASSUME NEW e \in S, NEW f \in S, <<e, f>> \in R PROVE place[e] < place[f]
  <2>1. below(e) \in SUBSET below(f)
    BY <1>4 DEF TotalOn
  <2>2. e \in below(f) /\ e \notin below(e)
    BY <1>4 DEF TotalOn
  <2>3. /\ place[e] = Cardinality(below(e)) + 1 /\ place[f] = Cardinality(below(f)) + 1
    BY DEF Counts
  <2>4. IsFiniteSet(below(f)) /\ Cardinality(below(e)) \in Nat /\ Cardinality(below(f)) \in Nat
    BY <1>2
  <2> HIDE DEF below
  <2>5. below(e) # below(f)
    BY <2>2
  <2>6. Cardinality(below(e)) < Cardinality(below(f))
    BY <2>1, <2>4, <2>5, FS_Subset
  <2> QED BY <2>3, <2>4, <2>6
<1>5. ASSUME NEW e \in S, NEW f \in S, place[e] = place[f] PROVE e = f
  <2>1. place[e] \in Int /\ place[f] \in Int
    BY <1>1, <1>3
  <2>2. e = f \/ <<e, f>> \in R \/ <<f, e>> \in R
    BY DEF TotalOn
  <2>3. <<e, f>> \in R => place[e] < place[f]
    BY <1>4
  <2>4. <<f, e>> \in R => place[f] < place[e]
    BY <1>4
  <2> QED BY <1>5, <2>1, <2>2, <2>3, <2>4
<1> DEFINE p == [e \in S |-> place[e]]
<1>6. p \in Injection(S, 1..n)
  BY <1>3, <1>5 DEF Injection, IsInjective
<1>7. IsFiniteSet(1..n) /\ Cardinality(1..n) = n
  <2> HIDE DEF n
  <2>1. IsFiniteSet(1..n) /\ Cardinality(1..n) = IF 1 > n THEN 0 ELSE n - 1 + 1
    BY <1>1, FS_Interval
  <2> QED BY <1>1, <2>1
<1>8. p \in Surjection(S, 1..n)
  <2> HIDE DEF p
  <2> QED BY <1>6, <1>7, FS_Injection
<1>9. ASSUME NEW k \in 1..n PROVE \E e \in S : place[e] = k
  <2>1. \E e \in S : p[e] = k
    <3> HIDE DEF p
    <3> QED BY <1>8, <1>9 DEF Surjection
  <2> QED BY <2>1
<1> QED BY <1>1, <1>3, <1>5, <1>9 DEF OneToOne

Listed(q, S) == DOMAIN q = 1..Cardinality(S) /\ Cardinality(S) \in Nat /\ Lists(q, S)

Placed(place, S) == [k \in 1..Cardinality(S) |-> CHOOSE e \in S : place[e] = k]

\* The sequence that Ordered makes of these places lists the set.
LEMMA PlacedSequence ==
  ASSUME NEW S, NEW place, OneToOne(place, S)
  PROVE  Listed(Placed(place, S), S)
<1> DEFINE q == Placed(place, S)
<1>1. \A k \in 1..Cardinality(S) : q[k] \in S /\ place[q[k]] = k
  BY DEF OneToOne, Placed
<1>2. DOMAIN q = 1..Cardinality(S)
  BY DEF Placed
<1> HIDE DEF q
<1>3. Lists(q, S)
  BY <1>1, <1>2 DEF Lists, OneToOne
<1> QED BY <1>2, <1>3 DEF q, OneToOne, Listed

\* A finite set of integers can be listed in its order.
LEMMA OrderedIntegers ==
  ASSUME NEW S, IsFiniteSet(S), S \subseteq Int
  PROVE  Listed(Ordered(S, Before), S)
<1> DEFINE R == {x \in S \X S : x[1] < x[2]}
           place == [e \in S |-> Cardinality({x \in S : Before(x, e)}) + 1]
<1>1. TotalOn(R, S)
  BY DEF TotalOn
<1>2. Counts(place, R, S)
  <2> SUFFICES ASSUME NEW e \in S
               PROVE  place[e] = Cardinality({x \in S : <<x, e>> \in R}) + 1
    BY DEF Counts
  <2>1. {x \in S : Before(x, e)} = {x \in S : <<x, e>> \in R}
    BY DEF Before
  <2> QED BY <2>1
<1>3. Ordered(S, Before) = Placed(place, S)
  BY DEF Ordered, Placed
<1> HIDE DEF R, place
<1>4. OneToOne(place, S)
  BY <1>1, <1>2, PlacesAreOneToOne
<1> QED BY <1>3, <1>4, PlacedSequence

\* So can a finite set of pairs, the region keys.
LEMMA OrderedPairs ==
  ASSUME NEW S, IsFiniteSet(S), S \subseteq Int \X Int
  PROVE  Listed(Ordered(S, PairBefore), S)
<1> DEFINE R == {x \in S \X S : PairBefore(x[1], x[2])}
           place == [e \in S |-> Cardinality({x \in S : PairBefore(x, e)}) + 1]
<1>1. TotalOn(R, S)
  BY DEF TotalOn, PairBefore
<1>2. Counts(place, R, S)
  <2> SUFFICES ASSUME NEW e \in S
               PROVE  place[e] = Cardinality({x \in S : <<x, e>> \in R}) + 1
    BY DEF Counts
  <2>1. {x \in S : PairBefore(x, e)} = {x \in S : <<x, e>> \in R}
    OBVIOUS
  <2> QED BY <2>1
<1>3. Ordered(S, PairBefore) = Placed(place, S)
  BY DEF Ordered, Placed
<1> HIDE DEF R, place
<1>4. OneToOne(place, S)
  BY <1>1, <1>2, PlacesAreOneToOne
<1> QED BY <1>3, <1>4, PlacedSequence

\* A model is found by its rank.
LEMMA RankOneToOne ==
  ASSUME NEW m \in Range(Models)
  PROVE  Rank(m) \in Int /\ Models[Rank(m)] = m
<1>1. PICK i \in DOMAIN Models : Models[i] = m
  BY DEF Range
<1>2. Rank(m) \in DOMAIN Models /\ Models[Rank(m)] = m
  <2> HIDE DEF Models
  <2> QED BY <1>1, Zenon DEF Rank
<1>3. DOMAIN Models \subseteq Int
  BY DEF Models
<1> QED BY <1>2, <1>3

\* A finite set of signatures can be listed by the ranks of their models.
LEMMA OrderedSignatures ==
  ASSUME NEW S, IsFiniteSet(S), S \subseteq Range(Models) \X Nat \X Nat
  PROVE  Listed(Ordered(S, SignatureBefore), S)
<1> DEFINE R == {x \in S \X S : SignatureBefore(x[1], x[2])}
           place == [e \in S |-> Cardinality({x \in S : SignatureBefore(x, e)}) + 1]
<1>0. \A x \in S : /\ x = <<x[1], x[2], x[3]>> /\ x[2] \in Int /\ x[3] \in Int
                   /\ Rank(x[1]) \in Int /\ Models[Rank(x[1])] = x[1]
  BY RankOneToOne
<1>1. TotalOn(R, S)
  <2>1. \A x, y \in S : <<x, y>> \in R <=> SignatureBefore(x, y)
    OBVIOUS
  <2> HIDE DEF R
  <2>2. \A x \in S : <<x, x>> \notin R
    BY <1>0, <2>1 DEF SignatureBefore
  <2>3. \A x, y, z \in S : <<x, y>> \in R /\ <<y, z>> \in R => <<x, z>> \in R
    BY <1>0, <2>1 DEF SignatureBefore
  <2>4. \A x, y \in S : x = y \/ <<x, y>> \in R \/ <<y, x>> \in R
    <3> TAKE x, y \in S
    <3>1. x = <<x[1], x[2], x[3]>> /\ y = <<y[1], y[2], y[3]>>
      BY <1>0
    <3>2. Models[Rank(x[1])] = x[1] /\ Models[Rank(y[1])] = y[1]
      BY <1>0
    <3>3. Rank(x[1]) = Rank(y[1]) => x[1] = y[1]
      BY <3>2, Zenon
    <3> QED BY <1>0, <2>1, <3>1, <3>3 DEF SignatureBefore
  <2> QED BY <2>2, <2>3, <2>4 DEF TotalOn
<1>2. Counts(place, R, S)
  <2> SUFFICES ASSUME NEW e \in S
               PROVE  place[e] = Cardinality({x \in S : <<x, e>> \in R}) + 1
    BY DEF Counts
  <2>1. {x \in S : SignatureBefore(x, e)} = {x \in S : <<x, e>> \in R}
    OBVIOUS
  <2> QED BY <2>1
<1>3. Ordered(S, SignatureBefore) = Placed(place, S)
  BY DEF Ordered, Placed
<1> HIDE DEF R, place
<1>4. OneToOne(place, S)
  BY <1>1, <1>2, PlacesAreOneToOne
<1> QED BY <1>3, <1>4, PlacedSequence

\* Position finds an element of what a sequence lists.
LEMMA PositionIs ==
  ASSUME NEW q, NEW S, Lists(q, S), NEW e \in S
  PROVE  Position(q, e) \in DOMAIN q /\ q[Position(q, e)] = e
BY Zenon DEF Lists, Position

\* Distinct leaves out repetitions only.
LEMMA DistinctLists ==
  ASSUME NEW q, NEW m \in Nat, DOMAIN q = 1..m
  PROVE  Lists(Distinct(q), Range(q))
<1> DEFINE K == {k \in DOMAIN q : \A j \in DOMAIN q : j < k => q[j] # q[k]}
           first == Ordered(K, Before)
<1>1. Listed(first, K)
  <2>1. K \in SUBSET (1..m) /\ IsFiniteSet(1..m) /\ K \subseteq Int
    BY FS_Interval
  <2> HIDE DEF K, first
  <2>2. IsFiniteSet(K) /\ K \subseteq Int
    <3>1. IsFiniteSet(K)
      BY <2>1, FS_Subset, Zenon
    <3> QED BY <2>1, <3>1
  <2> QED BY <2>2, OrderedIntegers DEF first
<1>2. ASSUME NEW e \in Range(q) PROVE \E k \in K : q[k] = e
  <2> DEFINE M == {k \in DOMAIN q : q[k] = e}
  <2>1. M \subseteq Nat /\ M # {}
    BY DEF Range
  <2>2. PICK k \in M : \A j \in M : k <= j
    BY <2>1, LeastExists
  <2>3. \A j \in DOMAIN q : j < k => q[j] # q[k]
    BY <2>1, <2>2
  <2> QED BY <2>2, <2>3
<1>3. \A k \in K : k \in DOMAIN q
  OBVIOUS
<1>4. Distinct(q) = [i \in DOMAIN first |-> q[first[i]]]
  BY DEF Distinct
<1> HIDE DEF K, first
<1>5. ASSUME NEW i \in DOMAIN first PROVE q[first[i]] \in Range(q)
  BY <1>1, <1>3 DEF Listed, Lists, Range
<1>6. ASSUME NEW e \in Range(q) PROVE \E i \in DOMAIN first : q[first[i]] = e
  <2>1. PICK k \in K : q[k] = e
    BY <1>2
  <2>2. PICK i \in DOMAIN first : first[i] = k
    BY <1>1 DEF Listed, Lists
  <2> QED BY <2>1, <2>2
<1> QED BY <1>4, <1>5, <1>6 DEF Lists

-----------------------------------------------------------------------------
(* The buckets of a plan. *)
LEMMA OnType ==
  ASSUME NEW s, NEW x, NEW limit \in Nat \ {0}
  PROVE  On(s, x, limit) \in 1..limit
<1> DEFINE S == {i \in 1..limit : i = 1 \/ Inside(s.objects[i], x)}
<1>1. S \in SUBSET (1..limit) /\ S # {}
  <2>1. 1 \in 1..limit
    OBVIOUS
  <2> QED BY <2>1
<1>2. On(s, x, limit) = Max(S)
  BY DEF On
<1> HIDE DEF S
<1>3. Max(S) \in S
  BY <1>1, MaxOfInterval
<1> QED BY <1>1, <1>2, <1>3

\* The region key of a place names objects of the scene.
LEMMA KeyType ==
  ASSUME NEW s, Grown(s), NEW x
  PROVE  Key(s, x) \in Int \X Int /\ Key(s, x)[1] \in DOMAIN s.objects
<1> DEFINE top == On(s, x, Len(s.objects))
<1>1. top \in 1..Len(s.objects) /\ DOMAIN s.objects = 1..Len(s.objects) /\ Len(s.objects) \in Nat
  BY OnType DEF Grown
<1>2. Key(s, x) = << top, IF s.objects[top].mat.type \in Absorbers THEN On(s, x, top - 1) ELSE 0 >>
  BY DEF Key
<1> HIDE DEF top
<1>3. s.objects[top].mat.type \in Absorbers => On(s, x, top - 1) \in Int
  <2> SUFFICES ASSUME s.objects[top].mat.type \in Absorbers PROVE On(s, x, top - 1) \in Int
    OBVIOUS
  <2>1. top # 1
    BY DEF Grown, Material
  <2>2. top - 1 \in Nat \ {0}
    BY <1>1, <2>1
  <2>3. On(s, x, top - 1) \in 1..(top - 1)
    BY <2>2, OnType
  <2> QED BY <2>2, <2>3
<1> QED BY <1>1, <1>2, <1>3

\* What the signature of an object is made of.
LEMMA SignatureType ==
  ASSUME NEW s, Grown(s), NEW j \in DOMAIN s.objects, NEW c
  PROVE  ModelAndState(Material(s, j), c) \in Range(Models) \X Nat \X Nat
<1> DEFINE m == Material(s, j)
<1>1. m.type \in Range(Models) /\ m.poles \in Nat /\ m.points \in Nat
  BY DEF Grown
<1>2. /\ "const" \in Range(Models) /\ "dummy" \in Range(Models) /\ "dielectric" \in Range(Models)
      /\ "upml" \in Range(Models) /\ "cpml" \in Range(Models)
  <2>1. /\ Models[1] = "const" /\ Models[2] = "cpml" /\ Models[6] = "dielectric"
        /\ Models[9] = "dummy" /\ Models[11] = "upml" /\ DOMAIN Models = 1..11
    BY DEF Models
  <2> QED BY <2>1 DEF Range
<1> HIDE DEF m
<1> QED BY <1>1, <1>2 DEF ModelAndState, m

\* The model of a cell, its coefficients and its absorber grading, from its point.
What(s, c, x) ==
  LET key == Key(s, x)
      sig == ModelAndState(Material(s, key[1]), c)
      row == CoefficientRow(s, key, c)
  IN  << sig, row, IF sig[1] \in Absorbers THEN PmlCell(s, Material(s, key[1]), c, x, row[1])
                                           ELSE <<>> >>

Holds(b, s, g, c, sig, S) ==
  /\ b.signature = sig
  /\ Lists(b.targets, S)
  /\ \A k \in DOMAIN b.targets :
       LET x == PointAt(g, c, b.targets[k])
       IN  /\ TargetRow(b, k) = CoefficientRow(s, Key(s, x), c)
           /\ sig[1] \in Absorbers =>
                b.cells # <<>> /\ b.cells[k] = PmlCell(s, Material(s, Key(s, x)[1]), c, x,
                                                       TargetRow(b, k)[1])
  /\ sig[1] \notin Absorbers => b.cells = <<>>

\* What a bucket takes from its regions.
Filed(b, s, g, c, sig, q) ==
  /\ b.signature = sig /\ b.targets = q.targets /\ b.regions = q.regions
  /\ b.rows = Distinct(q.keyRows)
  /\ b.rowOf = [r \in DOMAIN q.keys |-> Position(b.rows, q.keyRows[r])]
  /\ b.cells = IF sig[1] \notin Absorbers THEN <<>>
               ELSE [k \in DOMAIN q.targets |->
                       PmlCell(s, Material(s, q.keys[q.regions[k]][1]), c,
                               PointAt(g, c, q.targets[k]), b.rows[b.rowOf[q.regions[k]]][1])]

\* The layout of a bucket changes neither its rows nor its cells.
LEMMA BucketFields ==
  ASSUME NEW s, NEW options, NEW g, NEW c, NEW sig, NEW active, NEW q
  PROVE  Filed(BucketPlan(s, options, g, c, sig, active, q), s, g, c, sig, q)
<1> DEFINE b == BucketPlan(s, options, g, c, sig, active, q)
           rows == Distinct(q.keyRows)
           rowOf == [r \in DOMAIN q.keys |-> Position(rows, q.keyRows[r])]
           cells == IF sig[1] \notin Absorbers THEN <<>>
                    ELSE [k \in DOMAIN q.targets |->
                            PmlCell(s, Material(s, q.keys[q.regions[k]][1]), c,
                                    PointAt(g, c, q.targets[k]), rows[rowOf[q.regions[k]]][1])]
<1>1. b.signature = sig /\ b.targets = q.targets /\ b.regions = q.regions
  BY Zenon DEF BucketPlan
<1>2. b.rows = rows /\ b.rowOf = rowOf
  BY Zenon DEF BucketPlan
<1>3. b.cells = cells
  BY Zenon DEF BucketPlan
<1> HIDE DEF b
<1>4. Filed(b, s, g, c, sig, q)
  BY <1>1, <1>2, <1>3, Zenon DEF Filed
<1> QED BY <1>4 DEF b

\* A bucket holds the active cells of its model, each with its own coefficients.
LEMMA BucketHolds ==
  ASSUME NEW s, Grown(s), NEW options, NEW g, NEW c, NEW sig,
         NEW active, IsFiniteSet(active), active \subseteq Int
  PROVE  Holds(Bucket(s, options, g, c, sig, active), s, g, c, sig,
               {i \in active : ModelAt(s, g, c, i) = sig})
<1> DEFINE S == {i \in active : ModelAt(s, g, c, i) = sig}
           targets == Ordered(S, Before)
           cellKeys == [k \in DOMAIN targets |-> KeyAt(s, g, c, targets[k])]
           keys == Ordered(Range(cellKeys), PairBefore)
           keyRows == [r \in DOMAIN keys |-> CoefficientRow(s, keys[r], c)]
           rows == Distinct(keyRows)
           rowOf == [r \in DOMAIN keys |-> Position(rows, keyRows[r])]
           regions == [k \in DOMAIN targets |-> Position(keys, cellKeys[k])]
           cells == [k \in DOMAIN targets |->
                       PmlCell(s, Material(s, keys[regions[k]][1]), c,
                               PointAt(g, c, targets[k]), rows[rowOf[regions[k]]][1])]
           b == Bucket(s, options, g, c, sig, active)
<1>1. /\ b.signature = sig /\ b.targets = targets /\ b.rows = rows /\ b.rowOf = rowOf
      /\ b.regions = regions /\ b.cells = IF sig[1] \notin Absorbers THEN <<>> ELSE cells
  <2> DEFINE q == [targets |-> targets, keys |-> keys, regions |-> regions, keyRows |-> keyRows]
  <2>1. Regions(s, g, c, targets) = q
    BY Zenon DEF Regions
  <2>2. b = BucketPlan(s, options, g, c, sig, Cardinality(active), q)
    BY <2>1, Zenon DEF Bucket
  <2>3. q.targets = targets /\ q.keys = keys /\ q.regions = regions /\ q.keyRows = keyRows
    OBVIOUS
  <2> HIDE DEF q, targets, cellKeys, keys, regions, keyRows
  <2>4. Filed(BucketPlan(s, options, g, c, sig, Cardinality(active), q), s, g, c, sig, q)
    BY BucketFields
  <2>5. Filed(b, s, g, c, sig, q)
    BY <2>2, <2>4, Zenon
  <2> HIDE DEF b
  <2> QED BY <2>3, <2>5 DEF Filed
<1>2. Listed(targets, S)
  <2>1. S \in SUBSET active
    OBVIOUS
  <2> HIDE DEF S
  <2>2. IsFiniteSet(S)
    BY <2>1, FS_Subset
  <2> QED BY <2>1, <2>2, OrderedIntegers
<1> HIDE DEF targets
<1>3. \A k \in DOMAIN targets : cellKeys[k] = Key(s, PointAt(g, c, targets[k]))
  BY DEF KeyAt
<1>4. IsFiniteSet(Range(cellKeys)) /\ Range(cellKeys) \subseteq Int \X Int
  <2>1. DOMAIN cellKeys = 1..Cardinality(S) /\ Cardinality(S) \in Nat
    BY <1>2 DEF Listed
  <2>2. \A k \in DOMAIN cellKeys : cellKeys[k] \in Int \X Int
    BY <1>3, KeyType
  <2> HIDE DEF cellKeys, S
  <2>3. IsFiniteSet(1..Cardinality(S))
    BY <2>1, FS_Interval
  <2>4. cellKeys \in Surjection(DOMAIN cellKeys, Range(cellKeys))
    <3> SUFFICES /\ cellKeys \in [DOMAIN cellKeys -> Range(cellKeys)]
                 /\ \A e \in Range(cellKeys) : \E k \in DOMAIN cellKeys : cellKeys[k] = e
      BY DEF Surjection
    <3>1. cellKeys = [k \in DOMAIN cellKeys |-> cellKeys[k]]
      BY DEF cellKeys
    <3> QED BY <3>1 DEF Range
  <2>5. IsFiniteSet(Range(cellKeys))
    BY <2>1, <2>3, <2>4, FS_Surjection
  <2> QED BY <2>2, <2>5 DEF Range
<1> HIDE DEF cellKeys
<1>5. Listed(keys, Range(cellKeys))
  BY <1>4, OrderedPairs
<1> HIDE DEF keys
<1>6. Lists(rows, Range(keyRows))
  <2>1. DOMAIN keyRows = 1..Cardinality(Range(cellKeys)) /\ Cardinality(Range(cellKeys)) \in Nat
    BY <1>5 DEF Listed
  <2> HIDE DEF keyRows
  <2> QED BY <2>1, DistinctLists
<1> HIDE DEF rows
<1>7. ASSUME NEW k \in DOMAIN targets
      PROVE  /\ keys[regions[k]] = Key(s, PointAt(g, c, targets[k]))
             /\ rows[rowOf[regions[k]]] = CoefficientRow(s, Key(s, PointAt(g, c, targets[k])), c)
  <2>1. cellKeys[k] \in Range(cellKeys)
    BY DEF cellKeys, Range
  <2>2. regions[k] \in DOMAIN keys /\ keys[regions[k]] = cellKeys[k]
    BY <1>5, <2>1, PositionIs DEF Listed
  <2> DEFINE r == regions[k]
  <2> HIDE DEF regions
  <2>3. keyRows[r] \in Range(keyRows) /\ keyRows[r] = CoefficientRow(s, keys[r], c)
    BY <2>2 DEF Range
  <2>4. rowOf[r] = Position(rows, keyRows[r])
    BY <2>2
  <2> HIDE DEF keyRows, rowOf, r
  <2>5. rows[rowOf[r]] = keyRows[r]
    BY <1>6, <2>3, <2>4, PositionIs
  <2> QED BY <1>3, <2>2, <2>3, <2>5 DEF r
<1> HIDE DEF regions, rowOf, S
<1>8. ASSUME NEW k \in DOMAIN b.targets
      PROVE  LET x == PointAt(g, c, b.targets[k])
             IN  /\ TargetRow(b, k) = CoefficientRow(s, Key(s, x), c)
                 /\ sig[1] \in Absorbers =>
                      b.cells # <<>> /\ b.cells[k] = PmlCell(s, Material(s, Key(s, x)[1]), c, x,
                                                             TargetRow(b, k)[1])
  <2>1. k \in DOMAIN targets /\ TargetRow(b, k) = rows[rowOf[regions[k]]]
    BY <1>1 DEF TargetRow
  <2>2. cells # <<>> /\ cells[k] = PmlCell(s, Material(s, keys[regions[k]][1]), c,
                               PointAt(g, c, targets[k]), rows[rowOf[regions[k]]][1])
    BY <2>1
  <2> HIDE DEF cells, b
  <2> QED BY <1>1, <1>7, <2>1, <2>2
<1> HIDE DEF b, cells
<1>9. Holds(b, s, g, c, sig, S)
  BY <1>1, <1>2, <1>8 DEF Holds, Listed
<1> QED BY <1>9 DEF b, S
-----------------------------------------------------------------------------
(* The cells of a view. *)
LEMMA Division ==
  ASSUME NEW x \in Int, NEW d \in Nat \ {0}
  PROVE  x \div d \in Int /\ x % d \in 0..(d - 1) /\ x = d * (x \div d) + (x % d)
OBVIOUS

\* Division of a multiple and a rest.
LEMMA Quotient ==
  ASSUME NEW q \in Int, NEW d \in Nat \ {0}, NEW r \in 0..(d - 1)
  PROVE  (d * q + r) \div d = q /\ (d * q + r) % d = r
<1> DEFINE x == d * q + r
           k == x \div d
           y == x % d
<1>1. x \in Int /\ k \in Int /\ y \in 0..(d - 1) /\ x = d * k + y
  BY Division
<1>2. d * (q - k) = y - r
  <2> HIDE DEF k, y
  <2> QED BY <1>1
<1>3. q = k
  <2> HIDE DEF k, y
  <2>1. q - k >= 1 => d * (q - k) >= d
    BY <1>1
  <2>2. q - k <= -1 => d * (q - k) <= -d
    BY <1>1
  <2> QED BY <1>1, <1>2, <2>1, <2>2
<1> QED BY <1>1, <1>2, <1>3

Filled(shape) == \A a \in Axes : shape[a] \in Nat \ {0}
InShape(v, shape) == \A a \in Axes : v[a] \in 0..(shape[a] - 1)

Parts(m1, m2, m3, x, y, z, i) ==
  /\ i \in 0..(m1 * m2 * m3 - 1)
  /\ i \div (m2 * m3) = x /\ (i \div m3) % m2 = y /\ i % m3 = z

\* Unflat undoes Flat on the cells of an array.
LEMMA FlatInverse ==
  ASSUME NEW shape, Filled(shape), NEW v, InShape(v, shape)
  PROVE  /\ Flat(shape, v) \in 0..(Total(shape) - 1)
         /\ \A a \in Axes : Unflat(shape, Flat(shape, v))[a] = v[a]
<1>1. /\ shape[1] \in Nat \ {0} /\ shape[2] \in Nat \ {0} /\ shape[3] \in Nat \ {0}
      /\ v[1] \in 0..(shape[1] - 1) /\ v[2] \in 0..(shape[2] - 1) /\ v[3] \in 0..(shape[3] - 1)
  BY DEF Filled, InShape, Axes
<1>2. ASSUME NEW m1 \in Nat \ {0}, NEW m2 \in Nat \ {0}, NEW m3 \in Nat \ {0},
             NEW x \in 0..(m1 - 1), NEW y \in 0..(m2 - 1), NEW z \in 0..(m3 - 1)
      PROVE  Parts(m1, m2, m3, x, y, z, (x * m2 + y) * m3 + z)
  <2> DEFINE u == x * m2 + y
             i == u * m3 + z
  <2>1. u \in Nat /\ u <= m1 * m2 - 1
    <3>1. x * m2 \in Nat /\ x * m2 <= (m1 - 1) * m2
      BY <1>2
    <3>2. (m1 - 1) * m2 = m1 * m2 - m2 /\ m1 * m2 \in Nat
      BY <1>2
    <3> QED BY <3>1, <3>2
  <2>2. u \div m2 = x /\ u % m2 = y
    <3>1. u = m2 * x + y
      OBVIOUS
    <3> HIDE DEF u
    <3> QED BY <3>1, Quotient
  <2>9. m1 * m2 \in Nat
    OBVIOUS
  <2> HIDE DEF u
  <2>3. i \in Nat /\ i <= m1 * m2 * m3 - 1
    <3> DEFINE w == m1 * m2
    <3>0. w \in Nat /\ u <= w - 1
      BY <2>1, <2>9
    <3> HIDE DEF w
    <3>1. u * m3 \in Nat /\ u * m3 <= (w - 1) * m3
      BY <2>1, <3>0
    <3>2. (w - 1) * m3 = w * m3 - m3 /\ w * m3 \in Nat
      BY <3>0
    <3>3. i \in Nat /\ i <= w * m3 - 1
      BY <3>1, <3>2
    <3> QED BY <3>3 DEF w
  <2>4. i \div m3 = u /\ i % m3 = z
    <3>1. i = m3 * u + z
      BY <2>1
    <3> HIDE DEF i
    <3> QED BY <2>1, <3>1, Quotient
  <2>5. i \div (m2 * m3) = x
    <3>1. m2 * m3 \in Nat \ {0} /\ y * m3 + z \in 0..(m2 * m3 - 1)
      <4>1. y * m3 \in Nat /\ y * m3 <= (m2 - 1) * m3 /\ (m2 - 1) * m3 = m2 * m3 - m3
        OBVIOUS
      <4>2. m2 * m3 \in Nat \ {0}
        OBVIOUS
      <4> QED BY <4>1, <4>2
    <3>2. i = (m2 * m3) * x + (y * m3 + z)
      BY DEF u
    <3> DEFINE d == m2 * m3
               r == y * m3 + z
    <3> HIDE DEF d, r, i
    <3>3. d \in Nat \ {0} /\ r \in 0..(d - 1) /\ i = d * x + r
      BY <3>1, <3>2 DEF d, r
    <3>4. i \div d = x
      BY <3>3, Quotient
    <3> QED BY <3>4 DEF d
  <2>6. i \in 0..(m1 * m2 * m3 - 1)
    <3> DEFINE w == m1 * m2 * m3
    <3>1. w \in Int
      OBVIOUS
    <3> HIDE DEF w, i
    <3> QED BY <2>3, <3>1 DEF w
  <2>7. Parts(m1, m2, m3, x, y, z, i)
    <3> HIDE DEF i
    <3> QED BY <2>2, <2>4, <2>5, <2>6 DEF Parts
  <2> QED BY <2>7 DEF u
<1> DEFINE i == (v[1] * shape[2] + v[2]) * shape[3] + v[3]
<1>3. Parts(shape[1], shape[2], shape[3], v[1], v[2], v[3], i)
  BY <1>1, <1>2
<1>4. Flat(shape, v) = i
  BY DEF Flat
<1> HIDE DEF i
<1>5. Unflat(shape, i) = << v[1], v[2], v[3] >>
  BY <1>3 DEF Unflat, Parts
<1> QED BY <1>3, <1>4, <1>5 DEF Total, Axes, Parts

\* Every flat index is that of a cell.
LEMMA UnflatInShape ==
  ASSUME NEW shape, Filled(shape), NEW i \in 0..(Total(shape) - 1)
  PROVE  InShape(Unflat(shape, i), shape)
<1>1. /\ shape[1] \in Nat \ {0} /\ shape[2] \in Nat \ {0} /\ shape[3] \in Nat \ {0}
  BY DEF Filled, Axes
<1> DEFINE m1 == shape[1]
           m2 == shape[2]
           m3 == shape[3]
           d == m2 * m3
<1>2. d \in Nat \ {0} /\ i \in 0..(m1 * d - 1)
  <2>1. \A x, y, z \in Nat \ {0} : x * y * z = x * (y * z) /\ y * z \in Nat \ {0}
    OBVIOUS
  <2>2. i \in 0..(m1 * m2 * m3 - 1)
    BY DEF Total
  <2> QED BY <1>1, <2>1, <2>2
<1> HIDE DEF m1, m2, m3, d
<1>3. i \div d \in 0..(m1 - 1)
  <2>0. m1 \in Nat \ {0} /\ m1 * d \in Int
    BY <1>1, <1>2 DEF m1
  <2>1. i \in Int /\ i >= 0 /\ i < m1 * d
    BY <1>2, <2>0
  <2>2. i \div d \in Int /\ i % d \in 0..(d - 1) /\ i = d * (i \div d) + (i % d)
    BY <1>2, <2>1, Division
  <2> DEFINE k == i \div d
             y == i % d
  <2> HIDE DEF k, y
  <2>3. k \in Int /\ y \in 0..(d - 1) /\ i = d * k + y
    BY <2>2 DEF k, y
  <2>4. k >= 0
    <3>1. k <= -1 => d * k <= -d
      BY <1>2, <2>3
    <3> QED BY <1>2, <2>1, <2>3, <3>1
  <2>5. k < m1
    <3>1. k >= m1 => d * k >= m1 * d
      BY <1>2, <2>0, <2>3
    <3> QED BY <1>2, <2>0, <2>1, <2>3, <3>1
  <2> QED BY <2>0, <2>3, <2>4, <2>5 DEF k
<1>4. (i \div m3) % m2 \in 0..(m2 - 1) /\ i % m3 \in 0..(m3 - 1)
  <2>1. i \in Int /\ m2 \in Nat \ {0} /\ m3 \in Nat \ {0}
    BY <1>1, <1>2 DEF m2, m3
  <2>2. i \div m3 \in Int /\ i % m3 \in 0..(m3 - 1)
    BY <2>1, Division
  <2>3. (i \div m3) % m2 \in 0..(m2 - 1)
    BY <2>1, <2>2, Division
  <2> QED BY <2>2, <2>3
<1>5. Unflat(shape, i) = << i \div d, (i \div m3) % m2, i % m3 >>
  BY DEF Unflat, d, m2, m3
<1> HIDE DEF Unflat
<1> QED BY <1>3, <1>4, <1>5 DEF InShape, Axes, m1, m2, m3

Viewed(g) ==
  /\ \A a \in Axes : g.n[a] \in Nat \ {0} /\ g.off[a] \in Int

\* The first cell along an axis that a solver updates.
First(c, a) == IF c[1] = "H" /\ a # c[2] THEN 1 ELSE 0

Homes(g, c) == {Sum3(Unflat(Shape(g, c), i), g.off) : i \in ActiveTargets(g, c)}

Region(g, c) ==
  {p \in [Axes -> Int] :
     \A a \in Axes : g.off[a] + First(c, a) <= p[a] /\ p[a] < g.off[a] + First(c, a) + g.n[a]}

\* The arrays of a view are not empty.
LEMMA ShapeSized ==
  ASSUME NEW g, Viewed(g), NEW c \in Component
  PROVE  Filled(Shape(g, c))
<1> SUFFICES ASSUME NEW a \in Axes PROVE Shape(g, c)[a] \in Nat \ {0}
  BY DEF Filled
<1>1. g.n[a] \in Nat \ {0}
  BY DEF Viewed
<1>2. Shape(g, c)[a] = IF a = c[2] THEN g.n[a] ELSE g.n[a] + 1
  BY DEF Shape
<1> QED BY <1>1, <1>2

\* The bounds of an updated cell.
LEMMA ActiveBounds ==
  ASSUME NEW g, Viewed(g), NEW c \in Component, NEW v
  PROVE  InShape(v, Shape(g, c)) /\ InBounds(Shape(g, c), c, v)
         <=> \A a \in Axes : v[a] \in Int /\ First(c, a) <= v[a] /\ v[a] < First(c, a) + g.n[a]
<1>1. c[1] \in {"E", "H"} /\ c[2] \in Axes
  BY DEF Component
<1>2. \A a \in Axes : g.n[a] \in Nat \ {0}
  BY DEF Viewed
<1>3. \A a \in Axes : Shape(g, c)[a] = IF a = c[2] THEN g.n[a] ELSE g.n[a] + 1
  BY DEF Shape
<1>4. ASSUME NEW a \in Axes
      PROVE  /\ v[a] \in 0..(Shape(g, c)[a] - 1)
             /\ a # c[2] => IF c[1] = "E" THEN v[a] < Shape(g, c)[a] - 1 ELSE v[a] >= 1
             <=> v[a] \in Int /\ First(c, a) <= v[a] /\ v[a] < First(c, a) + g.n[a]
  BY <1>1, <1>2, <1>3 DEF First
<1> QED BY <1>4 DEF InShape, InBounds

\* The cells of the active targets are those the view updates.
LEMMA HomesAreRegion ==
  ASSUME NEW g, Viewed(g), NEW c \in Component
  PROVE  Homes(g, c) = Region(g, c)
<1> DEFINE shape == Shape(g, c)
<1>1. Filled(shape)
  BY ShapeSized
<1>2. \A a \in Axes : g.off[a] \in Int /\ g.n[a] \in Nat \ {0} /\ First(c, a) \in {0, 1}
  BY DEF Viewed, First
<1>3. ASSUME NEW i \in ActiveTargets(g, c) PROVE Sum3(Unflat(shape, i), g.off) \in Region(g, c)
  <2> DEFINE v == Unflat(shape, i)
  <2>1. i \in 0..(Total(shape) - 1) /\ InBounds(shape, c, v)
    BY DEF ActiveTargets
  <2>2. InShape(v, shape)
    BY <1>1, <2>1, UnflatInShape
  <2> HIDE DEF v
  <2>3. \A a \in Axes : v[a] \in Int /\ First(c, a) <= v[a] /\ v[a] < First(c, a) + g.n[a]
    BY <2>1, <2>2, ActiveBounds
  <2> DEFINE p == Sum3(v, g.off)
  <2>4. ASSUME NEW a \in Axes
        PROVE  /\ p[a] \in Int /\ g.off[a] + First(c, a) <= p[a]
               /\ p[a] < g.off[a] + First(c, a) + g.n[a]
    <3>1. p[a] = v[a] + g.off[a]
      BY DEF Sum3
    <3> QED BY <1>2, <2>3, <3>1
  <2>5. p \in [Axes -> Int]
    BY <2>4 DEF Sum3
  <2> HIDE DEF p
  <2>6. p \in Region(g, c)
    BY <2>4, <2>5 DEF Region
  <2> QED BY <2>6 DEF p, v
<1>4. ASSUME NEW p \in Region(g, c)
      PROVE  \E i \in ActiveTargets(g, c) : p = Sum3(Unflat(shape, i), g.off)
  <2> DEFINE v == [a \in Axes |-> p[a] - g.off[a]]
             i == Flat(shape, v)
  <2>1. p \in [Axes -> Int]
        /\ \A a \in Axes : g.off[a] + First(c, a) <= p[a] /\ p[a] < g.off[a] + First(c, a) + g.n[a]
    BY DEF Region
  <2>2. \A a \in Axes : v[a] = p[a] - g.off[a] /\ p[a] \in Int
    BY <2>1
  <2> HIDE DEF v
  <2>3. \A a \in Axes : v[a] \in Int /\ First(c, a) <= v[a] /\ v[a] < First(c, a) + g.n[a]
    <3> TAKE a \in Axes
    <3>1. /\ v[a] = p[a] - g.off[a] /\ p[a] \in Int /\ g.off[a] \in Int /\ g.n[a] \in Int
          /\ First(c, a) \in Int
          /\ g.off[a] + First(c, a) <= p[a] /\ p[a] < g.off[a] + First(c, a) + g.n[a]
      BY <1>2, <2>1, <2>2
    <3> QED BY <3>1
  <2>4. InShape(v, shape) /\ InBounds(shape, c, v)
    BY <2>3, ActiveBounds
  <2>5. i \in 0..(Total(shape) - 1) /\ \A a \in Axes : Unflat(shape, i)[a] = v[a]
    BY <1>1, <2>4, FlatInverse
  <2> HIDE DEF i, shape
  <2>6. InBounds(shape, c, Unflat(shape, i))
    BY <2>4, <2>5 DEF InBounds
  <2>7. i \in ActiveTargets(g, c)
    BY <2>5, <2>6 DEF ActiveTargets, shape
  <2>8. p = Sum3(Unflat(shape, i), g.off)
    <3>1. \A a \in Axes : Unflat(shape, i)[a] + g.off[a] = p[a]
      <4> TAKE a \in Axes
      <4>1. /\ g.off[a] \in Int /\ p[a] \in Int /\ v[a] = p[a] - g.off[a]
            /\ Unflat(shape, i)[a] = v[a]
        BY <1>2, <2>2, <2>5
      <4> QED BY <4>1
    <3>2. p = [a \in Axes |-> p[a]]
      BY <2>1
    <3> QED BY <3>1, <3>2 DEF Sum3
  <2> QED BY <2>7, <2>8
<1> QED BY <1>3, <1>4 DEF Homes

\* The active targets of a component are finitely many integers.
LEMMA ActiveFinite ==
  ASSUME NEW g, Viewed(g), NEW c \in Component
  PROVE  IsFiniteSet(ActiveTargets(g, c)) /\ ActiveTargets(g, c) \subseteq Int
<1> DEFINE t == Total(Shape(g, c))
<1>1. t \in Int
  <2>1. Filled(Shape(g, c))
    BY ShapeSized
  <2> QED BY <2>1 DEF Filled, Total, Axes
<1>2. ActiveTargets(g, c) \in SUBSET (0..(t - 1))
  BY DEF ActiveTargets
<1> HIDE DEF t
<1>3. IsFiniteSet(0..(t - 1)) /\ 0..(t - 1) \subseteq Int
  BY <1>1, FS_Interval
<1> QED BY <1>2, <1>3, FS_Subset
-----------------------------------------------------------------------------
(* The plan of a view, as a function of the points of its cells. *)
PointOf(c, p) == [a \in Axes |-> 2 * p[a] + Stagger(c, a)]

HomeOf(g, c, i) == Sum3(Unflat(Shape(g, c), i), g.off)

\* A target has the place in the scene of its cell.
LEMMA HomePoint ==
  ASSUME NEW g, NEW c, NEW i
  PROVE  PointAt(g, c, i) = PointOf(c, HomeOf(g, c, i))
BY DEF PointAt, PointOf, HomeOf, IndexToSpace, Sum3

Gathered(buckets, s, g, c) ==
  /\ \A o \in DOMAIN buckets : \E sig :
       Holds(buckets[o], s, g, c, sig, {i \in ActiveTargets(g, c) : ModelAt(s, g, c, i) = sig})
  /\ \A i \in ActiveTargets(g, c) : \E o \in DOMAIN buckets :
       Holds(buckets[o], s, g, c, ModelAt(s, g, c, i),
             {j \in ActiveTargets(g, c) : ModelAt(s, g, c, j) = ModelAt(s, g, c, i)})

\* Every active target is in one bucket, that of its model.
LEMMA PlanGathers ==
  ASSUME NEW s, Grown(s), NEW options, NEW g, Viewed(g), NEW c \in Component
  PROVE  Gathered(Plan(s, options, g)[c].buckets, s, g, c)
<1> DEFINE active == ActiveTargets(g, c)
           T == {ModelAt(s, g, c, i) : i \in active}
           sigs == Ordered(T, SignatureBefore)
           buckets == [o \in DOMAIN sigs |-> Bucket(s, options, g, c, sigs[o], active)]
<1>1. Plan(s, options, g)[c].buckets = buckets
  BY DEF Plan, ComponentPlan, Planes
<1>2. IsFiniteSet(active) /\ active \subseteq Int
  BY ActiveFinite
<1>3. IsFiniteSet(T) /\ T \subseteq Range(Models) \X Nat \X Nat
  <2>1. \A i \in active : ModelAt(s, g, c, i) \in Range(Models) \X Nat \X Nat
    BY KeyType, SignatureType DEF ModelAt, KeyAt
  <2> DEFINE f == [i \in active |-> ModelAt(s, g, c, i)]
  <2>2. f \in Surjection(active, T)
    BY DEF Surjection
  <2> HIDE DEF f, active
  <2>3. IsFiniteSet(T)
    <3> HIDE DEF T
    <3> QED BY <1>2, <2>2, FS_Surjection
  <2> QED BY <2>1, <2>3
<1> HIDE DEF active
<1>4. Listed(sigs, T)
  <2> HIDE DEF T
  <2> QED BY <1>3, OrderedSignatures
<1> HIDE DEF sigs
<1>5. ASSUME NEW o \in DOMAIN sigs
      PROVE  Holds(buckets[o], s, g, c, sigs[o], {i \in active : ModelAt(s, g, c, i) = sigs[o]})
  BY <1>2, BucketHolds
<1>6. ASSUME NEW i \in active PROVE \E o \in DOMAIN sigs : sigs[o] = ModelAt(s, g, c, i)
  BY <1>4 DEF Listed, Lists
<1>7. DOMAIN buckets = DOMAIN sigs
  OBVIOUS
<1> HIDE DEF buckets
<1>8. Gathered(buckets, s, g, c)
  <2>1. \A o \in DOMAIN buckets : \E sig :
          Holds(buckets[o], s, g, c, sig, {i \in active : ModelAt(s, g, c, i) = sig})
    BY <1>5, <1>7
  <2>2. ASSUME NEW i \in active
        PROVE  \E o \in DOMAIN buckets :
                 Holds(buckets[o], s, g, c, ModelAt(s, g, c, i),
                       {j \in active : ModelAt(s, g, c, j) = ModelAt(s, g, c, i)})
    <3>1. PICK o \in DOMAIN sigs : sigs[o] = ModelAt(s, g, c, i)
      BY <1>6
    <3>2. Holds(buckets[o], s, g, c, sigs[o], {j \in active : ModelAt(s, g, c, j) = sigs[o]})
      BY <1>5
    <3> QED BY <1>7, <3>1, <3>2
  <2> QED BY <2>1, <2>2, Zenon DEF Gathered, active
<1> QED BY <1>1, <1>8

\* What a bucket does with its k-th cell is What of the point of that cell.
Does(b, k) == << b.signature, TargetRow(b, k), IF b.cells = <<>> THEN <<>> ELSE b.cells[k] >>

\* A row of a bucket treats its target as the scene asks.
LEMMA BucketDoes ==
  ASSUME NEW s, NEW g, NEW c, NEW b, NEW sig,
         Holds(b, s, g, c, sig, {i \in ActiveTargets(g, c) : ModelAt(s, g, c, i) = sig}),
         NEW k \in DOMAIN b.targets
  PROVE  /\ b.targets[k] \in ActiveTargets(g, c)
         /\ Does(b, k) = What(s, c, PointAt(g, c, b.targets[k]))
<1> DEFINE i == b.targets[k]
           x == PointAt(g, c, i)
           m == Material(s, Key(s, x)[1])
<1>1. i \in ActiveTargets(g, c) /\ ModelAt(s, g, c, i) = sig
  BY DEF Holds, Lists
<1>2. sig = ModelAndState(m, c)
  BY <1>1 DEF ModelAt, KeyAt
<1>3. /\ b.signature = sig /\ TargetRow(b, k) = CoefficientRow(s, Key(s, x), c)
      /\ sig[1] \in Absorbers =>
           b.cells # <<>> /\ b.cells[k] = PmlCell(s, m, c, x, TargetRow(b, k)[1])
      /\ sig[1] \notin Absorbers => b.cells = <<>>
  BY DEF Holds
<1> HIDE DEF x
<1>4. What(s, c, x) = << ModelAndState(m, c), CoefficientRow(s, Key(s, x), c),
                         IF ModelAndState(m, c)[1] \in Absorbers
                         THEN PmlCell(s, m, c, x, CoefficientRow(s, Key(s, x), c)[1])
                         ELSE <<>> >>
  BY DEF What
<1> HIDE DEF m, i
<1>5. Does(b, k) = What(s, c, x)
  BY <1>2, <1>3, <1>4 DEF Does
<1> QED BY <1>1, <1>5 DEF x, i

\* The treatment of a view's cells depends on where they are only.
LEMMA TreatmentIs ==
  ASSUME NEW s, Grown(s), NEW options, NEW g, Viewed(g), NEW c \in Component
  PROVE  Treatment(Plan(s, options, g), g, c)
           = {<<p, What(s, c, PointOf(c, p))>> : p \in Region(g, c)}
<1> DEFINE buckets == Plan(s, options, g)[c].buckets
           T == Treatment(Plan(s, options, g), g, c)
           R == {<<p, What(s, c, PointOf(c, p))>> : p \in Region(g, c)}
           homes == UNION {{<<o, k>> : k \in DOMAIN buckets[o].targets} : o \in DOMAIN buckets}
<1>1. T = {<<HomeOf(g, c, buckets[x[1]].targets[x[2]]), Does(buckets[x[1]], x[2])>> : x \in homes}
  BY DEF Treatment, HomeOf, Does
<1>2. Gathered(buckets, s, g, c)
  BY PlanGathers
<1>3. Homes(g, c) = {HomeOf(g, c, i) : i \in ActiveTargets(g, c)} /\ Homes(g, c) = Region(g, c)
  BY HomesAreRegion DEF Homes, HomeOf
<1> HIDE DEF buckets, T
<1>4. ASSUME NEW t \in T PROVE t \in R
  <2>1. PICK x \in homes :
          t = <<HomeOf(g, c, buckets[x[1]].targets[x[2]]), Does(buckets[x[1]], x[2])>>
    BY <1>1
  <2>2. PICK o \in DOMAIN buckets : \E k \in DOMAIN buckets[o].targets : x = <<o, k>>
    OBVIOUS
  <2>3. PICK k \in DOMAIN buckets[o].targets : x = <<o, k>>
    BY <2>2
  <2> DEFINE b == buckets[o]
             i == b.targets[k]
  <2>4. t = <<HomeOf(g, c, i), Does(b, k)>>
    BY <2>1, <2>3
  <2>5. PICK sig : Holds(b, s, g, c, sig, {j \in ActiveTargets(g, c) : ModelAt(s, g, c, j) = sig})
    BY <1>2 DEF Gathered
  <2>6. i \in ActiveTargets(g, c) /\ Does(b, k) = What(s, c, PointAt(g, c, i))
    BY <2>5, BucketDoes
  <2> HIDE DEF i, b
  <2>7. HomeOf(g, c, i) \in Region(g, c)
    BY <1>3, <2>6
  <2>8. t = <<HomeOf(g, c, i), What(s, c, PointOf(c, HomeOf(g, c, i)))>>
    BY <2>4, <2>6, HomePoint
  <2> QED BY <2>7, <2>8
<1>5. ASSUME NEW p \in Region(g, c) PROVE <<p, What(s, c, PointOf(c, p))>> \in T
  <2>1. PICK i \in ActiveTargets(g, c) : p = HomeOf(g, c, i)
    BY <1>3
  <2>2. PICK o \in DOMAIN buckets :
          Holds(buckets[o], s, g, c, ModelAt(s, g, c, i),
                {j \in ActiveTargets(g, c) : ModelAt(s, g, c, j) = ModelAt(s, g, c, i)})
    BY <1>2 DEF Gathered
  <2>3. PICK k \in DOMAIN buckets[o].targets : buckets[o].targets[k] = i
    BY <2>2 DEF Holds, Lists
  <2>4. Does(buckets[o], k) = What(s, c, PointAt(g, c, i))
    BY <2>2, <2>3, BucketDoes
  <2>5. <<o, k>> \in homes
    OBVIOUS
  <2>6. <<HomeOf(g, c, buckets[o].targets[k]), Does(buckets[o], k)>> \in T
    <3>1. <<o, k>>[1] = o /\ <<o, k>>[2] = k
      OBVIOUS
    <3> HIDE DEF homes
    <3> QED BY <1>1, <2>5, <3>1
  <2> QED BY <2>1, <2>3, <2>4, <2>6, HomePoint
<1> QED BY <1>4, <1>5 DEF T

-----------------------------------------------------------------------------
(* The views of the two ranks. *)
Partition(n, axis, cut) == axis \in Axes /\ cut \in Nat /\ 2 <= cut /\ cut <= n[axis] - 2

\* The views of the whole grid and of the two ranks are views.
LEMMA ViewsAreViews ==
  ASSUME NEW n \in [Axes -> Nat \ {0}], NEW axis, NEW cut, Partition(n, axis, cut)
  PROVE  /\ Viewed(Serial(n))
         /\ \A r \in {0, 1} : /\ Viewed(RankLocal(n, axis, cut, r))
                              /\ RankLocal(n, axis, cut, r).n[axis] >= 2
<1>1. Viewed(Serial(n))
  BY DEF Viewed, Serial, Zero
<1>2. ASSUME NEW r \in {0, 1}, NEW a \in Axes
      PROVE  /\ RankLocal(n, axis, cut, r).n[a] \in Nat \ {0}
             /\ RankLocal(n, axis, cut, r).off[a] \in Int
             /\ a = axis => RankLocal(n, axis, cut, r).n[a] >= 2
  <2>1. RankLocal(n, axis, cut, r).n[a]
          = IF a = axis THEN (IF r = 0 THEN cut ELSE n[axis] - cut) ELSE n[a]
    BY DEF RankLocal
  <2>2. RankLocal(n, axis, cut, r).off[a] = IF r # 0 /\ a = axis THEN cut ELSE 0
    BY DEF RankLocal, Zero
  <2>3. n[a] \in Nat \ {0} /\ n[axis] \in Nat \ {0}
    BY DEF Partition
  <2> QED BY <2>1, <2>2, <2>3 DEF Partition
<1> QED BY <1>1, <1>2 DEF Viewed, Partition

\* The ranks' regions do not meet and together are that of the whole.
LEMMA RegionsPartition ==
  ASSUME NEW n \in [Axes -> Nat \ {0}], NEW axis, NEW cut, Partition(n, axis, cut),
         NEW c \in Component
  PROVE  LET region(r) == Region(RankLocal(n, axis, cut, r), c)
         IN  /\ region(0) \cap region(1) = {}
             /\ region(0) \cup region(1) = Region(Serial(n), c)
<1> DEFINE region(r) == Region(RankLocal(n, axis, cut, r), c)
           in(p, a, low, count) == low + First(c, a) <= p[a] /\ p[a] < low + First(c, a) + count
<1>1. \A a \in Axes : First(c, a) \in Int /\ n[a] \in Nat \ {0}
  BY DEF First
<1>2. ASSUME NEW p \in [Axes -> Int]
      PROVE  /\ p \in region(0) <=> \A a \in Axes : in(p, a, 0, IF a = axis THEN cut ELSE n[a])
             /\ p \in region(1) <=> \A a \in Axes : in(p, a, IF a = axis THEN cut ELSE 0,
                                                       IF a = axis THEN n[axis] - cut ELSE n[a])
             /\ p \in Region(Serial(n), c) <=> \A a \in Axes : in(p, a, 0, n[a])
  <2>1. \A a \in Axes : /\ RankLocal(n, axis, cut, 0).n[a] = IF a = axis THEN cut ELSE n[a]
                        /\ RankLocal(n, axis, cut, 0).off[a] = 0
    BY DEF RankLocal, Zero
  <2>2. \A a \in Axes : /\ RankLocal(n, axis, cut, 1).n[a] = IF a = axis THEN n[axis] - cut ELSE n[a]
                        /\ RankLocal(n, axis, cut, 1).off[a] = IF a = axis THEN cut ELSE 0
    BY DEF RankLocal, Zero
  <2>3. \A a \in Axes : Serial(n).n[a] = n[a] /\ Serial(n).off[a] = 0
    BY DEF Serial, Zero
  <2> HIDE DEF in
  <2>4. \A g : p \in Region(g, c) <=> \A a \in Axes : in(p, a, g.off[a], g.n[a])
    BY DEF Region, in
  <2> QED BY <2>1, <2>2, <2>3, <2>4
<1>3. ASSUME NEW p \in [Axes -> Int], NEW a \in Axes, a = axis
      PROVE  /\ ~(in(p, a, 0, cut) /\ in(p, a, cut, n[a] - cut))
             /\ in(p, a, 0, n[a]) <=> in(p, a, 0, cut) \/ in(p, a, cut, n[a] - cut)
  <2>1. p[a] \in Int /\ First(c, a) \in Int /\ n[a] \in Nat /\ cut \in Nat
        /\ 2 <= cut /\ cut <= n[a] - 2
    BY <1>1, <1>3 DEF Partition
  <2> QED BY <2>1
<1>4. axis \in Axes
  BY DEF Partition
<1>5. \A r : region(r) \subseteq [Axes -> Int]
  BY DEF Region
<1>6. Region(Serial(n), c) \subseteq [Axes -> Int]
  BY DEF Region
<1> HIDE DEF region, in
<1>7. ASSUME NEW p \in [Axes -> Int]
      PROVE  /\ ~(p \in region(0) /\ p \in region(1))
             /\ p \in Region(Serial(n), c) <=> p \in region(0) \/ p \in region(1)
  <2>1. /\ ~(in(p, axis, 0, cut) /\ in(p, axis, cut, n[axis] - cut))
        /\ in(p, axis, 0, n[axis]) <=> in(p, axis, 0, cut) \/ in(p, axis, cut, n[axis] - cut)
    BY <1>3, <1>4
  <2> QED BY <1>2, <1>4, <2>1
<1>8. region(0) \cap region(1) = {} /\ region(0) \cup region(1) = Region(Serial(n), c)
  BY <1>5, <1>6, <1>7
<1> QED BY <1>8 DEF region

\* The plans the ranks make of their own views are the plan of the undivided scene
\* taken apart.
LEMMA RanksTakeApart ==
  ASSUME IInv
  PROVE  RanksPartition
<1> SUFFICES ASSUME split # <<>> PROVE RanksPartition
  BY DEF RanksPartition
<1> DEFINE s == This
           a == split.axis
           d == split.cut
           options == [sim.options EXCEPT !.distributed = TRUE]
           view(r) == RankLocal(s.n, a, d, r)
           region(r, c) == Region(view(r), c)
           treated(c, T) == {<<p, What(s, c, PointOf(c, p))>> : p \in T}
<1>1. PICK order \in Orders : Decomposable(s, order) /\ split = Chosen(order)
  BY DEF IInv, SplitChosen
<1>2. a = Choose(s, order)[1] /\ d = Choose(s, order)[2] /\ order \in Asked
  BY <1>1, OrderAssumption DEF Chosen, Asked
<1>3. Sized(s) /\ Grown(s) /\ s.n \in [Axes -> Nat \ {0}]
  BY SceneAssumption DEF IInv, WellFormed, Typed, Sized, Grown, This
<1> HIDE DEF s
<1>4. Partition(s.n, a, d)
  <2>1. a \in SplitAxes(s, order) /\ d \in Cuts(s, order, a)
    BY <1>1, <1>2, <1>3, ChoiceIsLowest
  <2>2. a \in Axes /\ d \in Nat
    BY <1>1, <1>2, <1>3, <2>1, Candidates
  <2>3. 1 < d /\ d < s.n[a] - 1
    BY <1>1, <2>1 DEF Decomposable
  <2>4. s.n[a] \in Nat
    BY <1>3, <2>2
  <2> QED BY <2>2, <2>3, <2>4 DEF Partition
<1>5. PICK k \in DOMAIN Configs : sim.plan = Plan(s, Configs[k], Serial(s.n))
  <2>1. PICK k \in DOMAIN Simulations[scene] : sim = Simulations[scene][k]
    BY DEF IInv, Range
  <2>2. k \in DOMAIN Configs /\ sim = Construct(Configs[k], Plan(s, Configs[k], Serial(s.n)))
    BY <2>1 DEF IInv, Simulations, s, This
  <2> QED BY <2>2 DEF Construct
<1>6. Viewed(Serial(s.n)) /\ \A r \in {0, 1} : Viewed(view(r)) /\ view(r).n[a] >= 2
  BY <1>3, <1>4, ViewsAreViews
<1>7. ASSUME NEW c \in Component
      PROVE  /\ Treatment(sim.plan, Serial(s.n), c) = treated(c, Region(Serial(s.n), c))
             /\ \A r \in {0, 1} :
                  Treatment(Plan(s, options, view(r)), view(r), c) = treated(c, region(r, c))
  <2>1. Treatment(Plan(s, Configs[k], Serial(s.n)), Serial(s.n), c)
          = treated(c, Region(Serial(s.n), c))
    BY <1>3, <1>6, TreatmentIs
  <2>2. ASSUME NEW r \in {0, 1}
        PROVE  Treatment(Plan(s, options, view(r)), view(r), c) = treated(c, region(r, c))
    <3> DEFINE g == view(r)
    <3>1. Viewed(g)
      BY <1>6
    <3> HIDE DEF g, options
    <3>2. Treatment(Plan(s, options, g), g, c) = treated(c, Region(g, c))
      BY <1>3, <3>1, TreatmentIs
    <3> QED BY <3>2 DEF g
  <2> QED BY <1>5, <2>1, <2>2
<1>8. ASSUME NEW c \in Component
      PROVE  /\ region(0, c) \cap region(1, c) = {}
             /\ region(0, c) \cup region(1, c) = Region(Serial(s.n), c)
  BY <1>3, <1>4, RegionsPartition
<1> DEFINE plans == [r \in {0, 1} |-> Plan(s, options, view(r))]
<1>9. ASSUME NEW c \in Component, NEW parts,
             parts = [r \in {0, 1} |-> Treatment(plans[r], view(r), c)]
      PROVE  /\ PlacesOf(parts[0]) \cap PlacesOf(parts[1]) = {}
             /\ parts[0] \cup parts[1] = Treatment(sim.plan, Serial(s.n), c)
  <2>1. parts[0] = treated(c, region(0, c)) /\ parts[1] = treated(c, region(1, c))
    <3> HIDE DEF view, options, region, treated
    <3>1. plans[0] = Plan(s, options, view(0)) /\ plans[1] = Plan(s, options, view(1))
      OBVIOUS
    <3>2. /\ parts[0] = Treatment(plans[0], view(0), c)
          /\ parts[1] = Treatment(plans[1], view(1), c)
      BY <1>9
    <3> QED BY <1>7, <3>1, <3>2
  <2>2. PlacesOf(parts[0]) = region(0, c) /\ PlacesOf(parts[1]) = region(1, c)
    <3>1. ASSUME NEW T PROVE PlacesOf(treated(c, T)) = T
      <4> DEFINE W(p) == What(s, c, PointOf(c, p))
      <4>1. treated(c, T) = {<<p, W(p)>> : p \in T}
        OBVIOUS
      <4> HIDE DEF W, treated
      <4>2. ASSUME NEW p \in T PROVE p \in PlacesOf(treated(c, T))
        <5>1. <<p, W(p)>> \in treated(c, T) /\ <<p, W(p)>>[1] = p
          BY <4>1
        <5> QED BY <5>1 DEF PlacesOf
      <4>3. ASSUME NEW x \in PlacesOf(treated(c, T)) PROVE x \in T
        <5>1. PICK t \in treated(c, T) : x = t[1]
          BY DEF PlacesOf
        <5>2. PICK p \in T : t = <<p, W(p)>>
          BY <4>1
        <5> QED BY <5>1, <5>2
      <4> QED BY <4>2, <4>3
    <3> HIDE DEF treated, region
    <3> QED BY <2>1, <3>1
  <2>3. treated(c, region(0, c)) \cup treated(c, region(1, c))
          = treated(c, region(0, c) \cup region(1, c))
    <3> HIDE DEF region
    <3> QED OBVIOUS
  <2> HIDE DEF treated, region
  <2> QED BY <1>7, <1>8, <2>1, <2>2, <2>3
<1> HIDE DEF plans, options, view
<1>10. /\ \A r \in {0, 1} : view(r).n[a] >= 2
       /\ \A c \in Component :
            \A parts \in {[r \in {0, 1} |-> Treatment(plans[r], view(r), c)]} :
              /\ PlacesOf(parts[0]) \cap PlacesOf(parts[1]) = {}
              /\ parts[0] \cup parts[1] = Treatment(sim.plan, Serial(s.n), c)
  BY <1>6, <1>9
<1> QED BY <1>10, Zenon DEF RanksPartition, plans, options, view, s

\* Every updated cell is in a bucket of exactly one rank, with the model, the
\* coefficients and the grading it has in the plan of the undivided scene.
THEOREM PlansTakenApart == Spec => []RanksPartition
BY Inductive, RanksTakeApart, PTL

\* The sum of a sequence of integers is an integer.
LEMMA SumOfInteger ==
  ASSUME NEW n \in Nat, NEW seq \in [1..n -> Int]
  PROVE  SumOf(seq) \in Int
<1> DEFINE S == 1..n
           pick == [r \in SUBSET S |-> Max(r)]
           X(g) == [r \in SUBSET S |-> IF r = {} THEN 0 ELSE g[r \ {Max(r)}] + seq[Max(r)]]
           h == CHOOSE g : g = X(g)
<1>1. SumOf(seq) = h[S]
  <2>1. DOMAIN seq = S
    OBVIOUS
  <2> HIDE DEF S
  <2> QED BY <2>1 DEF SumOf, FoldLeft, MapThenFoldSet
<1>2. \A r \in SUBSET S : pick[r] = Max(r) /\ (r # {} => pick[r] \in r)
  BY MaxOfInterval
<1> HIDE DEF pick
<1>3. \A g : X(g) = [r \in SUBSET S |-> SumStep(g, r, seq, pick)]
  BY <1>2 DEF SumStep
<1> HIDE DEF X, h
<1>4. Picks(pick, S) /\ IsFiniteSet(S) /\ \A k \in S : seq[k] \in Int
  <2>1. Picks(pick, S)
    BY <1>2 DEF Picks
  <2>2. IsFiniteSet(S)
    BY FS_Interval
  <2> QED BY <2>1, <2>2
<1> HIDE DEF S
<1>5. PICK g : Sums(g, S, seq, pick)
  BY <1>4, SumsExist
<1>6. \E q : q = X(q)
  BY <1>3, <1>5, Zenon DEF Sums
<1>7. h = X(h)
  BY <1>6, Zenon DEF h
<1>8. Sums(h, S, seq, pick)
  BY <1>3, <1>7, Zenon DEF Sums
<1>9. h[S] \in Int
  BY <1>4, <1>8, SumsInteger
<1> QED BY <1>1, <1>9

-----------------------------------------------------------------------------
(* The updates of a cell keep its field and its memory integers. *)
LEMMA ResidueInteger ==
  ASSUME NEW x \in Int
  PROVE  x % P \in Int /\ x % P \in 0..(P - 1)
BY ResidueAssumption

\* The Drude and Lorentz recurrence keeps integers in rows of its length.
LEMMA TwoLevelTyped ==
  ASSUME NEW p \in Nat,
         NEW k \in [a : [1..p -> Int \X Int \X Int], c : Int \X Int \X Int],
         NEW row \in [previous : [1..p -> Int], current : [1..p -> Int]],
         NEW e \in Int, NEW curl \in Int
  PROVE  /\ TwoLevel(k, row, e, curl).field \in 0..(P - 1)
         /\ TwoLevel(k, row, e, curl).row \in [previous : [1..p -> Int], current : [1..p -> Int]]
<1> DEFINE next(i) == k.a[i][1] * row.previous[i] + k.a[i][2] * row.current[i] + k.a[i][3] * e
           work == [i \in DOMAIN row.current |-> next(i) % P]
           fall == [i \in DOMAIN work |-> work[i] - row.current[i]]
           drive == k.c[1] * curl + k.c[2] * SumOf(fall) + k.c[3] * e
<1>1. work \in [1..p -> Int]
  <2>1. ASSUME NEW i \in 1..p PROVE next(i) % P \in Int
    <3>1. next(i) \in Int
      OBVIOUS
    <3> HIDE DEF next
    <3> QED BY <3>1, ResidueInteger
  <2> HIDE DEF next
  <2> QED BY <2>1
<1>2. DOMAIN row.current = 1..p
  OBVIOUS
<1>9. TwoLevel(k, row, e, curl)
        = [field |-> drive % P, row |-> [previous |-> row.current, current |-> work]]
  BY DEF TwoLevel
<1> HIDE DEF work
<1>3. fall \in [1..p -> Int]
  BY <1>1
<1> HIDE DEF fall
<1>4. SumOf(fall) \in Int
  BY <1>3, SumOfInteger
<1>5. drive \in Int
  BY <1>4
<1> HIDE DEF drive
<1>6. drive % P \in 0..(P - 1)
  BY <1>5, ResidueInteger
<1> QED BY <1>1, <1>6, <1>9

\* So does that of critical points with auxiliary equations,
LEMMA DcpAdeTyped ==
  ASSUME NEW p \in Nat, NEW q \in Nat,
         NEW k \in [a : [1..p -> Int \X Int \X Int], b : [1..q -> Int \X Int \X Int \X Int \X Int],
                    c : Int \X Int \X Int \X Int],
         NEW R, R = [field : Int, poleOld : [1..p -> Int], poleNow : [1..p -> Int],
                     pointOld : [1..q -> Int], pointNow : [1..q -> Int]],
         NEW row \in R, NEW e \in Int, NEW curl \in Int
  PROVE  DcpAde(k, row, e, curl).field \in 0..(P - 1) /\ DcpAde(k, row, e, curl).row \in R
<1> DEFINE fall(a, old, now) == [i \in DOMAIN now |-> now[i] - a[i][2] * now[i] - a[i][1] * old[i]]
           poles == fall(k.a, row.poleOld, row.poleNow)
           points == fall(k.b, row.pointOld, row.pointNow)
           drive == k.c[1] * curl + k.c[2] * (SumOf(poles) + SumOf(points))
                      + k.c[3] * row.field + k.c[4] * e
           field == drive % P
           combo == row.field + 2 * e + field
           polar(i) == k.a[i][1] * row.poleOld[i] + k.a[i][2] * row.poleNow[i] + k.a[i][3] * combo
           pointed(i) == k.b[i][1] * row.pointOld[i] + k.b[i][2] * row.pointNow[i]
                           + k.b[i][3] * row.field + k.b[i][4] * e + k.b[i][5] * field
           pole == [i \in DOMAIN row.poleNow |-> polar(i) % P]
           point == [i \in DOMAIN row.pointNow |-> pointed(i) % P]
<1>1. DcpAde(k, row, e, curl)
        = [field |-> field,
           row |-> [field |-> e, poleOld |-> row.poleNow, poleNow |-> pole,
                    pointOld |-> row.pointNow, pointNow |-> point]]
  BY Zenon DEF DcpAde
<1>2. /\ row.field \in Int
      /\ row.poleOld \in [1..p -> Int] /\ row.poleNow \in [1..p -> Int]
      /\ row.pointOld \in [1..q -> Int] /\ row.pointNow \in [1..q -> Int]
  OBVIOUS
<1>3. \A i \in 1..p : k.a[i][1] \in Int /\ k.a[i][2] \in Int /\ k.a[i][3] \in Int
  OBVIOUS
<1>4. \A i \in 1..q : /\ k.b[i][1] \in Int /\ k.b[i][2] \in Int /\ k.b[i][3] \in Int
                      /\ k.b[i][4] \in Int /\ k.b[i][5] \in Int
  OBVIOUS
<1>5. k.c[1] \in Int /\ k.c[2] \in Int /\ k.c[3] \in Int /\ k.c[4] \in Int
  OBVIOUS
<1>6. poles \in [1..p -> Int] /\ points \in [1..q -> Int]
  <2>1. ASSUME NEW i \in 1..p
        PROVE  row.poleNow[i] - k.a[i][2] * row.poleNow[i] - k.a[i][1] * row.poleOld[i] \in Int
    BY <1>2, <1>3
  <2>2. ASSUME NEW i \in 1..q
        PROVE  row.pointNow[i] - k.b[i][2] * row.pointNow[i] - k.b[i][1] * row.pointOld[i] \in Int
    BY <1>2, <1>4
  <2>3. DOMAIN row.poleNow = 1..p /\ DOMAIN row.pointNow = 1..q
    BY <1>2
  <2> QED BY <2>1, <2>2, <2>3
<1> HIDE DEF poles, points
<1>7. SumOf(poles) \in Int /\ SumOf(points) \in Int
  BY <1>6, SumOfInteger
<1>8. drive \in Int
  BY <1>2, <1>5, <1>7
<1> HIDE DEF drive
<1>9. field \in Int /\ field \in 0..(P - 1) /\ combo \in Int
  <2>1. field \in Int /\ field \in 0..(P - 1)
    BY <1>8, ResidueInteger
  <2> HIDE DEF field
  <2> QED BY <1>2, <2>1
<1> HIDE DEF field, combo
<1>10. \A i \in 1..p : polar(i) \in Int
  BY <1>2, <1>3, <1>9
<1>11. \A i \in 1..q : pointed(i) \in Int
  <2> TAKE i \in 1..q
  <2>1. /\ k.b[i][1] \in Int /\ k.b[i][2] \in Int /\ k.b[i][3] \in Int
        /\ k.b[i][4] \in Int /\ k.b[i][5] \in Int
    BY <1>4
  <2>2. row.pointOld[i] \in Int /\ row.pointNow[i] \in Int
    BY <1>2
  <2>3. \A x, y \in Int : x * y \in Int /\ x + y \in Int
    OBVIOUS
  <2>4. /\ k.b[i][1] * row.pointOld[i] \in Int /\ k.b[i][2] * row.pointNow[i] \in Int
        /\ k.b[i][3] * row.field \in Int /\ k.b[i][4] * e \in Int /\ k.b[i][5] * field \in Int
    BY <1>2, <1>9, <2>1, <2>2, <2>3
  <2> QED BY <2>3, <2>4
<1> HIDE DEF polar, pointed
<1>12. pole \in [1..p -> Int] /\ point \in [1..q -> Int]
  BY <1>2, <1>10, <1>11, ResidueInteger
<1> HIDE DEF pole, point
<1>13. [field |-> e, poleOld |-> row.poleNow, poleNow |-> pole,
        pointOld |-> row.pointNow, pointNow |-> point] \in R
  BY <1>2, <1>12
<1> QED BY <1>1, <1>9, <1>13

\* and that of the two convolutions.
LEMMA ConvolutionTyped ==
  ASSUME NEW p \in Nat, NEW q \in Nat,
         NEW k \in [a : [1..p -> Int \X Int \X Int],
                    b : [1..q -> (Int \X Int) \X (Int \X Int) \X (Int \X Int)],
                    c : Int \X Int \X Int],
         NEW R, R = [pole : [1..p -> Int], point : [1..q -> Int \X Int]],
         NEW row \in R, NEW e \in Int, NEW curl \in Int
  PROVE  Convolution(k, row, e, curl).field \in 0..(P - 1) /\ Convolution(k, row, e, curl).row \in R
<1> DEFINE reals == [i \in DOMAIN row.point |-> row.point[i][1]]
           drive == k.c[1] * curl + k.c[2] * e + k.c[3] * (SumOf(row.pole) + SumOf(reals))
           field == drive % P
           polar(i) == k.a[i][1] * field + k.a[i][2] * e + k.a[i][3] * row.pole[i]
           re(i) == k.b[i][1][1] * field + k.b[i][2][1] * e + k.b[i][3][1] * row.point[i][1]
                      - k.b[i][3][2] * row.point[i][2]
           im(i) == k.b[i][1][2] * field + k.b[i][2][2] * e + k.b[i][3][1] * row.point[i][2]
                      + k.b[i][3][2] * row.point[i][1]
           pole == [i \in DOMAIN row.pole |-> polar(i) % P]
           point == [i \in DOMAIN row.point |-> << re(i) % P, im(i) % P >>]
<1>1. Convolution(k, row, e, curl)
        = [field |-> field, row |-> [pole |-> pole, point |-> point]]
  BY Zenon DEF Convolution
<1>2. row.pole \in [1..p -> Int] /\ row.point \in [1..q -> Int \X Int]
  OBVIOUS
<1>3. \A i \in 1..p : k.a[i][1] \in Int /\ k.a[i][2] \in Int /\ k.a[i][3] \in Int
  OBVIOUS
<1>4. \A i \in 1..q : \A j \in 1..3 : k.b[i][j][1] \in Int /\ k.b[i][j][2] \in Int
  <2> TAKE i \in 1..q
  <2>1. k.b[i] \in (Int \X Int) \X (Int \X Int) \X (Int \X Int)
    OBVIOUS
  <2>2. k.b[i][1] \in Int \X Int /\ k.b[i][2] \in Int \X Int /\ k.b[i][3] \in Int \X Int
    BY <2>1
  <2> QED BY <2>2
<1>5. k.c[1] \in Int /\ k.c[2] \in Int /\ k.c[3] \in Int
  OBVIOUS
<1>6. reals \in [1..q -> Int] /\ \A i \in 1..q : row.point[i][1] \in Int /\ row.point[i][2] \in Int
  BY <1>2
<1> HIDE DEF reals
<1>7. SumOf(row.pole) \in Int /\ SumOf(reals) \in Int
  BY <1>2, <1>6, SumOfInteger
<1>8. drive \in Int
  BY <1>5, <1>7
<1> HIDE DEF drive
<1>9. field \in Int /\ field \in 0..(P - 1)
  BY <1>8, ResidueInteger
<1> HIDE DEF field
<1>10. \A i \in 1..p : polar(i) \in Int
  BY <1>2, <1>3, <1>9
<1>11. \A i \in 1..q : re(i) \in Int /\ im(i) \in Int
  <2> TAKE i \in 1..q
  <2>1. \A j \in 1..3 : k.b[i][j][1] \in Int /\ k.b[i][j][2] \in Int
    BY <1>4
  <2>2. row.point[i][1] \in Int /\ row.point[i][2] \in Int
    BY <1>6
  <2>3. \A x, y \in Int : x * y \in Int /\ x + y \in Int /\ x - y \in Int
    OBVIOUS
  <2>4. 1 \in 1..3 /\ 2 \in 1..3 /\ 3 \in 1..3
    OBVIOUS
  <2>5. re(i) \in Int
    BY <1>9, <2>1, <2>2, <2>3, <2>4
  <2>6. im(i) \in Int
    BY <1>9, <2>1, <2>2, <2>3, <2>4
  <2> QED BY <2>5, <2>6
<1> HIDE DEF polar, re, im
<1>12. pole \in [1..p -> Int]
  BY <1>2, <1>10, ResidueInteger
<1>13. point \in [1..q -> Int \X Int]
  BY <1>2, <1>11, ResidueInteger
<1> HIDE DEF pole, point
<1>14. [pole |-> pole, point |-> point] \in R
  BY <1>12, <1>13
<1> DEFINE next == [pole |-> pole, point |-> point]
<1>15. Convolution(k, row, e, curl) = [field |-> field, row |-> next] /\ next \in R
  BY <1>1, <1>14
<1> HIDE DEF next
<1>16. /\ Convolution(k, row, e, curl).field = field
       /\ Convolution(k, row, e, curl).row = next
  <2>1. [field |-> field, row |-> next].field = field /\ [field |-> field, row |-> next].row = next
    BY Zenon
  <2> QED BY <1>15, <2>1, Zenon
<1> QED BY <1>9, <1>15, <1>16

\* The recurrence of every dispersive signature keeps the rows of the signature.
LEMMA RecurrenceTyped ==
  ASSUME NEW m, Typed(m), m.type \in DispersiveModels,
         NEW sig, sig = << m.type, m.poles, m.points >>,
         NEW row \in MemoryRows(sig), NEW e \in Int, NEW curl \in Int
  PROVE  /\ Recurrence(sig, m.coef, row, e, curl).field \in 0..(P - 1)
         /\ Recurrence(sig, m.coef, row, e, curl).row \in MemoryRows(sig)
<1>1. m.poles \in Nat /\ m.points \in Nat /\ m.coef \in Coefficients(m)
  BY DEF Typed
<1>2. sig[1] = m.type /\ sig[2] = m.poles /\ sig[3] = m.points
  OBVIOUS
<1>3. CASE m.type \in {"drude", "lorentz"}
  <2> DEFINE R == [previous : [1..m.poles -> Int], current : [1..m.poles -> Int]]
  <2>1. MemoryRows(sig) = R
    BY <1>2, <1>3 DEF MemoryRows
  <2>2. m.coef \in [a : [1..m.poles -> Int \X Int \X Int], c : Int \X Int \X Int]
    BY <1>1, <1>3 DEF Coefficients
  <2>3. Recurrence(sig, m.coef, row, e, curl) = TwoLevel(m.coef, row, e, curl)
    BY <1>2, <1>3 DEF Recurrence
  <2> DEFINE p == m.poles
             k == m.coef
  <2>4. p \in Nat /\ row \in R /\ k \in [a : [1..p -> Int \X Int \X Int], c : Int \X Int \X Int]
    BY <1>1, <2>1, <2>2
  <2>5. R = [previous : [1..p -> Int], current : [1..p -> Int]]
    OBVIOUS
  <2> HIDE DEF R, p, k
  <2>6. TwoLevel(k, row, e, curl).field \in 0..(P - 1) /\ TwoLevel(k, row, e, curl).row \in R
    BY <2>4, <2>5, TwoLevelTyped
  <2> QED BY <2>1, <2>3, <2>6 DEF k
<1>4. CASE m.type = "dcp-ade"
  <2> DEFINE R == [field : Int, poleOld : [1..m.poles -> Int], poleNow : [1..m.poles -> Int],
                   pointOld : [1..m.points -> Int], pointNow : [1..m.points -> Int]]
  <2>1. MemoryRows(sig) = R
    BY <1>2, <1>4 DEF MemoryRows
  <2>2. m.coef \in [a : [1..m.poles -> Int \X Int \X Int],
                    b : [1..m.points -> Int \X Int \X Int \X Int \X Int],
                    c : Int \X Int \X Int \X Int]
    BY <1>1, <1>4 DEF Coefficients
  <2>3. Recurrence(sig, m.coef, row, e, curl) = DcpAde(m.coef, row, e, curl)
    BY <1>2, <1>4 DEF Recurrence
  <2> HIDE DEF R
  <2>4. row \in R
    BY <2>1
  <2>5. DcpAde(m.coef, row, e, curl).field \in 0..(P - 1) /\ DcpAde(m.coef, row, e, curl).row \in R
    BY <1>1, <2>2, <2>4, DcpAdeTyped DEF R
  <2> QED BY <2>1, <2>3, <2>5
<1>5. CASE m.type \in {"dcp-plrc", "dcp-rc"}
  <2> DEFINE R == [pole : [1..m.poles -> Int], point : [1..m.points -> Int \X Int]]
  <2>1. MemoryRows(sig) = R
    BY <1>2, <1>5 DEF MemoryRows
  <2>2. m.coef \in [a : [1..m.poles -> Int \X Int \X Int],
                    b : [1..m.points -> (Int \X Int) \X (Int \X Int) \X (Int \X Int)],
                    c : Int \X Int \X Int]
    BY <1>1, <1>5 DEF Coefficients
  <2>3. Recurrence(sig, m.coef, row, e, curl) = Convolution(m.coef, row, e, curl)
    BY <1>2, <1>5 DEF Recurrence
  <2> HIDE DEF R
  <2>4. row \in R
    BY <2>1
  <2> DEFINE p == m.poles
             q == m.points
             k == m.coef
  <2>5. /\ p \in Nat /\ q \in Nat
        /\ k \in [a : [1..p -> Int \X Int \X Int],
                  b : [1..q -> (Int \X Int) \X (Int \X Int) \X (Int \X Int)],
                  c : Int \X Int \X Int]
    BY <1>1, <2>2
  <2>6. R = [pole : [1..p -> Int], point : [1..q -> Int \X Int]]
    BY DEF R
  <2> HIDE DEF p, q, k
  <2>7. Convolution(k, row, e, curl).field \in 0..(P - 1) /\ Convolution(k, row, e, curl).row \in R
    BY <2>4, <2>5, <2>6, ConvolutionTyped
  <2> QED BY <2>1, <2>3, <2>7 DEF k
<1> QED BY <1>3, <1>4, <1>5 DEF DispersiveModels

\* What divides has an inverse among the residues.
LEMMA ReciprocalInteger ==
  ASSUME NEW k, Divides(k)
  PROVE  Reciprocal(k) \in Int
<1>1. PICK u \in 1..(P - 1) : (u * k) % P = 1
  BY DEF Divides
<1>2. Reciprocal(k) \in 1..(P - 1)
  BY <1>1, Zenon DEF Reciprocal
<1> QED BY <1>2

\* The cell of an absorber: gradings along the three axes and an integer base.
CellTyped(k, type) ==
  /\ k.base \in Int /\ k.own \in Gradings(type)
  /\ k.curl[1] \in Gradings(type) /\ k.curl[2] \in Gradings(type)

Signed(direction) == direction \in {1, -1}

\* A curl axis that the plain update treats leaves the memory of a CPML at zero.
LEMMA CpmlTyped ==
  ASSUME NEW k, CellTyped(k, "cpml"),
         NEW row \in [1..2 -> Int], \A a \in 1..2 : PlainAxis(k, a) => row[a] = 0,
         NEW e \in Int, NEW t \in [1..2 -> Int], NEW direction, Signed(direction)
  PROVE  /\ Cpml(k, row, e, t, direction).field \in 0..(P - 1)
         /\ Cpml(k, row, e, t, direction).row \in [1..2 -> Int]
         /\ \A a \in 1..2 : PlainAxis(k, a) => Cpml(k, row, e, t, direction).row[a] = 0
<1> DEFINE next == [i \in 1..2 |-> Psi(k.curl[i], row[i], t[i])]
           stretched(i) == Reciprocal(k.curl[i].kappa) * t[i] + next[i]
           field == (e + k.base * direction * (stretched(1) - stretched(2))) % P
<1>1. Cpml(k, row, e, t, direction) = [field |-> field, row |-> next]
  BY Zenon DEF Cpml
<1>2. \A i \in 1..2 : /\ k.curl[i].b \in Int /\ k.curl[i].c \in Int
                      /\ k.curl[i].kappa \in Int /\ Divides(k.curl[i].kappa)
  BY DEF CellTyped, Gradings
<1>3. ASSUME NEW i \in 1..2
      PROVE  next[i] \in Int /\ (PlainAxis(k, i) => next[i] = 0)
  <2>1. row[i] \in Int /\ t[i] \in Int
    OBVIOUS
  <2>2. next[i] = (k.curl[i].b * row[i] + k.curl[i].c * t[i]) % P
    BY DEF Psi
  <2>3. k.curl[i].b * row[i] + k.curl[i].c * t[i] \in Int
    BY <1>2, <2>1
  <2>4. PlainAxis(k, i) => k.curl[i].b * row[i] + k.curl[i].c * t[i] = 0
    BY <1>2, <2>1 DEF PlainAxis
  <2>5. 0 % P = 0
    BY ResidueAssumption
  <2> HIDE DEF next
  <2> QED BY <2>2, <2>3, <2>4, <2>5, ResidueInteger
<1>4. next \in [1..2 -> Int]
  BY <1>3
<1> HIDE DEF next
<1>5. \A i \in 1..2 : stretched(i) \in Int
  BY <1>2, <1>3, ReciprocalInteger
<1> HIDE DEF stretched
<1>6. e + k.base * direction * (stretched(1) - stretched(2)) \in Int
  <2>1. k.base \in Int /\ direction \in Int /\ stretched(1) \in Int /\ stretched(2) \in Int
    BY <1>5 DEF CellTyped, Signed
  <2> QED BY <2>1
<1>7. field \in 0..(P - 1)
  BY <1>6, ResidueInteger
<1> HIDE DEF field
<1> QED BY <1>1, <1>3, <1>4, <1>7

\* The update of a UPML cell keeps one integer.
LEMMA UpmlTyped ==
  ASSUME NEW k, CellTyped(k, "upml"), NEW row \in [1..1 -> Int],
         NEW e \in Int, NEW t \in [1..2 -> Int], NEW direction, Signed(direction)
  PROVE  /\ Upml(k, row, e, t, direction).field \in 0..(P - 1)
         /\ Upml(k, row, e, t, direction).row \in [1..1 -> Int]
<1> DEFINE memory == (k.curl[1].ratio * row[1] + k.curl[1].gain * (t[1] - t[2]) * direction) % P
           drive == k.own.plus * memory - k.own.minus * row[1]
           field == (k.curl[2].ratio * e + k.curl[2].share * k.base * drive) % P
<1>1. Upml(k, row, e, t, direction) = [field |-> field, row |-> <<memory>>]
  BY Zenon DEF Upml
<1>2. /\ k.curl[1].ratio \in Int /\ k.curl[1].gain \in Int /\ k.own.plus \in Int
      /\ k.own.minus \in Int /\ k.curl[2].ratio \in Int /\ k.curl[2].share \in Int
      /\ k.base \in Int /\ direction \in Int
  BY DEF CellTyped, Gradings, Signed
<1>3. row[1] \in Int /\ t[1] \in Int /\ t[2] \in Int
  OBVIOUS
<1>4. memory \in Int
  <2>1. k.curl[1].ratio * row[1] + k.curl[1].gain * (t[1] - t[2]) * direction \in Int
    BY <1>2, <1>3
  <2> QED BY <2>1, ResidueInteger
<1> HIDE DEF memory
<1>5. drive \in Int
  BY <1>2, <1>3, <1>4
<1> HIDE DEF drive
<1>6. field \in 0..(P - 1)
  <2>1. k.curl[2].ratio * e + k.curl[2].share * k.base * drive \in Int
    BY <1>2, <1>5
  <2> QED BY <2>1, ResidueInteger
<1> HIDE DEF field
<1>7. <<memory>> \in [1..1 -> Int]
  BY <1>4
<1> QED BY <1>1, <1>6, <1>7

\* The residual update of one CPML axis keeps one integer.
LEMMA ResidualTyped ==
  ASSUME NEW k, k.base \in Int, k.b \in Int, k.c \in Int, k.excess \in Int,
         NEW psi \in Int, NEW e \in Int, NEW t \in Int,
         NEW direction, Signed(direction), NEW sign, Signed(sign)
  PROVE  /\ CpmlResidual(k, psi, e, t, direction, sign).field \in Int
         /\ CpmlResidual(k, psi, e, t, direction, sign).psi \in Int
<1> DEFINE next == Psi(k, psi, t)
           field == (e + k.base * direction * sign * (k.excess * t + next)) % P
<1>1. CpmlResidual(k, psi, e, t, direction, sign) = [field |-> field, psi |-> next]
  BY Zenon DEF CpmlResidual
<1>2. next \in Int
  <2>1. k.b * psi + k.c * t \in Int
    OBVIOUS
  <2> QED BY <2>1, ResidueInteger DEF Psi
<1> HIDE DEF next
<1>3. field \in Int
  <2>1. e + k.base * direction * sign * (k.excess * t + next) \in Int
    BY <1>2 DEF Signed
  <2> QED BY <2>1, ResidueInteger
<1> HIDE DEF field
<1> QED BY <1>1, <1>2, <1>3

-----------------------------------------------------------------------------
(* Cells of the arrays, and the points of a stencil. *)
LEMMA CellIs ==
  ASSUME NEW s, NEW c, NEW v, v = [a \in Axes |-> v[a]],
         InShape(v, Shape(Serial(s.n), c))
  PROVE  v \in CellsOf(s, c)
<1> DEFINE shape == Shape(Serial(s.n), c)
<1>1. v[1] \in 0..(shape[1] - 1) /\ v[2] \in 0..(shape[2] - 1) /\ v[3] \in 0..(shape[3] - 1)
  BY DEF InShape, Axes
<1>2. v = << v[1], v[2], v[3] >>
  BY DEF Axes
<1> HIDE DEF shape
<1> QED BY <1>1, <1>2 DEF CellsOf, shape

\* A cell of an array lies in its shape.
LEMMA CellInShape ==
  ASSUME NEW s, NEW c, NEW v \in CellsOf(s, c)
  PROVE  v = << v[1], v[2], v[3] >> /\ InShape(v, Shape(Serial(s.n), c))
<1> DEFINE shape == Shape(Serial(s.n), c)
<1>1. v \in (0..(shape[1] - 1)) \X (0..(shape[2] - 1)) \X (0..(shape[3] - 1))
  BY DEF CellsOf
<1> HIDE DEF shape
<1>2. /\ v = << v[1], v[2], v[3] >>
      /\ v[1] \in 0..(shape[1] - 1) /\ v[2] \in 0..(shape[2] - 1) /\ v[3] \in 0..(shape[3] - 1)
  BY <1>1
<1> QED BY <1>2 DEF InShape, Axes, shape

\* An axis and its two others are all the axes.
LEMMA OtherAxes ==
  ASSUME NEW a \in Axes
  PROVE  /\ AxisB(a) \in Axes /\ AxisC(a) \in Axes
         /\ AxisB(a) # a /\ AxisC(a) # a /\ AxisB(a) # AxisC(a)
         /\ \A b \in Axes : b \in {a, AxisB(a), AxisC(a)}
<1>1. a \in {1, 2, 3}
  BY DEF Axes
<1>2. a = 1 => AxisB(a) = 2 /\ AxisC(a) = 3
  BY DEF AxisB, AxisC
<1>3. a = 2 => AxisB(a) = 3 /\ AxisC(a) = 1
  BY DEF AxisB, AxisC
<1>4. a = 3 => AxisB(a) = 1 /\ AxisC(a) = 2
  BY DEF AxisB, AxisC
<1> QED BY <1>1, <1>2, <1>3, <1>4 DEF Axes

\* The coordinates of a unit step.
LEMMA UnitSteps ==
  ASSUME NEW a \in Axes, NEW b \in Axes
  PROVE  Unit(a)[b] = IF b = a THEN 1 ELSE 0
BY DEF Unit, Zero

Reaches(g, term, v) ==
  /\ term.source \in Component /\ term.axis \in Axes /\ Signed(term.sign)
  /\ InShape(Sum3(v, term.positive), Shape(g, term.source))
  /\ InShape(Sum3(v, term.negative), Shape(g, term.source))

\* The stencil of an updated cell stays inside the arrays of its sources.
LEMMA StencilInside ==
  ASSUME NEW g, Viewed(g), NEW c \in Component, NEW v,
         InShape(v, Shape(g, c)), InBounds(Shape(g, c), c, v), NEW j \in 1..2
  PROVE  Reaches(g, Stencil(c)[j], v)
<1> DEFINE x == c[2]
           y == AxisB(x)
           z == AxisC(x)
<1>1. c[1] \in {"E", "H"} /\ x \in Axes
  BY DEF Component
<1> HIDE DEF x
<1>2. /\ y \in Axes /\ z \in Axes /\ y # x /\ z # x /\ y # z
      /\ \A b \in Axes : b \in {x, y, z}
  BY <1>1, OtherAxes
<1> HIDE DEF y, z
<1>3. \A a \in Axes : g.n[a] \in Nat \ {0}
  BY DEF Viewed
<1>4. \A a \in Axes : v[a] \in Int /\ First(c, a) <= v[a] /\ v[a] < First(c, a) + g.n[a]
  BY ActiveBounds
<1>5. \A a, b \in Axes : Unit(a)[b] = IF b = a THEN 1 ELSE 0
  BY UnitSteps
<1>6. \A f : \A a, b \in Axes : Shape(g, <<f, a>>)[b] = IF b = a THEN g.n[b] ELSE g.n[b] + 1
  BY DEF Shape
<1>7. \A p, q : \A b \in Axes : Sum3(p, q)[b] = p[b] + q[b]
  BY DEF Sum3
<1>8. \A p : \A b \in Axes : Minus(p)[b] = -p[b]
  BY DEF Minus
<1>9. CASE c[1] = "E"
  <2>1. Stencil(c) = << Term(<<"H", z>>, Sum3(Unit(x), Unit(y)), Unit(x), y, 1),
                        Term(<<"H", y>>, Sum3(Unit(x), Unit(z)), Unit(x), z, -1) >>
    BY <1>9 DEF Stencil, x, y, z
  <2>2. \A a \in Axes : 0 <= v[a] /\ v[a] < g.n[a] /\ v[a] \in Int
    <3> TAKE a \in Axes
    <3>1. First(c, a) = 0
      BY <1>9 DEF First
    <3> QED BY <1>3, <1>4, <3>1
  <2>3. ASSUME NEW p \in Axes, NEW q \in Axes, {p, q} = {y, z}, p # q, NEW sign, Signed(sign)
        PROVE  Reaches(g, Term(<<"H", q>>, Sum3(Unit(x), Unit(p)), Unit(x), p, sign), v)
    <3> DEFINE term == Term(<<"H", q>>, Sum3(Unit(x), Unit(p)), Unit(x), p, sign)
               far == Sum3(v, Sum3(Unit(x), Unit(p)))
               near == Sum3(v, Unit(x))
    <3>1. ASSUME NEW b \in Axes
          PROVE  /\ far[b] \in 0..(Shape(g, <<"H", q>>)[b] - 1)
                 /\ near[b] \in 0..(Shape(g, <<"H", q>>)[b] - 1)
      <4>1. far[b] = v[b] + ((IF b = x THEN 1 ELSE 0) + (IF b = p THEN 1 ELSE 0))
        BY <1>1, <1>5, <1>7
      <4>2. near[b] = v[b] + (IF b = x THEN 1 ELSE 0)
        BY <1>1, <1>5, <1>7
      <4>3. Shape(g, <<"H", q>>)[b] = IF b = q THEN g.n[b] ELSE g.n[b] + 1
        BY <1>6
      <4>4. p # x /\ q # x
        BY <1>2, <2>3
      <4> HIDE DEF far, near
      <4> QED BY <1>3, <2>2, <2>3, <4>1, <4>2, <4>3, <4>4
    <3>2. <<"H", q>> \in Component
      BY DEF Component
    <3>3. term.source = <<"H", q>> /\ term.axis = p /\ term.sign = sign
          /\ Sum3(v, term.positive) = far /\ Sum3(v, term.negative) = near
      BY DEF Term
    <3> HIDE DEF term, far, near
    <3>4. Reaches(g, term, v)
      BY <2>3, <3>1, <3>2, <3>3 DEF Reaches, InShape
    <3> QED BY <3>4 DEF term
  <2>4. Signed(1) /\ Signed(-1)
    BY DEF Signed
  <2>5. CASE j = 1
    <3>1. Reaches(g, Term(<<"H", z>>, Sum3(Unit(x), Unit(y)), Unit(x), y, 1), v)
      BY <1>2, <2>3, <2>4
    <3> QED BY <2>1, <2>5, <3>1
  <2>6. CASE j = 2
    <3>1. Reaches(g, Term(<<"H", y>>, Sum3(Unit(x), Unit(z)), Unit(x), z, -1), v)
      BY <1>2, <2>3, <2>4
    <3> QED BY <2>1, <2>6, <3>1
  <2> QED BY <2>5, <2>6
<1>10. CASE c[1] = "H"
  <2> DEFINE corner == Minus(Sum3(Unit(y), Unit(z)))
  <2>1. Stencil(c) = << Term(<<"E", y>>, Minus(Unit(y)), corner, z, 1),
                        Term(<<"E", z>>, Minus(Unit(z)), corner, y, -1) >>
    BY <1>10 DEF Stencil, x, y, z
  <2>2. \A a \in Axes : /\ v[a] \in Int
                        /\ IF a = x THEN 0 <= v[a] /\ v[a] < g.n[a] ELSE 1 <= v[a] /\ v[a] <= g.n[a]
    <3> TAKE a \in Axes
    <3>1. First(c, a) = IF a = x THEN 0 ELSE 1
      BY <1>10 DEF First, x
    <3>2. /\ v[a] \in Int /\ First(c, a) <= v[a] /\ v[a] < First(c, a) + g.n[a]
          /\ g.n[a] \in Int
      BY <1>3, <1>4
    <3> QED BY <3>1, <3>2
  <2>3. ASSUME NEW p \in Axes, NEW q \in Axes, {p, q} = {y, z}, p # q, NEW sign, Signed(sign)
        PROVE  Reaches(g, Term(<<"E", p>>, Minus(Unit(p)), corner, q, sign), v)
    <3> DEFINE term == Term(<<"E", p>>, Minus(Unit(p)), corner, q, sign)
               near == Sum3(v, Minus(Unit(p)))
               far == Sum3(v, corner)
    <3>1. ASSUME NEW b \in Axes
          PROVE  /\ far[b] \in 0..(Shape(g, <<"E", p>>)[b] - 1)
                 /\ near[b] \in 0..(Shape(g, <<"E", p>>)[b] - 1)
      <4>1. far[b] = v[b] + (-((IF b = y THEN 1 ELSE 0) + (IF b = z THEN 1 ELSE 0)))
        BY <1>2, <1>5, <1>7, <1>8
      <4>2. near[b] = v[b] + (-(IF b = p THEN 1 ELSE 0))
        BY <1>2, <1>5, <1>7, <1>8
      <4>3. Shape(g, <<"E", p>>)[b] = IF b = p THEN g.n[b] ELSE g.n[b] + 1
        BY <1>6
      <4>4. p # x /\ q # x
        BY <1>2, <2>3
      <4> HIDE DEF far, near
      <4> QED BY <1>2, <1>3, <2>2, <2>3, <4>1, <4>2, <4>3, <4>4
    <3>2. <<"E", p>> \in Component
      BY DEF Component
    <3>3. term.source = <<"E", p>> /\ term.axis = q /\ term.sign = sign
          /\ Sum3(v, term.positive) = near /\ Sum3(v, term.negative) = far
      BY DEF Term
    <3> HIDE DEF term, far, near
    <3>4. Reaches(g, term, v)
      BY <2>3, <3>1, <3>2, <3>3 DEF Reaches, InShape
    <3> QED BY <3>4 DEF term
  <2>4. Signed(1) /\ Signed(-1)
    BY DEF Signed
  <2>5. CASE j = 1
    <3>1. Reaches(g, Term(<<"E", y>>, Minus(Unit(y)), corner, z, 1), v)
      BY <1>2, <2>3, <2>4
    <3> QED BY <2>1, <2>5, <3>1
  <2>6. CASE j = 2
    <3>1. Reaches(g, Term(<<"E", z>>, Minus(Unit(z)), corner, y, -1), v)
      BY <1>2, <2>3, <2>4
    <3> QED BY <2>1, <2>6, <3>1
  <2> QED BY <2>5, <2>6
<1> QED BY <1>1, <1>9, <1>10

-----------------------------------------------------------------------------
(* The stages of a half step keep fields and memory integers. *)
LEMMA SerialViewed ==
  ASSUME NEW s, WellFormed(s)
  PROVE  Viewed(Serial(s.n)) /\ Serial(s.n).n = s.n
BY DEF WellFormed, Viewed, Serial, Zero

\* An array has an integer at every place inside its shape.
LEMMA ArrayValue ==
  ASSUME NEW s, NEW G, Arrays(s, G), NEW c \in Component,
         NEW v, v = [a \in Axes |-> v[a]], InShape(v, Shape(Serial(s.n), c))
  PROVE  G[c][v] \in Int
<1>1. v \in CellsOf(s, c)
  BY CellIs
<1>2. G[c] \in [CellsOf(s, c) -> Int]
  BY DEF Arrays
<1> QED BY <1>1, <1>2

\* A place is determined by its coordinates.
LEMMA UnflatIs ==
  ASSUME NEW shape, NEW i
  PROVE  Unflat(shape, i) = [a \in Axes |-> Unflat(shape, i)[a]]
BY DEF Unflat, Axes

\* Active targets have a field.
LEMMA FieldAtTyped ==
  ASSUME WellFormed(This), NEW G, Arrays(This, G), NEW c \in Component,
         NEW i \in ActiveTargets(Serial(This.n), c)
  PROVE  FieldAt(G, c, i) \in Int
<1> DEFINE shape == Shape(Serial(This.n), c)
           v == Unflat(shape, i)
<1>1. Filled(shape)
  BY SerialViewed, ShapeSized
<1>2. i \in 0..(Total(shape) - 1)
  BY DEF ActiveTargets
<1>3. InShape(v, shape) /\ v = [a \in Axes |-> v[a]]
  BY <1>1, <1>2, UnflatInShape, UnflatIs
<1>4. FieldAt(G, c, i) = G[c][v]
  BY DEF FieldAt, ShapeOf
<1> HIDE DEF v
<1> QED BY <1>3, <1>4, ArrayValue

\* The flat index is linear: that of a shifted cell is shifted.
LEMMA FlatLinear ==
  ASSUME NEW shape, Filled(shape), NEW v, NEW p, \A a \in Axes : v[a] \in Int /\ p[a] \in Int
  PROVE  Flat(shape, v) + Flat(shape, p) = Flat(shape, Sum3(v, p))
<1>1. \A s2, s3, x1, x2, x3, y1, y2, y3 \in Int :
        ((x1 * s2 + x2) * s3 + x3) + ((y1 * s2 + y2) * s3 + y3)
          = ((x1 + y1) * s2 + (x2 + y2)) * s3 + (x3 + y3)
  OBVIOUS
<1>2. /\ shape[2] \in Int /\ shape[3] \in Int
      /\ v[1] \in Int /\ v[2] \in Int /\ v[3] \in Int /\ p[1] \in Int /\ p[2] \in Int /\ p[3] \in Int
  BY DEF Filled, Axes
<1>3. Sum3(v, p)[1] = v[1] + p[1] /\ Sum3(v, p)[2] = v[2] + p[2] /\ Sum3(v, p)[3] = v[3] + p[3]
  BY DEF Sum3, Axes
<1> QED BY <1>1, <1>2, <1>3 DEF Flat

\* The shifts of a stencil.
LEMMA StencilShifts ==
  ASSUME NEW c \in Component, NEW j \in 1..2
  PROVE  \A a \in Axes : Stencil(c)[j].positive[a] \in Int /\ Stencil(c)[j].negative[a] \in Int
<1> DEFINE x == c[2]
           y == AxisB(x)
           z == AxisC(x)
           corner == Minus(Sum3(Unit(y), Unit(z)))
           shifts == {Sum3(Unit(x), Unit(y)), Sum3(Unit(x), Unit(z)), Unit(x),
                      Minus(Unit(y)), Minus(Unit(z)), corner}
<1>1. c[1] \in {"E", "H"} /\ x \in Axes /\ y \in Axes /\ z \in Axes
  BY OtherAxes DEF Component
<1>2. \A d \in shifts : \A a \in Axes : d[a] \in Int
  <2> HIDE DEF x, y, z
  <2>1. ASSUME NEW b \in Axes, NEW a \in Axes PROVE Unit(b)[a] \in Int
    <3>1. Unit(b)[a] = IF a = b THEN 1 ELSE 0
      BY UnitSteps
    <3> QED BY <3>1
  <2>2. \A p, q : \A a \in Axes : Sum3(p, q)[a] = p[a] + q[a]
    BY DEF Sum3
  <2>6. \A p : \A a \in Axes : Minus(p)[a] = -p[a]
    BY DEF Minus
  <2>3. \A b1, b2, a \in Axes : Sum3(Unit(b1), Unit(b2))[a] \in Int
    BY <2>1, <2>2
  <2>4. \A b, a \in Axes : Minus(Unit(b))[a] \in Int
    BY <2>1, <2>6
  <2>5. \A a \in Axes : Minus(Sum3(Unit(y), Unit(z)))[a] \in Int
    BY <1>1, <2>6, <2>3
  <2> QED BY <1>1, <2>1, <2>3, <2>4, <2>5
<1>3. Stencil(c)[j].positive \in shifts /\ Stencil(c)[j].negative \in shifts
  <2>1. j \in {1, 2}
    OBVIOUS
  <2>2. CASE c[1] = "E"
    <3>1. Stencil(c) = << Term(<<"H", z>>, Sum3(Unit(x), Unit(y)), Unit(x), y, 1),
                          Term(<<"H", y>>, Sum3(Unit(x), Unit(z)), Unit(x), z, -1) >>
      BY <2>2 DEF Stencil
    <3> QED BY <2>1, <3>1 DEF Term
  <2>3. CASE c[1] = "H"
    <3>1. Stencil(c) = << Term(<<"E", y>>, Minus(Unit(y)), corner, z, 1),
                          Term(<<"E", z>>, Minus(Unit(z)), corner, y, -1) >>
      BY <2>3 DEF Stencil
    <3> QED BY <2>1, <3>1 DEF Term
  <2> QED BY <1>1, <2>2, <2>3
<1> HIDE DEF shifts
<1> QED BY <1>2, <1>3

\* The stencil of an active target reads inside the arrays of the other family.
LEMMA GatherTyped ==
  ASSUME WellFormed(This), NEW G, Arrays(This, G), NEW c \in Component,
         NEW i \in ActiveTargets(Serial(This.n), c), NEW j \in 1..2
  PROVE  GatherDifference(G, c, Stencil(c)[j], i) \in Int
<1> DEFINE g == Serial(This.n)
           term == Stencil(c)[j]
           v == Unflat(Shape(g, c), i)
           shape == Shape(g, term.source)
           at == StencilIndices(g, c, term, i)
           value(k) == G[term.source][Unflat(shape, at[k])]
<1>1. Viewed(g) /\ Filled(Shape(g, c)) /\ i \in 0..(Total(Shape(g, c)) - 1)
      /\ InBounds(Shape(g, c), c, v)
  BY SerialViewed, ShapeSized DEF ActiveTargets
<1>2. InShape(v, Shape(g, c))
  BY <1>1, UnflatInShape
<1>3. Reaches(g, term, v) /\ \A a \in Axes : term.positive[a] \in Int /\ term.negative[a] \in Int
  BY <1>1, <1>2, StencilInside, StencilShifts
<1>4. GatherDifference(G, c, term, i) = Rate[term.axis] * (value(1) - value(2))
  BY DEF GatherDifference, ShapeOf
<1>5. at = << Flat(shape, v) + Flat(shape, term.positive), Flat(shape, v) + Flat(shape, term.negative) >>
  BY DEF StencilIndices
<1>6. \A a \in Axes : v[a] \in Int
  <2> TAKE a \in Axes
  <2>1. Shape(g, c)[a] \in Nat \ {0}
    BY <1>1 DEF Filled
  <2>2. v[a] \in 0..(Shape(g, c)[a] - 1)
    BY <1>2 DEF InShape
  <2> HIDE DEF v
  <2> QED BY <2>1, <2>2
<1> HIDE DEF term, v, at
<1>7. Filled(shape)
  BY <1>1, <1>3, ShapeSized DEF Reaches
<1>8. at[1] = Flat(shape, Sum3(v, term.positive)) /\ at[2] = Flat(shape, Sum3(v, term.negative))
  BY <1>3, <1>5, <1>6, <1>7, FlatLinear
<1>9. ASSUME NEW w, InShape(w, shape) PROVE G[term.source][Unflat(shape, Flat(shape, w))] \in Int
  <2> DEFINE u == Unflat(shape, Flat(shape, w))
  <2>1. \A a \in Axes : u[a] = w[a]
    BY <1>7, <1>9, FlatInverse
  <2>2. u = [a \in Axes |-> u[a]]
    BY UnflatIs
  <2> HIDE DEF u
  <2>3. InShape(u, shape)
    BY <1>9, <2>1 DEF InShape
  <2>4. G[term.source][u] \in Int
    BY <1>3, <2>2, <2>3, ArrayValue DEF Reaches
  <2> QED BY <2>4 DEF u
<1>10. value(1) \in Int /\ value(2) \in Int
  BY <1>3, <1>8, <1>9 DEF Reaches
<1>11. Rate[term.axis] \in Int
  BY <1>3, ResidueAssumption DEF Reaches
<1> HIDE DEF value
<1>12. GatherDifference(G, c, term, i) \in Int
  BY <1>4, <1>10, <1>11
<1> QED BY <1>12 DEF term

\* The curl of the indexed sources and the differences an absorber takes.
LEMMA CurlTyped ==
  ASSUME WellFormed(This), NEW G, Arrays(This, G), NEW c \in Component,
         NEW i \in ActiveTargets(Serial(This.n), c)
  PROVE  /\ IndexedCurl(G, c, i) \in Int
         /\ \A j \in 1..2 : GatherDifference(G, c, PmlTerms(c)[j], i) \in Int
<1>1. \A j \in 1..2 : GatherDifference(G, c, Stencil(c)[j], i) \in Int
  BY GatherTyped
<1>2. \A j \in 1..2 : Stencil(c)[j].sign \in {1, -1}
  BY DEF Stencil, Term
<1>3. 1 \in 1..2 /\ 2 \in 1..2
  OBVIOUS
<1>4. IndexedCurl(G, c, i) \in Int
  BY <1>1, <1>2, <1>3 DEF IndexedCurl
<1>5. ASSUME NEW j \in 1..2 PROVE \E k \in 1..2 : PmlTerms(c)[j] = Stencil(c)[k]
  <2>1. CASE c[1] = "E"
    BY <2>1 DEF PmlTerms
  <2>2. CASE c[1] # "E"
    <3> DEFINE q == Stencil(c)
    <3>1. Len(q) = 2
      BY <2>2 DEF Stencil
    <3> HIDE DEF q
    <3>2. PmlTerms(c) = Reverse(q)
      BY <2>2 DEF PmlTerms, q
    <3>3. PmlTerms(c)[j] = q[3 - j] /\ 3 - j \in 1..2
      BY <3>1, <3>2 DEF Reverse
    <3> QED BY <3>3 DEF q
  <2> QED BY <2>1, <2>2
<1> QED BY <1>1, <1>4, <1>5

\* The wrap of one axis keeps the values in a set that has the residues.
LEMMA SyncAxisTyped ==
  ASSUME WellFormed(This), NEW c \in Component, NEW a \in Axes,
         NEW X, 0..(P - 1) \subseteq X, X \subseteq Int, NEW f \in [CellsOf(This, c) -> X]
  PROVE  Grid(Phases(This))!SyncAxis(f, Serial(This.n), c, a, 0) \in [CellsOf(This, c) -> X]
<1> DEFINE ph == Phases(This)
           g == Serial(This.n)
           shape == Shape(g, c)
           from == IF c[1] = "E" THEN 0 ELSE g.n[a]
           to == IF c[1] = "E" THEN g.n[a] ELSE 0
           w == Grid(ph)!WrapPhase(c[1], a)
           copied == [v \in DOMAIN f |->
                        IF v[a] = to THEN (w * f[Grid(ph)!At(v, a, from)]) % P ELSE f[v]]
<1>1. w \in Int
  <2>1. ph[a] \in Int /\ Divides(ph[a])
    BY DEF WellFormed
  <2> HIDE DEF ph
  <2>2. w = IF c[1] = "E" THEN ph[a] ELSE Reciprocal(ph[a])
    BY DEF Grid!WrapPhase, Grid!Conjugate, Reciprocal
  <2> HIDE DEF w
  <2> QED BY <2>1, <2>2, ReciprocalInteger
<1>2. CASE a = c[2]
  <2>1. Grid(ph)!SyncAxis(f, g, c, a, 0) = f
    BY <1>2 DEF Grid!SyncAxis
  <2> QED BY <2>1
<1>3. CASE a # c[2]
  <2>1. Grid(ph)!SyncAxis(f, g, c, a, 0) = copied
    <3>1. a \notin {c[2], 0}
      BY <1>3 DEF Axes
    <3> QED BY <3>1 DEF Grid!SyncAxis
  <2>2. ASSUME NEW v \in CellsOf(This, c) PROVE Grid(ph)!At(v, a, from) \in CellsOf(This, c)
    <3>1. Grid(ph)!At(v, a, from) = [v EXCEPT ![a] = from]
      BY DEF Grid!At
    <3>2. v = << v[1], v[2], v[3] >> /\ InShape(v, shape)
      BY CellInShape
    <3>3. shape[a] - 1 = g.n[a] /\ g.n[a] \in Nat
      <4>1. g.n[a] \in Nat \ {0} /\ shape[a] = g.n[a] + 1
        BY <1>3, SerialViewed DEF Viewed, Shape
      <4> QED BY <4>1
    <3>4. from \in 0..(shape[a] - 1)
      BY <3>3
    <3> HIDE DEF from, shape
    <3> DEFINE u == [v EXCEPT ![a] = from]
    <3>9. DOMAIN v = Axes
      <4>1. DOMAIN << v[1], v[2], v[3] >> = 1..3
        OBVIOUS
      <4> QED BY <3>2, <4>1, Zenon DEF Axes
    <3>5. \A b \in Axes : u[b] = IF b = a THEN from ELSE v[b]
      BY <3>9
    <3>6. u = [b \in Axes |-> u[b]]
      BY <3>9
    <3> HIDE DEF u
    <3>7. InShape(u, shape)
      BY <3>2, <3>4, <3>5 DEF InShape
    <3>8. u \in CellsOf(This, c)
      BY <3>6, <3>7, CellIs DEF shape
    <3> QED BY <3>1, <3>8 DEF u
  <2> HIDE DEF w, from, to
  <2>3. ASSUME NEW v \in CellsOf(This, c) PROVE (w * f[Grid(ph)!At(v, a, from)]) % P \in X
    <3>1. f[Grid(ph)!At(v, a, from)] \in Int
      BY <2>2
    <3>2. w * f[Grid(ph)!At(v, a, from)] \in Int
      BY <1>1, <3>1
    <3> QED BY <3>2, ResidueInteger
  <2>4. copied \in [CellsOf(This, c) -> X]
    BY <2>3
  <2> QED BY <2>1, <2>4
<1> QED BY <1>2, <1>3

\* The boundary synchronisation keeps arrays, and residues.
LEMMA SyncTyped ==
  ASSUME WellFormed(This), NEW G, Arrays(This, G), NEW family
  PROVE  LET T == Grid(Phases(This))!Sync(G, family, Serial(This.n), 0)
         IN  Arrays(This, T) /\ (Reduced(This, G) => Reduced(This, T))
<1> DEFINE ph == Phases(This)
           g == Serial(This.n)
           T == Grid(ph)!Sync(G, family, g, 0)
<1>1. T = [c \in Component |-> IF c[1] = family THEN Grid(ph)!SyncComponent(G[c], g, c, 0) ELSE G[c]]
  BY DEF Grid!Sync, Grid!Component, Grid!Axes, Component, Axes
<1>2. ASSUME NEW c \in Component, NEW V, 0..(P - 1) \subseteq V, V \subseteq Int,
             G[c] \in [CellsOf(This, c) -> V]
      PROVE  Grid(ph)!SyncComponent(G[c], g, c, 0) \in [CellsOf(This, c) -> V]
  <2> DEFINE X == [CellsOf(This, c) -> V]
             f0 == G[c]
             f1 == Grid(ph)!SyncAxis(f0, g, c, 1, 0)
             f2 == Grid(ph)!SyncAxis(f1, g, c, 2, 0)
             f3 == Grid(ph)!SyncAxis(f2, g, c, 3, 0)
  <2>1. Grid(ph)!SyncComponent(f0, g, c, 0) = f3
    BY DEF Grid!SyncComponent
  <2>2. f0 \in X
    BY <1>2
  <2>3. 1 \in Axes /\ 2 \in Axes /\ 3 \in Axes
    BY DEF Axes
  <2>4. f1 \in X
    BY <1>2, <2>2, <2>3, SyncAxisTyped
  <2> HIDE DEF f1
  <2>5. f2 \in X
    BY <1>2, <2>3, <2>4, SyncAxisTyped
  <2> HIDE DEF f2
  <2>6. f3 \in X
    BY <1>2, <2>3, <2>5, SyncAxisTyped
  <2> QED BY <2>1, <2>6
<1> HIDE DEF T
<1>3. Arrays(This, T)
  <2>1. ASSUME NEW c \in Component PROVE T[c] \in [CellsOf(This, c) -> Int]
    <3>1. G[c] \in [CellsOf(This, c) -> Int] /\ 0..(P - 1) \subseteq Int
      BY DEF Arrays
    <3> QED BY <1>1, <1>2, <3>1
  <2> QED BY <1>1, <2>1 DEF Arrays
<1>4. ASSUME Reduced(This, G) PROVE Reduced(This, T)
  <2>1. ASSUME NEW c \in Component PROVE T[c] \in [CellsOf(This, c) -> 0..(P - 1)]
    <3>1. G[c] \in [CellsOf(This, c) -> 0..(P - 1)] /\ 0..(P - 1) \subseteq Int
      BY <1>4 DEF Arrays, Reduced
    <3> QED BY <1>1, <1>2, <3>1
  <2> QED BY <2>1 DEF Reduced
<1> QED BY <1>3, <1>4 DEF T

\* Writing integers to a component's array.
LEMMA ScatterTyped ==
  ASSUME NEW s, NEW G, Arrays(s, G), NEW c \in Component,
         NEW targets, NEW n \in Nat, DOMAIN targets = 1..n,
         NEW values, \A k \in 1..n : values[k] \in Int
  PROVE  Arrays(s, Scatter(G, c, targets, values))
<1> DEFINE rows(v) == {k \in DOMAIN targets : targets[k] = Flat(ShapeOf(c), v)}
           written == [v \in DOMAIN G[c] |-> IF rows(v) = {} THEN G[c][v] ELSE values[Max(rows(v))]]
<1>1. Scatter(G, c, targets, values) = [G EXCEPT ![c] = written]
  BY Zenon DEF Scatter
<1>2. ASSUME NEW v, rows(v) # {} PROVE values[Max(rows(v))] \in Int
  <2>1. rows(v) \in SUBSET (1..n)
    OBVIOUS
  <2> HIDE DEF rows
  <2>2. Max(rows(v)) \in rows(v)
    BY <1>2, <2>1, MaxOfInterval
  <2> QED BY <2>1, <2>2
<1>3. DOMAIN G = Component /\ \A d \in Component : G[d] \in [CellsOf(s, d) -> Int]
  BY DEF Arrays
<1> HIDE DEF rows
<1>4. written \in [CellsOf(s, c) -> Int]
  BY <1>2, <1>3
<1> HIDE DEF written
<1>5. Arrays(s, [G EXCEPT ![c] = written])
  BY <1>3, <1>4 DEF Arrays
<1> QED BY <1>1, <1>5

-----------------------------------------------------------------------------
(* The coefficients of a cell. *)
LEMMA WellFormedIsGrown ==
  ASSUME NEW s, WellFormed(s)
  PROVE  Grown(s) /\ \A j \in DOMAIN s.objects : Typed(Material(s, j))
BY DEF WellFormed, Grown, Typed

\* The grading at any place of the grid is one of the layer's.
LEMMA ProfileTyped ==
  ASSUME NEW s, WellFormed(s), NEW m, Typed(m), m.type \in Absorbers,
         NEW x, NEW a \in Axes, x[a] \in 0..(2 * s.n[a])
  PROVE  Profile(s, m, x, a) \in Gradings(m.type)
<1>1. s.n[a] \in Nat \ {0} /\ m.d \in Nat
  BY DEF WellFormed, Typed
<1>2. \A depth \in 0..m.d : m.grade[a][depth] \in Gradings(m.type)
  BY DEF Typed
<1>3. CASE Graded(s, m, x, a)
  <2>1. Depth(s, m, x, a) \in 0..m.d
    BY <1>1, <1>3 DEF Graded, Depth
  <2> QED BY <1>2, <1>3, <2>1 DEF Profile
<1>4. CASE ~Graded(s, m, x, a)
  <2>1. Profile(s, m, x, a) = Neutral(m)
    BY <1>4 DEF Profile
  <2>2. CASE m.type = "cpml"
    <3>1. Divides(1)
      <4>1. 1 \in 1..(P - 1) /\ (1 * 1) % P = 1
        BY ResidueAssumption
      <4> QED BY <4>1 DEF Divides
    <3>2. [b |-> 1, c |-> 0, kappa |-> 1] \in Gradings("cpml")
      BY <3>1 DEF Gradings
    <3> QED BY <2>1, <2>2, <3>2 DEF Neutral
  <2>3. CASE m.type # "cpml"
    <3>1. Reciprocal(2) \in Int
      BY ResidueAssumption, ReciprocalInteger
    <3>2. [ratio |-> 1, gain |-> 1, share |-> Reciprocal(2), plus |-> 2, minus |-> 2]
            \in [ratio : Int, gain : Int, share : Int, plus : Int, minus : Int]
      BY <3>1
    <3> QED BY <2>1, <2>3, <3>2 DEF Neutral, Gradings
  <2> QED BY <2>2, <2>3
<1> QED BY <1>3, <1>4

\* The absorber cell of any place carries coefficients of its model.
LEMMA PmlCellTyped ==
  ASSUME NEW s, WellFormed(s), NEW m, Typed(m), m.type \in Absorbers, NEW c \in Component,
         NEW x, \A a \in Axes : x[a] \in 0..(2 * s.n[a]), NEW base \in Int
  PROVE  CellTyped(PmlCell(s, m, c, x, base), m.type) /\ PmlCell(s, m, c, x, base).base = base
<1>1. c[2] \in Axes /\ AxisB(c[2]) \in Axes /\ AxisC(c[2]) \in Axes
  BY OtherAxes DEF Component
<1>2. \A a \in Axes : Profile(s, m, x, a) \in Gradings(m.type)
  BY ProfileTyped
<1>3. PmlCell(s, m, c, x, base)
        = [base |-> base, own |-> Profile(s, m, x, c[2]),
           curl |-> << Profile(s, m, x, AxisB(c[2])), Profile(s, m, x, AxisC(c[2])) >>]
  BY Zenon DEF PmlCell
<1> QED BY <1>1, <1>2, <1>3 DEF CellTyped

\* An updated cell lies in the domain.
LEMMA PointInside ==
  ASSUME NEW s, WellFormed(s), NEW c \in Component,
         NEW i \in ActiveTargets(Serial(s.n), c), NEW a \in Axes
  PROVE  PointAt(Serial(s.n), c, i)[a] \in 0..(2 * s.n[a])
<1> DEFINE g == Serial(s.n)
           v == Unflat(Shape(g, c), i)
<1>1. Viewed(g) /\ Filled(Shape(g, c)) /\ g.n[a] = s.n[a] /\ g.off[a] = 0 /\ s.n[a] \in Nat \ {0}
  BY SerialViewed, ShapeSized DEF WellFormed, Serial, Zero
<1>2. i \in 0..(Total(Shape(g, c)) - 1) /\ InBounds(Shape(g, c), c, v)
  BY DEF ActiveTargets
<1>3. InShape(v, Shape(g, c))
  BY <1>1, <1>2, UnflatInShape
<1> HIDE DEF v
<1>4. v[a] \in Int /\ First(c, a) <= v[a] /\ v[a] < First(c, a) + g.n[a]
  BY <1>1, <1>2, <1>3, ActiveBounds
<1>5. PointAt(g, c, i)[a] = 2 * (v[a] + g.off[a]) + Stagger(c, a)
  BY DEF PointAt, IndexToSpace, v
<1>6. c[1] \in {"E", "H"}
  BY DEF Component
<1>7. \/ First(c, a) = 0 /\ Stagger(c, a) \in {0, 1}
      \/ First(c, a) = 1 /\ Stagger(c, a) = -1
  BY <1>6 DEF First, Stagger
<1> HIDE DEF g
<1>8. PointAt(g, c, i)[a] \in 0..(2 * s.n[a])
  BY <1>1, <1>4, <1>5, <1>7
<1> QED BY <1>8 DEF g

\* A region key names an object of the scene and what lies under it.
LEMMA KeyObjects ==
  ASSUME NEW s, WellFormed(s), NEW x
  PROVE  /\ Key(s, x)[1] \in DOMAIN s.objects
         /\ Key(s, x)[2] \in DOMAIN s.objects \cup {0}
<1>1. Grown(s)
  BY WellFormedIsGrown
<1> DEFINE top == On(s, x, Len(s.objects))
<1>2. top \in 1..Len(s.objects) /\ DOMAIN s.objects = 1..Len(s.objects) /\ Len(s.objects) \in Nat
  BY <1>1, OnType DEF Grown
<1>3. Key(s, x) = << top, IF s.objects[top].mat.type \in Absorbers THEN On(s, x, top - 1) ELSE 0 >>
  BY DEF Key
<1> HIDE DEF top
<1>4. ASSUME s.objects[top].mat.type \in Absorbers PROVE On(s, x, top - 1) \in DOMAIN s.objects
  <2>1. top # 1
    BY <1>1, <1>4 DEF Grown, Material
  <2>2. top - 1 \in Nat \ {0}
    BY <1>2, <2>1
  <2>3. On(s, x, top - 1) \in 1..(top - 1)
    BY <2>2, OnType
  <2> QED BY <1>2, <2>2, <2>3
<1> QED BY <1>2, <1>3, <1>4

\* The row of a key holds the coefficients of its material.
LEMMA RowInteger ==
  ASSUME NEW s, WellFormed(s), NEW x, NEW c \in Component
  PROVE  LET key == Key(s, x)
             m == Material(s, key[1])
             row == CoefficientRow(s, key, c)
         IN  /\ Typed(m) /\ row[1] \in Int
             /\ ModelAndState(m, c)[1] # "dielectric" => row[2] = m.coef
<1> DEFINE key == Key(s, x)
           m == Material(s, key[1])
           base == IF key[2] = 0 THEN m ELSE Material(s, key[2])
<1>1. Typed(m) /\ Typed(base)
  BY KeyObjects, WellFormedIsGrown
<1>2. base.invEps \in Int /\ base.invMu \in Int
  BY <1>1 DEF Typed
<1>3. CoefficientRow(s, key, c)
        = << IF c[1] = "E" THEN base.invEps ELSE base.invMu,
             IF ModelAndState(m, c)[1] = "dielectric" THEN <<>> ELSE m.coef >>
  BY Zenon DEF CoefficientRow
<1> HIDE DEF key, base, m
<1> QED BY <1>1, <1>2, <1>3 DEF key, m

-----------------------------------------------------------------------------
(* The buckets of the undivided scene. *)
Signatures(s, g, c) == Ordered({ModelAt(s, g, c, i) : i \in ActiveTargets(g, c)}, SignatureBefore)

\* The buckets of a plan are those of its signatures.
LEMMA PlanIs ==
  ASSUME NEW s, NEW options, NEW g, NEW c \in Component
  PROVE  Plan(s, options, g)[c].buckets
           = [o \in DOMAIN Signatures(s, g, c) |->
                Bucket(s, options, g, c, Signatures(s, g, c)[o], ActiveTargets(g, c))]
BY DEF Plan, ComponentPlan, Planes, Signatures

\* The signatures of a plan are those of its active targets.
LEMMA SignaturesListed ==
  ASSUME NEW s, Grown(s), NEW g, Viewed(g), NEW c \in Component
  PROVE  /\ Listed(Signatures(s, g, c), {ModelAt(s, g, c, i) : i \in ActiveTargets(g, c)})
         /\ \A o \in DOMAIN Signatures(s, g, c) :
              Signatures(s, g, c)[o] \in Range(Models) \X Nat \X Nat
<1> DEFINE active == ActiveTargets(g, c)
           T == {ModelAt(s, g, c, i) : i \in active}
<1>1. IsFiniteSet(active)
  BY ActiveFinite
<1>2. IsFiniteSet(T) /\ T \subseteq Range(Models) \X Nat \X Nat
  <2>1. \A i \in active : ModelAt(s, g, c, i) \in Range(Models) \X Nat \X Nat
    BY KeyType, SignatureType DEF ModelAt, KeyAt
  <2> DEFINE f == [i \in active |-> ModelAt(s, g, c, i)]
  <2>2. f \in Surjection(active, T)
    BY DEF Surjection
  <2> HIDE DEF f, active
  <2>3. IsFiniteSet(T)
    <3> HIDE DEF T
    <3> QED BY <1>1, <2>2, FS_Surjection
  <2> QED BY <2>1, <2>3
<1> HIDE DEF T
<1>3. Listed(Ordered(T, SignatureBefore), T)
  BY <1>2, OrderedSignatures
<1>4. Signatures(s, g, c) = Ordered(T, SignatureBefore)
  BY DEF Signatures, T
<1> QED BY <1>2, <1>3, <1>4 DEF Listed, Lists, T

\* Two buckets do the same with the same cells.
Alike(b, d) == b.signature = d.signature /\ b.targets = d.targets /\ b.cells = d.cells

\* The configuration changes no target, signature or cell of a bucket.
LEMMA BucketsAlike ==
  ASSUME NEW s, NEW g, NEW c, NEW sig, NEW active, NEW k1, NEW k2
  PROVE  Alike(Bucket(s, k1, g, c, sig, active), Bucket(s, k2, g, c, sig, active))
<1> DEFINE q == Regions(s, g, c, Ordered({i \in active : ModelAt(s, g, c, i) = sig}, Before))
           n == Cardinality(active)
<1>1. \A k : Bucket(s, k, g, c, sig, active) = BucketPlan(s, k, g, c, sig, n, q)
  BY DEF Bucket
<1> HIDE DEF q, n
<1>2. /\ Filed(BucketPlan(s, k1, g, c, sig, n, q), s, g, c, sig, q)
      /\ Filed(BucketPlan(s, k2, g, c, sig, n, q), s, g, c, sig, q)
  BY BucketFields
<1> DEFINE b == BucketPlan(s, k1, g, c, sig, n, q)
           d == BucketPlan(s, k2, g, c, sig, n, q)
<1> HIDE DEF b, d
<1>3. Alike(b, d)
  <2>1. b.rows = d.rows /\ b.signature = d.signature /\ b.targets = d.targets
    BY <1>2 DEF Filed, b, d
  <2>2. b.rowOf = d.rowOf
    BY <1>2, <2>1, Zenon DEF Filed, b, d
  <2>3. b.cells = d.cells
    BY <1>2, <2>1, <2>2, Zenon DEF Filed, b, d
  <2> QED BY <2>1, <2>3 DEF Alike
<1> QED BY <1>1, <1>3 DEF b, d

SparseBucket(s, options, c, b) == b.signature[1] = "cpml" /\ SparseResidual(s, options, c)

\* The residual axes of a bucket, if it is sparse.
LEMMA BucketResidual ==
  ASSUME NEW s, NEW options, NEW g, NEW c, NEW sig, NEW active
  PROVE  LET b == Bucket(s, options, g, c, sig, active)
         IN  /\ b.targets = Ordered({i \in active : ModelAt(s, g, c, i) = sig}, Before)
             /\ b.signature = sig
             /\ b.residual = IF SparseBucket(s, options, c, b)
                             THEN [axis \in 1..2 |-> Residual(b.targets, b.cells, axis)] ELSE <<>>
<1> DEFINE targets == Ordered({i \in active : ModelAt(s, g, c, i) = sig}, Before)
           q == Regions(s, g, c, targets)
           n == Cardinality(active)
           b == BucketPlan(s, options, g, c, sig, n, q)
<1>1. Bucket(s, options, g, c, sig, active) = b
  BY DEF Bucket
<1>2. q.targets = targets
  BY DEF Regions
<1> HIDE DEF q, n, targets
<1>3. Filed(b, s, g, c, sig, q)
  BY BucketFields
<1>4. b.residual = IF sig[1] = "cpml" /\ SparseResidual(s, options, c)
                   THEN [axis \in 1..2 |-> Residual(q.targets, b.cells, axis)] ELSE <<>>
  BY Zenon DEF BucketPlan
<1> HIDE DEF b
<1>5. b.signature = sig /\ b.targets = q.targets
  BY <1>3 DEF Filed
<1>6. b.residual = IF SparseBucket(s, options, c, b)
                   THEN [axis \in 1..2 |-> Residual(b.targets, b.cells, axis)] ELSE <<>>
  BY <1>4, <1>5, Zenon DEF SparseBucket
<1> QED BY <1>1, <1>2, <1>5, <1>6 DEF targets

\* What the updates need of a bucket.
Furnished(b, s, options, c) ==
  /\ b.signature \in Range(Models) \X Nat \X Nat
  /\ \E m : Typed(m) /\ b.signature = ModelAndState(m, c)
  /\ \E n \in Nat : DOMAIN b.targets = 1..n /\ b.targets \in [1..n -> ActiveTargets(Serial(s.n), c)]
  /\ \A k \in DOMAIN b.targets :
       /\ TargetRow(b, k)[1] \in Int
       /\ \E m : /\ Typed(m) /\ b.signature = ModelAndState(m, c)
                 /\ b.signature[1] # "dielectric" => TargetRow(b, k)[2] = m.coef
       /\ b.signature[1] \in Absorbers => CellTyped(b.cells[k], b.signature[1])
  /\ b.residual = IF SparseBucket(s, options, c, b)
                  THEN [axis \in 1..2 |-> Residual(b.targets, b.cells, axis)] ELSE <<>>

\* Every bucket of a plan is furnished.
LEMMA BucketFurnished ==
  ASSUME NEW s, WellFormed(s), NEW options, NEW c \in Component,
         NEW o \in DOMAIN Plan(s, options, Serial(s.n))[c].buckets
  PROVE  Furnished(Plan(s, options, Serial(s.n))[c].buckets[o], s, options, c)
<1> DEFINE g == Serial(s.n)
           sigs == Signatures(s, g, c)
           active == ActiveTargets(g, c)
           b == Bucket(s, options, g, c, sigs[o], active)
           S == {i \in active : ModelAt(s, g, c, i) = sigs[o]}
<1>1. Grown(s) /\ Viewed(g)
  BY WellFormedIsGrown, SerialViewed
<1>2. o \in DOMAIN sigs /\ Plan(s, options, g)[c].buckets[o] = b
  <2>1. Plan(s, options, g)[c].buckets
          = [p \in DOMAIN sigs |-> Bucket(s, options, g, c, sigs[p], active)]
    BY PlanIs
  <2> HIDE DEF g, active, sigs
  <2>2. o \in DOMAIN Plan(s, options, g)[c].buckets
    BY DEF g
  <2> QED BY <2>1, <2>2
<1>3. /\ sigs[o] \in Range(Models) \X Nat \X Nat
      /\ sigs[o] \in {ModelAt(s, g, c, i) : i \in active}
  <2> DEFINE T == {ModelAt(s, g, c, i) : i \in active}
  <2>1. Listed(sigs, T) /\ \A p \in DOMAIN sigs : sigs[p] \in Range(Models) \X Nat \X Nat
    BY <1>1, SignaturesListed
  <2> HIDE DEF T
  <2>2. sigs[o] \in T /\ sigs[o] \in Range(Models) \X Nat \X Nat
    BY <1>2, <2>1 DEF Listed, Lists
  <2> QED BY <2>2 DEF T
<1> HIDE DEF sigs
<1>4. IsFiniteSet(active) /\ active \subseteq Int
  BY <1>1, ActiveFinite
<1>5. Holds(b, s, g, c, sigs[o], S)
  BY <1>1, <1>4, BucketHolds
<1>6. /\ b.targets = Ordered(S, Before) /\ b.signature = sigs[o]
      /\ b.residual = IF SparseBucket(s, options, c, b)
                      THEN [axis \in 1..2 |-> Residual(b.targets, b.cells, axis)] ELSE <<>>
  BY BucketResidual
<1> HIDE DEF b
<1>7. \E n \in Nat : DOMAIN b.targets = 1..n /\ b.targets \in [1..n -> active]
  <2>1. S \subseteq active
    OBVIOUS
  <2> HIDE DEF active, S
  <2>2. IsFiniteSet(S) /\ S \subseteq Int
    BY <1>4, <2>1, FS_Subset
  <2>3. Listed(Ordered(S, Before), S)
    BY <2>2, OrderedIntegers
  <2> DEFINE place == [e \in S |-> Cardinality({x \in S : Before(x, e)}) + 1]
             q == [k \in 1..Cardinality(S) |-> CHOOSE e \in S : place[e] = k]
  <2>4. Ordered(S, Before) = q
    BY DEF Ordered
  <2> HIDE DEF place
  <2>5. q = [k \in 1..Cardinality(S) |-> q[k]]
    OBVIOUS
  <2> HIDE DEF q
  <2> QED BY <1>6, <2>1, <2>3, <2>4, <2>5 DEF Listed, Lists
<1>8. ASSUME NEW k \in DOMAIN b.targets
      PROVE  /\ TargetRow(b, k)[1] \in Int
             /\ \E m : /\ Typed(m) /\ b.signature = ModelAndState(m, c)
                       /\ b.signature[1] # "dielectric" => TargetRow(b, k)[2] = m.coef
             /\ b.signature[1] \in Absorbers => CellTyped(b.cells[k], b.signature[1])
  <2> DEFINE i == b.targets[k]
             x == PointAt(g, c, i)
             m == Material(s, Key(s, x)[1])
             row == TargetRow(b, k)
  <2>1. i \in active /\ ModelAt(s, g, c, i) = sigs[o]
    BY <1>5 DEF Holds, Lists
  <2>2. b.signature = ModelAndState(m, c)
    BY <1>6, <2>1 DEF ModelAt, KeyAt
  <2>3. row = CoefficientRow(s, Key(s, x), c)
    BY <1>5 DEF Holds
  <2>4. sigs[o][1] \in Absorbers => b.cells[k] = PmlCell(s, m, c, x, row[1])
    BY <1>5 DEF Holds
  <2>5. \A a \in Axes : x[a] \in 0..(2 * s.n[a])
    BY <2>1, PointInside
  <2> HIDE DEF x, row, i
  <2>6. Typed(m) /\ row[1] \in Int /\ (ModelAndState(m, c)[1] # "dielectric" => row[2] = m.coef)
    BY <2>3, RowInteger
  <2> HIDE DEF m
  <2>7. ASSUME b.signature[1] \in Absorbers PROVE CellTyped(b.cells[k], b.signature[1])
    <3>1. m.type = b.signature[1]
      BY <2>2, <2>6, <2>7 DEF ModelAndState, Absorbers, Typed
    <3>2. b.cells[k] = PmlCell(s, m, c, x, row[1])
      BY <1>6, <2>4, <2>7
    <3> QED BY <2>5, <2>6, <2>7, <3>1, <3>2, PmlCellTyped
  <2> QED BY <2>2, <2>6, <2>7 DEF row
<1>9. b.signature \in Range(Models) \X Nat \X Nat
  BY <1>3, <1>6
<1>11. \E m : Typed(m) /\ b.signature = ModelAndState(m, c)
  <2>1. PICK i \in active : sigs[o] = ModelAt(s, g, c, i)
    BY <1>3
  <2>2. KeyAt(s, g, c, i)[1] \in DOMAIN s.objects
    BY KeyObjects DEF KeyAt
  <2> QED BY <1>1, <1>6, <2>1, <2>2, WellFormedIsGrown DEF ModelAt
<1> HIDE DEF g, S
<1>10. Furnished(b, s, options, c)
  BY <1>6, <1>7, <1>8, <1>9, <1>11 DEF Furnished, g
<1> QED BY <1>2, <1>10 DEF g

-----------------------------------------------------------------------------
(* A simulation of a scene, of some configuration. *)
Built(of, s) ==
  \E options \in Range(Configs) : of = Construct(options, Plan(s, options, Serial(s.n)))

\* The execution of a dispersive bucket.
EntryOf(of, d) == CHOOSE e \in Range(of.entries) : d \in Range(e)

\* A row of a dispersive bucket lies where its pair is in the arena of its execution.
Lies(of, d, i) ==
  of.place[d][i] = << EntryOf(of, d), Position(of.arena[EntryOf(of, d)], <<d, i>>) >>

\* What a built simulation is made of.
LEMMA BuiltFields ==
  ASSUME NEW s, NEW of, Built(of, s)
  PROVE  /\ of.plan = Plan(s, of.options, Serial(s.n))
         /\ of.options \in Range(Configs)
         /\ of.entries = Entries(of.plan, of.options)
         /\ of.arena = [entry \in Range(of.entries) |-> ArenaRows(of.plan, entry)]
         /\ of.stateful = {d \in Buckets(of.plan) : ModelOf(of.plan, d) \in Stateful}
         /\ of.dense = {d \in of.stateful : /\ ModelOf(of.plan, d) \in Absorbers
                                            /\ ~Sparse(of.plan, d)}
         /\ of.sparse = {d \in of.stateful : Sparse(of.plan, d)}
         /\ DOMAIN of.place = {d \in of.stateful : ModelOf(of.plan, d) \in DispersiveModels}
         /\ \A d \in DOMAIN of.place : \A i \in DOMAIN BucketOf(of.plan, d).targets : Lies(of, d, i)
<1> PICK k \in Range(Configs) : of = Construct(k, Plan(s, k, Serial(s.n)))
  BY DEF Built
<1> DEFINE plan == Plan(s, k, Serial(s.n))
<1>1. of = Construct(k, plan)
  OBVIOUS
<1>2. plan = Plan(s, k, Serial(s.n))
  OBVIOUS
<1> HIDE DEF plan
<1> DEFINE entries  == Entries(plan, k)
           arena    == [entry \in Range(entries) |-> ArenaRows(plan, entry)]
           stateful == {d \in Buckets(plan) : ModelOf(plan, d) \in Stateful}
           targets(d) == BucketOf(plan, d).targets
           dense == {d \in stateful : ModelOf(plan, d) \in Absorbers /\ ~Sparse(plan, d)}
           sparse == {d \in stateful : Sparse(plan, d)}
           place == [d \in {d \in stateful : ModelOf(plan, d) \in DispersiveModels} |->
                       [i \in DOMAIN targets(d) |->
                          LET entry == CHOOSE e \in Range(entries) : d \in Range(e)
                          IN  << entry, Position(arena[entry], <<d, i>>) >>]]
           cells == [x \in UNION {{<<d[1], targets(d)[i]>> : i \in DOMAIN targets(d)} :
                                    d \in stateful} |->
                       LET d == CHOOSE d \in stateful : d[1] = x[1] /\ x[2] \in Range(targets(d))
                       IN  << d, Position(targets(d), x[2]) >>]
           record == [options |-> k, plan |-> plan, entries |-> entries, arena |-> arena,
                      stateful |-> stateful, dense |-> dense, sparse |-> sparse,
                      place |-> place, cells |-> cells]
<1>3. of = record
  BY <1>1, Zenon DEF Construct
<1>4. /\ arena = [entry \in Range(entries) |-> ArenaRows(plan, entry)]
      /\ stateful = {d \in Buckets(plan) : ModelOf(plan, d) \in Stateful}
      /\ dense = {d \in stateful : ModelOf(plan, d) \in Absorbers /\ ~Sparse(plan, d)}
      /\ sparse = {d \in stateful : Sparse(plan, d)}
      /\ place = [d \in {d \in stateful : ModelOf(plan, d) \in DispersiveModels} |->
                    [i \in DOMAIN BucketOf(plan, d).targets |->
                       LET entry == CHOOSE e \in Range(entries) : d \in Range(e)
                       IN  << entry, Position(arena[entry], <<d, i>>) >>]]
      /\ entries = Entries(plan, k)
  BY Zenon
<1> HIDE DEF entries, arena, stateful, dense, sparse, place, cells
<1>5. /\ of.options = k /\ of.plan = plan /\ of.entries = entries /\ of.arena = arena
      /\ of.stateful = stateful /\ of.dense = dense /\ of.sparse = sparse /\ of.place = place
  BY <1>3
<1>6. /\ of.plan = Plan(s, of.options, Serial(s.n))
      /\ of.options \in Range(Configs)
      /\ of.entries = Entries(of.plan, of.options)
      /\ of.arena = [entry \in Range(of.entries) |-> ArenaRows(of.plan, entry)]
  BY <1>2, <1>4, <1>5
<1>7. /\ of.stateful = {d \in Buckets(of.plan) : ModelOf(of.plan, d) \in Stateful}
      /\ of.dense = {d \in of.stateful : /\ ModelOf(of.plan, d) \in Absorbers
                                         /\ ~Sparse(of.plan, d)}
      /\ of.sparse = {d \in of.stateful : Sparse(of.plan, d)}
  BY <1>4, <1>5
<1>8. /\ DOMAIN place = {d \in stateful : ModelOf(plan, d) \in DispersiveModels}
      /\ \A d \in DOMAIN place : \A i \in DOMAIN BucketOf(plan, d).targets :
           LET e == CHOOSE e \in Range(entries) : d \in Range(e)
           IN  place[d][i] = << e, Position(arena[e], <<d, i>>) >>
  <2> DEFINE row(d, i) == LET entry == CHOOSE e \in Range(entries) : d \in Range(e)
                          IN  << entry, Position(arena[entry], <<d, i>>) >>
  <2>1. place = [d \in {d \in stateful : ModelOf(plan, d) \in DispersiveModels} |->
                    [i \in DOMAIN BucketOf(plan, d).targets |-> row(d, i)]]
    BY <1>4, Zenon
  <2>2. \A d, i : LET e == CHOOSE e \in Range(entries) : d \in Range(e)
                 IN  row(d, i) = << e, Position(arena[e], <<d, i>>) >>
    OBVIOUS
  <2> HIDE DEF row
  <2>3. /\ DOMAIN place = {d \in stateful : ModelOf(plan, d) \in DispersiveModels}
        /\ \A d \in DOMAIN place : \A i \in DOMAIN BucketOf(plan, d).targets :
             place[d][i] = row(d, i)
    BY <2>1
  <2> QED BY <2>2, <2>3
<1>9. \A d : EntryOf(of, d) = CHOOSE e \in Range(entries) : d \in Range(e)
  BY <1>5 DEF EntryOf
<1>10. \A d \in DOMAIN of.place : \A i \in DOMAIN BucketOf(of.plan, d).targets : Lies(of, d, i)
  <2> SUFFICES ASSUME NEW d \in DOMAIN place, NEW i \in DOMAIN BucketOf(plan, d).targets
               PROVE  place[d][i] = << EntryOf(of, d), Position(arena[EntryOf(of, d)], <<d, i>>) >>
    BY <1>5 DEF Lies
  <2> DEFINE e == CHOOSE e \in Range(entries) : d \in Range(e)
  <2>1. place[d][i] = << e, Position(arena[e], <<d, i>>) >>
    BY <1>8
  <2>2. EntryOf(of, d) = e
    BY <1>9
  <2> HIDE DEF e
  <2> QED BY <2>1, <2>2
<1>11. DOMAIN of.place = {d \in of.stateful : ModelOf(of.plan, d) \in DispersiveModels}
  BY <1>5, <1>8
<1> QED BY <1>6, <1>7, <1>10, <1>11

\* The buckets of a built simulation are furnished.
LEMMA BuiltFurnished ==
  ASSUME NEW s, WellFormed(s), NEW of, Built(of, s), NEW d \in Buckets(of.plan)
  PROVE  /\ d[1] \in Component /\ d = << d[1], d[2] >>
         /\ d[2] \in DOMAIN of.plan[d[1]].buckets
         /\ Furnished(BucketOf(of.plan, d), s, of.options, d[1])
<1>1. d[1] \in Component /\ d = << d[1], d[2] >> /\ d[2] \in DOMAIN of.plan[d[1]].buckets
  <2> DEFINE plan == of.plan
  <2> HIDE DEF plan
  <2>1. d \in UNION {{<<c, o>> : o \in DOMAIN plan[c].buckets} : c \in Component}
    BY DEF Buckets, plan
  <2>2. PICK c \in Component : d \in {<<c, o>> : o \in DOMAIN plan[c].buckets}
    BY <2>1
  <2>3. PICK o \in DOMAIN plan[c].buckets : d = <<c, o>>
    BY <2>2
  <2> QED BY <2>2, <2>3 DEF plan
<1>2. of.plan = Plan(s, of.options, Serial(s.n))
  BY BuiltFields
<1>3. Furnished(Plan(s, of.options, Serial(s.n))[d[1]].buckets[d[2]], s, of.options, d[1])
  BY <1>1, <1>2, BucketFurnished
<1> QED BY <1>1, <1>2, <1>3 DEF BucketOf

\* The simulations of a scene have the same buckets, and their buckets the same cells.
LEMMA BuiltAlike ==
  ASSUME NEW s, WellFormed(s), NEW of, Built(of, s), NEW to, Built(to, s)
  PROVE  /\ of.stateful = to.stateful
         /\ \A d \in of.stateful : Alike(BucketOf(of.plan, d), BucketOf(to.plan, d))
<1> DEFINE g == Serial(s.n)
           P1 == of.plan
           P2 == to.plan
<1>1. P1 = Plan(s, of.options, g) /\ P2 = Plan(s, to.options, g)
  BY BuiltFields
<1>2. ASSUME NEW c \in Component
      PROVE  /\ DOMAIN P1[c].buckets = DOMAIN P2[c].buckets
             /\ \A o \in DOMAIN P1[c].buckets : Alike(P1[c].buckets[o], P2[c].buckets[o])
  <2> DEFINE sigs == Signatures(s, g, c)
             active == ActiveTargets(g, c)
  <2>1. /\ P1[c].buckets = [o \in DOMAIN sigs |-> Bucket(s, of.options, g, c, sigs[o], active)]
        /\ P2[c].buckets = [o \in DOMAIN sigs |-> Bucket(s, to.options, g, c, sigs[o], active)]
    BY <1>1, PlanIs
  <2>2. \A sig : Alike(Bucket(s, of.options, g, c, sig, active),
                       Bucket(s, to.options, g, c, sig, active))
    BY BucketsAlike
  <2> HIDE DEF P1, P2, g, sigs, active
  <2> QED BY <2>1, <2>2
<1> HIDE DEF P1, P2
<1>3. Buckets(P1) = Buckets(P2)
  <2> DEFINE homes(Q) == UNION {{<<c, o>> : o \in DOMAIN Q[c].buckets} : c \in Component}
  <2>1. homes(P1) = homes(P2)
    BY <1>2
  <2> QED BY <2>1 DEF Buckets
<1>4. \A d \in Buckets(P1) : Alike(BucketOf(P1, d), BucketOf(P2, d))
  BY <1>2, BuiltFurnished DEF BucketOf, P1
<1>5. /\ of.stateful = {d \in Buckets(P1) : ModelOf(P1, d) \in Stateful}
      /\ to.stateful = {d \in Buckets(P2) : ModelOf(P2, d) \in Stateful}
  BY BuiltFields DEF P1, P2
<1>6. \A d \in Buckets(P1) : ModelOf(P1, d) = ModelOf(P2, d)
  BY <1>4 DEF ModelOf, Alike
<1> QED BY <1>3, <1>4, <1>5, <1>6 DEF P1, P2

\* An absorber that is not sparse is dense: each stateful bucket has one of three memories.
LEMMA BuiltKinds ==
  ASSUME NEW s, WellFormed(s), NEW of, Built(of, s), NEW d \in of.stateful
  PROVE  /\ d \in Buckets(of.plan)
         /\ BucketOf(of.plan, d).signature[1] \in Stateful
         /\ d \in DOMAIN of.place <=> BucketOf(of.plan, d).signature[1] \in DispersiveModels
         /\ d \in of.dense \cup of.sparse => BucketOf(of.plan, d).signature[1] \in Absorbers
         /\ d \in of.sparse => /\ BucketOf(of.plan, d).signature[1] = "cpml"
                               /\ d \notin of.dense
                               /\ BucketOf(of.plan, d).residual
                                    = [axis \in 1..2 |-> Residual(BucketOf(of.plan, d).targets,
                                                                  BucketOf(of.plan, d).cells, axis)]
         /\ d \notin DOMAIN of.place => d \in of.dense \cup of.sparse
<1> DEFINE b == BucketOf(of.plan, d)
<1>0. /\ of.stateful = {e \in Buckets(of.plan) : ModelOf(of.plan, e) \in Stateful}
      /\ of.dense = {e \in of.stateful : /\ ModelOf(of.plan, e) \in Absorbers
                                         /\ ~Sparse(of.plan, e)}
      /\ of.sparse = {e \in of.stateful : Sparse(of.plan, e)}
      /\ DOMAIN of.place = {e \in of.stateful : ModelOf(of.plan, e) \in DispersiveModels}
  BY BuiltFields
<1>1. d \in Buckets(of.plan) /\ b.signature[1] \in Stateful
  BY <1>0 DEF ModelOf
<1>2. Furnished(b, s, of.options, d[1])
  BY <1>1, BuiltFurnished
<1>3. d \in of.dense <=> b.signature[1] \in Absorbers /\ b.residual = <<>>
  BY <1>0 DEF ModelOf, Sparse
<1>4. d \in of.sparse <=> b.residual # <<>>
  BY <1>0 DEF Sparse
<1>5. d \in DOMAIN of.place <=> b.signature[1] \in DispersiveModels
  BY <1>0 DEF ModelOf
<1> HIDE DEF b
<1>6. b.residual # <<>> => /\ b.signature[1] = "cpml"
                           /\ b.residual = [axis \in 1..2 |-> Residual(b.targets, b.cells, axis)]
  BY <1>2, Zenon DEF Furnished, SparseBucket
<1>7. "cpml" \in Absorbers /\ Stateful = DispersiveModels \cup Absorbers
  BY DEF Stateful, Absorbers
<1>8. d \in of.sparse => d \notin of.dense
  BY <1>3, <1>4
<1>9. d \in of.dense \cup of.sparse => b.signature[1] \in Absorbers
  BY <1>3, <1>4, <1>6, <1>7
<1>10. d \notin DOMAIN of.place => d \in of.dense \cup of.sparse
  BY <1>1, <1>3, <1>4, <1>5, <1>7
<1> QED BY <1>1, <1>4, <1>5, <1>6, <1>8, <1>9, <1>10 DEF b

-----------------------------------------------------------------------------
(* The dense phase and the constants keep the arrays of the scene. *)
LEMMA PlanesIs ==
  ASSUME NEW s, NEW options, NEW g, NEW c \in Component
  PROVE  Plan(s, options, g)[c] = Planes(Shape(g, c), Plan(s, options, g)[c].buckets)
<1> DEFINE active == ActiveTargets(g, c)
           sigs == Ordered({ModelAt(s, g, c, i) : i \in active}, SignatureBefore)
           buckets == [o \in DOMAIN sigs |-> Bucket(s, options, g, c, sigs[o], active)]
<1>1. Plan(s, options, g)[c] = Planes(Shape(g, c), buckets)
  <2>1. ComponentPlan(s, options, g, c) = Planes(Shape(g, c), buckets)
    BY Zenon DEF ComponentPlan
  <2> HIDE DEF buckets
  <2> QED BY <2>1 DEF Plan
<1> HIDE DEF buckets
<1>2. Planes(Shape(g, c), buckets).buckets = buckets
  BY DEF Planes
<1> QED BY <1>1, <1>2

\* The dense plane and the constants of a component come from its buckets.
LEMMA BuiltPlanes ==
  ASSUME NEW s, WellFormed(s), NEW of, Built(of, s), NEW c \in Component
  PROVE  /\ of.plan[c] = Planes(Shape(Serial(s.n), c), of.plan[c].buckets)
         /\ \A o \in DOMAIN of.plan[c].buckets : Furnished(of.plan[c].buckets[o], s, of.options, c)
         /\ \E n \in Nat : DOMAIN of.plan[c].buckets = 1..n
<1> DEFINE g == Serial(s.n)
           P1 == of.plan
<1>1. P1 = Plan(s, of.options, g)
  BY BuiltFields
<1>2. \E n \in Nat : DOMAIN P1[c].buckets = 1..n
  <2>1. Listed(Signatures(s, g, c), {ModelAt(s, g, c, i) : i \in ActiveTargets(g, c)})
    BY WellFormedIsGrown, SerialViewed, SignaturesListed
  <2>2. DOMAIN Plan(s, of.options, g)[c].buckets = DOMAIN Signatures(s, g, c)
    <3> DEFINE f == [o \in DOMAIN Signatures(s, g, c) |->
                       Bucket(s, of.options, g, c, Signatures(s, g, c)[o], ActiveTargets(g, c))]
    <3>1. Plan(s, of.options, g)[c].buckets = f
      BY PlanIs
    <3>2. DOMAIN f = DOMAIN Signatures(s, g, c)
      OBVIOUS
    <3> HIDE DEF f
    <3> QED BY <3>1, <3>2
  <2> QED BY <1>1, <2>1, <2>2 DEF Listed
<1> HIDE DEF P1
<1>3. P1[c] = Planes(Shape(g, c), P1[c].buckets)
  BY <1>1, PlanesIs
<1>4. \A o \in DOMAIN P1[c].buckets : Furnished(P1[c].buckets[o], s, of.options, c)
  BY <1>1, BucketFurnished
<1> QED BY <1>2, <1>3, <1>4 DEF P1

\* The dense plane holds an integer for each cell.
LEMMA PlaneTyped ==
  ASSUME NEW s, WellFormed(s), NEW of, Built(of, s), NEW c \in Component,
         NEW i \in 0..(Total(Shape(Serial(s.n), c)) - 1)
  PROVE  of.plan[c].dense[i] \in Int
<1> DEFINE shape == Shape(Serial(s.n), c)
           buckets == of.plan[c].buckets
           owner(j) == {o \in DOMAIN buckets : j \in Range(buckets[o].targets)}
           inverse(j) == LET o == CHOOSE o \in owner(j) : TRUE
                         IN  DenseInverse(buckets[o], Position(buckets[o].targets, j))
<1>1. of.plan[c] = Planes(shape, buckets)
  BY BuiltPlanes
<1>2. \A o \in DOMAIN buckets : Furnished(buckets[o], s, of.options, c)
  BY BuiltPlanes
<1> HIDE DEF buckets, shape
<1>3. of.plan[c].dense[i] = IF owner(i) = {} THEN 0 ELSE inverse(i)
  <2>1. Planes(shape, buckets).dense
          = [j \in 0..(Total(shape) - 1) |-> IF owner(j) = {} THEN 0 ELSE inverse(j)]
    BY DEF Planes
  <2> HIDE DEF owner, inverse
  <2> QED BY <1>1, <2>1 DEF shape
<1>4. ASSUME owner(i) # {} PROVE inverse(i) \in Int
  <2> DEFINE o == CHOOSE o \in owner(i) : TRUE
             b == buckets[o]
             k == Position(b.targets, i)
  <2>1. o \in owner(i)
    BY <1>4
  <2>2. o \in DOMAIN buckets /\ i \in Range(b.targets)
    BY <2>1
  <2>3. inverse(i) = DenseInverse(b, k)
    OBVIOUS
  <2> HIDE DEF o, inverse, owner
  <2>4. Furnished(b, s, of.options, c)
    BY <1>2, <2>2
  <2> HIDE DEF b
  <2>5. k \in DOMAIN b.targets
    <3>1. Lists(b.targets, Range(b.targets))
      BY DEF Lists, Range
    <3> QED BY <2>2, <3>1, PositionIs
  <2> HIDE DEF k
  <2>6. TargetRow(b, k)[1] \in Int
    BY <2>4, <2>5 DEF Furnished
  <2>7. b.residual # <<>> => b.cells[k].base \in Int
    <3>1. ASSUME b.residual # <<>> PROVE b.signature[1] = "cpml"
      BY <2>4, <3>1, Zenon DEF Furnished, SparseBucket
    <3>2. b.signature[1] \in Absorbers => CellTyped(b.cells[k], b.signature[1])
      BY <2>4, <2>5, Zenon DEF Furnished
    <3> QED BY <3>1, <3>2 DEF Absorbers, CellTyped
  <2> QED BY <2>3, <2>6, <2>7 DEF DenseInverse
<1> HIDE DEF inverse, owner
<1> QED BY <1>3, <1>4

\* The curl of the dense phase reads inside the arrays.
LEMMA PhaseCurlTyped ==
  ASSUME WellFormed(This), NEW G, Arrays(This, G), NEW c \in Component,
         NEW v \in CellsOf(This, c), InBounds(ShapeOf(c), c, v)
  PROVE  PhaseCurl(G, c, v) \in Int
<1> DEFINE g == Serial(This.n)
           diff(t) == IF Collapsed /\ t.axis = 3 THEN 0
                      ELSE t.sign * Rate[t.axis] * (G[t.source][Sum3(v, t.positive)]
                                                      - G[t.source][Sum3(v, t.negative)])
<1>1. InShape(v, Shape(g, c)) /\ InBounds(Shape(g, c), c, v) /\ Viewed(g)
  BY CellInShape, SerialViewed DEF ShapeOf
<1>2. ASSUME NEW j \in 1..2 PROVE diff(Stencil(c)[j]) \in Int
  <2> DEFINE t == Stencil(c)[j]
  <2>1. Reaches(g, t, v)
    BY <1>1, StencilInside
  <2> HIDE DEF t
  <2>2. G[t.source][Sum3(v, t.positive)] \in Int /\ G[t.source][Sum3(v, t.negative)] \in Int
    <3>1. \A p : Sum3(v, p) = [a \in Axes |-> Sum3(v, p)[a]]
      BY DEF Sum3
    <3> QED BY <2>1, <3>1, ArrayValue DEF Reaches
  <2>3. Rate[t.axis] \in Int
    BY <2>1, ResidueAssumption DEF Reaches
  <2>4. \A x, y \in Int : t.sign * Rate[t.axis] * (x - y) \in Int
    BY <2>1, <2>3 DEF Reaches, Signed
  <2>5. diff(t) \in Int
    BY <2>2, <2>4
  <2> QED BY <2>5 DEF t
<1>3. PhaseCurl(G, c, v) = diff(Stencil(c)[1]) + diff(Stencil(c)[2])
  BY Zenon DEF PhaseCurl
<1> HIDE DEF diff
<1> QED BY <1>2, <1>3

\* The dense phase keeps arrays and leaves the memory alone.
LEMMA DensePhaseTyped ==
  ASSUME WellFormed(This), Built(sim, This), NEW S, Arrays(This, S.F),
         S = [F |-> S.F, mem |-> S.mem], NEW family
  PROVE  /\ Arrays(This, DensePhase(S, family).F) /\ DensePhase(S, family).mem = S.mem
         /\ DensePhase(S, family) = [F |-> DensePhase(S, family).F, mem |-> S.mem]
<1> DEFINE G == S.F
           updated(c) ==
             [v \in DOMAIN G[c] |->
                IF InBounds(ShapeOf(c), c, v)
                THEN (G[c][v] + sim.plan[c].dense[Flat(ShapeOf(c), v)] * PhaseCurl(G, c, v)) % P
                ELSE G[c][v]]
           H == [c \in Component |-> IF c[1] = family THEN updated(c) ELSE G[c]]
<1>1. DensePhase(S, family) = [S EXCEPT !.F = H]
  BY Zenon DEF DensePhase
<1>2. ASSUME NEW c \in Component PROVE updated(c) \in [CellsOf(This, c) -> Int]
  <2>1. G[c] \in [CellsOf(This, c) -> Int]
    BY DEF Arrays
  <2>2. ASSUME NEW v \in CellsOf(This, c), InBounds(ShapeOf(c), c, v)
        PROVE  (G[c][v] + sim.plan[c].dense[Flat(ShapeOf(c), v)] * PhaseCurl(G, c, v)) % P \in Int
    <3>1. Flat(ShapeOf(c), v) \in 0..(Total(ShapeOf(c)) - 1)
      BY CellInShape, SerialViewed, ShapeSized, FlatInverse DEF ShapeOf
    <3>2. sim.plan[c].dense[Flat(ShapeOf(c), v)] \in Int
      BY <3>1, PlaneTyped DEF ShapeOf
    <3>3. PhaseCurl(G, c, v) \in Int
      BY <2>2, PhaseCurlTyped
    <3> QED BY <2>1, <3>2, <3>3, ResidueInteger
  <2> QED BY <2>1, <2>2
<1> HIDE DEF updated
<1>3. Arrays(This, H)
  BY <1>2 DEF Arrays
<1> HIDE DEF H
<1> QED BY <1>1, <1>3

\* The cells of the buckets of a constant material, each with its value.
Constants(buckets) ==
  UNION {{<<buckets[o].targets[k], TargetRow(buckets[o], k)[2]>> : k \in DOMAIN buckets[o].targets} :
         o \in {o \in DOMAIN buckets : buckets[o].signature[1] = "const"}}

\* The constants of a component are those, in some order.
LEMMA ConstantsListed ==
  ASSUME NEW s, WellFormed(s), NEW of, Built(of, s), NEW c \in Component
  PROVE  /\ Listed(of.plan[c].constants, Constants(of.plan[c].buckets))
         /\ Constants(of.plan[c].buckets) \subseteq Int \X Int
<1> DEFINE shape == Shape(Serial(s.n), c)
           g == Serial(s.n)
           buckets == of.plan[c].buckets
           cells(o) == {<<buckets[o].targets[k], TargetRow(buckets[o], k)[2]>> :
                          k \in DOMAIN buckets[o].targets}
           held == {o \in DOMAIN buckets : buckets[o].signature[1] = "const"}
           constant == UNION {cells(o) : o \in held}
<1>1. of.plan[c] = Planes(shape, buckets)
  BY BuiltPlanes
<1>2. \A o \in DOMAIN buckets : Furnished(buckets[o], s, of.options, c)
  BY BuiltPlanes
<1>3. IsFiniteSet(DOMAIN buckets)
  <2>1. \E n \in Nat : DOMAIN buckets = 1..n
    BY BuiltPlanes
  <2> QED BY <2>1, FS_Interval
<1> HIDE DEF buckets, shape
<1>4. of.plan[c].constants = Ordered(constant, PairBefore)
  <2>1. constant = UNION {{<<buckets[o].targets[k], TargetRow(buckets[o], k)[2]>> :
                             k \in DOMAIN buckets[o].targets} : o \in held}
    OBVIOUS
  <2>2. Planes(shape, buckets).constants = Ordered(constant, PairBefore)
    BY DEF Planes
  <2> HIDE DEF constant
  <2> QED BY <1>1, <2>2
<1>5. ASSUME NEW o \in held
      PROVE  IsFiniteSet(cells(o)) /\ cells(o) \subseteq Int \X Int
  <2> DEFINE b == buckets[o]
             f == [k \in DOMAIN b.targets |-> <<b.targets[k], TargetRow(b, k)[2]>>]
  <2>1. Furnished(b, s, of.options, c) /\ b.signature[1] = "const"
    BY <1>2
  <2>2. cells(o) = {<<b.targets[k], TargetRow(b, k)[2]>> : k \in DOMAIN b.targets}
    OBVIOUS
  <2> HIDE DEF b, cells
  <2>3. PICK n \in Nat : DOMAIN b.targets = 1..n /\ b.targets \in [1..n -> ActiveTargets(g, c)]
    BY <2>1 DEF Furnished
  <2>4. IsFiniteSet(DOMAIN b.targets)
    BY <2>3, FS_Interval
  <2>5. f \in Surjection(DOMAIN b.targets, cells(o))
    BY <2>2 DEF Surjection
  <2>6. IsFiniteSet(cells(o))
    <3> HIDE DEF f
    <3> QED BY <2>4, <2>5, FS_Surjection
  <2>7. ASSUME NEW k \in DOMAIN b.targets PROVE TargetRow(b, k)[2] \in Int
    <3>1. PICK m : /\ Typed(m) /\ b.signature = ModelAndState(m, c)
                   /\ b.signature[1] # "dielectric" => TargetRow(b, k)[2] = m.coef
      BY <2>1 DEF Furnished
    <3>2. TargetRow(b, k)[2] = m.coef
      BY <2>1, <3>1
    <3>3. m.type = "const"
      BY <2>1, <3>1 DEF ModelAndState, Typed, Models, Range
    <3> QED BY <3>1, <3>2, <3>3 DEF Typed, Coefficients
  <2>8. \A k \in DOMAIN b.targets : b.targets[k] \in Int
    BY <2>3, WellFormedIsGrown, SerialViewed, ActiveFinite
  <2>9. cells(o) \subseteq Int \X Int
    BY <2>2, <2>7, <2>8
  <2> QED BY <2>6, <2>9
<1>6. IsFiniteSet(held)
  BY <1>3, FS_Subset
<1> HIDE DEF held, cells
<1>7. constant \subseteq Int \X Int
  BY <1>5
<1>8. IsFiniteSet(constant)
  <2> DEFINE T == {cells(o) : o \in held}
             f == [o \in held |-> cells(o)]
  <2>1. f \in Surjection(held, T)
    BY DEF Surjection
  <2>2. \A x \in T : IsFiniteSet(x)
    BY <1>5
  <2> HIDE DEF f, T
  <2>3. IsFiniteSet(T)
    BY <1>6, <2>1, FS_Surjection
  <2>4. IsFiniteSet(UNION T)
    BY <2>2, <2>3, FS_UNION
  <2> QED BY <2>4 DEF T
<1> HIDE DEF constant
<1>9. Listed(Ordered(constant, PairBefore), constant)
  BY <1>7, <1>8, OrderedPairs
<1>10. constant = Constants(of.plan[c].buckets)
  BY DEF constant, held, cells, buckets, Constants
<1> QED BY <1>4, <1>7, <1>9, <1>10

\* Their values are integers.
LEMMA ConstantsTyped ==
  ASSUME NEW s, WellFormed(s), NEW of, Built(of, s), NEW c \in Component
  PROVE  \E n \in Nat : /\ DOMAIN of.plan[c].constants = 1..n
                        /\ \A k \in 1..n : of.plan[c].constants[k][2] \in Int
<1> DEFINE q == of.plan[c].constants
           T == Constants(of.plan[c].buckets)
<1>1. Listed(q, T) /\ T \subseteq Int \X Int
  BY ConstantsListed
<1> HIDE DEF q, T
<1>2. \E n \in Nat : DOMAIN q = 1..n /\ \A k \in 1..n : q[k][2] \in Int
  BY <1>1 DEF Listed, Lists
<1> QED BY <1>2 DEF q

\* Writing the constants keeps arrays and leaves the memory alone.
LEMMA ApplyConstantsTyped ==
  ASSUME WellFormed(This), Built(sim, This), NEW S, Arrays(This, S.F),
         S = [F |-> S.F, mem |-> S.mem], NEW family
  PROVE  Arrays(This, ApplyConstants(S, family).F) /\ ApplyConstants(S, family).mem = S.mem
<1> DEFINE held(c) == sim.plan[c].constants
           applied(c) == Scatter(S.F, c, [k \in DOMAIN held(c) |-> held(c)[k][1]],
                                 [k \in DOMAIN held(c) |-> held(c)[k][2]])[c]
           H == [c \in Component |-> IF c[1] = family THEN applied(c) ELSE S.F[c]]
<1>1. ApplyConstants(S, family) = [S EXCEPT !.F = H]
  BY Zenon DEF ApplyConstants
<1>2. ASSUME NEW c \in Component PROVE applied(c) \in [CellsOf(This, c) -> Int]
  <2> DEFINE targets == [k \in DOMAIN held(c) |-> held(c)[k][1]]
             values == [k \in DOMAIN held(c) |-> held(c)[k][2]]
  <2>1. PICK n \in Nat : DOMAIN held(c) = 1..n /\ \A k \in 1..n : held(c)[k][2] \in Int
    BY ConstantsTyped
  <2>2. DOMAIN targets = 1..n /\ \A k \in 1..n : values[k] \in Int
    BY <2>1
  <2>3. applied(c) = Scatter(S.F, c, targets, values)[c]
    OBVIOUS
  <2> HIDE DEF targets, values, held, applied
  <2>4. Arrays(This, Scatter(S.F, c, targets, values))
    BY <2>2, ScatterTyped
  <2> QED BY <2>3, <2>4 DEF Arrays
<1> HIDE DEF applied
<1>3. Arrays(This, H)
  BY <1>2 DEF Arrays
<1> HIDE DEF H
<1> QED BY <1>1, <1>3

-----------------------------------------------------------------------------
(* Buckets of one family in the order of their components. *)
LEMMA OrderedBuckets ==
  ASSUME NEW S, IsFiniteSet(S), NEW family, NEW n \in Nat,
         S \subseteq ({family} \X Axes) \X (1..n)
  PROVE  Listed(InOrder(S), S)
<1> DEFINE R == {x \in S \X S : BucketBefore(x[1], x[2])}
           place == [e \in S |-> Cardinality({x \in S : BucketBefore(x, e)}) + 1]
<1>0. \A x \in S : /\ x = << x[1], x[2] >> /\ x[1] = << family, x[1][2] >>
                   /\ x[1][2] \in Int /\ x[2] \in Int
  <2> SUFFICES ASSUME NEW x \in S
               PROVE  /\ x = << x[1], x[2] >> /\ x[1] = << family, x[1][2] >>
                      /\ x[1][2] \in Int /\ x[2] \in Int
    OBVIOUS
  <2>1. x[1] \in {family} \X Axes /\ x[2] \in 1..n /\ x = << x[1], x[2] >>
    OBVIOUS
  <2>2. x[1] = << family, x[1][2] >> /\ x[1][2] \in Axes
    BY <2>1
  <2> QED BY <2>1, <2>2 DEF Axes
<1>1. TotalOn(R, S)
  <2>1. \A x, y \in S : <<x, y>> \in R <=> BucketBefore(x, y)
    OBVIOUS
  <2> HIDE DEF R
  <2>2. \A x \in S : <<x, x>> \notin R
    BY <1>0, <2>1 DEF BucketBefore
  <2>3. \A x, y, z \in S : <<x, y>> \in R /\ <<y, z>> \in R => <<x, z>> \in R
    BY <1>0, <2>1 DEF BucketBefore
  <2>4. \A x, y \in S : x = y \/ <<x, y>> \in R \/ <<y, x>> \in R
    <3> TAKE x, y \in S
    <3>1. x[1][2] = y[1][2] => x[1] = y[1]
      BY <1>0
    <3>2. x[1] = y[1] /\ x[2] = y[2] => x = y
      BY <1>0
    <3> QED BY <1>0, <2>1, <3>1, <3>2 DEF BucketBefore
  <2> QED BY <2>2, <2>3, <2>4 DEF TotalOn
<1>2. Counts(place, R, S)
  <2> SUFFICES ASSUME NEW e \in S
               PROVE  place[e] = Cardinality({x \in S : <<x, e>> \in R}) + 1
    BY DEF Counts
  <2>1. {x \in S : BucketBefore(x, e)} = {x \in S : <<x, e>> \in R}
    OBVIOUS
  <2> QED BY <2>1
<1>3. InOrder(S) = Placed(place, S)
  BY DEF InOrder, Ordered, Placed
<1> HIDE DEF R, place
<1>4. OneToOne(place, S)
  BY <1>1, <1>2, PlacesAreOneToOne
<1> QED BY <1>3, <1>4, PlacedSequence

\* The buckets of a family are finitely many and can be put in order.
LEMMA FamilyFinite ==
  ASSUME NEW s, WellFormed(s), NEW of, Built(of, s), NEW family, family \in {"E", "H"},
         NEW S, S \subseteq {d \in Buckets(of.plan) : d[1][1] = family}
  PROVE  IsFiniteSet(S) /\ Listed(InOrder(S), S)
<1> DEFINE size(a, n) == DOMAIN of.plan[<<family, a>>].buckets = 1..n
<1>0. \A a \in Axes : \E n \in Nat : size(a, n)
  <2> SUFFICES ASSUME NEW a \in Axes PROVE \E n \in Nat : size(a, n)
    OBVIOUS
  <2>1. <<family, a>> \in Component
    BY DEF Component
  <2> QED BY <2>1, BuiltPlanes
<1>1. PICK n \in Nat : \A d \in S : d[2] \in 1..n
  <2>1. PICK i \in Nat, j \in Nat, k \in Nat : size(1, i) /\ size(2, j) /\ size(3, k)
    BY <1>0 DEF Axes
  <2>2. \A d \in S : d[1] \in {<<family, 1>>, <<family, 2>>, <<family, 3>>}
                    /\ d[2] \in DOMAIN of.plan[d[1]].buckets
    <3> SUFFICES ASSUME NEW d \in S
                 PROVE  /\ d[1] \in {<<family, 1>>, <<family, 2>>, <<family, 3>>}
                        /\ d[2] \in DOMAIN of.plan[d[1]].buckets
      OBVIOUS
    <3>1. d[1] \in Component /\ d[1][1] = family /\ d[2] \in DOMAIN of.plan[d[1]].buckets
      BY BuiltFurnished
    <3> QED BY <3>1 DEF Component, Axes
  <2>3. \A d \in S : d[2] \in 1..(i + j + k)
    BY <2>1, <2>2
  <2> QED BY <2>3
<1> DEFINE T == ({family} \X Axes) \X (1..n)
<1>2. ASSUME NEW d \in S PROVE d \in T
  <2>1. d[1] \in Component /\ d[1][1] = family /\ d = << d[1], d[2] >>
    BY BuiltFurnished
  <2>2. d[1] \in {family} \X Axes
    BY <2>1 DEF Component
  <2> QED BY <1>1, <2>1, <2>2
<1>3. IsFiniteSet(T)
  <2>1. IsFiniteSet({family}) /\ IsFiniteSet(Axes) /\ IsFiniteSet(1..n)
    <3>1. IsFiniteSet({family})
      BY FS_Singleton
    <3>2. \A m \in Int : IsFiniteSet(1..m)
      BY FS_Interval
    <3>3. IsFiniteSet(1..3)
      <4>1. 3 \in Int
        OBVIOUS
      <4> QED BY <3>2, <4>1, Zenon
    <3>4. IsFiniteSet(1..n)
      BY <1>1, <3>2
    <3> QED BY <3>1, <3>3, <3>4 DEF Axes
  <2>2. IsFiniteSet({family} \X Axes)
    BY <2>1, FS_Product
  <2> QED BY <2>1, <2>2, FS_Product
<1>4. IsFiniteSet(S)
  BY <1>2, <1>3, FS_Subset
<1> QED BY <1>1, <1>2, <1>4, OrderedBuckets

-----------------------------------------------------------------------------
(* The memory of a bucket, stored. *)
Held(S) == S = [F |-> S.F, mem |-> S.mem] /\ Arrays(This, S.F) /\ Buffered(sim, S.mem)

\* Memory stays in place when the rows of an absorber are replaced,
LEMMA StoreAbsorber ==
  ASSUME NEW of, NEW M, Buffered(of, M), NEW d \in of.dense, NEW rows,
         \A k \in DOMAIN BucketOf(of.plan, d).targets : Remembers(BucketOf(of.plan, d), k, rows[k])
  PROVE  Buffered(of, [M EXCEPT !.absorber[d] = rows])
<1> DEFINE N == [M EXCEPT !.absorber[d] = rows]
<1>1. M = [dispersive |-> M.dispersive, absorber |-> M.absorber, axis |-> M.axis]
  BY DEF Buffered
<1>2. /\ N = [dispersive |-> N.dispersive, absorber |-> N.absorber, axis |-> N.axis]
      /\ N.dispersive = M.dispersive /\ N.axis = M.axis
      /\ N.absorber = [M.absorber EXCEPT ![d] = rows]
  BY <1>1
<1> HIDE DEF N
<1>3. DOMAIN N.absorber = of.dense
  BY <1>2 DEF Buffered
<1>4. \A e \in of.dense : \A k \in DOMAIN BucketOf(of.plan, e).targets :
        Remembers(BucketOf(of.plan, e), k, N.absorber[e][k])
  <2>1. \A e \in of.dense : N.absorber[e] = IF e = d THEN rows ELSE M.absorber[e]
    BY <1>2 DEF Buffered
  <2> QED BY <2>1 DEF Buffered
<1>5. Buffered(of, N)
  BY <1>2, <1>3, <1>4 DEF Buffered
<1> QED BY <1>5 DEF N

\* when those of a residual axis are,
LEMMA StoreAxis ==
  ASSUME NEW of, NEW M, Buffered(of, M), NEW d \in of.sparse, NEW a \in 1..2, NEW values,
         \A j \in DOMAIN BucketOf(of.plan, d).residual[a].positions : values[j] \in Int
  PROVE  Buffered(of, [M EXCEPT !.axis[<<d, a>>] = values])
<1> DEFINE N == [M EXCEPT !.axis[<<d, a>>] = values]
<1>1. M = [dispersive |-> M.dispersive, absorber |-> M.absorber, axis |-> M.axis]
  BY DEF Buffered
<1>2. /\ N = [dispersive |-> N.dispersive, absorber |-> N.absorber, axis |-> N.axis]
      /\ N.dispersive = M.dispersive /\ N.absorber = M.absorber
      /\ N.axis = [M.axis EXCEPT ![<<d, a>>] = values]
  BY <1>1
<1> HIDE DEF N
<1>3. DOMAIN N.axis = of.sparse \X {1, 2}
  BY <1>2 DEF Buffered
<1>4. \A e \in of.sparse, i \in 1..2 :
        \A j \in DOMAIN BucketOf(of.plan, e).residual[i].positions : N.axis[<<e, i>>][j] \in Int
  <2>0. 1..2 = {1, 2}
    OBVIOUS
  <2>1. \A e \in of.sparse, i \in 1..2 :
          N.axis[<<e, i>>] = IF e = d /\ i = a THEN values ELSE M.axis[<<e, i>>]
    BY <1>2, <2>0 DEF Buffered
  <2> QED BY <2>1 DEF Buffered
<1>5. Buffered(of, N)
  BY <1>2, <1>3, <1>4 DEF Buffered
<1> QED BY <1>5 DEF N

\* and when those of an arena are.
LEMMA StoreDispersive ==
  ASSUME NEW of, NEW M, Buffered(of, M), NEW entry \in DOMAIN of.arena, NEW values,
         \A j \in DOMAIN of.arena[entry] :
           Remembers(BucketOf(of.plan, of.arena[entry][j][1]), of.arena[entry][j][2], values[j])
  PROVE  Buffered(of, [M EXCEPT !.dispersive[entry] = values])
<1> DEFINE N == [M EXCEPT !.dispersive[entry] = values]
<1>1. M = [dispersive |-> M.dispersive, absorber |-> M.absorber, axis |-> M.axis]
  BY DEF Buffered
<1>2. /\ N = [dispersive |-> N.dispersive, absorber |-> N.absorber, axis |-> N.axis]
      /\ N.absorber = M.absorber /\ N.axis = M.axis
      /\ N.dispersive = [M.dispersive EXCEPT ![entry] = values]
  BY <1>1
<1> HIDE DEF N
<1>3. DOMAIN N.dispersive = DOMAIN of.arena
  BY <1>2 DEF Buffered
<1>4. \A e \in DOMAIN of.arena : \A j \in DOMAIN of.arena[e] :
        Remembers(BucketOf(of.plan, of.arena[e][j][1]), of.arena[e][j][2], N.dispersive[e][j])
  <2>1. \A e \in DOMAIN of.arena : N.dispersive[e] = IF e = entry THEN values ELSE M.dispersive[e]
    BY <1>2 DEF Buffered
  <2> QED BY <2>1 DEF Buffered
<1>5. Buffered(of, N)
  BY <1>2, <1>3, <1>4 DEF Buffered
<1> QED BY <1>5 DEF N

-----------------------------------------------------------------------------
(* The absorber phase keeps the arrays and the memory of the simulation. *)
LEMMA DirectionSigned ==
  ASSUME NEW c
  PROVE  Signed(Direction(c))
BY DEF Direction, Signed

\* The update of an absorber's row keeps its memory, and a plain CPML axis at zero.
LEMMA AbsorberHeld ==
  ASSUME WellFormed(This), Built(sim, This), NEW G, Arrays(This, G), NEW d \in Buckets(sim.plan),
         BucketOf(sim.plan, d).signature[1] \in Absorbers,
         NEW k \in DOMAIN BucketOf(sim.plan, d).targets, NEW row,
         Remembers(BucketOf(sim.plan, d), k, row)
  PROVE  LET b == BucketOf(sim.plan, d)
             c == d[1]
             t == [j \in 1..2 |-> GatherDifference(G, c, PmlTerms(c)[j], b.targets[k])]
             u == AbsorberUpdate(b.signature, b.cells[k], row, FieldAt(G, c, b.targets[k]), t,
                                 Direction(c))
         IN  u.field \in 0..(P - 1) /\ Remembers(b, k, u.row)
<1> DEFINE b == BucketOf(sim.plan, d)
           c == d[1]
           i == b.targets[k]
           t == [j \in 1..2 |-> GatherDifference(G, c, PmlTerms(c)[j], i)]
           e == FieldAt(G, c, i)
           cell == b.cells[k]
           done == AbsorberUpdate(b.signature, cell, row, e, t, Direction(c))
<1>1. c \in Component /\ Furnished(b, This, sim.options, c)
  BY BuiltFurnished
<1>2. b.signature[1] \in Absorbers /\ Remembers(b, k, row) /\ k \in DOMAIN b.targets
  OBVIOUS
<1> HIDE DEF b, c
<1>3. i \in ActiveTargets(Serial(This.n), c)
  BY <1>1, <1>2 DEF Furnished
<1> HIDE DEF i
<1>4. e \in Int
  BY <1>1, <1>3, FieldAtTyped
<1>5. t \in [1..2 -> Int]
  BY <1>1, <1>3, CurlTyped
<1>6. CellTyped(cell, b.signature[1])
  BY <1>1, <1>2, Zenon DEF Furnished
<1>7. Signed(Direction(c))
  BY DirectionSigned
<1>8. PICK m : Typed(m) /\ b.signature = ModelAndState(m, c)
  BY <1>1 DEF Furnished
<1> HIDE DEF e, t, cell
<1>9. CASE b.signature[1] = "upml"
  <2>1. b.signature = << "upml", 1, 0 >>
    BY <1>8, <1>9 DEF ModelAndState, Typed, Models, Range
  <2>2. MemoryRows(b.signature) = [1..1 -> Int]
    BY <2>1 DEF MemoryRows
  <2>3. row \in [1..1 -> Int]
    BY <1>2, <2>2 DEF Remembers
  <2>4. done = Upml(cell, row, e, t, Direction(c))
    BY <1>9 DEF AbsorberUpdate
  <2> HIDE DEF done
  <2>5. done.field \in 0..(P - 1) /\ done.row \in [1..1 -> Int]
    BY <1>4, <1>5, <1>6, <1>7, <1>9, <2>3, <2>4, UpmlTyped
  <2>6. Remembers(b, k, done.row)
    BY <1>9, <2>2, <2>5 DEF Remembers
  <2> QED BY <2>5, <2>6 DEF done, t, e, cell, i, c, b
<1>10. CASE b.signature[1] = "cpml"
  <2>1. b.signature = << "cpml", 2, 0 >>
    BY <1>8, <1>10 DEF ModelAndState, Typed, Models, Range
  <2>2. MemoryRows(b.signature) = [1..2 -> Int]
    BY <2>1 DEF MemoryRows
  <2>3. row \in [1..2 -> Int] /\ \A a \in 1..2 : PlainAxis(cell, a) => row[a] = 0
    BY <1>2, <1>10, <2>2 DEF Remembers, cell
  <2>4. done = Cpml(cell, row, e, t, Direction(c))
    BY <1>10 DEF AbsorberUpdate
  <2> HIDE DEF done
  <2>5. /\ done.field \in 0..(P - 1) /\ done.row \in [1..2 -> Int]
        /\ \A a \in 1..2 : PlainAxis(cell, a) => done.row[a] = 0
    BY <1>4, <1>5, <1>6, <1>7, <1>10, <2>3, <2>4, CpmlTyped
  <2>6. Remembers(b, k, done.row)
    BY <2>2, <2>5 DEF Remembers, cell
  <2> QED BY <2>5, <2>6 DEF done, t, e, cell, i, c, b
<1> QED BY <1>2, <1>9, <1>10 DEF Absorbers

\* A dense absorber bucket keeps arrays and memory; a plain CPML axis keeps zero.
LEMMA RunAbsorberHeld ==
  ASSUME WellFormed(This), Built(sim, This), NEW S, Held(S), NEW d \in sim.dense
  PROVE  Held(RunAbsorber(S, d))
<1> DEFINE b == BucketOf(sim.plan, d)
           c == d[1]
           t(i) == [j \in 1..2 |-> GatherDifference(S.F, c, PmlTerms(c)[j], i)]
           done(k) == AbsorberUpdate(b.signature, b.cells[k], S.mem.absorber[d][k],
                                     FieldAt(S.F, c, b.targets[k]), t(b.targets[k]), Direction(c))
           out == [k \in DOMAIN b.targets |-> done(k)]
           fields == [k \in DOMAIN out |-> out[k].field]
           rows == [k \in DOMAIN out |-> out[k].row]
<1>1. RunAbsorber(S, d) = [F |-> Scatter(S.F, c, b.targets, fields),
                           mem |-> [S.mem EXCEPT !.absorber[d] = rows]]
  BY Zenon DEF RunAbsorber
<1>2. d \in sim.stateful
  BY BuiltFields
<1>3. /\ d \in Buckets(sim.plan) /\ b.signature[1] \in Absorbers
  BY <1>2, BuiltKinds
<1>4. c \in Component /\ Furnished(b, This, sim.options, c)
  BY <1>3, BuiltFurnished
<1>5. \A k \in DOMAIN b.targets : Remembers(b, k, S.mem.absorber[d][k])
  BY DEF Held, Buffered
<1>6. Arrays(This, S.F)
  BY DEF Held
<1>7. ASSUME NEW k \in DOMAIN b.targets
      PROVE  done(k).field \in Int /\ Remembers(b, k, done(k).row)
  <2> DEFINE row == S.mem.absorber[d][k]
             G == S.F
             u == AbsorberUpdate(b.signature, b.cells[k], row, FieldAt(G, c, b.targets[k]),
                                 [j \in 1..2 |-> GatherDifference(G, c, PmlTerms(c)[j], b.targets[k])],
                                 Direction(c))
  <2>1. Remembers(b, k, row) /\ Arrays(This, G)
    BY <1>5, <1>6
  <2>2. done(k) = u
    OBVIOUS
  <2> HIDE DEF row, G, done
  <2>3. u.field \in 0..(P - 1) /\ Remembers(b, k, u.row)
    BY <1>3, <2>1, AbsorberHeld
  <2> HIDE DEF u
  <2>4. u.field \in Int
    BY <2>3
  <2> QED BY <2>2, <2>3, <2>4
<1> HIDE DEF b, c
<1> HIDE DEF done
<1>8. \A k \in DOMAIN b.targets : fields[k] \in Int /\ Remembers(b, k, rows[k])
  BY <1>7
<1> HIDE DEF fields, rows
<1>9. Arrays(This, Scatter(S.F, c, b.targets, fields))
  BY <1>4, <1>6, <1>8, ScatterTyped DEF Furnished
<1>10. Buffered(sim, [S.mem EXCEPT !.absorber[d] = rows])
  BY <1>8, StoreAbsorber DEF Held, b
<1> QED BY <1>1, <1>9, <1>10 DEF Held

\* A residual axis keeps exactly the rows that are not plain.
LEMMA ResidualIs ==
  ASSUME NEW s, NEW c \in Component, NEW b, NEW options, Furnished(b, s, options, c),
         b.signature[1] = "cpml", NEW a \in 1..2
  PROVE  LET r == Residual(b.targets, b.cells, a)
         IN  \E n \in Nat :
               /\ DOMAIN r.positions = 1..n /\ DOMAIN r.targets = 1..n
               /\ \A j \in 1..n :
                    /\ r.positions[j] \in DOMAIN b.targets
                    /\ r.targets[j] = b.targets[r.positions[j]]
                    /\ r.parameters[j].base \in Int /\ r.parameters[j].b \in Int
                    /\ r.parameters[j].c \in Int /\ r.parameters[j].excess \in Int
               /\ \A k \in DOMAIN b.targets :
                    k \in Range(r.positions) <=> ~PlainAxis(b.cells[k], a)
<1> DEFINE T == {k \in DOMAIN b.targets : \/ b.cells[k].curl[a].c # 0
                                          \/ b.cells[k].curl[a].kappa # 1}
           rows == Ordered(T, Before)
           r == Residual(b.targets, b.cells, a)
           row(k) == LET p == b.cells[rows[k]].curl[a]
                     IN  [base |-> b.cells[rows[k]].base, b |-> p.b, c |-> p.c,
                          excess |-> Reciprocal(p.kappa) - 1]
<1>1. /\ r.positions = rows /\ r.targets = [k \in DOMAIN rows |-> b.targets[rows[k]]]
      /\ r.parameters = [k \in DOMAIN rows |-> row(k)]
  BY DEF Residual
<1>2. IsFiniteSet(T) /\ T \subseteq Int
  <2>1. PICK n \in Nat : DOMAIN b.targets = 1..n
    BY DEF Furnished
  <2>2. IsFiniteSet(1..n) /\ 1..n \subseteq Int
    BY FS_Interval
  <2> QED BY <2>1, <2>2, FS_Subset
<1>3. \A k \in DOMAIN b.targets : k \in T <=> ~PlainAxis(b.cells[k], a)
  BY DEF PlainAxis
<1>4. \A k \in T : k \in DOMAIN b.targets
  OBVIOUS
<1>5. \A k : row(k) = [base |-> b.cells[rows[k]].base, b |-> b.cells[rows[k]].curl[a].b,
                       c |-> b.cells[rows[k]].curl[a].c,
                       excess |-> Reciprocal(b.cells[rows[k]].curl[a].kappa) - 1]
  OBVIOUS
<1> HIDE DEF T, r, row
<1>6. Listed(rows, T)
  BY <1>2, OrderedIntegers
<1> HIDE DEF rows
<1>7. PICK n \in Nat : DOMAIN rows = 1..n
  BY <1>6 DEF Listed
<1>8. \A j \in 1..n : rows[j] \in T
  BY <1>6, <1>7 DEF Listed, Lists
<1>9. ASSUME NEW j \in 1..n
      PROVE  /\ row(j).base \in Int /\ row(j).b \in Int
             /\ row(j).c \in Int /\ row(j).excess \in Int
  <2> DEFINE cell == b.cells[rows[j]]
             p == cell.curl[a]
  <2>1. CellTyped(cell, "cpml")
    BY <1>4, <1>8, Zenon DEF Furnished, Absorbers
  <2>2. row(j) = [base |-> cell.base, b |-> p.b, c |-> p.c, excess |-> Reciprocal(p.kappa) - 1]
    BY <1>5
  <2> HIDE DEF cell
  <2>3. p \in Gradings("cpml")
    BY <2>1 DEF CellTyped
  <2> HIDE DEF p
  <2>4. p.b \in Int /\ p.c \in Int /\ Divides(p.kappa)
    BY <2>3 DEF Gradings
  <2>5. Reciprocal(p.kappa) \in Int
    BY <2>4, ReciprocalInteger
  <2> QED BY <2>1, <2>2, <2>4, <2>5 DEF CellTyped
<1>10. \A k \in DOMAIN b.targets : k \in Range(rows) <=> k \in T
  BY <1>6 DEF Listed, Lists, Range
<1>11. /\ DOMAIN r.positions = 1..n /\ DOMAIN r.targets = 1..n
       /\ \A j \in 1..n : r.positions[j] = rows[j] /\ r.targets[j] = b.targets[rows[j]]
                          /\ r.parameters[j] = row(j)
  BY <1>1, <1>7
<1>12. \A k \in DOMAIN b.targets : k \in Range(r.positions) <=> ~PlainAxis(b.cells[k], a)
  BY <1>1, <1>3, <1>10
<1>13. \A j \in 1..n :
          /\ r.positions[j] \in DOMAIN b.targets
          /\ r.targets[j] = b.targets[r.positions[j]]
          /\ r.parameters[j].base \in Int /\ r.parameters[j].b \in Int
          /\ r.parameters[j].c \in Int /\ r.parameters[j].excess \in Int
  BY <1>4, <1>8, <1>9, <1>11
<1> QED BY <1>11, <1>12, <1>13 DEF r

\* A residual axis keeps arrays and memory.
LEMMA RunResidualHeld ==
  ASSUME WellFormed(This), Built(sim, This), NEW S, Held(S), NEW d \in sim.sparse, NEW a \in 1..2
  PROVE  Held(RunResidual(S, d, a))
<1> DEFINE b == BucketOf(sim.plan, d)
           r == b.residual[a]
           c == d[1]
           done(k) == CpmlResidual(r.parameters[k], S.mem.axis[<<d, a>>][k],
                                   FieldAt(S.F, c, r.targets[k]),
                                   GatherDifference(S.F, c, PmlTerms(c)[a], r.targets[k]),
                                   Direction(c), IF a = 1 THEN 1 ELSE -1)
           out == [k \in DOMAIN r.targets |-> done(k)]
           fields == [k \in DOMAIN out |-> out[k].field]
           psis == [k \in DOMAIN out |-> out[k].psi]
<1>1. RunResidual(S, d, a) = [F |-> Scatter(S.F, c, r.targets, fields),
                              mem |-> [S.mem EXCEPT !.axis[<<d, a>>] = psis]]
  BY Zenon DEF RunResidual
<1>2. d \in sim.stateful
  BY BuiltFields
<1>3. /\ d \in Buckets(sim.plan) /\ b.signature[1] = "cpml"
      /\ b.residual = [axis \in 1..2 |-> Residual(b.targets, b.cells, axis)]
  BY <1>2, BuiltKinds
<1>4. c \in Component /\ Furnished(b, This, sim.options, c)
  BY <1>3, BuiltFurnished
<1>5. \A k \in DOMAIN r.positions : S.mem.axis[<<d, a>>][k] \in Int
  BY DEF Held, Buffered
<1>6. Arrays(This, S.F)
  BY DEF Held
<1> HIDE DEF b, c
<1>7. r = Residual(b.targets, b.cells, a)
  BY <1>3
<1> HIDE DEF r
<1>8. PICK n \in Nat :
        /\ DOMAIN r.positions = 1..n /\ DOMAIN r.targets = 1..n
        /\ \A j \in 1..n :
             /\ r.positions[j] \in DOMAIN b.targets
             /\ r.targets[j] = b.targets[r.positions[j]]
             /\ r.parameters[j].base \in Int /\ r.parameters[j].b \in Int
             /\ r.parameters[j].c \in Int /\ r.parameters[j].excess \in Int
  BY <1>3, <1>4, <1>7, ResidualIs
<1>9. ASSUME NEW k \in 1..n PROVE done(k).field \in Int /\ done(k).psi \in Int
  <2> DEFINE i == r.targets[k]
             e == FieldAt(S.F, c, i)
             u == GatherDifference(S.F, c, PmlTerms(c)[a], i)
             sign == IF a = 1 THEN 1 ELSE -1
             psi == S.mem.axis[<<d, a>>][k]
             p == r.parameters[k]
  <2>1. i \in ActiveTargets(Serial(This.n), c)
    BY <1>4, <1>8 DEF Furnished
  <2>2. done(k) = CpmlResidual(p, psi, e, u, Direction(c), sign)
    OBVIOUS
  <2> HIDE DEF i, done
  <2>3. e \in Int
    BY <1>4, <1>6, <2>1, FieldAtTyped
  <2>4. u \in Int
    BY <1>4, <1>6, <2>1, CurlTyped
  <2>5. Signed(Direction(c)) /\ Signed(sign)
    BY DirectionSigned DEF Signed
  <2>6. psi \in Int
    BY <1>5, <1>8
  <2>7. p.base \in Int /\ p.b \in Int /\ p.c \in Int /\ p.excess \in Int
    BY <1>8
  <2> HIDE DEF e, u, sign, psi, p
  <2> QED BY <2>2, <2>3, <2>4, <2>5, <2>6, <2>7, ResidualTyped
<1> HIDE DEF done
<1>10. \A k \in 1..n : fields[k] \in Int /\ psis[k] \in Int
  BY <1>8, <1>9
<1> HIDE DEF fields, psis
<1>11. Arrays(This, Scatter(S.F, c, r.targets, fields))
  BY <1>4, <1>6, <1>8, <1>10, ScatterTyped
<1>12. Buffered(sim, [S.mem EXCEPT !.axis[<<d, a>>] = psis])
  BY <1>8, <1>10, StoreAxis DEF Held, b, r
<1> QED BY <1>1, <1>11, <1>12 DEF Held

\* So does an absorber bucket of either kind.
LEMMA RunAnyHeld ==
  ASSUME WellFormed(This), Built(sim, This), NEW S, Held(S), NEW d \in sim.dense \cup sim.sparse
  PROVE  Held(RunAny(S, d))
BY RunAbsorberHeld, RunResidualHeld DEF RunAny

-----------------------------------------------------------------------------
(* The stages of a phase, one after the other. *)
AbsorberRun(after, seq, n, S) ==
  /\ n \in Nat /\ DOMAIN seq = 1..n /\ after[0] = S
  /\ \A i \in 1..n : after[i] = RunAny(after[i - 1], seq[i])

AbsorbersOf(family) == {d \in sim.dense \cup sim.sparse : d[1][1] = family}

\* The absorber phase runs the buckets of its family one after the other.
LEMMA AbsorberPhaseRuns ==
  ASSUME WellFormed(This), Built(sim, This), NEW S, NEW family, family \in {"E", "H"}
  PROVE  \E after, seq, n : /\ AbsorberRun(after, seq, n, S) /\ Listed(seq, AbsorbersOf(family))
                           /\ AbsorberPhase(S, family) = after[n]
<1> DEFINE D == AbsorbersOf(family)
           seq == InOrder(D)
           n == Len(seq)
           Stages(f, m) == f = [i \in 0..m |-> IF i = 0 THEN S ELSE RunAny(f[i - 1], seq[i])]
           after == CHOOSE f : Stages(f, n)
<1>1. AbsorberPhase(S, family) = after[n]
  BY Zenon DEF AbsorberPhase, AbsorbersOf
<1>2. Listed(seq, D)
  <2>1. \A d \in sim.dense \cup sim.sparse : d \in Buckets(sim.plan)
    BY BuiltFields, BuiltKinds
  <2>2. D \subseteq {d \in Buckets(sim.plan) : d[1][1] = family}
    BY <2>1 DEF AbsorbersOf
  <2> HIDE DEF D
  <2> QED BY <2>2, FamilyFinite
<1> HIDE DEF D, seq
<1>4. n \in Nat /\ DOMAIN seq = 1..n
  <2>1. PICK m \in Nat : DOMAIN seq = 1..m
    BY <1>2 DEF Listed
  <2>2. Len(seq) \in Nat /\ DOMAIN seq = 1..Len(seq)
    BY <2>1
  <2> QED BY <2>2
<1> HIDE DEF n
<1>5. \E f : Stages(f, n)
  <2> DEFINE T == {m \in Nat : \E f : Stages(f, m)}
  <2>1. 0 \in T
    <3> DEFINE f == [i \in 0..0 |-> S]
    <3>1. Stages(f, 0)
      OBVIOUS
    <3> HIDE DEF Stages, f
    <3> QED BY <3>1
  <2>2. ASSUME NEW m \in Nat, m \in T PROVE m + 1 \in T
    <3>1. PICK f : Stages(f, m)
      BY <2>2
    <3> DEFINE last == RunAny(f[m], seq[m + 1])
               g == [i \in 0..(m + 1) |-> IF i = m + 1 THEN last ELSE f[i]]
               h == [i \in 0..(m + 1) |-> IF i = 0 THEN S ELSE RunAny(g[i - 1], seq[i])]
    <3>2. ASSUME NEW i \in 0..(m + 1) PROVE g[i] = h[i]
      <4>1. CASE i = 0
        BY <3>1, <4>1
      <4>2. CASE i = m + 1
        <5>1. g[i] = last /\ i - 1 = m /\ i # 0
          BY <4>2
        <5>2. g[m] = f[m]
          OBVIOUS
        <5>3. h[i] = RunAny(g[m], seq[m + 1])
          BY <4>2, <5>1
        <5> QED BY <5>1, <5>2, <5>3
      <4>3. CASE i # 0 /\ i # m + 1
        <5>1. i \in 0..m /\ i - 1 \in 0..m
          BY <4>3
        <5>2. g[i] = f[i] /\ g[i - 1] = f[i - 1]
          BY <4>3, <5>1
        <5>3. f[i] = RunAny(f[i - 1], seq[i])
          BY <3>1, <4>3, <5>1
        <5> QED BY <4>3, <5>2, <5>3
      <4> QED BY <4>1, <4>2, <4>3
    <3>3. g = h
      BY <3>2
    <3>4. Stages(g, m + 1)
      BY <3>3
    <3> HIDE DEF g, Stages
    <3> QED BY <3>4
  <2>3. Nat \subseteq T
    <3> HIDE DEF T
    <3> QED BY <2>1, <2>2, SetInduction
  <2> QED BY <1>4, <2>3
<1>6. Stages(after, n)
  <2> HIDE DEF Stages
  <2> QED BY <1>5
<1> HIDE DEF after
<1>7. /\ after[0] = S
      /\ \A i \in 1..n : after[i] = RunAny(after[i - 1], seq[i])
  BY <1>4, <1>6
<1>8. AbsorberRun(after, seq, n, S)
  BY <1>4, <1>7 DEF AbsorberRun
<1> QED BY <1>1, <1>2, <1>8, Zenon DEF D

\* So does a phase.
LEMMA AbsorberPhaseHeld ==
  ASSUME WellFormed(This), Built(sim, This), NEW S, Held(S), NEW family, family \in {"E", "H"}
  PROVE  Held(AbsorberPhase(S, family))
<1>1. PICK after, seq, n : /\ AbsorberRun(after, seq, n, S) /\ Listed(seq, AbsorbersOf(family))
                           /\ AbsorberPhase(S, family) = after[n]
  BY AbsorberPhaseRuns
<1>7. /\ n \in Nat /\ DOMAIN seq = 1..n /\ after[0] = S
      /\ \A i \in 1..n : after[i] = RunAny(after[i - 1], seq[i])
  BY <1>1 DEF AbsorberRun
<1>8. \A i \in 1..n : seq[i] \in sim.dense \cup sim.sparse
  BY <1>1, <1>7 DEF Listed, Lists, AbsorbersOf
<1> DEFINE U == {i \in Nat : i <= n => Held(after[i])}
<1>9. 0 \in U
  BY <1>7
<1>10. ASSUME NEW i \in Nat, i \in U PROVE i + 1 \in U
  <2> SUFFICES ASSUME i + 1 <= n PROVE Held(after[i + 1])
    OBVIOUS
  <2>1. Held(after[i])
    BY <1>7, <1>10
  <2>2. i + 1 \in 1..n /\ (i + 1) - 1 = i
    BY <1>7
  <2>3. after[i + 1] = RunAny(after[i], seq[i + 1])
    BY <1>7, <2>2
  <2> QED BY <1>8, <2>1, <2>2, <2>3, RunAnyHeld
<1>11. Nat \subseteq U
  <2> HIDE DEF U
  <2> QED BY <1>9, <1>10, SetInduction
<1>12. Held(after[n])
  BY <1>7, <1>11
<1> QED BY <1>1, <1>12

-----------------------------------------------------------------------------
(* The executions take every dispersive bucket, alone or with the next one. *)
Joining(f, plan, k, seq, j) ==
  /\ Grouping(k) /\ j > 1
  /\ ~f[j - 1]
  /\ MatchingPair(plan, k.scope, seq[j - 1], seq[j])

\* The recursion Joins unfolds to.
LEMMA JoinsAre ==
  ASSUME NEW plan, NEW k, NEW seq, NEW n \in Nat, DOMAIN seq = 1..n
  PROVE  \A j \in 1..n : Joins(plan, k, seq)[j] = Joining(Joins(plan, k, seq), plan, k, seq, j)
<1> DEFINE J(f, j) == Joining(f, plan, k, seq, j)
           Solves(f, m) == f = [j \in 1..m |-> J(f, j)]
           joins == CHOOSE f : Solves(f, n)
<1>1. Joins(plan, k, seq) = joins
  <2>1. Joins(plan, k, seq) = CHOOSE f : f = [j \in DOMAIN seq |-> J(f, j)]
    BY Zenon DEF Joins, Joining
  <2>2. \A f : (f = [j \in DOMAIN seq |-> J(f, j)]) <=> Solves(f, n)
    OBVIOUS
  <2> HIDE DEF J
  <2> QED BY <2>1, Zenon
<1>2. ASSUME NEW f, NEW g, NEW j \in Nat, j > 1 => f[j - 1] = g[j - 1]
      PROVE  J(f, j) = J(g, j)
  <2>1. CASE j > 1
    <3>1. f[j - 1] = g[j - 1]
      BY <1>2, <2>1
    <3> DEFINE x == f[j - 1]
               y == g[j - 1]
               R(z) == Grouping(k) /\ j > 1 /\ ~z /\ MatchingPair(plan, k.scope, seq[j - 1], seq[j])
    <3>2. J(f, j) = R(x) /\ J(g, j) = R(y)
      BY DEF Joining
    <3> HIDE DEF R, J
    <3> QED BY <3>1, <3>2
  <2>2. CASE ~(j > 1)
    BY <2>2 DEF Joining
  <2> QED BY <2>1, <2>2
<1> HIDE DEF J
<1>3. \E f : Solves(f, n)
  <2> DEFINE T == {m \in Nat : \E f : Solves(f, m)}
  <2>1. 0 \in T
    <3> DEFINE f == [j \in 1..0 |-> FALSE]
    <3>1. Solves(f, 0)
      OBVIOUS
    <3> HIDE DEF Solves, f
    <3> QED BY <3>1
  <2>2. ASSUME NEW m \in Nat, m \in T PROVE m + 1 \in T
    <3>1. PICK f : Solves(f, m)
      BY <2>2
    <3> DEFINE last == J(f, m + 1)
               g == [j \in 1..(m + 1) |-> IF j = m + 1 THEN last ELSE f[j]]
    <3>2. ASSUME NEW i \in 1..(m + 1) PROVE g[i] = J(g, i)
      <4>1. i > 1 => f[i - 1] = g[i - 1]
        OBVIOUS
      <4>2. J(f, i) = J(g, i)
        <5> HIDE DEF g
        <5> QED BY <1>2, <4>1
      <4>3. CASE i = m + 1
        BY <4>2, <4>3
      <4>4. CASE i # m + 1
        BY <3>1, <4>2, <4>4
      <4> QED BY <4>3, <4>4
    <3>3. g = [j \in 1..(m + 1) |-> J(g, j)]
      <4>1. g = [j \in 1..(m + 1) |-> g[j]]
        OBVIOUS
      <4> HIDE DEF g
      <4> QED BY <3>2, <4>1
    <3>4. Solves(g, m + 1)
      BY <3>3
    <3> HIDE DEF g, Solves
    <3> QED BY <3>4
  <2>3. Nat \subseteq T
    <3> HIDE DEF T
    <3> QED BY <2>1, <2>2, SetInduction
  <2> QED BY <2>3
<1>4. Solves(joins, n)
  <2> HIDE DEF Solves
  <2> QED BY <1>3
<1> HIDE DEF joins
<1>5. \A j \in 1..n : joins[j] = J(joins, j)
  BY <1>4
<1> QED BY <1>1, <1>5 DEF J

\* A listing names each element once.
LEMMA ListedOnce ==
  ASSUME NEW S, NEW q, Listed(q, S), NEW j \in DOMAIN q, NEW k \in DOMAIN q, q[j] = q[k]
  PROVE  j = k
<1> DEFINE n == Cardinality(S)
           f == [i \in 1..n |-> q[i]]
<1>1. n \in Nat /\ DOMAIN q = 1..n
  BY DEF Listed
<1>2. \A e \in S : \E i \in 1..n : f[i] = e
  BY <1>1 DEF Listed, Lists
<1>3. f \in [1..n -> S]
  BY <1>1 DEF Listed, Lists
<1>4. f \in Surjection(1..n, S)
  BY <1>2, <1>3 DEF Surjection
<1>5. IsFiniteSet(1..n) /\ Cardinality(1..n) = n
  BY <1>1, FS_Interval
<1>6. f[j] = f[k] /\ j \in 1..n /\ k \in 1..n
  BY <1>1
<1> HIDE DEF f
<1>7. f \in Injection(1..n, S)
  BY <1>4, <1>5, FS_SurjSameCardinalityImpliesInj DEF n
<1> QED BY <1>6, <1>7 DEF Injection, IsInjective

\* An execution is one bucket or two of one component, and every bucket is in one.
LEMMA EntriesAre ==
  ASSUME NEW plan, NEW k, NEW D, Listed(Descriptors(plan), D)
  PROVE  LET E == Entries(plan, k)
         IN  /\ \E n \in Nat : DOMAIN E = 1..n
             /\ \A i \in DOMAIN E :
                  \/ \E d \in D : E[i] = << d >>
                  \/ \E d, e \in D : E[i] = << d, e >> /\ d[1] = e[1] /\ d # e
             /\ \A d \in D : \E i \in DOMAIN E : d \in Range(E[i])
             /\ \A i, j \in DOMAIN E : Range(E[i]) \cap Range(E[j]) # {} => i = j
<1> DEFINE seq == Descriptors(plan)
           joins == Joins(plan, k, seq)
           H == {j \in DOMAIN seq : ~joins[j]}
           heads == Ordered(H, Before)
           pair(j) == j + 1 \in DOMAIN seq /\ joins[j + 1]
           entry(i) == IF pair(heads[i]) THEN << seq[heads[i]], seq[heads[i] + 1] >>
                                         ELSE << seq[heads[i]] >>
           E == Entries(plan, k)
<1>1. E = [i \in DOMAIN heads |-> entry(i)]
  BY Zenon DEF Entries
<1> HIDE DEF seq
<1>2. Listed(seq, D)
  BY DEF seq
<1>3. PICK n \in Nat : DOMAIN seq = 1..n
  BY <1>2 DEF Listed
<1>4. \A j \in 1..n : joins[j] = Joining(joins, plan, k, seq, j)
  BY <1>3, JoinsAre
<1> HIDE DEF joins, E
<1>5. ASSUME NEW j \in 1..n, joins[j]
      PROVE  /\ j - 1 \in 1..n /\ ~joins[j - 1]
             /\ seq[j - 1][1] = seq[j][1] /\ seq[j - 1] # seq[j]
  <2>1. Joining(joins, plan, k, seq, j)
    BY <1>4, <1>5
  <2>2. j > 1 /\ ~joins[j - 1] /\ MatchingPair(plan, k.scope, seq[j - 1], seq[j])
    BY <2>1 DEF Joining
  <2>3. seq[j - 1][1] = seq[j][1] /\ seq[j - 1] # seq[j]
    BY <2>2 DEF MatchingPair
  <2> QED BY <2>2, <2>3
<1>6. Listed(heads, H)
  <2>1. IsFiniteSet(H) /\ H \subseteq Int
    <3>1. IsFiniteSet(1..n) /\ 1..n \subseteq Int
      BY FS_Interval
    <3> QED BY <1>3, <3>1, FS_Subset
  <2> HIDE DEF H
  <2> QED BY <2>1, OrderedIntegers
<1>7. \A j \in 1..n : seq[j] \in D
  BY <1>2, <1>3 DEF Listed, Lists
<1>8. \A j : j \in H <=> j \in 1..n /\ ~joins[j]
  BY <1>3
<1> HIDE DEF H, heads
<1>9. DOMAIN E = DOMAIN heads /\ \A i \in DOMAIN E : E[i] = entry(i)
  BY <1>1
<1>10. \E m \in Nat : DOMAIN E = 1..m
  BY <1>6, <1>9 DEF Listed
<1>11. ASSUME NEW i \in DOMAIN E
       PROVE  \/ \E d \in D : E[i] = << d >>
              \/ \E d, e \in D : E[i] = << d, e >> /\ d[1] = e[1] /\ d # e
  <2>1. heads[i] \in 1..n
    BY <1>6, <1>8, <1>9 DEF Listed, Lists
  <2>2. CASE pair(heads[i])
    <3>1. heads[i] + 1 \in 1..n /\ joins[heads[i] + 1] /\ (heads[i] + 1) - 1 = heads[i]
      BY <1>3, <2>1, <2>2
    <3>2. seq[heads[i]][1] = seq[heads[i] + 1][1] /\ seq[heads[i]] # seq[heads[i] + 1]
      BY <1>5, <3>1
    <3>3. E[i] = << seq[heads[i]], seq[heads[i] + 1] >>
      BY <1>9, <2>2
    <3> QED BY <1>7, <2>1, <3>1, <3>2, <3>3
  <2>3. CASE ~pair(heads[i])
    <3>1. E[i] = << seq[heads[i]] >>
      BY <1>9, <2>3
    <3> QED BY <1>7, <2>1, <3>1
  <2> QED BY <2>2, <2>3
<1>12. ASSUME NEW d \in D PROVE \E i \in DOMAIN E : d \in Range(E[i])
  <2>1. PICK j \in 1..n : seq[j] = d
    BY <1>2, <1>3 DEF Listed, Lists
  <2>2. CASE ~joins[j]
    <3>1. PICK i \in DOMAIN E : heads[i] = j
      BY <1>6, <1>8, <1>9, <2>2 DEF Listed, Lists
    <3>2. \/ E[i] = << d, seq[j + 1] >>
          \/ E[i] = << d >>
      BY <1>9, <2>1, <3>1
    <3>3. d \in Range(E[i])
      BY <3>2 DEF Range
    <3> QED BY <3>3
  <2>3. CASE joins[j]
    <3>1. j - 1 \in 1..n /\ ~joins[j - 1]
      BY <1>5, <2>3
    <3>2. PICK i \in DOMAIN E : heads[i] = j - 1
      BY <1>6, <1>8, <1>9, <3>1 DEF Listed, Lists
    <3>3. heads[i] + 1 = j
      BY <3>2
    <3>4. pair(heads[i])
      BY <1>3, <2>3, <3>3
    <3>5. E[i] = << seq[j - 1], d >>
      BY <1>9, <2>1, <3>2, <3>3, <3>4
    <3>6. d \in Range(E[i])
      BY <3>5 DEF Range
    <3> QED BY <3>6
  <2> QED BY <2>2, <2>3
<1>13. ASSUME NEW i \in DOMAIN E, NEW x \in Range(E[i])
       PROVE  \E j \in 1..n : /\ seq[j] = x
                             /\ heads[i] = IF joins[j] THEN j - 1 ELSE j
  <2>1. heads[i] \in 1..n /\ ~joins[heads[i]]
    BY <1>6, <1>8, <1>9 DEF Listed, Lists
  <2>2. CASE pair(heads[i])
    <3>1. E[i] = << seq[heads[i]], seq[heads[i] + 1] >>
      BY <1>9, <2>2
    <3>2. x = seq[heads[i]] \/ x = seq[heads[i] + 1]
      BY <3>1 DEF Range
    <3>3. heads[i] + 1 \in 1..n /\ joins[heads[i] + 1] /\ (heads[i] + 1) - 1 = heads[i]
      BY <1>3, <2>1, <2>2
    <3> QED BY <2>1, <3>2, <3>3
  <2>3. CASE ~pair(heads[i])
    <3>1. E[i] = << seq[heads[i]] >>
      BY <1>9, <2>3
    <3>2. x = seq[heads[i]]
      BY <3>1 DEF Range
    <3> QED BY <2>1, <3>2
  <2> QED BY <2>2, <2>3
<1>14. ASSUME NEW i \in DOMAIN E, NEW j \in DOMAIN E, Range(E[i]) \cap Range(E[j]) # {}
       PROVE  i = j
  <2>1. PICK x : x \in Range(E[i]) /\ x \in Range(E[j])
    BY <1>14
  <2>2. PICK p \in 1..n : seq[p] = x /\ heads[i] = IF joins[p] THEN p - 1 ELSE p
    BY <1>13, <2>1
  <2>3. PICK q \in 1..n : seq[q] = x /\ heads[j] = IF joins[q] THEN q - 1 ELSE q
    BY <1>13, <2>1
  <2>4. p = q
    BY <1>2, <1>3, <2>2, <2>3, ListedOnce
  <2>5. heads[i] = heads[j]
    BY <2>2, <2>3, <2>4
  <2> QED BY <1>6, <1>9, <2>5, ListedOnce
<1> QED BY <1>10, <1>11, <1>12, <1>14 DEF E

-----------------------------------------------------------------------------
(* A layout names no more cells than the bucket has. *)
\* A slot of the tiles is a tile and an offset in it.
LEMMA SlotIs ==
  ASSUME NEW tile \in Nat \ {0}, NEW L \in Nat, NEW p \in 1..(L * tile)
  PROVE  LET t == (p - 1) \div tile + 1
             o == (p - 1) % tile
         IN  t \in 1..L /\ o \in 0..(tile - 1) /\ p = tile * (t - 1) + o + 1
<1> DEFINE x == p - 1
           d == x \div tile
           r == x % tile
<1>1. x \in Nat /\ x < L * tile
  BY SMTT(30)
<1>2. d \in Int /\ r \in 0..(tile - 1) /\ x = tile * d + r
  BY <1>1, Division
<1> HIDE DEF d, r, x
<1>3. d < L
  <2> SUFFICES ASSUME d >= L PROVE FALSE
    BY <1>2
  <2>1. tile * d >= tile * L
    BY <1>2, Grows
  <2>2. tile * L = L * tile
    OBVIOUS
  <2>3. tile * d \in Int /\ L * tile \in Int
    BY <1>2
  <2> QED BY <1>1, <1>2, <2>1, <2>2, <2>3
<1>4. d >= 0
  <2> SUFFICES ASSUME d + 1 <= 0 PROVE FALSE
    BY <1>2
  <2>1. tile * (d + 1) <= tile * 0
    BY <1>2, Grows
  <2>2. tile * (d + 1) = tile * d + tile /\ tile * 0 = 0 /\ tile * d \in Int
    BY <1>2
  <2> QED BY <1>1, <1>2, <2>1, <2>2
<1>5. d + 1 \in 1..L /\ p = tile * ((d + 1) - 1) + r + 1
  BY <1>1, <1>2, <1>3, <1>4 DEF x
<1> QED BY <1>2, <1>5 DEF d, r, x

\* The tiled layout writes no more cells than it owns.
LEMMA TiledFew ==
  ASSUME NEW tile \in Nat \ {0}, NEW L \in Nat, NEW b, Len(b.origins) = L, NEW q,
         \A t \in 1..L : q[t] \in Int /\ b.origins[t] = q[t] * tile,
         \A t, u \in 1..L : q[t] = q[u] => t = u,
         NEW S, IsFiniteSet(S),
         \A t \in 1..L : \A o \in 0..(tile - 1) :
           b.tileRegions[t][o] > 0 => q[t] * tile + o \in S
  PROVE  \E m \in Nat : DOMAIN TiledTargets(b, tile) = 1..m /\ m <= Cardinality(S)
<1> DEFINE t(p) == (p - 1) \div tile + 1
           o(p) == (p - 1) % tile
           slots == [p \in 1..(Len(b.origins) * tile) |->
                       <<b.origins[t(p)] + o(p), b.tileRegions[t(p)][o(p)]>>]
           T == {p \in DOMAIN slots : slots[p][2] > 0}
           owned == Ordered(T, Before)
           n == L * tile
<1>1. TiledTargets(b, tile) = [p \in DOMAIN owned |-> slots[owned[p]][1]]
  BY Zenon DEF TiledTargets
<1>2. n \in Nat /\ DOMAIN slots = 1..n
  OBVIOUS
<1>3. \A p \in 1..n : t(p) \in 1..L /\ o(p) \in 0..(tile - 1) /\ p = tile * (t(p) - 1) + o(p) + 1
  BY SlotIs
<1>4. \A p \in 1..n : slots[p] = <<b.origins[t(p)] + o(p), b.tileRegions[t(p)][o(p)]>>
  OBVIOUS
<1> HIDE DEF slots, t, o
<1> DEFINE f == [p \in T |-> slots[p][1]]
<1>5. ASSUME NEW p \in T
      PROVE  /\ p \in 1..n /\ slots[p][1] = tile * q[t(p)] + o(p) /\ slots[p][1] \in S
  <2>1. p \in 1..n
    BY <1>2
  <2>2. t(p) \in 1..L /\ o(p) \in 0..(tile - 1)
    BY <1>3, <2>1
  <2>3. slots[p][1] = q[t(p)] * tile + o(p) /\ b.tileRegions[t(p)][o(p)] > 0
    BY <1>4, <2>1, <2>2
  <2>4. q[t(p)] * tile = tile * q[t(p)]
    BY <2>2
  <2> QED BY <2>1, <2>2, <2>3, <2>4
<1>6. ASSUME NEW p \in T, NEW r \in T, slots[p][1] = slots[r][1] PROVE p = r
  <2>1. /\ p \in 1..n /\ r \in 1..n
        /\ tile * q[t(p)] + o(p) = tile * q[t(r)] + o(r)
    BY <1>5, <1>6
  <2>2. /\ t(p) \in 1..L /\ o(p) \in 0..(tile - 1) /\ p = tile * (t(p) - 1) + o(p) + 1
        /\ t(r) \in 1..L /\ o(r) \in 0..(tile - 1) /\ r = tile * (t(r) - 1) + o(r) + 1
    BY <1>3, <2>1
  <2>3. q[t(p)] \in Int /\ q[t(r)] \in Int
    BY <2>2
  <2>4. q[t(p)] = q[t(r)] /\ o(p) = o(r)
    <3> DEFINE x == tile * q[t(p)] + o(p)
    <3>1. x \div tile = q[t(p)] /\ x % tile = o(p)
      BY <2>2, <2>3, Quotient
    <3>2. x = tile * q[t(r)] + o(r)
      BY <2>1
    <3> HIDE DEF x
    <3>3. x \div tile = q[t(r)] /\ x % tile = o(r)
      BY <2>2, <2>3, <3>2, Quotient
    <3> QED BY <3>1, <3>3
  <2>5. t(p) = t(r)
    BY <2>2, <2>4
  <2> QED BY <2>2, <2>4, <2>5
<1>7. f \in Injection(T, S)
  BY <1>5, <1>6 DEF Injection, IsInjective
<1> HIDE DEF f, T
<1>8. IsFiniteSet(T) /\ Cardinality(T) <= Cardinality(S)
  BY <1>7, FS_Injection
<1>9. T \subseteq Int
  BY <1>5
<1>10. DOMAIN owned = 1..Cardinality(T) /\ Cardinality(T) \in Nat
  BY <1>8, <1>9, OrderedIntegers DEF Listed
<1> HIDE DEF owned
<1>11. DOMAIN TiledTargets(b, tile) = 1..Cardinality(T)
  BY <1>1, <1>10
<1> QED BY <1>8, <1>10, <1>11

Slotted(b, tile, S) ==
  \E L \in Nat : \E q :
    /\ Len(b.origins) = L
    /\ \A t \in 1..L : q[t] \in Int /\ b.origins[t] = q[t] * tile
    /\ \A t, u \in 1..L : q[t] = q[u] => t = u
    /\ \A t \in 1..L : \A o \in 0..(tile - 1) :
         b.tileRegions[t][o] > 0 => q[t] * tile + o \in S

\* The tiles of a bucket are those of its cells, and a slot outside them is not owned.
LEMMA BucketTiles ==
  ASSUME NEW s, NEW options, NEW g, NEW c, NEW sig, options.tile \in Nat \ {0},
         NEW active, IsFiniteSet(active), active \subseteq Int,
         NEW S, S = {i \in active : ModelAt(s, g, c, i) = sig}
  PROVE  Slotted(Bucket(s, options, g, c, sig, active), options.tile, S)
<1> DEFINE tile == options.tile
           targets == Ordered(S, Before)
           q == Regions(s, g, c, targets)
           n == Cardinality(active)
           places == {targets[k] \div tile : k \in DOMAIN targets}
           tiles == Ordered(places, Before)
           b == Bucket(s, options, g, c, sig, active)
           region(i) == IF i \in Range(targets) THEN q.regions[Position(targets, i)] ELSE 0
<1>0. q.targets = targets
  BY DEF Regions
<1> HIDE DEF q, n
<1>1. PICK tiled : /\ tiled = {} \/ tiled = DOMAIN tiles
                   /\ b.origins = [t \in tiled |-> tiles[t] * tile]
                   /\ b.tileRegions = [t \in tiled |-> [o \in 0..(tile - 1) |->
                                                          region(tiles[t] * tile + o)]]
  <2> DEFINE Q == BucketPlan(s, options, g, c, sig, n, q)
             policy == SelectPolicy(options, sig, Len(targets), n, Len(tiles) * tile)
             tiled == IF policy = "tiled" THEN DOMAIN tiles ELSE {}
  <2>1. b = Q
    BY DEF Bucket, q, n
  <2>2. Q.origins = [t \in tiled |-> tiles[t] * tile]
    BY <1>0, Zenon DEF BucketPlan
  <2>3. Q.tileRegions = [t \in tiled |-> [o \in 0..(tile - 1) |-> region(tiles[t] * tile + o)]]
    BY <1>0, Zenon DEF BucketPlan
  <2>4. tiled = {} \/ tiled = DOMAIN tiles
    OBVIOUS
  <2> HIDE DEF Q, tiled, b, targets, tiles
  <2> QED BY <2>1, <2>2, <2>3, <2>4
<1>2. IsFiniteSet(S) /\ S \subseteq Int
  BY FS_Subset
<1>3. Listed(targets, S)
  BY <1>2, OrderedIntegers
<1> HIDE DEF targets, b
<1>4. \A k \in DOMAIN targets : targets[k] \in S
  BY <1>3 DEF Listed, Lists
<1>5. IsFiniteSet(places) /\ places \subseteq Int
  <2>1. places \subseteq Int
    BY <1>2, <1>4, Division
  <2> DEFINE f == [k \in DOMAIN targets |-> targets[k] \div tile]
  <2>2. f \in Surjection(DOMAIN targets, places)
    BY DEF Surjection
  <2> HIDE DEF f, places
  <2>3. IsFiniteSet(DOMAIN targets)
    BY <1>3, FS_Interval DEF Listed
  <2> QED BY <2>1, <2>2, <2>3, FS_Surjection
<1> HIDE DEF places
<1>6. Listed(tiles, places)
  BY <1>5, OrderedIntegers
<1>7. \A t \in DOMAIN tiles : tiles[t] \in Int
  BY <1>5, <1>6 DEF Listed, Lists
<1>8. \A t, u \in DOMAIN tiles : tiles[t] = tiles[u] => t = u
  BY <1>6, ListedOnce
<1>9. \A i : region(i) > 0 => i \in S
  <2>1. \A i : i \in Range(targets) => i \in S
    BY <1>4 DEF Range
  <2> QED BY <2>1
<1> HIDE DEF tiles, region
<1>10. CASE tiled = {}
  <2>1. b.origins = << >>
    BY <1>1, <1>10
  <2>2. Len(b.origins) = 0
    BY <2>1
  <2> HIDE DEF tile
  <2>3. Slotted(b, tile, S)
    BY <2>2 DEF Slotted
  <2> QED BY <2>3 DEF tile, b
<1>11. CASE tiled = DOMAIN tiles
  <2>1. PICK L \in Nat : DOMAIN tiles = 1..L
    BY <1>6 DEF Listed
  <2>2. b.origins = [t \in 1..L |-> tiles[t] * tile]
    BY <1>1, <1>11, <2>1
  <2>3. Len(b.origins) = L
    BY <2>2
  <2>4. \A t \in 1..L : tiles[t] \in Int /\ b.origins[t] = tiles[t] * tile
    BY <1>7, <2>1, <2>2
  <2>5. \A t, u \in 1..L : tiles[t] = tiles[u] => t = u
    BY <1>8, <2>1
  <2>6. \A t \in 1..L : \A o \in 0..(tile - 1) :
          b.tileRegions[t][o] > 0 => tiles[t] * tile + o \in S
    BY <1>1, <1>9, <1>11, <2>1
  <2> HIDE DEF tile
  <2>7. Slotted(b, tile, S)
    BY <2>3, <2>4, <2>5, <2>6 DEF Slotted
  <2> QED BY <2>7 DEF tile, b
<1> QED BY <1>1, <1>10, <1>11

\* No layout of a bucket names more cells than the bucket has.
LEMMA WriteFew ==
  ASSUME NEW s, NEW options, NEW g, NEW c, NEW sig, options.tile \in Nat \ {0},
         NEW active, IsFiniteSet(active), active \subseteq Int
  PROVE  LET b == Bucket(s, options, g, c, sig, active)
         IN  \E m \in Nat : /\ DOMAIN WriteTargets(b, options.tile) = 1..m
                            /\ 1..m \subseteq DOMAIN b.targets
<1> DEFINE S == {i \in active : ModelAt(s, g, c, i) = sig}
           b == Bucket(s, options, g, c, sig, active)
<1>1. /\ b.targets = Ordered(S, Before) /\ b.signature = sig
      /\ b.residual = IF SparseBucket(s, options, c, b)
                      THEN [axis \in 1..2 |-> Residual(b.targets, b.cells, axis)] ELSE <<>>
  BY BucketResidual
<1>2. IsFiniteSet(S) /\ S \subseteq Int
  BY FS_Subset
<1>3. Slotted(b, options.tile, S)
  BY BucketTiles
<1> HIDE DEF b, S
<1>4. Listed(b.targets, S)
  BY <1>1, <1>2, OrderedIntegers
<1>5. CASE b.policy = "dense"
  <2>1. Range(b.targets) = S
    BY <1>4 DEF Listed, Lists, Range
  <2>2. WriteTargets(b, options.tile) = b.targets
    BY <1>1, <1>5, <2>1 DEF WriteTargets
  <2> QED BY <1>4, <2>2 DEF Listed, b
<1>6. CASE b.policy = "compact"
  <2>1. WriteTargets(b, options.tile) = b.targets
    BY <1>6 DEF WriteTargets
  <2> QED BY <1>4, <2>1 DEF Listed, b
<1>7. CASE b.policy # "dense" /\ b.policy # "compact"
  <2>1. WriteTargets(b, options.tile) = TiledTargets(b, options.tile)
    BY <1>7 DEF WriteTargets
  <2>2. \E m \in Nat : DOMAIN TiledTargets(b, options.tile) = 1..m /\ m <= Cardinality(S)
    BY <1>2, <1>3, TiledFew DEF Slotted
  <2>3. DOMAIN b.targets = 1..Cardinality(S) /\ Cardinality(S) \in Nat
    BY <1>4 DEF Listed
  <2>4. \E m \in Nat : DOMAIN WriteTargets(b, options.tile) = 1..m /\ 1..m \subseteq DOMAIN b.targets
    BY <2>1, <2>2, <2>3
  <2> QED BY <2>4 DEF b
<1> QED BY <1>5, <1>6, <1>7

-----------------------------------------------------------------------------
(* The executions of a simulation and their rows. *)
Writes(b, tile) ==
  \E m \in Nat : DOMAIN WriteTargets(b, tile) = 1..m /\ 1..m \subseteq DOMAIN b.targets

\* So for every bucket of a built simulation.
LEMMA BuiltWrites ==
  ASSUME NEW s, WellFormed(s), NEW of, Built(of, s), NEW d \in Buckets(of.plan)
  PROVE  Writes(BucketOf(of.plan, d), of.options.tile)
<1> DEFINE g == Serial(s.n)
           c == d[1]
           o == d[2]
           sigs == Signatures(s, g, c)
           active == ActiveTargets(g, c)
           P1 == Plan(s, of.options, g)
           b == Bucket(s, of.options, g, c, sigs[o], active)
<1>1. c \in Component /\ o \in DOMAIN of.plan[c].buckets
  BY BuiltFurnished
<1>2. of.plan = P1 /\ of.options.tile \in Nat \ {0}
  <2>1. of.plan = P1 /\ of.options \in Range(Configs)
    BY BuiltFields
  <2> QED BY <2>1, ConfigAssumption DEF Range
<1>3. P1[c].buckets = [p \in DOMAIN sigs |-> Bucket(s, of.options, g, c, sigs[p], active)]
  BY <1>1, PlanIs
<1>4. IsFiniteSet(active) /\ active \subseteq Int
  BY <1>1, SerialViewed, ActiveFinite
<1> HIDE DEF g, sigs, active, P1, c, o
<1>5. BucketOf(of.plan, d) = b
  <2>1. o \in DOMAIN P1[c].buckets
    BY <1>1, <1>2
  <2>2. P1[c].buckets[o] = b
    BY <1>3, <2>1
  <2> QED BY <1>2, <2>2 DEF BucketOf, c, o
<1>6. Writes(b, of.options.tile)
  BY <1>2, <1>4, WriteFew DEF Writes
<1> QED BY <1>5, <1>6

\* The rows of an execution: those of its buckets, all of one component.
EntryTargets(of, entry) ==
  IF Len(entry) = 1 THEN BucketOf(of.plan, entry[1]).targets
  ELSE BucketOf(of.plan, entry[1]).targets \o BucketOf(of.plan, entry[2]).targets

Arena(of, entry) ==
  LET rows == of.arena[entry]
      targets(d) == BucketOf(of.plan, d).targets
  IN  /\ entry[1][1] \in Component
      /\ \E n \in Nat : DOMAIN rows = 1..n
      /\ \A j \in DOMAIN rows :
           /\ rows[j] = << rows[j][1], rows[j][2] >>
           /\ rows[j][1] \in DOMAIN of.place \cap Range(entry)
           /\ rows[j][1][1] = entry[1][1]
           /\ rows[j][2] \in DOMAIN targets(rows[j][1])
      /\ \A d \in Range(entry) : \A k \in DOMAIN targets(d) :
           \E j \in DOMAIN rows : rows[j] = <<d, k>>
      /\ \A i, j \in DOMAIN rows : rows[i] = rows[j] => i = j
      /\ DOMAIN EntryTargets(of, entry) = DOMAIN rows
      /\ \A j \in DOMAIN rows :
           EntryTargets(of, entry)[j] = targets(rows[j][1])[rows[j][2]]
      /\ \/ Len(entry) = 1 /\ entry[1] \in Buckets(of.plan)
            /\ DOMAIN rows = DOMAIN targets(entry[1])
         \/ Len(entry) = 2 /\ DOMAIN rows = DOMAIN (targets(entry[1]) \o targets(entry[2]))
            /\ \E n \in Nat : DOMAIN rows = 1..n

\* The descriptors of a simulation are its dispersive buckets, all electric.
LEMMA BuiltDispersive ==
  ASSUME NEW s, WellFormed(s), NEW of, Built(of, s)
  PROVE  /\ Listed(Descriptors(of.plan), DOMAIN of.place)
         /\ \A d \in DOMAIN of.place :
              /\ d \in Buckets(of.plan) /\ d[1] \in Component /\ d[1][1] = "E"
              /\ \E n \in Nat : DOMAIN BucketOf(of.plan, d).targets = 1..n
              /\ \E n : BucketOf(of.plan, d).targets \in [1..n -> Int]
<1> DEFINE P1 == of.plan
           D == {d \in Buckets(P1) : ModelOf(P1, d) \in DispersiveModels}
<1>1. DOMAIN of.place = D
  <2>1. DispersiveModels \subseteq Stateful
    BY DEF Stateful
  <2>2. /\ DOMAIN of.place = {d \in of.stateful : ModelOf(P1, d) \in DispersiveModels}
        /\ of.stateful = {d \in Buckets(P1) : ModelOf(P1, d) \in Stateful}
    BY BuiltFields
  <2> QED BY <2>1, <2>2
<1>2. ASSUME NEW d \in D
      PROVE  /\ d \in Buckets(P1) /\ d[1] \in Component /\ d[1][1] = "E"
             /\ \E n \in Nat : DOMAIN BucketOf(P1, d).targets = 1..n
             /\ \E n : BucketOf(P1, d).targets \in [1..n -> Int]
  <2> DEFINE b == BucketOf(P1, d)
  <2>1. d \in Buckets(P1) /\ b.signature[1] \in DispersiveModels
    BY DEF ModelOf
  <2>2. d[1] \in Component /\ Furnished(b, s, of.options, d[1])
    BY <2>1, BuiltFurnished
  <2> HIDE DEF b, D
  <2>3. PICK m : Typed(m) /\ b.signature = ModelAndState(m, d[1])
    BY <2>2 DEF Furnished
  <2>4. d[1][1] # "H"
    <3> SUFFICES ASSUME d[1][1] = "H" PROVE FALSE
      OBVIOUS
    <3>1. ModelAndState(m, d[1])[1] \in {"const", "dummy", "dielectric", "upml", "cpml"}
      BY DEF ModelAndState
    <3> QED BY <2>1, <2>3, <3>1 DEF DispersiveModels
  <2>5. d[1][1] \in {"E", "H"}
    BY <2>2 DEF Component
  <2>6. \E n \in Nat : DOMAIN b.targets = 1..n
    BY <2>2 DEF Furnished
  <2>7. \E n : b.targets \in [1..n -> Int]
    <3>1. ActiveTargets(Serial(s.n), d[1]) \subseteq Int
      BY <2>2, SerialViewed, ActiveFinite
    <3> QED BY <2>2, <3>1 DEF Furnished
  <2> QED BY <2>1, <2>2, <2>4, <2>5, <2>6, <2>7 DEF b
<1>3. Descriptors(P1) = InOrder(D)
  BY Zenon DEF Descriptors
<1> HIDE DEF D
<1>4. D \subseteq {d \in Buckets(P1) : d[1][1] = "E"}
  BY <1>2
<1>5. Listed(InOrder(D), D)
  BY <1>4, FamilyFinite DEF P1
<1> QED BY <1>1, <1>2, <1>3, <1>5

\* Every execution has an arena, and every dispersive bucket an execution.
LEMMA BuiltEntries ==
  ASSUME NEW s, WellFormed(s), NEW of, Built(of, s)
  PROVE  /\ \E n \in Nat : DOMAIN of.entries = 1..n
         /\ DOMAIN of.arena = Range(of.entries)
         /\ \A i \in DOMAIN of.entries : Arena(of, of.entries[i])
         /\ \A d \in DOMAIN of.place : \E i \in DOMAIN of.entries : d \in Range(of.entries[i])
         /\ \A i, j \in DOMAIN of.entries :
              Range(of.entries[i]) \cap Range(of.entries[j]) # {} => i = j
<1> DEFINE D == DOMAIN of.place
           E == of.entries
           targets(d) == BucketOf(of.plan, d).targets
<1>1. E = Entries(of.plan, of.options)
  BY BuiltFields
<1>2. /\ \E n \in Nat : DOMAIN E = 1..n
      /\ \A i \in DOMAIN E :
           \/ \E d \in D : E[i] = << d >>
           \/ \E d, e \in D : E[i] = << d, e >> /\ d[1] = e[1] /\ d # e
      /\ \A d \in D : \E i \in DOMAIN E : d \in Range(E[i])
      /\ \A i, j \in DOMAIN E : Range(E[i]) \cap Range(E[j]) # {} => i = j
  <2>1. Listed(Descriptors(of.plan), D)
    BY BuiltDispersive
  <2> HIDE DEF D
  <2> QED BY <1>1, <2>1, EntriesAre
<1>3. of.arena = [entry \in Range(E) |-> ArenaRows(of.plan, entry)]
  BY BuiltFields
<1>4. \A d \in D : /\ d \in Buckets(of.plan) /\ d[1] \in Component
                   /\ \E n \in Nat : DOMAIN targets(d) = 1..n
                   /\ \E n : targets(d) \in [1..n -> Int]
  BY BuiltDispersive
<1>5. \A d : BucketRows(of.plan, d) = [k \in DOMAIN targets(d) |-> <<d, k>>]
  BY DEF BucketRows
<1> HIDE DEF E, D, targets
<1>6. ASSUME NEW i \in DOMAIN E PROVE Arena(of, E[i])
  <2> DEFINE entry == E[i]
             rows == of.arena[entry]
  <2>1. rows = ArenaRows(of.plan, entry)
    BY <1>3 DEF Range
  <2> HIDE DEF rows
  <2>2. CASE \E d \in D : entry = << d >>
    <3>1. PICK d \in D : entry = << d >>
      BY <2>2
    <3>2. Len(entry) = 1 /\ entry[1] = d /\ Range(entry) = {d}
      BY <3>1 DEF Range
    <3>3. rows = [k \in DOMAIN targets(d) |-> <<d, k>>]
      BY <1>5, <2>1, <3>2 DEF ArenaRows
    <3> HIDE DEF entry
    <3>4. /\ DOMAIN rows = DOMAIN targets(d)
          /\ \A k \in DOMAIN rows : rows[k] = <<d, k>> /\ rows[k][1] = d /\ rows[k][2] = k
      BY <3>3
    <3>5. \E n \in Nat : DOMAIN rows = 1..n
      BY <1>4, <3>4
    <3>7. EntryTargets(of, entry) = targets(d)
      BY <3>2 DEF EntryTargets, targets
    <3>6. Arena(of, entry)
      <4>1. \A j, k \in DOMAIN rows : rows[j] = rows[k] => j = k
        BY <3>4
      <4>2. \A j \in DOMAIN rows : /\ rows[j] = << rows[j][1], rows[j][2] >>
                                   /\ rows[j][1] \in D \cap Range(entry) /\ rows[j][1][1] = entry[1][1]
                                   /\ rows[j][2] \in DOMAIN targets(rows[j][1])
                                   /\ targets(d)[j] = targets(rows[j][1])[rows[j][2]]
        BY <3>2, <3>4
      <4>3. \A x \in Range(entry) : \A k \in DOMAIN targets(x) :
              \E j \in DOMAIN rows : rows[j] = <<x, k>>
        BY <3>2, <3>4
      <4>4. /\ Len(entry) = 1 /\ entry[1] \in Buckets(of.plan) /\ entry[1][1] \in Component
            /\ DOMAIN rows = DOMAIN targets(entry[1])
        BY <1>4, <3>2, <3>4
      <4> QED BY <3>4, <3>5, <3>7, <4>1, <4>2, <4>3, <4>4 DEF Arena, rows, D, targets
    <3> QED BY <3>6 DEF entry
  <2>3. CASE \E d, e \in D : entry = << d, e >> /\ d[1] = e[1] /\ d # e
    <3>1. PICK d \in D, e \in D : entry = << d, e >> /\ d[1] = e[1] /\ d # e
      BY <2>3
    <3>2. Len(entry) = 2 /\ entry[1] = d /\ entry[2] = e /\ Range(entry) = {d, e}
      BY <3>1 DEF Range
    <3>3. PICK m \in Nat : DOMAIN targets(d) = 1..m
      BY <1>4
    <3>4. PICK n \in Nat : DOMAIN targets(e) = 1..n
      BY <1>4
    <3> DEFINE q == [k \in 1..m |-> <<d, k>>]
               r == [k \in 1..n |-> <<e, k>>]
    <3>5. rows = q \o r
      <4>1. BucketRows(of.plan, d) = q /\ BucketRows(of.plan, e) = r
        BY <1>5, <3>3, <3>4
      <4> HIDE DEF q, r
      <4>2. ArenaRows(of.plan, entry) = BucketRows(of.plan, d) \o BucketRows(of.plan, e)
        BY <3>2 DEF ArenaRows
      <4> QED BY <2>1, <4>1, <4>2
    <3>6. /\ DOMAIN (q \o r) = 1..(m + n)
          /\ \A j \in 1..(m + n) : (q \o r)[j] = IF j <= m THEN q[j] ELSE r[j - m]
      <4>1. q \in Seq({d, e} \X Nat) /\ Len(q) = m
        OBVIOUS
      <4>2. r \in Seq({d, e} \X Nat) /\ Len(r) = n
        OBVIOUS
      <4> HIDE DEF q, r
      <4> DEFINE X == {d, e} \X Nat
      <4>3. q \in Seq(X) /\ r \in Seq(X)
        BY <4>1, <4>2
      <4> HIDE DEF X
      <4>4. /\ q \o r \in Seq(X) /\ Len(q \o r) = m + n
            /\ \A j \in 1..(m + n) : (q \o r)[j] = IF j <= m THEN q[j] ELSE r[j - m]
        BY <4>1, <4>2, <4>3, ConcatProperties
      <4>5. DOMAIN (q \o r) = 1..Len(q \o r)
        BY <4>4
      <4> QED BY <4>4, <4>5
    <3> DEFINE T == targets(d) \o targets(e)
    <3>7. /\ DOMAIN T = 1..(m + n)
          /\ \A j \in 1..(m + n) : T[j] = IF j <= m THEN targets(d)[j] ELSE targets(e)[j - m]
      <4>1. /\ targets(d) = [j \in 1..m |-> targets(d)[j]]
            /\ targets(e) = [j \in 1..n |-> targets(e)[j]]
        BY <1>4, <3>3, <3>4
      <4> QED BY <3>3, <3>4, <4>1
    <3>8. /\ DOMAIN rows = 1..(m + n)
          /\ \A j \in 1..(m + n) : IF j <= m THEN rows[j] = <<d, j>> ELSE rows[j] = <<e, j - m>>
      <4>1. \A j \in 1..m : q[j] = <<d, j>>
        OBVIOUS
      <4>2. \A j \in 1..n : r[j] = <<e, j>>
        OBVIOUS
      <4>3. \A j \in 1..(m + n) : j > m => j - m \in 1..n
        OBVIOUS
      <4>4. \A j \in 1..(m + n) : j <= m => j \in 1..m
        OBVIOUS
      <4> HIDE DEF q, r
      <4> QED BY <3>5, <3>6, <4>1, <4>2, <4>3, <4>4
    <3>9. ASSUME NEW j \in DOMAIN rows
          PROVE  /\ rows[j] = << rows[j][1], rows[j][2] >>
                 /\ rows[j][1] \in D \cap {d, e} /\ rows[j][1][1] = d[1]
                 /\ rows[j][2] \in DOMAIN targets(rows[j][1])
                 /\ T[j] = targets(rows[j][1])[rows[j][2]]
      <4>1. CASE j <= m
        <5>1. j \in 1..m /\ rows[j] = <<d, j>>
          BY <3>8, <4>1
        <5> QED BY <3>3, <3>7, <4>1, <5>1
      <4>2. CASE ~(j <= m)
        <5>1. j \in 1..(m + n) /\ j - m \in 1..n /\ rows[j] = <<e, j - m>>
          BY <3>8, <4>2
        <5> QED BY <3>1, <3>4, <3>7, <4>2, <5>1
      <4> QED BY <4>1, <4>2
    <3>13. \A j, k \in DOMAIN rows : rows[j] = rows[k] => j = k
      BY <3>1, <3>8
    <3>10. ASSUME NEW x \in {d, e}, NEW k \in DOMAIN targets(x)
           PROVE  \E j \in DOMAIN rows : rows[j] = <<x, k>>
      <4>1. CASE x = d
        BY <3>3, <3>8, <4>1
      <4>2. CASE x = e
        <5>1. m + k \in 1..(m + n) /\ (m + k) - m = k /\ ~(m + k <= m)
          BY <3>4, <4>2
        <5>2. rows[m + k] = <<e, k>>
          BY <3>8, <5>1
        <5> QED BY <3>8, <4>2, <5>1, <5>2
      <4> QED BY <4>1, <4>2
    <3>11. m + n \in Nat
      OBVIOUS
    <3> HIDE DEF entry
    <3>12. Arena(of, entry)
      <4>1. d[1] \in Component
        BY <1>4
      <4>2. \E l \in Nat : DOMAIN rows = 1..l
        BY <3>8, <3>11
      <4>3. DOMAIN rows = DOMAIN (targets(entry[1]) \o targets(entry[2]))
        BY <3>2, <3>7, <3>8
      <4>4. EntryTargets(of, entry) = T /\ DOMAIN T = DOMAIN rows
        BY <3>2, <3>7, <3>8 DEF EntryTargets, targets
      <4> HIDE DEF T
      <4> QED BY <3>2, <3>9, <3>10, <3>13, <4>1, <4>2, <4>3, <4>4 DEF Arena, rows, D, targets
    <3> QED BY <3>12 DEF entry
  <2> QED BY <1>2, <2>2, <2>3
<1>7. DOMAIN of.arena = Range(E)
  BY <1>3
<1> QED BY <1>2, <1>6, <1>7 DEF E, D

-----------------------------------------------------------------------------
(* The dispersive phase keeps the arrays and the memory of the simulation. *)
LEMMA RowHeld ==
  ASSUME WellFormed(This), Built(sim, This), NEW G, Arrays(This, G), NEW d \in DOMAIN sim.place,
         NEW k \in DOMAIN BucketOf(sim.plan, d).targets, NEW row,
         Remembers(BucketOf(sim.plan, d), k, row)
  PROVE  LET b == BucketOf(sim.plan, d)
             u == Recurrence(b.signature, TargetRow(b, k)[2], row,
                             FieldAt(G, d[1], b.targets[k]), IndexedCurl(G, d[1], b.targets[k]))
         IN  u.field \in 0..(P - 1) /\ Remembers(b, k, u.row)
<1> DEFINE b == BucketOf(sim.plan, d)
           c == d[1]
           i == b.targets[k]
           e == FieldAt(G, c, i)
           curl == IndexedCurl(G, c, i)
           u == Recurrence(b.signature, TargetRow(b, k)[2], row, e, curl)
<1>1. d \in Buckets(sim.plan) /\ c \in Component /\ c[1] = "E"
  BY BuiltDispersive
<1>2. Furnished(b, This, sim.options, c)
  BY <1>1, BuiltFurnished
<1>3. d \in sim.stateful
  BY BuiltFields
<1>4. b.signature[1] \in DispersiveModels
  BY <1>3, BuiltKinds
<1> HIDE DEF b, c
<1>5. i \in ActiveTargets(Serial(This.n), c)
  BY <1>2 DEF Furnished, b
<1>6. PICK m : /\ Typed(m) /\ b.signature = ModelAndState(m, c)
               /\ b.signature[1] # "dielectric" => TargetRow(b, k)[2] = m.coef
  BY <1>2 DEF Furnished, b
<1>7. TargetRow(b, k)[2] = m.coef
  BY <1>4, <1>6 DEF DispersiveModels
<1>8. b.signature = << m.type, m.poles, m.points >> /\ m.type \in DispersiveModels
  BY <1>1, <1>4, <1>6 DEF ModelAndState, DispersiveModels
<1> HIDE DEF i
<1>9. e \in Int /\ curl \in Int
  BY <1>1, <1>5, FieldAtTyped, CurlTyped
<1> HIDE DEF e, curl
<1>10. row \in MemoryRows(b.signature)
  BY DEF Remembers, b
<1>11. u.field \in 0..(P - 1) /\ u.row \in MemoryRows(b.signature)
  BY <1>6, <1>7, <1>8, <1>9, <1>10, RecurrenceTyped
<1> HIDE DEF u
<1>12. Remembers(b, k, u.row)
  BY <1>4, <1>11 DEF Remembers, DispersiveModels
<1> QED BY <1>11, <1>12 DEF u, e, curl, i, c, b

\* An execution keeps arrays and memory.
LEMMA RunEntryHeld ==
  ASSUME WellFormed(This), Built(sim, This), NEW S, Held(S), NEW entry \in Range(sim.entries)
  PROVE  Held(RunEntry(S, entry))
<1> DEFINE c == entry[1][1]
           rows == sim.arena[entry]
           bucket(j) == BucketOf(sim.plan, rows[j][1])
           row(j) == Recurrence(bucket(j).signature, TargetRow(bucket(j), rows[j][2])[2],
                                S.mem.dispersive[entry][j],
                                FieldAt(S.F, c, bucket(j).targets[rows[j][2]]),
                                IndexedCurl(S.F, c, bucket(j).targets[rows[j][2]]))
           out == [j \in DOMAIN rows |-> row(j)]
           targets == IF Len(entry) = 1
                      THEN WriteTargets(BucketOf(sim.plan, entry[1]), sim.options.tile)
                      ELSE BucketOf(sim.plan, entry[1]).targets
                             \o BucketOf(sim.plan, entry[2]).targets
           fields == [j \in DOMAIN out |-> out[j].field]
           memory == [j \in DOMAIN out |-> out[j].row]
<1>1. RunEntry(S, entry) = [F |-> Scatter(S.F, c, targets, fields),
                            mem |-> [S.mem EXCEPT !.dispersive[entry] = memory]]
  BY Zenon DEF RunEntry
<1>2. entry \in DOMAIN sim.arena /\ Arena(sim, entry)
  BY BuiltEntries DEF Range
<1>3. \A j \in DOMAIN rows : Remembers(bucket(j), rows[j][2], S.mem.dispersive[entry][j])
  BY <1>2 DEF Held, Buffered
<1>4. Arrays(This, S.F)
  BY DEF Held
<1>5. ASSUME NEW j \in DOMAIN rows
      PROVE  row(j).field \in Int /\ Remembers(bucket(j), rows[j][2], row(j).row)
  <2> DEFINE d == rows[j][1]
             k == rows[j][2]
             b == BucketOf(sim.plan, d)
             held == S.mem.dispersive[entry][j]
             u == Recurrence(b.signature, TargetRow(b, k)[2], held,
                             FieldAt(S.F, d[1], b.targets[k]), IndexedCurl(S.F, d[1], b.targets[k]))
  <2>1. d \in DOMAIN sim.place /\ d[1] = c /\ k \in DOMAIN b.targets
    BY <1>2 DEF Arena
  <2>2. Remembers(b, k, held)
    BY <1>3
  <2>3. row(j) = u
    BY <2>1
  <2> HIDE DEF d, k, held, row
  <2>4. u.field \in 0..(P - 1) /\ Remembers(b, k, u.row)
    BY <1>4, <2>1, <2>2, RowHeld
  <2>5. u.field \in Int
    BY <2>4
  <2> QED BY <2>3, <2>4, <2>5 DEF d, k
<1> HIDE DEF row
<1>6. \A j \in DOMAIN rows : /\ fields[j] \in Int
                             /\ Remembers(bucket(j), rows[j][2], memory[j])
  BY <1>5
<1> HIDE DEF fields, memory, bucket
<1>7. \E m \in Nat : DOMAIN targets = 1..m /\ 1..m \subseteq DOMAIN rows
  <2>1. CASE Len(entry) = 1
    <3>1. entry[1] \in Buckets(sim.plan) /\ DOMAIN rows = DOMAIN BucketOf(sim.plan, entry[1]).targets
      BY <1>2, <2>1 DEF Arena
    <3>2. Writes(BucketOf(sim.plan, entry[1]), sim.options.tile)
      BY <3>1, BuiltWrites
    <3> QED BY <2>1, <3>1, <3>2 DEF Writes
  <2>2. CASE Len(entry) # 1
    <3>1. /\ DOMAIN rows = DOMAIN (BucketOf(sim.plan, entry[1]).targets
                                     \o BucketOf(sim.plan, entry[2]).targets)
          /\ \E n \in Nat : DOMAIN rows = 1..n
      BY <1>2, <2>2 DEF Arena
    <3> QED BY <2>2, <3>1
  <2> QED BY <2>1, <2>2
<1> HIDE DEF targets
<1>8. c \in Component
  BY <1>2 DEF Arena
<1>9. Arrays(This, Scatter(S.F, c, targets, fields))
  <2>1. PICK m \in Nat : DOMAIN targets = 1..m /\ 1..m \subseteq DOMAIN rows
    BY <1>7
  <2>2. \A j \in 1..m : fields[j] \in Int
    BY <1>6, <2>1
  <2> QED BY <1>4, <1>8, <2>1, <2>2, ScatterTyped
<1>10. Buffered(sim, [S.mem EXCEPT !.dispersive[entry] = memory])
  BY <1>2, <1>6, StoreDispersive DEF Held, bucket
<1> QED BY <1>1, <1>9, <1>10 DEF Held

DispersiveRun(after, n, S) ==
  /\ n \in Nat /\ DOMAIN sim.entries = 1..n /\ after[0] = S
  /\ \A i \in 1..n : after[i] = RunEntry(after[i - 1], sim.entries[i])

\* The dispersive phase runs the executions one after the other.
LEMMA DispersivePhaseRuns ==
  ASSUME WellFormed(This), Built(sim, This), NEW S
  PROVE  \E after, n : DispersiveRun(after, n, S) /\ DispersivePhase(S) = after[n]
<1> DEFINE seq == sim.entries
           n == Len(seq)
           Stages(f, m) == f = [i \in 0..m |-> IF i = 0 THEN S ELSE RunEntry(f[i - 1], seq[i])]
           after == CHOOSE f : Stages(f, n)
<1>1. DispersivePhase(S) = after[n]
  BY Zenon DEF DispersivePhase
<1> HIDE DEF seq
<1>4. n \in Nat /\ DOMAIN seq = 1..n
  <2>1. PICK m \in Nat : DOMAIN seq = 1..m
    BY BuiltEntries DEF seq
  <2>2. Len(seq) \in Nat /\ DOMAIN seq = 1..Len(seq)
    BY <2>1
  <2> QED BY <2>2
<1> HIDE DEF n
<1>5. \E f : Stages(f, n)
  <2> DEFINE T == {m \in Nat : \E f : Stages(f, m)}
  <2>1. 0 \in T
    <3> DEFINE f == [i \in 0..0 |-> S]
    <3>1. Stages(f, 0)
      OBVIOUS
    <3> HIDE DEF Stages, f
    <3> QED BY <3>1
  <2>2. ASSUME NEW m \in Nat, m \in T PROVE m + 1 \in T
    <3>1. PICK f : Stages(f, m)
      BY <2>2
    <3> DEFINE last == RunEntry(f[m], seq[m + 1])
               g == [i \in 0..(m + 1) |-> IF i = m + 1 THEN last ELSE f[i]]
               h == [i \in 0..(m + 1) |-> IF i = 0 THEN S ELSE RunEntry(g[i - 1], seq[i])]
    <3>2. ASSUME NEW i \in 0..(m + 1) PROVE g[i] = h[i]
      <4>1. CASE i = 0
        BY <3>1, <4>1
      <4>2. CASE i = m + 1
        <5>1. g[i] = last /\ i - 1 = m /\ i # 0
          BY <4>2
        <5>2. g[m] = f[m]
          OBVIOUS
        <5>3. h[i] = RunEntry(g[m], seq[m + 1])
          BY <4>2, <5>1
        <5> QED BY <5>1, <5>2, <5>3
      <4>3. CASE i # 0 /\ i # m + 1
        <5>1. i \in 0..m /\ i - 1 \in 0..m
          BY <4>3
        <5>2. g[i] = f[i] /\ g[i - 1] = f[i - 1]
          BY <4>3, <5>1
        <5>3. f[i] = RunEntry(f[i - 1], seq[i])
          BY <3>1, <4>3, <5>1
        <5> QED BY <4>3, <5>2, <5>3
      <4> QED BY <4>1, <4>2, <4>3
    <3>3. g = h
      BY <3>2
    <3>4. Stages(g, m + 1)
      BY <3>3
    <3> HIDE DEF g, Stages
    <3> QED BY <3>4
  <2>3. Nat \subseteq T
    <3> HIDE DEF T
    <3> QED BY <2>1, <2>2, SetInduction
  <2> QED BY <1>4, <2>3
<1>6. Stages(after, n)
  <2> HIDE DEF Stages
  <2> QED BY <1>5
<1> HIDE DEF after
<1>7. /\ after[0] = S
      /\ \A i \in 1..n : after[i] = RunEntry(after[i - 1], seq[i])
  BY <1>4, <1>6
<1>8. DispersiveRun(after, n, S)
  BY <1>4, <1>7 DEF DispersiveRun, seq
<1> QED BY <1>1, <1>8

\* So do all of them one after the other.
\* So does the dispersive phase.
LEMMA DispersivePhaseHeld ==
  ASSUME WellFormed(This), Built(sim, This), NEW S, Held(S)
  PROVE  Held(DispersivePhase(S))
<1>1. PICK after, n : DispersiveRun(after, n, S) /\ DispersivePhase(S) = after[n]
  BY DispersivePhaseRuns
<1>7. /\ n \in Nat /\ DOMAIN sim.entries = 1..n /\ after[0] = S
      /\ \A i \in 1..n : after[i] = RunEntry(after[i - 1], sim.entries[i])
  BY <1>1 DEF DispersiveRun
<1>8. \A i \in 1..n : sim.entries[i] \in Range(sim.entries)
  BY <1>7 DEF Range
<1> DEFINE U == {i \in Nat : i <= n => Held(after[i])}
<1>9. 0 \in U
  BY <1>7
<1>10. ASSUME NEW i \in Nat, i \in U PROVE i + 1 \in U
  <2> SUFFICES ASSUME i + 1 <= n PROVE Held(after[i + 1])
    OBVIOUS
  <2>1. Held(after[i])
    BY <1>7, <1>10
  <2>2. i + 1 \in 1..n /\ (i + 1) - 1 = i
    BY <1>7
  <2>3. after[i + 1] = RunEntry(after[i], sim.entries[i + 1])
    BY <1>7, <2>2
  <2> QED BY <1>8, <2>1, <2>2, <2>3, RunEntryHeld
<1>11. Nat \subseteq U
  <2> HIDE DEF U
  <2> QED BY <1>9, <1>10, SetInduction
<1>12. Held(after[n])
  BY <1>7, <1>11
<1> QED BY <1>1, <1>12

-----------------------------------------------------------------------------
(* The logical content of the buffers. *)
Contents(of, logical) ==
  /\ DOMAIN logical = of.stateful
  /\ \A d \in of.stateful :
       LET b == BucketOf(of.plan, d)
       IN  /\ \E n \in Nat : DOMAIN b.targets = 1..n /\ logical[d] = [i \in 1..n |-> logical[d][i]]
           /\ \A i \in DOMAIN b.targets : Remembers(b, i, logical[d][i])

\* A CPML bucket has two memories a cell.
LEMMA CpmlRows ==
  ASSUME NEW s, NEW options, NEW c, NEW b, Furnished(b, s, options, c), b.signature[1] = "cpml"
  PROVE  b.signature = << "cpml", 2, 0 >> /\ MemoryRows(b.signature) = [1..2 -> Int]
<1>1. PICK m : Typed(m) /\ b.signature = ModelAndState(m, c)
  BY DEF Furnished
<1>2. b.signature = << "cpml", 2, 0 >>
  BY <1>1 DEF ModelAndState, Typed, Models, Range
<1> QED BY <1>2 DEF MemoryRows

\* The memory of a new simulation is the content of its buckets.
LEMMA BlankContents ==
  ASSUME NEW s, WellFormed(s), NEW of, Built(of, s)
  PROVE  Contents(of, Blank(of))
<1> SUFFICES ASSUME NEW d \in of.stateful
             PROVE  LET b == BucketOf(of.plan, d)
                        row == Blank(of)[d]
                    IN  /\ \E n \in Nat : DOMAIN b.targets = 1..n /\ row = [i \in 1..n |-> row[i]]
                        /\ \A i \in DOMAIN b.targets : Remembers(b, i, row[i])
  BY DEF Contents, Blank
<1> DEFINE b == BucketOf(of.plan, d)
           row == Blank(of)[d]
<1>1. row = [i \in DOMAIN b.targets |-> ZeroRow(b.signature)]
  BY DEF Blank
<1>2. Furnished(b, s, of.options, d[1])
  BY BuiltKinds, BuiltFurnished
<1> HIDE DEF b, row
<1>3. PICK n \in Nat : DOMAIN b.targets = 1..n
  BY <1>2 DEF Furnished
<1>4. b.signature[2] \in Nat /\ b.signature[3] \in Nat
  BY <1>2 DEF Furnished
<1>5. ZeroRow(b.signature) \in MemoryRows(b.signature)
  <2> DEFINE t == b.signature[1]
  <2>1. \A p : Zeros(p) \in [1..p -> Int]
    BY DEF Zeros
  <2>2. \A p : [i \in 1..p |-> <<0, 0>>] \in [1..p -> Int \X Int]
    OBVIOUS
  <2>3. CASE t \in {"drude", "lorentz"}
    BY <2>1, <2>3 DEF ZeroRow, MemoryRows
  <2>4. CASE t = "dcp-ade"
    BY <2>1, <2>4 DEF ZeroRow, MemoryRows
  <2>5. CASE t \in {"dcp-plrc", "dcp-rc"}
    BY <2>1, <2>2, <2>5 DEF ZeroRow, MemoryRows
  <2>6. CASE t \notin {"drude", "lorentz", "dcp-ade", "dcp-plrc", "dcp-rc"}
    BY <2>1, <2>6 DEF ZeroRow, MemoryRows
  <2> QED BY <2>3, <2>4, <2>5, <2>6
<1>6. b.signature[1] = "cpml" => \A a \in 1..2 : ZeroRow(b.signature)[a] = 0
  BY <1>2, CpmlRows DEF ZeroRow, Zeros
<1>7. Remembers(b, 1, ZeroRow(b.signature)) /\ \A i : Remembers(b, i, ZeroRow(b.signature))
  BY <1>5, <1>6 DEF Remembers
<1>8. /\ \E m \in Nat : DOMAIN b.targets = 1..m /\ row = [i \in 1..m |-> row[i]]
      /\ \A i \in DOMAIN b.targets : Remembers(b, i, row[i])
  BY <1>1, <1>3, <1>7
<1> QED BY <1>8 DEF b, row

\* The logical content of buffers in place is content of the buckets: rows a sparse
\* axis leaves out are plain, and zero is what they would hold.
LEMMA LogicalContents ==
  ASSUME WellFormed(This), Built(sim, This), Buffered(sim, mem)
  PROVE  Contents(sim, Logical)
<1>1. DOMAIN Logical = sim.stateful
  BY DEF Logical
<1> SUFFICES ASSUME NEW d \in sim.stateful
             PROVE  LET b == BucketOf(sim.plan, d)
                    IN  /\ \E n \in Nat : DOMAIN b.targets = 1..n
                                          /\ Logical[d] = [i \in 1..n |-> Logical[d][i]]
                        /\ \A i \in DOMAIN b.targets : Remembers(b, i, Logical[d][i])
  BY <1>1 DEF Contents
<1> DEFINE b == BucketOf(sim.plan, d)
<1>2. Logical[d] = [i \in DOMAIN b.targets |-> LogicalRow(mem, d, i)]
  BY DEF Logical
<1>3. d \in Buckets(sim.plan) /\ d[1] \in Component /\ Furnished(b, This, sim.options, d[1])
  BY BuiltKinds, BuiltFurnished
<1>4. PICK n \in Nat : DOMAIN b.targets = 1..n
  BY <1>3 DEF Furnished
<1>5. ASSUME NEW i \in DOMAIN b.targets PROVE Remembers(b, i, LogicalRow(mem, d, i))
  <2>1. CASE d \in DOMAIN sim.place
    <3> DEFINE e == EntryOf(sim, d)
               p == Position(sim.arena[e], <<d, i>>)
    <3>1. sim.place[d][i] = << e, p >>
      <4>1. Lies(sim, d, i)
        BY <2>1, BuiltFields
      <4> QED BY <4>1 DEF Lies
    <3>2. e \in Range(sim.entries) /\ d \in Range(e)
      <4>1. \E x \in Range(sim.entries) : d \in Range(x)
        BY <2>1, BuiltEntries DEF Range
      <4> QED BY <4>1 DEF EntryOf
    <3> HIDE DEF e
    <3>3. e \in DOMAIN sim.arena /\ Arena(sim, e)
      BY <3>2, BuiltEntries DEF Range
    <3>4. \E j \in DOMAIN sim.arena[e] : sim.arena[e][j] = <<d, i>>
      BY <3>2, <3>3 DEF Arena
    <3>5. p \in DOMAIN sim.arena[e] /\ sim.arena[e][p] = <<d, i>>
      BY <3>4 DEF Position
    <3> HIDE DEF p
    <3>6. Remembers(BucketOf(sim.plan, sim.arena[e][p][1]), sim.arena[e][p][2],
                    mem.dispersive[e][p])
      BY <3>3, <3>5 DEF Buffered
    <3>7. LogicalRow(mem, d, i) = mem.dispersive[e][p]
      BY <2>1, <3>1 DEF LogicalRow
    <3> QED BY <3>5, <3>6, <3>7
  <2>2. CASE d \notin DOMAIN sim.place /\ d \in sim.dense
    <3>1. LogicalRow(mem, d, i) = mem.absorber[d][i]
      BY <2>2 DEF LogicalRow
    <3> QED BY <2>2, <3>1 DEF Buffered
  <2>3. CASE d \notin DOMAIN sim.place /\ d \notin sim.dense
    <3>1. d \in sim.sparse /\ b.signature[1] = "cpml"
          /\ b.residual = [axis \in 1..2 |-> Residual(b.targets, b.cells, axis)]
      BY <2>3, BuiltKinds
    <3> DEFINE lane(a) == LogicalAxis(b.residual[a], Len(b.targets), mem.axis[<<d, a>>])
    <3>2. LogicalRow(mem, d, i) = << lane(1)[i], lane(2)[i] >>
      BY <2>3 DEF LogicalRow
    <3>3. \A a \in 1..2 : \A j \in DOMAIN b.residual[a].positions : mem.axis[<<d, a>>][j] \in Int
      BY <3>1 DEF Buffered
    <3> HIDE DEF b
    <3>4. Len(b.targets) = n
      BY <1>3, <1>4 DEF Furnished
    <3>5. ASSUME NEW a \in 1..2
          PROVE  lane(a)[i] \in Int /\ (PlainAxis(b.cells[i], a) => lane(a)[i] = 0)
      <4> DEFINE r == b.residual[a]
                 q == r.positions
                 values == mem.axis[<<d, a>>]
      <4>1. lane(a)[i] = IF i \in Range(q) THEN values[Position(q, i)] ELSE 0
        BY <1>4, <3>4 DEF LogicalAxis
      <4>2. r = Residual(b.targets, b.cells, a)
        BY <3>1
      <4> HIDE DEF r, lane
      <4>3. i \in Range(q) <=> ~PlainAxis(b.cells[i], a)
        BY <1>3, <3>1, <4>2, ResidualIs
      <4>4. i \in Range(q) => Position(q, i) \in DOMAIN q
        <5>1. Lists(q, Range(q))
          BY DEF Lists, Range
        <5> HIDE DEF q
        <5> QED BY <5>1, PositionIs
      <4>5. \A j \in DOMAIN q : values[j] \in Int
        BY <3>3 DEF r
      <4> QED BY <4>1, <4>3, <4>4, <4>5
    <3> HIDE DEF lane
    <3>6. MemoryRows(b.signature) = [1..2 -> Int]
      BY <1>3, <3>1, CpmlRows
    <3>7. << lane(1)[i], lane(2)[i] >> \in [1..2 -> Int]
      BY <3>5
    <3> QED BY <3>2, <3>5, <3>6, <3>7 DEF Remembers
  <2> QED BY <2>1, <2>2, <2>3
<1> HIDE DEF b
<1>6. \A i \in DOMAIN b.targets : Logical[d][i] = LogicalRow(mem, d, i)
  BY <1>2
<1>7. Logical[d] = [i \in 1..n |-> Logical[d][i]]
  BY <1>2, <1>4
<1>8. /\ \E m \in Nat : DOMAIN b.targets = 1..m /\ Logical[d] = [i \in 1..m |-> Logical[d][i]]
      /\ \A i \in DOMAIN b.targets : Remembers(b, i, Logical[d][i])
  BY <1>4, <1>5, <1>6, <1>7
<1> QED BY <1>8 DEF b

\* A configuration takes over what another one remembers.
LEMMA ContentsCarried ==
  ASSUME NEW s, WellFormed(s), NEW of, Built(of, s), NEW to, Built(to, s),
         NEW logical, Contents(of, logical)
  PROVE  Contents(to, logical)
<1>1. of.stateful = to.stateful
      /\ \A d \in of.stateful : Alike(BucketOf(of.plan, d), BucketOf(to.plan, d))
  BY BuiltAlike
<1>2. \A b, d, k, row : Alike(b, d) /\ Remembers(b, k, row) => Remembers(d, k, row)
  BY DEF Alike, Remembers
<1> QED BY <1>1, <1>2 DEF Contents, Alike

\* Content of the buckets is accepted by every configuration of the scene: the rows it
\* leaves out hold zero.
LEMMA ContentsAccepted ==
  ASSUME NEW s, WellFormed(s), NEW to, Built(to, s), NEW logical, Contents(to, logical)
  PROVE  Accepts(to, logical)
<1>1. DOMAIN logical = to.stateful
  BY DEF Contents
<1>2. ASSUME NEW d \in to.stateful
      PROVE  Len(logical[d]) = Len(BucketOf(to.plan, d).targets)
  <2> DEFINE b == BucketOf(to.plan, d)
  <2>1. PICK n \in Nat : DOMAIN b.targets = 1..n /\ logical[d] = [i \in 1..n |-> logical[d][i]]
    BY DEF Contents
  <2>2. Len(logical[d]) = n
    BY <2>1
  <2>3. Furnished(b, s, to.options, d[1])
    BY BuiltKinds, BuiltFurnished
  <2> HIDE DEF b
  <2>4. Len(b.targets) = n
    BY <2>1, <2>3 DEF Furnished
  <2> QED BY <2>2, <2>4 DEF b
<1>3. ASSUME NEW d \in to.sparse, NEW a \in 1..2,
             NEW i \in DOMAIN logical[d] \ Range(BucketOf(to.plan, d).residual[a].positions)
      PROVE  logical[d][i][a] = 0
  <2> DEFINE b == BucketOf(to.plan, d)
  <2>1. d \in to.stateful
    BY BuiltFields
  <2>2. /\ d \in Buckets(to.plan) /\ b.signature[1] = "cpml"
        /\ b.residual = [axis \in 1..2 |-> Residual(b.targets, b.cells, axis)]
    BY <2>1, BuiltKinds
  <2>3. d[1] \in Component /\ Furnished(b, s, to.options, d[1])
    BY <2>2, BuiltFurnished
  <2>4. i \in DOMAIN b.targets /\ Remembers(b, i, logical[d][i])
    BY <2>1 DEF Contents
  <2>5. i \notin Range(b.residual[a].positions)
    OBVIOUS
  <2> HIDE DEF b
  <2>6. PlainAxis(b.cells[i], a)
    <3>1. b.residual[a] = Residual(b.targets, b.cells, a)
      BY <2>2
    <3>2. i \in Range(Residual(b.targets, b.cells, a).positions) <=> ~PlainAxis(b.cells[i], a)
      BY <2>2, <2>3, <2>4, ResidualIs
    <3> QED BY <2>5, <3>1, <3>2
  <2> QED BY <2>2, <2>4, <2>6 DEF Remembers
<1> QED BY <1>1, <1>2, <1>3 DEF Accepts

\* Buffers loaded from such content are in place.
LEMMA BuffersHeld ==
  ASSUME NEW s, WellFormed(s), NEW of, Built(of, s), NEW logical, Contents(of, logical)
  PROVE  Buffered(of, Buffers(of, logical))
<1> DEFINE M == Buffers(of, logical)
           dispersive == [entry \in DOMAIN of.arena |->
                            LET rows == of.arena[entry]
                            IN  [j \in DOMAIN rows |-> logical[rows[j][1]][rows[j][2]]]]
           absorber == [d \in of.dense |-> logical[d]]
           axis == [x \in of.sparse \X {1, 2} |->
                      LET positions == BucketOf(of.plan, x[1]).residual[x[2]].positions
                      IN  [i \in DOMAIN positions |-> logical[x[1]][positions[i]][x[2]]]]
<1>1. M = [dispersive |-> dispersive, absorber |-> absorber, axis |-> axis]
  BY Zenon DEF Buffers
<1>2. /\ DOMAIN dispersive = DOMAIN of.arena
      /\ \A entry \in DOMAIN of.arena : \A j \in DOMAIN of.arena[entry] :
           dispersive[entry][j] = logical[of.arena[entry][j][1]][of.arena[entry][j][2]]
  OBVIOUS
<1>3. DOMAIN absorber = of.dense /\ \A d \in of.dense : absorber[d] = logical[d]
  OBVIOUS
<1>4. /\ DOMAIN axis = of.sparse \X {1, 2}
      /\ \A d \in of.sparse, a \in {1, 2} :
           \A i \in DOMAIN BucketOf(of.plan, d).residual[a].positions :
             axis[<<d, a>>][i]
               = logical[d][BucketOf(of.plan, d).residual[a].positions[i]][a]
  OBVIOUS
<1> HIDE DEF M, dispersive, absorber, axis
<1>5. /\ M = [dispersive |-> M.dispersive, absorber |-> M.absorber, axis |-> M.axis]
      /\ M.dispersive = dispersive /\ M.absorber = absorber /\ M.axis = axis
  BY <1>1
<1>6. ASSUME NEW entry \in DOMAIN of.arena, NEW j \in DOMAIN of.arena[entry]
      PROVE  Remembers(BucketOf(of.plan, of.arena[entry][j][1]), of.arena[entry][j][2],
                       M.dispersive[entry][j])
  <2> DEFINE d == of.arena[entry][j][1]
             k == of.arena[entry][j][2]
  <2>1. Arena(of, entry)
    BY BuiltEntries DEF Range
  <2>2. d \in DOMAIN of.place /\ k \in DOMAIN BucketOf(of.plan, d).targets
    BY <2>1 DEF Arena
  <2>3. d \in of.stateful
    BY <2>2, BuiltFields
  <2>4. Remembers(BucketOf(of.plan, d), k, logical[d][k])
    BY <2>2, <2>3 DEF Contents
  <2> QED BY <1>2, <1>5, <2>4
<1>7. ASSUME NEW d \in of.dense, NEW k \in DOMAIN BucketOf(of.plan, d).targets
      PROVE  Remembers(BucketOf(of.plan, d), k, M.absorber[d][k])
  <2>1. d \in of.stateful
    BY BuiltFields
  <2> QED BY <1>3, <1>5, <2>1 DEF Contents
<1>8. ASSUME NEW d \in of.sparse, NEW a \in 1..2,
             NEW j \in DOMAIN BucketOf(of.plan, d).residual[a].positions
      PROVE  M.axis[<<d, a>>][j] \in Int
  <2> DEFINE b == BucketOf(of.plan, d)
             k == b.residual[a].positions[j]
  <2>1. d \in of.stateful
    BY BuiltFields
  <2>2. /\ d \in Buckets(of.plan) /\ b.signature[1] = "cpml"
        /\ b.residual = [x \in 1..2 |-> Residual(b.targets, b.cells, x)]
    BY <2>1, BuiltKinds
  <2>3. d[1] \in Component /\ Furnished(b, s, of.options, d[1])
    BY <2>2, BuiltFurnished
  <2>4. M.axis[<<d, a>>][j] = logical[d][k][a]
    <3>1. a \in {1, 2}
      OBVIOUS
    <3>2. axis[<<d, a>>][j] = logical[d][k][a]
      BY <1>4, <3>1, Zenon
    <3> QED BY <1>5, <3>2
  <2>5. \A i \in DOMAIN b.targets : Remembers(b, i, logical[d][i])
    BY <2>1 DEF Contents
  <2>6. j \in DOMAIN b.residual[a].positions
    OBVIOUS
  <2> HIDE DEF b
  <2>7. k \in DOMAIN b.targets
    BY <2>2, <2>3, <2>6, ResidualIs
  <2>8. logical[d][k] \in [1..2 -> Int]
    BY <2>2, <2>3, <2>5, <2>7, CpmlRows DEF Remembers
  <2> QED BY <2>4, <2>8
<1>9. Buffered(of, M)
  BY <1>2, <1>3, <1>4, <1>5, <1>6, <1>7, <1>8 DEF Buffered
<1> QED BY <1>9 DEF M

-----------------------------------------------------------------------------
\* Under IInv every configuration of the scene is built for it.
LEMMA BuiltSimulation ==
  ASSUME IInv
  PROVE  /\ WellFormed(This) /\ Built(sim, This)
         /\ \A to \in Range(Simulations[scene]) : Built(to, This)
<1>1. WellFormed(This)
  BY SceneAssumption DEF IInv, This
<1>2. ASSUME NEW to \in Range(Simulations[scene]) PROVE Built(to, This)
  <2> DEFINE made == [k \in DOMAIN Configs |->
                        Construct(Configs[k], Plan(This, Configs[k], Serial(This.n)))]
  <2>1. Simulations[scene] = made
    BY DEF IInv, Simulations, This
  <2>2. PICK k \in DOMAIN Configs : to = made[k]
    BY <1>2, <2>1 DEF Range
  <2>3. to = Construct(Configs[k], Plan(This, Configs[k], Serial(This.n)))
    BY <2>2
  <2>4. Configs[k] \in Range(Configs)
    BY DEF Range
  <2> QED BY <2>3, <2>4 DEF Built
<1> QED BY <1>1, <1>2 DEF IInv

\* Every step keeps fields and memory in place.
LEMMA InhabitedCarried ==
  ASSUME IInv, Inhabited, IInv', [Next]_vars
  PROVE  Inhabited'
<1>1. WellFormed(This) /\ Built(sim, This)
  BY BuiltSimulation
<1>2. ASSUME NEW family PROVE Held(Wrapped(family))
  <2>1. Arrays(This, Wrapped(family).F)
    BY <1>1, SyncTyped DEF Inhabited, Wrapped
  <2>2. Wrapped(family) = [F |-> Wrapped(family).F, mem |-> mem]
    BY DEF Wrapped
  <2> QED BY <2>1, <2>2 DEF Held, Inhabited
<1>3. ASSUME NEW S, Held(S), NEW family
      PROVE  Held(DensePhase(S, family))
  BY <1>1, <1>3, DensePhaseTyped DEF Held
<1>4. ASSUME NEW S, Held(S), NEW family, Becomes(ApplyConstants(S, family))
      PROVE  Inhabited'
  <2> DEFINE T == ApplyConstants(S, family)
  <2>1. Arrays(This, T.F) /\ T.mem = S.mem
    BY <1>1, <1>4, ApplyConstantsTyped DEF Held
  <2> HIDE DEF T
  <2>2. F' = T.F /\ mem' = T.mem /\ UNCHANGED <<scene, sim>>
    BY <1>4 DEF Becomes, T
  <2>3. Arrays(This', F') /\ Buffered(sim', mem')
    BY <1>4, <2>1, <2>2 DEF Held, This
  <2> QED BY <2>3 DEF Inhabited
<1>5. CASE Electric
  <2> DEFINE S == DensePhase(Wrapped("E"), "E")
             T == AbsorberPhase(S, "E")
             U == DispersivePhase(T)
  <2>1. Becomes(ApplyConstants(U, "E"))
    BY <1>5 DEF Electric
  <2>2. Held(S)
    BY <1>2, <1>3
  <2> HIDE DEF S
  <2>3. Held(T)
    BY <1>1, <2>2, AbsorberPhaseHeld
  <2> HIDE DEF T
  <2>4. Held(U)
    BY <1>1, <2>3, DispersivePhaseHeld
  <2> HIDE DEF U
  <2> QED BY <1>4, <2>1, <2>4
<1>6. CASE Magnetic
  <2> DEFINE S == DensePhase(Wrapped("H"), "H")
             T == AbsorberPhase(S, "H")
  <2>1. Becomes(ApplyConstants(T, "H"))
    BY <1>6 DEF Magnetic
  <2>2. Held(S)
    BY <1>2, <1>3
  <2> HIDE DEF S
  <2>3. Held(T)
    BY <1>1, <2>2, AbsorberPhaseHeld
  <2> HIDE DEF T
  <2> QED BY <1>4, <2>1, <2>3
<1>7. ASSUME NEW k \in DOMAIN Configs, Carry(k) PROVE Inhabited'
  <2> DEFINE to == Simulations[scene][k]
  <2>1. mem' = Buffers(to, Logical) /\ sim' = to /\ UNCHANGED <<scene, F>>
    BY <1>7 DEF Carry
  <2>2. k \in DOMAIN Simulations[scene]
    BY DEF IInv, Simulations
  <2>3. Built(to, This)
    BY <2>2, BuiltSimulation DEF Range
  <2> HIDE DEF to
  <2>4. Contents(to, Logical)
    BY <1>1, <2>3, LogicalContents, ContentsCarried DEF Inhabited
  <2>5. Buffered(to, Buffers(to, Logical))
    BY <1>1, <2>3, <2>4, BuffersHeld
  <2>6. Arrays(This', F') /\ Buffered(sim', mem')
    BY <2>1, <2>5 DEF Inhabited, This
  <2> QED BY <2>6 DEF Inhabited
<1>8. CASE UNCHANGED <<scene, sim, F, mem>>
  BY <1>8 DEF Inhabited, This
<1>9. ASSUME NEW order \in Orders, Split(order) PROVE Inhabited'
  BY <1>8, <1>9 DEF Split
<1>10. Terminated \/ UNCHANGED vars => UNCHANGED <<scene, sim, F, mem>>
  BY DEF Terminated, vars
<1> QED BY <1>5, <1>6, <1>7, <1>8, <1>9, <1>10 DEF Next

\* Fields and memory keep their types, and a CPML axis the plain update treats keeps no
\* memory, whatever the configurations loaded in between.
THEOREM MemoryInhabited == Spec => []Inhabited
<1>1. Init => IInv
  BY DEF Init, IInv, SplitChosen
<1>2. Init /\ IInv => Inhabited
  <2> SUFFICES ASSUME Init, IInv PROVE Inhabited
    OBVIOUS
  <2>1. WellFormed(This) /\ Built(sim, This)
    BY BuiltSimulation
  <2>2. Arrays(This, F)
    BY <2>1 DEF Init, WellFormed
  <2>3. Buffered(sim, mem)
    BY <2>1, BlankContents, BuffersHeld DEF Init
  <2> QED BY <2>2, <2>3 DEF Inhabited
<1>3. IInv /\ IInv' /\ Inhabited /\ [Next]_vars => Inhabited'
  BY InhabitedCarried
<1> QED BY <1>1, <1>2, <1>3, Inductive, PTL DEF Spec

\* The checkpoint of one configuration is accepted by every other: the buckets of a
\* scene do not depend on the configuration, and rows a sparse axis leaves out are zero.
LEMMA PortableContents ==
  ASSUME IInv, Inhabited
  PROVE  CheckpointsPortable
<1>1. WellFormed(This) /\ Built(sim, This)
  BY BuiltSimulation
<1>2. ASSUME NEW to \in Range(Simulations[scene]) PROVE Accepts(to, Logical)
  <2>1. Built(to, This)
    BY BuiltSimulation
  <2> QED BY <1>1, <2>1, LogicalContents, ContentsCarried, ContentsAccepted DEF Inhabited
<1> QED BY <1>2 DEF CheckpointsPortable

\* CheckpointsPortable: the state checkpoint of one configuration is accepted by every
\* other, for every scene, configuration, step and chain of loads.
THEOREM CheckpointsLoad == Spec => []CheckpointsPortable
BY Inductive, MemoryInhabited, PortableContents, PTL
=============================================================================
