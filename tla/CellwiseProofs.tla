----------------------------- MODULE CellwiseProofs -----------------------------
(***************************************************************************)
(* The refinement MaterialStep states: whatever execution the planner      *)
(* chooses, and whatever the buffers held when fields were loaded or       *)
(* memory was restored, each half step of a simulation updates every cell  *)
(* by the model that holds it, from its own coefficients and memory, as    *)
(* CellwiseUpdate does.                                                    *)
(*                                                                         *)
(* The argument follows a half step through its phases.  A phase completes *)
(* the buckets it owns: their cells hold the update of the stage before    *)
(* it, and what the others hold is left as it was.  The phases between     *)
(* them complete every bucket (HalfStepDone), a completed bucket is the    *)
(* cellwise update of its cells (UpdatedIs), and what a simulation saved   *)
(* from one layout and another restored is the memory of each cell         *)
(* (MemoryGiven).                                                          *)
(***************************************************************************)
EXTENDS MaterialStepProofs

\* A residue is its own remainder, and a remainder may be taken before an addition.
LEMMA ResidueArithmetic ==
  /\ \A x \in 0..(P - 1) : x % P = x
  /\ \A x, y \in Int : ((x % P) + y) % P = (x + y) % P
<1>1. P \in Nat \ {0}
  BY ResidueAssumption
<1>2. ASSUME NEW x \in 0..(P - 1) PROVE x % P = x
  <2>1. (P * 0 + x) % P = x
    BY <1>1, Quotient
  <2>2. P * 0 + x = x
    BY <1>1
  <2> QED BY <2>1, <2>2
<1>3. ASSUME NEW x \in Int, NEW y \in Int PROVE ((x % P) + y) % P = (x + y) % P
  <2> DEFINE q == x \div P
             r == x % P
             u == (r + y) \div P
             m == (r + y) % P
  <2>1. q \in Int /\ r \in Int /\ x = P * q + r
    BY <1>1, Division
  <2> HIDE DEF q, r
  <2>2. u \in Int /\ m \in 0..(P - 1) /\ r + y = P * u + m
    BY <1>1, <2>1, Division
  <2> HIDE DEF u, m
  <2>3. x + y = P * (q + u) + m
    <3>1. P * (q + u) = P * q + P * u
      BY <1>1, <2>1, <2>2
    <3>2. P * q \in Int /\ P * u \in Int
      BY <1>1, <2>1, <2>2
    <3> QED BY <2>1, <2>2, <3>1, <3>2
  <2>5. q + u \in Int
    BY <2>1, <2>2
  <2>4. (x + y) % P = m
    BY <1>1, <2>2, <2>3, <2>5, Quotient
  <2> QED BY <2>4 DEF m, r
<1> QED BY <1>2, <1>3

\* Writing distinct targets: each cell among them gets its own value, and no other
\* cell anything.
Distinctly(targets) ==
  /\ \E n \in Nat : DOMAIN targets = 1..n
  /\ \A j, k \in DOMAIN targets : targets[j] = targets[k] => j = k

\* What writing distinct targets makes of the arrays.
LEMMA ScatterAt ==
  ASSUME NEW s, NEW G, Arrays(s, G), NEW c \in Component,
         NEW targets, Distinctly(targets), NEW values
  PROVE  LET H == Scatter(G, c, targets, values)
         IN  /\ DOMAIN H = DOMAIN G
             /\ \A x \in Component : DOMAIN H[x] = DOMAIN G[x]
             /\ \A x \in Component : x # c => H[x] = G[x]
             /\ \A v \in DOMAIN G[c] : \A k \in DOMAIN targets :
                  targets[k] = Flat(ShapeOf(c), v) => H[c][v] = values[k]
             /\ \A v \in DOMAIN G[c] :
                  (\A k \in DOMAIN targets : targets[k] # Flat(ShapeOf(c), v)) => H[c][v] = G[c][v]
<1> DEFINE rows(v) == {k \in DOMAIN targets : targets[k] = Flat(ShapeOf(c), v)}
           row(v) == IF rows(v) = {} THEN G[c][v] ELSE values[Max(rows(v))]
           H == Scatter(G, c, targets, values)
<1>1. H = [G EXCEPT ![c] = [v \in DOMAIN G[c] |-> row(v)]]
  BY Zenon DEF Scatter
<1>2. c \in DOMAIN G /\ DOMAIN G = Component
  BY DEF Arrays
<1>3. ASSUME NEW v, NEW k \in DOMAIN targets, targets[k] = Flat(ShapeOf(c), v)
      PROVE  row(v) = values[k]
  <2>1. rows(v) = {k}
    BY <1>3 DEF Distinctly
  <2>2. k \in Nat
    BY DEF Distinctly
  <2>3. Max({k}) = k
    BY <2>2 DEF Max
  <2> QED BY <2>1, <2>3
<1>4. ASSUME NEW v, \A k \in DOMAIN targets : targets[k] # Flat(ShapeOf(c), v)
      PROVE  row(v) = G[c][v]
  <2>1. rows(v) = {}
    BY <1>4
  <2> QED BY <2>1
<1> HIDE DEF row, H
<1>5. H[c] = [v \in DOMAIN G[c] |-> row(v)]
  BY <1>1, <1>2
<1>6. DOMAIN H = DOMAIN G /\ \A x \in Component : x # c => H[x] = G[x]
  BY <1>1, <1>2
<1>7. \A x \in Component : DOMAIN H[x] = DOMAIN G[x]
  BY <1>5, <1>6
<1> QED BY <1>3, <1>4, <1>5, <1>6, <1>7 DEF H

\* The cells of a bucket are listed once, and of the cells to update it has those
\* of its signature.
Own(s, options, c, o) ==
  LET g == Serial(s.n)
      b == Plan(s, options, g)[c].buckets[o]
  IN  /\ Distinctly(b.targets)
      /\ b.targets = Ordered({i \in ActiveTargets(g, c) : ModelAt(s, g, c, i) = b.signature}, Before)
      /\ Lists(b.targets, {i \in ActiveTargets(g, c) : ModelAt(s, g, c, i) = b.signature})
      /\ Holds(b, s, g, c, b.signature,
               {i \in ActiveTargets(g, c) : ModelAt(s, g, c, i) = b.signature})

\* A bucket of a plan owns its cells.
LEMMA BucketOwns ==
  ASSUME NEW s, WellFormed(s), NEW options, NEW c \in Component,
         NEW o \in DOMAIN Plan(s, options, Serial(s.n))[c].buckets
  PROVE  Own(s, options, c, o)
<1> DEFINE g == Serial(s.n)
           active == ActiveTargets(g, c)
           sig == Signatures(s, g, c)[o]
           S == {i \in active : ModelAt(s, g, c, i) = sig}
           B == Plan(s, options, g)[c].buckets
           b == Bucket(s, options, g, c, sig, active)
<1>1. B = [p \in DOMAIN Signatures(s, g, c) |->
             Bucket(s, options, g, c, Signatures(s, g, c)[p], active)]
  BY PlanIs
<1>2. B[o] = b
  BY <1>1
<1> HIDE DEF B, sig
<1>3. IsFiniteSet(active) /\ active \subseteq Int
  BY SerialViewed, ActiveFinite
<1>4. Grown(s)
  BY WellFormedIsGrown
<1>5. Holds(b, s, g, c, sig, S)
  BY <1>3, <1>4, BucketHolds
<1>7. /\ b.targets = Ordered(S, Before) /\ b.signature = sig
      /\ b.residual = IF SparseBucket(s, options, c, b)
                      THEN [axis \in 1..2 |-> Residual(b.targets, b.cells, axis)] ELSE <<>>
  BY BucketResidual
<1> HIDE DEF b, g, active
<1>8. IsFiniteSet(S) /\ S \subseteq Int
  BY <1>3, FS_Subset
<1>9. Listed(b.targets, S)
  BY <1>7, <1>8, OrderedIntegers
<1>10. Distinctly(b.targets) /\ Lists(b.targets, S)
  <2> HIDE DEF S
  <2>1. \A j, k \in DOMAIN b.targets : b.targets[j] = b.targets[k] => j = k
    BY <1>9, ListedOnce
  <2> QED BY <1>9, <2>1 DEF Listed, Distinctly
<1>11. /\ Distinctly(B[o].targets) /\ B[o].targets = Ordered(S, Before) /\ Lists(B[o].targets, S)
       /\ Holds(B[o], s, g, c, sig, S) /\ B[o].signature = sig
  BY <1>2, <1>5, <1>7, <1>10
<1> QED BY <1>11 DEF Own, B, g, active

\* Two buckets of a component share no cell, and each cell to update is in one.
Parted(B, cells) ==
  /\ \A o, p \in DOMAIN B : \A j \in DOMAIN B[o].targets : \A k \in DOMAIN B[p].targets :
       B[o].targets[j] = B[p].targets[k] => o = p
  /\ \A i \in cells : \E o \in DOMAIN B : \E k \in DOMAIN B[o].targets : B[o].targets[k] = i

\* The buckets of a component part its cells.
LEMMA BucketsPartition ==
  ASSUME NEW s, WellFormed(s), NEW options, NEW c \in Component
  PROVE  Parted(Plan(s, options, Serial(s.n))[c].buckets, ActiveTargets(Serial(s.n), c))
<1> DEFINE g == Serial(s.n)
           active == ActiveTargets(g, c)
           sigs == Signatures(s, g, c)
           B == Plan(s, options, g)[c].buckets
<1>1. Grown(s) /\ Viewed(g)
  BY WellFormedIsGrown, SerialViewed
<1>2. B = [p \in DOMAIN sigs |-> Bucket(s, options, g, c, sigs[p], active)]
  BY PlanIs
<1>3. \A o \in DOMAIN B : B[o].signature = sigs[o]
  <2> SUFFICES ASSUME NEW o \in DOMAIN B PROVE B[o].signature = sigs[o]
    OBVIOUS
  <2> DEFINE sig == sigs[o]
             b == Bucket(s, options, g, c, sig, active)
  <2>1. B[o] = b
    BY <1>2
  <2> HIDE DEF sig, B
  <2>2. /\ b.targets = Ordered({i \in active : ModelAt(s, g, c, i) = sig}, Before)
        /\ b.signature = sig
        /\ b.residual = IF SparseBucket(s, options, c, b)
                        THEN [axis \in 1..2 |-> Residual(b.targets, b.cells, axis)] ELSE <<>>
    BY BucketResidual
  <2> HIDE DEF b
  <2> QED BY <2>1, <2>2 DEF sig
<1>4. Listed(sigs, {ModelAt(s, g, c, i) : i \in active}) /\ DOMAIN B = DOMAIN sigs
  BY <1>1, <1>2, SignaturesListed
<1>5. \A o \in DOMAIN B :
        Lists(B[o].targets, {i \in active : ModelAt(s, g, c, i) = B[o].signature})
  <2> SUFFICES ASSUME NEW o \in DOMAIN B
               PROVE  Lists(B[o].targets, {i \in active : ModelAt(s, g, c, i) = B[o].signature})
    OBVIOUS
  <2>1. Own(s, options, c, o)
    BY BucketOwns
  <2> QED BY <2>1, Zenon DEF Own
<1> HIDE DEF B, sigs, active, g
<1>6. ASSUME NEW o \in DOMAIN B, NEW p \in DOMAIN B, NEW j \in DOMAIN B[o].targets,
             NEW k \in DOMAIN B[p].targets, B[o].targets[j] = B[p].targets[k]
      PROVE  o = p
  <2>1. ModelAt(s, g, c, B[o].targets[j]) = sigs[o]
    BY <1>3, <1>5 DEF Lists
  <2>2. ModelAt(s, g, c, B[p].targets[k]) = sigs[p]
    BY <1>3, <1>5 DEF Lists
  <2> QED BY <1>4, <1>6, <2>1, <2>2, ListedOnce
<1>7. ASSUME NEW i \in active
      PROVE  \E o \in DOMAIN B : \E k \in DOMAIN B[o].targets : B[o].targets[k] = i
  <2>1. PICK o \in DOMAIN B : sigs[o] = ModelAt(s, g, c, i)
    BY <1>4 DEF Listed, Lists
  <2>2. i \in {j \in active : ModelAt(s, g, c, j) = B[o].signature}
    BY <1>3, <2>1
  <2> QED BY <1>5, <2>2 DEF Lists
<1>8. Parted(B, active)
  BY <1>6, <1>7 DEF Parted
<1> QED BY <1>8 DEF B, active, g

-----------------------------------------------------------------------------
\* An ordered sequence of integers increases.
LEMMA OrderedIncreases ==
  ASSUME NEW S, IsFiniteSet(S), S \subseteq Int
  PROVE  LET q == Ordered(S, Before)
         IN  /\ Listed(q, S)
             /\ \A j, k \in DOMAIN q : j < k => q[j] < q[k]
             /\ \A k \in DOMAIN q : Cardinality({x \in S : x < q[k]}) + 1 = k
<1> DEFINE R == {x \in S \X S : x[1] < x[2]}
           below(e) == {x \in S : x < e}
           place == [e \in S |-> Cardinality({x \in S : Before(x, e)}) + 1]
           q == Ordered(S, Before)
<1>1. TotalOn(R, S)
  BY DEF TotalOn
<1>2. \A e \in S : place[e] = Cardinality(below(e)) + 1
  BY DEF Before
<1>3. Counts(place, R, S)
  <2> SUFFICES ASSUME NEW e \in S
               PROVE  place[e] = Cardinality({x \in S : <<x, e>> \in R}) + 1
    BY DEF Counts
  <2>1. below(e) = {x \in S : <<x, e>> \in R}
    OBVIOUS
  <2> QED BY <1>2, <2>1
<1>4. q = Placed(place, S)
  BY DEF Ordered, Placed
<1>5. ASSUME NEW e \in S PROVE IsFiniteSet(below(e)) /\ Cardinality(below(e)) \in Nat
  <2>1. below(e) \in SUBSET S
    OBVIOUS
  <2> HIDE DEF below
  <2> QED BY <2>1, FS_Subset, FS_CardinalityType
<1> HIDE DEF R, place
<1>6. OneToOne(place, S)
  BY <1>1, <1>3, PlacesAreOneToOne
<1>7. Listed(q, S)
  BY <1>4, <1>6, PlacedSequence
<1>8. ASSUME NEW k \in DOMAIN q PROVE q[k] \in S /\ Cardinality(below(q[k])) + 1 = k
  <2>1. k \in 1..Cardinality(S) /\ q[k] = CHOOSE e \in S : place[e] = k
    BY <1>4, <1>7 DEF Listed, Placed
  <2>2. \E e \in S : place[e] = k
    BY <1>6, <2>1 DEF OneToOne
  <2>3. q[k] \in S /\ place[q[k]] = k
    BY <2>1, <2>2
  <2> HIDE DEF q, below
  <2> QED BY <1>2, <2>3
<1>9. ASSUME NEW j \in DOMAIN q, NEW k \in DOMAIN q, j < k PROVE q[j] < q[k]
  <2>1. q[j] \in Int /\ q[k] \in Int /\ q[j] \in S /\ q[k] \in S
    BY <1>8
  <2> HIDE DEF q
  <2>2. SUFFICES ASSUME q[k] <= q[j] PROVE FALSE
    BY <2>1
  <2>3. below(q[k]) \subseteq below(q[j])
    <3>1. \A x \in S : x \in Int /\ (x < q[k] => x < q[j])
      BY <2>1, <2>2
    <3> QED BY <3>1
  <2>4. /\ IsFiniteSet(below(q[j])) /\ Cardinality(below(q[j])) \in Nat
        /\ Cardinality(below(q[k])) \in Nat
    BY <1>5, <2>1
  <2>5. Cardinality(below(q[k])) + 1 = k /\ Cardinality(below(q[j])) + 1 = j
    BY <1>8
  <2> HIDE DEF below
  <2>6. Cardinality(below(q[k])) <= Cardinality(below(q[j]))
    BY <2>3, <2>4, FS_Subset
  <2> QED BY <1>9, <2>4, <2>5, <2>6
<1> QED BY <1>7, <1>8, <1>9

\* An ordered set is a sequence over its positions.
LEMMA OrderedIs ==
  ASSUME NEW S
  PROVE  LET q == Ordered(S, Before) IN q = [k \in DOMAIN q |-> q[k]]
<1> DEFINE q == Ordered(S, Before)
           place == [e \in S |-> Cardinality({x \in S : Before(x, e)}) + 1]
<1>1. q = Placed(place, S)
  BY DEF Ordered, Placed
<1> HIDE DEF place, q
<1>2. q = [k \in DOMAIN q |-> q[k]]
  BY <1>1 DEF Placed
<1> QED BY <1>2 DEF q

\* An increasing image of a set of integers is ordered as the set is.
LEMMA OrderedImage ==
  ASSUME NEW T, IsFiniteSet(T), T \subseteq Int, NEW S, IsFiniteSet(S), S \subseteq Int,
         NEW f, \A p \in T : f[p] \in S, \A x \in S : \E p \in T : f[p] = x,
         \A p, r \in T : p < r => f[p] < f[r]
  PROVE  LET q == Ordered(T, Before)
         IN  [k \in DOMAIN q |-> f[q[k]]] = Ordered(S, Before)
<1> DEFINE q == Ordered(T, Before)
           u == Ordered(S, Before)
           lower(p) == {x \in T : x < p}
           below(e) == {x \in S : x < e}
<1>1. /\ Listed(q, T)
      /\ \A k \in DOMAIN q : Cardinality(lower(q[k])) + 1 = k
  BY OrderedIncreases
<1>2. /\ Listed(u, S)
      /\ \A k \in DOMAIN u : Cardinality(below(u[k])) + 1 = k
  BY OrderedIncreases
<1>3. ASSUME NEW p \in T, NEW r \in T
      PROVE  (f[p] < f[r] => p < r) /\ (f[p] = f[r] => p = r)
  <2>1. p \in Int /\ r \in Int /\ f[p] \in Int /\ f[r] \in Int
    OBVIOUS
  <2>2. (p < r => f[p] < f[r]) /\ (r < p => f[r] < f[p])
    OBVIOUS
  <2> QED BY <2>1, <2>2
<1>4. \A p, r \in T : f[p] = f[r] => p = r
  BY <1>3
<1>5. ASSUME NEW p \in T PROVE Cardinality(lower(p)) = Cardinality(below(f[p]))
  <2> DEFINE h == [x \in lower(p) |-> f[x]]
  <2>1. \A x \in lower(p) : h[x] \in below(f[p])
    OBVIOUS
  <2>2. \A x, y \in lower(p) : h[x] = h[y] => x = y
    BY <1>4
  <2>3. \A y \in below(f[p]) : \E x \in lower(p) : h[x] = y
    BY <1>3
  <2>4. DOMAIN h = lower(p) /\ h = [x \in lower(p) |-> h[x]]
    OBVIOUS
  <2>5. IsFiniteSet(lower(p))
    BY FS_Subset
  <2> HIDE DEF h, lower, below
  <2>6. h \in Bijection(lower(p), below(f[p]))
    BY <2>1, <2>2, <2>3, <2>4 DEF Bijection, Injection, Surjection, IsInjective
  <2> QED BY <2>5, <2>6, FS_Bijection DEF ExistsBijection
<1>6. Cardinality(T) = Cardinality(S)
  <2> DEFINE h == [x \in T |-> f[x]]
  <2>1. h \in Bijection(T, S)
    BY <1>4 DEF Bijection, Injection, Surjection, IsInjective
  <2> HIDE DEF h
  <2> QED BY <2>1, FS_Bijection DEF ExistsBijection
<1> HIDE DEF q, u, lower, below
<1>7. DOMAIN q = DOMAIN u
  BY <1>1, <1>2, <1>6 DEF Listed
<1>8. ASSUME NEW k \in DOMAIN q PROVE u[k] = f[q[k]]
  <2>1. q[k] \in T
    BY <1>1 DEF Listed, Lists
  <2>2. PICK j \in DOMAIN u : u[j] = f[q[k]]
    BY <1>2, <2>1 DEF Listed, Lists
  <2>3. Cardinality(below(u[j])) + 1 = j
    BY <1>2
  <2>4. Cardinality(lower(q[k])) + 1 = k
    BY <1>1
  <2>5. j = k
    BY <1>5, <2>1, <2>2, <2>3, <2>4
  <2> QED BY <2>2, <2>5
<1>9. u = [k \in DOMAIN u |-> u[k]]
  BY OrderedIs DEF u
<1>10. [k \in DOMAIN q |-> f[q[k]]] = u
  BY <1>7, <1>8, <1>9
<1> QED BY <1>10 DEF q, u

\* The slots of tiles in ascending order name the cells of a set as the set is ordered.
Slots(b, tile, S, L, q) ==
  /\ Len(b.origins) = L
  /\ \A t \in 1..L : q[t] \in Int /\ b.origins[t] = q[t] * tile
  /\ \A t, u \in 1..L : t < u => q[t] < q[u]
  /\ \A t \in 1..L : \A o \in 0..(tile - 1) :
       b.tileRegions[t][o] > 0 <=> q[t] * tile + o \in S
  /\ \A x \in S : \E t \in 1..L : q[t] = x \div tile

Tiling(b, tile, S, L, q) == IsFiniteSet(S) /\ S \subseteq Int /\ Slots(b, tile, S, L, q)

\* The targets of a tiled bucket, read slot by slot, are its cells in order.
LEMMA TiledOrder ==
  ASSUME NEW tile \in Nat \ {0}, NEW L \in Nat, NEW b, NEW q,
         NEW S, Tiling(b, tile, S, L, q)
  PROVE  TiledTargets(b, tile) = Ordered(S, Before)
<1> SUFFICES ASSUME IsFiniteSet(S), S \subseteq Int, Slots(b, tile, S, L, q)
             PROVE  TiledTargets(b, tile) = Ordered(S, Before)
  BY DEF Tiling
<1> DEFINE t(p) == (p - 1) \div tile + 1
           o(p) == (p - 1) % tile
           slots == [p \in 1..(Len(b.origins) * tile) |->
                       <<b.origins[t(p)] + o(p), b.tileRegions[t(p)][o(p)]>>]
           T == {p \in DOMAIN slots : slots[p][2] > 0}
           owned == Ordered(T, Before)
           n == L * tile
<1>1. TiledTargets(b, tile) = [p \in DOMAIN owned |-> slots[owned[p]][1]]
  BY Zenon DEF TiledTargets
<1>2. n \in Nat /\ DOMAIN slots = 1..n
  BY DEF Slots
<1>3. \A p \in 1..n : t(p) \in 1..L /\ o(p) \in 0..(tile - 1) /\ p = tile * (t(p) - 1) + o(p) + 1
  BY SlotIs
<1>4. \A p \in 1..n : slots[p] = <<b.origins[t(p)] + o(p), b.tileRegions[t(p)][o(p)]>>
  BY <1>2
<1> HIDE DEF slots
<1> DEFINE f == [p \in T |-> slots[p][1]]
<1>5. ASSUME NEW p \in 1..n
      PROVE  /\ slots[p][1] = tile * q[t(p)] + o(p)
             /\ slots[p][2] > 0 <=> slots[p][1] \in S
  <2>1. t(p) \in 1..L /\ o(p) \in 0..(tile - 1)
    BY <1>3
  <2> HIDE DEF t, o
  <2>2. slots[p] = <<b.origins[t(p)] + o(p), b.tileRegions[t(p)][o(p)]>>
    BY <1>4 DEF t, o
  <2>3. q[t(p)] \in Int /\ b.origins[t(p)] = q[t(p)] * tile
    BY <2>1 DEF Slots
  <2>4. b.tileRegions[t(p)][o(p)] > 0 <=> q[t(p)] * tile + o(p) \in S
    BY <2>1 DEF Slots
  <2>5. q[t(p)] * tile = tile * q[t(p)]
    BY <2>3
  <2> QED BY <2>2, <2>3, <2>4, <2>5 DEF t, o
<1> HIDE DEF t, o
<1>6. T \subseteq 1..n
  BY <1>2
<1>7. ASSUME NEW p \in T, NEW r \in T, p < r PROVE f[p] < f[r]
  <2>1. /\ t(p) \in 1..L /\ o(p) \in 0..(tile - 1) /\ p = tile * (t(p) - 1) + o(p) + 1
        /\ t(r) \in 1..L /\ o(r) \in 0..(tile - 1) /\ r = tile * (t(r) - 1) + o(r) + 1
    BY <1>3, <1>6
  <2>2. f[p] = tile * q[t(p)] + o(p) /\ f[r] = tile * q[t(r)] + o(r)
    BY <1>5, <1>6
  <2>3. q[t(p)] \in Int /\ q[t(r)] \in Int
    BY <2>1 DEF Slots
  <2> HIDE DEF f, T
  <2>4. CASE t(p) = t(r)
    BY <1>7, <2>1, <2>2, <2>3, <2>4
  <2>5. CASE t(p) < t(r)
    <3>5. q[t(p)] < q[t(r)]
      BY <2>1, <2>5 DEF Slots
    <3>1. q[t(p)] + 1 <= q[t(r)]
      BY <2>3, <3>5
    <3>2. tile * (q[t(p)] + 1) <= tile * q[t(r)]
      BY <2>3, <3>1, Grows
    <3>3. tile * (q[t(p)] + 1) = tile * q[t(p)] + tile
      BY <2>3
    <3>4. tile * q[t(p)] \in Int /\ tile * q[t(r)] \in Int
      BY <2>3
    <3> QED BY <2>1, <2>2, <3>2, <3>3, <3>4
  <2>6. CASE t(r) < t(p)
    <3>1. tile * (t(r) - 1 + 1) <= tile * (t(p) - 1)
      BY <2>1, <2>6, Grows
    <3>2. tile * (t(r) - 1 + 1) = tile * (t(r) - 1) + tile
      BY <2>1
    <3>3. tile * (t(r) - 1) \in Int /\ tile * (t(p) - 1) \in Int
      BY <2>1
    <3> QED BY <1>7, <2>1, <3>1, <3>2, <3>3
  <2> QED BY <2>1, <2>4, <2>5, <2>6
<1>8. ASSUME NEW x \in S PROVE \E p \in T : f[p] = x
  <2>1. x \in Int /\ x % tile \in 0..(tile - 1) /\ x = tile * (x \div tile) + (x % tile)
    BY Division
  <2>2. PICK k \in 1..L : q[k] = x \div tile
    BY DEF Slots
  <2> DEFINE w == x % tile
             p == tile * (k - 1) + w + 1
  <2> HIDE DEF w
  <2>3. (p - 1) \div tile = k - 1 /\ (p - 1) % tile = w
    <3>1. k - 1 \in Int /\ w \in 0..(tile - 1)
      BY <2>1 DEF w
    <3>2. (tile * (k - 1) + w) \div tile = k - 1 /\ (tile * (k - 1) + w) % tile = w
      BY <3>1, Quotient
    <3>3. tile * (k - 1) \in Int
      BY <3>1
    <3>4. p - 1 = tile * (k - 1) + w
      BY <3>1, <3>3
    <3> QED BY <3>2, <3>4
  <2>4. p \in 1..n
    <3>1. tile * (k - 1 + 1) <= tile * L /\ tile * 0 <= tile * (k - 1)
      BY Grows
    <3>2. tile * (k - 1 + 1) = tile * (k - 1) + tile /\ tile * L = n /\ tile * 0 = 0
      OBVIOUS
    <3>3. tile * (k - 1) \in Int /\ w \in 0..(tile - 1)
      BY <2>1 DEF w
    <3> QED BY <3>1, <3>2, <3>3
  <2>5. t(p) = k /\ o(p) = w
    BY <2>3 DEF t, o
  <2> HIDE DEF p
  <2>6. slots[p][1] = x
    BY <1>5, <2>1, <2>2, <2>4, <2>5 DEF w
  <2>7. p \in T
    BY <1>2, <1>5, <2>4, <2>6
  <2> QED BY <2>6, <2>7
<1>9. \A p \in T : f[p] \in S
  BY <1>5, <1>6
<1> HIDE DEF T
<1>10. IsFiniteSet(T) /\ T \subseteq Int
  <2> HIDE DEF n
  <2>1. IsFiniteSet(1..n)
    BY <1>2, FS_Interval
  <2>2. IsFiniteSet(T)
    BY <1>6, <2>1, FS_Subset
  <2>3. T \subseteq Int
    BY <1>6
  <2> QED BY <2>2, <2>3
<1>11. [k \in DOMAIN owned |-> f[owned[k]]] = Ordered(S, Before)
  <2> HIDE DEF f, owned
  <2>1. \A p, r \in T : p < r => f[p] < f[r]
    BY <1>7
  <2>2. \A x \in S : \E p \in T : f[p] = x
    BY <1>8
  <2> QED BY <1>9, <1>10, <2>1, <2>2, OrderedImage DEF owned
<1>12. \A k \in DOMAIN owned : owned[k] \in T
  BY <1>10, OrderedIntegers DEF Listed, Lists
<1> HIDE DEF owned
<1>13. [k \in DOMAIN owned |-> f[owned[k]]] = [k \in DOMAIN owned |-> slots[owned[k]][1]]
  BY <1>12
<1> QED BY <1>1, <1>11, <1>13

-----------------------------------------------------------------------------
\* The layout chosen is one of the three.
LEMMA WidthNatural ==
  ASSUME NEW sig \in Range(Models) \X Nat \X Nat
  PROVE  StateWidth(sig) \in Nat
<1>1. sig[2] \in Nat /\ sig[3] \in Nat
  OBVIOUS
<1>2. /\ 2 * sig[2] \in Nat /\ 1 + 2 * sig[2] + 2 * sig[3] \in Nat
      /\ sig[2] + 2 * sig[3] \in Nat /\ sig[2] + sig[3] \in Nat
  BY <1>1
<1> QED BY <1>2, Zenon DEF StateWidth

\* Among some layouts one costs least.
LEMMA CheapestExists ==
  ASSUME NEW cost, NEW S, S # {}, \A l \in S : cost[l] \in Nat
  PROVE  \E l \in S : \A m \in S : cost[l] <= cost[m]
<1> DEFINE T == {cost[l] : l \in S}
<1>1. T \subseteq Nat /\ T # {}
  OBVIOUS
<1>2. \A l \in S : cost[l] \in T
  OBVIOUS
<1>3. \A x \in T : \E l \in S : cost[l] = x
  OBVIOUS
<1> HIDE DEF T
<1>4. \E i \in T : \A j \in T : i <= j
  BY <1>1, LeastExists
<1> QED BY <1>2, <1>3, <1>4

\* The planner chooses one of the three layouts.
LEMMA LayoutChosen ==
  ASSUME NEW options, options.policy \in {"auto", "dense", "compact", "tiled"},
         NEW sig \in Range(Models) \X Nat \X Nat, NEW count \in Nat, NEW active \in Nat,
         NEW tileCells \in Nat
  PROVE  SelectPolicy(options, sig, count, active, tileCells) \in {"dense", "compact", "tiled"}
<1> DEFINE width == StateWidth(sig)
           cost == Costs(count, active, tileCells, width)
           selectable == IF options.compiled /\ sig[1] \in DispersiveModels
                         THEN {"compact"} ELSE Range(Layouts)
           best == {i \in DOMAIN Layouts : /\ Layouts[i] \in selectable
                      /\ \A l \in selectable : cost[Layouts[i]] <= cost[l]}
<1>1. /\ Layouts[1] = "dense" /\ Layouts[2] = "compact" /\ Layouts[3] = "tiled"
      /\ DOMAIN Layouts = 1..3
  BY DEF Layouts
<1>2. Range(Layouts) = {"dense", "compact", "tiled"}
  BY <1>1 DEF Range
<1>3. width \in Nat
  BY WidthNatural
<1> HIDE DEF width
<1>4. cost["dense"] \in Nat /\ cost["compact"] \in Nat /\ cost["tiled"] \in Nat
  BY <1>3 DEF Costs
<1>5. selectable # {} /\ selectable \subseteq {"dense", "compact", "tiled"}
  BY <1>2
<1> HIDE DEF cost, selectable
<1>6. PICK l \in selectable : \A m \in selectable : cost[l] <= cost[m]
  <2>1. \A m \in selectable : cost[m] \in Nat
    BY <1>4, <1>5
  <2> QED BY <1>5, <2>1, CheapestExists
<1>7. best # {} /\ best \subseteq 1..3
  <2>1. PICK i \in 1..3 : Layouts[i] = l
    BY <1>1, <1>5
  <2>2. i \in best
    BY <1>1, <1>6, <2>1
  <2> QED BY <1>1, <2>2
<1>8. SelectPolicy(options, sig, count, active, tileCells)
        = IF options.policy # "auto" THEN options.policy ELSE Layouts[Min(best)]
  BY Zenon DEF SelectPolicy, best, selectable, cost, width
<1> HIDE DEF best
<1>9. Min(best) \in 1..3
  <2>2. best \subseteq Nat /\ best # {}
    BY <1>7
  <2>1. \E x \in best : \A y \in best : x <= y
    BY <2>2, LeastExists
  <2> QED BY <1>7, <2>1 DEF Min
<1> QED BY <1>1, <1>8, <1>9

\* A tiled bucket has the slots of its cells.
LEMMA BucketSlots ==
  ASSUME NEW s, Grown(s), NEW options, options.tile \in Nat \ {0},
         options.policy \in {"auto", "dense", "compact", "tiled"},
         NEW g, NEW c, NEW sig \in Range(Models) \X Nat \X Nat,
         NEW active, IsFiniteSet(active), active \subseteq Int,
         NEW S, S = {i \in active : ModelAt(s, g, c, i) = sig}
  PROVE  LET b == Bucket(s, options, g, c, sig, active)
         IN  \/ b.policy \in {"dense", "compact"}
             \/ \E L \in Nat : \E q : Slots(b, options.tile, S, L, q)
<1> DEFINE tile == options.tile
           targets == Ordered(S, Before)
           cellKeys == [k \in DOMAIN targets |-> KeyAt(s, g, c, targets[k])]
           keys == Ordered(Range(cellKeys), PairBefore)
           regions == [k \in DOMAIN targets |-> Position(keys, cellKeys[k])]
           q == Regions(s, g, c, targets)
           n == Cardinality(active)
           places == {targets[k] \div tile : k \in DOMAIN targets}
           tiles == Ordered(places, Before)
           b == Bucket(s, options, g, c, sig, active)
           policy == SelectPolicy(options, sig, Len(targets), n, Len(tiles) * tile)
           region(i) == IF i \in Range(targets) THEN regions[Position(targets, i)] ELSE 0
<1>0. q.targets = targets /\ q.regions = regions
  BY Zenon DEF Regions
<1> HIDE DEF q, n, regions
<1>1. /\ b.policy = policy
      /\ policy = "tiled" =>
           /\ b.origins = [t \in DOMAIN tiles |-> tiles[t] * tile]
           /\ b.tileRegions = [t \in DOMAIN tiles |-> [o \in 0..(tile - 1) |->
                                                       region(tiles[t] * tile + o)]]
  <2> DEFINE Q == BucketPlan(s, options, g, c, sig, n, q)
             tiled == IF policy = "tiled" THEN DOMAIN tiles ELSE {}
  <2>1. b = Q
    BY DEF Bucket, q, n
  <2>2. Q.origins = [t \in tiled |-> tiles[t] * tile]
    BY <1>0, Zenon DEF BucketPlan
  <2>3. Q.tileRegions = [t \in tiled |-> [o \in 0..(tile - 1) |-> region(tiles[t] * tile + o)]]
    BY <1>0, Zenon DEF BucketPlan
  <2>4. Q.policy = policy
    BY <1>0, Zenon DEF BucketPlan
  <2>5. policy = "tiled" => tiled = DOMAIN tiles
    OBVIOUS
  <2> HIDE DEF Q, tiled, b, targets, tiles, policy
  <2> QED BY <2>1, <2>2, <2>3, <2>4, <2>5
<1>2. IsFiniteSet(S) /\ S \subseteq Int
  BY FS_Subset
<1>3. Listed(targets, S)
  BY <1>2, OrderedIntegers
<1> HIDE DEF targets, b, policy
<1>4. \A k \in DOMAIN targets : targets[k] \in S
  BY <1>3 DEF Listed, Lists
<1>5. IsFiniteSet(DOMAIN targets) /\ \E m \in Nat : DOMAIN targets = 1..m
  <2>1. PICK m \in Nat : DOMAIN targets = 1..m
    BY <1>3 DEF Listed
  <2>2. IsFiniteSet(1..m)
    BY FS_Interval
  <2> QED BY <2>1, <2>2
<1>6. IsFiniteSet(places) /\ places \subseteq Int
  <2>1. places \subseteq Int
    BY <1>2, <1>4, Division
  <2> DEFINE f == [k \in DOMAIN targets |-> targets[k] \div tile]
  <2>2. f \in Surjection(DOMAIN targets, places)
    BY DEF Surjection
  <2> HIDE DEF f, places
  <2> QED BY <1>5, <2>1, <2>2, FS_Surjection
<1>7. \A k \in DOMAIN targets : targets[k] \div tile \in places
  OBVIOUS
<1> HIDE DEF places
<1>8. /\ Listed(tiles, places)
      /\ \A t, u \in DOMAIN tiles : t < u => tiles[t] < tiles[u]
  BY <1>6, OrderedIncreases
<1> HIDE DEF tiles
<1>9. PICK L \in Nat : DOMAIN tiles = 1..L
  BY <1>8 DEF Listed
<1>10. \A t \in 1..L : tiles[t] \in Int
  BY <1>6, <1>8, <1>9 DEF Listed, Lists
<1>11. \A k \in DOMAIN targets : regions[k] > 0
  <2> SUFFICES ASSUME NEW k \in DOMAIN targets PROVE regions[k] > 0
    OBVIOUS
  <2>1. Range(cellKeys) \subseteq Int \X Int
    BY KeyType DEF Range, KeyAt
  <2>2. cellKeys \in Surjection(DOMAIN targets, Range(cellKeys))
    BY DEF Surjection, Range
  <2>3. cellKeys[k] \in Range(cellKeys)
    BY DEF Range
  <2>6. regions[k] = Position(keys, cellKeys[k])
    BY DEF regions
  <2> HIDE DEF cellKeys
  <2>4. IsFiniteSet(Range(cellKeys))
    BY <1>5, <2>2, FS_Surjection
  <2>5. Listed(keys, Range(cellKeys))
    BY <2>1, <2>4, OrderedPairs
  <2> HIDE DEF keys
  <2>7. Position(keys, cellKeys[k]) \in DOMAIN keys
    BY <2>3, <2>5, PositionIs DEF Listed
  <2> QED BY <2>5, <2>6, <2>7 DEF Listed
<1>12. \A i : region(i) > 0 <=> i \in S
  <2> SUFFICES ASSUME NEW i PROVE region(i) > 0 <=> i \in S
    OBVIOUS
  <2>1. i \in Range(targets) <=> i \in S
    BY <1>3 DEF Range, Listed, Lists
  <2>2. i \in S => Position(targets, i) \in DOMAIN targets
    BY <1>3, PositionIs DEF Listed
  <2>3. i \notin S => region(i) = 0
    BY <2>1
  <2>4. i \in S => region(i) > 0
    BY <1>11, <2>1, <2>2
  <2> QED BY <2>3, <2>4
<1> HIDE DEF region
<1>13. \A x \in S : \E t \in 1..L : tiles[t] = x \div tile
  <2> SUFFICES ASSUME NEW x \in S PROVE \E t \in 1..L : tiles[t] = x \div tile
    OBVIOUS
  <2>1. PICK k \in DOMAIN targets : targets[k] = x
    BY <1>3 DEF Listed, Lists
  <2>2. x \div tile \in places
    BY <1>7, <2>1
  <2> QED BY <1>8, <1>9, <2>2 DEF Listed, Lists
<1>14. b.policy \in {"dense", "compact", "tiled"}
  <2>1. Len(targets) \in Nat
    <3>1. PICK m \in Nat : DOMAIN targets = 1..m
      BY <1>5
    <3>2. targets = [k \in 1..m |-> targets[k]]
      BY <3>1, OrderedIs DEF targets
    <3> QED BY <3>1, <3>2
  <2>2. n \in Nat
    BY FS_CardinalityType DEF n
  <2>3. Len(tiles) * tile \in Nat
    <3>1. tiles = [k \in 1..L |-> tiles[k]]
      BY <1>9, OrderedIs DEF tiles
    <3>2. Len(tiles) = L
      BY <1>9, <3>1
    <3> QED BY <3>2
  <2> HIDE DEF tile, n
  <2> QED BY <1>1, <2>1, <2>2, <2>3, LayoutChosen DEF policy
<1>15. CASE b.policy = "tiled"
  <2>1. /\ b.origins = [t \in 1..L |-> tiles[t] * tile]
        /\ b.tileRegions = [t \in 1..L |-> [o \in 0..(tile - 1) |-> region(tiles[t] * tile + o)]]
    BY <1>1, <1>9, <1>15
  <2>2. Len(b.origins) = L
    BY <2>1
  <2>3. \A t \in 1..L : tiles[t] \in Int /\ b.origins[t] = tiles[t] * tile
    BY <1>10, <2>1
  <2>4. \A t, u \in 1..L : t < u => tiles[t] < tiles[u]
    BY <1>8, <1>9
  <2>5. \A t \in 1..L : \A o \in 0..(tile - 1) :
          b.tileRegions[t][o] > 0 <=> tiles[t] * tile + o \in S
    BY <1>12, <2>1
  <2> HIDE DEF tile
  <2>6. Slots(b, tile, S, L, tiles)
    BY <1>13, <2>2, <2>3, <2>4, <2>5 DEF Slots
  <2> QED BY <2>6 DEF tile, b
<1> QED BY <1>14, <1>15 DEF b

\* Whatever the layout of a bucket, its cells are written in the order of its rows.
LEMMA BucketWrites ==
  ASSUME NEW s, Grown(s), NEW options, options.tile \in Nat \ {0},
         options.policy \in {"auto", "dense", "compact", "tiled"},
         NEW g, NEW c, NEW sig \in Range(Models) \X Nat \X Nat,
         NEW active, IsFiniteSet(active), active \subseteq Int
  PROVE  LET b == Bucket(s, options, g, c, sig, active)
         IN  WriteTargets(b, options.tile) = b.targets
<1> DEFINE S == {i \in active : ModelAt(s, g, c, i) = sig}
           b == Bucket(s, options, g, c, sig, active)
<1>1. /\ b.targets = Ordered(S, Before) /\ b.signature = sig
      /\ b.residual = IF SparseBucket(s, options, c, b)
                      THEN [axis \in 1..2 |-> Residual(b.targets, b.cells, axis)] ELSE <<>>
  BY BucketResidual
<1>2. IsFiniteSet(S) /\ S \subseteq Int
  BY FS_Subset
<1>3. \/ b.policy \in {"dense", "compact"}
      \/ \E L \in Nat : \E q : Slots(b, options.tile, S, L, q)
  BY BucketSlots
<1> HIDE DEF b, S
<1>4. Listed(b.targets, S)
  BY <1>1, <1>2, OrderedIntegers
<1>5. CASE b.policy = "dense"
  <2>1. Range(b.targets) = S
    BY <1>4 DEF Listed, Lists, Range
  <2>2. WriteTargets(b, options.tile) = b.targets
    BY <1>1, <1>5, <2>1 DEF WriteTargets
  <2> QED BY <2>2 DEF b
<1>6. CASE b.policy = "compact"
  <2>1. WriteTargets(b, options.tile) = b.targets
    BY <1>6 DEF WriteTargets
  <2> QED BY <2>1 DEF b
<1>7. CASE b.policy # "dense" /\ b.policy # "compact"
  <2>1. WriteTargets(b, options.tile) = TiledTargets(b, options.tile)
    BY <1>7 DEF WriteTargets
  <2>2. TiledTargets(b, options.tile) = Ordered(S, Before)
    <3>1. PICK L \in Nat : \E q : Slots(b, options.tile, S, L, q)
      BY <1>3, <1>7
    <3>0. PICK q : Slots(b, options.tile, S, L, q)
      BY <3>1
    <3>2. ASSUME NEW n \in Nat \ {0}, NEW l \in Nat, Tiling(b, n, S, l, q)
          PROVE  TiledTargets(b, n) = Ordered(S, Before)
      BY <3>2, TiledOrder
    <3>3. Tiling(b, options.tile, S, L, q)
      BY <1>2, <3>0 DEF Tiling
    <3> QED BY <3>1, <3>2, <3>3
  <2>3. WriteTargets(b, options.tile) = b.targets
    BY <1>1, <2>1, <2>2
  <2> QED BY <2>3 DEF b
<1> QED BY <1>5, <1>6, <1>7

\* Whatever its layout, a bucket of a simulation writes its targets, in order.
LEMMA BuiltWritten ==
  ASSUME NEW s, WellFormed(s), NEW of, Built(of, s), NEW d \in Buckets(of.plan)
  PROVE  WriteTargets(BucketOf(of.plan, d), of.options.tile) = BucketOf(of.plan, d).targets
<1> DEFINE g == Serial(s.n)
           c == d[1]
           o == d[2]
           sigs == Signatures(s, g, c)
           active == ActiveTargets(g, c)
           P1 == Plan(s, of.options, g)
           sig == sigs[o]
           k == of.options
           b == Bucket(s, k, g, c, sig, active)
<1>1. c \in Component /\ o \in DOMAIN of.plan[c].buckets
  BY BuiltFurnished
<1>2. /\ of.plan = P1 /\ of.options.tile \in Nat \ {0}
      /\ of.options.policy \in {"auto", "dense", "compact", "tiled"}
  <2>1. of.plan = P1 /\ of.options \in Range(Configs)
    BY BuiltFields
  <2> QED BY <2>1, ConfigAssumption DEF Range
<1>3. P1[c].buckets = [p \in DOMAIN sigs |-> Bucket(s, of.options, g, c, sigs[p], active)]
  BY <1>1, PlanIs
<1>4. IsFiniteSet(active) /\ active \subseteq Int
  BY <1>1, SerialViewed, ActiveFinite
<1>5. \A p \in DOMAIN sigs : sigs[p] \in Range(Models) \X Nat \X Nat
  BY <1>1, WellFormedIsGrown, SerialViewed, SignaturesListed
<1>6. Grown(s)
  BY WellFormedIsGrown
<1> HIDE DEF g, sigs, active, P1, c, o
<1>7. o \in DOMAIN sigs /\ BucketOf(of.plan, d) = b
  <2>1. o \in DOMAIN P1[c].buckets
    BY <1>1, <1>2
  <2>2. o \in DOMAIN sigs /\ P1[c].buckets[o] = b
    BY <1>3, <2>1
  <2> QED BY <1>2, <2>2 DEF BucketOf, c, o
<1>8. sig \in Range(Models) \X Nat \X Nat
  BY <1>5, <1>7
<1> HIDE DEF sig
<1> HIDE DEF k
<1>9. k.tile \in Nat \ {0} /\ k.policy \in {"auto", "dense", "compact", "tiled"}
  BY <1>2 DEF k
<1>10. WriteTargets(b, k.tile) = b.targets
  BY <1>4, <1>6, <1>8, <1>9, BucketWrites
<1> QED BY <1>7, <1>10 DEF k

-----------------------------------------------------------------------------
\* The flat index of the cell of a flat index.
LEMMA FlatUnflat ==
  ASSUME NEW shape, Filled(shape), NEW i \in 0..(Total(shape) - 1)
  PROVE  Flat(shape, Unflat(shape, i)) = i
<1> DEFINE m == shape[2]
           l == shape[3]
           z == i % l
           h == i \div l
           y == h % m
           x == h \div m
<1>1. m \in Nat \ {0} /\ l \in Nat \ {0} /\ i \in Int
  BY DEF Filled, Axes, Total
<1>2. /\ Unflat(shape, i) = << i \div (m * l), y, z >>
      /\ \A u, v, w : Flat(shape, << u, v, w >>) = (u * m + v) * l + w
  BY DEF Unflat, Flat
<1> HIDE DEF m, l
<1>3. h \in Int /\ z \in 0..(l - 1) /\ i = l * h + z
  BY <1>1, Division
<1> HIDE DEF h, z
<1>4. x \in Int /\ y \in 0..(m - 1) /\ h = m * x + y
  BY <1>1, <1>3, Division
<1> HIDE DEF x, y
<1>5. l * h = (m * l) * x + l * y
  <2>1. l * (m * x + y) = l * (m * x) + l * y
    BY <1>1, <1>4
  <2>2. l * (m * x) = (l * m) * x /\ l * m = m * l
    BY <1>1, <1>4
  <2> QED BY <1>4, <2>1, <2>2
<1>6. i = (m * l) * x + (l * y + z)
  <2>1. (m * l) * x \in Int /\ l * y \in Int
    BY <1>1, <1>4
  <2> QED BY <1>3, <1>5, <2>1
<1>7. m * l \in Nat \ {0} /\ l * y + z \in 0..(m * l - 1)
  <2>1. m * l \in Nat \ {0} /\ l * y \in Nat
    BY <1>1, <1>4
  <2>2. l * (y + 1) <= l * m
    BY <1>1, <1>4, Grows
  <2>3. l * (y + 1) = l * y + l /\ l * m = m * l
    BY <1>1, <1>4
  <2> QED BY <1>1, <1>3, <2>1, <2>2, <2>3
<1>8. i \div (m * l) = x
  BY <1>4, <1>6, <1>7, Quotient
<1>9. (x * m + y) * l + z = i
  <2>1. x * m = m * x /\ (m * x + y) * l = l * (m * x + y)
    BY <1>1, <1>4
  <2> QED BY <1>3, <1>4, <2>1
<1> QED BY <1>2, <1>8, <1>9

\* The cells to update and their flat indices.
LEMMA TargetCell ==
  ASSUME NEW s, WellFormed(s), NEW c \in Component, NEW i \in ActiveTargets(Serial(s.n), c)
  PROVE  LET shape == Shape(Serial(s.n), c)
             v == Unflat(shape, i)
         IN  v \in CellsOf(s, c) /\ InShape(v, shape) /\ InBounds(shape, c, v) /\ Flat(shape, v) = i
<1> DEFINE shape == Shape(Serial(s.n), c)
           v == Unflat(shape, i)
<1>1. Filled(shape)
  BY SerialViewed, ShapeSized
<1>2. i \in 0..(Total(shape) - 1) /\ InBounds(shape, c, v)
  BY DEF ActiveTargets
<1> HIDE DEF shape
<1>3. InShape(v, shape) /\ Flat(shape, v) = i
  BY <1>1, <1>2, UnflatInShape, FlatUnflat
<1>4. v = [a \in Axes |-> v[a]]
  BY UnflatIs
<1> HIDE DEF v
<1>5. v \in CellsOf(s, c)
  BY <1>3, <1>4, CellIs DEF shape
<1> QED BY <1>2, <1>3, <1>5 DEF shape, v

\* The flat index of a cell names it, and is a target exactly of an active cell.
LEMMA CellTarget ==
  ASSUME NEW s, WellFormed(s), NEW c \in Component, NEW v \in CellsOf(s, c)
  PROVE  LET shape == Shape(Serial(s.n), c)
         IN  /\ Unflat(shape, Flat(shape, v)) = v
             /\ InBounds(shape, c, v) <=> Flat(shape, v) \in ActiveTargets(Serial(s.n), c)
<1> DEFINE shape == Shape(Serial(s.n), c)
           w == Unflat(shape, Flat(shape, v))
<1>1. Filled(shape)
  BY SerialViewed, ShapeSized
<1>2. v = << v[1], v[2], v[3] >> /\ InShape(v, shape)
  BY CellInShape
<1> HIDE DEF shape
<1>3. /\ Flat(shape, v) \in 0..(Total(shape) - 1)
      /\ \A a \in Axes : w[a] = v[a]
  BY <1>1, <1>2, FlatInverse
<1>4. w = << w[1], w[2], w[3] >>
  BY DEF Unflat
<1> HIDE DEF w
<1>5. w = v
  BY <1>2, <1>3, <1>4 DEF Axes
<1>6. InBounds(shape, c, v) <=> Flat(shape, v) \in ActiveTargets(Serial(s.n), c)
  BY <1>3, <1>5 DEF ActiveTargets, shape, w
<1> QED BY <1>5, <1>6 DEF shape, w

-----------------------------------------------------------------------------
(***************************************************************************)
(* What a half step makes of the k-th cell of bucket d, from the wrapped   *)
(* fields G and the memory M it starts with; what the dense update alone   *)
(* makes of it; and the fields and memory H, N after the stages that have  *)
(* completed the buckets of D.                                             *)
(***************************************************************************)
TargetOf(d, k) == BucketOf(sim.plan, d).targets[k]
RowsOf(d) == DOMAIN BucketOf(sim.plan, d).targets
FamilyOf(family) == {d \in Buckets(sim.plan) : d[1][1] = family}

Pair(G, c, i) == [j \in 1..2 |-> GatherDifference(G, c, PmlTerms(c)[j], i)]

Fresh(G, M, d, k) ==
  LET b   == BucketOf(sim.plan, d)
      e   == FieldAt(G, d[1], TargetOf(d, k))
      row == LogicalRow(M, d, k)
      curl == IndexedCurl(G, d[1], TargetOf(d, k))
  IN  CASE b.signature[1] = "dielectric" -> [field |-> (e + TargetRow(b, k)[1] * curl) % P]
        [] b.signature[1] = "const" -> [field |-> TargetRow(b, k)[2]]
        [] b.signature[1] \in {"dummy", "dm2"} -> [field |-> e]
        [] b.signature[1] \in Absorbers ->
             AbsorberUpdate(b.signature, b.cells[k], row, e, Pair(G, d[1], TargetOf(d, k)),
                            Direction(d[1]))
        [] OTHER -> Recurrence(b.signature, TargetRow(b, k)[2], row, e, curl)

Densed(G, d, k) ==
  (FieldAt(G, d[1], TargetOf(d, k))
     + DenseInverse(BucketOf(sim.plan, d), k) * IndexedCurl(G, d[1], TargetOf(d, k))) % P

FieldStage(H, G, M, D, family) ==
  /\ \A c \in Component : c[1] # family => H[c] = G[c]
  /\ \A c \in Component : c[1] = family =>
       \A v \in CellsOf(This, c) : ~InBounds(ShapeOf(c), c, v) => H[c][v] = G[c][v]
  /\ \A d \in FamilyOf(family) : \A k \in RowsOf(d) :
       FieldAt(H, d[1], TargetOf(d, k)) = IF d \in D THEN Fresh(G, M, d, k).field ELSE Densed(G, d, k)

RowStage(N, G, M, D) ==
  \A d \in sim.stateful : \A k \in RowsOf(d) :
    LogicalRow(N, d, k) = IF d \in D THEN Fresh(G, M, d, k).row ELSE LogicalRow(M, d, k)

Stage(S, G, M, D, family) ==
  Held(S) /\ FieldStage(S.F, G, M, D, family) /\ RowStage(S.mem, G, M, D)

\* The cells of the buckets of a simulation.
LEMMA BucketCells ==
  ASSUME WellFormed(This), Built(sim, This)
  PROVE  /\ \A d \in Buckets(sim.plan) :
              /\ d[1] \in Component /\ Distinctly(BucketOf(sim.plan, d).targets)
              /\ Furnished(BucketOf(sim.plan, d), This, sim.options, d[1])
              /\ \A k \in RowsOf(d) : TargetOf(d, k) \in ActiveTargets(Serial(This.n), d[1])
         /\ \A d, e \in Buckets(sim.plan) : \A j \in RowsOf(d) : \A k \in RowsOf(e) :
              d[1] = e[1] /\ TargetOf(d, j) = TargetOf(e, k) => d = e /\ j = k
         /\ \A c \in Component : \A i \in ActiveTargets(Serial(This.n), c) :
              \E d \in Buckets(sim.plan) : \E k \in RowsOf(d) : d[1] = c /\ TargetOf(d, k) = i
<1> DEFINE B(c) == sim.plan[c].buckets
<1>1. sim.plan = Plan(This, sim.options, Serial(This.n))
  BY BuiltFields
<1>2. ASSUME NEW d \in Buckets(sim.plan)
      PROVE  /\ d[1] \in Component /\ d[2] \in DOMAIN B(d[1]) /\ d = << d[1], d[2] >>
             /\ Furnished(BucketOf(sim.plan, d), This, sim.options, d[1])
             /\ BucketOf(sim.plan, d) = B(d[1])[d[2]]
             /\ Distinctly(BucketOf(sim.plan, d).targets)
             /\ \A k \in RowsOf(d) : TargetOf(d, k) \in ActiveTargets(Serial(This.n), d[1])
  <2>1. d[1] \in Component /\ d[2] \in DOMAIN B(d[1]) /\ d = << d[1], d[2] >>
    BY BuiltFurnished
  <2>2. Furnished(BucketOf(sim.plan, d), This, sim.options, d[1])
    BY BuiltFurnished
  <2>3. BucketOf(sim.plan, d) = B(d[1])[d[2]]
    BY DEF BucketOf
  <2>4. Own(This, sim.options, d[1], d[2])
    BY <1>1, <2>1, BucketOwns
  <2>5. Distinctly(BucketOf(sim.plan, d).targets)
    BY <1>1, <2>3, <2>4 DEF Own
  <2>6. \A k \in RowsOf(d) : TargetOf(d, k) \in ActiveTargets(Serial(This.n), d[1])
    BY <2>2 DEF Furnished, RowsOf, TargetOf
  <2> QED BY <2>1, <2>2, <2>3, <2>5, <2>6
<1>3. ASSUME NEW c \in Component
      PROVE  /\ \A o, p \in DOMAIN B(c) : \A j \in DOMAIN B(c)[o].targets :
                  \A k \in DOMAIN B(c)[p].targets :
                    B(c)[o].targets[j] = B(c)[p].targets[k] => o = p
             /\ \A i \in ActiveTargets(Serial(This.n), c) :
                  \E o \in DOMAIN B(c) : \E k \in DOMAIN B(c)[o].targets : B(c)[o].targets[k] = i
  <2> DEFINE C == Plan(This, sim.options, Serial(This.n))[c].buckets
  <2>1. Parted(C, ActiveTargets(Serial(This.n), c))
    BY BucketsPartition
  <2>2. B(c) = C
    BY <1>1
  <2> HIDE DEF B, C
  <2> QED BY <2>1, <2>2 DEF Parted
<1>4. ASSUME NEW d \in Buckets(sim.plan), NEW e \in Buckets(sim.plan),
             NEW j \in RowsOf(d), NEW k \in RowsOf(e), d[1] = e[1], TargetOf(d, j) = TargetOf(e, k)
      PROVE  d = e /\ j = k
  <2>1. d[2] = e[2]
    BY <1>2, <1>3, <1>4 DEF RowsOf, TargetOf
  <2>2. d = e
    BY <1>2, <1>4, <2>1
  <2> QED BY <1>2, <1>4, <2>2 DEF Distinctly, RowsOf, TargetOf
<1>5. ASSUME NEW c \in Component, NEW i \in ActiveTargets(Serial(This.n), c)
      PROVE  \E d \in Buckets(sim.plan) : \E k \in RowsOf(d) : d[1] = c /\ TargetOf(d, k) = i
  <2>1. PICK o \in DOMAIN B(c) : \E k \in DOMAIN B(c)[o].targets : B(c)[o].targets[k] = i
    BY <1>3
  <2>2. <<c, o>> \in Buckets(sim.plan)
    BY <2>1 DEF Buckets
  <2> QED BY <2>1, <2>2 DEF RowsOf, TargetOf, BucketOf
<1> QED BY <1>2, <1>4, <1>5

\* Writing the fresh fields of buckets of one component completes them.
Writing(c, E, rows, targets) ==
  /\ c \in Component /\ \A d \in E : d \in Buckets(sim.plan) /\ d[1] = c
  /\ \E n \in Nat : DOMAIN rows = 1..n /\ DOMAIN targets = 1..n
  /\ \A j \in DOMAIN rows :
       /\ rows[j] = << rows[j][1], rows[j][2] >> /\ rows[j][1] \in E
       /\ rows[j][2] \in RowsOf(rows[j][1])
       /\ targets[j] = TargetOf(rows[j][1], rows[j][2])
  /\ \A i, j \in DOMAIN rows : rows[i] = rows[j] => i = j
  /\ \A d \in E : \A k \in RowsOf(d) : \E j \in DOMAIN rows : rows[j] = <<d, k>>

\* Scattering the fresh values of some buckets completes them.
LEMMA ScatterStage ==
  ASSUME WellFormed(This), Built(sim, This), NEW G, NEW M, NEW D, NEW family,
         NEW H, Arrays(This, H), FieldStage(H, G, M, D, family),
         NEW c, c[1] = family, NEW E, NEW rows, NEW targets, Writing(c, E, rows, targets),
         NEW values, \A j \in DOMAIN rows : values[j] = Fresh(G, M, rows[j][1], rows[j][2]).field
  PROVE  FieldStage(Scatter(H, c, targets, values), G, M, D \cup E, family)
<1> DEFINE N == Scatter(H, c, targets, values)
           Cell(d, k) == Unflat(ShapeOf(d[1]), TargetOf(d, k))
<1>1. /\ \A d \in Buckets(sim.plan) : d[1] \in Component
      /\ \A d \in Buckets(sim.plan) : \A k \in RowsOf(d) :
           TargetOf(d, k) \in ActiveTargets(Serial(This.n), d[1])
  BY BucketCells
<1>2. \A d, e \in Buckets(sim.plan) : \A j \in RowsOf(d) : \A k \in RowsOf(e) :
        d[1] = e[1] /\ TargetOf(d, j) = TargetOf(e, k) => d = e /\ j = k
  BY BucketCells
<1>3. \A j \in DOMAIN rows : /\ rows[j][1] \in Buckets(sim.plan) /\ rows[j][1][1] = c
                             /\ targets[j] = TargetOf(rows[j][1], rows[j][2])
                             /\ rows[j][2] \in RowsOf(rows[j][1])
  BY DEF Writing
<1>4. Distinctly(targets)
  <2>1. ASSUME NEW i \in DOMAIN rows, NEW j \in DOMAIN rows, targets[i] = targets[j] PROVE i = j
    <3>1. rows[i][1] = rows[j][1] /\ rows[i][2] = rows[j][2]
      BY <1>2, <1>3, <2>1
    <3> QED BY <3>1 DEF Writing
  <2> QED BY <2>1 DEF Distinctly, Writing
<1>5. /\ \A x \in Component : x # c => N[x] = H[x]
      /\ \A v \in DOMAIN H[c] : \A k \in DOMAIN targets :
           targets[k] = Flat(ShapeOf(c), v) => N[c][v] = values[k]
      /\ \A v \in DOMAIN H[c] :
           (\A k \in DOMAIN targets : targets[k] # Flat(ShapeOf(c), v)) => N[c][v] = H[c][v]
  BY <1>4, ScatterAt DEF Writing
<1>6. c \in Component /\ DOMAIN H[c] = CellsOf(This, c) /\ DOMAIN targets = DOMAIN rows
  BY DEF Writing, Arrays
<1> HIDE DEF N
<1>7. ASSUME NEW x \in Component, x[1] # family PROVE N[x] = G[x]
  BY <1>5, <1>7 DEF FieldStage
<1>8. ASSUME NEW x \in Component, x[1] = family, NEW v \in CellsOf(This, x),
             ~InBounds(ShapeOf(x), x, v)
      PROVE  N[x][v] = G[x][v]
  <2>1. H[x][v] = G[x][v]
    BY <1>8 DEF FieldStage
  <2>2. CASE x # c
    BY <1>5, <2>1, <2>2
  <2>3. CASE x = c
    <3>1. Flat(ShapeOf(c), v) \notin ActiveTargets(Serial(This.n), c)
      BY <1>8, <2>3, CellTarget DEF ShapeOf
    <3>2. \A k \in DOMAIN targets : targets[k] # Flat(ShapeOf(c), v)
      BY <1>1, <1>3, <1>6, <3>1
    <3> QED BY <1>5, <1>6, <1>8, <2>1, <2>3, <3>2
  <2> QED BY <2>2, <2>3
<1>9. ASSUME NEW d \in FamilyOf(family), NEW k \in RowsOf(d)
      PROVE  FieldAt(N, d[1], TargetOf(d, k))
               = IF d \in D \cup E THEN Fresh(G, M, d, k).field ELSE Densed(G, d, k)
  <2> DEFINE v == Cell(d, k)
  <2>1. d \in Buckets(sim.plan) /\ d[1] \in Component /\ d[1][1] = family
    BY <1>1 DEF FamilyOf
  <2>2. v \in CellsOf(This, d[1]) /\ Flat(ShapeOf(d[1]), v) = TargetOf(d, k)
    BY <1>1, <2>1, TargetCell DEF ShapeOf
  <2>3. /\ FieldAt(N, d[1], TargetOf(d, k)) = N[d[1]][v]
        /\ FieldAt(H, d[1], TargetOf(d, k)) = H[d[1]][v]
    BY DEF FieldAt
  <2>4. FieldAt(H, d[1], TargetOf(d, k)) = IF d \in D THEN Fresh(G, M, d, k).field ELSE Densed(G, d, k)
    BY DEF FieldStage
  <2> HIDE DEF v
  <2>5. CASE d \in E
    <3>1. d[1] = c
      BY <2>5 DEF Writing
    <3>2. PICK j \in DOMAIN rows : rows[j] = <<d, k>>
      BY <2>5 DEF Writing
    <3>3. targets[j] = Flat(ShapeOf(c), v) /\ values[j] = Fresh(G, M, d, k).field
      BY <1>3, <2>2, <3>1, <3>2
    <3>4. N[c][v] = values[j]
      BY <1>5, <1>6, <2>2, <3>1, <3>3
    <3> QED BY <2>3, <2>5, <3>1, <3>3, <3>4
  <2>6. CASE d \notin E
    <3>1. N[d[1]][v] = H[d[1]][v]
      <4>1. CASE d[1] # c
        BY <1>5, <2>1, <4>1
      <4>2. CASE d[1] = c
        <5>1. ASSUME NEW j \in DOMAIN targets, targets[j] = Flat(ShapeOf(c), v) PROVE FALSE
          <6>1. rows[j][1] = d
            BY <1>2, <1>3, <1>6, <2>1, <2>2, <4>2, <5>1
          <6> QED BY <1>6, <2>6, <6>1 DEF Writing
        <5> QED BY <1>5, <1>6, <2>2, <4>2, <5>1
      <4> QED BY <4>1, <4>2
    <3> QED BY <2>3, <2>4, <2>6, <3>1
  <2> QED BY <2>5, <2>6
<1>10. FieldStage(N, G, M, D \cup E, family)
  BY <1>7, <1>8, <1>9 DEF FieldStage
<1> QED BY <1>10 DEF N

-----------------------------------------------------------------------------
\* The terms of an absorber are those of the stencil, and its difference is the curl.
LEMMA PmlTermsAre ==
  ASSUME NEW c \in Component
  PROVE  \/ Direction(c) = 1 /\ PmlTerms(c)[1] = Stencil(c)[1] /\ PmlTerms(c)[2] = Stencil(c)[2]
         \/ Direction(c) = -1 /\ PmlTerms(c)[1] = Stencil(c)[2] /\ PmlTerms(c)[2] = Stencil(c)[1]
<1>1. CASE c[1] = "E"
  BY <1>1 DEF PmlTerms, Direction
<1>2. CASE c[1] # "E"
  <2> DEFINE q == Stencil(c)
  <2>1. Len(q) = 2
    BY <1>2 DEF Stencil
  <2> HIDE DEF q
  <2>2. PmlTerms(c) = Reverse(q)
    BY <1>2 DEF PmlTerms, q
  <2>3. PmlTerms(c)[1] = q[2] /\ PmlTerms(c)[2] = q[1]
    BY <2>1, <2>2 DEF Reverse
  <2>4. Direction(c) = -1
    BY <1>2 DEF Direction
  <2> QED BY <2>3, <2>4 DEF q
<1> QED BY <1>1, <1>2

\* The two terms of a stencil have opposite signs and read the other family.
LEMMA StencilSigns ==
  ASSUME NEW c \in Component
  PROVE  /\ Stencil(c)[1].sign = 1 /\ Stencil(c)[2].sign = -1
         /\ \A j \in 1..2 : Stencil(c)[j].source \in Component /\ Stencil(c)[j].source[1] # c[1]
<1>1. c[1] \in {"E", "H"} /\ c[2] \in Axes /\ AxisB(c[2]) \in Axes /\ AxisC(c[2]) \in Axes
  BY OtherAxes DEF Component
<1> DEFINE y == AxisB(c[2])
           z == AxisC(c[2])
<1>2. /\ Stencil(c)[1].sign = 1 /\ Stencil(c)[2].sign = -1
      /\ Stencil(c)[1].source = << IF c[1] = "E" THEN "H" ELSE "E", IF c[1] = "E" THEN z ELSE y >>
      /\ Stencil(c)[2].source = << IF c[1] = "E" THEN "H" ELSE "E", IF c[1] = "E" THEN y ELSE z >>
  BY <1>1 DEF Stencil, Term
<1> HIDE DEF y, z
<1>3. y \in Axes /\ z \in Axes
  BY <1>1 DEF y, z
<1>4. \A j \in 1..2 : \E a \in Axes : Stencil(c)[j].source = << IF c[1] = "E" THEN "H" ELSE "E", a >>
  <2> TAKE j \in 1..2
  <2>1. j = 1 \/ j = 2
    OBVIOUS
  <2> QED BY <1>2, <1>3, <2>1
<1>5. \A j \in 1..2 : Stencil(c)[j].source \in Component /\ Stencil(c)[j].source[1] # c[1]
  <2> TAKE j \in 1..2
  <2>1. PICK a \in Axes : Stencil(c)[j].source = << IF c[1] = "E" THEN "H" ELSE "E", a >>
    BY <1>4
  <2> DEFINE x == Stencil(c)[j].source
  <2> HIDE DEF x
  <2>2. x = << IF c[1] = "E" THEN "H" ELSE "E", a >>
    BY <2>1 DEF x
  <2>3. x \in Component /\ x[1] # c[1]
    BY <1>1, <2>2 DEF Component
  <2> QED BY <2>3 DEF x
<1> QED BY <1>2, <1>5

\* The indexed curl is the signed difference of the pair an absorber reads.
LEMMA CurlOfPair ==
  ASSUME WellFormed(This), NEW G, Arrays(This, G), NEW c \in Component,
         NEW i \in ActiveTargets(Serial(This.n), c)
  PROVE  /\ Pair(G, c, i)[1] \in Int /\ Pair(G, c, i)[2] \in Int
         /\ IndexedCurl(G, c, i) = Direction(c) * (Pair(G, c, i)[1] - Pair(G, c, i)[2])
<1> DEFINE x == GatherDifference(G, c, Stencil(c)[1], i)
           y == GatherDifference(G, c, Stencil(c)[2], i)
           p == Pair(G, c, i)
<1>1. x \in Int /\ y \in Int
  BY GatherTyped
<1>2. IndexedCurl(G, c, i) = x - y
  <2>1. IndexedCurl(G, c, i) = Stencil(c)[1].sign * x + Stencil(c)[2].sign * y
    BY DEF IndexedCurl
  <2> HIDE DEF x, y
  <2> QED BY <1>1, <2>1, StencilSigns
<1>3. /\ p[1] = GatherDifference(G, c, PmlTerms(c)[1], i)
      /\ p[2] = GatherDifference(G, c, PmlTerms(c)[2], i)
  BY DEF Pair
<1> HIDE DEF p
<1>4. \/ Direction(c) = 1 /\ p[1] = x /\ p[2] = y
      \/ Direction(c) = -1 /\ p[1] = y /\ p[2] = x
  BY <1>3, PmlTermsAre
<1> HIDE DEF x, y
<1>5. /\ p[1] \in Int /\ p[2] \in Int
      /\ IndexedCurl(G, c, i) = Direction(c) * (p[1] - p[2])
  BY <1>1, <1>2, <1>4
<1> QED BY <1>5 DEF p

\* The curls of a component read the other family only.
LEMMA SameSources ==
  ASSUME NEW G, NEW H, NEW c \in Component, \A x \in Component : x[1] # c[1] => H[x] = G[x], NEW i
  PROVE  /\ IndexedCurl(H, c, i) = IndexedCurl(G, c, i)
         /\ \A j \in 1..2 : GatherDifference(H, c, PmlTerms(c)[j], i)
                              = GatherDifference(G, c, PmlTerms(c)[j], i)
         /\ Pair(H, c, i) = Pair(G, c, i)
<1>1. ASSUME NEW j \in 1..2
      PROVE  GatherDifference(H, c, Stencil(c)[j], i) = GatherDifference(G, c, Stencil(c)[j], i)
  <2> DEFINE t == Stencil(c)[j]
  <2>1. H[t.source] = G[t.source]
    BY StencilSigns
  <2> HIDE DEF t
  <2>2. GatherDifference(H, c, t, i) = GatherDifference(G, c, t, i)
    BY <2>1 DEF GatherDifference
  <2> QED BY <2>2 DEF t
<1>2. \A j \in 1..2 : GatherDifference(H, c, PmlTerms(c)[j], i)
                        = GatherDifference(G, c, PmlTerms(c)[j], i)
  <2> TAKE j \in 1..2
  <2>1. j = 1 \/ j = 2
    OBVIOUS
  <2>2. PmlTerms(c)[j] = Stencil(c)[1] \/ PmlTerms(c)[j] = Stencil(c)[2]
    BY <2>1, PmlTermsAre
  <2> QED BY <1>1, <2>2
<1>3. IndexedCurl(H, c, i) = IndexedCurl(G, c, i)
  BY <1>1 DEF IndexedCurl
<1> QED BY <1>2, <1>3 DEF Pair

-----------------------------------------------------------------------------
\* The difference of a term, read from the cells of its stencil.
LEMMA GatherAt ==
  ASSUME WellFormed(This), NEW G, Arrays(This, G), NEW c \in Component,
         NEW v \in CellsOf(This, c), InBounds(ShapeOf(c), c, v), NEW j \in 1..2
  PROVE  LET t == Stencil(c)[j]
         IN  /\ t.source \in Component /\ t.axis \in Axes /\ Rate[t.axis] \in Int
             /\ Sum3(v, t.positive) \in CellsOf(This, t.source)
             /\ Sum3(v, t.negative) \in CellsOf(This, t.source)
             /\ G[t.source][Sum3(v, t.positive)] \in Int /\ G[t.source][Sum3(v, t.negative)] \in Int
             /\ GatherDifference(G, c, t, Flat(ShapeOf(c), v))
                  = Rate[t.axis] * (G[t.source][Sum3(v, t.positive)] - G[t.source][Sum3(v, t.negative)])
<1> DEFINE g == Serial(This.n)
           t == Stencil(c)[j]
           shape == Shape(g, t.source)
           i == Flat(ShapeOf(c), v)
           at == StencilIndices(g, c, t, i)
           value(k) == G[t.source][Unflat(shape, at[k])]
<1>1. /\ Viewed(g) /\ InShape(v, Shape(g, c)) /\ v = << v[1], v[2], v[3] >>
      /\ InBounds(Shape(g, c), c, v)
  BY SerialViewed, CellInShape DEF ShapeOf
<1>2. Reaches(g, t, v) /\ \A a \in Axes : t.positive[a] \in Int /\ t.negative[a] \in Int
  BY <1>1, StencilInside, StencilShifts
<1>3. Unflat(Shape(g, c), i) = v
  BY CellTarget DEF ShapeOf
<1>4. GatherDifference(G, c, t, i) = Rate[t.axis] * (value(1) - value(2))
  BY DEF GatherDifference, ShapeOf
<1>5. at = << Flat(shape, v) + Flat(shape, t.positive), Flat(shape, v) + Flat(shape, t.negative) >>
  BY <1>3 DEF StencilIndices
<1>6. \A a \in Axes : v[a] \in Int
  <2> TAKE a \in Axes
  <2>1. Shape(g, c)[a] \in Nat \ {0}
    BY <1>1, ShapeSized DEF Filled
  <2>2. v[a] \in 0..(Shape(g, c)[a] - 1)
    BY <1>1 DEF InShape
  <2> QED BY <2>1, <2>2
<1> HIDE DEF t, i, at
<1>7. Filled(shape)
  BY <1>1, <1>2, ShapeSized DEF Reaches
<1>8. at[1] = Flat(shape, Sum3(v, t.positive)) /\ at[2] = Flat(shape, Sum3(v, t.negative))
  BY <1>2, <1>5, <1>6, <1>7, FlatLinear
<1>9. ASSUME NEW w, InShape(w, shape), w = [a \in Axes |-> w[a]]
      PROVE  w \in CellsOf(This, t.source) /\ Unflat(shape, Flat(shape, w)) = w
  <2>1. w \in CellsOf(This, t.source)
    BY <1>9, CellIs
  <2> QED BY <1>2, <2>1, CellTarget DEF Reaches
<1>10. \A p : Sum3(v, p) = [a \in Axes |-> Sum3(v, p)[a]]
  BY DEF Sum3
<1>11. /\ Sum3(v, t.positive) \in CellsOf(This, t.source)
       /\ Sum3(v, t.negative) \in CellsOf(This, t.source)
       /\ value(1) = G[t.source][Sum3(v, t.positive)] /\ value(2) = G[t.source][Sum3(v, t.negative)]
  BY <1>2, <1>8, <1>9, <1>10 DEF Reaches
<1> HIDE DEF value
<1>12. Rate[t.axis] \in Int
  BY <1>2, ResidueAssumption DEF Reaches
<1>13. \A w \in CellsOf(This, t.source) : G[t.source][w] \in Int
  BY <1>2 DEF Arrays, Reaches
<1>14. /\ t.source \in Component /\ t.axis \in Axes /\ Rate[t.axis] \in Int
       /\ Sum3(v, t.positive) \in CellsOf(This, t.source)
       /\ Sum3(v, t.negative) \in CellsOf(This, t.source)
       /\ G[t.source][Sum3(v, t.positive)] \in Int /\ G[t.source][Sum3(v, t.negative)] \in Int
       /\ GatherDifference(G, c, t, i)
            = Rate[t.axis] * (G[t.source][Sum3(v, t.positive)] - G[t.source][Sum3(v, t.negative)])
  BY <1>2, <1>4, <1>11, <1>12, <1>13 DEF Reaches
<1> QED BY <1>14 DEF t, i

\* The two cells of a term are next to each other along its axis, which is not the
\* own axis of its source.
LEMMA StencilNeighbours ==
  ASSUME NEW c \in Component, NEW j \in 1..2
  PROVE  LET t == Stencil(c)[j]
         IN  /\ t.source[2] # t.axis /\ t.axis \in Axes
             /\ \A a \in Axes : t.positive[a] = t.negative[a] + (IF a = t.axis THEN 1 ELSE 0)
<1> DEFINE x == c[2]
           y == AxisB(x)
           z == AxisC(x)
<1>1. c[1] \in {"E", "H"} /\ x \in Axes
  BY DEF Component
<1>2. y \in Axes /\ z \in Axes /\ y # x /\ z # x /\ y # z
  BY <1>1, OtherAxes
<1>3. j = 1 \/ j = 2
  OBVIOUS
<1>4. /\ c[1] = "E" => Stencil(c) = << Term(<<"H", z>>, Sum3(Unit(x), Unit(y)), Unit(x), y, 1),
                                       Term(<<"H", y>>, Sum3(Unit(x), Unit(z)), Unit(x), z, -1) >>
      /\ c[1] = "H" => Stencil(c) = << Term(<<"E", y>>, Minus(Unit(y)), Minus(Sum3(Unit(y), Unit(z))), z, 1),
                                       Term(<<"E", z>>, Minus(Unit(z)), Minus(Sum3(Unit(y), Unit(z))), y, -1) >>
  BY DEF Stencil
<1> HIDE DEF x, y, z
<1>5. \A a, b \in Axes : Unit(a)[b] = IF b = a THEN 1 ELSE 0
  BY UnitSteps
<1>6. \A p, q : \A a \in Axes : Sum3(p, q)[a] = p[a] + q[a]
  BY DEF Sum3
<1>7. \A p : \A a \in Axes : Minus(p)[a] = -p[a]
  BY DEF Minus
<1> DEFINE t == Stencil(c)[j]
<1>8. CASE c[1] = "E"
  <2>1. \E b \in Axes, d \in Axes : /\ t = Term(<<"H", d>>, Sum3(Unit(x), Unit(b)), Unit(x), b, t.sign) /\ b # d
    BY <1>2, <1>3, <1>4, <1>8 DEF Term
  <2> HIDE DEF t
  <2>2. PICK b \in Axes, d \in Axes : /\ t = Term(<<"H", d>>, Sum3(Unit(x), Unit(b)), Unit(x), b, t.sign) /\ b # d
    BY <2>1
  <2>3. /\ t.source = <<"H", d>> /\ t.axis = b /\ t.positive = Sum3(Unit(x), Unit(b))
        /\ t.negative = Unit(x)
    BY <2>2 DEF Term
  <2>4. \A a \in Axes : Sum3(Unit(x), Unit(b))[a] = Unit(x)[a] + (IF a = b THEN 1 ELSE 0)
    <3> TAKE a \in Axes
    <3>1. Unit(b)[a] = IF a = b THEN 1 ELSE 0
      BY <1>5
    <3>2. Sum3(Unit(x), Unit(b))[a] = Unit(x)[a] + Unit(b)[a]
      BY <1>6
    <3> QED BY <3>1, <3>2
  <2>5. /\ t.source[2] # t.axis /\ t.axis \in Axes
        /\ \A a \in Axes : t.positive[a] = t.negative[a] + (IF a = t.axis THEN 1 ELSE 0)
    BY <2>2, <2>3, <2>4
  <2> QED BY <2>5 DEF t
<1>9. CASE c[1] = "H"
  <2>1. \E b \in Axes, d \in Axes :
          /\ t = Term(<<"E", d>>, Minus(Unit(d)), Minus(Sum3(Unit(y), Unit(z))), b, t.sign)
          /\ b # d /\ {b, d} = {y, z}
    BY <1>2, <1>3, <1>4, <1>9 DEF Term
  <2> HIDE DEF t
  <2>2. PICK b \in Axes, d \in Axes :
          /\ t = Term(<<"E", d>>, Minus(Unit(d)), Minus(Sum3(Unit(y), Unit(z))), b, t.sign)
          /\ b # d /\ {b, d} = {y, z}
    BY <2>1
  <2>3. /\ t.source = <<"E", d>> /\ t.axis = b /\ t.positive = Minus(Unit(d))
        /\ t.negative = Minus(Sum3(Unit(y), Unit(z)))
    BY <2>2 DEF Term
  <2>6. (y = b /\ z = d) \/ (y = d /\ z = b)
    BY <1>2, <2>2
  <2>7. \A a \in Axes : Unit(b)[a] \in Int /\ Unit(d)[a] \in Int
                        /\ Unit(b)[a] = IF a = b THEN 1 ELSE 0
    <3> TAKE a \in Axes
    <3>1. Unit(b)[a] = IF a = b THEN 1 ELSE 0
      BY <1>5
    <3>2. Unit(d)[a] = IF a = d THEN 1 ELSE 0
      BY <1>5
    <3> QED BY <3>1, <3>2
  <2>8. ASSUME NEW a \in Axes
        PROVE  Sum3(Unit(y), Unit(z))[a] = Unit(b)[a] + Unit(d)[a]
    <3>1. Sum3(Unit(y), Unit(z))[a] = Unit(y)[a] + Unit(z)[a]
      BY <1>6
    <3>2. Unit(b)[a] + Unit(d)[a] = Unit(d)[a] + Unit(b)[a]
      BY <2>7
    <3> QED BY <2>6, <3>1, <3>2
  <2>4. ASSUME NEW a \in Axes
        PROVE  Minus(Unit(d))[a] = Minus(Sum3(Unit(y), Unit(z)))[a] + (IF a = b THEN 1 ELSE 0)
    <3>1. Minus(Sum3(Unit(y), Unit(z)))[a] = -(Unit(b)[a] + Unit(d)[a])
      BY <1>7, <2>8
    <3>2. Minus(Unit(d))[a] = -Unit(d)[a]
      BY <1>7
    <3>3. /\ Unit(b)[a] \in Int /\ Unit(d)[a] \in Int /\ Unit(b)[a] = IF a = b THEN 1 ELSE 0
      BY <2>7
    <3> QED BY <3>1, <3>2, <3>3
  <2>5. /\ t.source[2] # t.axis /\ t.axis \in Axes
        /\ \A a \in Axes : t.positive[a] = t.negative[a] + (IF a = t.axis THEN 1 ELSE 0)
    BY <2>2, <2>3, <2>4
  <2> QED BY <2>5 DEF t
<1> QED BY <1>1, <1>8, <1>9

\* On an axis of one cell that is not wrapped with a phase the two planes are copies.
Flush(G, family) ==
  Collapsed => \A c \in Component : c[1] # family /\ c[2] # 3 =>
    \A v, w \in CellsOf(This, c) : v[1] = w[1] /\ v[2] = w[2] => G[c][v] = G[c][w]

\* The dense curl of an active cell is its indexed curl.
LEMMA PhaseCurlIs ==
  ASSUME WellFormed(This), NEW G, Arrays(This, G), NEW c \in Component, Flush(G, c[1]),
         NEW v \in CellsOf(This, c), InBounds(ShapeOf(c), c, v)
  PROVE  PhaseCurl(G, c, v) = IndexedCurl(G, c, Flat(ShapeOf(c), v))
<1> DEFINE i == Flat(ShapeOf(c), v)
           diff(t) == IF Collapsed /\ t.axis = 3 THEN 0
                      ELSE t.sign * Rate[t.axis] * (G[t.source][Sum3(v, t.positive)]
                                                      - G[t.source][Sum3(v, t.negative)])
<1>1. PhaseCurl(G, c, v) = diff(Stencil(c)[1]) + diff(Stencil(c)[2])
  BY Zenon DEF PhaseCurl
<1>2. ASSUME NEW j \in 1..2
      PROVE  diff(Stencil(c)[j]) = Stencil(c)[j].sign * GatherDifference(G, c, Stencil(c)[j], i)
  <2> DEFINE t == Stencil(c)[j]
             x == G[t.source][Sum3(v, t.positive)]
             y == G[t.source][Sum3(v, t.negative)]
  <2>1. /\ t.source \in Component /\ t.axis \in Axes /\ Rate[t.axis] \in Int
        /\ Sum3(v, t.positive) \in CellsOf(This, t.source)
        /\ Sum3(v, t.negative) \in CellsOf(This, t.source)
        /\ x \in Int /\ y \in Int
        /\ GatherDifference(G, c, t, i) = Rate[t.axis] * (x - y)
    BY GatherAt
  <2>2. t.sign \in {1, -1} /\ t.source[1] # c[1]
    <3>1. j = 1 \/ j = 2
      OBVIOUS
    <3> QED BY <3>1, StencilSigns
  <2>3. /\ t.source[2] # t.axis
        /\ \A a \in Axes : t.positive[a] = t.negative[a] + (IF a = t.axis THEN 1 ELSE 0)
    BY StencilNeighbours
  <2>4. diff(t) = IF Collapsed /\ t.axis = 3 THEN 0 ELSE t.sign * Rate[t.axis] * (x - y)
    OBVIOUS
  <2> HIDE DEF t, i, diff
  <2>5. CASE ~(Collapsed /\ t.axis = 3)
    <3> DEFINE r == Rate[t.axis]
               s == t.sign
    <3>1. diff(t) = s * r * (x - y) /\ r \in Int /\ s \in {1, -1}
      BY <2>1, <2>2, <2>4, <2>5
    <3>2. GatherDifference(G, c, t, i) = r * (x - y)
      BY <2>1
    <3> HIDE DEF r, s, x, y
    <3>3. diff(t) = s * GatherDifference(G, c, t, i)
      BY <2>1, <3>1, <3>2
    <3> QED BY <3>3 DEF s, t
  <2>6. CASE Collapsed /\ t.axis = 3
    <3> DEFINE p == Sum3(v, t.positive)
               q == Sum3(v, t.negative)
    <3>1. p[1] = v[1] + t.positive[1] /\ p[2] = v[2] + t.positive[2]
          /\ q[1] = v[1] + t.negative[1] /\ q[2] = v[2] + t.negative[2]
      BY DEF Sum3, Axes
    <3>2. t.positive[1] = t.negative[1] + 0 /\ t.positive[2] = t.negative[2] + 0
      BY <2>3, <2>6 DEF Axes
    <3>3. t.negative[1] \in Int /\ t.negative[2] \in Int
      BY StencilShifts DEF Axes, t
    <3>4. p[1] = q[1] /\ p[2] = q[2]
      BY <3>1, <3>2, <3>3
    <3>5. x = y
      BY <2>1, <2>2, <2>3, <2>6, <3>4 DEF Flush
    <3>6. GatherDifference(G, c, t, i) = 0
      BY <2>1, <3>5
    <3>7. diff(t) = t.sign * GatherDifference(G, c, t, i)
      BY <2>2, <2>4, <2>6, <3>6
    <3> QED BY <3>7 DEF t
  <2> QED BY <2>5, <2>6
<1>3. IndexedCurl(G, c, i) = Stencil(c)[1].sign * GatherDifference(G, c, Stencil(c)[1], i)
                               + Stencil(c)[2].sign * GatherDifference(G, c, Stencil(c)[2], i)
  BY DEF IndexedCurl
<1> HIDE DEF diff
<1>4. 1 \in 1..2 /\ 2 \in 1..2
  OBVIOUS
<1>5. PhaseCurl(G, c, v) = IndexedCurl(G, c, i)
  BY <1>1, <1>2, <1>3, <1>4
<1> QED BY <1>5

-----------------------------------------------------------------------------
\* The dense plane of a cell is the coefficient its bucket gives it.
LEMMA PlaneOf ==
  ASSUME WellFormed(This), Built(sim, This), NEW d \in Buckets(sim.plan), NEW k \in RowsOf(d)
  PROVE  sim.plan[d[1]].dense[TargetOf(d, k)] = DenseInverse(BucketOf(sim.plan, d), k)
<1> DEFINE c == d[1]
           i == TargetOf(d, k)
           shape == Shape(Serial(This.n), c)
           buckets == sim.plan[c].buckets
           owner(j) == {o \in DOMAIN buckets : j \in Range(buckets[o].targets)}
           inverse(j) == LET o == CHOOSE o \in owner(j) : TRUE
                         IN  DenseInverse(buckets[o], Position(buckets[o].targets, j))
<1>1. c \in Component /\ i \in ActiveTargets(Serial(This.n), c)
  BY BucketCells
<1>2. i \in 0..(Total(shape) - 1)
  BY <1>1 DEF ActiveTargets
<1>3. d[2] \in DOMAIN buckets /\ d = << c, d[2] >> /\ BucketOf(sim.plan, d) = buckets[d[2]]
  BY BuiltFurnished DEF BucketOf
<1>4. sim.plan[c] = Planes(shape, buckets)
  BY <1>1, BuiltPlanes
<1>5. ASSUME NEW o \in DOMAIN buckets
      PROVE  <<c, o>> \in Buckets(sim.plan) /\ BucketOf(sim.plan, <<c, o>>) = buckets[o]
  BY <1>1 DEF Buckets, BucketOf
<1>6. /\ k \in DOMAIN buckets[d[2]].targets /\ buckets[d[2]].targets[k] = i
  BY <1>3 DEF RowsOf, TargetOf
<1>7. ASSUME NEW o \in DOMAIN buckets, NEW j \in DOMAIN buckets[o].targets, buckets[o].targets[j] = i
      PROVE  o = d[2] /\ j = k
  <2> DEFINE e == <<c, o>>
  <2>1. e \in Buckets(sim.plan) /\ j \in RowsOf(e) /\ TargetOf(e, j) = i /\ e[1] = d[1]
    BY <1>5, <1>7 DEF RowsOf, TargetOf
  <2> HIDE DEF e, i
  <2>2. e = d /\ j = k
    BY <2>1, BucketCells DEF i
  <2> QED BY <1>3, <2>2 DEF e
<1> HIDE DEF i, c, buckets, shape
<1>8. sim.plan[c].dense[i] = IF owner(i) = {} THEN 0 ELSE inverse(i)
  <2>1. Planes(shape, buckets).dense
          = [j \in 0..(Total(shape) - 1) |-> IF owner(j) = {} THEN 0 ELSE inverse(j)]
    BY DEF Planes
  <2> HIDE DEF owner, inverse
  <2> QED BY <1>2, <1>4, <2>1
<1>9. d[2] \in owner(i)
  <2>1. i \in Range(buckets[d[2]].targets)
    BY <1>6 DEF Range
  <2> QED BY <1>3, <2>1
<1> DEFINE o == CHOOSE o \in owner(i) : TRUE
<1>10. o \in owner(i)
  BY <1>9
<1>11. inverse(i) = DenseInverse(buckets[o], Position(buckets[o].targets, i))
  OBVIOUS
<1>12. o \in DOMAIN buckets /\ i \in Range(buckets[o].targets)
  BY <1>10
<1> HIDE DEF o, owner, inverse
<1>13. Position(buckets[o].targets, i) \in DOMAIN buckets[o].targets
       /\ buckets[o].targets[Position(buckets[o].targets, i)] = i
  <2>1. Lists(buckets[o].targets, Range(buckets[o].targets))
    BY DEF Lists, Range
  <2> QED BY <1>12, <2>1, PositionIs
<1>14. o = d[2] /\ Position(buckets[o].targets, i) = k
  BY <1>7, <1>12, <1>13
<1>15. sim.plan[c].dense[i] = DenseInverse(buckets[d[2]], k)
  BY <1>8, <1>9, <1>11, <1>14
<1> QED BY <1>3, <1>15 DEF i, c

\* The coefficients of the dense update are integers, and zero where it does nothing.
LEMMA InverseTyped ==
  ASSUME WellFormed(This), Built(sim, This), NEW d \in Buckets(sim.plan), NEW k \in RowsOf(d)
  PROVE  LET b == BucketOf(sim.plan, d)
         IN  /\ DenseInverse(b, k) \in Int
             /\ b.signature[1] = "dielectric" => DenseInverse(b, k) = TargetRow(b, k)[1]
             /\ b.signature[1] \notin {"dielectric", "cpml"} => DenseInverse(b, k) = 0
             /\ d \in sim.sparse => DenseInverse(b, k) = b.cells[k].base
             /\ d \in sim.dense => DenseInverse(b, k) = 0
<1> DEFINE b == BucketOf(sim.plan, d)
<1>1. Furnished(b, This, sim.options, d[1]) /\ k \in DOMAIN b.targets
  BY BucketCells DEF RowsOf
<1>2. TargetRow(b, k)[1] \in Int
  BY <1>1 DEF Furnished
<1>3. b.residual # <<>> => b.signature[1] = "cpml" /\ b.cells[k].base \in Int
  <2>1. ASSUME b.residual # <<>> PROVE b.signature[1] = "cpml"
    BY <1>1, <2>1, Zenon DEF Furnished, SparseBucket
  <2>2. b.signature[1] \in Absorbers => CellTyped(b.cells[k], b.signature[1])
    BY <1>1, Zenon DEF Furnished
  <2> QED BY <2>1, <2>2 DEF Absorbers, CellTyped
<1>4. /\ d \in sim.sparse => b.residual # <<>>
      /\ d \in sim.dense => b.residual = <<>> /\ b.signature[1] \in Absorbers
  <2>1. /\ sim.dense = {x \in sim.stateful : /\ ModelOf(sim.plan, x) \in Absorbers
                                           /\ ~Sparse(sim.plan, x)}
        /\ sim.sparse = {x \in sim.stateful : Sparse(sim.plan, x)}
    BY BuiltFields
  <2> QED BY <2>1 DEF Sparse, ModelOf
<1>5. DenseInverse(b, k) = IF b.signature[1] = "dielectric" THEN TargetRow(b, k)[1]
                           ELSE IF b.residual # <<>> THEN b.cells[k].base ELSE 0
  BY DEF DenseInverse
<1> HIDE DEF b
<1>6. /\ DenseInverse(b, k) \in Int
      /\ b.signature[1] = "dielectric" => DenseInverse(b, k) = TargetRow(b, k)[1]
      /\ b.signature[1] \notin {"dielectric", "cpml"} => DenseInverse(b, k) = 0
      /\ d \in sim.sparse => DenseInverse(b, k) = b.cells[k].base
      /\ d \in sim.dense => DenseInverse(b, k) = 0
  BY <1>2, <1>3, <1>4, <1>5 DEF Absorbers
<1> QED BY <1>6 DEF b

\* The buckets the dense update completes.
Settled(family) ==
  {d \in FamilyOf(family) : BucketOf(sim.plan, d).signature[1] \in {"dielectric", "dummy", "dm2"}}

\* The cell of a row of a bucket.
LEMMA RowCell ==
  ASSUME WellFormed(This), Built(sim, This), NEW d \in Buckets(sim.plan), NEW k \in RowsOf(d)
  PROVE  LET v == Unflat(ShapeOf(d[1]), TargetOf(d, k))
         IN  /\ v \in CellsOf(This, d[1]) /\ Flat(ShapeOf(d[1]), v) = TargetOf(d, k)
             /\ InBounds(ShapeOf(d[1]), d[1], v)
             /\ \A H : FieldAt(H, d[1], TargetOf(d, k)) = H[d[1]][v]
<1>1. d[1] \in Component /\ TargetOf(d, k) \in ActiveTargets(Serial(This.n), d[1])
  BY BucketCells
<1> QED BY <1>1, TargetCell DEF ShapeOf, FieldAt

\* The dense phase completes them and makes the plain update of all other cells.
LEMMA DenseStage ==
  ASSUME WellFormed(This), Built(sim, This), NEW S, Arrays(This, S.F),
         S = [F |-> S.F, mem |-> S.mem], NEW family, Reduced(This, S.F), Flush(S.F, family), NEW M
  PROVE  FieldStage(DensePhase(S, family).F, S.F, M, Settled(family), family)
<1> DEFINE G == S.F
           updated(c) ==
             [v \in DOMAIN G[c] |->
                IF InBounds(ShapeOf(c), c, v)
                THEN (G[c][v] + sim.plan[c].dense[Flat(ShapeOf(c), v)] * PhaseCurl(G, c, v)) % P
                ELSE G[c][v]]
           H == [c \in Component |-> IF c[1] = family THEN updated(c) ELSE G[c]]
<1>1. DensePhase(S, family).F = H
  <2>1. DensePhase(S, family) = [S EXCEPT !.F = H]
    BY Zenon DEF DensePhase
  <2> HIDE DEF H
  <2> QED BY <2>1
<1>2. \A c \in Component : c[1] # family => H[c] = G[c]
  OBVIOUS
<1>3. \A c \in Component : DOMAIN G[c] = CellsOf(This, c)
  BY DEF Arrays
<1>4. \A c \in Component : c[1] = family => H[c] = updated(c)
  OBVIOUS
<1> HIDE DEF H
<1>5. \A c \in Component : c[1] = family =>
        \A v \in CellsOf(This, c) :
          H[c][v] = IF InBounds(ShapeOf(c), c, v)
                    THEN (G[c][v] + sim.plan[c].dense[Flat(ShapeOf(c), v)] * PhaseCurl(G, c, v)) % P
                    ELSE G[c][v]
  BY <1>3, <1>4
<1> HIDE DEF updated
<1>6. ASSUME NEW d \in FamilyOf(family), NEW k \in RowsOf(d)
      PROVE  /\ FieldAt(H, d[1], TargetOf(d, k)) = Densed(G, d, k)
             /\ d \in Settled(family) => Densed(G, d, k) = Fresh(G, M, d, k).field
  <2> DEFINE c == d[1]
             v == Unflat(ShapeOf(c), TargetOf(d, k))
             b == BucketOf(sim.plan, d)
             e == FieldAt(G, c, TargetOf(d, k))
             curl == IndexedCurl(G, c, TargetOf(d, k))
  <2>1. d \in Buckets(sim.plan) /\ c \in Component /\ c[1] = family
    BY BucketCells DEF FamilyOf
  <2>2. /\ v \in CellsOf(This, c) /\ Flat(ShapeOf(c), v) = TargetOf(d, k)
        /\ InBounds(ShapeOf(c), c, v) /\ FieldAt(H, c, TargetOf(d, k)) = H[c][v] /\ e = G[c][v]
    BY <2>1, RowCell
  <2>3. PhaseCurl(G, c, v) = curl
    BY <2>1, <2>2, PhaseCurlIs
  <2>4. sim.plan[c].dense[TargetOf(d, k)] = DenseInverse(b, k)
    BY <2>1, PlaneOf
  <2>5. Densed(G, d, k) = (e + DenseInverse(b, k) * curl) % P
    BY DEF Densed
  <2>6. FieldAt(H, c, TargetOf(d, k)) = (e + DenseInverse(b, k) * curl) % P
    <3>1. H[c][v] = (G[c][v] + sim.plan[c].dense[Flat(ShapeOf(c), v)] * PhaseCurl(G, c, v)) % P
      BY <1>5, <2>1, <2>2
    <3> QED BY <2>2, <2>3, <2>4, <3>1
  <2>7. e \in 0..(P - 1) /\ curl \in Int
    <3>1. TargetOf(d, k) \in ActiveTargets(Serial(This.n), c)
      BY <2>1, BucketCells
    <3>2. curl \in Int
      BY <2>1, <3>1, CurlTyped
    <3> QED BY <2>1, <2>2, <3>2 DEF Reduced
  <2>8. ASSUME d \in Settled(family) PROVE Densed(G, d, k) = Fresh(G, M, d, k).field
    <3>1. b.signature[1] \in {"dielectric", "dummy", "dm2"}
      BY <2>8 DEF Settled
    <3>2. CASE b.signature[1] = "dielectric"
      <4>1. DenseInverse(b, k) = TargetRow(b, k)[1]
        BY <2>1, <3>2, InverseTyped
      <4>2. Fresh(G, M, d, k) = [field |-> (e + TargetRow(b, k)[1] * curl) % P]
        BY <3>2 DEF Fresh, Absorbers
      <4> QED BY <2>5, <4>1, <4>2
    <3>3. CASE b.signature[1] \in {"dummy", "dm2"}
      <4>1. DenseInverse(b, k) = 0
        BY <2>1, <3>3, InverseTyped
      <4>2. Fresh(G, M, d, k) = [field |-> e]
        BY <3>3 DEF Fresh, Absorbers
      <4>3. (e + 0 * curl) % P = e
        BY <2>7, ResidueArithmetic
      <4> QED BY <2>5, <4>1, <4>2, <4>3
    <3> QED BY <3>1, <3>2, <3>3
  <2> QED BY <2>5, <2>6, <2>8
<1>7. FieldStage(H, G, M, Settled(family), family)
  BY <1>2, <1>5, <1>6 DEF FieldStage
<1> QED BY <1>1, <1>7

-----------------------------------------------------------------------------
\* The memory of a row, in the buffer that holds it.
Lane(M, d, a) ==
  LogicalAxis(BucketOf(sim.plan, d).residual[a], Len(BucketOf(sim.plan, d).targets), M.axis[<<d, a>>])

PlacedAt(M, d, k) == M.dispersive[sim.place[d][k][1]][sim.place[d][k][2]]

\* Where the memory of a row lies.
LEMMA LogicalCases ==
  ASSUME NEW M, NEW d, NEW k
  PROVE  LogicalRow(M, d, k) = IF d \in DOMAIN sim.place THEN PlacedAt(M, d, k)
                               ELSE IF d \in sim.dense THEN M.absorber[d][k]
                               ELSE << Lane(M, d, 1)[k], Lane(M, d, 2)[k] >>
BY Zenon DEF LogicalRow, Lane, PlacedAt

\* Each bucket with memory keeps it in one kind of buffer.
LEMMA BufferKinds ==
  ASSUME WellFormed(This), Built(sim, This), NEW d \in sim.stateful
  PROVE  /\ d \in sim.dense \cup sim.sparse => d \notin DOMAIN sim.place
         /\ d \in sim.sparse => d \notin sim.dense
         /\ d \in sim.dense \/ d \in sim.sparse \/ d \in DOMAIN sim.place
<1> DEFINE b == BucketOf(sim.plan, d)
<1>1. /\ d \in DOMAIN sim.place <=> b.signature[1] \in DispersiveModels
      /\ d \in sim.dense \cup sim.sparse => b.signature[1] \in Absorbers
      /\ d \in sim.sparse => d \notin sim.dense
      /\ d \notin DOMAIN sim.place => d \in sim.dense \cup sim.sparse
  BY BuiltKinds
<1>2. \A x \in Absorbers : x \notin DispersiveModels
  BY DEF Absorbers, DispersiveModels
<1> QED BY <1>1, <1>2

\* The memory of a row of a dense absorber bucket.
LEMMA DenseRow ==
  ASSUME WellFormed(This), Built(sim, This), NEW M, NEW d \in sim.stateful, NEW k, d \in sim.dense
  PROVE  LogicalRow(M, d, k) = M.absorber[d][k]
BY LogicalCases, BufferKinds

\* The memory of a row in an arena.
LEMMA PlacedRow ==
  ASSUME WellFormed(This), Built(sim, This), NEW M, NEW d \in DOMAIN sim.place, NEW k
  PROVE  LogicalRow(M, d, k) = PlacedAt(M, d, k)
BY LogicalCases

\* The memory of a row of a bucket with residual axes.
LEMMA SparseRow ==
  ASSUME WellFormed(This), Built(sim, This), NEW M, NEW d \in sim.stateful, NEW k, d \in sim.sparse
  PROVE  LogicalRow(M, d, k) = << Lane(M, d, 1)[k], Lane(M, d, 2)[k] >>
BY LogicalCases, BufferKinds

\* A bucket whose memory lies apart keeps it.
Untouched(N, M, d, k) ==
  /\ d \in DOMAIN sim.place => PlacedAt(N, d, k) = PlacedAt(M, d, k)
  /\ d \in sim.dense => N.absorber[d] = M.absorber[d]
  /\ d \in sim.sparse => N.axis[<<d, 1>>] = M.axis[<<d, 1>>] /\ N.axis[<<d, 2>>] = M.axis[<<d, 2>>]

\* A row keeps its memory while its buffers are untouched.
LEMMA LogicalKept ==
  ASSUME WellFormed(This), Built(sim, This), NEW M, NEW N, NEW d \in sim.stateful, NEW k,
         Untouched(N, M, d, k)
  PROVE  LogicalRow(N, d, k) = LogicalRow(M, d, k)
<1>1. d \in sim.sparse => Lane(N, d, 1) = Lane(M, d, 1) /\ Lane(N, d, 2) = Lane(M, d, 2)
  BY DEF Lane, Untouched
<1> QED BY <1>1, LogicalCases, BufferKinds DEF Untouched

\* A dense absorber bucket reads the fields of its cells as the stage began.
LEMMA IdleDensed ==
  ASSUME WellFormed(This), Built(sim, This), NEW G, Arrays(This, G), Reduced(This, G),
         NEW d \in Buckets(sim.plan), NEW k \in RowsOf(d),
         DenseInverse(BucketOf(sim.plan, d), k) = 0
  PROVE  Densed(G, d, k) = FieldAt(G, d[1], TargetOf(d, k))
<1> DEFINE e == FieldAt(G, d[1], TargetOf(d, k))
           curl == IndexedCurl(G, d[1], TargetOf(d, k))
           v == Unflat(ShapeOf(d[1]), TargetOf(d, k))
<1>1. d[1] \in Component /\ TargetOf(d, k) \in ActiveTargets(Serial(This.n), d[1])
  BY BucketCells
<1>2. v \in CellsOf(This, d[1]) /\ e = G[d[1]][v]
  BY RowCell
<1>3. curl \in Int
  BY <1>1, CurlTyped
<1>4. Densed(G, d, k) = (e + 0 * curl) % P
  BY DEF Densed
<1> HIDE DEF curl, v
<1>5. e \in 0..(P - 1)
  BY <1>1, <1>2 DEF Reduced
<1> HIDE DEF e
<1>6. (e + 0 * curl) % P = e
  BY <1>3, <1>5, ResidueArithmetic
<1> QED BY <1>4, <1>6 DEF e

\* A dense absorber bucket completes its cells.
LEMMA RunAbsorberStage ==
  ASSUME WellFormed(This), Built(sim, This), NEW G, Arrays(This, G), Reduced(This, G), NEW M,
         NEW family, NEW D, NEW S, Stage(S, G, M, D, family),
         NEW d \in sim.dense, d[1][1] = family, d \notin D
  PROVE  Stage(RunAbsorber(S, d), G, M, D \cup {d}, family)
<1> DEFINE b == BucketOf(sim.plan, d)
           c == d[1]
           t(i) == [j \in 1..2 |-> GatherDifference(S.F, c, PmlTerms(c)[j], i)]
           done(k) == AbsorberUpdate(b.signature, b.cells[k], S.mem.absorber[d][k],
                                     FieldAt(S.F, c, b.targets[k]), t(b.targets[k]), Direction(c))
           out == [k \in DOMAIN b.targets |-> done(k)]
           fields == [k \in DOMAIN out |-> out[k].field]
           rows == [k \in DOMAIN out |-> out[k].row]
           N == [S.mem EXCEPT !.absorber[d] = rows]
           T == RunAbsorber(S, d)
           entries == [k \in DOMAIN b.targets |-> <<d, k>>]
<1>1. T = [F |-> Scatter(S.F, c, b.targets, fields), mem |-> N]
  BY Zenon DEF RunAbsorber
<1>2. Held(T)
  BY RunAbsorberHeld DEF Stage
<1>3. d \in sim.stateful /\ d \in Buckets(sim.plan) /\ b.signature[1] \in Absorbers
  <2>1. d \in sim.stateful
    BY BuiltFields
  <2> QED BY <2>1, BuiltKinds
<1>4. c \in Component /\ Distinctly(b.targets)
  BY <1>3, BucketCells
<1>5. Held(S) /\ FieldStage(S.F, G, M, D, family) /\ RowStage(S.mem, G, M, D)
  BY DEF Stage
<1>6. Arrays(This, S.F)
  BY <1>5 DEF Held
<1>7. ASSUME NEW k \in DOMAIN b.targets PROVE done(k) = Fresh(G, M, d, k)
  <2> DEFINE i == b.targets[k]
  <2>1. k \in RowsOf(d) /\ TargetOf(d, k) = i
    BY DEF RowsOf, TargetOf
  <2>2. d \in FamilyOf(family)
    BY <1>3 DEF FamilyOf
  <2>3. FieldAt(S.F, c, i) = Densed(G, d, k)
    BY <1>5, <2>1, <2>2 DEF FieldStage
  <2>4. DenseInverse(b, k) = 0
    BY <1>3, <2>1, InverseTyped
  <2>5. Densed(G, d, k) = FieldAt(G, c, i)
    BY <1>3, <2>1, <2>4, IdleDensed
  <2>6. Pair(S.F, c, i) = Pair(G, c, i)
    BY <1>4, <1>5, SameSources DEF FieldStage
  <2>7. t(i) = Pair(S.F, c, i)
    BY DEF Pair
  <2>8. S.mem.absorber[d][k] = LogicalRow(M, d, k)
    <3>1. LogicalRow(S.mem, d, k) = LogicalRow(M, d, k)
      BY <1>3, <1>5, <2>1 DEF RowStage
    <3> DEFINE Q == S.mem
    <3> HIDE DEF Q
    <3>2. LogicalRow(Q, d, k) = Q.absorber[d][k]
      BY <1>3, DenseRow
    <3> QED BY <3>1, <3>2 DEF Q
  <2>9. Fresh(G, M, d, k) = AbsorberUpdate(b.signature, b.cells[k], LogicalRow(M, d, k),
                                           FieldAt(G, c, i), Pair(G, c, i), Direction(c))
    BY <1>3, <2>1 DEF Fresh, Absorbers
  <2>10. done(k) = AbsorberUpdate(b.signature, b.cells[k], S.mem.absorber[d][k],
                                  FieldAt(S.F, c, i), t(i), Direction(c))
    OBVIOUS
  <2> HIDE DEF done, t, i, b, c
  <2> QED BY <2>3, <2>5, <2>6, <2>7, <2>8, <2>9, <2>10
<1> HIDE DEF done
<1>8. \A k \in DOMAIN b.targets : fields[k] = Fresh(G, M, d, k).field /\ rows[k] = Fresh(G, M, d, k).row
  BY <1>7
<1> HIDE DEF fields, rows
<1>9. Writing(c, {d}, entries, b.targets)
  <2>1. \E n \in Nat : DOMAIN entries = 1..n /\ DOMAIN b.targets = 1..n
    BY <1>4 DEF Distinctly
  <2>2. \A j \in DOMAIN entries : entries[j] = <<d, j>> /\ j \in DOMAIN b.targets
    OBVIOUS
  <2>3. \A k \in DOMAIN b.targets : entries[k] = <<d, k>> /\ k \in DOMAIN entries
    OBVIOUS
  <2> HIDE DEF entries
  <2> QED BY <1>3, <1>4, <2>1, <2>2, <2>3 DEF Writing, RowsOf, TargetOf
<1>10. \A j \in DOMAIN entries : fields[j] = Fresh(G, M, entries[j][1], entries[j][2]).field
  BY <1>8
<1> HIDE DEF entries
<1>11. FieldStage(Scatter(S.F, c, b.targets, fields), G, M, D \cup {d}, family)
  BY <1>5, <1>6, <1>9, <1>10, ScatterStage
<1>12. RowStage(N, G, M, D \cup {d})
  <2> SUFFICES ASSUME NEW e \in sim.stateful, NEW k \in RowsOf(e)
               PROVE  LogicalRow(N, e, k) = IF e \in D \cup {d} THEN Fresh(G, M, e, k).row
                                                               ELSE LogicalRow(M, e, k)
    BY DEF RowStage
  <2>1. /\ S.mem = [dispersive |-> S.mem.dispersive, absorber |-> S.mem.absorber, axis |-> S.mem.axis]
        /\ DOMAIN S.mem.absorber = sim.dense
    BY <1>5 DEF Held, Buffered
  <2>2. /\ N.dispersive = S.mem.dispersive /\ N.axis = S.mem.axis
        /\ N.absorber = [S.mem.absorber EXCEPT ![d] = rows]
    BY <2>1
  <2> HIDE DEF N
  <2>3. CASE e = d
    <3>1. N.absorber[d] = rows
      BY <2>1, <2>2
    <3>2. LogicalRow(N, d, k) = rows[k]
      <4>1. LogicalRow(N, d, k) = N.absorber[d][k]
        BY <1>3, DenseRow
      <4> QED BY <3>1, <4>1
    <3>3. k \in DOMAIN b.targets
      BY <2>3 DEF RowsOf
    <3> QED BY <1>8, <2>3, <3>2, <3>3
  <2>4. CASE e # d
    <3>1. N.absorber[e] = S.mem.absorber[e]
      BY <2>1, <2>2, <2>4
    <3>2. LogicalRow(N, e, k) = LogicalRow(S.mem, e, k)
      <4> DEFINE Q == S.mem
      <4> HIDE DEF Q
      <4>1. N.dispersive = Q.dispersive /\ N.axis = Q.axis /\ N.absorber[e] = Q.absorber[e]
        BY <2>2, <3>1 DEF Q
      <4>2. N.axis[<<e, 1>>] = Q.axis[<<e, 1>>] /\ N.axis[<<e, 2>>] = Q.axis[<<e, 2>>]
        BY <4>1
      <4>4. PlacedAt(N, e, k) = PlacedAt(Q, e, k)
        BY <4>1 DEF PlacedAt
      <4>3. LogicalRow(N, e, k) = LogicalRow(Q, e, k)
        <5>1. Untouched(N, Q, e, k)
          BY <4>1, <4>2, <4>4 DEF Untouched
        <5> QED BY <5>1, LogicalKept
      <4> QED BY <4>3 DEF Q
    <3>3. LogicalRow(S.mem, e, k) = IF e \in D THEN Fresh(G, M, e, k).row ELSE LogicalRow(M, e, k)
      BY <1>5 DEF RowStage
    <3> QED BY <2>4, <3>2, <3>3
  <2> QED BY <2>3, <2>4
<1> HIDE DEF N, T
<1>13. T.F = Scatter(S.F, c, b.targets, fields) /\ T.mem = N
  BY <1>1
<1>14. Stage(T, G, M, D \cup {d}, family)
  BY <1>2, <1>11, <1>12, <1>13 DEF Stage
<1> QED BY <1>14 DEF T

-----------------------------------------------------------------------------
\* The parameters of the rows that a residual axis keeps.
Excess(cell, a) ==
  [base |-> cell.base, b |-> cell.curl[a].b, c |-> cell.curl[a].c,
   excess |-> Reciprocal(cell.curl[a].kappa) - 1]

Kept(b, a, r) ==
  /\ \E n \in Nat : DOMAIN r.positions = 1..n /\ DOMAIN r.targets = 1..n
  /\ \A j, k \in DOMAIN r.positions : r.positions[j] = r.positions[k] => j = k
  /\ \A j \in DOMAIN r.positions :
       /\ r.positions[j] \in DOMAIN b.targets /\ r.targets[j] = b.targets[r.positions[j]]
       /\ r.parameters[j] = Excess(b.cells[r.positions[j]], a)
  /\ \A k \in DOMAIN b.targets : ~PlainAxis(b.cells[k], a) => \E j \in DOMAIN r.positions : r.positions[j] = k
  /\ \A j \in DOMAIN r.positions : ~PlainAxis(b.cells[r.positions[j]], a)

\* A residual axis keeps the rows whose axis is not plain.
LEMMA ResidualKeeps ==
  ASSUME NEW b, NEW n \in Nat, DOMAIN b.targets = 1..n, NEW a
  PROVE  Kept(b, a, Residual(b.targets, b.cells, a))
<1> DEFINE T == {k \in DOMAIN b.targets : \/ b.cells[k].curl[a].c # 0
                                          \/ b.cells[k].curl[a].kappa # 1}
           rows == Ordered(T, Before)
           r == Residual(b.targets, b.cells, a)
           row(k) == LET p == b.cells[rows[k]].curl[a]
                     IN  [base |-> b.cells[rows[k]].base, b |-> p.b, c |-> p.c,
                          excess |-> Reciprocal(p.kappa) - 1]
<1>1. /\ r.positions = rows /\ r.targets = [k \in DOMAIN rows |-> b.targets[rows[k]]]
      /\ r.parameters = [k \in DOMAIN rows |-> row(k)]
  BY DEF Residual
<1>2. IsFiniteSet(T) /\ T \subseteq Int
  <2>1. IsFiniteSet(1..n) /\ 1..n \subseteq Int
    BY FS_Interval
  <2> QED BY <2>1, FS_Subset
<1>3. \A k \in DOMAIN b.targets : k \in T <=> ~PlainAxis(b.cells[k], a)
  BY DEF PlainAxis
<1>4. \A k \in T : k \in DOMAIN b.targets
  OBVIOUS
<1>5. \A k : row(k) = Excess(b.cells[rows[k]], a)
  BY DEF Excess
<1> HIDE DEF T, r, row
<1>6. Listed(rows, T)
  BY <1>2, OrderedIntegers
<1> HIDE DEF rows
<1>7. PICK m \in Nat : DOMAIN rows = 1..m
  BY <1>6 DEF Listed
<1>8. \A j, k \in DOMAIN rows : rows[j] = rows[k] => j = k
  BY <1>6, ListedOnce
<1>9. /\ \A j \in DOMAIN rows : rows[j] \in T
      /\ \A k \in T : \E j \in DOMAIN rows : rows[j] = k
  BY <1>6 DEF Listed, Lists
<1>10. DOMAIN r.positions = DOMAIN rows /\ DOMAIN r.targets = DOMAIN rows
  BY <1>1
<1>11. \A j \in DOMAIN rows : /\ r.positions[j] = rows[j] /\ r.targets[j] = b.targets[rows[j]]
                              /\ r.parameters[j] = Excess(b.cells[rows[j]], a)
  BY <1>1, <1>5
<1>12. Kept(b, a, r)
  <2>1. \E k \in Nat : DOMAIN r.positions = 1..k /\ DOMAIN r.targets = 1..k
    BY <1>7, <1>10
  <2>2. \A j, k \in DOMAIN r.positions : r.positions[j] = r.positions[k] => j = k
    BY <1>8, <1>10, <1>11
  <2>3. \A j \in DOMAIN r.positions :
          /\ r.positions[j] \in DOMAIN b.targets /\ r.targets[j] = b.targets[r.positions[j]]
          /\ r.parameters[j] = Excess(b.cells[r.positions[j]], a)
    BY <1>4, <1>9, <1>10, <1>11
  <2>4. \A k \in DOMAIN b.targets :
          ~PlainAxis(b.cells[k], a) => \E j \in DOMAIN r.positions : r.positions[j] = k
    BY <1>3, <1>9, <1>10, <1>11
  <2>5. \A j \in DOMAIN r.positions : ~PlainAxis(b.cells[r.positions[j]], a)
    BY <1>3, <1>4, <1>9, <1>10, <1>11
  <2> QED BY <2>1, <2>2, <2>3, <2>4, <2>5 DEF Kept
<1> QED BY <1>12 DEF r

\* One axis of a CPML cell on top of the plain update; on a plain axis it adds nothing.
Partly(cell, psi, x, t, direction, a) ==
  CpmlResidual(Excess(cell, a), psi, x, t, direction, IF a = 1 THEN 1 ELSE -1)

\* The reciprocal of one.
LEMMA ReciprocalOne == Reciprocal(1) = 1
<1>1. P \in Nat /\ P > 1
  BY ResidueAssumption
<1>2. ASSUME NEW u \in 1..(P - 1) PROVE (u * 1) % P = u
  <2>1. u \in 0..(P - 1) /\ u * 1 = u
    BY <1>1
  <2> QED BY <2>1, ResidueArithmetic
<1>3. 1 \in 1..(P - 1) /\ (1 * 1) % P = 1
  BY <1>1, <1>2
<1> QED BY <1>2, <1>3 DEF Reciprocal

\* On a plain axis without memory the residual update changes nothing.
LEMMA PlainPartly ==
  ASSUME NEW cell, NEW a, PlainAxis(cell, a), cell.base \in Int, cell.curl[a].b \in Int,
         NEW x \in 0..(P - 1), NEW t \in Int, NEW direction, Signed(direction)
  PROVE  LET u == Partly(cell, 0, x, t, direction, a) IN u.field = x /\ u.psi = 0
<1> DEFINE g == Excess(cell, a)
           sign == IF a = 1 THEN 1 ELSE -1
           next == Psi(g, 0, t)
           u == Partly(cell, 0, x, t, direction, a)
<1>1. g.base = cell.base /\ g.b = cell.curl[a].b /\ g.c = 0 /\ g.excess = 0
  <2>1. Reciprocal(1) - 1 = 0
    BY ReciprocalOne
  <2>2. cell.curl[a].c = 0 /\ cell.curl[a].kappa = 1
    BY DEF PlainAxis
  <2>3. /\ g.base = cell.base /\ g.b = cell.curl[a].b /\ g.c = cell.curl[a].c
        /\ g.excess = Reciprocal(cell.curl[a].kappa) - 1
    BY DEF Excess
  <2> QED BY <2>1, <2>2, <2>3
<1>2. u = [field |-> (x + g.base * direction * sign * (g.excess * t + next)) % P, psi |-> next]
  BY DEF Partly, CpmlResidual
<1>3. next = (g.b * 0 + g.c * t) % P
  BY DEF Psi
<1>4. sign \in {1, -1} /\ direction \in {1, -1}
  BY DEF Signed
<1> HIDE DEF g, sign, next
<1>5. 0 % P = 0
  BY ResidueArithmetic, ResidueAssumption
<1>6. next = 0
  <2>1. g.b * 0 + g.c * t = 0
    BY <1>1
  <2> QED BY <1>3, <1>5, <2>1
<1>7. x + g.base * direction * sign * (g.excess * t + next) = x
  <2>1. g.excess * t + next = 0
    BY <1>1, <1>6
  <2>2. g.base * direction * sign \in Int
    BY <1>1, <1>4
  <2>3. g.base * direction * sign * 0 = 0
    BY <2>2
  <2> QED BY <2>1, <2>3
<1>8. u.field = x % P /\ u.psi = 0
  BY <1>2, <1>6, <1>7
<1> HIDE DEF u
<1>9. u.field = x /\ u.psi = 0
  BY <1>8, ResidueArithmetic
<1> QED BY <1>9 DEF u

-----------------------------------------------------------------------------
\* What the update of one residual axis makes of each cell of its bucket.
AxisUpdate(S, d, a, k) ==
  Partly(BucketOf(sim.plan, d).cells[k], Lane(S.mem, d, a)[k], FieldAt(S.F, d[1], TargetOf(d, k)),
         GatherDifference(S.F, d[1], PmlTerms(d[1])[a], TargetOf(d, k)), Direction(d[1]), a)

Axial(T, S, d, a) ==
  /\ \A x \in Component : x # d[1] => T.F[x] = S.F[x]
  /\ \A v \in CellsOf(This, d[1]) :
       (\A k \in RowsOf(d) : TargetOf(d, k) # Flat(ShapeOf(d[1]), v)) => T.F[d[1]][v] = S.F[d[1]][v]
  /\ \A k \in RowsOf(d) : /\ FieldAt(T.F, d[1], TargetOf(d, k)) = AxisUpdate(S, d, a, k).field
                          /\ Lane(T.mem, d, a)[k] = AxisUpdate(S, d, a, k).psi
  /\ T.mem.dispersive = S.mem.dispersive /\ T.mem.absorber = S.mem.absorber
  /\ \A x \in sim.sparse \X {1, 2} : x # <<d, a>> => T.mem.axis[x] = S.mem.axis[x]

\* The memory of a residual axis at a row: its lane, or zero where the row has none.
LEMMA LaneAt ==
  ASSUME NEW M, NEW d, NEW a, NEW r, r = BucketOf(sim.plan, d).residual[a],
         NEW n \in Nat, RowsOf(d) = 1..n, NEW k \in RowsOf(d),
         \A i, j \in DOMAIN r.positions : r.positions[i] = r.positions[j] => i = j
  PROVE  /\ \A j \in DOMAIN r.positions : r.positions[j] = k => Lane(M, d, a)[k] = M.axis[<<d, a>>][j]
         /\ (\A j \in DOMAIN r.positions : r.positions[j] # k) => Lane(M, d, a)[k] = 0
<1> DEFINE q == r.positions
           values == M.axis[<<d, a>>]
           targets == BucketOf(sim.plan, d).targets
<1>1. Len(targets) = n
  BY DEF RowsOf
<1>2. Lane(M, d, a) = LogicalAxis(r, Len(targets), values)
  BY DEF Lane
<1> HIDE DEF values, targets
<1>3. LogicalAxis(r, n, values)[k] = IF k \in Range(q) THEN values[Position(q, k)] ELSE 0
  BY DEF LogicalAxis
<1>4. Lane(M, d, a)[k] = IF k \in Range(q) THEN values[Position(q, k)] ELSE 0
  BY <1>1, <1>2, <1>3
<1> HIDE DEF q
<1>5. ASSUME NEW j \in DOMAIN q, q[j] = k PROVE Lane(M, d, a)[k] = values[j]
  <2>1. k \in Range(q)
    BY <1>5 DEF Range
  <2>2. Lists(q, Range(q))
    BY DEF Lists, Range
  <2>3. Position(q, k) \in DOMAIN q /\ q[Position(q, k)] = k
    BY <2>1, <2>2, PositionIs
  <2>4. Position(q, k) = j
    BY <1>5, <2>3 DEF q
  <2> QED BY <1>4, <2>1, <2>4
<1>6. ASSUME \A j \in DOMAIN q : q[j] # k PROVE Lane(M, d, a)[k] = 0
  BY <1>4, <1>6 DEF Range
<1> QED BY <1>5, <1>6 DEF q, values

\* Running a residual axis is its update of every row of the bucket.
LEMMA RunResidualAxial ==
  ASSUME WellFormed(This), Built(sim, This), NEW S, Held(S), NEW d \in sim.sparse, NEW a \in 1..2,
         \A k \in RowsOf(d) : FieldAt(S.F, d[1], TargetOf(d, k)) \in 0..(P - 1)
  PROVE  Axial(RunResidual(S, d, a), S, d, a)
<1> DEFINE b == BucketOf(sim.plan, d)
           r == b.residual[a]
           c == d[1]
           done(k) == CpmlResidual(r.parameters[k], S.mem.axis[<<d, a>>][k],
                                   FieldAt(S.F, c, r.targets[k]),
                                   GatherDifference(S.F, c, PmlTerms(c)[a], r.targets[k]),
                                   Direction(c), IF a = 1 THEN 1 ELSE -1)
           out == [k \in DOMAIN r.targets |-> done(k)]
           fields == [k \in DOMAIN out |-> out[k].field]
           psis == [k \in DOMAIN out |-> out[k].psi]
           N == [S.mem EXCEPT !.axis[<<d, a>>] = psis]
           H == Scatter(S.F, c, r.targets, fields)
           T == RunResidual(S, d, a)
<1>1. T = [F |-> H, mem |-> N]
  BY Zenon DEF RunResidual
<1>2. d \in sim.stateful /\ d \in Buckets(sim.plan) /\ b.signature[1] = "cpml"
      /\ b.residual = [axis \in 1..2 |-> Residual(b.targets, b.cells, axis)]
  <2>1. d \in sim.stateful
    BY BuiltFields
  <2> QED BY <2>1, BuiltKinds
<1>3. c \in Component /\ Distinctly(b.targets) /\ Furnished(b, This, sim.options, c)
      /\ \A k \in RowsOf(d) : TargetOf(d, k) \in ActiveTargets(Serial(This.n), c)
  BY <1>2, BucketCells
<1>4. PICK n \in Nat : DOMAIN b.targets = 1..n
  BY <1>3 DEF Distinctly
<1>5. RowsOf(d) = 1..n /\ \A k \in 1..n : TargetOf(d, k) = b.targets[k]
  BY <1>4 DEF RowsOf, TargetOf
<1>6. Kept(b, a, r)
  <2>1. r = Residual(b.targets, b.cells, a)
    BY <1>2
  <2>2. Kept(b, a, Residual(b.targets, b.cells, a))
    <3> HIDE DEF b
    <3> QED BY <1>4, ResidualKeeps
  <2> QED BY <2>1, <2>2
<1>7. /\ Arrays(This, S.F) /\ Buffered(sim, S.mem)
  BY DEF Held
<1>8. \A k \in 1..n : CellTyped(b.cells[k], "cpml")
  BY <1>2, <1>3, <1>4, Zenon DEF Furnished, Absorbers
<1> DEFINE q == r.positions
<1>9. PICK m \in Nat : DOMAIN q = 1..m /\ DOMAIN r.targets = 1..m
  BY <1>6 DEF Kept
<1>10. /\ \A j, k \in 1..m : q[j] = q[k] => j = k
       /\ \A j \in 1..m : /\ q[j] \in 1..n /\ r.targets[j] = b.targets[q[j]]
                          /\ r.parameters[j] = Excess(b.cells[q[j]], a)
       /\ \A k \in 1..n : ~PlainAxis(b.cells[k], a) => \E j \in 1..m : q[j] = k
       /\ \A j \in 1..m : ~PlainAxis(b.cells[q[j]], a)
  BY <1>4, <1>6, <1>9 DEF Kept
<1>11. \A j \in 1..m : fields[j] = done(j).field /\ psis[j] = done(j).psi
  BY <1>9
<1>12. DOMAIN r.targets = 1..m /\ DOMAIN fields = 1..m
  BY <1>9
<1>26. r = b.residual[a]
  OBVIOUS
<1> DEFINE Q == S.mem
<1>13. \A k \in 1..n : /\ \A j \in 1..m : q[j] = k => Lane(Q, d, a)[k] = Q.axis[<<d, a>>][j]
                       /\ (\A j \in 1..m : q[j] # k) => Lane(Q, d, a)[k] = 0
  <2> HIDE DEF Q, r, b
  <2> QED BY <1>5, <1>9, <1>10, <1>26, LaneAt DEF b
<1>14. \A k \in 1..n : /\ \A j \in 1..m : q[j] = k => Lane(N, d, a)[k] = N.axis[<<d, a>>][j]
                       /\ (\A j \in 1..m : q[j] # k) => Lane(N, d, a)[k] = 0
  <2> HIDE DEF N, r, b
  <2> QED BY <1>5, <1>9, <1>10, <1>26, LaneAt DEF b
<1>15. ASSUME NEW j \in 1..m
       PROVE  done(j) = AxisUpdate(S, d, a, q[j])
  <2> DEFINE k == q[j]
  <2>1. k \in 1..n /\ r.targets[j] = TargetOf(d, k) /\ r.parameters[j] = Excess(b.cells[k], a)
    BY <1>5, <1>10
  <2>2. Lane(S.mem, d, a)[k] = S.mem.axis[<<d, a>>][j]
    BY <1>13, <2>1
  <2>3. AxisUpdate(S, d, a, k)
          = CpmlResidual(Excess(b.cells[k], a), Lane(S.mem, d, a)[k], FieldAt(S.F, c, TargetOf(d, k)),
                         GatherDifference(S.F, c, PmlTerms(c)[a], TargetOf(d, k)), Direction(c),
                         IF a = 1 THEN 1 ELSE -1)
    BY DEF AxisUpdate, Partly
  <2> HIDE DEF k
  <2> QED BY <2>1, <2>2, <2>3 DEF k
<1> HIDE DEF done, fields, psis
<1>16. ASSUME NEW k \in 1..n, \A j \in 1..m : q[j] # k
       PROVE  /\ AxisUpdate(S, d, a, k).field = FieldAt(S.F, c, TargetOf(d, k))
              /\ AxisUpdate(S, d, a, k).psi = 0
  <2> DEFINE cell == b.cells[k]
             x == FieldAt(S.F, c, TargetOf(d, k))
             t == GatherDifference(S.F, c, PmlTerms(c)[a], TargetOf(d, k))
             direction == Direction(c)
  <2>1. PlainAxis(cell, a)
    BY <1>10, <1>16
  <2>2. Lane(S.mem, d, a)[k] = 0
    BY <1>13, <1>16
  <2>3. AxisUpdate(S, d, a, k) = Partly(cell, 0, x, t, direction, a)
    BY <2>2 DEF AxisUpdate
  <2>4. cell.base \in Int /\ cell.curl[a].b \in Int
    <3>1. CellTyped(cell, "cpml")
      BY <1>8
    <3>2. cell.base \in Int /\ cell.curl[a] \in Gradings("cpml")
      <4>1. a = 1 \/ a = 2
        OBVIOUS
      <4> QED BY <3>1, <4>1 DEF CellTyped
    <3> DEFINE p == cell.curl[a]
    <3> HIDE DEF p
    <3>3. p.b \in Int
      BY <3>2 DEF Gradings, p
    <3> QED BY <3>2, <3>3 DEF p
  <2>5. x \in 0..(P - 1) /\ t \in Int /\ Signed(direction)
    <3>1. t \in Int
      BY <1>3, <1>5, <1>7, CurlTyped
    <3> QED BY <1>5, <3>1, DirectionSigned
  <2> HIDE DEF cell, x, t, direction
  <2>6. Partly(cell, 0, x, t, direction, a).field = x /\ Partly(cell, 0, x, t, direction, a).psi = 0
    BY <2>1, <2>4, <2>5, PlainPartly
  <2> QED BY <2>3, <2>6 DEF x
<1>17. Distinctly(r.targets)
  <2>1. \A i, j \in 1..n : b.targets[i] = b.targets[j] => i = j
    BY <1>3, <1>4 DEF Distinctly
  <2>2. ASSUME NEW i \in 1..m, NEW j \in 1..m, r.targets[i] = r.targets[j] PROVE i = j
    <3>1. b.targets[q[i]] = b.targets[q[j]] /\ q[i] \in 1..n /\ q[j] \in 1..n
      BY <1>10, <2>2
    <3>2. q[i] = q[j]
      BY <2>1, <3>1
    <3> QED BY <1>10, <3>2
  <2> DEFINE ts == r.targets
  <2>3. DOMAIN ts = 1..m /\ \A i, j \in 1..m : ts[i] = ts[j] => i = j
    BY <1>9, <2>2
  <2> HIDE DEF ts
  <2>4. Distinctly(ts)
    BY <2>3 DEF Distinctly
  <2> QED BY <2>4 DEF ts
<1>18. /\ \A x \in Component : x # c => H[x] = S.F[x]
       /\ \A v \in DOMAIN S.F[c] : \A j \in DOMAIN r.targets :
            r.targets[j] = Flat(ShapeOf(c), v) => H[c][v] = fields[j]
       /\ \A v \in DOMAIN S.F[c] :
            (\A j \in DOMAIN r.targets : r.targets[j] # Flat(ShapeOf(c), v)) => H[c][v] = S.F[c][v]
  <2> DEFINE G == S.F
             ts == r.targets
  <2>1. Arrays(This, G) /\ Distinctly(ts)
    BY <1>7, <1>17
  <2> HIDE DEF G, ts, c
  <2>2. LET R == Scatter(G, c, ts, fields)
        IN  /\ \A x \in Component : x # c => R[x] = G[x]
            /\ \A v \in DOMAIN G[c] : \A j \in DOMAIN ts :
                 ts[j] = Flat(ShapeOf(c), v) => R[c][v] = fields[j]
            /\ \A v \in DOMAIN G[c] :
                 (\A j \in DOMAIN ts : ts[j] # Flat(ShapeOf(c), v)) => R[c][v] = G[c][v]
    BY <1>3, <2>1, ScatterAt DEF c
  <2> QED BY <2>2 DEF G, ts
<1> HIDE DEF H
<1>19. DOMAIN S.F[c] = CellsOf(This, c)
  BY <1>3, <1>7 DEF Arrays
<1>20. ASSUME NEW v \in CellsOf(This, c), \A k \in RowsOf(d) : TargetOf(d, k) # Flat(ShapeOf(c), v)
       PROVE  H[c][v] = S.F[c][v]
  <2>1. \A j \in DOMAIN r.targets : r.targets[j] # Flat(ShapeOf(c), v)
    BY <1>5, <1>9, <1>10, <1>20
  <2> QED BY <1>18, <1>19, <2>1
<1>21. ASSUME NEW k \in RowsOf(d) PROVE FieldAt(H, c, TargetOf(d, k)) = AxisUpdate(S, d, a, k).field
  <2> DEFINE v == Unflat(ShapeOf(c), TargetOf(d, k))
  <2>1. /\ v \in CellsOf(This, c) /\ Flat(ShapeOf(c), v) = TargetOf(d, k)
        /\ FieldAt(H, c, TargetOf(d, k)) = H[c][v] /\ FieldAt(S.F, c, TargetOf(d, k)) = S.F[c][v]
    BY <1>2, RowCell
  <2> HIDE DEF v
  <2>2. CASE \E j \in 1..m : q[j] = k
    <3>1. PICK j \in 1..m : q[j] = k
      BY <2>2
    <3>2. r.targets[j] = TargetOf(d, k)
      BY <1>5, <1>10, <3>1
    <3>3. H[c][v] = fields[j]
      BY <1>9, <1>18, <1>19, <2>1, <3>2
    <3> QED BY <1>11, <1>15, <2>1, <3>1, <3>3
  <2>3. CASE \A j \in 1..m : q[j] # k
    <3>1. ASSUME NEW j \in 1..m, r.targets[j] = TargetOf(d, k) PROVE FALSE
      <4>1. b.targets[q[j]] = b.targets[k] /\ q[j] \in 1..n /\ k \in 1..n
        BY <1>5, <1>10, <3>1
      <4>2. q[j] = k
        BY <1>3, <1>4, <4>1 DEF Distinctly
      <4> QED BY <2>3, <4>2
    <3>2. \A j \in DOMAIN r.targets : r.targets[j] # Flat(ShapeOf(c), v)
      BY <1>9, <2>1, <3>1
    <3>3. H[c][v] = S.F[c][v]
      BY <1>18, <1>19, <2>1, <3>2
    <3> QED BY <1>5, <1>16, <2>1, <2>3, <3>3
  <2> QED BY <2>2, <2>3
<1>22. /\ S.mem = [dispersive |-> S.mem.dispersive, absorber |-> S.mem.absorber, axis |-> S.mem.axis]
       /\ DOMAIN S.mem.axis = sim.sparse \X {1, 2}
  BY <1>7 DEF Buffered
<1>23. /\ N.dispersive = S.mem.dispersive /\ N.absorber = S.mem.absorber
       /\ N.axis = [S.mem.axis EXCEPT ![<<d, a>>] = psis]
  BY <1>22
<1> HIDE DEF N
<1>24. /\ N.axis[<<d, a>>] = psis
       /\ \A x \in sim.sparse \X {1, 2} : x # <<d, a>> => N.axis[x] = S.mem.axis[x]
  <2>1. <<d, a>> \in sim.sparse \X {1, 2}
    OBVIOUS
  <2> QED BY <1>22, <1>23, <2>1
<1>25. ASSUME NEW k \in RowsOf(d) PROVE Lane(N, d, a)[k] = AxisUpdate(S, d, a, k).psi
  <2>2. CASE \E j \in 1..m : q[j] = k
    <3>1. PICK j \in 1..m : q[j] = k
      BY <2>2
    <3>2. Lane(N, d, a)[k] = psis[j]
      BY <1>5, <1>14, <1>24, <3>1
    <3> QED BY <1>11, <1>15, <3>1, <3>2
  <2>3. CASE \A j \in 1..m : q[j] # k
    BY <1>5, <1>14, <1>16, <2>3
  <2> QED BY <2>2, <2>3
<1>27. T.F = H /\ T.mem = N
  BY <1>1
<1> HIDE DEF T
<1>28. Axial(T, S, d, a)
  BY <1>18, <1>20, <1>21, <1>23, <1>24, <1>25, <1>27 DEF Axial
<1> QED BY <1>28 DEF T

-----------------------------------------------------------------------------
\* The plain update x of a CPML cell and the two residual axes u and w after it.
InParts(cell, row, e, t, direction, x, u, w) ==
  /\ x = (e + cell.base * (direction * (t[1] - t[2]))) % P
  /\ u = Partly(cell, row[1], x, t[1], direction, 1)
  /\ w = Partly(cell, row[2], u.field, t[2], direction, 2)

\* They are residues, and together the update of the cell.
AsOne(cell, row, e, t, direction, x, u, w) ==
  /\ x \in 0..(P - 1) /\ u.field \in 0..(P - 1)
  /\ w.field = Cpml(cell, row, e, t, direction).field
  /\ << u.psi, w.psi >> = Cpml(cell, row, e, t, direction).row

\* What every row of the memory and every difference of a CPML cell is.
Driven(row, e, t) ==
  row[1] \in Int /\ row[2] \in Int /\ e \in Int /\ t[1] \in Int /\ t[2] \in Int

\* The plain update of a CPML cell and both its residual axes make its update.
LEMMA CpmlParts ==
  ASSUME NEW cell, CellTyped(cell, "cpml"), NEW row, NEW e, NEW t, Driven(row, e, t),
         NEW direction, Signed(direction), NEW x, NEW u, NEW w,
         InParts(cell, row, e, t, direction, x, u, w)
  PROVE  AsOne(cell, row, e, t, direction, x, u, w)
<1> DEFINE B == cell.base
           r1 == Reciprocal(cell.curl[1].kappa)
           r2 == Reciprocal(cell.curl[2].kappa)
           p1 == Psi(cell.curl[1], row[1], t[1])
           p2 == Psi(cell.curl[2], row[2], t[2])
<1>0. /\ x = (e + cell.base * (direction * (t[1] - t[2]))) % P
      /\ u = Partly(cell, row[1], x, t[1], direction, 1)
      /\ w = Partly(cell, row[2], u.field, t[2], direction, 2)
      /\ row[1] \in Int /\ row[2] \in Int /\ e \in Int /\ t[1] \in Int /\ t[2] \in Int
  BY DEF InParts, Driven
<1>1. /\ B \in Int /\ cell.curl[1] \in Gradings("cpml") /\ cell.curl[2] \in Gradings("cpml")
  BY DEF CellTyped
<1>2. ASSUME NEW k \in Gradings("cpml"), NEW y \in Int, NEW z \in Int
      PROVE  Reciprocal(k.kappa) \in Int /\ Psi(k, y, z) \in Int
  <2>1. k.b \in Int /\ k.c \in Int /\ Divides(k.kappa)
    BY <1>2 DEF Gradings
  <2>2. k.b * y + k.c * z \in Int
    BY <2>1
  <2>3. Psi(k, y, z) = (k.b * y + k.c * z) % P
    BY DEF Psi
  <2> QED BY <2>1, <2>2, <2>3, ResidueInteger, ReciprocalInteger
<1>3. r1 \in Int /\ r2 \in Int /\ p1 \in Int /\ p2 \in Int
  BY <1>0, <1>1, <1>2
<1>4. Cpml(cell, row, e, t, direction)
        = [field |-> (e + B * direction * ((r1 * t[1] + p1) - (r2 * t[2] + p2))) % P,
           row |-> [i \in 1..2 |-> Psi(cell.curl[i], row[i], t[i])]]
  BY DEF Cpml
<1>5. [i \in 1..2 |-> Psi(cell.curl[i], row[i], t[i])] = << p1, p2 >>
  OBVIOUS
<1>6. \A a \in 1..2 : \A psi, z : Psi(Excess(cell, a), psi, z) = Psi(cell.curl[a], psi, z)
  BY DEF Psi, Excess
<1>7. u = [field |-> (x + B * direction * 1 * ((r1 - 1) * t[1] + p1)) % P, psi |-> p1]
  <2>1. u = CpmlResidual(Excess(cell, 1), row[1], x, t[1], direction, 1)
    BY <1>0 DEF Partly
  <2>2. Psi(Excess(cell, 1), row[1], t[1]) = p1
    BY <1>6
  <2>3. Excess(cell, 1).base = B /\ Excess(cell, 1).excess = r1 - 1
    BY DEF Excess
  <2> HIDE DEF p1, r1, B
  <2> QED BY <2>1, <2>2, <2>3 DEF CpmlResidual
<1>8. w = [field |-> (u.field + B * direction * (-1) * ((r2 - 1) * t[2] + p2)) % P, psi |-> p2]
  <2>1. w = CpmlResidual(Excess(cell, 2), row[2], u.field, t[2], direction, -1)
    BY <1>0 DEF Partly
  <2>2. Psi(Excess(cell, 2), row[2], t[2]) = p2
    BY <1>6
  <2>3. Excess(cell, 2).base = B /\ Excess(cell, 2).excess = r2 - 1
    BY DEF Excess
  <2> HIDE DEF p2, r2, B
  <2> QED BY <2>1, <2>2, <2>3 DEF CpmlResidual
<1>9. direction \in {1, -1}
  BY DEF Signed
<1> DEFINE x0 == e + B * (direction * (t[1] - t[2]))
           a1 == B * direction * 1 * ((r1 - 1) * t[1] + p1)
           a2 == B * direction * (-1) * ((r2 - 1) * t[2] + p2)
<1>10. x = x0 % P
  BY <1>0
<1>14. u.field = (x + a1) % P /\ u.psi = p1 /\ w.field = (u.field + a2) % P /\ w.psi = p2
  BY <1>7, <1>8
<1> HIDE DEF r1, r2, p1, p2, B
<1> DEFINE s == t[1]
           z == t[2]
<1>11. s \in Int /\ z \in Int /\ e \in Int
  BY <1>0
<1>12. x0 = e + B * (direction * (s - z)) /\ a1 = B * direction * 1 * ((r1 - 1) * s + p1)
       /\ a2 = B * direction * (-1) * ((r2 - 1) * z + p2)
  OBVIOUS
<1>13. Cpml(cell, row, e, t, direction).field
         = (e + B * direction * ((r1 * s + p1) - (r2 * z + p2))) % P
       /\ Cpml(cell, row, e, t, direction).row = << p1, p2 >>
  BY <1>4, <1>5
<1> HIDE DEF s, z, x0, a1, a2
<1>15. x0 \in Int /\ a1 \in Int /\ a2 \in Int
  <2>1. direction * (s - z) \in Int /\ (r1 - 1) * s + p1 \in Int /\ (r2 - 1) * z + p2 \in Int
    BY <1>3, <1>9, <1>11
  <2>2. B * (direction * (s - z)) \in Int /\ B * direction * 1 \in Int /\ B * direction * (-1) \in Int
    BY <1>1, <1>9, <2>1
  <2> QED BY <1>11, <1>12, <2>1, <2>2
<1>16. x0 + a1 + a2 = e + B * direction * ((r1 * s + p1) - (r2 * z + p2))
  <2> DEFINE f == r1 * s
             h == r2 * z
  <2>1. f \in Int /\ h \in Int /\ (r1 - 1) * s = f - s /\ (r2 - 1) * z = h - z
    BY <1>3, <1>11
  <2>2. r1 * s = f /\ r2 * z = h
    OBVIOUS
  <2> HIDE DEF f, h
  <2>3. CASE direction = 1
    <3>1. /\ x0 = e + B * (s - z) /\ a1 = B * (f - s + p1) /\ a2 = B * (-1) * (h - z + p2)
      BY <1>1, <1>3, <1>11, <1>12, <2>1, <2>3
    <3>2. e + B * (s - z) + B * (f - s + p1) + B * (-1) * (h - z + p2) = e + B * ((f + p1) - (h + p2))
      BY <1>1, <1>3, <1>11, <2>1
    <3>3. B * direction * ((f + p1) - (h + p2)) = B * ((f + p1) - (h + p2))
      BY <1>1, <2>3
    <3> QED BY <2>2, <3>1, <3>2, <3>3
  <2>4. CASE direction = -1
    <3>1. /\ x0 = e + B * (z - s) /\ a1 = B * (-1) * (f - s + p1) /\ a2 = B * (h - z + p2)
      BY <1>1, <1>3, <1>11, <1>12, <2>1, <2>4
    <3>2. e + B * (z - s) + B * (-1) * (f - s + p1) + B * (h - z + p2)
            = e + B * (-1) * ((f + p1) - (h + p2))
      BY <1>1, <1>3, <1>11, <2>1
    <3> QED BY <2>2, <2>4, <3>1, <3>2
  <2> QED BY <1>9, <2>3, <2>4
<1>17. x \in 0..(P - 1) /\ (x + a1) % P \in 0..(P - 1) /\ u.field \in 0..(P - 1)
  <2>1. x \in 0..(P - 1)
    BY <1>10, <1>15, ResidueInteger
  <2>2. x + a1 \in Int
    BY <1>15, <2>1, ResidueAssumption
  <2> QED BY <1>14, <2>1, <2>2, ResidueInteger
<1>18. w.field = (x0 + a1 + a2) % P
  <2>1. ((x0 % P) + a1) % P = (x0 + a1) % P
    BY <1>15, ResidueArithmetic
  <2>2. x0 + a1 \in Int
    BY <1>15
  <2>3. (((x0 + a1) % P) + a2) % P = (x0 + a1 + a2) % P
    BY <1>15, <2>2, ResidueArithmetic
  <2> QED BY <1>10, <1>14, <2>1, <2>3
<1>19. /\ x \in 0..(P - 1) /\ u.field \in 0..(P - 1)
       /\ w.field = Cpml(cell, row, e, t, direction).field
       /\ << u.psi, w.psi >> = Cpml(cell, row, e, t, direction).row
  BY <1>13, <1>14, <1>16, <1>17, <1>18
<1> QED BY <1>19 DEF AsOne

-----------------------------------------------------------------------------
\* The memory of a residual axis is an integer for each row of its bucket.
LEMMA LaneTyped ==
  ASSUME WellFormed(This), Built(sim, This), NEW M, Buffered(sim, M), NEW d \in sim.sparse,
         NEW a \in 1..2, NEW k \in RowsOf(d)
  PROVE  Lane(M, d, a)[k] \in Int
<1> DEFINE b == BucketOf(sim.plan, d)
           r == b.residual[a]
           q == r.positions
<1>1. d \in sim.stateful /\ d \in Buckets(sim.plan) 
      /\ b.residual = [axis \in 1..2 |-> Residual(b.targets, b.cells, axis)]
  <2>1. d \in sim.stateful
    BY BuiltFields
  <2> QED BY <2>1, BuiltKinds
<1>2. PICK n \in Nat : DOMAIN b.targets = 1..n
  BY <1>1, BucketCells DEF Distinctly
<1>3. RowsOf(d) = 1..n
  BY <1>2 DEF RowsOf
<1>4. r = Residual(b.targets, b.cells, a)
  BY <1>1
<1>5. Kept(b, a, r)
  <2>1. Kept(b, a, Residual(b.targets, b.cells, a))
    <3> HIDE DEF b
    <3> QED BY <1>2, ResidualKeeps
  <2> QED BY <1>4, <2>1
<1>6. \A i, j \in DOMAIN q : q[i] = q[j] => i = j
  BY <1>5 DEF Kept
<1>7. \A j \in DOMAIN q : M.axis[<<d, a>>][j] \in Int
  BY DEF Buffered
<1>8. r = BucketOf(sim.plan, d).residual[a]
  OBVIOUS
<1>9. /\ \A j \in DOMAIN q : q[j] = k => Lane(M, d, a)[k] = M.axis[<<d, a>>][j]
      /\ (\A j \in DOMAIN q : q[j] # k) => Lane(M, d, a)[k] = 0
  <2> HIDE DEF r
  <2> QED BY <1>3, <1>6, <1>8, LaneAt
<1> HIDE DEF q, r
<1> QED BY <1>7, <1>9

\* The two residual axes complete a CPML bucket.
LEMMA RunResidualStage ==
  ASSUME WellFormed(This), Built(sim, This), NEW G, Arrays(This, G), Reduced(This, G), NEW M,
         NEW family, NEW D, NEW S, Stage(S, G, M, D, family),
         NEW d \in sim.sparse, d[1][1] = family, d \notin D
  PROVE  Stage(RunResidual(RunResidual(S, d, 1), d, 2), G, M, D \cup {d}, family)
<1> DEFINE b == BucketOf(sim.plan, d)
           c == d[1]
           T == RunResidual(S, d, 1)
           U == RunResidual(T, d, 2)
<1>1. d \in sim.stateful /\ d \in Buckets(sim.plan) /\ b.signature[1] = "cpml"
  <2>1. d \in sim.stateful
    BY BuiltFields
  <2> QED BY <2>1, BuiltKinds
<1>2. /\ c \in Component /\ Furnished(b, This, sim.options, c)
      /\ \A k \in RowsOf(d) : TargetOf(d, k) \in ActiveTargets(Serial(This.n), c)
      /\ \A x, y \in Buckets(sim.plan) : \A j \in RowsOf(x) : \A k \in RowsOf(y) :
           x[1] = y[1] /\ TargetOf(x, j) = TargetOf(y, k) => x = y /\ j = k
  BY <1>1, BucketCells
<1>3. Held(S) /\ FieldStage(S.F, G, M, D, family) /\ RowStage(S.mem, G, M, D)
  BY DEF Stage
<1>4. Arrays(This, S.F) /\ Buffered(sim, S.mem)
  BY <1>3 DEF Held
<1>5. Held(T) /\ Held(U)
  <2>1. 1 \in 1..2 /\ 2 \in 1..2
    OBVIOUS
  <2>2. Held(T)
    BY <1>3, <2>1, RunResidualHeld
  <2> HIDE DEF T
  <2> QED BY <2>1, <2>2, RunResidualHeld
<1> DEFINE e(k) == FieldAt(G, c, TargetOf(d, k))
           t(k) == Pair(G, c, TargetOf(d, k))
           row(k) == LogicalRow(M, d, k)
           cell(k) == b.cells[k]
           x(k) == (e(k) + cell(k).base * (Direction(c) * (t(k)[1] - t(k)[2]))) % P
           u(k) == Partly(cell(k), row(k)[1], x(k), t(k)[1], Direction(c), 1)
           w(k) == Partly(cell(k), row(k)[2], u(k).field, t(k)[2], Direction(c), 2)
<1>6. \A k \in RowsOf(d) : CellTyped(cell(k), "cpml")
  BY <1>1, <1>2, Zenon DEF Furnished, Absorbers, RowsOf
<1>7. ASSUME NEW k \in RowsOf(d)
      PROVE  /\ e(k) \in Int /\ t(k)[1] \in Int /\ t(k)[2] \in Int
             /\ FieldAt(S.F, c, TargetOf(d, k)) = x(k)
  <2> DEFINE i == TargetOf(d, k)
             curl == IndexedCurl(G, c, i)
  <2>1. i \in ActiveTargets(Serial(This.n), c)
    BY <1>2
  <2>2. e(k) \in Int
    BY <1>2, <2>1, FieldAtTyped
  <2>3. /\ t(k)[1] \in Int /\ t(k)[2] \in Int
        /\ curl = Direction(c) * (t(k)[1] - t(k)[2])
    BY <1>2, <2>1, CurlOfPair
  <2>4. d \in FamilyOf(family)
    BY <1>1 DEF FamilyOf
  <2>5. FieldAt(S.F, c, i) = Densed(G, d, k)
    BY <1>3, <2>4 DEF FieldStage
  <2>6. DenseInverse(b, k) = cell(k).base
    BY <1>1, InverseTyped
  <2>7. Densed(G, d, k) = (e(k) + cell(k).base * curl) % P
    BY <2>6 DEF Densed
  <2> QED BY <2>2, <2>3, <2>5, <2>7
<1>8. ASSUME NEW k \in RowsOf(d)
      PROVE  /\ row(k) = << Lane(S.mem, d, 1)[k], Lane(S.mem, d, 2)[k] >>
             /\ row(k)[1] \in Int /\ row(k)[2] \in Int
  <2> DEFINE Q == S.mem
  <2>1. LogicalRow(Q, d, k) = row(k)
    BY <1>1, <1>3 DEF RowStage
  <2>2. Buffered(sim, Q)
    BY <1>4
  <2> HIDE DEF Q, row
  <2>3. LogicalRow(Q, d, k) = << Lane(Q, d, 1)[k], Lane(Q, d, 2)[k] >>
    BY <1>1, SparseRow
  <2>4. 1 \in 1..2 /\ 2 \in 1..2
    OBVIOUS
  <2>5. Lane(Q, d, 1)[k] \in Int /\ Lane(Q, d, 2)[k] \in Int
    BY <2>2, <2>4, LaneTyped
  <2> QED BY <2>1, <2>3, <2>5 DEF Q
<1> HIDE DEF e, t, row, cell
<1>9. ASSUME NEW k \in RowsOf(d)
      PROVE  /\ x(k) \in 0..(P - 1) /\ u(k).field \in 0..(P - 1)
             /\ w(k).field = Cpml(cell(k), row(k), e(k), t(k), Direction(c)).field
             /\ << u(k).psi, w(k).psi >> = Cpml(cell(k), row(k), e(k), t(k), Direction(c)).row
  <2> DEFINE cc == cell(k)
             rr == row(k)
             ee == e(k)
             tt == t(k)
             dd == Direction(c)
             xx == x(k)
             uu == u(k)
             ww == w(k)
  <2>1. CellTyped(cc, "cpml") /\ Signed(dd)
    BY <1>2, <1>6, DirectionSigned
  <2>2. Driven(rr, ee, tt)
    BY <1>7, <1>8 DEF Driven
  <2>3. InParts(cc, rr, ee, tt, dd, xx, uu, ww)
    BY DEF InParts
  <2> HIDE DEF cc, rr, ee, tt, dd, xx, uu, ww
  <2>4. AsOne(cc, rr, ee, tt, dd, xx, uu, ww)
    BY <2>1, <2>2, <2>3, CpmlParts
  <2> QED BY <2>4 DEF AsOne, cc, rr, ee, tt, dd, xx, uu, ww
<1> HIDE DEF x, u, w
<1>10. ASSUME NEW k \in RowsOf(d)
       PROVE  /\ Fresh(G, M, d, k).field = w(k).field
              /\ Fresh(G, M, d, k).row = << u(k).psi, w(k).psi >>
  <2>1. Fresh(G, M, d, k) = AbsorberUpdate(b.signature, cell(k), row(k), e(k), t(k), Direction(c))
    BY <1>1 DEF Fresh, Absorbers, cell, row, e, t
  <2>2. @ = Cpml(cell(k), row(k), e(k), t(k), Direction(c))
    BY <1>1 DEF AbsorberUpdate
  <2> QED BY <1>9, <2>1, <2>2
<1>11. Axial(T, S, d, 1)
  <2>1. 1 \in 1..2
    OBVIOUS
  <2>2. \A k \in RowsOf(d) : FieldAt(S.F, d[1], TargetOf(d, k)) \in 0..(P - 1)
    BY <1>7, <1>9
  <2> QED BY <1>3, <2>1, <2>2, RunResidualAxial
<1>12. \A z \in Component : z[1] # c[1] => S.F[z] = G[z]
  BY <1>3 DEF FieldStage
<1>13. ASSUME NEW k \in RowsOf(d)
       PROVE  /\ FieldAt(T.F, c, TargetOf(d, k)) = u(k).field
              /\ Lane(T.mem, d, 1)[k] = u(k).psi
  <2>1. /\ FieldAt(T.F, c, TargetOf(d, k)) = AxisUpdate(S, d, 1, k).field
        /\ Lane(T.mem, d, 1)[k] = AxisUpdate(S, d, 1, k).psi
    BY <1>11 DEF Axial
  <2>2. AxisUpdate(S, d, 1, k)
          = Partly(cell(k), Lane(S.mem, d, 1)[k], FieldAt(S.F, c, TargetOf(d, k)),
                   GatherDifference(S.F, c, PmlTerms(c)[1], TargetOf(d, k)), Direction(c), 1)
    BY DEF AxisUpdate, cell
  <2>3. GatherDifference(S.F, c, PmlTerms(c)[1], TargetOf(d, k)) = t(k)[1]
    <3> DEFINE H == S.F
    <3>1. \A z \in Component : z[1] # c[1] => H[z] = G[z]
      BY <1>12
    <3> HIDE DEF H
    <3> DEFINE z == c
               i == TargetOf(d, k)
    <3>4. z \in Component /\ \A y \in Component : y[1] # z[1] => H[y] = G[y]
      BY <1>2, <3>1
    <3> HIDE DEF z, i
    <3>5. Pair(H, z, i) = Pair(G, z, i)
      BY <3>4, SameSources
    <3>2. Pair(H, c, TargetOf(d, k)) = t(k)
      BY <3>5 DEF t, z, i
    <3>3. Pair(H, c, TargetOf(d, k))[1] = GatherDifference(H, c, PmlTerms(c)[1], TargetOf(d, k))
      BY DEF Pair
    <3> QED BY <3>2, <3>3 DEF H
  <2>4. row(k)[1] = Lane(S.mem, d, 1)[k]
    BY <1>8
  <2>5. FieldAt(S.F, c, TargetOf(d, k)) = x(k)
    BY <1>7
  <2> QED BY <2>1, <2>2, <2>3, <2>4, <2>5 DEF u
<1>14. Axial(U, T, d, 2)
  <2>1. 2 \in 1..2
    OBVIOUS
  <2>2. \A k \in RowsOf(d) : FieldAt(T.F, d[1], TargetOf(d, k)) \in 0..(P - 1)
    BY <1>9, <1>13
  <2> HIDE DEF T
  <2> QED BY <1>5, <2>1, <2>2, RunResidualAxial
<1> HIDE DEF T, U
<1>15. /\ T.mem.dispersive = S.mem.dispersive /\ T.mem.absorber = S.mem.absorber
       /\ \A y \in sim.sparse \X {1, 2} : y # <<d, 1>> => T.mem.axis[y] = S.mem.axis[y]
       /\ \A z \in Component : z # c => T.F[z] = S.F[z]
       /\ U.mem.dispersive = T.mem.dispersive /\ U.mem.absorber = T.mem.absorber
       /\ \A y \in sim.sparse \X {1, 2} : y # <<d, 2>> => U.mem.axis[y] = T.mem.axis[y]
       /\ \A z \in Component : z # c => U.F[z] = T.F[z]
  BY <1>11, <1>14 DEF Axial
<1>16. /\ U.mem.axis[<<d, 1>>] = T.mem.axis[<<d, 1>>]
       /\ T.mem.axis[<<d, 2>>] = S.mem.axis[<<d, 2>>]
  <2>1. <<d, 1>> \in sim.sparse \X {1, 2} /\ <<d, 1>> # <<d, 2>>
        /\ <<d, 2>> \in sim.sparse \X {1, 2}
    OBVIOUS
  <2> QED BY <1>15, <2>1
<1>17. \A k \in RowsOf(d) : /\ Lane(U.mem, d, 1)[k] = Lane(T.mem, d, 1)[k]
                            /\ Lane(T.mem, d, 2)[k] = Lane(S.mem, d, 2)[k]
  BY <1>16 DEF Lane
<1>18. ASSUME NEW k \in RowsOf(d)
       PROVE  /\ FieldAt(U.F, c, TargetOf(d, k)) = w(k).field
              /\ Lane(U.mem, d, 2)[k] = w(k).psi
  <2>1. /\ FieldAt(U.F, c, TargetOf(d, k)) = AxisUpdate(T, d, 2, k).field
        /\ Lane(U.mem, d, 2)[k] = AxisUpdate(T, d, 2, k).psi
    BY <1>14 DEF Axial
  <2>2. AxisUpdate(T, d, 2, k)
          = Partly(cell(k), Lane(T.mem, d, 2)[k], FieldAt(T.F, c, TargetOf(d, k)),
                   GatherDifference(T.F, c, PmlTerms(c)[2], TargetOf(d, k)), Direction(c), 2)
    BY DEF AxisUpdate, cell
  <2>3. GatherDifference(T.F, c, PmlTerms(c)[2], TargetOf(d, k)) = t(k)[2]
    <3> DEFINE H == T.F
    <3>1. \A z \in Component : z[1] # c[1] => H[z] = G[z]
      BY <1>12, <1>15
    <3> HIDE DEF H
    <3> DEFINE z == c
               i == TargetOf(d, k)
    <3>4. z \in Component /\ \A y \in Component : y[1] # z[1] => H[y] = G[y]
      BY <1>2, <3>1
    <3> HIDE DEF z, i
    <3>5. Pair(H, z, i) = Pair(G, z, i)
      BY <3>4, SameSources
    <3>2. Pair(H, c, TargetOf(d, k)) = t(k)
      BY <3>5 DEF t, z, i
    <3>3. Pair(H, c, TargetOf(d, k))[2] = GatherDifference(H, c, PmlTerms(c)[2], TargetOf(d, k))
      BY DEF Pair
    <3> QED BY <3>2, <3>3 DEF H
  <2>4. row(k)[2] = Lane(S.mem, d, 2)[k]
    BY <1>8
  <2>5. FieldAt(T.F, c, TargetOf(d, k)) = u(k).field /\ Lane(T.mem, d, 2)[k] = Lane(S.mem, d, 2)[k]
    BY <1>13, <1>17
  <2> QED BY <2>1, <2>2, <2>3, <2>4, <2>5 DEF w
<1>19. FieldStage(U.F, G, M, D \cup {d}, family)
  <2>1. ASSUME NEW z \in Component, z[1] # family PROVE U.F[z] = G[z]
    BY <1>12, <1>15, <2>1
  <2>2. ASSUME NEW v \in CellsOf(This, c), \A k \in RowsOf(d) : TargetOf(d, k) # Flat(ShapeOf(c), v)
        PROVE  U.F[c][v] = S.F[c][v]
    BY <1>11, <1>14, <2>2 DEF Axial
  <2>3. ASSUME NEW z \in Component, z[1] = family, NEW v \in CellsOf(This, z),
               ~InBounds(ShapeOf(z), z, v)
        PROVE  U.F[z][v] = G[z][v]
    <3>1. S.F[z][v] = G[z][v]
      BY <1>3, <2>3 DEF FieldStage
    <3>2. CASE z # c
      BY <1>15, <3>1, <3>2
    <3>3. CASE z = c
      <4>1. Flat(ShapeOf(c), v) \notin ActiveTargets(Serial(This.n), c)
        BY <2>3, <3>3, CellTarget DEF ShapeOf
      <4>2. \A k \in RowsOf(d) : TargetOf(d, k) # Flat(ShapeOf(c), v)
        BY <1>2, <4>1
      <4>3. v \in CellsOf(This, c)
        BY <2>3, <3>3
      <4> QED BY <2>2, <3>1, <3>3, <4>2, <4>3
    <3> QED BY <3>2, <3>3
  <2>4. ASSUME NEW f \in FamilyOf(family), NEW k \in RowsOf(f)
        PROVE  FieldAt(U.F, f[1], TargetOf(f, k))
                 = IF f \in D \cup {d} THEN Fresh(G, M, f, k).field ELSE Densed(G, f, k)
    <3>1. CASE f = d
      BY <1>10, <1>18, <3>1
    <3>2. CASE f # d
      <4> DEFINE v == Unflat(ShapeOf(f[1]), TargetOf(f, k))
      <4>1. f \in Buckets(sim.plan)
        BY DEF FamilyOf
      <4>2. /\ v \in CellsOf(This, f[1]) /\ Flat(ShapeOf(f[1]), v) = TargetOf(f, k)
            /\ FieldAt(U.F, f[1], TargetOf(f, k)) = U.F[f[1]][v]
            /\ FieldAt(S.F, f[1], TargetOf(f, k)) = S.F[f[1]][v]
        BY <4>1, RowCell
      <4>3. f[1] \in Component
        BY <4>1, BucketCells
      <4> HIDE DEF v
      <4>4. U.F[f[1]][v] = S.F[f[1]][v]
        <5>1. CASE f[1] # c
          BY <1>15, <4>3, <5>1
        <5>2. CASE f[1] = c
          <6>1. \A j \in RowsOf(d) : TargetOf(d, j) # Flat(ShapeOf(c), v)
            BY <1>1, <1>2, <3>2, <4>1, <4>2, <5>2
          <6> QED BY <2>2, <4>2, <5>2, <6>1
        <5> QED BY <5>1, <5>2
      <4>5. FieldAt(S.F, f[1], TargetOf(f, k)) = IF f \in D THEN Fresh(G, M, f, k).field ELSE Densed(G, f, k)
        BY <1>3 DEF FieldStage
      <4> QED BY <3>2, <4>2, <4>4, <4>5
    <3> QED BY <3>1, <3>2
  <2> QED BY <2>1, <2>3, <2>4 DEF FieldStage
<1>20. RowStage(U.mem, G, M, D \cup {d})
  <2> SUFFICES ASSUME NEW f \in sim.stateful, NEW k \in RowsOf(f)
               PROVE  LogicalRow(U.mem, f, k) = IF f \in D \cup {d} THEN Fresh(G, M, f, k).row
                                                                  ELSE LogicalRow(M, f, k)
    BY DEF RowStage
  <2> DEFINE N == U.mem
             Q == S.mem
  <2>1. CASE f = d
    <3>1. Lane(N, d, 1)[k] = u(k).psi /\ Lane(N, d, 2)[k] = w(k).psi
      BY <1>13, <1>17, <1>18, <2>1
    <3> HIDE DEF N
    <3>2. LogicalRow(N, d, k) = << Lane(N, d, 1)[k], Lane(N, d, 2)[k] >>
      BY <1>1, SparseRow
    <3> QED BY <1>10, <2>1, <3>1, <3>2 DEF N
  <2>2. CASE f # d
    <3>1. /\ N.dispersive = Q.dispersive /\ N.absorber = Q.absorber
          /\ f \in sim.sparse => N.axis[<<f, 1>>] = Q.axis[<<f, 1>>] /\ N.axis[<<f, 2>>] = Q.axis[<<f, 2>>]
      <4>1. f \in sim.sparse => /\ <<f, 1>> \in sim.sparse \X {1, 2} /\ <<f, 2>> \in sim.sparse \X {1, 2}
                                /\ <<f, 1>> # <<d, 1>> /\ <<f, 2>> # <<d, 2>>
                                /\ <<f, 1>> # <<d, 2>> /\ <<f, 2>> # <<d, 1>>
        BY <2>2
      <4> QED BY <1>15, <4>1
    <3>2. LogicalRow(Q, f, k) = IF f \in D THEN Fresh(G, M, f, k).row ELSE LogicalRow(M, f, k)
      BY <1>3 DEF RowStage
    <3> HIDE DEF N, Q
    <3>3. Untouched(N, Q, f, k)
      BY <3>1 DEF Untouched, PlacedAt
    <3>4. LogicalRow(N, f, k) = LogicalRow(Q, f, k)
      BY <3>3, LogicalKept
    <3> QED BY <2>2, <3>2, <3>4 DEF N
  <2> QED BY <2>1, <2>2
<1>21. Stage(U, G, M, D \cup {d}, family)
  BY <1>5, <1>19, <1>20 DEF Stage
<1> QED BY <1>21 DEF T, U

\* An absorber bucket of either kind completes its cells.
LEMMA RunAnyStage ==
  ASSUME WellFormed(This), Built(sim, This), NEW G, Arrays(This, G), Reduced(This, G), NEW M,
         NEW family, NEW D, NEW S, Stage(S, G, M, D, family),
         NEW d \in sim.dense \cup sim.sparse, d[1][1] = family, d \notin D
  PROVE  Stage(RunAny(S, d), G, M, D \cup {d}, family)
BY RunAbsorberStage, RunResidualStage DEF RunAny

-----------------------------------------------------------------------------
\* The absorber phase completes the buckets of its family.
LEMMA AbsorberPhaseStage ==
  ASSUME WellFormed(This), Built(sim, This), NEW G, Arrays(This, G), Reduced(This, G), NEW M,
         NEW family, family \in {"E", "H"}, NEW D, NEW S, Stage(S, G, M, D, family),
         D \cap AbsorbersOf(family) = {}
  PROVE  Stage(AbsorberPhase(S, family), G, M, D \cup AbsorbersOf(family), family)
<1>1. PICK after, seq, n : /\ AbsorberRun(after, seq, n, S) /\ Listed(seq, AbsorbersOf(family))
                           /\ AbsorberPhase(S, family) = after[n]
  BY AbsorberPhaseRuns
<1>2. /\ n \in Nat /\ DOMAIN seq = 1..n /\ after[0] = S
      /\ \A i \in 1..n : after[i] = RunAny(after[i - 1], seq[i])
  BY <1>1 DEF AbsorberRun
<1>3. \A i \in 1..n : seq[i] \in AbsorbersOf(family)
  BY <1>1, <1>2 DEF Listed, Lists
<1>4. \A i, j \in 1..n : seq[i] = seq[j] => i = j
  BY <1>1, <1>2, ListedOnce
<1> DEFINE Done(m) == D \cup {seq[i] : i \in 1..m}
           U == {i \in Nat : i <= n => Stage(after[i], G, M, Done(i), family)}
<1>5. 0 \in U
  <2>1. Done(0) = D
    OBVIOUS
  <2> HIDE DEF Done
  <2> QED BY <1>2, <2>1
<1>6. ASSUME NEW m \in Nat, m \in U PROVE m + 1 \in U
  <2> SUFFICES ASSUME m + 1 <= n PROVE Stage(after[m + 1], G, M, Done(m + 1), family)
    OBVIOUS
  <2> DEFINE d == seq[m + 1]
             T == after[m]
  <2>1. Stage(T, G, M, Done(m), family)
    BY <1>2, <1>6
  <2>2. m + 1 \in 1..n /\ (m + 1) - 1 = m
    BY <1>2
  <2>3. after[m + 1] = RunAny(T, d)
    BY <1>2, <2>2
  <2>4. d \in sim.dense \cup sim.sparse /\ d[1][1] = family
    BY <1>3, <2>2 DEF AbsorbersOf
  <2>5. d \notin Done(m)
    <3>1. d \notin D
      BY <1>3, <2>2
    <3>2. \A i \in 1..m : i \in 1..n /\ i # m + 1
      BY <1>2
    <3>3. \A i \in 1..m : d # seq[i]
      BY <1>4, <2>2, <3>2
    <3> QED BY <3>1, <3>3
  <2>6. Done(m + 1) = Done(m) \cup {d}
    <3>1. \A i : i \in 1..(m + 1) <=> i \in 1..m \/ i = m + 1
      OBVIOUS
    <3> QED BY <3>1
  <2> HIDE DEF d, T, Done
  <2>7. Stage(RunAny(T, d), G, M, Done(m) \cup {d}, family)
    BY <2>1, <2>4, <2>5, RunAnyStage
  <2> QED BY <2>3, <2>6, <2>7
<1>7. Nat \subseteq U
  <2> HIDE DEF U
  <2> QED BY <1>5, <1>6, SetInduction
<1>8. Done(n) = D \cup AbsorbersOf(family)
  BY <1>1, <1>2, <1>3 DEF Listed, Lists
<1> HIDE DEF Done
<1>9. Stage(after[n], G, M, Done(n), family)
  BY <1>2, <1>7
<1> QED BY <1>1, <1>8, <1>9

-----------------------------------------------------------------------------
\* Row k of a bucket lies at row j of the arena of execution e.
PutAt(d, k, e, j) ==
  /\ e \in Range(sim.entries) /\ d \in Range(e)
  /\ j \in DOMAIN sim.arena[e] /\ sim.arena[e][j] = <<d, k>>
  /\ sim.place[d][k][1] = e /\ sim.place[d][k][2] = j

\* Every row of a dispersive bucket lies in an arena.
LEMMA RowsPut ==
  ASSUME WellFormed(This), Built(sim, This), NEW d \in DOMAIN sim.place, NEW k \in RowsOf(d)
  PROVE  \E e, j : PutAt(d, k, e, j)
<1> DEFINE e == EntryOf(sim, d)
           rows == sim.arena[e]
           j == Position(rows, <<d, k>>)
<1>1. e \in Range(sim.entries) /\ d \in Range(e)
  <2>1. \E f \in Range(sim.entries) : d \in Range(f)
    BY BuiltEntries DEF Range
  <2> QED BY <2>1 DEF EntryOf
<1>2. sim.place[d][k] = <<e, j>>
  <2>1. Lies(sim, d, k)
    BY BuiltFields DEF RowsOf
  <2> QED BY <2>1 DEF Lies
<1> HIDE DEF e
<1>3. Arena(sim, e)
  BY <1>1, BuiltEntries DEF Range
<1>4. \E i \in DOMAIN rows : rows[i] = <<d, k>>
  BY <1>1, <1>3 DEF Arena, RowsOf
<1>5. j \in DOMAIN rows /\ rows[j] = <<d, k>>
  <2>1. Lists(rows, Range(rows)) /\ <<d, k>> \in Range(rows)
    BY <1>4 DEF Lists, Range
  <2> HIDE DEF rows
  <2> QED BY <2>1, PositionIs
<1> HIDE DEF j
<1>6. sim.place[d][k][1] = e /\ sim.place[d][k][2] = j
  BY <1>2
<1>7. PutAt(d, k, e, j)
  BY <1>1, <1>5, <1>6 DEF PutAt
<1> QED BY <1>7

\* An execution is the only one its buckets are in.
LEMMA EntryUnique ==
  ASSUME WellFormed(This), Built(sim, This), NEW e \in Range(sim.entries),
         NEW f \in Range(sim.entries), NEW d, d \in Range(e), d \in Range(f)
  PROVE  e = f
<1>1. PICK i \in DOMAIN sim.entries : sim.entries[i] = e
  BY DEF Range
<1>2. PICK j \in DOMAIN sim.entries : sim.entries[j] = f
  BY DEF Range
<1>3. Range(sim.entries[i]) \cap Range(sim.entries[j]) # {}
  BY <1>1, <1>2
<1>4. i = j
  BY <1>3, BuiltEntries
<1> QED BY <1>1, <1>2, <1>4

\* The rows of an execution write the cells of its buckets.
LEMMA EntryWriting ==
  ASSUME WellFormed(This), Built(sim, This), NEW entry \in Range(sim.entries)
  PROVE  /\ Writing(entry[1][1], Range(entry), sim.arena[entry],
                    IF Len(entry) = 1
                    THEN WriteTargets(BucketOf(sim.plan, entry[1]), sim.options.tile)
                    ELSE BucketOf(sim.plan, entry[1]).targets
                           \o BucketOf(sim.plan, entry[2]).targets)
         /\ entry[1][1] \in Component /\ entry[1][1][1] = "E"
         /\ Range(entry) \subseteq DOMAIN sim.place
<1> DEFINE c == entry[1][1]
           E == Range(entry)
           rows == sim.arena[entry]
           targets == EntryTargets(sim, entry)
<1>1. Arena(sim, entry)
  BY BuiltEntries DEF Range
<1>2. (IF Len(entry) = 1 THEN WriteTargets(BucketOf(sim.plan, entry[1]), sim.options.tile)
       ELSE BucketOf(sim.plan, entry[1]).targets \o BucketOf(sim.plan, entry[2]).targets) = targets
  <2>1. Len(entry) = 1 => entry[1] \in Buckets(sim.plan)
    BY <1>1 DEF Arena
  <2>2. Len(entry) = 1 => WriteTargets(BucketOf(sim.plan, entry[1]), sim.options.tile)
                            = BucketOf(sim.plan, entry[1]).targets
    BY <2>1, BuiltWritten
  <2> QED BY <2>2 DEF EntryTargets
<1>3. ASSUME NEW d \in E PROVE d \in DOMAIN sim.place /\ d[1] = c
  <2>1. \E i \in DOMAIN sim.entries : sim.entries[i] = entry
    BY DEF Range
  <2>2. PICK n \in Nat : DOMAIN sim.entries = 1..n
    BY BuiltEntries
  <2>3. Listed(Descriptors(sim.plan), DOMAIN sim.place)
    BY BuiltDispersive
  <2>4. sim.entries = Entries(sim.plan, sim.options)
    BY BuiltFields
  <2>5. PICK i \in DOMAIN sim.entries : sim.entries[i] = entry
    BY <2>1
  <2> DEFINE DD == DOMAIN sim.place
             pp == sim.plan
             kk == sim.options
             EE == sim.entries
  <2>6. Listed(Descriptors(pp), DD) /\ EE = Entries(pp, kk)
    BY <2>3, <2>4
  <2> HIDE DEF DD, pp, kk, EE
  <2>7. \A x \in DOMAIN EE : \/ \E y \in DD : EE[x] = << y >>
                             \/ \E y, z \in DD : EE[x] = << y, z >> /\ y[1] = z[1] /\ y # z
    BY <2>6, EntriesAre
  <2>8. \/ \E y \in DOMAIN sim.place : entry = << y >>
        \/ \E y, z \in DOMAIN sim.place : entry = << y, z >> /\ y[1] = z[1] /\ y # z
    BY <2>5, <2>7 DEF EE, DD
  <2> QED BY <2>8 DEF Range
<1>4. c \in Component
  BY <1>1 DEF Arena
<1>5. \A d \in DOMAIN sim.place : d \in Buckets(sim.plan) /\ d[1][1] = "E"
  BY BuiltDispersive
<1>6. \E d : d \in E
  <2>1. Len(entry) = 1 \/ Len(entry) = 2
    BY <1>1 DEF Arena
  <2>2. entry \in Range(Entries(sim.plan, sim.options))
    BY BuiltFields
  <2>3. PICK i \in DOMAIN sim.entries : sim.entries[i] = entry
    BY DEF Range
  <2> DEFINE DD == DOMAIN sim.place
             pp == sim.plan
             kk == sim.options
             EE == sim.entries
  <2>6. Listed(Descriptors(pp), DD) /\ EE = Entries(pp, kk)
    BY BuiltDispersive, BuiltFields
  <2> HIDE DEF DD, pp, kk, EE
  <2>7. \A x \in DOMAIN EE : \/ \E y \in DD : EE[x] = << y >>
                             \/ \E y, z \in DD : EE[x] = << y, z >> /\ y[1] = z[1] /\ y # z
    BY <2>6, EntriesAre
  <2>8. entry = EE[i] /\ i \in DOMAIN EE
    BY <2>3 DEF EE
  <2>9. CASE \E y \in DD : EE[i] = << y >>
    BY <2>8, <2>9 DEF Range
  <2>10. CASE \E y, z \in DD : EE[i] = << y, z >> /\ y[1] = z[1] /\ y # z
    BY <2>8, <2>10 DEF Range
  <2> QED BY <2>7, <2>8, <2>9, <2>10
<1> HIDE DEF c
<1>7. Writing(c, E, rows, targets)
  <2>1. \A d \in E : d \in Buckets(sim.plan) /\ d[1] = c
    BY <1>3, <1>5
  <2>2. \E n \in Nat : DOMAIN rows = 1..n /\ DOMAIN targets = 1..n
    BY <1>1 DEF Arena
  <2>3. ASSUME NEW j \in DOMAIN rows
        PROVE  /\ rows[j] = << rows[j][1], rows[j][2] >> /\ rows[j][1] \in E
               /\ rows[j][2] \in RowsOf(rows[j][1])
               /\ targets[j] = TargetOf(rows[j][1], rows[j][2])
    BY <1>1 DEF Arena, RowsOf, TargetOf
  <2>4. \A i, j \in DOMAIN rows : rows[i] = rows[j] => i = j
    BY <1>1 DEF Arena
  <2>5. \A d \in E : \A k \in RowsOf(d) : \E j \in DOMAIN rows : rows[j] = <<d, k>>
    BY <1>1 DEF Arena, RowsOf
  <2> HIDE DEF rows, targets, E
  <2> QED BY <1>4, <2>1, <2>2, <2>3, <2>4, <2>5 DEF Writing
<1>8. c[1] = "E" /\ Range(entry) \subseteq DOMAIN sim.place
  BY <1>3, <1>5, <1>6
<1> QED BY <1>2, <1>4, <1>7, <1>8 DEF c

-----------------------------------------------------------------------------
\* A row of an execution is computed from the field and memory of its cell alone.
LEMMA EntryRow ==
  ASSUME WellFormed(This), Built(sim, This), NEW G, Arrays(This, G), Reduced(This, G), NEW M,
         NEW D, NEW S, Stage(S, G, M, D, "E"), NEW entry \in Range(sim.entries),
         Range(entry) \cap D = {}, NEW j \in DOMAIN sim.arena[entry], NEW d, NEW k,
         sim.arena[entry][j] = <<d, k>>, NEW b, b = BucketOf(sim.plan, d)
  PROVE  Recurrence(b.signature, TargetRow(b, k)[2], S.mem.dispersive[entry][j],
                    FieldAt(S.F, d[1], TargetOf(d, k)), IndexedCurl(S.F, d[1], TargetOf(d, k)))
           = Fresh(G, M, d, k)
<1> DEFINE c == d[1]
           i == TargetOf(d, k)
           H == S.F
           N == S.mem
<1>1. Writing(entry[1][1], Range(entry), sim.arena[entry],
              IF Len(entry) = 1
              THEN WriteTargets(BucketOf(sim.plan, entry[1]), sim.options.tile)
              ELSE BucketOf(sim.plan, entry[1]).targets \o BucketOf(sim.plan, entry[2]).targets)
      /\ Range(entry) \subseteq DOMAIN sim.place
  BY EntryWriting
<1>2. d \in Range(entry) /\ k \in RowsOf(d) /\ d \in DOMAIN sim.place
  <2> DEFINE rows == sim.arena[entry]
  <2>1. rows[j][1] \in Range(entry) /\ rows[j][2] \in RowsOf(rows[j][1])
    BY <1>1 DEF Writing
  <2>2. rows[j][1] = d /\ rows[j][2] = k
    OBVIOUS
  <2> HIDE DEF rows
  <2>3. d \in Range(entry) /\ k \in RowsOf(d)
    BY <2>1, <2>2
  <2> QED BY <1>1, <2>3
<1>3. d \in sim.stateful /\ d \in Buckets(sim.plan) /\ b.signature[1] \in DispersiveModels
  <2>1. d \in sim.stateful
    BY <1>2, BuiltFields
  <2> QED BY <1>2, <2>1, BuiltKinds
<1>4. c \in Component /\ c[1] = "E"
  BY <1>2, BuiltDispersive
<1>5. d \notin D
  BY <1>2
<1>6. /\ \A x \in Component : x[1] # "E" => H[x] = G[x]
      /\ FieldAt(H, c, i) = Densed(G, d, k)
  <2>1. d \in FamilyOf("E")
    BY <1>3, <1>4 DEF FamilyOf
  <2> QED BY <1>2, <1>5, <2>1 DEF Stage, FieldStage
<1>7. FieldAt(H, c, i) = FieldAt(G, c, i)
  <2>1. DenseInverse(BucketOf(sim.plan, d), k) = 0
    <3>1. b.signature[1] \notin {"dielectric", "cpml"}
      BY <1>3 DEF DispersiveModels
    <3> QED BY <1>2, <1>3, <3>1, InverseTyped
  <2> QED BY <1>2, <1>3, <1>6, <2>1, IdleDensed
<1>8. IndexedCurl(H, c, i) = IndexedCurl(G, c, i)
  <2> HIDE DEF H, c, i
  <2> QED BY <1>4, <1>6, SameSources
<1>9. N.dispersive[entry][j] = LogicalRow(M, d, k)
  <2>1. LogicalRow(N, d, k) = LogicalRow(M, d, k)
    BY <1>2, <1>3, <1>5 DEF Stage, RowStage
  <2>2. PICK e, p : PutAt(d, k, e, p)
    BY <1>2, RowsPut
  <2>3. e = entry
    BY <1>2, <2>2, EntryUnique DEF PutAt
  <2>4. p = j
    <3> DEFINE rows == sim.arena[entry]
    <3>1. rows[p] = rows[j] /\ p \in DOMAIN rows
      BY <2>2, <2>3 DEF PutAt
    <3>2. \A x, y \in DOMAIN rows : rows[x] = rows[y] => x = y
      BY <1>1 DEF Writing
    <3> HIDE DEF rows
    <3>3. j \in DOMAIN rows
      BY DEF rows
    <3> QED BY <3>1, <3>2, <3>3
  <2> HIDE DEF N
  <2>5. LogicalRow(N, d, k) = PlacedAt(N, d, k)
    BY <1>2, PlacedRow
  <2>6. PlacedAt(N, d, k) = N.dispersive[entry][j]
    BY <2>2, <2>3, <2>4 DEF PlacedAt, PutAt
  <2> QED BY <2>1, <2>5, <2>6
<1> HIDE DEF H, N
<1>10. Fresh(G, M, d, k) = Recurrence(b.signature, TargetRow(b, k)[2], LogicalRow(M, d, k),
                                      FieldAt(G, c, i), IndexedCurl(G, c, i))
  BY <1>3 DEF Fresh, DispersiveModels, Absorbers
<1>11. Recurrence(b.signature, TargetRow(b, k)[2], N.dispersive[entry][j],
                  FieldAt(H, c, i), IndexedCurl(H, c, i)) = Fresh(G, M, d, k)
  BY <1>7, <1>8, <1>9, <1>10
<1> QED BY <1>11 DEF H, N, c, i

\* An execution completes its buckets.
LEMMA RunEntryStage ==
  ASSUME WellFormed(This), Built(sim, This), NEW G, Arrays(This, G), Reduced(This, G), NEW M,
         NEW D, NEW S, Stage(S, G, M, D, "E"), NEW entry \in Range(sim.entries),
         Range(entry) \cap D = {}
  PROVE  Stage(RunEntry(S, entry), G, M, D \cup Range(entry), "E")
<1> DEFINE c == entry[1][1]
           rows == sim.arena[entry]
           bucket(j) == BucketOf(sim.plan, rows[j][1])
           row(j) == Recurrence(bucket(j).signature, TargetRow(bucket(j), rows[j][2])[2],
                                S.mem.dispersive[entry][j],
                                FieldAt(S.F, c, bucket(j).targets[rows[j][2]]),
                                IndexedCurl(S.F, c, bucket(j).targets[rows[j][2]]))
           out == [j \in DOMAIN rows |-> row(j)]
           targets == IF Len(entry) = 1
                      THEN WriteTargets(BucketOf(sim.plan, entry[1]), sim.options.tile)
                      ELSE BucketOf(sim.plan, entry[1]).targets
                             \o BucketOf(sim.plan, entry[2]).targets
           fields == [j \in DOMAIN out |-> out[j].field]
           memory == [j \in DOMAIN out |-> out[j].row]
           T == RunEntry(S, entry)
<1>1. T = [F |-> Scatter(S.F, c, targets, fields),
           mem |-> [S.mem EXCEPT !.dispersive[entry] = memory]]
  BY Zenon DEF RunEntry
<1>2. Writing(c, Range(entry), rows, targets) /\ c \in Component /\ c[1] = "E"
      /\ Range(entry) \subseteq DOMAIN sim.place
  BY EntryWriting
<1>3. ASSUME NEW j \in DOMAIN rows
      PROVE  row(j) = Fresh(G, M, rows[j][1], rows[j][2])
  <2> DEFINE d == rows[j][1]
             k == rows[j][2]
             b == BucketOf(sim.plan, d)
  <2>1. rows[j] = <<d, k>> /\ d[1] = c
    BY <1>2 DEF Writing
  <2>2. row(j) = Recurrence(b.signature, TargetRow(b, k)[2], S.mem.dispersive[entry][j],
                            FieldAt(S.F, d[1], TargetOf(d, k)), IndexedCurl(S.F, d[1], TargetOf(d, k)))
    BY <2>1 DEF TargetOf
  <2> HIDE DEF d, k, row
  <2>3. Recurrence(b.signature, TargetRow(b, k)[2], S.mem.dispersive[entry][j],
                   FieldAt(S.F, d[1], TargetOf(d, k)), IndexedCurl(S.F, d[1], TargetOf(d, k)))
          = Fresh(G, M, d, k)
    BY <2>1, EntryRow
  <2> QED BY <2>2, <2>3 DEF d, k
<1> HIDE DEF row, targets, T
<1>4. \A j \in DOMAIN rows : /\ fields[j] = Fresh(G, M, rows[j][1], rows[j][2]).field
                             /\ memory[j] = Fresh(G, M, rows[j][1], rows[j][2]).row
  BY <1>3
<1> HIDE DEF fields, memory, rows, c
<1>5. FieldStage(Scatter(S.F, c, targets, fields), G, M, D \cup Range(entry), "E")
  <2> DEFINE H == S.F
  <2>1. Arrays(This, H) /\ FieldStage(H, G, M, D, "E")
    BY DEF Stage, Held
  <2> HIDE DEF H
  <2>2. FieldStage(Scatter(H, c, targets, fields), G, M, D \cup Range(entry), "E")
    <3> DEFINE E == Range(entry)
    <3>1. Writing(c, E, rows, targets)
      BY <1>2
    <3> HIDE DEF E
    <3>2. FieldStage(Scatter(H, c, targets, fields), G, M, D \cup E, "E")
      BY <1>2, <1>4, <2>1, <3>1, ScatterStage
    <3> QED BY <3>2 DEF E
  <2> QED BY <2>2 DEF H
<1>6. Held(T)
  <2>1. Held(S)
    BY DEF Stage
  <2> QED BY <2>1, RunEntryHeld DEF T
<1>7. RowStage(T.mem, G, M, D \cup Range(entry))
  <2> SUFFICES ASSUME NEW f \in sim.stateful, NEW k \in RowsOf(f)
               PROVE  LogicalRow(T.mem, f, k)
                        = IF f \in D \cup Range(entry) THEN Fresh(G, M, f, k).row
                                                       ELSE LogicalRow(M, f, k)
    BY DEF RowStage
  <2> DEFINE N == T.mem
             Q == S.mem
  <2>1. N = [Q EXCEPT !.dispersive[entry] = memory]
    BY <1>1
  <2>2. /\ Q = [dispersive |-> Q.dispersive, absorber |-> Q.absorber, axis |-> Q.axis]
        /\ DOMAIN Q.dispersive = DOMAIN sim.arena /\ entry \in DOMAIN sim.arena
    BY BuiltEntries DEF Stage, Held, Buffered
  <2>3. LogicalRow(Q, f, k) = IF f \in D THEN Fresh(G, M, f, k).row ELSE LogicalRow(M, f, k)
    BY DEF Stage, RowStage
  <2> HIDE DEF N, Q
  <2>4. /\ N.absorber = Q.absorber /\ N.axis = Q.axis /\ N.dispersive[entry] = memory
        /\ \A e \in DOMAIN sim.arena : e # entry => N.dispersive[e] = Q.dispersive[e]
    BY <2>1, <2>2
  <2>5. CASE f \in Range(entry)
    <3>1. f \in DOMAIN sim.place
      BY <1>2, <2>5
    <3>2. PICK e, j : PutAt(f, k, e, j)
      BY <3>1, RowsPut
    <3>3. e = entry
      BY <2>5, <3>2, EntryUnique DEF PutAt
    <3>4. j \in DOMAIN rows /\ rows[j] = <<f, k>>
      BY <3>2, <3>3 DEF PutAt, rows
    <3>5. LogicalRow(N, f, k) = PlacedAt(N, f, k)
      BY <3>1, PlacedRow
    <3>6. PlacedAt(N, f, k) = memory[j]
      BY <2>4, <3>2, <3>3 DEF PutAt, PlacedAt
    <3>7. memory[j] = Fresh(G, M, f, k).row
      BY <1>4, <3>4
    <3> QED BY <2>5, <3>5, <3>6, <3>7 DEF N
  <2>6. CASE f \notin Range(entry)
    <3>1. f \in DOMAIN sim.place => PlacedAt(N, f, k) = PlacedAt(Q, f, k)
      <4> SUFFICES ASSUME f \in DOMAIN sim.place PROVE PlacedAt(N, f, k) = PlacedAt(Q, f, k)
        OBVIOUS
      <4>1. PICK e, j : PutAt(f, k, e, j)
        BY RowsPut
      <4>2. e # entry /\ e \in DOMAIN sim.arena
        BY <2>6, <4>1, BuiltEntries DEF PutAt
      <4> QED BY <2>4, <4>1, <4>2 DEF PutAt, PlacedAt
    <3>2. Untouched(N, Q, f, k)
      BY <2>4, <3>1 DEF Untouched
    <3>3. LogicalRow(N, f, k) = LogicalRow(Q, f, k)
      BY <3>2, LogicalKept
    <3> QED BY <2>3, <2>6, <3>3 DEF N
  <2> QED BY <2>5, <2>6
<1>8. Stage(T, G, M, D \cup Range(entry), "E")
  <2>1. T.F = Scatter(S.F, c, targets, fields)
    BY <1>1
  <2> QED BY <1>5, <1>6, <1>7, <2>1 DEF Stage
<1> QED BY <1>8 DEF T

-----------------------------------------------------------------------------
\* The dispersive phase completes the dispersive buckets.
LEMMA DispersivePhaseStage ==
  ASSUME WellFormed(This), Built(sim, This), NEW G, Arrays(This, G), Reduced(This, G), NEW M,
         NEW D, NEW S, Stage(S, G, M, D, "E"), D \cap DOMAIN sim.place = {}
  PROVE  Stage(DispersivePhase(S), G, M, D \cup DOMAIN sim.place, "E")
<1>1. PICK after, n : DispersiveRun(after, n, S) /\ DispersivePhase(S) = after[n]
  BY DispersivePhaseRuns
<1> DEFINE seq == sim.entries
<1>2. /\ n \in Nat /\ DOMAIN seq = 1..n /\ after[0] = S
      /\ \A i \in 1..n : after[i] = RunEntry(after[i - 1], seq[i])
  BY <1>1 DEF DispersiveRun
<1>3. \A i \in 1..n : seq[i] \in Range(seq)
  BY <1>2 DEF Range
<1>4. /\ \A i, j \in 1..n : Range(seq[i]) \cap Range(seq[j]) # {} => i = j
      /\ \A d \in DOMAIN sim.place : \E i \in 1..n : d \in Range(seq[i])
  BY <1>2, BuiltEntries
<1>5. \A i \in 1..n : Range(seq[i]) \subseteq DOMAIN sim.place
  BY <1>3, EntryWriting
<1>6. \A e \in Range(seq) : e \in Range(sim.entries)
  OBVIOUS
<1> HIDE DEF seq
<1> DEFINE Done(m) == D \cup UNION {Range(seq[i]) : i \in 1..m}
           U == {i \in Nat : i <= n => Stage(after[i], G, M, Done(i), "E")}
<1>7. 0 \in U
  <2>1. Done(0) = D
    OBVIOUS
  <2> HIDE DEF Done
  <2> QED BY <1>2, <2>1
<1>8. ASSUME NEW m \in Nat, m \in U PROVE m + 1 \in U
  <2> SUFFICES ASSUME m + 1 <= n PROVE Stage(after[m + 1], G, M, Done(m + 1), "E")
    OBVIOUS
  <2> DEFINE e == seq[m + 1]
             T == after[m]
  <2>1. Stage(T, G, M, Done(m), "E")
    BY <1>2, <1>8
  <2>2. m + 1 \in 1..n /\ (m + 1) - 1 = m
    BY <1>2
  <2>3. after[m + 1] = RunEntry(T, e)
    BY <1>2, <2>2
  <2>4. e \in Range(sim.entries)
    BY <1>3, <1>6, <2>2
  <2>5. Range(e) \cap Done(m) = {}
    <3>1. Range(e) \cap D = {}
      BY <1>5, <2>2
    <3>2. \A i \in 1..m : i \in 1..n /\ i # m + 1
      BY <1>2
    <3>3. \A i \in 1..m : Range(e) \cap Range(seq[i]) = {}
      BY <1>4, <2>2, <3>2
    <3> QED BY <3>1, <3>3
  <2>6. Done(m + 1) = Done(m) \cup Range(e)
    <3>1. \A i : i \in 1..(m + 1) <=> i \in 1..m \/ i = m + 1
      OBVIOUS
    <3> QED BY <3>1
  <2> HIDE DEF e, T, Done
  <2>7. Stage(RunEntry(T, e), G, M, Done(m) \cup Range(e), "E")
    BY <2>1, <2>4, <2>5, RunEntryStage
  <2> QED BY <2>3, <2>6, <2>7
<1>9. Nat \subseteq U
  <2> HIDE DEF U
  <2> QED BY <1>7, <1>8, SetInduction
<1>10. Done(n) = D \cup DOMAIN sim.place
  BY <1>4, <1>5
<1> HIDE DEF Done
<1>11. Stage(after[n], G, M, Done(n), "E")
  BY <1>2, <1>9
<1> QED BY <1>1, <1>10, <1>11

-----------------------------------------------------------------------------
\* The buckets of a constant material of one component, and of a family.
PinnedOf(c) == {d \in Buckets(sim.plan) : d[1] = c /\ BucketOf(sim.plan, d).signature[1] = "const"}
ConstantsOf(family) ==
  {d \in FamilyOf(family) : BucketOf(sim.plan, d).signature[1] = "const"}

\* The value of a cell of a constant material.
ValueOf(d, k) == TargetRow(BucketOf(sim.plan, d), k)[2]

\* The constants of a component are the cells of those buckets with their values.
LEMMA ConstantsAre ==
  ASSUME WellFormed(This), Built(sim, This), NEW c \in Component,
         NEW x
  PROVE  x \in Constants(sim.plan[c].buckets)
           <=> \E d \in PinnedOf(c) : \E k \in RowsOf(d) : x = <<TargetOf(d, k), ValueOf(d, k)>>
<1> DEFINE B == sim.plan[c].buckets
<1>1. \A o : <<c, o>> \in Buckets(sim.plan) <=> o \in DOMAIN B
  BY DEF Buckets
<1>2. \A o : BucketOf(sim.plan, <<c, o>>) = B[o]
  BY DEF BucketOf
<1>3. \A d \in Buckets(sim.plan) : d = <<d[1], d[2]>>
  BY DEF Buckets
<1>4. ASSUME x \in Constants(B)
      PROVE  \E d \in PinnedOf(c) : \E k \in RowsOf(d) : x = <<TargetOf(d, k), ValueOf(d, k)>>
  <2>1. PICK o \in DOMAIN B : B[o].signature[1] = "const" /\ \E k \in DOMAIN B[o].targets :
          x = <<B[o].targets[k], TargetRow(B[o], k)[2]>>
    BY <1>4 DEF Constants
  <2> DEFINE d == <<c, o>>
  <2>2. d \in PinnedOf(c)
    BY <1>1, <1>2, <2>1 DEF PinnedOf
  <2>3. \E k \in RowsOf(d) : x = <<TargetOf(d, k), ValueOf(d, k)>>
    BY <1>2, <2>1 DEF RowsOf, TargetOf, ValueOf
  <2> QED BY <2>2, <2>3
<1>5. ASSUME NEW d \in PinnedOf(c), NEW k \in RowsOf(d), x = <<TargetOf(d, k), ValueOf(d, k)>>
      PROVE  x \in Constants(B)
  <2> DEFINE o == d[2]
  <2>1. d = <<c, o>> /\ d \in Buckets(sim.plan) /\ BucketOf(sim.plan, d).signature[1] = "const"
    BY <1>3 DEF PinnedOf
  <2> HIDE DEF o
  <2>2. o \in DOMAIN B /\ BucketOf(sim.plan, d) = B[o]
    BY <1>1, <1>2, <2>1
  <2>3. B[o].signature[1] = "const" /\ k \in DOMAIN B[o].targets
        /\ x = <<B[o].targets[k], TargetRow(B[o], k)[2]>>
    BY <1>5, <2>1, <2>2 DEF RowsOf, TargetOf, ValueOf
  <2> HIDE DEF B
  <2> QED BY <2>2, <2>3 DEF Constants
<1> QED BY <1>4, <1>5

\* Writing the constants of one component completes its buckets of constant materials.
LEMMA ConstantStage ==
  ASSUME WellFormed(This), Built(sim, This), NEW G, NEW M, NEW D, NEW family,
         NEW H, Arrays(This, H), FieldStage(H, G, M, D, family),
         NEW c \in Component, c[1] = family, NEW q, q = sim.plan[c].constants
  PROVE  FieldStage(Scatter(H, c, [k \in DOMAIN q |-> q[k][1]], [k \in DOMAIN q |-> q[k][2]]),
                    G, M, D \cup PinnedOf(c), family)
<1> DEFINE E == PinnedOf(c)
           T == Constants(sim.plan[c].buckets)
           targets == [k \in DOMAIN q |-> q[k][1]]
           values == [k \in DOMAIN q |-> q[k][2]]
           Stands(j, x) == /\ x = <<x[1], x[2]>> /\ x[1] \in E /\ x[2] \in RowsOf(x[1])
                           /\ q[j] = <<TargetOf(x[1], x[2]), ValueOf(x[1], x[2])>>
           rows == [j \in DOMAIN q |-> CHOOSE x : Stands(j, x)]
<1>1. Listed(q, T)
  BY ConstantsListed
<1>2. \A x : x \in T <=> \E d \in E : \E k \in RowsOf(d) : x = <<TargetOf(d, k), ValueOf(d, k)>>
  BY ConstantsAre
<1>3. \A d \in E : d \in Buckets(sim.plan) /\ d[1] = c /\ BucketOf(sim.plan, d).signature[1] = "const"
  BY DEF PinnedOf
<1> HIDE DEF T, E
<1>4. \E n \in Nat : DOMAIN q = 1..n
  BY <1>1 DEF Listed
<1>5. ASSUME NEW j \in DOMAIN q PROVE Stands(j, rows[j])
  <2>1. q[j] \in T
    BY <1>1 DEF Listed, Lists
  <2>2. PICK d \in E : \E k \in RowsOf(d) : q[j] = <<TargetOf(d, k), ValueOf(d, k)>>
    BY <1>2, <2>1
  <2>3. PICK k \in RowsOf(d) : q[j] = <<TargetOf(d, k), ValueOf(d, k)>>
    BY <2>2
  <2> DEFINE y == <<d, k>>
  <2>4. Stands(j, y)
    BY <2>3
  <2>5. rows[j] = CHOOSE x : Stands(j, x)
    OBVIOUS
  <2> HIDE DEF Stands, y, rows
  <2> QED BY <2>4, <2>5
<1> HIDE DEF rows
<1>6. \A x, y \in Buckets(sim.plan) : \A j \in RowsOf(x) : \A k \in RowsOf(y) :
        x[1] = y[1] /\ TargetOf(x, j) = TargetOf(y, k) => x = y /\ j = k
  BY BucketCells
<1>7. DOMAIN rows = DOMAIN q /\ DOMAIN targets = DOMAIN q
  BY DEF rows
<1>8. \A j \in DOMAIN q : targets[j] = TargetOf(rows[j][1], rows[j][2])
                          /\ values[j] = ValueOf(rows[j][1], rows[j][2])
  BY <1>5
<1>9. ASSUME NEW i \in DOMAIN rows, NEW j \in DOMAIN rows, rows[i] = rows[j] PROVE i = j
  <2>1. q[i] = q[j]
    BY <1>5, <1>7, <1>9
  <2> QED BY <1>1, <1>7, <2>1, ListedOnce
<1>10. ASSUME NEW d \in E, NEW k \in RowsOf(d) PROVE \E j \in DOMAIN rows : rows[j] = <<d, k>>
  <2> DEFINE x == <<TargetOf(d, k), ValueOf(d, k)>>
  <2>1. x \in T
    BY <1>2
  <2>2. PICK j \in DOMAIN q : q[j] = x
    BY <1>1, <2>1 DEF Listed, Lists
  <2> DEFINE e == rows[j][1]
             i == rows[j][2]
  <2>3. rows[j] = <<e, i>> /\ e \in E /\ i \in RowsOf(e) /\ TargetOf(e, i) = TargetOf(d, k)
    BY <1>5, <2>2
  <2> HIDE DEF e, i
  <2>4. e = d /\ i = k
    BY <1>3, <1>6, <2>3
  <2> QED BY <1>7, <2>3, <2>4
<1>11. Writing(c, E, rows, targets)
  <2>1. \A d \in E : d \in Buckets(sim.plan) /\ d[1] = c
    BY <1>3
  <2>2. \E n \in Nat : DOMAIN rows = 1..n /\ DOMAIN targets = 1..n
    BY <1>4, <1>7
  <2>3. \A j \in DOMAIN rows :
          /\ rows[j] = << rows[j][1], rows[j][2] >> /\ rows[j][1] \in E
          /\ rows[j][2] \in RowsOf(rows[j][1])
          /\ targets[j] = TargetOf(rows[j][1], rows[j][2])
    BY <1>5, <1>7, <1>8
  <2> HIDE DEF targets, values, Stands
  <2> QED BY <1>9, <1>10, <2>1, <2>2, <2>3 DEF Writing
<1>12. ASSUME NEW j \in DOMAIN rows PROVE values[j] = Fresh(G, M, rows[j][1], rows[j][2]).field
  <2> DEFINE d == rows[j][1]
             k == rows[j][2]
  <2>1. BucketOf(sim.plan, d).signature[1] = "const"
    BY <1>3, <1>5, <1>7
  <2>2. values[j] = ValueOf(d, k)
    BY <1>7, <1>8
  <2> HIDE DEF d, k, values
  <2>3. Fresh(G, M, d, k) = [field |-> TargetRow(BucketOf(sim.plan, d), k)[2]]
    <3> DEFINE b == BucketOf(sim.plan, d)
               e == FieldAt(G, d[1], TargetOf(d, k))
               row == LogicalRow(M, d, k)
               curl == IndexedCurl(G, d[1], TargetOf(d, k))
               m == b.signature[1]
               one == [field |-> (e + TargetRow(b, k)[1] * curl) % P]
               two == [field |-> TargetRow(b, k)[2]]
               three == [field |-> e]
               four == AbsorberUpdate(b.signature, b.cells[k], row, e, Pair(G, d[1], TargetOf(d, k)),
                                      Direction(d[1]))
               five == Recurrence(b.signature, TargetRow(b, k)[2], row, e, curl)
    <3>1. Fresh(G, M, d, k) = CASE m = "dielectric" -> one [] m = "const" -> two
                                [] m \in {"dummy", "dm2"} -> three [] m \in Absorbers -> four
                                [] OTHER -> five
      BY Zenon DEF Fresh
    <3>2. m = "const"
      BY <2>1
    <3> HIDE DEF m, one, two, three, four, five
    <3>3. Fresh(G, M, d, k) = two
      BY <3>1, <3>2 DEF Absorbers
    <3> QED BY <3>3 DEF two
  <2>4. values[j] = Fresh(G, M, d, k).field
    BY <2>2, <2>3 DEF ValueOf
  <2> QED BY <2>4 DEF d, k
<1> HIDE DEF targets, values
<1>13. FieldStage(Scatter(H, c, targets, values), G, M, D \cup E, family)
  BY <1>11, <1>12, ScatterStage
<1> QED BY <1>13 DEF targets, values, E

-----------------------------------------------------------------------------
\* Writing the constants completes the buckets of constant materials.
LEMMA ApplyConstantsStage ==
  ASSUME WellFormed(This), Built(sim, This), NEW G, NEW M, NEW D, NEW family,
         NEW S, Stage(S, G, M, D, family)
  PROVE  Stage(ApplyConstants(S, family), G, M, D \cup ConstantsOf(family), family)
<1> DEFINE held(c) == sim.plan[c].constants
           targets(c) == [k \in DOMAIN held(c) |-> held(c)[k][1]]
           values(c) == [k \in DOMAIN held(c) |-> held(c)[k][2]]
           written(c) == Scatter(S.F, c, targets(c), values(c))
           N == [c \in Component |-> IF c[1] = family THEN written(c)[c] ELSE S.F[c]]
           T == ApplyConstants(S, family)
<1>1. T = [S EXCEPT !.F = N]
  BY Zenon DEF ApplyConstants
<1>2. Held(S) /\ FieldStage(S.F, G, M, D, family) /\ RowStage(S.mem, G, M, D)
  BY DEF Stage
<1>3. Arrays(This, S.F) /\ S = [F |-> S.F, mem |-> S.mem] /\ Buffered(sim, S.mem)
  BY <1>2 DEF Held
<1> HIDE DEF N, T
<1>4. T = [F |-> N, mem |-> S.mem]
  BY <1>1, <1>3
<1>5. Held(T)
  <2>1. Arrays(This, ApplyConstants(S, family).F)
    BY <1>3, ApplyConstantsTyped
  <2>2. Arrays(This, T.F)
    BY <2>1 DEF T
  <2>3. T.F = N /\ T.mem = S.mem
    BY <1>4
  <2> QED BY <1>3, <1>4, <2>2, <2>3 DEF Held
<1>6. ASSUME NEW c \in Component, c[1] = family
      PROVE  FieldStage(written(c), G, M, D \cup PinnedOf(c), family)
  <2> DEFINE q == held(c)
             H == S.F
  <2>1. Arrays(This, H) /\ FieldStage(H, G, M, D, family)
    BY <1>2, <1>3
  <2>2. q = sim.plan[c].constants
    OBVIOUS
  <2> HIDE DEF q, H
  <2>3. FieldStage(Scatter(H, c, [k \in DOMAIN q |-> q[k][1]], [k \in DOMAIN q |-> q[k][2]]),
                   G, M, D \cup PinnedOf(c), family)
    BY <1>6, <2>1, <2>2, ConstantStage
  <2> QED BY <2>3 DEF q, H
<1> HIDE DEF written
<1>7. \A c \in Component : N[c] = IF c[1] = family THEN written(c)[c] ELSE S.F[c]
  BY DEF N
<1>8. FieldStage(N, G, M, D \cup ConstantsOf(family), family)
  <2>1. ASSUME NEW c \in Component, c[1] # family PROVE N[c] = G[c]
    BY <1>2, <1>7, <2>1 DEF FieldStage
  <2>2. ASSUME NEW c \in Component, c[1] = family, NEW v \in CellsOf(This, c),
               ~InBounds(ShapeOf(c), c, v)
        PROVE  N[c][v] = G[c][v]
    <3>1. N[c] = written(c)[c]
      BY <1>7, <2>2
    <3>2. FieldStage(written(c), G, M, D \cup PinnedOf(c), family)
      BY <1>6, <2>2
    <3> DEFINE H == written(c)
    <3> HIDE DEF H
    <3>3. H[c][v] = G[c][v]
      BY <2>2, <3>2 DEF FieldStage, H
    <3> QED BY <3>1, <3>3 DEF H
  <2>3. ASSUME NEW d \in FamilyOf(family), NEW k \in RowsOf(d)
        PROVE  FieldAt(N, d[1], TargetOf(d, k))
                 = IF d \in D \cup ConstantsOf(family) THEN Fresh(G, M, d, k).field
                                                       ELSE Densed(G, d, k)
    <3> DEFINE c == d[1]
               H == written(c)
    <3>1. d \in Buckets(sim.plan) /\ c \in Component /\ c[1] = family
      BY BucketCells DEF FamilyOf
    <3>2. FieldStage(H, G, M, D \cup PinnedOf(c), family)
      BY <1>6, <3>1
    <3>3. FieldAt(N, c, TargetOf(d, k)) = FieldAt(H, c, TargetOf(d, k))
      BY <1>7, <3>1 DEF FieldAt
    <3> HIDE DEF H
    <3>4. FieldAt(H, c, TargetOf(d, k))
            = IF d \in D \cup PinnedOf(c) THEN Fresh(G, M, d, k).field ELSE Densed(G, d, k)
      BY <3>2 DEF FieldStage
    <3>5. d \in PinnedOf(c) <=> d \in ConstantsOf(family)
      BY <3>1 DEF PinnedOf, ConstantsOf
    <3> QED BY <3>3, <3>4, <3>5
  <2> QED BY <2>1, <2>2, <2>3 DEF FieldStage
<1>9. RowStage(S.mem, G, M, D \cup ConstantsOf(family))
  <2>1. \A d \in sim.stateful : d \notin ConstantsOf(family)
    <3> SUFFICES ASSUME NEW d \in sim.stateful PROVE d \notin ConstantsOf(family)
      OBVIOUS
    <3>1. BucketOf(sim.plan, d).signature[1] \in Stateful
      BY BuiltKinds
    <3> QED BY <3>1 DEF ConstantsOf, Stateful, DispersiveModels, Absorbers
  <2> DEFINE Q == S.mem
  <2>2. RowStage(Q, G, M, D)
    BY <1>2
  <2> HIDE DEF Q
  <2>3. RowStage(Q, G, M, D \cup ConstantsOf(family))
    BY <2>1, <2>2 DEF RowStage
  <2> QED BY <2>3 DEF Q
<1>10. Stage(T, G, M, D \cup ConstantsOf(family), family)
  <2>1. T.F = N /\ T.mem = S.mem
    BY <1>4
  <2> QED BY <1>5, <1>8, <1>9, <2>1 DEF Stage
<1> QED BY <1>10 DEF T

\* Every bucket of a family is settled, absorbing, dispersive or constant.
LEMMA EveryBucket ==
  ASSUME WellFormed(This), Built(sim, This)
  PROVE  /\ FamilyOf("E") = ((Settled("E") \cup AbsorbersOf("E")) \cup DOMAIN sim.place)
                               \cup ConstantsOf("E")
         /\ FamilyOf("H") = (Settled("H") \cup AbsorbersOf("H")) \cup ConstantsOf("H")
         /\ \A family : Settled(family) \cap AbsorbersOf(family) = {}
         /\ (Settled("E") \cup AbsorbersOf("E")) \cap DOMAIN sim.place = {}
         /\ \A family : \A d \in sim.stateful : d \notin Settled(family)
<1>1. ASSUME NEW d \in Buckets(sim.plan)
      PROVE  BucketOf(sim.plan, d).signature[1] \in Range(Models)
  <2>1. BucketOf(sim.plan, d).signature \in Range(Models) \X Nat \X Nat
    BY BucketCells DEF Furnished
  <2> QED BY <2>1
<1>2. \A d \in Buckets(sim.plan) :
        d \in sim.stateful <=> BucketOf(sim.plan, d).signature[1] \in Stateful
  BY BuiltFields DEF ModelOf
<1>3. \A d \in sim.stateful :
        /\ d \in Buckets(sim.plan) /\ BucketOf(sim.plan, d).signature[1] \in Stateful
        /\ d \in DOMAIN sim.place <=> BucketOf(sim.plan, d).signature[1] \in DispersiveModels
        /\ d \in sim.dense \cup sim.sparse <=> BucketOf(sim.plan, d).signature[1] \in Absorbers
  <2> SUFFICES ASSUME NEW d \in sim.stateful
               PROVE  /\ d \in Buckets(sim.plan) /\ BucketOf(sim.plan, d).signature[1] \in Stateful
                      /\ d \in DOMAIN sim.place
                           <=> BucketOf(sim.plan, d).signature[1] \in DispersiveModels
                      /\ d \in sim.dense \cup sim.sparse
                           <=> BucketOf(sim.plan, d).signature[1] \in Absorbers
    OBVIOUS
  <2>1. /\ d \in Buckets(sim.plan) /\ BucketOf(sim.plan, d).signature[1] \in Stateful
        /\ d \in DOMAIN sim.place <=> BucketOf(sim.plan, d).signature[1] \in DispersiveModels
        /\ d \in sim.dense \cup sim.sparse => BucketOf(sim.plan, d).signature[1] \in Absorbers
        /\ d \notin DOMAIN sim.place => d \in sim.dense \cup sim.sparse
    BY BuiltKinds
  <2> QED BY <2>1 DEF Absorbers, DispersiveModels
<1>4. \A d \in DOMAIN sim.place : d \in sim.stateful /\ d[1][1] = "E"
  BY BuiltFields, BuiltDispersive
<1>5. \A d \in sim.dense \cup sim.sparse : d \in sim.stateful
  BY BuiltFields
<1>6. Range(Models) = {"dielectric", "dummy", "dm2", "const"} \cup Stateful
  BY DEF Range, Models, Stateful, DispersiveModels, Absorbers
<1>7. ASSUME NEW family, NEW d \in FamilyOf(family)
      PROVE  d \in Settled(family) \/ d \in AbsorbersOf(family) \/ d \in ConstantsOf(family)
             \/ (d \in DOMAIN sim.place /\ d[1][1] = "E")
  <2>1. d \in Buckets(sim.plan) /\ d[1][1] = family
    BY DEF FamilyOf
  <2>2. CASE BucketOf(sim.plan, d).signature[1] \in {"dielectric", "dummy", "dm2"}
    BY <2>2 DEF Settled
  <2>3. CASE BucketOf(sim.plan, d).signature[1] = "const"
    BY <2>3 DEF ConstantsOf
  <2>4. CASE BucketOf(sim.plan, d).signature[1] \in DispersiveModels
    BY <1>2, <1>3, <1>4, <2>1, <2>4 DEF Stateful
  <2>5. CASE BucketOf(sim.plan, d).signature[1] \in Absorbers
    BY <1>2, <1>3, <2>1, <2>5 DEF Stateful, AbsorbersOf
  <2> QED BY <1>1, <1>6, <2>1, <2>2, <2>3, <2>4, <2>5 DEF Stateful
<1>8. \A family : \A d : d \in Settled(family) \/ d \in AbsorbersOf(family) \/ d \in ConstantsOf(family)
                         => d \in FamilyOf(family)
  BY <1>3, <1>5 DEF Settled, AbsorbersOf, ConstantsOf, FamilyOf
<1>9. \A d \in DOMAIN sim.place : d \in FamilyOf("E")
  BY <1>3, <1>4 DEF FamilyOf
<1>10. \A family : \A d \in sim.stateful : d \notin Settled(family)
  BY <1>3 DEF Settled, Stateful, DispersiveModels, Absorbers
<1>11. \A d \in FamilyOf("H") : d[1][1] # "E"
  BY DEF FamilyOf
<1>12. \A d \in DOMAIN sim.place : d \notin sim.dense \cup sim.sparse
  BY <1>3, <1>4 DEF DispersiveModels, Absorbers
<1>13. FamilyOf("E") = ((Settled("E") \cup AbsorbersOf("E")) \cup DOMAIN sim.place)
                          \cup ConstantsOf("E")
  BY <1>7, <1>8, <1>9
<1>14. FamilyOf("H") = (Settled("H") \cup AbsorbersOf("H")) \cup ConstantsOf("H")
  BY <1>7, <1>8, <1>11
<1>15. \A family : Settled(family) \cap AbsorbersOf(family) = {}
  BY <1>5, <1>10 DEF AbsorbersOf
<1>16. (Settled("E") \cup AbsorbersOf("E")) \cap DOMAIN sim.place = {}
  BY <1>4, <1>10, <1>12 DEF AbsorbersOf
<1> QED BY <1>10, <1>13, <1>14, <1>15, <1>16

-----------------------------------------------------------------------------
\* The dense phase completes the buckets without memory that are not constant.
LEMMA DensePhaseStage ==
  ASSUME WellFormed(This), Built(sim, This), NEW W, Held(W), NEW family, Reduced(This, W.F),
         Flush(W.F, family)
  PROVE  Stage(DensePhase(W, family), W.F, W.mem, Settled(family), family)
<1> DEFINE S == DensePhase(W, family)
<1>1. Arrays(This, W.F) /\ W = [F |-> W.F, mem |-> W.mem] /\ Buffered(sim, W.mem)
  BY DEF Held
<1>2. FieldStage(S.F, W.F, W.mem, Settled(family), family)
  <2> DEFINE M == W.mem
  <2> HIDE DEF M
  <2>1. FieldStage(DensePhase(W, family).F, W.F, M, Settled(family), family)
    BY <1>1, DenseStage
  <2> QED BY <2>1 DEF M
<1>3. Arrays(This, S.F) /\ S.mem = W.mem /\ S = [F |-> S.F, mem |-> S.mem]
  BY <1>1, DensePhaseTyped
<1> HIDE DEF S
<1>4. \A d \in sim.stateful : d \notin Settled(family)
  BY EveryBucket
<1>5. RowStage(S.mem, W.F, W.mem, Settled(family))
  BY <1>3, <1>4 DEF RowStage
<1>6. Held(S)
  BY <1>1, <1>3 DEF Held
<1>7. Stage(S, W.F, W.mem, Settled(family), family)
  BY <1>2, <1>5, <1>6 DEF Stage
<1> QED BY <1>7 DEF S

\* The electric half step gives every cell the update of its own material.
LEMMA ElectricStage ==
  ASSUME WellFormed(This), Built(sim, This), NEW W, Held(W), Reduced(This, W.F), Flush(W.F, "E")
  PROVE  Stage(ApplyConstants(DispersivePhase(AbsorberPhase(DensePhase(W, "E"), "E")), "E"),
               W.F, W.mem, FamilyOf("E"), "E")
<1> DEFINE S == DensePhase(W, "E")
           T == AbsorberPhase(S, "E")
           U == DispersivePhase(T)
           G == W.F
           M == W.mem
           A == Settled("E")
           B == A \cup AbsorbersOf("E")
           C == B \cup DOMAIN sim.place
<1>1. Arrays(This, G)
  BY DEF Held
<1>2. Stage(S, G, M, A, "E")
  BY DensePhaseStage
<1>3. A \cap AbsorbersOf("E") = {} /\ B \cap DOMAIN sim.place = {}
      /\ FamilyOf("E") = C \cup ConstantsOf("E")
  BY EveryBucket
<1> HIDE DEF S, G, M
<1>r. Reduced(This, G)
  BY DEF G
<1>4. Stage(T, G, M, B, "E")
  <2> HIDE DEF A
  <2> QED BY <1>1, <1>r, <1>2, <1>3, AbsorberPhaseStage
<1> HIDE DEF T, A
<1>5. Stage(U, G, M, C, "E")
  <2> HIDE DEF B
  <2> QED BY <1>1, <1>r, <1>3, <1>4, DispersivePhaseStage
<1> HIDE DEF U, C
<1>6. Stage(ApplyConstants(U, "E"), G, M, C \cup ConstantsOf("E"), "E")
  BY <1>5, ApplyConstantsStage
<1> QED BY <1>3, <1>6 DEF U, T, S, G, M

\* And so does the magnetic one.
LEMMA MagneticStage ==
  ASSUME WellFormed(This), Built(sim, This), NEW W, Held(W), Reduced(This, W.F), Flush(W.F, "H")
  PROVE  Stage(ApplyConstants(AbsorberPhase(DensePhase(W, "H"), "H"), "H"),
               W.F, W.mem, FamilyOf("H"), "H")
<1> DEFINE S == DensePhase(W, "H")
           T == AbsorberPhase(S, "H")
           G == W.F
           M == W.mem
           A == Settled("H")
           B == A \cup AbsorbersOf("H")
<1>1. Arrays(This, G)
  BY DEF Held
<1>2. Stage(S, G, M, A, "H")
  BY DensePhaseStage
<1>3. A \cap AbsorbersOf("H") = {} /\ FamilyOf("H") = B \cup ConstantsOf("H")
  BY EveryBucket
<1> HIDE DEF S, G, M
<1>r. Reduced(This, G)
  BY DEF G
<1>4. Stage(T, G, M, B, "H")
  <2> HIDE DEF A
  <2> QED BY <1>1, <1>r, <1>2, <1>3, AbsorberPhaseStage
<1> HIDE DEF T, A, B
<1>6. Stage(ApplyConstants(T, "H"), G, M, B \cup ConstantsOf("H"), "H")
  BY <1>4, ApplyConstantsStage
<1> QED BY <1>3, <1>6 DEF T, S, G, M

-----------------------------------------------------------------------------
\* The wrap of an axis of one cell without a phase flattens it.
LEMMA SyncAxisFlat ==
  ASSUME WellFormed(This), Collapsed, NEW c \in Component, c[2] # 3,
         NEW f \in [CellsOf(This, c) -> 0..(P - 1)],
         NEW v \in CellsOf(This, c), NEW u \in CellsOf(This, c), v[1] = u[1], v[2] = u[2]
  PROVE  LET T == Grid(Phases(This))!SyncAxis(f, Serial(This.n), c, 3, 0) IN T[v] = T[u]
<1> DEFINE ph == Phases(This)
           g == Serial(This.n)
           from == IF c[1] = "E" THEN 0 ELSE g.n[3]
           to == IF c[1] = "E" THEN g.n[3] ELSE 0
           w == Grid(ph)!WrapPhase(c[1], 3)
           copied == [x \in DOMAIN f |->
                        IF x[3] = to THEN (w * f[Grid(ph)!At(x, 3, from)]) % P ELSE f[x]]
<1>1. w = 1
  <2>1. ph = <<1, 1, 1>>
    BY DEF Collapsed, Phases
  <2> HIDE DEF ph
  <2>2. ph[3] = 1
    BY <2>1
  <2>3. w = IF c[1] = "E" THEN ph[3] ELSE Reciprocal(ph[3])
    BY DEF Grid!WrapPhase, Grid!Conjugate, Reciprocal
  <2> QED BY <2>2, <2>3, ReciprocalOne
<1>2. Grid(ph)!SyncAxis(f, g, c, 3, 0) = copied
  <2>1. 3 \notin {c[2], 0}
    OBVIOUS
  <2> QED BY <2>1 DEF Grid!SyncAxis
<1>3. g.n[3] = 1 /\ Shape(g, c)[3] = 2
  BY DEF Collapsed, Serial, Shape, Axes
<1> HIDE DEF w
<1>4. ASSUME NEW x \in CellsOf(This, c)
      PROVE  copied[x] = f[<<x[1], x[2], from>>]
  <2>1. x = << x[1], x[2], x[3] >> /\ InShape(x, Shape(g, c))
    BY CellInShape
  <2>2. x[3] \in 0..(2 - 1)
    BY <1>3, <2>1 DEF InShape, Axes
  <2>3. Grid(ph)!At(x, 3, from) = [x EXCEPT ![3] = from]
    BY DEF Grid!At
  <2>4. [x EXCEPT ![3] = from] = << x[1], x[2], from >>
    <3> HIDE DEF from
    <3> QED BY <2>1
  <2>5. CASE x[3] = to
    <3> DEFINE y == << x[1], x[2], from >>
    <3>1. y \in CellsOf(This, c)
      <4>1. from \in 0..1
        BY <1>3
      <4> HIDE DEF from
      <4>2. x \in (0..(Shape(g, c)[1] - 1)) \X (0..(Shape(g, c)[2] - 1)) \X (0..(Shape(g, c)[3] - 1))
        BY DEF CellsOf
      <4> QED BY <1>3, <4>1, <4>2 DEF CellsOf
    <3> HIDE DEF y
    <3>2. f[y] \in 0..(P - 1)
      BY <3>1
    <3>3. (1 * f[y]) % P = f[y]
      <4>1. 1 * f[y] = f[y]
        BY <3>2
      <4> QED BY <3>2, <4>1, ResidueArithmetic
    <3>4. copied[x] = (w * f[y]) % P
      BY <2>3, <2>4, <2>5 DEF y
    <3> QED BY <1>1, <3>3, <3>4 DEF y
  <2>6. CASE x[3] # to
    <3>1. x[3] = from
      BY <1>3, <2>2, <2>6
    <3>2. x = << x[1], x[2], from >>
      BY <2>1, <3>1
    <3>3. copied[x] = f[x]
      BY <2>6
    <3> HIDE DEF copied
    <3> QED BY <3>2, <3>3
  <2> QED BY <2>5, <2>6
<1> HIDE DEF copied
<1>5. copied[v] = copied[u]
  BY <1>4
<1> QED BY <1>2, <1>5

\* After the boundary synchronisation a collapsed axis has one value per column.
LEMMA SyncFlush ==
  ASSUME WellFormed(This), NEW G, Arrays(This, G), Reduced(This, G), NEW family, NEW other, other \in {"E", "H"},
         \A c \in Component : c[1] # family => c[1] = other
  PROVE  Flush(Grid(Phases(This))!Sync(G, other, Serial(This.n), 0), family)
<1> DEFINE ph == Phases(This)
           g == Serial(This.n)
           T == Grid(ph)!Sync(G, other, g, 0)
<1>1. T = [c \in Component |-> IF c[1] = other THEN Grid(ph)!SyncComponent(G[c], g, c, 0) ELSE G[c]]
  BY DEF Grid!Sync, Grid!Component, Grid!Axes, Component, Axes
<1>2. ASSUME Collapsed, NEW c \in Component, c[1] = other, c[2] # 3,
             NEW v \in CellsOf(This, c), NEW u \in CellsOf(This, c), v[1] = u[1], v[2] = u[2]
      PROVE  T[c][v] = T[c][u]
  <2> DEFINE X == [CellsOf(This, c) -> 0..(P - 1)]
             f0 == G[c]
             f1 == Grid(ph)!SyncAxis(f0, g, c, 1, 0)
             f2 == Grid(ph)!SyncAxis(f1, g, c, 2, 0)
             f3 == Grid(ph)!SyncAxis(f2, g, c, 3, 0)
  <2>1. Grid(ph)!SyncComponent(f0, g, c, 0) = f3
    BY DEF Grid!SyncComponent
  <2>2. f0 \in X
    BY DEF Arrays, Reduced
  <2>3. 1 \in Axes /\ 2 \in Axes /\ 3 \in Axes /\ 0..(P - 1) \subseteq Int
    BY DEF Axes
  <2>4. f1 \in X
    BY <2>2, <2>3, SyncAxisTyped
  <2> HIDE DEF f1
  <2>5. f2 \in X
    BY <2>3, <2>4, SyncAxisTyped
  <2> HIDE DEF f2
  <2>6. f3[v] = f3[u]
    BY <1>2, <2>5, SyncAxisFlat
  <2>7. T[c] = f3
    BY <1>1, <1>2, <2>1
  <2> QED BY <2>6, <2>7
<1> HIDE DEF T
<1>3. Flush(T, family)
  BY <1>2 DEF Flush
<1> QED BY <1>3 DEF T

\* What a half step starts from.
LEMMA WrappedReady ==
  ASSUME WellFormed(This), Arrays(This, F), Reduced(This, F), Buffered(sim, mem),
         NEW family, family \in {"E", "H"}
  PROVE  /\ Held(Wrapped(family)) /\ Reduced(This, Wrapped(family).F) /\ Flush(Wrapped(family).F, family)
         /\ Wrapped(family).mem = mem
<1> DEFINE other == IF family = "E" THEN "H" ELSE "E"
           T == Grid(Phases(This))!Sync(F, other, Serial(This.n), 0)
<1>1. Wrapped(family) = [F |-> T, mem |-> mem]
  BY DEF Wrapped
<1>2. other \in {"E", "H"} /\ \A c \in Component : c[1] # family => c[1] = other
  BY DEF Component
<1> HIDE DEF other
<1>3. Arrays(This, T) /\ Reduced(This, T) /\ Flush(T, family)
  BY <1>2, SyncTyped, SyncFlush
<1> HIDE DEF T
<1> QED BY <1>1, <1>3 DEF Held

-----------------------------------------------------------------------------
\* The update of a cell by its own model gives a residue.
LEMMA FreshReduced ==
  ASSUME WellFormed(This), Built(sim, This), NEW G, Arrays(This, G), Reduced(This, G),
         Buffered(sim, mem), NEW d \in Buckets(sim.plan), NEW k \in RowsOf(d)
  PROVE  Fresh(G, mem, d, k).field \in 0..(P - 1)
<1> DEFINE b == BucketOf(sim.plan, d)
           c == d[1]
           i == TargetOf(d, k)
           e == FieldAt(G, c, i)
           row == LogicalRow(mem, d, k)
           curl == IndexedCurl(G, c, i)
           t == Pair(G, c, i)
           model == b.signature[1]
           plain == [field |-> (e + TargetRow(b, k)[1] * curl) % P]
           pinned == [field |-> TargetRow(b, k)[2]]
           kept == [field |-> e]
           damped == AbsorberUpdate(b.signature, b.cells[k], row, e, t, Direction(c))
           dispersed == Recurrence(b.signature, TargetRow(b, k)[2], row, e, curl)
<1>1. c \in Component /\ Furnished(b, This, sim.options, c)
      /\ i \in ActiveTargets(Serial(This.n), c) /\ k \in DOMAIN b.targets
  BY BucketCells DEF RowsOf
<1>2. Fresh(G, mem, d, k) = CASE model = "dielectric" -> plain
                              [] model = "const" -> pinned
                              [] model \in {"dummy", "dm2"} -> kept
                              [] model \in Absorbers -> damped
                              [] OTHER -> dispersed
  BY Zenon DEF Fresh
<1> DEFINE fresh == Fresh(G, mem, d, k)
<1>f. /\ model = "dielectric" => fresh = plain
      /\ model = "const" => fresh = pinned
      /\ model \in {"dummy", "dm2"} => fresh = kept
  <2> HIDE DEF model, plain, pinned, kept, damped, dispersed, fresh
  <2> QED BY <1>2 DEF fresh, Absorbers
<1>g. /\ model = "dielectric" => fresh.field = (e + TargetRow(b, k)[1] * curl) % P
      /\ model = "const" => fresh.field = TargetRow(b, k)[2]
      /\ model \in {"dummy", "dm2"} => fresh.field = e
  <2> HIDE DEF fresh, model, e, curl
  <2> QED BY <1>f DEF plain, pinned, kept
<1>3. model \in Range(Models)
  BY <1>1 DEF Furnished
<1>4. model \in Stateful => Remembers(b, k, row)
  <2>1. ASSUME model \in Stateful PROVE Remembers(b, k, row)
    <3>1. d \in sim.stateful
      <4>1. sim.stateful = {x \in Buckets(sim.plan) : ModelOf(sim.plan, x) \in Stateful}
        BY BuiltFields
      <4> QED BY <2>1, <4>1 DEF ModelOf
    <3>2. Contents(sim, Logical)
      BY LogicalContents
    <3>3. Logical[d][k] = row
      BY <1>1, <3>1 DEF Logical
    <3>4. Remembers(b, k, Logical[d][k])
      BY <1>1, <3>1, <3>2, Zenon DEF Contents
    <3> QED BY <3>3, <3>4
  <2> QED BY <2>1
<1>5. CASE model = "dielectric"
  <2>1. e \in Int /\ curl \in Int
    BY <1>1, FieldAtTyped, CurlTyped
  <2>2. TargetRow(b, k)[1] \in Int
    BY <1>1 DEF Furnished
  <2> DEFINE r == TargetRow(b, k)[1]
  <2>3. Fresh(G, mem, d, k).field = (e + r * curl) % P
    BY <1>5, <1>g
  <2> HIDE DEF r, e, curl
  <2>4. e + r * curl \in Int
    BY <2>1, <2>2 DEF r
  <2> QED BY <2>3, <2>4, ResidueInteger
<1>6. CASE model = "const"
  <2>1. PICK m : /\ Typed(m) /\ b.signature = ModelAndState(m, c)
                 /\ b.signature[1] # "dielectric" => TargetRow(b, k)[2] = m.coef
    BY <1>1 DEF Furnished
  <2>2. m.type = "const"
    BY <1>6, <2>1 DEF ModelAndState
  <2>3. m.coef \in 0..(P - 1)
    BY <2>1, <2>2 DEF Typed, Coefficients
  <2>4. TargetRow(b, k)[2] = m.coef
    BY <1>6, <2>1
  <2>5. Fresh(G, mem, d, k).field = TargetRow(b, k)[2]
    BY <1>6, <1>g
  <2> QED BY <2>3, <2>4, <2>5
<1>7. CASE model \in {"dummy", "dm2"}
  <2>1. Fresh(G, mem, d, k).field = e
    BY <1>7, <1>g
  <2> DEFINE v == Unflat(ShapeOf(c), i)
  <2>2. v \in CellsOf(This, c) /\ e = G[c][v]
    BY RowCell
  <2> HIDE DEF v, e
  <2> QED BY <1>1, <2>1, <2>2 DEF Reduced
<1>8. CASE model \in Absorbers
  <2>1. Fresh(G, mem, d, k) = damped
    BY <1>2, <1>8 DEF Absorbers
  <2>2. Remembers(b, k, row)
    BY <1>4, <1>8 DEF Stateful
  <2> HIDE DEF row
  <2>3. damped.field \in 0..(P - 1)
    BY <1>1, <1>8, <2>2, AbsorberHeld DEF TargetOf, Pair
  <2> QED BY <2>1, <2>3
<1>9. CASE model \in DispersiveModels
  <2>1. Fresh(G, mem, d, k) = dispersed
    BY <1>2, <1>9 DEF DispersiveModels, Absorbers
  <2>2. Remembers(b, k, row)
    BY <1>4, <1>9 DEF Stateful
  <2>3. d \in DOMAIN sim.place
    <3>1. d \in sim.stateful
      <4>1. sim.stateful = {x \in Buckets(sim.plan) : ModelOf(sim.plan, x) \in Stateful}
        BY BuiltFields
      <4> QED BY <1>9, <4>1 DEF ModelOf, Stateful
    <3> QED BY <1>9, <3>1, BuiltKinds
  <2> HIDE DEF row
  <2>4. dispersed.field \in 0..(P - 1)
    BY <1>1, <2>2, <2>3, RowHeld DEF TargetOf
  <2> QED BY <2>1, <2>4
<1> QED BY <1>3, <1>5, <1>6, <1>7, <1>8, <1>9 DEF Range, Models, DispersiveModels, Absorbers

\* A half step leaves residues.
LEMMA StageReduced ==
  ASSUME WellFormed(This), Built(sim, This), NEW G, Arrays(This, G), Reduced(This, G),
         Buffered(sim, mem), NEW family, NEW S, Stage(S, G, mem, FamilyOf(family), family)
  PROVE  Reduced(This, S.F)
<1> DEFINE H == S.F
<1>1. FieldStage(H, G, mem, FamilyOf(family), family)
  BY DEF Stage
<1> HIDE DEF H
<1> SUFFICES ASSUME NEW c \in Component, NEW v \in CellsOf(This, c) PROVE H[c][v] \in 0..(P - 1)
  BY DEF Reduced, H
<1>2. G[c][v] \in 0..(P - 1)
  BY DEF Reduced
<1>3. CASE c[1] # family
  BY <1>1, <1>2, <1>3 DEF FieldStage
<1>4. CASE c[1] = family /\ ~InBounds(ShapeOf(c), c, v)
  BY <1>1, <1>2, <1>4 DEF FieldStage
<1>5. CASE c[1] = family /\ InBounds(ShapeOf(c), c, v)
  <2>1. Unflat(ShapeOf(c), Flat(ShapeOf(c), v)) = v
        /\ Flat(ShapeOf(c), v) \in ActiveTargets(Serial(This.n), c)
    BY <1>5, CellTarget DEF ShapeOf
  <2>2. PICK d \in Buckets(sim.plan) : \E k \in RowsOf(d) : d[1] = c /\ TargetOf(d, k) = Flat(ShapeOf(c), v)
    BY <2>1, BucketCells
  <2>3. PICK k \in RowsOf(d) : d[1] = c /\ TargetOf(d, k) = Flat(ShapeOf(c), v)
    BY <2>2
  <2>4. d \in FamilyOf(family)
    BY <1>5, <2>3 DEF FamilyOf
  <2>5. FieldAt(H, d[1], TargetOf(d, k)) = Fresh(G, mem, d, k).field
    BY <1>1, <2>4 DEF FieldStage
  <2>6. FieldAt(H, d[1], TargetOf(d, k)) = H[c][v]
    BY <2>1, <2>3 DEF FieldAt
  <2>7. Fresh(G, mem, d, k).field \in 0..(P - 1)
    BY FreshReduced
  <2> QED BY <2>5, <2>6, <2>7
<1> QED BY <1>3, <1>4, <1>5

-----------------------------------------------------------------------------
\* The cells of some buckets of a plan.
CellsIn(plan, buckets) ==
  UNION {{<<d[1], BucketOf(plan, d).targets[i]>> : i \in DOMAIN BucketOf(plan, d).targets} :
         d \in buckets}

\* The bucket of a cell with memory.
CellOf(of, x) == CHOOSE d \in of.stateful : d[1] = x[1] /\ x[2] \in Range(BucketOf(of.plan, d).targets)

\* The cells with memory of a simulation, each with its bucket and row.
Located(of) ==
  /\ DOMAIN of.cells = CellsIn(of.plan, of.stateful)
  /\ \A x \in DOMAIN of.cells :
       of.cells[x] = << CellOf(of, x), Position(BucketOf(of.plan, CellOf(of, x)).targets, x[2]) >>

\* The construction locates them.
LEMMA BuiltCells ==
  ASSUME NEW s, NEW of, Built(of, s)
  PROVE  Located(of)
<1> PICK k \in Range(Configs) : of = Construct(k, Plan(s, k, Serial(s.n)))
  BY DEF Built
<1> DEFINE plan == Plan(s, k, Serial(s.n))
<1>1. of = Construct(k, plan)
  OBVIOUS
<1> HIDE DEF plan
<1> DEFINE entries  == Entries(plan, k)
           arena    == [entry \in Range(entries) |-> ArenaRows(plan, entry)]
           stateful == {d \in Buckets(plan) : ModelOf(plan, d) \in Stateful}
           targets(d) == BucketOf(plan, d).targets
           dense == {d \in stateful : ModelOf(plan, d) \in Absorbers /\ ~Sparse(plan, d)}
           sparse == {d \in stateful : Sparse(plan, d)}
           place == [d \in {d \in stateful : ModelOf(plan, d) \in DispersiveModels} |->
                       [i \in DOMAIN targets(d) |->
                          LET entry == CHOOSE e \in Range(entries) : d \in Range(e)
                          IN  << entry, Position(arena[entry], <<d, i>>) >>]]
           cells == [x \in UNION {{<<d[1], targets(d)[i]>> : i \in DOMAIN targets(d)} :
                                    d \in stateful} |->
                       LET d == CHOOSE d \in stateful : d[1] = x[1] /\ x[2] \in Range(targets(d))
                       IN  << d, Position(targets(d), x[2]) >>]
           record == [options |-> k, plan |-> plan, entries |-> entries, arena |-> arena,
                      stateful |-> stateful, dense |-> dense, sparse |-> sparse,
                      place |-> place, cells |-> cells]
<1>3. of = record
  BY <1>1, Zenon DEF Construct
<1> DEFINE keys == UNION {{<<d[1], BucketOf(plan, d).targets[i]>> :
                             i \in DOMAIN BucketOf(plan, d).targets} : d \in stateful}
           home(x) == CHOOSE d \in stateful : d[1] = x[1] /\ x[2] \in Range(BucketOf(plan, d).targets)
           found(x) == << home(x), Position(BucketOf(plan, home(x)).targets, x[2]) >>
<1>4. cells = [x \in keys |-> found(x)]
  BY Zenon
<1> HIDE DEF entries, arena, stateful, dense, sparse, place, cells, keys
<1>5. of.plan = plan /\ of.stateful = stateful /\ of.cells = cells
  BY <1>3
<1>6. ASSUME NEW x PROVE CellOf(of, x) = home(x)
  BY <1>5 DEF CellOf
<1> HIDE DEF home
<1>7. DOMAIN of.cells = keys /\ \A x \in keys : of.cells[x] = found(x)
  <2> HIDE DEF found
  <2> QED BY <1>4, <1>5
<1>8. ASSUME NEW x \in DOMAIN of.cells
      PROVE  of.cells[x] = << CellOf(of, x), Position(BucketOf(of.plan, CellOf(of, x)).targets, x[2]) >>
  BY <1>5, <1>6, <1>7, Zenon
<1>9. DOMAIN of.cells = CellsIn(of.plan, of.stateful)
  <2>1. keys = CellsIn(plan, stateful)
    BY Zenon DEF keys, CellsIn
  <2> QED BY <1>5, <1>7, <2>1
<1> QED BY <1>8, <1>9, Zenon DEF Located

\* Every configuration of the scene finds a row with memory where it is.
LEMMA CellFound ==
  ASSUME WellFormed(This), Built(sim, This), NEW of, Built(of, This)
  PROVE  /\ \A d \in sim.stateful : \A k \in RowsOf(d) :
              /\ <<d[1], TargetOf(d, k)>> \in DOMAIN of.cells
              /\ of.cells[<<d[1], TargetOf(d, k)>>] = <<d, k>>
         /\ \A x \in DOMAIN of.cells : \E d \in sim.stateful : \E k \in RowsOf(d) :
              x = <<d[1], TargetOf(d, k)>>
<1>1. of.stateful = sim.stateful
      /\ \A d \in sim.stateful : BucketOf(of.plan, d).targets = BucketOf(sim.plan, d).targets
  BY BuiltAlike DEF Alike
<1> DEFINE targets(d) == BucketOf(sim.plan, d).targets
<1>2. DOMAIN of.cells = CellsIn(of.plan, of.stateful)
      /\ \A x \in DOMAIN of.cells :
           of.cells[x] = << CellOf(of, x), Position(BucketOf(of.plan, CellOf(of, x)).targets, x[2]) >>
  BY BuiltCells DEF Located
<1>3. \A x : x \in DOMAIN of.cells <=> \E d \in sim.stateful : \E i \in RowsOf(d) : x = <<d[1], TargetOf(d, i)>>
  <2>1. \A x : x \in DOMAIN of.cells <=> \E d \in of.stateful : \E i \in DOMAIN BucketOf(of.plan, d).targets :
                  x = <<d[1], BucketOf(of.plan, d).targets[i]>>
    BY <1>2 DEF CellsIn
  <2> QED BY <1>1, <2>1 DEF RowsOf, TargetOf
<1>4. ASSUME NEW d \in sim.stateful, NEW k \in RowsOf(d)
      PROVE  of.cells[<<d[1], TargetOf(d, k)>>] = <<d, k>>
  <2> DEFINE x == <<d[1], TargetOf(d, k)>>
             e == CellOf(of, x)
  <2>1. x \in DOMAIN of.cells
    BY <1>3
  <2>2. x[1] = d[1] /\ x[2] = TargetOf(d, k)
    OBVIOUS
  <2> HIDE DEF x
  <2>3. e \in sim.stateful /\ e[1] = x[1] /\ x[2] \in Range(targets(e))
    <3>1. x[2] \in Range(BucketOf(of.plan, d).targets)
      BY <1>1, <2>2 DEF Range, TargetOf, RowsOf
    <3>2. d \in of.stateful /\ d[1] = x[1]
      BY <1>1, <2>2
    <3>3. e \in of.stateful /\ e[1] = x[1] /\ x[2] \in Range(BucketOf(of.plan, e).targets)
      BY <3>1, <3>2 DEF CellOf
    <3> QED BY <1>1, <3>3
  <2> HIDE DEF e
  <2>4. PICK j \in RowsOf(e) : x[2] = TargetOf(e, j)
    BY <2>3 DEF Range, RowsOf, TargetOf
  <2>5. d \in Buckets(sim.plan) /\ e \in Buckets(sim.plan)
    BY <2>3, BuiltKinds
  <2>6. e = d
    BY <2>2, <2>3, <2>4, <2>5, BucketCells
  <2>7. Distinctly(targets(d))
    BY <2>5, BucketCells
  <2>8. Position(targets(d), x[2]) = k
    <3>1. \A n \in DOMAIN targets(d) : targets(d)[n] = x[2] => n = k
      BY <2>2, <2>7 DEF Distinctly, TargetOf, RowsOf
    <3>2. k \in DOMAIN targets(d) /\ targets(d)[k] = x[2]
      BY <2>2 DEF TargetOf, RowsOf
    <3> HIDE DEF targets
    <3> QED BY <3>1, <3>2 DEF Position
  <2>9. of.cells[x] = << e, Position(BucketOf(of.plan, e).targets, x[2]) >>
    BY <1>2, <2>1 DEF e
  <2>10. BucketOf(of.plan, e).targets = targets(d)
    BY <1>1, <2>6
  <2> QED BY <2>6, <2>8, <2>9, <2>10 DEF x
<1> QED BY <1>3, <1>4

-----------------------------------------------------------------------------
\* What the buffers for a content hold.
Stored(of, logical, M) ==
  /\ \A entry \in DOMAIN of.arena : \A j \in DOMAIN of.arena[entry] :
       M.dispersive[entry][j] = logical[of.arena[entry][j][1]][of.arena[entry][j][2]]
  /\ \A d \in of.dense : M.absorber[d] = logical[d]
  /\ \A d \in of.sparse, a \in {1, 2} :
       \A i \in DOMAIN BucketOf(of.plan, d).residual[a].positions :
         M.axis[<<d, a>>][i] = logical[d][BucketOf(of.plan, d).residual[a].positions[i]][a]

\* The buffers of a configuration hold a content at its places.
LEMMA BuffersStored ==
  ASSUME NEW of, NEW logical
  PROVE  Stored(of, logical, Buffers(of, logical))
<1> DEFINE M == Buffers(of, logical)
           dispersive == [entry \in DOMAIN of.arena |->
                            LET rows == of.arena[entry]
                            IN  [j \in DOMAIN rows |-> logical[rows[j][1]][rows[j][2]]]]
           absorber == [d \in of.dense |-> logical[d]]
           axis == [x \in of.sparse \X {1, 2} |->
                      LET positions == BucketOf(of.plan, x[1]).residual[x[2]].positions
                      IN  [i \in DOMAIN positions |-> logical[x[1]][positions[i]][x[2]]]]
<1>1. M = [dispersive |-> dispersive, absorber |-> absorber, axis |-> axis]
  BY Zenon DEF Buffers
<1>2. \A entry \in DOMAIN of.arena : \A j \in DOMAIN of.arena[entry] :
        dispersive[entry][j] = logical[of.arena[entry][j][1]][of.arena[entry][j][2]]
  OBVIOUS
<1>3. \A d \in of.dense : absorber[d] = logical[d]
  OBVIOUS
<1>4. \A d \in of.sparse, a \in {1, 2} :
        \A i \in DOMAIN BucketOf(of.plan, d).residual[a].positions :
          axis[<<d, a>>][i] = logical[d][BucketOf(of.plan, d).residual[a].positions[i]][a]
  OBVIOUS
<1> HIDE DEF M, dispersive, absorber, axis
<1>5. M.dispersive = dispersive /\ M.absorber = absorber /\ M.axis = axis
  BY <1>1
<1>6. Stored(of, logical, M)
  BY <1>2, <1>3, <1>4, <1>5 DEF Stored
<1> QED BY <1>6 DEF M

\* The content of a row in the buffers of a simulation.
RowIn(of, M, d, i) ==
  LET b == BucketOf(of.plan, d)
      lane(a) == LogicalAxis(b.residual[a], Len(b.targets), M.axis[<<d, a>>])
  IN  IF d \in DOMAIN of.place
      THEN M.dispersive[of.place[d][i][1]][of.place[d][i][2]]
      ELSE IF d \in of.dense THEN M.absorber[d][i] ELSE << lane(1)[i], lane(2)[i] >>

\* The buffers of a configuration give its content back.
LEMMA BuffersGive ==
  ASSUME NEW s, WellFormed(s), NEW of, Built(of, s), NEW logical, Contents(of, logical),
         NEW d \in of.stateful, NEW k \in DOMAIN BucketOf(of.plan, d).targets
  PROVE  RowIn(of, Buffers(of, logical), d, k) = logical[d][k]
<1> DEFINE M == Buffers(of, logical)
           b == BucketOf(of.plan, d)
           q(a) == b.residual[a].positions
           lane(a) == LogicalAxis(b.residual[a], Len(b.targets), M.axis[<<d, a>>])
<1>1. Stored(of, logical, M)
  BY BuffersStored
<1> HIDE DEF M
<1>2. RowIn(of, M, d, k) = IF d \in DOMAIN of.place
                           THEN M.dispersive[of.place[d][k][1]][of.place[d][k][2]]
                           ELSE IF d \in of.dense THEN M.absorber[d][k]
                           ELSE << lane(1)[k], lane(2)[k] >>
  BY Zenon DEF RowIn
<1>3. d \in Buckets(of.plan) /\ d[1] \in Component /\ Furnished(b, s, of.options, d[1])
  BY BuiltKinds, BuiltFurnished
<1>4. Remembers(b, k, logical[d][k])
  BY Zenon DEF Contents
<1>5. CASE d \in DOMAIN of.place
  <2> DEFINE e == EntryOf(of, d)
             rows == of.arena[e]
             j == Position(rows, <<d, k>>)
  <2>1. e \in Range(of.entries) /\ d \in Range(e)
    <3>1. \E f \in Range(of.entries) : d \in Range(f)
      BY <1>5, BuiltEntries DEF Range
    <3> QED BY <3>1 DEF EntryOf
  <2>2. of.place[d][k] = <<e, j>>
    <3>1. Lies(of, d, k)
      BY <1>5, BuiltFields
    <3> QED BY <3>1 DEF Lies
  <2> HIDE DEF e
  <2>3. Arena(of, e) /\ e \in DOMAIN of.arena
    BY <2>1, BuiltEntries DEF Range
  <2>4. \E i \in DOMAIN rows : rows[i] = <<d, k>>
    BY <2>1, <2>3 DEF Arena
  <2>5. j \in DOMAIN rows /\ rows[j] = <<d, k>>
    <3>1. Lists(rows, Range(rows)) /\ <<d, k>> \in Range(rows)
      BY <2>4 DEF Lists, Range
    <3> HIDE DEF rows
    <3> QED BY <3>1, PositionIs
  <2> HIDE DEF j
  <2>6. M.dispersive[e][j] = logical[d][k]
    <3>1. M.dispersive[e][j] = logical[rows[j][1]][rows[j][2]]
      BY <1>1, <2>3, <2>5 DEF Stored
    <3>2. rows[j][1] = d /\ rows[j][2] = k
      BY <2>5
    <3> QED BY <3>1, <3>2
  <2>7. RowIn(of, M, d, k) = M.dispersive[of.place[d][k][1]][of.place[d][k][2]]
    BY <1>2, <1>5
  <2>8. of.place[d][k][1] = e /\ of.place[d][k][2] = j
    BY <2>2
  <2> QED BY <2>6, <2>7, <2>8 DEF M
<1>6. CASE d \notin DOMAIN of.place /\ d \in of.dense
  <2>1. M.absorber[d] = logical[d]
    BY <1>1, <1>6 DEF Stored
  <2>2. RowIn(of, M, d, k) = M.absorber[d][k]
    BY <1>2, <1>6
  <2> QED BY <2>1, <2>2 DEF M
<1>7. CASE d \notin DOMAIN of.place /\ d \notin of.dense
  <2>1. d \in of.sparse /\ b.signature[1] = "cpml"
        /\ b.residual = [axis \in 1..2 |-> Residual(b.targets, b.cells, axis)]
    BY <1>7, BuiltKinds
  <2>2. MemoryRows(b.signature) = [1..2 -> Int]
    BY <1>3, <2>1, CpmlRows
  <2>3. logical[d][k] \in [1..2 -> Int]
        /\ \A a \in 1..2 : PlainAxis(b.cells[k], a) => logical[d][k][a] = 0
    BY <1>4, <2>1, <2>2 DEF Remembers
  <2>4. ASSUME NEW a \in 1..2 PROVE lane(a)[k] = logical[d][k][a]
    <3> DEFINE values == M.axis[<<d, a>>]
    <3>1. \A i \in DOMAIN q(a) : values[i] = logical[d][q(a)[i]][a]
      <4>1. a \in {1, 2}
        OBVIOUS
      <4>2. \A i \in DOMAIN BucketOf(of.plan, d).residual[a].positions :
              M.axis[<<d, a>>][i] = logical[d][BucketOf(of.plan, d).residual[a].positions[i]][a]
        BY <1>1, <2>1, <4>1, Zenon DEF Stored
      <4> QED BY <4>2
    <3>2. PICK n \in Nat : DOMAIN b.targets = 1..n /\ b.targets \in [1..n -> ActiveTargets(Serial(s.n), d[1])]
      BY <1>3 DEF Furnished
    <3>3. Len(b.targets) = n
      <4> HIDE DEF b
      <4> QED BY <3>2
    <3>4. b.residual[a] = Residual(b.targets, b.cells, a)
      BY <2>1
    <3>5. k \in Range(q(a)) <=> ~PlainAxis(b.cells[k], a)
      <4> DEFINE r == b.residual[a]
      <4>1. r = Residual(b.targets, b.cells, a)
        BY <3>4
      <4> HIDE DEF r, b
      <4>2. k \in DOMAIN b.targets
        BY DEF b
      <4>3. k \in Range(r.positions) <=> ~PlainAxis(b.cells[k], a)
        BY <1>3, <2>1, <4>1, <4>2, ResidualIs
      <4> QED BY <4>3 DEF r
    <3> DEFINE p == q(a)
    <3>6. lane(a)[k] = IF k \in Range(p) THEN values[Position(p, k)] ELSE 0
      BY <3>2, <3>3 DEF LogicalAxis
    <3>7. k \in Range(p) => Position(p, k) \in DOMAIN p /\ p[Position(p, k)] = k
      <4>1. Lists(p, Range(p))
        BY DEF Lists, Range
      <4> HIDE DEF p
      <4> QED BY <4>1, PositionIs
    <3>8. k \in Range(p) => values[Position(p, k)] = logical[d][k][a]
      <4> SUFFICES ASSUME k \in Range(p) PROVE values[Position(p, k)] = logical[d][k][a]
        OBVIOUS
      <4> DEFINE i == Position(p, k)
      <4>1. i \in DOMAIN p /\ p[i] = k
        BY <3>7
      <4>2. values[i] = logical[d][p[i]][a]
        BY <3>1, <4>1
      <4> HIDE DEF i, p, values
      <4>3. values[i] = logical[d][k][a]
        BY <4>1, <4>2
      <4> QED BY <4>3 DEF i
    <3>9. k \notin Range(p) => logical[d][k][a] = 0
      BY <2>3, <3>5
    <3> HIDE DEF p, values, lane
    <3> QED BY <3>6, <3>8, <3>9
  <2>5. RowIn(of, M, d, k) = << lane(1)[k], lane(2)[k] >>
    BY <1>2, <1>7
  <2> HIDE DEF lane
  <2>6. << lane(1)[k], lane(2)[k] >> = logical[d][k]
    <3> DEFINE row == logical[d][k]
    <3>1. lane(1)[k] = row[1] /\ lane(2)[k] = row[2]
      BY <2>4
    <3>2. row \in [1..2 -> Int]
      BY <2>3
    <3> HIDE DEF row
    <3>3. row = << row[1], row[2] >>
      BY <3>2
    <3> QED BY <3>1, <3>3 DEF row
  <2> QED BY <2>5, <2>6 DEF M
<1> QED BY <1>5, <1>6, <1>7

-----------------------------------------------------------------------------
\* The abstract half step reads the scene and its grid as the simulation does.
LEMMA SameGrid ==
  /\ Cellwise!This = This /\ Cellwise!Component = Component
  /\ \A n : Cellwise!Serial(n) = Serial(n)
  /\ \A g, c : Cellwise!Shape(g, c) = Shape(g, c)
  /\ \A shape, v : Cellwise!Flat(shape, v) = Flat(shape, v)
  /\ \A shape, i : Cellwise!Unflat(shape, i) = Unflat(shape, i)
  /\ \A u, v : Cellwise!Sum3(u, v) = Sum3(u, v)
  /\ \A g, c : Cellwise!ActiveTargets(g, c) = ActiveTargets(g, c)
  /\ \A g, c, v : Cellwise!IndexToSpace(g, c, v) = IndexToSpace(g, c, v)
<1>1. Cellwise!This = This /\ Cellwise!Component = Component
  BY Zenon DEF Cellwise!This, This, Cellwise!Component, Component, Cellwise!Axes, Axes
<1>2. ASSUME NEW n
      PROVE  Cellwise!Serial(n) = Serial(n)
  BY Zenon DEF Cellwise!Serial, Serial, Cellwise!Axes, Axes, Cellwise!Zero, Zero
<1>3. ASSUME NEW g, NEW c
      PROVE  Cellwise!Shape(g, c) = Shape(g, c)
  BY Zenon DEF Cellwise!Shape, Shape, Cellwise!Axes, Axes
<1>4. ASSUME NEW shape, NEW v
      PROVE  Cellwise!Flat(shape, v) = Flat(shape, v)
  BY Zenon DEF Cellwise!Flat, Flat
<1>5. ASSUME NEW shape, NEW i
      PROVE  Cellwise!Unflat(shape, i) = Unflat(shape, i)
  BY Zenon DEF Cellwise!Unflat, Unflat
<1>6. ASSUME NEW u, NEW v
      PROVE  Cellwise!Sum3(u, v) = Sum3(u, v)
  BY Zenon DEF Cellwise!Sum3, Sum3, Cellwise!Axes, Axes
<1>7. ASSUME NEW g, NEW c
      PROVE  Cellwise!ActiveTargets(g, c) = ActiveTargets(g, c)
  BY Zenon DEF Cellwise!ActiveTargets, ActiveTargets, Cellwise!Shape, Shape, Cellwise!Total, Total,
               Cellwise!InBounds, InBounds, Cellwise!Unflat, Unflat, Cellwise!Axes, Axes
<1>8. ASSUME NEW g, NEW c, NEW v
      PROVE  Cellwise!IndexToSpace(g, c, v) = IndexToSpace(g, c, v)
  BY Zenon DEF Cellwise!IndexToSpace, IndexToSpace, Cellwise!Axes, Axes, Cellwise!Stagger, Stagger
<1> QED BY <1>1, <1>2, <1>3, <1>4, <1>5, <1>6, <1>7, <1>8

\* And the materials of the scene.
LEMMA SameMaterials ==
  /\ Cellwise!Absorbers = Absorbers /\ Cellwise!Stateful = Stateful
  /\ \A s, x : Cellwise!Key(s, x) = Key(s, x)
  /\ \A s, i : Cellwise!Material(s, i) = Material(s, i)
  /\ \A m, c : Cellwise!ModelAndState(m, c) = ModelAndState(m, c)
  /\ \A s, key, c : Cellwise!CoefficientRow(s, key, c) = CoefficientRow(s, key, c)
  /\ \A s, m, c, x, base : Cellwise!PmlCell(s, m, c, x, base) = PmlCell(s, m, c, x, base)
  /\ \A sig : Cellwise!ZeroRow(sig) = ZeroRow(sig)
<1>1. Cellwise!Absorbers = Absorbers /\ Cellwise!Stateful = Stateful
  BY Zenon DEF Cellwise!Stateful, Stateful, Cellwise!DispersiveModels, DispersiveModels,
               Cellwise!Absorbers, Absorbers
<1>2. ASSUME NEW s, NEW x
      PROVE  Cellwise!Key(s, x) = Key(s, x)
  BY Zenon DEF Cellwise!Key, Key, Cellwise!On, On, Cellwise!Inside, Inside, Cellwise!Max, Max,
               Cellwise!Absorbers, Absorbers, Cellwise!Axes, Axes
<1>3. ASSUME NEW s, NEW i
      PROVE  Cellwise!Material(s, i) = Material(s, i)
  BY Zenon DEF Cellwise!Material, Material
<1>4. ASSUME NEW m, NEW c
      PROVE  Cellwise!ModelAndState(m, c) = ModelAndState(m, c)
  BY Zenon DEF Cellwise!ModelAndState, ModelAndState
<1>5. ASSUME NEW s, NEW key, NEW c
      PROVE  Cellwise!CoefficientRow(s, key, c) = CoefficientRow(s, key, c)
  BY Zenon DEF Cellwise!CoefficientRow, CoefficientRow, Cellwise!ModelAndState, ModelAndState,
               Cellwise!Material, Material
<1>6. ASSUME NEW s, NEW m, NEW c, NEW x, NEW base
      PROVE  Cellwise!PmlCell(s, m, c, x, base) = PmlCell(s, m, c, x, base)
  BY Zenon DEF Cellwise!PmlCell, PmlCell, Cellwise!Profile, Profile, Cellwise!Graded, Graded,
               Cellwise!Depth, Depth, Cellwise!Neutral, Neutral, Cellwise!Reciprocal, Reciprocal,
               Cellwise!AxisB, AxisB, Cellwise!AxisC, AxisC
<1>7. ASSUME NEW sig
      PROVE  Cellwise!ZeroRow(sig) = ZeroRow(sig)
  BY Zenon DEF Cellwise!ZeroRow, ZeroRow, Cellwise!Zeros, Zeros
<1> QED BY <1>1, <1>2, <1>3, <1>4, <1>5, <1>6, <1>7

\* And has the same stencils and boundary wraps.
LEMMA SameStencils ==
  /\ \A c : Cellwise!PmlTerms(c) = PmlTerms(c) /\ Cellwise!Direction(c) = Direction(c)
  /\ \A phases, G, c, v : Cellwise!Grid(phases)!Curl(G, c, v) = Grid(phases)!Curl(G, c, v)
  /\ \A phases, G, family, g :
       Cellwise!Grid(phases)!Sync(G, family, g, 0) = Grid(phases)!Sync(G, family, g, 0)
  /\ \A s : Cellwise!Phases(s) = Phases(s)
<1>1. ASSUME NEW c
      PROVE  Cellwise!PmlTerms(c) = PmlTerms(c) /\ Cellwise!Direction(c) = Direction(c)
  BY Zenon DEF Cellwise!PmlTerms, PmlTerms, Cellwise!Direction, Direction, Cellwise!Stencil, Stencil,
               Cellwise!Reverse, Reverse, Cellwise!Term, Term, Cellwise!AxisB, AxisB, Cellwise!AxisC,
               AxisC, Cellwise!Minus, Minus, Cellwise!Unit, Unit, Cellwise!Sum3, Sum3, Cellwise!Zero,
               Zero, Cellwise!Axes, Axes
<1>2. ASSUME NEW phases, NEW G, NEW c, NEW v
      PROVE  Cellwise!Grid(phases)!Curl(G, c, v) = Grid(phases)!Curl(G, c, v)
  BY Zenon DEF Cellwise!Grid!Curl, Grid!Curl, Cellwise!Grid!ElectricCurl, Grid!ElectricCurl,
               Cellwise!Grid!MagneticCurl, Grid!MagneticCurl, Cellwise!Grid!Shift, Grid!Shift,
               Cellwise!Grid!AxisB, Grid!AxisB, Cellwise!Grid!AxisC, Grid!AxisC
<1>3. ASSUME NEW phases, NEW G, NEW family, NEW g
      PROVE  Cellwise!Grid(phases)!Sync(G, family, g, 0) = Grid(phases)!Sync(G, family, g, 0)
  BY Zenon DEF Cellwise!Grid!Sync, Grid!Sync, Cellwise!Grid!SyncComponent, Grid!SyncComponent,
               Cellwise!Grid!SyncAxis, Grid!SyncAxis, Cellwise!Grid!At, Grid!At,
               Cellwise!Grid!WrapPhase, Grid!WrapPhase, Cellwise!Grid!Conjugate, Grid!Conjugate,
               Cellwise!Grid!Component, Grid!Component, Cellwise!Grid!Axes, Grid!Axes
<1>4. ASSUME NEW s
      PROVE  Cellwise!Phases(s) = Phases(s)
  BY Zenon DEF Cellwise!Phases, Phases
<1> QED BY <1>1, <1>2, <1>3, <1>4

\* And has the same recurrences.
LEMMA SameRecurrences ==
  /\ \A sig, k, row, e, t, direction :
       Cellwise!AbsorberUpdate(sig, k, row, e, t, direction) = AbsorberUpdate(sig, k, row, e, t, direction)
  /\ \A sig, k, row, e, curl :
       Cellwise!Recurrence(sig, k, row, e, curl) = Recurrence(sig, k, row, e, curl)
<1>1. ASSUME NEW sig, NEW k, NEW row, NEW e, NEW t, NEW direction
      PROVE  Cellwise!AbsorberUpdate(sig, k, row, e, t, direction) = AbsorberUpdate(sig, k, row, e, t, direction)
  BY Zenon DEF Cellwise!AbsorberUpdate, AbsorberUpdate, Cellwise!Upml, Upml, Cellwise!Cpml, Cpml,
               Cellwise!Psi, Psi, Cellwise!Reciprocal, Reciprocal
<1>2. ASSUME NEW k, NEW row, NEW e, NEW curl
      PROVE  Cellwise!TwoLevel(k, row, e, curl) = TwoLevel(k, row, e, curl)
  BY Zenon DEF Cellwise!TwoLevel, TwoLevel, Cellwise!SumOf, SumOf, Cellwise!FoldLeft, FoldLeft,
               Cellwise!MapThenFoldSet, MapThenFoldSet, Cellwise!Max, Max
<1>3. ASSUME NEW k, NEW row, NEW e, NEW curl
      PROVE  Cellwise!DcpAde(k, row, e, curl) = DcpAde(k, row, e, curl)
  BY Zenon DEF Cellwise!DcpAde, DcpAde, Cellwise!SumOf, SumOf, Cellwise!FoldLeft, FoldLeft,
               Cellwise!MapThenFoldSet, MapThenFoldSet, Cellwise!Max, Max
<1>4. ASSUME NEW k, NEW row, NEW e, NEW curl
      PROVE  Cellwise!Convolution(k, row, e, curl) = Convolution(k, row, e, curl)
  BY Zenon DEF Cellwise!Convolution, Convolution, Cellwise!SumOf, SumOf, Cellwise!FoldLeft, FoldLeft,
               Cellwise!MapThenFoldSet, MapThenFoldSet, Cellwise!Max, Max
<1>5. ASSUME NEW sig, NEW k, NEW row, NEW e, NEW curl
      PROVE  Cellwise!Recurrence(sig, k, row, e, curl) = Recurrence(sig, k, row, e, curl)
  BY <1>2, <1>3, <1>4, Zenon DEF Cellwise!Recurrence, Recurrence
<1> QED BY <1>1, <1>5

-----------------------------------------------------------------------------
\* The cell of the abstract half step has what its bucket gives the row.
LEMMA CellIsRow ==
  ASSUME IInv, NEW d \in Buckets(sim.plan), NEW k \in RowsOf(d)
  PROVE  LET cell == Cellwise!CellMap[scene][d[1]][TargetOf(d, k)]
             b == BucketOf(sim.plan, d)
         IN  /\ cell.sig = b.signature /\ cell.base = TargetRow(b, k)[1]
             /\ cell.coef = TargetRow(b, k)[2]
             /\ b.signature[1] \in Absorbers => cell.pml = b.cells[k]
<1> DEFINE s == This
           g == Serial(s.n)
           c == d[1]
           i == TargetOf(d, k)
           b == BucketOf(sim.plan, d)
           x == IndexToSpace(g, c, Unflat(Shape(g, c), i))
           key == Key(s, x)
           row == CoefficientRow(s, key, c)
           sig == ModelAndState(Material(s, key[1]), c)
           pml == IF sig[1] \in Absorbers THEN PmlCell(s, Material(s, key[1]), c, x, row[1]) ELSE <<>>
<1>1. WellFormed(s) /\ Built(sim, s) /\ scene \in DOMAIN Scenes
  BY BuiltSimulation DEF IInv
<1>2. c \in Component /\ d[2] \in DOMAIN sim.plan[c].buckets /\ i \in ActiveTargets(g, c)
      /\ k \in DOMAIN b.targets
  BY <1>1, BuiltFurnished, BucketCells DEF RowsOf
<1>3. sim.plan = Plan(s, sim.options, g)
  BY <1>1, BuiltFields
<1> HIDE DEF s
<1>4. b = Plan(s, sim.options, g)[c].buckets[d[2]]
  BY <1>3 DEF BucketOf
<1>5. Own(s, sim.options, c, d[2])
  BY <1>1, <1>2, <1>3, BucketOwns DEF s
<1>6. Holds(b, s, g, c, b.signature, {j \in ActiveTargets(g, c) : ModelAt(s, g, c, j) = b.signature})
  BY <1>4, <1>5 DEF Own
<1> HIDE DEF b
<1>7. x = PointAt(g, c, b.targets[k]) /\ i = b.targets[k]
  BY DEF PointAt, TargetOf, b
<1>8. /\ TargetRow(b, k) = row
      /\ b.signature[1] \in Absorbers =>
           b.cells[k] = PmlCell(s, Material(s, key[1]), c, x, TargetRow(b, k)[1])
  <2> HIDE DEF x, c, g
  <2> QED BY <1>2, <1>6, <1>7 DEF Holds
<1>9. sig = b.signature
  <2>1. ModelAt(s, g, c, i) = b.signature
    <3> DEFINE T == {j \in ActiveTargets(g, c) : ModelAt(s, g, c, j) = b.signature}
    <3>1. Lists(b.targets, T)
      BY <1>6, Zenon DEF Holds
    <3>2. b.targets[k] \in T
      <4> HIDE DEF T
      <4> QED BY <1>2, <3>1 DEF Lists
    <3> QED BY <1>7, <3>2
  <2> QED BY <1>7, <2>1 DEF ModelAt, KeyAt
<1>10. Cellwise!CellMap[scene][c][i] = Cellwise!Cell(s, c, i)
  <2>1. \A n, e : Cellwise!ActiveTargets(Cellwise!Serial(n), e) = ActiveTargets(Serial(n), e)
    BY SameGrid
  <2>2. c \in Cellwise!Component /\ i \in Cellwise!ActiveTargets(Cellwise!Serial(Scenes[scene].n), c)
    BY <1>2, <2>1, SameGrid DEF s, This
  <2> HIDE DEF c, i
  <2> QED BY <1>1, <2>2 DEF Cellwise!CellMap, s, This
<1>11. Cellwise!Cell(s, c, i) = [sig |-> sig, base |-> row[1], coef |-> row[2], pml |-> pml]
  <2> DEFINE cx == Cellwise!IndexToSpace(Cellwise!Serial(s.n), c, Cellwise!Unflat(Cellwise!Shape(Cellwise!Serial(s.n), c), i))
             ckey == Cellwise!Key(s, cx)
             crow == Cellwise!CoefficientRow(s, ckey, c)
             csig == Cellwise!ModelAndState(Cellwise!Material(s, ckey[1]), c)
             cpml == IF csig[1] \in Cellwise!Absorbers
                     THEN Cellwise!PmlCell(s, Cellwise!Material(s, ckey[1]), c, cx, crow[1]) ELSE <<>>
  <2>1. Cellwise!Cell(s, c, i) = [sig |-> csig, base |-> crow[1], coef |-> crow[2], pml |-> cpml]
    BY Zenon DEF Cellwise!Cell
  <2>2. cx = x
    BY SameGrid
  <2> HIDE DEF cx, x
  <2>3. ckey = key
    BY <2>2, SameMaterials
  <2> HIDE DEF ckey, key
  <2>4. crow = row /\ csig = sig
    BY <2>3, SameMaterials
  <2> HIDE DEF crow, row, csig, sig
  <2>5. cpml = pml
    BY <2>2, <2>3, <2>4, SameMaterials
  <2> HIDE DEF cpml, pml
  <2> QED BY <2>1, <2>4, <2>5
<1> DEFINE cell == Cellwise!CellMap[scene][c][i]
<1>12. cell.sig = sig /\ cell.base = row[1] /\ cell.coef = row[2] /\ cell.pml = pml
  <2> HIDE DEF sig, row, pml
  <2> QED BY <1>10, <1>11
<1>13. sig[1] \in Absorbers => pml = PmlCell(s, Material(s, key[1]), c, x, row[1])
  OBVIOUS
<1> HIDE DEF cell, sig, row, pml
<1>14. /\ cell.sig = b.signature /\ cell.base = TargetRow(b, k)[1]
       /\ cell.coef = TargetRow(b, k)[2]
       /\ b.signature[1] \in Absorbers => cell.pml = b.cells[k]
  BY <1>8, <1>9, <1>12, <1>13
<1> QED BY <1>14 DEF cell, b, c, i

-----------------------------------------------------------------------------
\* Vectors as functions of the axis: a unit, its opposite, a sum and a shift.
LEMMA VectorSums ==
  ASSUME NEW v \in [Axes -> Int], NEW u \in [Axes -> Int], NEW a \in Axes
  PROVE  /\ Unit(a) = [x \in Axes |-> IF x = a THEN 1 ELSE 0]
         /\ Unit(a) \in [Axes -> Int]
         /\ Minus(u) = [x \in Axes |-> -u[x]]
         /\ Minus(u) \in [Axes -> Int]
         /\ Sum3(v, u) = [x \in Axes |-> v[x] + u[x]]
         /\ Sum3(v, u) \in [Axes -> Int]
<1>1. Unit(a) = [x \in Axes |-> IF x = a THEN 1 ELSE 0]
  BY DEF Unit, Zero
<1>2. Minus(u) = [x \in Axes |-> -u[x]] /\ Sum3(v, u) = [x \in Axes |-> v[x] + u[x]]
  BY Zenon DEF Minus, Sum3
<1>5. [x \in Axes |-> IF x = a THEN 1 ELSE 0] \in [Axes -> Int]
      /\ [x \in Axes |-> -u[x]] \in [Axes -> Int]
      /\ [x \in Axes |-> v[x] + u[x]] \in [Axes -> Int]
  OBVIOUS
<1> QED BY <1>1, <1>2, <1>5, Zenon

\* A shift moves one coordinate.
LEMMA ShiftAlong ==
  ASSUME NEW v \in [Axes -> Int], NEW a \in Axes, NEW k \in Int
  PROVE  Grid(Phases(This))!Shift(v, a, k) = [x \in Axes |-> IF x = a THEN v[x] + k ELSE v[x]]
<1>1. Grid(Phases(This))!Shift(v, a, k) = [v EXCEPT ![a] = v[a] + k]
  BY Zenon DEF Grid!Shift
<1>2. [v EXCEPT ![a] = v[a] + k] = [x \in Axes |-> IF x = a THEN v[x] + k ELSE v[x]]
  OBVIOUS
<1> QED BY <1>1, <1>2, Zenon

\* A shift of the plain curl is a sum of the stencil.
LEMMA ShiftIsSum ==
  ASSUME NEW v \in [Axes -> Int], NEW a \in Axes, NEW b \in Axes, a # b
  PROVE  /\ Grid(Phases(This))!Shift(v, a, 1) = Sum3(v, Unit(a))
         /\ Grid(Phases(This))!Shift(Sum3(v, Unit(a)), b, 1) = Sum3(v, Sum3(Unit(a), Unit(b)))
         /\ Grid(Phases(This))!Shift(v, a, -1) = Sum3(v, Minus(Unit(a)))
         /\ Grid(Phases(This))!Shift(Sum3(v, Minus(Unit(a))), b, -1)
              = Sum3(v, Minus(Sum3(Unit(a), Unit(b))))
<1> DEFINE V == [Axes -> Int]
           ua == Unit(a)
           ub == Unit(b)
           up == Sum3(v, ua)
           down == Sum3(v, Minus(ua))
           both == Sum3(ua, ub)
           sh(w, e, k) == Grid(Phases(This))!Shift(w, e, k)
<1>1. v \in V
  OBVIOUS
<1>2. ua \in V /\ ub \in V /\ \A x \in Axes : ua[x] = (IF x = a THEN 1 ELSE 0) /\ ub[x] = (IF x = b THEN 1 ELSE 0)
  <2>1. /\ ua = [x \in Axes |-> IF x = a THEN 1 ELSE 0] /\ ua \in V
        /\ ub = [x \in Axes |-> IF x = b THEN 1 ELSE 0] /\ ub \in V
    BY <1>1, VectorSums, Zenon
  <2> QED BY <2>1
<1> HIDE DEF ua, ub
<1>3. /\ up \in V /\ \A x \in Axes : up[x] = v[x] + ua[x]
      /\ both \in V /\ \A x \in Axes : both[x] = ua[x] + ub[x]
      /\ Minus(ua) \in V /\ \A x \in Axes : Minus(ua)[x] = -ua[x]
  <2>1. /\ up = [x \in Axes |-> v[x] + ua[x]] /\ up \in V
        /\ both = [x \in Axes |-> ua[x] + ub[x]] /\ both \in V
        /\ Minus(ua) = [x \in Axes |-> -ua[x]] /\ Minus(ua) \in V
    BY <1>1, <1>2, VectorSums, Zenon
  <2> QED BY <2>1
<1> HIDE DEF up, both
<1>4. /\ down \in V /\ \A x \in Axes : down[x] = v[x] + (-ua[x])
      /\ Minus(both) \in V /\ \A x \in Axes : Minus(both)[x] = -both[x]
  <2>1. down = [x \in Axes |-> v[x] + Minus(ua)[x]] /\ down \in V
    <3> DEFINE m == Minus(ua)
    <3>1. m \in V
      BY <1>3
    <3> HIDE DEF m
    <3>2. Sum3(v, m) = [x \in Axes |-> v[x] + m[x]] /\ Sum3(v, m) \in V
      BY <1>1, <3>1, VectorSums, Zenon
    <3> QED BY <3>2 DEF m
  <2>3. Minus(both) = [x \in Axes |-> -both[x]] /\ Minus(both) \in V
    <3>1. both \in [Axes -> Int] /\ a \in Axes
      BY <1>3
    <3> HIDE DEF down, sh
    <3>2. Minus(both) = [x \in Axes |-> -both[x]] /\ Minus(both) \in [Axes -> Int]
      BY <3>1, VectorSums, Zenon
    <3> QED BY <3>2
  <2>2. \A x \in Axes : Minus(ua)[x] = -ua[x]
    BY <1>3
  <2> HIDE DEF both, down
  <2> QED BY <1>3, <2>1, <2>2, <2>3
<1> HIDE DEF down
<1>5. /\ Sum3(v, both) = [x \in Axes |-> v[x] + both[x]]
      /\ Sum3(v, Minus(both)) = [x \in Axes |-> v[x] + Minus(both)[x]]
  BY <1>1, <1>3, <1>4, VectorSums, Zenon
<1>6. ASSUME NEW w \in V, NEW e \in Axes, NEW k \in Int
      PROVE  sh(w, e, k) = [x \in Axes |-> IF x = e THEN w[x] + k ELSE w[x]]
  BY ShiftAlong, Zenon
<1> HIDE DEF sh
<1>7. sh(v, a, 1) = up /\ sh(v, a, -1) = down
  <2>1. /\ sh(v, a, 1) = [x \in Axes |-> IF x = a THEN v[x] + 1 ELSE v[x]]
        /\ sh(v, a, -1) = [x \in Axes |-> IF x = a THEN v[x] + (-1) ELSE v[x]]
    BY <1>1, <1>6
  <2>2. up = [x \in Axes |-> IF x = a THEN v[x] + 1 ELSE v[x]]
    BY <1>1, <1>2, <1>3
  <2>3. down = [x \in Axes |-> IF x = a THEN v[x] + (-1) ELSE v[x]]
    BY <1>1, <1>2, <1>4
  <2> QED BY <2>1, <2>2, <2>3
<1>8. sh(up, b, 1) = Sum3(v, both)
  <2>0. 1 \in Int
    OBVIOUS
  <2>1. sh(up, b, 1) = [x \in Axes |-> IF x = b THEN up[x] + 1 ELSE up[x]]
    BY <1>3, <1>6, <2>0, Zenon
  <2> QED BY <1>1, <1>2, <1>3, <1>5, <2>1
<1>9. sh(down, b, -1) = Sum3(v, Minus(both))
  <2>0. -1 \in Int
    OBVIOUS
  <2>1. sh(down, b, -1) = [x \in Axes |-> IF x = b THEN down[x] + (-1) ELSE down[x]]
    BY <1>4, <1>6, <2>0, Zenon
  <2> DEFINE mb == Minus(both)
  <2>2. \A x \in Axes : (IF x = b THEN down[x] + (-1) ELSE down[x]) = v[x] + mb[x]
    <3>1. mb \in V /\ \A x \in Axes : mb[x] = -both[x]
      BY <1>4
    <3> HIDE DEF mb
    <3> SUFFICES ASSUME NEW x \in Axes
                 PROVE  (IF x = b THEN down[x] + (-1) ELSE down[x]) = v[x] + mb[x]
      OBVIOUS
    <3>2. both[x] = ua[x] + ub[x]
      BY <1>3
    <3>3. down[x] = v[x] + (-ua[x])
      BY <1>4
    <3>4. v[x] \in Int /\ ua[x] = (IF x = a THEN 1 ELSE 0) /\ ub[x] = (IF x = b THEN 1 ELSE 0)
      BY <1>1, <1>2
    <3> QED BY <3>1, <3>2, <3>3, <3>4
  <2> QED BY <1>5, <2>1, <2>2
<1> QED BY <1>7, <1>8, <1>9 DEF sh, up, down, both, ua, ub

\* The difference a term of the stencil takes at a cell.
TermAt(G, v, t) ==
  Rate[t.axis] * (G[t.source][Sum3(v, t.positive)] - G[t.source][Sum3(v, t.negative)])

\* The plain curl takes the differences of the two terms.
LEMMA CurlOfTerms ==
  ASSUME NEW G, NEW c \in Component, NEW v, v \in Int \X Int \X Int
  PROVE  Grid(Phases(This))!Curl(G, c, v) = TermAt(G, v, Stencil(c)[1]) - TermAt(G, v, Stencil(c)[2])
<1> DEFINE a == c[2]
           y == AxisB(a)
           z == AxisC(a)
<1>0. v \in [Axes -> Int]
  BY DEF Axes
<1>1. a \in Axes /\ y \in Axes /\ z \in Axes /\ a # y /\ a # z /\ y # z
  BY DEF Component, Axes, AxisB, AxisC
<1>2. c[1] \in {"E", "H"}
  BY DEF Component
<1>3. Grid(Phases(This))!AxisB(a) = y /\ Grid(Phases(This))!AxisC(a) = z
  BY Zenon DEF Grid!AxisB, AxisB, Grid!AxisC, AxisC
<1>4. CASE c[1] = "E"
  <2> DEFINE w == Sum3(v, Unit(a))
  <2>1. Grid(Phases(This))!Curl(G, c, v) = Grid(Phases(This))!ElectricCurl(G, a, v)
    BY <1>4, Zenon DEF Grid!Curl
  <2>2. Grid(Phases(This))!Shift(v, a, 1) = w
        /\ Grid(Phases(This))!Shift(w, y, 1) = Sum3(v, Sum3(Unit(a), Unit(y)))
        /\ Grid(Phases(This))!Shift(w, z, 1) = Sum3(v, Sum3(Unit(a), Unit(z)))
    <3> HIDE DEF a, y, z
    <3> QED BY <1>1, <1>0, ShiftIsSum, Zenon
  <2>3. Grid(Phases(This))!ElectricCurl(G, a, v)
          = Rate[y] * (G[<<"H", z>>][Sum3(v, Sum3(Unit(a), Unit(y)))] - G[<<"H", z>>][w])
            - Rate[z] * (G[<<"H", y>>][Sum3(v, Sum3(Unit(a), Unit(z)))] - G[<<"H", y>>][w])
    <3> HIDE DEF a, y, z, w
    <3> QED BY <1>3, <2>2, Zenon DEF Grid!ElectricCurl
  <2>4. Stencil(c)[1] = Term(<<"H", z>>, Sum3(Unit(a), Unit(y)), Unit(a), y, 1)
        /\ Stencil(c)[2] = Term(<<"H", y>>, Sum3(Unit(a), Unit(z)), Unit(a), z, -1)
    <3>1. Stencil(c) = << Term(<<"H", z>>, Sum3(Unit(a), Unit(y)), Unit(a), y, 1),
                          Term(<<"H", y>>, Sum3(Unit(a), Unit(z)), Unit(a), z, -1) >>
      BY <1>4, Zenon DEF Stencil
    <3> QED BY <3>1
  <2> HIDE DEF a, y, z
  <2>5. TermAt(G, v, Stencil(c)[1])
          = Rate[y] * (G[<<"H", z>>][Sum3(v, Sum3(Unit(a), Unit(y)))] - G[<<"H", z>>][w])
    BY <2>4 DEF TermAt, Term
  <2>6. TermAt(G, v, Stencil(c)[2])
          = Rate[z] * (G[<<"H", y>>][Sum3(v, Sum3(Unit(a), Unit(z)))] - G[<<"H", y>>][w])
    BY <2>4 DEF TermAt, Term
  <2> QED BY <2>1, <2>3, <2>5, <2>6
<1>5. CASE c[1] = "H"
  <2> DEFINE w == Sum3(v, Minus(Sum3(Unit(y), Unit(z))))
             p == Sum3(v, Minus(Unit(y)))
             q == Sum3(v, Minus(Unit(z)))
  <2>1. Grid(Phases(This))!Curl(G, c, v) = Grid(Phases(This))!MagneticCurl(G, a, v)
    BY <1>5, Zenon DEF Grid!Curl
  <2>2. Grid(Phases(This))!Shift(v, y, -1) = p /\ Grid(Phases(This))!Shift(v, z, -1) = q
        /\ Grid(Phases(This))!Shift(p, z, -1) = w
    <3> HIDE DEF a, y, z
    <3> QED BY <1>1, <1>0, ShiftIsSum, Zenon
  <2>3. Grid(Phases(This))!MagneticCurl(G, a, v)
          = Rate[z] * (G[<<"E", y>>][p] - G[<<"E", y>>][w])
            - Rate[y] * (G[<<"E", z>>][q] - G[<<"E", z>>][w])
    <3> HIDE DEF a, y, z, w, p, q
    <3> QED BY <1>3, <2>2, Zenon DEF Grid!MagneticCurl
  <2>4. Stencil(c)[1] = Term(<<"E", y>>, Minus(Unit(y)), Minus(Sum3(Unit(y), Unit(z))), z, 1)
        /\ Stencil(c)[2] = Term(<<"E", z>>, Minus(Unit(z)), Minus(Sum3(Unit(y), Unit(z))), y, -1)
    <3>1. Stencil(c) = << Term(<<"E", y>>, Minus(Unit(y)), Minus(Sum3(Unit(y), Unit(z))), z, 1),
                          Term(<<"E", z>>, Minus(Unit(z)), Minus(Sum3(Unit(y), Unit(z))), y, -1) >>
      <4>1. c[1] # "E"
        BY <1>5
      <4> QED BY <4>1, Zenon DEF Stencil
    <3> QED BY <3>1
  <2> HIDE DEF a, y, z
  <2>5. TermAt(G, v, Stencil(c)[1]) = Rate[z] * (G[<<"E", y>>][p] - G[<<"E", y>>][w])
    BY <2>4 DEF TermAt, Term
  <2>6. TermAt(G, v, Stencil(c)[2]) = Rate[y] * (G[<<"E", z>>][q] - G[<<"E", z>>][w])
    BY <2>4 DEF TermAt, Term
  <2> QED BY <2>1, <2>3, <2>5, <2>6
<1> QED BY <1>2, <1>4, <1>5

\* The curl and the differences of the abstract half step are those of flat indices.
LEMMA SameCurls ==
  ASSUME WellFormed(This), NEW G, Arrays(This, G), NEW c \in Component,
         NEW v \in CellsOf(This, c), InBounds(ShapeOf(c), c, v)
  PROVE  LET i == Flat(ShapeOf(c), v)
         IN  /\ Cellwise!Grid(Cellwise!Phases(This))!Curl(G, c, v) = IndexedCurl(G, c, i)
             /\ Cellwise!Differences(G, c, v) = Pair(G, c, i)
<1> DEFINE i == Flat(ShapeOf(c), v)
<1>1. \A j \in 1..2 : GatherDifference(G, c, Stencil(c)[j], i) = TermAt(G, v, Stencil(c)[j])
                      /\ GatherDifference(G, c, Stencil(c)[j], i) \in Int
  <2> SUFFICES ASSUME NEW j \in 1..2
               PROVE  GatherDifference(G, c, Stencil(c)[j], i) = TermAt(G, v, Stencil(c)[j])
                      /\ GatherDifference(G, c, Stencil(c)[j], i) \in Int
    OBVIOUS
  <2> DEFINE t == Stencil(c)[j]
             r == Rate[t.axis]
             p == G[t.source][Sum3(v, t.positive)]
             n == G[t.source][Sum3(v, t.negative)]
  <2>1. r \in Int /\ p \in Int /\ n \in Int /\ GatherDifference(G, c, t, i) = r * (p - n)
    BY GatherAt
  <2>2. TermAt(G, v, t) = r * (p - n)
    BY Zenon DEF TermAt
  <2> HIDE DEF r, p, n, t
  <2>3. r * (p - n) \in Int
    BY <2>1
  <2> QED BY <2>1, <2>2, <2>3 DEF t
<1>2. v \in Int \X Int \X Int
  <2>1. v = << v[1], v[2], v[3] >> /\ InShape(v, Shape(Serial(This.n), c))
    BY CellInShape
  <2>2. v[1] \in Int /\ v[2] \in Int /\ v[3] \in Int
    BY <2>1 DEF InShape, Axes
  <2> QED BY <2>1, <2>2
<1> HIDE DEF i
<1>3. Cellwise!Grid(Cellwise!Phases(This))!Curl(G, c, v) = IndexedCurl(G, c, i)
  <2> DEFINE one == GatherDifference(G, c, Stencil(c)[1], i)
             two == GatherDifference(G, c, Stencil(c)[2], i)
  <2>1. Cellwise!Grid(Cellwise!Phases(This))!Curl(G, c, v) = Grid(Phases(This))!Curl(G, c, v)
    BY SameStencils, Zenon
  <2>2. Grid(Phases(This))!Curl(G, c, v) = one - two
    BY <1>1, <1>2, CurlOfTerms
  <2>3. IndexedCurl(G, c, i) = Stencil(c)[1].sign * one + Stencil(c)[2].sign * two
    BY Zenon DEF IndexedCurl
  <2>4. Stencil(c)[1].sign = 1 /\ Stencil(c)[2].sign = -1
    BY StencilSigns
  <2>5. one \in Int /\ two \in Int
    BY <1>1
  <2> HIDE DEF one, two
  <2>6. 1 * one + (-1) * two = one - two
    BY <2>5
  <2> QED BY <2>1, <2>2, <2>3, <2>4, <2>6
<1>4. Cellwise!Differences(G, c, v) = Pair(G, c, i)
  <2>1. Cellwise!Differences(G, c, v) = [j \in 1..2 |-> TermAt(G, v, PmlTerms(c)[j])]
    <3> DEFINE ct(j) == Cellwise!PmlTerms(c)[j]
    <3>1. Cellwise!Differences(G, c, v)
            = [j \in 1..2 |-> Rate[ct(j).axis] * (G[ct(j).source][Cellwise!Sum3(v, ct(j).positive)]
                                                   - G[ct(j).source][Cellwise!Sum3(v, ct(j).negative)])]
      BY Zenon DEF Cellwise!Differences
    <3>2. \A j : ct(j) = PmlTerms(c)[j]
      BY SameStencils
    <3> DEFINE cd(j) == Rate[ct(j).axis] * (G[ct(j).source][Cellwise!Sum3(v, ct(j).positive)]
                                                   - G[ct(j).source][Cellwise!Sum3(v, ct(j).negative)])
    <3>3. \A j : cd(j) = TermAt(G, v, PmlTerms(c)[j])
      <4> HIDE DEF ct
      <4> QED BY <3>2, SameGrid DEF TermAt
    <3>4. Cellwise!Differences(G, c, v) = [j \in 1..2 |-> cd(j)]
      BY <3>1, Zenon
    <3> HIDE DEF cd
    <3> QED BY <3>3, <3>4
  <2>2. \A j \in 1..2 : PmlTerms(c)[j] = Stencil(c)[1] \/ PmlTerms(c)[j] = Stencil(c)[2]
    BY PmlTermsAre
  <2>3. \A j \in 1..2 : TermAt(G, v, PmlTerms(c)[j]) = GatherDifference(G, c, PmlTerms(c)[j], i)
    BY <1>1, <2>2
  <2> QED BY <2>1, <2>3 DEF Pair
<1> QED BY <1>3, <1>4 DEF i

-----------------------------------------------------------------------------
\* The update of a cell from what it reads: its model, coefficients, memory and field.
CellUpdate(sig, base, coef, pml, c, row, e, t, curl) ==
  CASE sig[1] = "dielectric" -> [field |-> (e + base * curl) % P]
    [] sig[1] = "const" -> [field |-> coef]
    [] sig[1] \in {"dummy", "dm2"} -> [field |-> e]
    [] sig[1] \in Absorbers -> AbsorberUpdate(sig, pml, row, e, t, Direction(c))
    [] OTHER -> Recurrence(sig, coef, row, e, curl)

\* Only an absorber reads the grading of its layer, and only a model with memory its memory.
LEMMA CellReads ==
  ASSUME NEW sig, sig[1] \in Range(Models), NEW base, NEW coef, NEW c, NEW e, NEW t, NEW curl,
         NEW pml, NEW row, NEW pml2, NEW row2,
         sig[1] \in Absorbers => pml2 = pml, sig[1] \in Stateful => row2 = row
  PROVE  CellUpdate(sig, base, coef, pml2, c, row2, e, t, curl)
           = CellUpdate(sig, base, coef, pml, c, row, e, t, curl)
<1> DEFINE model == sig[1]
           plain == [field |-> (e + base * curl) % P]
           pinned == [field |-> coef]
           kept == [field |-> e]
           damped(q, r) == AbsorberUpdate(sig, q, r, e, t, Direction(c))
           dispersed(r) == Recurrence(sig, coef, r, e, curl)
           update(q, r) == CellUpdate(sig, base, coef, q, c, r, e, t, curl)
<1>1. ASSUME NEW q, NEW r
      PROVE  update(q, r) = CASE model = "dielectric" -> plain
                              [] model = "const" -> pinned
                              [] model \in {"dummy", "dm2"} -> kept
                              [] model \in Absorbers -> damped(q, r)
                              [] OTHER -> dispersed(r)
  BY Zenon DEF CellUpdate
<1>2. model \in Stateful \/ model \in {"dielectric", "const", "dummy", "dm2"}
  BY DEF Range, Models, Stateful, DispersiveModels, Absorbers
<1>3. model \in Absorbers => model \in Stateful
  BY DEF Stateful
<1> HIDE DEF update, model, plain, pinned, kept
<1>4. CASE model \in {"dielectric", "const", "dummy", "dm2"}
  <2> HIDE DEF damped, dispersed
  <2>1. /\ model = "dielectric" => \A q, r : update(q, r) = plain
        /\ model = "const" => \A q, r : update(q, r) = pinned
        /\ model \in {"dummy", "dm2"} => \A q, r : update(q, r) = kept
    BY <1>1 DEF Absorbers
  <2>2. update(pml2, row2) = update(pml, row)
    BY <1>4, <2>1
  <2> QED BY <2>2 DEF update
<1>5. CASE model \in Stateful /\ model \in Absorbers
  <2>1. pml2 = pml /\ row2 = row
    BY <1>5 DEF model
  <2> QED BY <2>1
<1>6. CASE model \in Stateful /\ model \notin Absorbers
  <2>1. row2 = row
    BY <1>6 DEF model
  <2>2. model \in DispersiveModels
    BY <1>6 DEF Stateful
  <2> HIDE DEF damped, dispersed
  <2>3. \A q, r : update(q, r) = dispersed(r)
    BY <1>1, <1>6, <2>2 DEF DispersiveModels, Absorbers
  <2>4. update(pml2, row2) = update(pml, row)
    BY <2>1, <2>3
  <2> QED BY <2>4 DEF update
<1> QED BY <1>2, <1>4, <1>5, <1>6

\* The memory the abstract half step gives to a cell is the row of its bucket.
LEMMA MemoryAt ==
  ASSUME WellFormed(This), Built(sim, This), NEW d \in sim.stateful, NEW k \in RowsOf(d)
  PROVE  /\ <<d[1], TargetOf(d, k)>> \in DOMAIN sim.cells
         /\ Memory[<<d[1], TargetOf(d, k)>>] = LogicalRow(mem, d, k)
<1> DEFINE x == <<d[1], TargetOf(d, k)>>
           y == sim.cells[x]
<1>1. x \in DOMAIN sim.cells /\ y = <<d, k>>
  BY CellFound
<1> HIDE DEF x
<1>2. Memory[x] = LogicalRow(mem, y[1], y[2])
  BY <1>1 DEF Memory
<1> HIDE DEF y
<1>3. y[1] = d /\ y[2] = k
  BY <1>1
<1> QED BY <1>1, <1>2, <1>3 DEF x

\* A cell of the abstract half step is updated as the row of its bucket.
LEMMA UpdatedIs ==
  ASSUME IInv, NEW G, Arrays(This, G), NEW d \in Buckets(sim.plan), NEW k \in RowsOf(d),
         NEW v, v = Unflat(ShapeOf(d[1]), TargetOf(d, k))
  PROVE  Cellwise!Updated(G, d[1], v) = Fresh(G, mem, d, k)
<1> DEFINE b == BucketOf(sim.plan, d)
           c == d[1]
           i == TargetOf(d, k)
           e == G[c][v]
           curl == IndexedCurl(G, c, i)
           t == Pair(G, c, i)
           row == LogicalRow(mem, d, k)
           base == TargetRow(b, k)[1]
           coef == TargetRow(b, k)[2]
           cell == Cellwise!CellMap[scene][c][i]
           memo == Memory[<<c, i>>]
<1>1. WellFormed(This) /\ Built(sim, This)
  BY BuiltSimulation
<1>2. /\ c \in Component /\ v \in CellsOf(This, c) /\ Flat(ShapeOf(c), v) = i
      /\ InBounds(ShapeOf(c), c, v) /\ FieldAt(G, c, i) = e
  <2>1. c \in Component
    BY <1>1, BucketCells
  <2> QED BY <1>1, <2>1, RowCell
<1>3. cell.sig = b.signature /\ cell.base = base /\ cell.coef = coef
      /\ (b.signature[1] \in Absorbers => cell.pml = b.cells[k])
  BY CellIsRow
<1>4. Fresh(G, mem, d, k) = CellUpdate(b.signature, base, coef, b.cells[k], c, row, e, t, curl)
  <2>1. Fresh(G, mem, d, k)
          = CellUpdate(b.signature, base, coef, b.cells[k], c, row, FieldAt(G, c, i), t, curl)
    BY Zenon DEF Fresh, CellUpdate
  <2> QED BY <1>2, <2>1
<1>5. /\ Cellwise!Grid(Cellwise!Phases(This))!Curl(G, c, v) = curl
      /\ Cellwise!Differences(G, c, v) = t
  BY <1>1, <1>2, SameCurls
<1>6. Cellwise!Updated(G, c, v) = CellUpdate(cell.sig, cell.base, cell.coef, cell.pml, c, memo, e, t, curl)
  <2> DEFINE ci == Cellwise!Flat(Cellwise!ShapeOf(c), v)
             cc == Cellwise!CellMap[scene][c][ci]
             cm == Memory[<<c, ci>>]
             ct == Cellwise!Differences(G, c, v)
             cu == Cellwise!Grid(Cellwise!Phases(Cellwise!This))!Curl(G, c, v)
  <2>1. ci = i
    <3>1. Cellwise!ShapeOf(c) = ShapeOf(c)
      BY SameGrid DEF Cellwise!ShapeOf, ShapeOf
    <3> QED BY <1>2, <3>1, SameGrid
  <2>2. cu = curl
    BY <1>5, SameGrid
  <2>3. Cellwise!Updated(G, c, v) =
          CASE cc.sig[1] = "dielectric" -> [field |-> (e + cc.base * cu) % P]
            [] cc.sig[1] = "const" -> [field |-> cc.coef]
            [] cc.sig[1] \in {"dummy", "dm2"} -> [field |-> e]
            [] cc.sig[1] \in Cellwise!Absorbers ->
                 Cellwise!AbsorberUpdate(cc.sig, cc.pml, cm, e, ct, Cellwise!Direction(c))
            [] OTHER -> Cellwise!Recurrence(cc.sig, cc.coef, cm, e, cu)
    BY Zenon DEF Cellwise!Updated
  <2> HIDE DEF cc, cm, ct, cu, ci, e
  <2>4. Cellwise!Updated(G, c, v) =
          CASE cc.sig[1] = "dielectric" -> [field |-> (e + cc.base * cu) % P]
            [] cc.sig[1] = "const" -> [field |-> cc.coef]
            [] cc.sig[1] \in {"dummy", "dm2"} -> [field |-> e]
            [] cc.sig[1] \in Absorbers ->
                 AbsorberUpdate(cc.sig, cc.pml, cm, e, ct, Direction(c))
            [] OTHER -> Recurrence(cc.sig, cc.coef, cm, e, cu)
    <3>1. /\ Cellwise!Absorbers = Absorbers /\ Cellwise!Direction(c) = Direction(c)
          /\ Cellwise!Recurrence(cc.sig, cc.coef, cm, e, cu) = Recurrence(cc.sig, cc.coef, cm, e, cu)
          /\ Cellwise!AbsorberUpdate(cc.sig, cc.pml, cm, e, ct, Cellwise!Direction(c))
               = AbsorberUpdate(cc.sig, cc.pml, cm, e, ct, Cellwise!Direction(c))
      BY SameMaterials, SameStencils, SameRecurrences
    <3> QED BY <2>3, <3>1, Zenon
  <2>5. Cellwise!Updated(G, c, v) = CellUpdate(cc.sig, cc.base, cc.coef, cc.pml, c, cm, e, ct, cu)
    BY <2>4, Zenon DEF CellUpdate
  <2>6. cc = cell /\ cm = memo
    BY <2>1 DEF cc, cm
  <2>7. ct = t
    BY <1>5 DEF ct
  <2> HIDE DEF cell, memo, t, curl
  <2> QED BY <2>2, <2>5, <2>6, <2>7
<1>7. b.signature[1] \in Range(Models)
  <2>1. Furnished(b, This, sim.options, c)
    BY <1>1, BucketCells
  <2> QED BY <2>1 DEF Furnished
<1>8. b.signature[1] \in Stateful => memo = row
  <2>1. ASSUME b.signature[1] \in Stateful PROVE memo = row
    <3>1. d \in sim.stateful
      <4>1. sim.stateful = {x \in Buckets(sim.plan) : ModelOf(sim.plan, x) \in Stateful}
        BY <1>1, BuiltFields
      <4> QED BY <2>1, <4>1 DEF ModelOf
    <3> QED BY <1>1, <3>1, MemoryAt
  <2> QED BY <2>1
<1> DEFINE pml == cell.pml
           own == b.cells[k]
           sig == b.signature
<1>9. Cellwise!Updated(G, c, v) = CellUpdate(sig, base, coef, pml, c, memo, e, t, curl)
  <2> HIDE DEF cell, memo, e, t, curl, base, coef
  <2> QED BY <1>3, <1>6
<1>10. (sig[1] \in Absorbers => pml = own) /\ (sig[1] \in Stateful => memo = row)
  BY <1>3, <1>8
<1> HIDE DEF sig, pml, own, memo, row, base, coef, e, t, curl
<1>11. CellUpdate(sig, base, coef, pml, c, memo, e, t, curl)
         = CellUpdate(sig, base, coef, own, c, row, e, t, curl)
  <2>1. sig[1] \in Range(Models)
    BY <1>7 DEF sig
  <2> QED BY <1>10, <2>1, CellReads
<1> QED BY <1>4, <1>9, <1>11 DEF sig, own

-----------------------------------------------------------------------------
\* The cells the abstract half step updates are those of the solver.
LEMMA CellMapDomain ==
  ASSUME IInv, NEW c \in Component
  PROVE  DOMAIN Cellwise!CellMap[scene][c] = ActiveTargets(Serial(This.n), c)
<1>1. scene \in DOMAIN Scenes
  BY DEF IInv
<1> DEFINE T(s, e) == Cellwise!ActiveTargets(Cellwise!Serial(Scenes[s].n), e)
<1>2. Cellwise!CellMap = [s \in DOMAIN Scenes |-> [e \in Cellwise!Component |->
                            [i \in T(s, e) |-> Cellwise!Cell(Scenes[s], e, i)]]]
  BY Zenon DEF Cellwise!CellMap
<1>3. T(scene, c) = ActiveTargets(Serial(This.n), c)
  BY SameGrid DEF This
<1> HIDE DEF T
<1>4. c \in Cellwise!Component
  BY SameGrid
<1>5. Cellwise!CellMap[scene][c] = [i \in T(scene, c) |-> Cellwise!Cell(Scenes[scene], c, i)]
  BY <1>1, <1>2, <1>4
<1> QED BY <1>3, <1>5

\* The fields a completed half step leaves are those of the abstract one.
LEMMA StageFields ==
  ASSUME IInv, NEW family, NEW G, Arrays(This, G), Arrays(This, F), NEW H, Arrays(This, H),
         H = [c \in Component |-> H[c]], FieldStage(H, G, mem, FamilyOf(family), family)
  PROVE  H = [c \in Cellwise!Component |->
                [v \in DOMAIN F[c] |->
                   IF c[1] = family /\ Cellwise!Flat(Cellwise!ShapeOf(c), v) \in DOMAIN Cellwise!CellMap[scene][c]
                   THEN Cellwise!Updated(G, c, v).field ELSE G[c][v]]]
<1> DEFINE value(c, v) ==
             IF c[1] = family /\ Cellwise!Flat(Cellwise!ShapeOf(c), v) \in DOMAIN Cellwise!CellMap[scene][c]
             THEN Cellwise!Updated(G, c, v).field ELSE G[c][v]
<1>1. WellFormed(This) /\ Built(sim, This)
  BY BuiltSimulation
<1>2. ASSUME NEW c \in Component, NEW v \in CellsOf(This, c)
      PROVE  H[c][v] = value(c, v)
  <2> DEFINE i == Flat(ShapeOf(c), v)
             up == Cellwise!Updated(G, c, v)
             here == Cellwise!Flat(Cellwise!ShapeOf(c), v) \in DOMAIN Cellwise!CellMap[scene][c]
  <2>1. here <=> i \in ActiveTargets(Serial(This.n), c)
    <3>1. Cellwise!ShapeOf(c) = ShapeOf(c)
      BY SameGrid DEF Cellwise!ShapeOf, ShapeOf
    <3>2. Cellwise!Flat(Cellwise!ShapeOf(c), v) = i
      BY <3>1, SameGrid
    <3> QED BY <3>2, CellMapDomain
  <2>2. Unflat(ShapeOf(c), i) = v /\ (InBounds(ShapeOf(c), c, v) <=> i \in ActiveTargets(Serial(This.n), c))
    BY <1>1, CellTarget DEF ShapeOf
  <2> HIDE DEF here, i, up
  <2>3. value(c, v) = IF c[1] = family /\ here THEN up.field ELSE G[c][v]
    BY Zenon DEF here, up
  <2> HIDE DEF value
  <2>4. CASE c[1] # family
    BY <2>3, <2>4 DEF FieldStage
  <2>5. CASE c[1] = family /\ ~here
    <3>1. ~InBounds(ShapeOf(c), c, v)
      BY <2>1, <2>2, <2>5
    <3>2. H[c][v] = G[c][v]
      BY <2>5, <3>1 DEF FieldStage
    <3> QED BY <2>3, <2>5, <3>2
  <2>6. CASE c[1] = family /\ here
    <3>1. i \in ActiveTargets(Serial(This.n), c)
      BY <2>1, <2>6
    <3>2. PICK d \in Buckets(sim.plan) : \E k \in RowsOf(d) : d[1] = c /\ TargetOf(d, k) = i
      BY <1>1, <3>1, BucketCells
    <3>3. PICK k \in RowsOf(d) : d[1] = c /\ TargetOf(d, k) = i
      BY <3>2
    <3>4. up = Fresh(G, mem, d, k)
      BY <2>2, <3>3, UpdatedIs DEF up
    <3>5. d \in FamilyOf(family)
      BY <2>6, <3>3 DEF FamilyOf
    <3>6. FieldAt(H, d[1], TargetOf(d, k)) = Fresh(G, mem, d, k).field
      BY <3>5 DEF FieldStage
    <3>7. FieldAt(H, d[1], TargetOf(d, k)) = H[c][v]
      BY <2>2, <3>3 DEF FieldAt
    <3> QED BY <2>3, <2>6, <3>4, <3>6, <3>7
  <2> QED BY <2>4, <2>5, <2>6
<1> HIDE DEF value
<1>3. ASSUME NEW c \in Component
      PROVE  H[c] = [v \in DOMAIN F[c] |-> value(c, v)]
  <2>1. H[c] \in [CellsOf(This, c) -> Int] /\ DOMAIN F[c] = CellsOf(This, c)
    BY DEF Arrays
  <2> QED BY <1>2, <2>1
<1>4. H = [c \in Component |-> [v \in DOMAIN F[c] |-> value(c, v)]]
  BY <1>3
<1>5. H = [c \in Cellwise!Component |-> [v \in DOMAIN F[c] |-> value(c, v)]]
  BY <1>4, SameGrid
<1> QED BY <1>5 DEF value

\* The memory of each cell, from the buffers of a simulation.
MemoryOf(of, M) == [x \in DOMAIN of.cells |-> RowIn(of, M, of.cells[x][1], of.cells[x][2])]

\* The memory of a completed half step is that of the abstract one.
LEMMA StageMemory ==
  ASSUME IInv, NEW family, NEW G, Arrays(This, G), NEW N, RowStage(N, G, mem, FamilyOf(family))
  PROVE  MemoryOf(sim, N) =
           [x \in DOMAIN Memory |->
              IF x[1][1] = family
              THEN Cellwise!Updated(G, x[1], Cellwise!Unflat(Cellwise!ShapeOf(x[1]), x[2])).row ELSE Memory[x]]
<1> DEFINE value(x) ==
             IF x[1][1] = family
             THEN Cellwise!Updated(G, x[1], Cellwise!Unflat(Cellwise!ShapeOf(x[1]), x[2])).row ELSE Memory[x]
           row(x) == RowIn(sim, N, sim.cells[x][1], sim.cells[x][2])
<1>1. WellFormed(This) /\ Built(sim, This)
  BY BuiltSimulation
<1>2. DOMAIN Memory = DOMAIN sim.cells
  BY DEF Memory
<1>3. ASSUME NEW x \in DOMAIN sim.cells
      PROVE  row(x) = value(x)
  <2>1. PICK d \in sim.stateful : \E k \in RowsOf(d) : x = <<d[1], TargetOf(d, k)>>
    BY <1>1, <1>3, CellFound
  <2>2. PICK k \in RowsOf(d) : x = <<d[1], TargetOf(d, k)>>
    BY <2>1
  <2>3. sim.cells[x] = <<d, k>>
    BY <1>1, <2>2, CellFound
  <2>4. row(x) = LogicalRow(N, d, k)
    <3>1. RowIn(sim, N, d, k) = LogicalRow(N, d, k)
      BY Zenon DEF RowIn, LogicalRow
    <3>2. sim.cells[x][1] = d /\ sim.cells[x][2] = k
      BY <2>3
    <3> QED BY <3>1, <3>2
  <2>5. d \in Buckets(sim.plan)
    BY <1>1, BuiltKinds
  <2> DEFINE v == Unflat(ShapeOf(d[1]), TargetOf(d, k))
             up == Cellwise!Updated(G, d[1], v)
  <2>6. up = Fresh(G, mem, d, k)
    BY <2>5, UpdatedIs
  <2>7. value(x) = IF d[1][1] = family THEN up.row ELSE Memory[x]
    <3>1. Cellwise!ShapeOf(d[1]) = ShapeOf(d[1])
      BY SameGrid DEF Cellwise!ShapeOf, ShapeOf
    <3>2. Cellwise!Unflat(Cellwise!ShapeOf(d[1]), TargetOf(d, k)) = v
      BY <3>1, SameGrid
    <3>3. x[1] = d[1] /\ x[2] = TargetOf(d, k)
      BY <2>2
    <3> HIDE DEF v
    <3> QED BY <3>2, <3>3
  <2>8. Memory[x] = LogicalRow(mem, d, k)
    BY <1>1, <2>2, MemoryAt
  <2>9. d \in FamilyOf(family) <=> d[1][1] = family
    BY <2>5 DEF FamilyOf
  <2>10. LogicalRow(N, d, k) = IF d \in FamilyOf(family) THEN Fresh(G, mem, d, k).row ELSE LogicalRow(mem, d, k)
    BY Zenon DEF RowStage
  <2> HIDE DEF up, row, value
  <2> QED BY <2>4, <2>6, <2>7, <2>8, <2>9, <2>10
<1>4. MemoryOf(sim, N) = [x \in DOMAIN sim.cells |-> row(x)]
  BY Zenon DEF MemoryOf
<1> HIDE DEF row, value
<1>5. MemoryOf(sim, N) = [x \in DOMAIN Memory |-> value(x)]
  BY <1>2, <1>3, <1>4
<1> QED BY <1>5 DEF value

-----------------------------------------------------------------------------
\* Completed stages that become the next state are a half step of the abstract solver.
LEMMA HalfStepDone ==
  ASSUME IInv, Inhabited, NEW family, family \in {"E", "H"},
         NEW S, Stage(S, Wrapped(family).F, mem, FamilyOf(family), family),
         Arrays(This, Wrapped(family).F), S.F = [c \in Component |-> S.F[c]], Becomes(S)
  PROVE  Cellwise!HalfStep(family)
<1> DEFINE G == Wrapped(family).F
           H == S.F
           N == S.mem
<1>1. Arrays(This, G) /\ Arrays(This, F) /\ Arrays(This, H)
  BY DEF Inhabited, Stage, Held
<1>2. FieldStage(H, G, mem, FamilyOf(family), family) /\ RowStage(N, G, mem, FamilyOf(family))
  BY DEF Stage
<1>3. /\ half < 2 * Steps /\ half' = half + 1 /\ F' = H /\ mem' = N /\ scene' = scene /\ sim' = sim
  BY DEF Becomes
<1>4. Cellwise!Wrapped(family) = G
  <2>1. Cellwise!Wrapped(family)
          = Cellwise!Grid(Cellwise!Phases(Cellwise!This))!Sync(F, IF family = "E" THEN "H" ELSE "E",
                                                                Cellwise!Serial(Cellwise!This.n), 0)
    BY Zenon DEF Cellwise!Wrapped
  <2>2. /\ Cellwise!This = This /\ Cellwise!Phases(This) = Phases(This)
        /\ Cellwise!Serial(This.n) = Serial(This.n)
    BY SameGrid, SameStencils
  <2> DEFINE other == IF family = "E" THEN "H" ELSE "E"
             phases == Phases(This)
             g == Serial(This.n)
  <2>3. Cellwise!Wrapped(family) = Cellwise!Grid(phases)!Sync(F, other, g, 0)
    BY <2>1, <2>2, Zenon
  <2>4. G = Grid(phases)!Sync(F, other, g, 0)
    BY DEF Wrapped
  <2> HIDE DEF other, phases, g, G
  <2>5. Cellwise!Grid(phases)!Sync(F, other, g, 0) = Grid(phases)!Sync(F, other, g, 0)
    BY SameStencils
  <2> QED BY <2>3, <2>4, <2>5
<1> HIDE DEF G, H, N
<1>5. H = [c \in Cellwise!Component |->
             [v \in DOMAIN F[c] |->
                IF c[1] = family /\ Cellwise!Flat(Cellwise!ShapeOf(c), v) \in DOMAIN Cellwise!CellMap[scene][c]
                THEN Cellwise!Updated(G, c, v).field ELSE G[c][v]]]
  <2>1. H = [c \in Component |-> H[c]]
    BY DEF H
  <2> QED BY <1>1, <1>2, <2>1, StageFields
<1>6. Memory' = [x \in DOMAIN Memory |->
                   IF x[1][1] = family
                   THEN Cellwise!Updated(G, x[1], Cellwise!Unflat(Cellwise!ShapeOf(x[1]), x[2])).row
                   ELSE Memory[x]]
  <2>1. Memory' = MemoryOf(sim', mem')
    BY Zenon DEF Memory, MemoryOf, RowIn, LogicalRow
  <2>2. Memory' = MemoryOf(sim, N)
    BY <1>3, <2>1
  <2> QED BY <1>1, <1>2, <2>2, StageMemory
<1>7. \E W \in {Cellwise!Wrapped(family)} :
        /\ F' = [c \in Cellwise!Component |->
                   [v \in DOMAIN F[c] |->
                      IF c[1] = family /\ Cellwise!Flat(Cellwise!ShapeOf(c), v) \in DOMAIN Cellwise!CellMap[scene][c]
                      THEN Cellwise!Updated(W, c, v).field ELSE W[c][v]]]
        /\ Memory' = [x \in DOMAIN Memory |->
                        IF x[1][1] = family
                        THEN Cellwise!Updated(W, x[1], Cellwise!Unflat(Cellwise!ShapeOf(x[1]), x[2])).row
                        ELSE Memory[x]]
  BY <1>3, <1>4, <1>5, <1>6, Zenon
<1> QED BY <1>3, <1>7, Zenon DEF Cellwise!HalfStep

\* The constants of a family are written to arrays of all components.
LEMMA ConstantsWhole ==
  ASSUME NEW T, NEW family, Held(ApplyConstants(T, family))
  PROVE  ApplyConstants(T, family).F = [c \in Component |-> ApplyConstants(T, family).F[c]]
<1> DEFINE held(c) == sim.plan[c].constants
           applied(c) == Scatter(T.F, c, [k \in DOMAIN held(c) |-> held(c)[k][1]],
                                 [k \in DOMAIN held(c) |-> held(c)[k][2]])[c]
           g == [c \in Component |-> IF c[1] = family THEN applied(c) ELSE T.F[c]]
           S == ApplyConstants(T, family)
<1>1. S = [T EXCEPT !.F = g]
  BY Zenon DEF ApplyConstants
<1>2. g = [c \in Component |-> g[c]]
  OBVIOUS
<1>3. S = [F |-> S.F, mem |-> S.mem]
  BY DEF Held
<1> HIDE DEF g, S
<1>4. S.F = g
  <2>1. "F" \in DOMAIN S
    BY <1>3
  <2>2. "F" \in DOMAIN T
    BY <1>1, <2>1
  <2> QED BY <1>1, <2>2
<1> QED BY <1>2, <1>4 DEF S

\* Each half step of the plan is one of the abstract solver, and leaves residues.
LEMMA ElectricCellwise ==
  ASSUME IInv, Inhabited, Reduced(This, F), Electric
  PROVE  Cellwise!Electric /\ Reduced(This, F)'
<1> DEFINE W == Wrapped("E")
           A == DensePhase(W, "E")
           S == ApplyConstants(DispersivePhase(AbsorberPhase(A, "E")), "E")
<1>1. WellFormed(This) /\ Built(sim, This)
  BY BuiltSimulation
<1>2. Held(W) /\ Reduced(This, W.F) /\ Flush(W.F, "E") /\ W.mem = mem
  BY <1>1, WrappedReady DEF Inhabited
<1>3. Becomes(S) /\ half % 2 = 0
  BY Zenon DEF Electric
<1> DEFINE G == W.F
<1>4. Stage(S, G, mem, FamilyOf("E"), "E")
  <2> HIDE DEF W
  <2> QED BY <1>1, <1>2, ElectricStage
<1>5. Arrays(This, G)
  BY <1>2 DEF Held
<1>6. S.F = [c \in Component |-> S.F[c]]
  <2>1. Held(S)
    BY <1>4 DEF Stage
  <2> HIDE DEF A
  <2> QED BY <2>1, ConstantsWhole
<1>7. Cellwise!HalfStep("E")
  <2> HIDE DEF S
  <2> QED BY <1>3, <1>4, <1>5, <1>6, HalfStepDone
<1>8. Reduced(This, S.F)
  <2> HIDE DEF S, G
  <2>1. Buffered(sim, mem)
    BY DEF Inhabited
  <2>2. Reduced(This, G)
    BY <1>2 DEF G
  <2> QED BY <1>1, <1>4, <1>5, <2>1, <2>2, StageReduced
<1>9. Reduced(This, F)'
  <2> HIDE DEF S
  <2>1. F' = S.F /\ This' = This
    BY <1>3 DEF Becomes, This
  <2> QED BY <1>8, <2>1 DEF Reduced
<1> QED BY <1>3, <1>7, <1>9, Zenon DEF Cellwise!Electric

\* The magnetic half step of the simulation is one of the abstract solver.
LEMMA MagneticCellwise ==
  ASSUME IInv, Inhabited, Reduced(This, F), Magnetic
  PROVE  Cellwise!Magnetic /\ Reduced(This, F)'
<1> DEFINE W == Wrapped("H")
           A == DensePhase(W, "H")
           S == ApplyConstants(AbsorberPhase(A, "H"), "H")
<1>1. WellFormed(This) /\ Built(sim, This)
  BY BuiltSimulation
<1>2. Held(W) /\ Reduced(This, W.F) /\ Flush(W.F, "H") /\ W.mem = mem
  BY <1>1, WrappedReady DEF Inhabited
<1>3. Becomes(S) /\ half % 2 = 1
  BY Zenon DEF Magnetic
<1> DEFINE G == W.F
<1>4. Stage(S, G, mem, FamilyOf("H"), "H")
  <2> HIDE DEF W
  <2> QED BY <1>1, <1>2, MagneticStage
<1>5. Arrays(This, G)
  BY <1>2 DEF Held
<1>6. S.F = [c \in Component |-> S.F[c]]
  <2>1. Held(S)
    BY <1>4 DEF Stage
  <2> HIDE DEF A
  <2> QED BY <2>1, ConstantsWhole
<1>7. Cellwise!HalfStep("H")
  <2> HIDE DEF S
  <2> QED BY <1>3, <1>4, <1>5, <1>6, HalfStepDone
<1>8. Reduced(This, S.F)
  <2> HIDE DEF S, G
  <2>1. Buffered(sim, mem)
    BY DEF Inhabited
  <2>2. Reduced(This, G)
    BY <1>2 DEF G
  <2> QED BY <1>1, <1>4, <1>5, <2>1, <2>2, StageReduced
<1>9. Reduced(This, F)'
  <2> HIDE DEF S
  <2>1. F' = S.F /\ This' = This
    BY <1>3 DEF Becomes, This
  <2> QED BY <1>8, <2>1 DEF Reduced
<1> QED BY <1>3, <1>7, <1>9, Zenon DEF Cellwise!Magnetic

-----------------------------------------------------------------------------
\* Memory given to another simulation of the scene, or to the first one, is each cell's own.
LEMMA MemoryGiven ==
  ASSUME WellFormed(This), Built(sim, This), NEW to, Built(to, This), NEW logical, Contents(to, logical)
  PROVE  /\ DOMAIN to.cells = DOMAIN sim.cells
         /\ \A d \in sim.stateful : \A k \in RowsOf(d) :
              MemoryOf(to, Buffers(to, logical))[<<d[1], TargetOf(d, k)>>] = logical[d][k]
<1>1. ASSUME NEW x
      PROVE  x \in DOMAIN to.cells <=> x \in DOMAIN sim.cells
  <2>1. ASSUME x \in DOMAIN to.cells PROVE x \in DOMAIN sim.cells
    <3>1. PICK d \in sim.stateful : \E k \in RowsOf(d) : x = <<d[1], TargetOf(d, k)>>
      BY <2>1, CellFound
    <3> QED BY <3>1, CellFound
  <2>2. ASSUME x \in DOMAIN sim.cells PROVE x \in DOMAIN to.cells
    <3>1. PICK d \in sim.stateful : \E k \in RowsOf(d) : x = <<d[1], TargetOf(d, k)>>
      BY <2>2, CellFound
    <3> QED BY <3>1, CellFound
  <2> QED BY <2>1, <2>2
<1>2. DOMAIN to.cells = DOMAIN sim.cells
  BY <1>1
<1>3. ASSUME NEW d \in sim.stateful, NEW k \in RowsOf(d)
      PROVE  MemoryOf(to, Buffers(to, logical))[<<d[1], TargetOf(d, k)>>] = logical[d][k]
  <2> DEFINE x == <<d[1], TargetOf(d, k)>>
             M == Buffers(to, logical)
             y == to.cells[x]
  <2>1. x \in DOMAIN to.cells /\ y = <<d, k>>
    BY CellFound
  <2>2. d \in to.stateful /\ k \in DOMAIN BucketOf(to.plan, d).targets
    BY BuiltAlike DEF Alike, RowsOf
  <2>3. RowIn(to, M, d, k) = logical[d][k]
    BY <2>2, BuffersGive
  <2> HIDE DEF x, M
  <2>4. MemoryOf(to, M)[x] = RowIn(to, M, y[1], y[2])
    BY <2>1 DEF MemoryOf
  <2> HIDE DEF y
  <2>5. y[1] = d /\ y[2] = k
    BY <2>1
  <2>6. MemoryOf(to, M)[x] = logical[d][k]
    BY <2>3, <2>4, <2>5
  <2> QED BY <2>6 DEF x, M
<1> QED BY <1>2, <1>3

\* Loading the checkpoint of another configuration changes no cell's memory.
LEMMA CarryKeeps ==
  ASSUME IInv, Inhabited, NEW k \in DOMAIN Configs, Carry(k)
  PROVE  UNCHANGED <<scene, half, F, Memory>>
<1> DEFINE to == Simulations[scene][k]
           M == Buffers(to, Logical)
<1>1. WellFormed(This) /\ Built(sim, This)
  BY BuiltSimulation
<1>2. mem' = M /\ sim' = to /\ UNCHANGED <<scene, half, F>>
  BY DEF Carry
<1>3. Built(to, This)
  <2>1. k \in DOMAIN Simulations[scene]
    BY DEF IInv, Simulations
  <2> QED BY <2>1, BuiltSimulation DEF Range
<1>4. Memory' = MemoryOf(to, M)
  <2>1. Memory' = MemoryOf(sim', mem')
    BY Zenon DEF Memory, MemoryOf, RowIn, LogicalRow
  <2> QED BY <1>2, <2>1
<1> HIDE DEF to
<1>5. Contents(to, Logical)
  BY <1>1, <1>3, LogicalContents, ContentsCarried DEF Inhabited
<1>6. /\ DOMAIN to.cells = DOMAIN sim.cells
      /\ \A d \in sim.stateful : \A j \in RowsOf(d) : MemoryOf(to, M)[<<d[1], TargetOf(d, j)>>] = Logical[d][j]
  BY <1>1, <1>3, <1>5, MemoryGiven
<1> HIDE DEF M
<1>7. ASSUME NEW x \in DOMAIN sim.cells
      PROVE  MemoryOf(to, M)[x] = Memory[x]
  <2>1. PICK d \in sim.stateful : \E j \in RowsOf(d) : x = <<d[1], TargetOf(d, j)>>
    BY <1>1, CellFound
  <2>2. PICK j \in RowsOf(d) : x = <<d[1], TargetOf(d, j)>>
    BY <2>1
  <2>3. Memory[x] = LogicalRow(mem, d, j)
    BY <1>1, <2>2, MemoryAt
  <2>4. Logical[d][j] = LogicalRow(mem, d, j)
    BY DEF Logical, RowsOf
  <2>5. MemoryOf(to, M)[x] = Logical[d][j]
    BY <1>6, <2>2
  <2> QED BY <2>3, <2>4, <2>5
<1>8. MemoryOf(to, M) = [x \in DOMAIN sim.cells |-> MemoryOf(to, M)[x]]
  BY <1>6 DEF MemoryOf
<1>9. Memory = [x \in DOMAIN sim.cells |-> Memory[x]]
  BY DEF Memory
<1>10. MemoryOf(to, M) = Memory
  BY <1>7, <1>8, <1>9
<1> QED BY <1>2, <1>4, <1>10

\* The simulation starts as the abstract one does: no cell remembers anything.
LEMMA StartsCellwise ==
  ASSUME Init, IInv
  PROVE  Cellwise!Init
<1> DEFINE cells == Cellwise!CellMap[scene]
           zero(x) == Cellwise!ZeroRow(cells[x[1]][x[2]].sig)
           known == Cellwise!Remembered(scene)
<1>1. WellFormed(This) /\ Built(sim, This)
  BY BuiltSimulation
<1>2. scene \in DOMAIN Scenes /\ half = 0 /\ F = HostFields(This) /\ mem = Buffers(sim, Blank(sim))
  BY DEF Init
<1>3. \A d \in sim.stateful : \A k \in RowsOf(d) :
        MemoryOf(sim, Buffers(sim, Blank(sim)))[<<d[1], TargetOf(d, k)>>] = Blank(sim)[d][k]
  <2>1. Contents(sim, Blank(sim))
    BY <1>1, BlankContents
  <2> HIDE DEF cells
  <2> QED BY <1>1, <2>1, MemoryGiven
<1>4. Memory = MemoryOf(sim, mem)
  BY Zenon DEF Memory, MemoryOf, RowIn, LogicalRow
<1>5. ASSUME NEW d \in sim.stateful, NEW k \in RowsOf(d)
      PROVE  /\ d \in Buckets(sim.plan)
             /\ cells[d[1]][TargetOf(d, k)].sig = BucketOf(sim.plan, d).signature
             /\ zero(<<d[1], TargetOf(d, k)>>) = ZeroRow(BucketOf(sim.plan, d).signature)
             /\ Memory[<<d[1], TargetOf(d, k)>>] = zero(<<d[1], TargetOf(d, k)>>)
  <2>1. d \in Buckets(sim.plan)
    BY <1>1, BuiltKinds
  <2>2. cells[d[1]][TargetOf(d, k)].sig = BucketOf(sim.plan, d).signature
    BY <2>1, CellIsRow
  <2>3. Memory[<<d[1], TargetOf(d, k)>>] = Blank(sim)[d][k]
    BY <1>2, <1>3, <1>4
  <2>4. Blank(sim)[d][k] = ZeroRow(BucketOf(sim.plan, d).signature)
    BY DEF Blank, RowsOf
  <2>5. zero(<<d[1], TargetOf(d, k)>>) = ZeroRow(BucketOf(sim.plan, d).signature)
    BY <2>2, SameMaterials
  <2> HIDE DEF zero, cells
  <2> QED BY <2>1, <2>2, <2>3, <2>4, <2>5
<1> DEFINE every == UNION {{<<c, i>> : i \in DOMAIN cells[c]} : c \in Component}
<1>6. known = {x \in every : cells[x[1]][x[2]].sig[1] \in Stateful}
  BY SameGrid, SameMaterials DEF Cellwise!Remembered
<1> HIDE DEF known
<1>7. DOMAIN Memory \subseteq known
  <2> SUFFICES ASSUME NEW x \in DOMAIN sim.cells PROVE x \in known
    BY DEF Memory
  <2>1. PICK d \in sim.stateful : \E k \in RowsOf(d) : x = <<d[1], TargetOf(d, k)>>
    BY <1>1, CellFound
  <2>2. PICK k \in RowsOf(d) : x = <<d[1], TargetOf(d, k)>>
    BY <2>1
  <2>3. cells[d[1]][TargetOf(d, k)].sig[1] \in Stateful
    <3>1. BucketOf(sim.plan, d).signature[1] \in Stateful
      BY <1>1, BuiltKinds
    <3> QED BY <1>5, <3>1
  <2>4. d[1] \in Component /\ TargetOf(d, k) \in DOMAIN cells[d[1]]
    <3>1. d[1] \in Component /\ TargetOf(d, k) \in ActiveTargets(Serial(This.n), d[1])
      BY <1>1, <1>5, BucketCells
    <3> QED BY <3>1, CellMapDomain
  <2> HIDE DEF cells
  <2> QED BY <1>6, <2>2, <2>3, <2>4
<1>8. known \subseteq DOMAIN Memory
  <2> SUFFICES ASSUME NEW x \in known PROVE x \in DOMAIN sim.cells
    BY DEF Memory
  <2> HIDE DEF cells
  <2>1. PICK c \in Component : \E i \in DOMAIN cells[c] : x = <<c, i>>
    BY <1>6
  <2>2. PICK i \in DOMAIN cells[c] : x = <<c, i>>
    BY <2>1
  <2>3. cells[c][i].sig[1] \in Stateful
    BY <1>6, <2>2
  <2>4. i \in ActiveTargets(Serial(This.n), c)
    BY <2>2, CellMapDomain DEF cells
  <2>5. PICK d \in Buckets(sim.plan) : \E k \in RowsOf(d) : d[1] = c /\ TargetOf(d, k) = i
    BY <1>1, <2>4, BucketCells
  <2>6. PICK k \in RowsOf(d) : d[1] = c /\ TargetOf(d, k) = i
    BY <2>5
  <2>7. cells[c][i].sig = BucketOf(sim.plan, d).signature
    BY <2>6, CellIsRow DEF cells
  <2>8. d \in sim.stateful
    <3>1. sim.stateful = {z \in Buckets(sim.plan) : ModelOf(sim.plan, z) \in Stateful}
      BY <1>1, BuiltFields
    <3> QED BY <2>3, <2>7, <3>1 DEF ModelOf
  <2> QED BY <1>1, <2>2, <2>6, <2>8, CellFound
<1>9. Memory = [x \in known |-> zero(x)]
  <2>1. ASSUME NEW x \in DOMAIN sim.cells PROVE Memory[x] = zero(x)
    <3>1. PICK d \in sim.stateful : \E k \in RowsOf(d) : x = <<d[1], TargetOf(d, k)>>
      BY <1>1, CellFound
    <3> HIDE DEF zero
    <3> QED BY <1>5, <3>1
  <2>2. Memory = [x \in DOMAIN sim.cells |-> Memory[x]]
    BY DEF Memory
  <2>3. DOMAIN Memory = DOMAIN sim.cells
    BY DEF Memory
  <2> HIDE DEF zero
  <2> QED BY <1>7, <1>8, <2>1, <2>2, <2>3
<1>10. F = HostFields(Cellwise!This)
  BY <1>2, SameGrid
<1> QED BY <1>2, <1>9, <1>10, Zenon DEF Cellwise!Init, known

\* The values of fields stay residues.
LEMMA ReducedCarried ==
  ASSUME IInv, Inhabited, Reduced(This, F), [Next]_vars
  PROVE  Reduced(This, F)'
<1>1. CASE UNCHANGED <<scene, F>>
  BY <1>1 DEF Reduced, This
<1>2. CASE Electric
  BY <1>2, ElectricCellwise
<1>3. CASE Magnetic
  BY <1>3, MagneticCellwise
<1>4. ASSUME NEW k \in DOMAIN Configs, Carry(k) PROVE UNCHANGED <<scene, F>>
  BY <1>4 DEF Carry
<1>5. ASSUME NEW order \in Orders, Split(order) PROVE UNCHANGED <<scene, F>>
  BY <1>5 DEF Split
<1>6. Terminated \/ UNCHANGED vars => UNCHANGED <<scene, F>>
  BY DEF Terminated, vars
<1> QED BY <1>1, <1>2, <1>3, <1>4, <1>5, <1>6 DEF Next

\* Every step is a half step of the abstract solver or changes nothing of it.
LEMMA StepsCellwise ==
  ASSUME IInv, Inhabited, Reduced(This, F), [Next]_vars
  PROVE  [Cellwise!Next]_(Cellwise!vars)
<1>1. UNCHANGED <<scene, half, F, Memory>> => UNCHANGED Cellwise!vars
  BY DEF Cellwise!vars
<1>2. CASE Electric
  BY <1>2, ElectricCellwise DEF Cellwise!Next
<1>3. CASE Magnetic
  BY <1>3, MagneticCellwise DEF Cellwise!Next
<1>4. ASSUME NEW k \in DOMAIN Configs, Carry(k) PROVE UNCHANGED <<scene, half, F, Memory>>
  BY <1>4, CarryKeeps
<1>5. UNCHANGED <<sim, mem>> => Memory' = Memory
  BY DEF Memory, LogicalRow
<1>6. ASSUME NEW order \in Orders, Split(order) PROVE UNCHANGED <<scene, half, F, Memory>>
  BY <1>5, <1>6 DEF Split
<1>7. Terminated \/ UNCHANGED vars => UNCHANGED <<scene, half, F, Memory>>
  BY <1>5 DEF Terminated, vars
<1> QED BY <1>1, <1>2, <1>3, <1>4, <1>6, <1>7 DEF Next

\* The values of fields stay residues, in every run.
THEOREM FieldsReduced == Spec => []Reduced(This, F)
<1>1. Init => Reduced(This, F)
  <2> SUFFICES ASSUME Init PROVE Reduced(This, F)
    OBVIOUS
  <2>1. IInv
    BY DEF Init, IInv, SplitChosen
  <2> QED BY <2>1, BuiltSimulation DEF Init, WellFormed
<1>2. IInv /\ Inhabited /\ Reduced(This, F) /\ [Next]_vars => Reduced(This, F)'
  BY ReducedCarried
<1> QED BY <1>1, <1>2, Inductive, MemoryInhabited, PTL DEF Spec

\* Every configuration computes the half steps of CellwiseUpdate.
THEOREM ConfigurationsAgree == Spec => CellwiseSpec
<1>1. Init => Cellwise!Init
  <2>1. Init => IInv
    BY DEF Init, IInv, SplitChosen
  <2> QED BY <2>1, StartsCellwise
<1>2. IInv /\ Inhabited /\ Reduced(This, F) /\ [Next]_vars => [Cellwise!Next]_(Cellwise!vars)
  BY StepsCellwise
<1> QED BY <1>1, <1>2, Inductive, MemoryInhabited, FieldsReduced, PTL DEF Spec, CellwiseSpec, Cellwise!Spec
=============================================================================
