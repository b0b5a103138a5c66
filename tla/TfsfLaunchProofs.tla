------------------------------ MODULE TfsfLaunchProofs ------------------------------
(***************************************************************************)
(* Proofs about TfsfLaunch for every sheet, cut, box, amplitude, rate and  *)
(* sense of the beam: a transparent source radiates nothing outside its    *)
(* box and inside it the field is the wave of the auxiliary solver, if the *)
(* wave runs along z with x polarisation or along x.                       *)
(*                                                                         *)
(* The wave is read off the auxiliary line (PE, PH).  What the main grid   *)
(* must hold is that wave inside the box and zero outside, the magnetic    *)
(* field half a step late between the halves of a step (Held).  The proof  *)
(* that a step preserves it has four parts:                                *)
(*   - the line obeys the discrete wave equation past its source (LineStep)*)
(*   - the copies at the boundary planes are invisible (Seen)              *)
(*   - the plan adds to a cell exactly the jump of the wave at the box,    *)
(*     whoever owns the cell (PlanIs, FaceSum, JumpIs)                     *)
(*   - curl and jump together march the wave (FrontStep, BackStep,         *)
(*     EdgeStep).                                                          *)
(***************************************************************************)
EXTENDS TfsfLaunch, TLAPS

\* Cells along each axis, points, residues and the extent of a field array.
Sizes == [Axes -> Nat \ {0}]
Vectors == [Axes -> Int]
Values == 0..(P - 1)
Limit(n, c, a) == IF a = c[2] THEN n[a] ELSE n[a] + 1

\* A solver without poles.
Solver(S) == DOMAIN S = {"F", "Q", "points"} /\ DOMAIN S.Q = {}

\* The fields of a grid.
Typed(F, n) == \A c \in Component : F[c] \in [Main!Cells(n, c) -> Values]

\* The cell a boundary plane copies.
Mirror(n, c, v) ==
  [a \in Axes |-> IF a = c[2] THEN v[a]
                  ELSE IF c[1] = "E" THEN IF v[a] = n[a] THEN 0 ELSE v[a]
                                     ELSE IF v[a] = 0 THEN n[a] ELSE v[a]]

\* A cell some steps along an axis.
Move(v, a, k) == [v EXCEPT ![a] = @ + k]

\* Main!Curl at the synchronised cells, for any rates.
Swirl(F, n, r, c, v) ==
  LET a == c[2]
      b == AxisB(a)
      d == AxisC(a)
      at(f, i, u) == F[<<f, i>>][Mirror(n, <<f, i>>, u)]
      w == Move(v, a, 1)
      z == Move(Move(v, b, -1), d, -1)
  IN  IF c[1] = "E"
      THEN r[b] * (at("H", d, Move(w, b, 1)) - at("H", d, w))
             - r[d] * (at("H", b, Move(w, d, 1)) - at("H", b, w))
      ELSE r[d] * (at("E", b, Move(v, b, -1)) - at("E", b, z))
             - r[b] * (at("E", d, Move(v, d, -1)) - at("E", d, z))

\* The rates of the auxiliary simulation.
AuxRate(s) == [a \in Axes |-> Rate[s.k[1]]]

\* The modulus leaves room for a zero and a one.
LEMMA PType == P \in Nat \ {0, 1}
BY LaunchAssumption

\* The three axes, and the two that follow each of them.
LEMMA AxisFacts ==
  /\ Axes = {1, 2, 3}
  /\ \A a \in Axes : /\ AxisB(a) \in Axes /\ AxisC(a) \in Axes /\ AxisB(a) # a /\ AxisC(a) # a
                     /\ AxisB(a) # AxisC(a)
                     /\ \A b \in Axes : b \in {a, AxisB(a), AxisC(a)}
<1>1. Axes = {1, 2, 3}
  BY DEF Axes
<1>2. /\ AxisB(1) = 2 /\ AxisB(2) = 3 /\ AxisB(3) = 1
      /\ AxisC(1) = 3 /\ AxisC(2) = 1 /\ AxisC(3) = 2
  BY DEF AxisB, AxisC
<1> QED BY <1>1, <1>2

\* A component is a family and an axis.
LEMMA ComponentFacts ==
  \A c \in Component : /\ c[1] \in {"E", "H"} /\ c[2] \in Axes /\ c = <<c[1], c[2]>>
BY DEF Component

\* Vectors with the same coordinates are one.
LEMMA VectorEqual ==
  ASSUME NEW u \in Vectors, NEW v \in Vectors, \A a \in Axes : u[a] = v[a]
  PROVE  u = v
BY DEF Vectors

\* The names of the instances for the grid are those of the grid.
LEMMA Names ==
  /\ Main!Axes = Axes /\ Main!Component = Component
  /\ \A a : Main!AxisB(a) = AxisB(a) /\ Main!AxisC(a) = AxisC(a)
  /\ \A n : Main!Serial(n) = Serial(n)
  /\ \A n, c : Main!Shape(n, c) = Shape(n, c)
  /\ \A s : /\ Nested(s)!Axes = Axes /\ Nested(s)!Component = Component
            /\ \A a : Nested(s)!AxisB(a) = AxisB(a) /\ Nested(s)!AxisC(a) = AxisC(a)
            /\ \A n : Nested(s)!Serial(n) = Serial(n)
            /\ \A n, c : Nested(s)!Shape(n, c) = Shape(n, c)
BY DEF Main!Axes, Axes, Main!Component, Component, Main!AxisB, Main!AxisC, AxisB, AxisC,
       Main!Serial, Serial, Main!Zero, Zero, Main!Shape, Shape, Nested!Axes, Nested!Component,
       Nested!AxisB, Nested!AxisC, Nested!Serial, Nested!Zero, Nested!Shape

\* The auxiliary simulation and the main one run the same code on a grid.
LEMMA NestedSame ==
  \A s : /\ \A n, c : Nested(s)!Cells(n, c) = Main!Cells(n, c)
         /\ \A v, a, i : Nested(s)!At(v, a, i) = Main!At(v, a, i)
         /\ \A v, a, i : Nested(s)!Shift(v, a, i) = Main!Shift(v, a, i)
         /\ \A b, c, v : Nested(s)!Active(b, c, v) = Main!Active(b, c, v)
         /\ \A f, a : Nested(s)!WrapPhase(f, a) = Main!WrapPhase(f, a)
         /\ \A h : Nested(s)!Family(h) = Main!Family(h)
         /\ \A f : Nested(s)!Other(f) = Main!Other(f)
BY Names DEF Nested!Cells, Main!Cells, Nested!At, Main!At, Nested!Shift, Main!Shift, Nested!Active, Main!Active,
     Nested!Family, Main!Family, Nested!Other, Main!Other, Nested!WrapPhase, Main!WrapPhase, Nested!Conjugate, Main!Conjugate

\* They synchronise the boundary planes alike.
LEMMA NestedSync ==
  \A s, F, f, b, skip : Nested(s)!Sync(F, f, b, skip) = Main!Sync(F, f, b, skip)
<1>1. \A s, f, b, c, a, skip : Nested(s)!SyncAxis(f, b, c, a, skip) = Main!SyncAxis(f, b, c, a, skip)
  BY NestedSame DEF Nested!SyncAxis, Main!SyncAxis
<1> QED BY <1>1, Names DEF Nested!Sync, Main!Sync, Nested!SyncComponent, Main!SyncComponent

\* The cells of an array.
LEMMA CellFacts ==
  ASSUME NEW n \in Sizes, NEW c \in Component
  PROVE  \A v : v \in Main!Cells(n, c) <=> /\ v \in Vectors
                                           /\ \A a \in Axes : 0 <= v[a] /\ v[a] < Limit(n, c, a)
<1> DEFINE s == [a \in Axes |-> Limit(n, c, a)]
<1>0. s \in Sizes
  BY ComponentFacts DEF Limit, Sizes
<1>1. Main!Cells(n, c) = (0..(s[1] - 1)) \X (0..(s[2] - 1)) \X (0..(s[3] - 1))
  <2>1. Shape(Serial(n), c) = s
    BY DEF Shape, Serial, Limit
  <2> QED BY <2>1, Names DEF Main!Cells
<1> HIDE DEF s
<1>2. ASSUME NEW v, v \in (0..(s[1] - 1)) \X (0..(s[2] - 1)) \X (0..(s[3] - 1))
      PROVE  v \in Vectors /\ \A a \in Axes : 0 <= v[a] /\ v[a] < s[a]
  BY <1>0, <1>2 DEF Vectors, Axes, Sizes
<1>3. ASSUME NEW v, v \in Vectors, \A a \in Axes : 0 <= v[a] /\ v[a] < s[a]
      PROVE  v \in (0..(s[1] - 1)) \X (0..(s[2] - 1)) \X (0..(s[3] - 1))
  BY <1>0, <1>3 DEF Vectors, Axes, Sizes
<1> QED BY <1>1, <1>2, <1>3 DEF s

\* A residue is its own.
LEMMA ModOnce == \A x \in Values : (1 * x) % P = x
BY PType DEF Values

\* Without a Bloch phase the copies keep their sign and size.
LEMMA PhaseOne ==
  \A f : \A a \in Axes : Main!WrapPhase(f, a) = 1
<1>1. \A a \in Axes : <<1, 1, 1>>[a] = 1
  BY AxisFacts
<1>2. \A u \in 1..(P - 1) : (u * 1) % P = 1 <=> u = 1
  BY PType
<1>3. 1 \in 1..(P - 1)
  BY PType
<1>4. Main!Conjugate(1) = 1
  BY <1>2, <1>3 DEF Main!Conjugate
<1> QED BY <1>1, <1>4 DEF Main!WrapPhase

\* A copy of one axis.
Copied(n, c, a, v) ==
  IF a = c[2] THEN v
  ELSE IF c[1] = "E" THEN IF v[a] = n[a] THEN [v EXCEPT ![a] = 0] ELSE v
                     ELSE IF v[a] = 0 THEN [v EXCEPT ![a] = n[a]] ELSE v

\* A copy of one axis stays in the array and moves along that axis only.
LEMMA CopiedFacts ==
  ASSUME NEW n \in Sizes, NEW c \in Component, NEW a \in Axes, NEW v \in Main!Cells(n, c)
  PROVE  /\ Copied(n, c, a, v) \in Main!Cells(n, c)
         /\ \A d \in Axes \ {a} : Copied(n, c, a, v)[d] = v[d]
         /\ Copied(n, c, a, v)[a] = Mirror(n, c, v)[a]
<1>1. v \in Vectors /\ \A d \in Axes : 0 <= v[d] /\ v[d] < Limit(n, c, d)
  BY CellFacts
<1>2. \A d \in Axes : n[d] \in Int /\ n[d] > 0
  BY DEF Sizes
<1>3. Copied(n, c, a, v) \in Vectors
  BY <1>1, <1>2 DEF Copied, Vectors
<1>4. \A d \in Axes \ {a} : Copied(n, c, a, v)[d] = v[d]
  BY <1>1 DEF Copied, Vectors
<1>5. Copied(n, c, a, v)[a] = Mirror(n, c, v)[a]
  BY <1>1 DEF Copied, Vectors, Mirror
<1>6. 0 <= Mirror(n, c, v)[a] /\ Mirror(n, c, v)[a] < Limit(n, c, a)
  BY <1>1, <1>2 DEF Mirror, Limit, Vectors
<1>7. \A d \in Axes : 0 <= Copied(n, c, a, v)[d] /\ Copied(n, c, a, v)[d] < Limit(n, c, d)
  BY <1>1, <1>4, <1>5, <1>6
<1> QED BY <1>3, <1>4, <1>5, <1>7, CellFacts

\* Synchronising an axis reads the cell that the axis copies.
LEMMA SyncAxisFacts ==
  ASSUME NEW n \in Sizes, NEW c \in Component, NEW f \in [Main!Cells(n, c) -> Values],
         NEW a \in Axes
  PROVE  /\ Main!SyncAxis(f, Serial(n), c, a, 0) \in [Main!Cells(n, c) -> Values]
         /\ \A v \in Main!Cells(n, c) :
              Main!SyncAxis(f, Serial(n), c, a, 0)[v] = f[Copied(n, c, a, v)]
<1>0. a # 0 /\ Serial(n).n = n
  BY DEF Axes, Serial
<1>1. CASE a = c[2]
  BY <1>1 DEF Main!SyncAxis, Copied
<1>2. CASE a # c[2]
  <2> DEFINE to == IF c[1] = "E" THEN n[a] ELSE 0
             from == IF c[1] = "E" THEN 0 ELSE n[a]
  <2>1. Main!SyncAxis(f, Serial(n), c, a, 0) =
          [v \in Main!Cells(n, c) |-> IF v[a] = to THEN (1 * f[[v EXCEPT ![a] = from]]) % P ELSE f[v]]
    BY <1>0, <1>2, PhaseOne DEF Main!SyncAxis, Main!At
  <2>2. ASSUME NEW v \in Main!Cells(n, c)
        PROVE  Copied(n, c, a, v) = IF v[a] = to THEN [v EXCEPT ![a] = from] ELSE v
    BY <1>2 DEF Copied
  <2>3. ASSUME NEW v \in Main!Cells(n, c)
        PROVE  (IF v[a] = to THEN (1 * f[[v EXCEPT ![a] = from]]) % P ELSE f[v]) = f[Copied(n, c, a, v)]
    <3>1. Copied(n, c, a, v) \in Main!Cells(n, c)
      BY CopiedFacts
    <3>2. f[Copied(n, c, a, v)] \in Values
      BY <3>1
    <3> QED BY <2>2, <3>2, ModOnce
  <2>4. \A v \in Main!Cells(n, c) : f[Copied(n, c, a, v)] \in Values
    BY CopiedFacts
  <2> QED BY <2>1, <2>3, <2>4
<1> QED BY <1>1, <1>2

\* Reading a synchronised cell is reading the cell it copies.
LEMMA SyncComponentFacts ==
  ASSUME NEW n \in Sizes, NEW c \in Component, NEW f \in [Main!Cells(n, c) -> Values]
  PROVE  /\ Main!SyncComponent(f, Serial(n), c, 0) \in [Main!Cells(n, c) -> Values]
         /\ \A v \in Main!Cells(n, c) :
              /\ Mirror(n, c, v) \in Main!Cells(n, c)
              /\ Main!SyncComponent(f, Serial(n), c, 0)[v] = f[Mirror(n, c, v)]
<1> DEFINE f1 == Main!SyncAxis(f, Serial(n), c, 1, 0)
           f2 == Main!SyncAxis(f1, Serial(n), c, 2, 0)
           f3 == Main!SyncAxis(f2, Serial(n), c, 3, 0)
           C == Main!Cells(n, c)
<1>0. 1 \in Axes /\ 2 \in Axes /\ 3 \in Axes /\ Axes = {1, 2, 3}
  BY AxisFacts
<1>1. f1 \in [C -> Values] /\ \A v \in C : f1[v] = f[Copied(n, c, 1, v)]
  BY <1>0, SyncAxisFacts
<1> HIDE DEF f1
<1>2. f2 \in [C -> Values] /\ \A v \in C : f2[v] = f1[Copied(n, c, 2, v)]
  BY <1>0, <1>1, SyncAxisFacts
<1> HIDE DEF f2
<1>3. f3 \in [C -> Values] /\ \A v \in C : f3[v] = f2[Copied(n, c, 3, v)]
  BY <1>0, <1>2, SyncAxisFacts
<1> HIDE DEF f3
<1>4. ASSUME NEW v \in C
      PROVE  Mirror(n, c, v) \in C /\ f3[v] = f[Mirror(n, c, v)]
  <2> DEFINE v3 == Copied(n, c, 3, v)
             v2 == Copied(n, c, 2, v3)
             v1 == Copied(n, c, 1, v2)
  <2>1. v3 \in C /\ v3[1] = v[1] /\ v3[2] = v[2] /\ v3[3] = Mirror(n, c, v)[3]
    BY <1>0, CopiedFacts
  <2>2. v2 \in C /\ v2[1] = v3[1] /\ v2[3] = v3[3] /\ v2[2] = Mirror(n, c, v3)[2]
    BY <1>0, <2>1, CopiedFacts
  <2>3. v1 \in C /\ v1[2] = v2[2] /\ v1[3] = v2[3] /\ v1[1] = Mirror(n, c, v2)[1]
    BY <1>0, <2>2, CopiedFacts
  <2> HIDE DEF v1, v2, v3
  <2>4. f3[v] = f[v1]
    BY <1>1, <1>2, <1>3, <2>1, <2>2, <2>3 DEF v1, v2, v3
  <2>5. v1 \in Vectors /\ Mirror(n, c, v) \in Vectors
    BY <2>3, CellFacts DEF Mirror, Vectors, Sizes
  <2>6. Mirror(n, c, v3)[2] = Mirror(n, c, v)[2] /\ Mirror(n, c, v2)[1] = Mirror(n, c, v)[1]
    BY <1>0, <2>1, <2>2 DEF Mirror
  <2>7. \A a \in Axes : v1[a] = Mirror(n, c, v)[a]
    BY <1>0, <2>1, <2>2, <2>3, <2>6
  <2>8. v1 = Mirror(n, c, v)
    BY <2>5, <2>7, VectorEqual
  <2> QED BY <2>3, <2>4, <2>8
<1> QED BY <1>3, <1>4 DEF Main!SyncComponent, f1, f2, f3

\* The values of a half step: what the family and the points of a solver make of it.
Half(S, n, r, h, c, v) ==
  IF c[1] # Main!Family(h) THEN S.F[c][Mirror(n, c, v)]
  ELSE IF <<c, v>> \in DOMAIN S.points
       THEN LET p == S.points[<<c, v>>]
            IN  IF p.current
                THEN (((IF Main!Active(Serial(n), c, v)
                        THEN (S.F[c][v] + Swirl(S.F, n, r, c, v)) % P ELSE S.F[c][v])
                       - 1 * p.amp * (h + 1)) % P)
                ELSE (p.amp * (h + 1)) % P
       ELSE IF Main!Active(Serial(n), c, v)
            THEN (S.F[c][v] + Swirl(S.F, n, r, c, v)) % P ELSE S.F[c][v]

\* The coordinates of the cells a curl reads.
LEMMA Moves ==
  ASSUME NEW v \in Vectors, NEW a \in Axes, NEW b \in Axes, NEW d \in Axes,
         a # b, a # d, b # d
  PROVE  LET w == Move(v, a, 1)
             z == Move(Move(v, b, -1), d, -1)
         IN  /\ w \in Vectors /\ w[a] = v[a] + 1 /\ w[b] = v[b] /\ w[d] = v[d]
             /\ Move(w, b, 1) \in Vectors /\ Move(w, b, 1)[a] = v[a] + 1
             /\ Move(w, b, 1)[b] = v[b] + 1 /\ Move(w, b, 1)[d] = v[d]
             /\ Move(w, d, 1) \in Vectors /\ Move(w, d, 1)[a] = v[a] + 1
             /\ Move(w, d, 1)[d] = v[d] + 1 /\ Move(w, d, 1)[b] = v[b]
             /\ Move(v, b, -1) \in Vectors /\ Move(v, b, -1)[a] = v[a]
             /\ Move(v, b, -1)[b] = v[b] - 1 /\ Move(v, b, -1)[d] = v[d]
             /\ Move(v, d, -1) \in Vectors /\ Move(v, d, -1)[a] = v[a]
             /\ Move(v, d, -1)[d] = v[d] - 1 /\ Move(v, d, -1)[b] = v[b]
             /\ z \in Vectors /\ z[a] = v[a] /\ z[b] = v[b] - 1 /\ z[d] = v[d] - 1
BY DEF Move, Vectors

\* The cells a curl reads lie in the arrays.
LEMMA Stencil ==
  ASSUME NEW n \in Sizes, NEW f \in {"E", "H"}, NEW a \in Axes, NEW v \in Main!Cells(n, <<f, a>>),
         Main!Active(Serial(n), <<f, a>>, v), NEW b \in Axes, NEW d \in Axes,
         a # b, a # d, b # d
  PROVE  LET w == Move(v, a, 1)
             z == Move(Move(v, b, -1), d, -1)
         IN  IF f = "E"
             THEN /\ Move(w, b, 1) \in Main!Cells(n, <<"H", d>>) /\ w \in Main!Cells(n, <<"H", d>>)
                  /\ Move(w, d, 1) \in Main!Cells(n, <<"H", b>>) /\ w \in Main!Cells(n, <<"H", b>>)
             ELSE /\ Move(v, b, -1) \in Main!Cells(n, <<"E", b>>) /\ z \in Main!Cells(n, <<"E", b>>)
                  /\ Move(v, d, -1) \in Main!Cells(n, <<"E", d>>) /\ z \in Main!Cells(n, <<"E", d>>)
<1>0. <<f, a>> \in Component
  BY DEF Component
<1>1. v \in Vectors /\ \A x \in Axes : 0 <= v[x] /\ v[x] < Limit(n, <<f, a>>, x)
  BY <1>0, CellFacts
<1>2. \A x \in Axes : n[x] \in Int /\ n[x] > 0
  BY DEF Sizes
<1>3. \A x \in Axes : x = a \/ x = b \/ x = d
  BY AxisFacts
<1>4. /\ <<"H", d>> \in Component /\ <<"H", b>> \in Component
      /\ <<"E", d>> \in Component /\ <<"E", b>> \in Component
  BY DEF Component
<1>5. IF f = "E" THEN v[b] < n[b] /\ v[d] < n[d] ELSE v[b] >= 1 /\ v[d] >= 1
  BY Names DEF Main!Active, Serial
<1>6. /\ v[a] \in Int /\ v[b] \in Int /\ v[d] \in Int
      /\ 0 <= v[a] /\ v[a] < n[a] /\ 0 <= v[b] /\ v[b] <= n[b] /\ 0 <= v[d] /\ v[d] <= n[d]
  <2>1. /\ v[a] \in Int /\ v[b] \in Int /\ v[d] \in Int
    BY <1>1 DEF Vectors
  <2>2. /\ Limit(n, <<f, a>>, a) = n[a] /\ Limit(n, <<f, a>>, b) = n[b] + 1
        /\ Limit(n, <<f, a>>, d) = n[d] + 1
    BY DEF Limit
  <2> QED BY <1>1, <1>2, <2>1, <2>2
<1> DEFINE w == Move(v, a, 1)
           z == Move(Move(v, b, -1), d, -1)
<1>7. /\ w \in Vectors /\ w[a] = v[a] + 1 /\ w[b] = v[b] /\ w[d] = v[d]
      /\ Move(w, b, 1) \in Vectors /\ Move(w, b, 1)[a] = v[a] + 1
      /\ Move(w, b, 1)[b] = v[b] + 1 /\ Move(w, b, 1)[d] = v[d]
      /\ Move(w, d, 1) \in Vectors /\ Move(w, d, 1)[a] = v[a] + 1
      /\ Move(w, d, 1)[d] = v[d] + 1 /\ Move(w, d, 1)[b] = v[b]
      /\ Move(v, b, -1) \in Vectors /\ Move(v, b, -1)[a] = v[a]
      /\ Move(v, b, -1)[b] = v[b] - 1 /\ Move(v, b, -1)[d] = v[d]
      /\ Move(v, d, -1) \in Vectors /\ Move(v, d, -1)[a] = v[a]
      /\ Move(v, d, -1)[d] = v[d] - 1 /\ Move(v, d, -1)[b] = v[b]
      /\ z \in Vectors /\ z[a] = v[a] /\ z[b] = v[b] - 1 /\ z[d] = v[d] - 1
  BY <1>1, Moves
<1>8. ASSUME NEW u \in Vectors, NEW c, c \in {<<"E", b>>, <<"E", d>>, <<"H", b>>, <<"H", d>>},
             0 <= u[a] /\ 0 <= u[b] /\ 0 <= u[d], u[a] <= n[a],
             IF c[2] = b THEN u[b] < n[b] /\ u[d] <= n[d] ELSE u[d] < n[d] /\ u[b] <= n[b]
      PROVE  u \in Main!Cells(n, c)
  <2>1. c \in Component
    BY <1>4, <1>8
  <2>2. Limit(n, c, a) = n[a] + 1
    BY <1>8 DEF Limit
  <2>3. Limit(n, c, b) = IF c[2] = b THEN n[b] ELSE n[b] + 1
    BY <1>8 DEF Limit
  <2>4. Limit(n, c, d) = IF c[2] = b THEN n[d] + 1 ELSE n[d]
    BY <1>8 DEF Limit
  <2>5. u[a] \in Int /\ u[b] \in Int /\ u[d] \in Int
    BY DEF Vectors
  <2>6. 0 <= u[a] /\ u[a] < Limit(n, c, a)
    BY <1>2, <1>8, <2>2, <2>5
  <2>7. 0 <= u[b] /\ u[b] < Limit(n, c, b)
    BY <1>2, <1>8, <2>3, <2>5
  <2>8. 0 <= u[d] /\ u[d] < Limit(n, c, d)
    BY <1>2, <1>8, <2>4, <2>5
  <2>9. \A x \in Axes : 0 <= u[x] /\ u[x] < Limit(n, c, x)
    BY <1>3, <2>6, <2>7, <2>8
  <2> QED BY <2>1, <2>9, CellFacts
<1> HIDE DEF w, z
<1>9. /\ <<"E", b>>[2] = b /\ <<"H", b>>[2] = b /\ <<"E", d>>[2] # b /\ <<"H", d>>[2] # b
      /\ \A x \in Axes : n[x] \in Int
  BY <1>2
<1>10. ASSUME f = "E"
       PROVE  /\ Move(w, b, 1) \in Main!Cells(n, <<"H", d>>) /\ w \in Main!Cells(n, <<"H", d>>)
              /\ Move(w, d, 1) \in Main!Cells(n, <<"H", b>>) /\ w \in Main!Cells(n, <<"H", b>>)
  <2>1. v[b] < n[b] /\ v[d] < n[d]
    BY <1>5, <1>10
  <2>2. w \in Main!Cells(n, <<"H", d>>) /\ w \in Main!Cells(n, <<"H", b>>)
    BY <1>6, <1>7, <1>8, <1>9, <2>1
  <2>3. Move(w, b, 1) \in Main!Cells(n, <<"H", d>>)
    BY <1>6, <1>7, <1>8, <1>9, <2>1
  <2>4. Move(w, d, 1) \in Main!Cells(n, <<"H", b>>)
    BY <1>6, <1>7, <1>8, <1>9, <2>1
  <2> QED BY <2>2, <2>3, <2>4
<1>11. ASSUME f # "E"
       PROVE  /\ Move(v, b, -1) \in Main!Cells(n, <<"E", b>>) /\ z \in Main!Cells(n, <<"E", b>>)
              /\ Move(v, d, -1) \in Main!Cells(n, <<"E", d>>) /\ z \in Main!Cells(n, <<"E", d>>)
  <2>1. v[b] >= 1 /\ v[d] >= 1
    BY <1>5, <1>11
  <2>2. z \in Main!Cells(n, <<"E", d>>) /\ z \in Main!Cells(n, <<"E", b>>)
    BY <1>6, <1>7, <1>8, <1>9, <2>1
  <2>3. Move(v, b, -1) \in Main!Cells(n, <<"E", b>>)
    BY <1>6, <1>7, <1>8, <1>9, <2>1
  <2>4. Move(v, d, -1) \in Main!Cells(n, <<"E", d>>)
    BY <1>6, <1>7, <1>8, <1>9, <2>1
  <2> QED BY <2>2, <2>3, <2>4
<1> QED BY <1>10, <1>11 DEF w, z

\* The curl of synchronised fields.
LEMMA CurlSynced ==
  ASSUME NEW n \in Sizes, NEW F, Typed(F, n), NEW c \in Component, NEW v \in Main!Cells(n, c),
         Main!Active(Serial(n), c, v)
  PROVE  LET W == Main!Sync(F, Main!Other(c[1]), Serial(n), 0)
         IN  /\ Main!Curl(W, c, v) = Swirl(F, n, Rate, c, v)
             /\ \A s : Nested(s)!Curl(W, c, v) = Swirl(F, n, AuxRate(s), c, v)
<1> DEFINE W == Main!Sync(F, Main!Other(c[1]), Serial(n), 0)
           a == c[2]
           b == AxisB(a)
           d == AxisC(a)
           w == Move(v, a, 1)
           z == Move(Move(v, b, -1), d, -1)
<1>1. /\ a \in Axes /\ b \in Axes /\ d \in Axes /\ a # b /\ a # d /\ b # d /\ c[1] \in {"E", "H"}
  BY AxisFacts, ComponentFacts
<1>2. /\ <<"H", d>> \in Component /\ <<"H", b>> \in Component
      /\ <<"E", d>> \in Component /\ <<"E", b>> \in Component
  BY <1>1 DEF Component
<1>3. ASSUME NEW f \in {"E", "H"}, f # c[1], NEW i \in {b, d}, NEW u \in Main!Cells(n, <<f, i>>)
      PROVE  W[<<f, i>>][u] = F[<<f, i>>][Mirror(n, <<f, i>>, u)]
  <2>1. <<f, i>> \in Component /\ f = Main!Other(c[1])
    BY <1>1, <1>2, <1>3 DEF Main!Other
  <2>2. W[<<f, i>>] = Main!SyncComponent(F[<<f, i>>], Serial(n), <<f, i>>, 0)
    BY <2>1, Names DEF Main!Sync
  <2>3. F[<<f, i>>] \in [Main!Cells(n, <<f, i>>) -> Values]
    BY <2>1 DEF Typed
  <2> QED BY <2>1, <2>2, <2>3, SyncComponentFacts
<1> HIDE DEF W
<1>6. c = <<c[1], c[2]>>
  BY ComponentFacts
<1>4. CASE c[1] = "E"
  <2>1. /\ Move(w, b, 1) \in Main!Cells(n, <<"H", d>>) /\ w \in Main!Cells(n, <<"H", d>>)
        /\ Move(w, d, 1) \in Main!Cells(n, <<"H", b>>) /\ w \in Main!Cells(n, <<"H", b>>)
    BY <1>1, <1>4, <1>6, Stencil
  <2>2. /\ W[<<"H", d>>][Move(w, b, 1)] = F[<<"H", d>>][Mirror(n, <<"H", d>>, Move(w, b, 1))]
        /\ W[<<"H", d>>][w] = F[<<"H", d>>][Mirror(n, <<"H", d>>, w)]
        /\ W[<<"H", b>>][Move(w, d, 1)] = F[<<"H", b>>][Mirror(n, <<"H", b>>, Move(w, d, 1))]
        /\ W[<<"H", b>>][w] = F[<<"H", b>>][Mirror(n, <<"H", b>>, w)]
    BY <1>3, <1>4, <2>1
  <2>3. Main!Curl(W, c, v) =
          Rate[b] * (W[<<"H", d>>][Move(w, b, 1)] - W[<<"H", d>>][w])
            - Rate[d] * (W[<<"H", b>>][Move(w, d, 1)] - W[<<"H", b>>][w])
    BY <1>4, Names DEF Main!Curl, Main!ElectricCurl, Main!Shift, Move
  <2>4. ASSUME NEW s
        PROVE  Nested(s)!Curl(W, c, v) =
                 Rate[s.k[1]] * (W[<<"H", d>>][Move(w, b, 1)] - W[<<"H", d>>][w])
                   - Rate[s.k[1]] * (W[<<"H", b>>][Move(w, d, 1)] - W[<<"H", b>>][w])
    <3>1. \A x \in Axes : <<Rate[s.k[1]], Rate[s.k[1]], Rate[s.k[1]]>>[x] = Rate[s.k[1]]
      BY AxisFacts
    <3> QED BY <1>1, <1>4, <3>1, Names DEF Nested!Curl, Nested!ElectricCurl, Nested!Shift, Move
  <2> QED BY <1>1, <1>4, <2>2, <2>3, <2>4 DEF Swirl, W, AuxRate
<1>5. CASE c[1] # "E"
  <2>1. /\ Move(v, b, -1) \in Main!Cells(n, <<"E", b>>) /\ z \in Main!Cells(n, <<"E", b>>)
        /\ Move(v, d, -1) \in Main!Cells(n, <<"E", d>>) /\ z \in Main!Cells(n, <<"E", d>>)
    BY <1>1, <1>5, <1>6, Stencil
  <2>2. /\ W[<<"E", b>>][Move(v, b, -1)] = F[<<"E", b>>][Mirror(n, <<"E", b>>, Move(v, b, -1))]
        /\ W[<<"E", b>>][z] = F[<<"E", b>>][Mirror(n, <<"E", b>>, z)]
        /\ W[<<"E", d>>][Move(v, d, -1)] = F[<<"E", d>>][Mirror(n, <<"E", d>>, Move(v, d, -1))]
        /\ W[<<"E", d>>][z] = F[<<"E", d>>][Mirror(n, <<"E", d>>, z)]
    BY <1>3, <1>5, <2>1
  <2>3. Main!Curl(W, c, v) =
          Rate[d] * (W[<<"E", b>>][Move(v, b, -1)] - W[<<"E", b>>][z])
            - Rate[b] * (W[<<"E", d>>][Move(v, d, -1)] - W[<<"E", d>>][z])
    BY <1>5, Names DEF Main!Curl, Main!MagneticCurl, Main!Shift, Move
  <2>4. ASSUME NEW s
        PROVE  Nested(s)!Curl(W, c, v) =
                 Rate[s.k[1]] * (W[<<"E", b>>][Move(v, b, -1)] - W[<<"E", b>>][z])
                   - Rate[s.k[1]] * (W[<<"E", d>>][Move(v, d, -1)] - W[<<"E", d>>][z])
    <3>1. \A x \in Axes : <<Rate[s.k[1]], Rate[s.k[1]], Rate[s.k[1]]>>[x] = Rate[s.k[1]]
      BY AxisFacts
    <3> QED BY <1>1, <1>5, <3>1, Names DEF Nested!Curl, Nested!MagneticCurl, Nested!Shift, Move
  <2> QED BY <1>1, <1>5, <2>2, <2>3, <2>4 DEF Swirl, W, AuxRate
<1> QED BY <1>4, <1>5

\* The rates are integers.
LEMMA RateType == \A a \in Axes : Rate[a] \in Int
BY LaunchAssumption

\* A curl of residues is an integer.
LEMMA SwirlType ==
  ASSUME NEW n \in Sizes, NEW F, Typed(F, n), NEW r \in [Axes -> Int], NEW c \in Component,
         NEW v \in Main!Cells(n, c), Main!Active(Serial(n), c, v)
  PROVE  Swirl(F, n, r, c, v) \in Int
<1> DEFINE a == c[2]
           b == AxisB(a)
           d == AxisC(a)
           w == Move(v, a, 1)
           z == Move(Move(v, b, -1), d, -1)
<1>1. /\ a \in Axes /\ b \in Axes /\ d \in Axes /\ a # b /\ a # d /\ b # d /\ c[1] \in {"E", "H"}
      /\ c = <<c[1], a>>
  BY AxisFacts, ComponentFacts
<1>2. /\ <<"H", d>> \in Component /\ <<"H", b>> \in Component
      /\ <<"E", d>> \in Component /\ <<"E", b>> \in Component
  BY <1>1 DEF Component
<1>3. ASSUME NEW e \in Component, NEW u \in Main!Cells(n, e)
      PROVE  F[e][Mirror(n, e, u)] \in Int
  <2>1. F[e] \in [Main!Cells(n, e) -> Values] /\ Mirror(n, e, u) \in Main!Cells(n, e)
    <3>1. F[e] \in [Main!Cells(n, e) -> Values]
      BY DEF Typed
    <3> QED BY <3>1, SyncComponentFacts
  <2> QED BY <2>1, PType DEF Values
<1>4. CASE c[1] = "E"
  <2>1. /\ Move(w, b, 1) \in Main!Cells(n, <<"H", d>>) /\ w \in Main!Cells(n, <<"H", d>>)
        /\ Move(w, d, 1) \in Main!Cells(n, <<"H", b>>) /\ w \in Main!Cells(n, <<"H", b>>)
    BY <1>1, <1>4, Stencil
  <2>2. /\ F[<<"H", d>>][Mirror(n, <<"H", d>>, Move(w, b, 1))] \in Int
        /\ F[<<"H", d>>][Mirror(n, <<"H", d>>, w)] \in Int
        /\ F[<<"H", b>>][Mirror(n, <<"H", b>>, Move(w, d, 1))] \in Int
        /\ F[<<"H", b>>][Mirror(n, <<"H", b>>, w)] \in Int
    BY <1>2, <1>3, <2>1
  <2> QED BY <1>1, <1>4, <2>2 DEF Swirl
<1>5. CASE c[1] # "E"
  <2>1. /\ Move(v, b, -1) \in Main!Cells(n, <<"E", b>>) /\ z \in Main!Cells(n, <<"E", b>>)
        /\ Move(v, d, -1) \in Main!Cells(n, <<"E", d>>) /\ z \in Main!Cells(n, <<"E", d>>)
    BY <1>1, <1>5, Stencil
  <2>2. /\ F[<<"E", b>>][Mirror(n, <<"E", b>>, Move(v, b, -1))] \in Int
        /\ F[<<"E", b>>][Mirror(n, <<"E", b>>, z)] \in Int
        /\ F[<<"E", d>>][Mirror(n, <<"E", d>>, Move(v, d, -1))] \in Int
        /\ F[<<"E", d>>][Mirror(n, <<"E", d>>, z)] \in Int
    BY <1>2, <1>3, <2>1
  <2> QED BY <1>1, <1>5, <2>2 DEF Swirl
<1> QED BY <1>4, <1>5

\* A half step updates one family and reads the other.
LEMMA FamilyFacts ==
  ASSUME NEW h \in Nat
  PROVE  /\ Main!Family(h) \in {"E", "H"} /\ Main!Other(Main!Family(h)) # Main!Family(h)
         /\ Main!Other(Main!Family(h)) \in {"E", "H"}
BY DEF Main!Family, Main!Other

\* Replacing the fields of a solver leaves the rest of it.
LEMMA FieldsIs ==
  ASSUME NEW S, Solver(S), NEW X
  PROVE  /\ Solver(Main!Fields(S, X)) /\ Main!Fields(S, X).F = X
         /\ Main!Fields(S, X).Q = S.Q /\ Main!Fields(S, X).points = S.points
BY DEF Main!Fields, Solver

\* The fields of one family copied cell by cell.
Rewritten(F, fam, n) ==
  [c \in Component |-> IF c[1] # fam THEN F[c] ELSE [v \in Main!Cells(n, c) |-> F[c][v]]]

\* Without poles the material update copies the fields.
LEMMA MaterialsIs ==
  ASSUME NEW S, Solver(S), NEW fam, NEW b
  PROVE  /\ Solver(Main!Materials(S, fam, b))
         /\ Main!Materials(S, fam, b).F = Rewritten(S.F, fam, b.n)
         /\ Main!Materials(S, fam, b).points = S.points
<1> DEFINE G == [c \in Main!Component |->
            IF c[1] # fam THEN S.F[c]
            ELSE [v \in Main!Cells(b.n, c) |->
                    IF <<c, v>> \in DOMAIN S.Q
                    THEN Main!PoleField(S.Q[<<c, v>>], S.F[c][v], Main!Curl(S.F, c, v))
                    ELSE IF Main!Active(b, c, v) /\ <<c, Main!Global(b, v)>> \in {}
                    THEN 0
                    ELSE S.F[c][v]]]
           R == IF fam = "H" THEN S.Q
         ELSE [d \in DOMAIN S.Q |->
                 <<S.Q[d][2], Main!PoleNext(S.Q[d], S.F[d[1]][d[2]])>>]
           M == Main!Materials(S, fam, b)
<1>1. M = [S EXCEPT !.F = G, !.Q = R]
  BY DEF Main!Materials
<1>2. DOMAIN S.Q = {} /\ DOMAIN S = {"F", "Q", "points"}
  BY DEF Solver
<1>3. G = Rewritten(S.F, fam, b.n)
  BY <1>2, Names DEF Rewritten
<1>4. DOMAIN R = {}
  BY <1>2
<1> HIDE DEF G, R, M
<1>5. M = [x \in DOMAIN S |-> IF x = "F" THEN G ELSE IF x = "Q" THEN R ELSE S[x]]
  BY <1>1, <1>2
<1>6. DOMAIN M = DOMAIN S /\ M.F = G /\ M.Q = R /\ M.points = S.points
  BY <1>2, <1>5
<1> QED BY <1>2, <1>3, <1>4, <1>6 DEF Solver, M

\* A half step of the simulation.
LEMMA MainHalfStep ==
  ASSUME NEW n \in Sizes, NEW S, Solver(S), Typed(S.F, n), NEW h \in Nat
  PROVE  LET T == Main!HalfStep(S, h, Serial(n))
         IN  /\ Solver(T) /\ T.points = S.points
             /\ T.F = [c \in Component |-> [v \in Main!Cells(n, c) |-> Half(S, n, Rate, h, c, v)]]
<1> DEFINE b == Serial(n)
           fam == Main!Family(h)
           W == Main!Sync(S.F, Main!Other(fam), b, 0)
           D == Main!Dense(W, fam, b)
           M == Main!Materials(Main!Fields(Main!Fields(S, W), D), fam, b)
           E == Main!Excite(M.F, S.points, fam, b, h)
           T == Main!HalfStep(S, h, b)
<1>0. b.n = n
  BY DEF Serial
<1> DEFINE S1 == Main!Fields(S, W)
           S2 == Main!Fields(S1, D)
<1>1. Solver(S1) /\ S1.F = W /\ S1.points = S.points
  BY FieldsIs
<1>2. Solver(S2) /\ S2.F = D /\ S2.points = S.points
  <2> HIDE DEF S1
  <2> QED BY <1>1, FieldsIs
<1>3. M = Main!Materials(S2, fam, b)
  OBVIOUS
<1>4. Solver(M) /\ M.F = Rewritten(D, fam, n) /\ M.points = S.points
  <2> HIDE DEF S2, M, fam, b
  <2> QED BY <1>0, <1>2, <1>3, MaterialsIs
<1>5. M.F = [c \in Component |-> IF c[1] # fam THEN D[c] ELSE [v \in Main!Cells(n, c) |-> D[c][v]]]
  BY <1>4 DEF Rewritten
<1>6. T = Main!Fields(M, E)
  <2>1. Main!Synced(S, h, b, 0) = S1
    BY DEF Main!Synced
  <2>2. Main!Densed(S1, h, b) = S2
    BY <1>1 DEF Main!Densed
  <2>3. Main!Completed(S2, h, b) = Main!Fields(M, E)
    BY <1>2, <1>3 DEF Main!Completed
  <2> HIDE DEF S1, S2
  <2> QED BY <2>1, <2>2, <2>3 DEF Main!HalfStep
<1> HIDE DEF S1, S2, W, D
<1>7. Solver(T) /\ T.points = S.points /\ T.F = E
  <2> HIDE DEF E, M, T
  <2> QED BY <1>4, <1>6, FieldsIs
<1>8. fam \in {"E", "H"} /\ Main!Other(fam) # fam /\ Main!Other(fam) \in {"E", "H"}
  BY FamilyFacts
<1>9. ASSUME NEW c \in Component, c[1] # fam
      PROVE  E[c] = [v \in Main!Cells(n, c) |-> Half(S, n, Rate, h, c, v)]
  <2>1. E[c] = D[c]
    BY <1>5, <1>9, Names DEF Main!Excite
  <2>2. D[c] = W[c]
    BY <1>9, Names DEF D, Main!Dense
  <2>3. W[c] = Main!SyncComponent(S.F[c], b, c, 0)
    BY <1>8, <1>9, ComponentFacts, Names DEF W, Main!Sync
  <2>4. S.F[c] \in [Main!Cells(n, c) -> Values]
    BY DEF Typed
  <2>5. W[c] \in [Main!Cells(n, c) -> Values] /\ \A v \in Main!Cells(n, c) : W[c][v] = S.F[c][Mirror(n, c, v)]
    BY <2>3, <2>4, SyncComponentFacts
  <2> QED BY <1>9, <2>1, <2>2, <2>5 DEF Half
<1>10. ASSUME NEW c \in Component, c[1] = fam
       PROVE  E[c] = [v \in Main!Cells(n, c) |-> Half(S, n, Rate, h, c, v)]
  <2>1. W[c] = S.F[c]
    BY <1>8, <1>10, Names DEF W, Main!Sync
  <2>2. S.F[c] \in [Main!Cells(n, c) -> Values]
    BY DEF Typed
  <2>3. ASSUME NEW v \in Main!Cells(n, c)
        PROVE  D[c][v] = IF Main!Active(b, c, v) THEN (S.F[c][v] + Swirl(S.F, n, Rate, c, v)) % P
                                                 ELSE S.F[c][v]
    <3>1. D[c][v] = IF Main!Active(b, c, v)
                    THEN (W[c][v] + Main!DenseInverse(c, Main!Global(b, v)) * Main!Curl(W, c, v)) % P
                    ELSE W[c][v]
      BY <1>0, <1>10, Names DEF D, Main!Dense
    <3>2. Main!DenseInverse(c, Main!Global(b, v)) = 1
      BY DEF Main!DenseInverse, One
    <3>3. ASSUME Main!Active(b, c, v)
          PROVE  Main!Curl(W, c, v) = Swirl(S.F, n, Rate, c, v) /\ Swirl(S.F, n, Rate, c, v) \in Int
      <4>1. Main!Curl(W, c, v) = Swirl(S.F, n, Rate, c, v)
        BY <1>10, <3>3, CurlSynced DEF W
      <4>2. \A a \in Axes : Rate[a] \in Int
        BY RateType
      <4>3. Swirl(S.F, n, [a \in Axes |-> Rate[a]], c, v) \in Int
        BY <3>3, <4>2, SwirlType
      <4>4. Swirl(S.F, n, [a \in Axes |-> Rate[a]], c, v) = Swirl(S.F, n, Rate, c, v)
        BY AxisFacts, ComponentFacts DEF Swirl
      <4> QED BY <4>1, <4>3, <4>4
    <3>4. ASSUME Main!Active(b, c, v)
          PROVE  1 * Main!Curl(W, c, v) = Swirl(S.F, n, Rate, c, v)
      BY <3>3, <3>4
    <3> QED BY <2>1, <3>1, <3>2, <3>4
  <2>4. M.F[c] = [v \in Main!Cells(n, c) |-> D[c][v]]
    BY <1>5, <1>10
  <2>5. E[c] = [v \in Main!Cells(n, c) |->
             IF <<c, v>> \notin DOMAIN S.points THEN M.F[c][v]
             ELSE LET s == S.points[<<c, v>>]
                  IN  (IF s.current
                       THEN M.F[c][v] - 1 * s.amp * (h + 1)
                       ELSE s.amp * (h + 1)) % P]
    BY <1>0, <1>10, Names DEF Main!Excite, One
  <2> HIDE DEF E, M
  <2>6. ASSUME NEW v \in Main!Cells(n, c)
        PROVE  E[c][v] = Half(S, n, Rate, h, c, v)
    <3> DEFINE x == IF Main!Active(b, c, v) THEN (S.F[c][v] + Swirl(S.F, n, Rate, c, v)) % P
                                            ELSE S.F[c][v]
    <3>1. M.F[c][v] = x
      BY <2>3, <2>4
    <3>2. E[c][v] = IF <<c, v>> \notin DOMAIN S.points THEN x
             ELSE LET s == S.points[<<c, v>>]
                  IN  (IF s.current THEN x - 1 * s.amp * (h + 1) ELSE s.amp * (h + 1)) % P
      BY <2>5, <3>1
    <3>3. Half(S, n, Rate, h, c, v) =
            IF <<c, v>> \in DOMAIN S.points
            THEN LET p == S.points[<<c, v>>]
                 IN  IF p.current THEN (x - 1 * p.amp * (h + 1)) % P ELSE (p.amp * (h + 1)) % P
            ELSE x
      BY <1>10 DEF Half
    <3> HIDE DEF x
    <3> QED BY <3>2, <3>3
  <2> QED BY <2>5, <2>6
<1>11. E = [c \in Component |-> E[c]]
  BY Names DEF Main!Excite
<1> HIDE DEF E, T
<1>12. E = [c \in Component |-> [v \in Main!Cells(n, c) |-> Half(S, n, Rate, h, c, v)]]
  BY <1>9, <1>10, <1>11
<1> QED BY <1>7, <1>12 DEF T

\* The same for the auxiliary simulation.
LEMMA NestedFieldsIs ==
  ASSUME NEW q, NEW S, Solver(S), NEW X
  PROVE  /\ Solver(Nested(q)!Fields(S, X)) /\ Nested(q)!Fields(S, X).F = X
         /\ Nested(q)!Fields(S, X).Q = S.Q /\ Nested(q)!Fields(S, X).points = S.points
BY DEF Nested!Fields, Solver

\* Nor does the material update of the auxiliary simulation.
LEMMA NestedMaterialsIs ==
  ASSUME NEW q, NEW S, Solver(S), NEW fam, NEW b
  PROVE  /\ Solver(Nested(q)!Materials(S, fam, b))
         /\ Nested(q)!Materials(S, fam, b).F = Rewritten(S.F, fam, b.n)
         /\ Nested(q)!Materials(S, fam, b).points = S.points
<1> DEFINE G == [c \in Nested(q)!Component |->
            IF c[1] # fam THEN S.F[c]
            ELSE [v \in Nested(q)!Cells(b.n, c) |->
                    IF <<c, v>> \in DOMAIN S.Q
                    THEN Nested(q)!PoleField(S.Q[<<c, v>>], S.F[c][v], Nested(q)!Curl(S.F, c, v))
                    ELSE IF Nested(q)!Active(b, c, v) /\ <<c, Nested(q)!Global(b, v)>> \in {}
                    THEN 0
                    ELSE S.F[c][v]]]
           R == IF fam = "H" THEN S.Q
         ELSE [d \in DOMAIN S.Q |->
                 <<S.Q[d][2], Nested(q)!PoleNext(S.Q[d], S.F[d[1]][d[2]])>>]
           M == Nested(q)!Materials(S, fam, b)
<1>1. M = [S EXCEPT !.F = G, !.Q = R]
  BY DEF Nested!Materials
<1>2. DOMAIN S.Q = {} /\ DOMAIN S = {"F", "Q", "points"}
  BY DEF Solver
<1>3. G = Rewritten(S.F, fam, b.n)
  BY <1>2, Names, NestedSame DEF Rewritten
<1>4. DOMAIN R = {}
  BY <1>2
<1> HIDE DEF G, R, M
<1>5. M = [x \in DOMAIN S |-> IF x = "F" THEN G ELSE IF x = "Q" THEN R ELSE S[x]]
  BY <1>1, <1>2
<1>6. DOMAIN M = DOMAIN S /\ M.F = G /\ M.Q = R /\ M.points = S.points
  BY <1>2, <1>5
<1> QED BY <1>2, <1>3, <1>4, <1>6 DEF Solver, M

\* A half step of the auxiliary simulation.
LEMMA NestedHalfStep ==
  ASSUME NEW q, q.k[1] \in Axes, NEW n \in Sizes, NEW S, Solver(S), Typed(S.F, n), NEW h \in Nat
  PROVE  LET T == Nested(q)!HalfStep(S, h, Serial(n))
         IN  /\ Solver(T) /\ T.points = S.points
             /\ T.F = [c \in Component |-> [v \in Main!Cells(n, c) |-> Half(S, n, AuxRate(q), h, c, v)]]
<1> DEFINE b == Serial(n)
           fam == Main!Family(h)
           W == Main!Sync(S.F, Main!Other(fam), b, 0)
           D == Nested(q)!Dense(W, fam, b)
           M == Nested(q)!Materials(Nested(q)!Fields(Nested(q)!Fields(S, W), D), fam, b)
           E == Nested(q)!Excite(M.F, S.points, fam, b, h)
           T == Nested(q)!HalfStep(S, h, b)
<1>0. b.n = n
  BY DEF Serial
<1> DEFINE S1 == Nested(q)!Fields(S, W)
           S2 == Nested(q)!Fields(S1, D)
<1>1. Solver(S1) /\ S1.F = W /\ S1.points = S.points
  BY NestedFieldsIs
<1>2. Solver(S2) /\ S2.F = D /\ S2.points = S.points
  <2> HIDE DEF S1
  <2> QED BY <1>1, NestedFieldsIs
<1>3. M = Nested(q)!Materials(S2, fam, b)
  OBVIOUS
<1>4. Solver(M) /\ M.F = Rewritten(D, fam, n) /\ M.points = S.points
  <2> HIDE DEF S2, M, fam, b
  <2> QED BY <1>0, <1>2, <1>3, NestedMaterialsIs
<1>5. M.F = [c \in Component |-> IF c[1] # fam THEN D[c] ELSE [v \in Main!Cells(n, c) |-> D[c][v]]]
  BY <1>4 DEF Rewritten
<1>6. T = Nested(q)!Fields(M, E)
  <2>1. Nested(q)!Synced(S, h, b, 0) = S1
    BY NestedSame, NestedSync DEF Nested!Synced
  <2>2. Nested(q)!Densed(S1, h, b) = S2
    BY <1>1, NestedSame DEF Nested!Densed
  <2>3. Nested(q)!Completed(S2, h, b) = Nested(q)!Fields(M, E)
    BY <1>2, <1>3, NestedSame DEF Nested!Completed
  <2> HIDE DEF S1, S2
  <2> QED BY <2>1, <2>2, <2>3 DEF Nested!HalfStep
<1> HIDE DEF S1, S2, W, D
<1>7. Solver(T) /\ T.points = S.points /\ T.F = E
  <2> HIDE DEF E, M, T
  <2> QED BY <1>4, <1>6, NestedFieldsIs
<1>8. fam \in {"E", "H"} /\ Main!Other(fam) # fam /\ Main!Other(fam) \in {"E", "H"}
  BY FamilyFacts
<1>9. ASSUME NEW c \in Component, c[1] # fam
      PROVE  E[c] = [v \in Main!Cells(n, c) |-> Half(S, n, AuxRate(q), h, c, v)]
  <2>1. E[c] = D[c]
    BY <1>5, <1>9, Names, NestedSame DEF Nested!Excite
  <2>2. D[c] = W[c]
    BY <1>9, Names, NestedSame DEF D, Nested!Dense
  <2>3. W[c] = Main!SyncComponent(S.F[c], b, c, 0)
    BY <1>8, <1>9, ComponentFacts, Names, NestedSame DEF W, Main!Sync
  <2>4. S.F[c] \in [Main!Cells(n, c) -> Values]
    BY DEF Typed
  <2>5. W[c] \in [Main!Cells(n, c) -> Values] /\ \A v \in Main!Cells(n, c) : W[c][v] = S.F[c][Mirror(n, c, v)]
    BY <2>3, <2>4, SyncComponentFacts
  <2> QED BY <1>9, <2>1, <2>2, <2>5 DEF Half
<1>10. ASSUME NEW c \in Component, c[1] = fam
       PROVE  E[c] = [v \in Main!Cells(n, c) |-> Half(S, n, AuxRate(q), h, c, v)]
  <2>1. W[c] = S.F[c]
    BY <1>8, <1>10, Names, NestedSame DEF W, Main!Sync
  <2>2. S.F[c] \in [Main!Cells(n, c) -> Values]
    BY DEF Typed
  <2>3. ASSUME NEW v \in Main!Cells(n, c)
        PROVE  D[c][v] = IF Main!Active(b, c, v) THEN (S.F[c][v] + Swirl(S.F, n, AuxRate(q), c, v)) % P
                                                 ELSE S.F[c][v]
    <3>1. D[c][v] = IF Main!Active(b, c, v)
                    THEN (W[c][v] + Nested(q)!DenseInverse(c, Nested(q)!Global(b, v)) * Nested(q)!Curl(W, c, v)) % P
                    ELSE W[c][v]
      BY <1>0, <1>10, Names, NestedSame DEF D, Nested!Dense
    <3>2. Nested(q)!DenseInverse(c, Nested(q)!Global(b, v)) = 1
      BY DEF Nested!DenseInverse, One
    <3>3. ASSUME Main!Active(b, c, v)
          PROVE  Nested(q)!Curl(W, c, v) = Swirl(S.F, n, AuxRate(q), c, v) /\ Swirl(S.F, n, AuxRate(q), c, v) \in Int
      <4>1. Nested(q)!Curl(W, c, v) = Swirl(S.F, n, AuxRate(q), c, v)
        BY <1>8, <1>10, <3>3, CurlSynced DEF W
      <4>2. AuxRate(q) \in [Axes -> Int]
        BY RateType DEF AuxRate
      <4>3. Swirl(S.F, n, AuxRate(q), c, v) \in Int
        BY <3>3, <4>2, SwirlType
      <4> QED BY <4>1, <4>3
    <3>4. ASSUME Main!Active(b, c, v)
          PROVE  1 * Nested(q)!Curl(W, c, v) = Swirl(S.F, n, AuxRate(q), c, v)
      BY <3>3, <3>4
    <3> QED BY <2>1, <3>1, <3>2, <3>4
  <2>4. M.F[c] = [v \in Main!Cells(n, c) |-> D[c][v]]
    BY <1>5, <1>10
  <2>5. E[c] = [v \in Main!Cells(n, c) |->
             IF <<c, v>> \notin DOMAIN S.points THEN M.F[c][v]
             ELSE LET s == S.points[<<c, v>>]
                  IN  (IF s.current
                       THEN M.F[c][v] - 1 * s.amp * (h + 1)
                       ELSE s.amp * (h + 1)) % P]
    BY <1>0, <1>10, Names, NestedSame DEF Nested!Excite, One
  <2> HIDE DEF E, M
  <2>6. ASSUME NEW v \in Main!Cells(n, c)
        PROVE  E[c][v] = Half(S, n, AuxRate(q), h, c, v)
    <3> DEFINE x == IF Main!Active(b, c, v) THEN (S.F[c][v] + Swirl(S.F, n, AuxRate(q), c, v)) % P
                                            ELSE S.F[c][v]
    <3>1. M.F[c][v] = x
      BY <2>3, <2>4
    <3>2. E[c][v] = IF <<c, v>> \notin DOMAIN S.points THEN x
             ELSE LET s == S.points[<<c, v>>]
                  IN  (IF s.current THEN x - 1 * s.amp * (h + 1) ELSE s.amp * (h + 1)) % P
      BY <2>5, <3>1
    <3>3. Half(S, n, AuxRate(q), h, c, v) =
            IF <<c, v>> \in DOMAIN S.points
            THEN LET p == S.points[<<c, v>>]
                 IN  IF p.current THEN (x - 1 * p.amp * (h + 1)) % P ELSE (p.amp * (h + 1)) % P
            ELSE x
      BY <1>10 DEF Half
    <3> HIDE DEF x
    <3> QED BY <3>2, <3>3
  <2> QED BY <2>5, <2>6
<1>11. E = [c \in Component |-> E[c]]
  BY Names, NestedSame DEF Nested!Excite
<1> HIDE DEF E, T
<1>12. E = [c \in Component |-> [v \in Main!Cells(n, c) |-> Half(S, n, AuxRate(q), h, c, v)]]
  BY <1>9, <1>10, <1>11
<1> QED BY <1>7, <1>12 DEF T

\* The directions whose face helpers sample the wave where it meets the face.
Aligned(s) == <<s.e[1], s.k[1]>> \in {<<1, 3>>, <<2, 1>>, <<3, 1>>}

\* The axis of the magnetic field of the wave.
Third(s) == 6 - s.e[1] - s.k[1]

\* The sign of a curl along the beam.
Turn(s) == IF s.k[1] = AxisB(s.e[1]) THEN 1 ELSE -1

\* The cells on which the faces lie.
First(s, a) == (s.center[a] - s.half[a]) \div 2
Last(s, a) == (s.center[a] + s.half[a]) \div 2

\* The three directions, written out.
LEMMA Directions ==
  ASSUME NEW s, Placed(s), Aligned(s)
  PROVE  /\ \/ s.e[1] = 1 /\ s.k[1] = 3 /\ Third(s) = 2 /\ Turn(s) = -1
            \/ s.e[1] = 2 /\ s.k[1] = 1 /\ Third(s) = 3 /\ Turn(s) = -1
            \/ s.e[1] = 3 /\ s.k[1] = 1 /\ Third(s) = 2 /\ Turn(s) = 1
         /\ s.e[2] \in {1, -1} /\ s.k[2] \in {1, -1}
         /\ \A a \in Axes : a = s.e[1] \/ a = s.k[1] \/ a = Third(s)
         /\ s.e[1] \in Axes /\ s.k[1] \in Axes /\ Third(s) \in Axes
         /\ s.e[1] # s.k[1] /\ s.e[1] # Third(s) /\ s.k[1] # Third(s)
<1>1. s.e[2] \in {1, -1} /\ s.k[2] \in {1, -1}
  BY DEF Placed
<1>2. \/ s.e[1] = 1 /\ s.k[1] = 3
      \/ s.e[1] = 2 /\ s.k[1] = 1
      \/ s.e[1] = 3 /\ s.k[1] = 1
  BY DEF Aligned
<1>3. AxisB(1) = 2 /\ AxisB(2) = 3 /\ AxisB(3) = 1
  BY DEF AxisB
<1>4. \/ s.e[1] = 1 /\ s.k[1] = 3 /\ Third(s) = 2 /\ Turn(s) = -1
      \/ s.e[1] = 2 /\ s.k[1] = 1 /\ Third(s) = 3 /\ Turn(s) = -1
      \/ s.e[1] = 3 /\ s.k[1] = 1 /\ Third(s) = 2 /\ Turn(s) = 1
  BY <1>2, <1>3 DEF Third, Turn
<1> QED BY <1>1, <1>4, AxisFacts

\* The faces of a box in cells.
LEMMA Extents ==
  ASSUME NEW s, Placed(s), NEW a \in Axes, a # s.e[1]
  PROVE  /\ First(s, a) \in Int /\ Last(s, a) \in Int /\ First(s, a) <= Last(s, a)
         /\ 2 * First(s, a) = s.center[a] - s.half[a] /\ 2 * Last(s, a) = s.center[a] + s.half[a]
         /\ s.n[a] \in Nat /\ s.n[a] > 1
         /\ \/ 1 <= First(s, a) /\ Last(s, a) <= s.n[a] - 1
            \/ a # s.k[1] /\ First(s, a) <= -1 /\ s.n[a] <= Last(s, a)
<1>1. /\ s.center[a] \in Int /\ s.half[a] \in Nat /\ s.n[a] \in Nat /\ s.n[a] > 1
      /\ (s.center[a] - s.half[a]) % 2 = 0
      /\ \/ 2 <= s.center[a] - s.half[a] /\ s.center[a] + s.half[a] <= 2 * s.n[a] - 2
         \/ a # s.k[1] /\ s.center[a] - s.half[a] <= -2 /\ 2 * s.n[a] <= s.center[a] + s.half[a]
  BY DEF Placed, Clear, Spanned
<1> QED BY <1>1 DEF First, Last

-----------------------------------------------------------------------------
\* The views and what they own.

\* The cells a view of the domain updates.
Owned(g, c, u) ==
  \A a \in Axes :
    LET first == g.off[a] + (IF c[1] = "H" /\ a # c[2] THEN 1 ELSE 0)
    IN  first <= u[a] /\ u[a] < first + g.n[a]

\* The view of the whole domain.
LEMMA SerialFacts ==
  \A n : /\ Serial(n).n = n /\ Serial(n).whole = n
         /\ \A a \in Axes : Serial(n).off[a] = 0 /\ Serial(n).at[a] = 0
BY DEF Serial, Zero

\* The cells an undivided simulation updates are those its view owns.
LEMMA ActiveOwned ==
  ASSUME NEW n \in Sizes, NEW c \in Component, NEW u
  PROVE  (u \in Main!Cells(n, c) /\ Main!Active(Serial(n), c, u)) <=> (u \in Vectors /\ Owned(Serial(n), c, u))
<1>1. \A a \in Axes : n[a] \in Int /\ n[a] > 0
  BY DEF Sizes
<1>2. c[1] \in {"E", "H"}
  BY ComponentFacts
<1>3. u \in Main!Cells(n, c) <=> u \in Vectors /\ \A a \in Axes : 0 <= u[a] /\ u[a] < Limit(n, c, a)
  BY CellFacts
<1>4. Main!Active(Serial(n), c, u) <=>
        \A a \in Axes : a # c[2] => IF c[1] = "E" THEN u[a] < n[a] ELSE u[a] >= 1
  BY SerialFacts, Names DEF Main!Active
<1>5. ASSUME u \in Vectors, NEW a \in Axes
      PROVE  /\ 0 <= u[a] /\ u[a] < Limit(n, c, a)
             /\ (a # c[2] => IF c[1] = "E" THEN u[a] < n[a] ELSE u[a] >= 1)
             <=> LET first == 0 + (IF c[1] = "H" /\ a # c[2] THEN 1 ELSE 0)
                 IN  first <= u[a] /\ u[a] < first + n[a]
  <2>1. u[a] \in Int
    BY <1>5 DEF Vectors
  <2> QED BY <1>1, <1>2, <2>1 DEF Limit
<1>6. Owned(Serial(n), c, u) <=>
        \A a \in Axes : LET first == 0 + (IF c[1] = "H" /\ a # c[2] THEN 1 ELSE 0)
                        IN  first <= u[a] /\ u[a] < first + n[a]
  BY SerialFacts DEF Owned
<1> QED BY <1>3, <1>4, <1>5, <1>6

\* A cut of the domain, or none.
LEMMA ViewFacts ==
  ASSUME NEW s, Placed(s), NEW g \in Views(s)
  PROVE  /\ g.whole = s.n /\ g.n \in Sizes /\ s.n \in Sizes /\ g.off \in [Axes -> Nat]
         /\ \A a \in Axes : g.off[a] + g.n[a] <= s.n[a]
         /\ \A a \in Axes : s.n[a] = 1 => g.off[a] = 0
<1>1. s.n \in Sizes
  BY DEF Placed, Sizes
<1>2. CASE s.cuts = <<>>
  <2>1. g = Serial(s.n)
    BY <1>2 DEF Views
  <2> QED BY <1>1, <2>1, SerialFacts DEF Serial, Zero, Sizes
<1>3. CASE s.cuts # <<>>
  <2>0. PICK x \in Axes : \E i \in 1..(s.n[x] - 1) : s.cuts = <<x, i>>
    BY <1>3 DEF Placed
  <2>1. PICK i \in 1..(s.n[x] - 1) : s.cuts = <<x, i>>
    BY <2>0
  <2>2. PICK r \in {0, 1} : g = RankLocal(s.n, x, i, r)
    BY <1>3, <2>1 DEF Views
  <2>3. s.n[x] \in Nat /\ s.n[x] > 1 /\ i \in Nat /\ i >= 1 /\ s.n[x] - i >= 1
    BY <1>1, <2>1 DEF Sizes
  <2>4. /\ g.whole = s.n /\ g.n = [s.n EXCEPT ![x] = IF r = 0 THEN i ELSE s.n[x] - i]
        /\ g.off = IF r = 0 THEN Zero ELSE [Zero EXCEPT ![x] = i]
    BY <2>2 DEF RankLocal
  <2> QED BY <1>1, <2>3, <2>4 DEF Sizes, Zero
<1> QED BY <1>2, <1>3

\* Every cell the domain updates belongs to one view.
LEMMA OneOwner ==
  ASSUME NEW s, Placed(s), NEW c \in Component, NEW u \in Vectors
  PROVE  /\ \A g \in Views(s) : Owned(g, c, u) => Owned(Serial(s.n), c, u)
         /\ Owned(Serial(s.n), c, u) => \E g \in Views(s) : Owned(g, c, u)
         /\ \A g, f \in Views(s) : Owned(g, c, u) /\ Owned(f, c, u) => g = f
<1>1. s.n \in Sizes
  BY DEF Placed, Sizes
<1>2. CASE s.cuts = <<>>
  BY <1>2 DEF Views
<1>3. CASE s.cuts # <<>>
  <2>0. PICK x \in Axes : \E i \in 1..(s.n[x] - 1) : s.cuts = <<x, i>>
    BY <1>3 DEF Placed
  <2>1. PICK i \in 1..(s.n[x] - 1) : s.cuts = <<x, i>>
    BY <2>0
  <2> DEFINE g0 == RankLocal(s.n, x, i, 0)
             g1 == RankLocal(s.n, x, i, 1)
             b(a) == IF c[1] = "H" /\ a # c[2] THEN 1 ELSE 0
  <2>2. Views(s) = {g0, g1}
    BY <1>3, <2>1 DEF Views
  <2>3. s.n[x] \in Nat /\ i \in Nat /\ i >= 1 /\ s.n[x] - i >= 1 /\ \A a \in Axes : s.n[a] \in Nat
    BY <1>1, <2>1 DEF Sizes
  <2>4. /\ \A a \in Axes : g0.off[a] = 0 /\ g0.n[a] = IF a = x THEN i ELSE s.n[a]
        /\ \A a \in Axes : g1.off[a] = (IF a = x THEN i ELSE 0) /\ g1.n[a] = IF a = x THEN s.n[a] - i ELSE s.n[a]
    BY <1>1 DEF RankLocal, Zero, Sizes
  <2>5. \A a \in Axes : u[a] \in Int
    BY DEF Vectors
  <2> HIDE DEF g0, g1, b
  <2>6. \A a \in Axes : b(a) \in Int
    BY DEF b
  <2>7. /\ Owned(g0, c, u) <=> \A a \in Axes : g0.off[a] + b(a) <= u[a] /\ u[a] < g0.off[a] + b(a) + g0.n[a]
        /\ Owned(g1, c, u) <=> \A a \in Axes : g1.off[a] + b(a) <= u[a] /\ u[a] < g1.off[a] + b(a) + g1.n[a]
        /\ Owned(Serial(s.n), c, u) <=> \A a \in Axes : 0 + b(a) <= u[a] /\ u[a] < 0 + b(a) + s.n[a]
    BY SerialFacts DEF Owned, b
  <2>8. /\ Owned(g0, c, u) <=> \A a \in Axes : b(a) <= u[a] /\ u[a] < b(a) + (IF a = x THEN i ELSE s.n[a])
        /\ Owned(g1, c, u) <=> \A a \in Axes : (IF a = x THEN i ELSE 0) + b(a) <= u[a] /\ u[a] < b(a) + s.n[a]
        /\ Owned(Serial(s.n), c, u) <=> \A a \in Axes : b(a) <= u[a] /\ u[a] < b(a) + s.n[a]
    BY <2>3, <2>4, <2>5, <2>6, <2>7
  <2>9. /\ Owned(g0, c, u) \/ Owned(g1, c, u) => Owned(Serial(s.n), c, u)
        /\ Owned(Serial(s.n), c, u) => Owned(g0, c, u) \/ Owned(g1, c, u)
        /\ ~(Owned(g0, c, u) /\ Owned(g1, c, u))
    BY <2>3, <2>5, <2>6, <2>8
  <2> QED BY <2>2, <2>9
<1> QED BY <1>2, <1>3

-----------------------------------------------------------------------------
\* The helpers and the targets of a face.

\* The parts of a face helper.
LEMMA HelperIs ==
  ASSUME NEW a, NEW d, NEW m, NEW v, NEW w
  PROVE  LET f == Helper(a, d, m, v, w)
         IN  f.axis = a /\ f.side = d /\ f.sampled = m /\ f.move = v /\ f.sample = w
BY DEF Helper

\* A face samples the other family from an offset cell.
LEMMA FaceFacts ==
  ASSUME NEW c \in Component, NEW f \in Faces(c)
  PROVE  /\ f.axis \in Axes /\ f.side \in {Low, High} /\ f.move \in Vectors
         /\ f.sample \in Vectors /\ f.sampled \in Component /\ f.sampled[1] # c[1]
<1>1. Zero \in Vectors /\ \A x, y, z \in Int : <<x, y, z>> \in Vectors
  BY DEF Zero, Vectors, Axes
<1>2. c[1] \in {"E", "H"} /\ c[2] \in {1, 2, 3}
  BY ComponentFacts, AxisFacts
<1>3. \A x \in {"E", "H"}, a \in {1, 2, 3} : <<x, a>> \in Component
  BY AxisFacts DEF Component
<1>4. CASE c[1] = "E"
  <2>1. f \in ExFaces \/ f \in EyFaces \/ f \in EzFaces
    BY <1>2, <1>4 DEF Faces
  <2>2. ASSUME NEW a \in {1, 2, 3}, NEW d \in {Low, High}, NEW i \in {1, 2, 3}, NEW w \in Vectors,
               f = Helper(a, d, <<"H", i>>, Zero, w)
        PROVE  /\ f.axis \in Axes /\ f.side \in {Low, High} /\ f.move \in Vectors
               /\ f.sample \in Vectors /\ f.sampled \in Component /\ f.sampled[1] # c[1]
    BY <1>1, <1>3, <1>4, <2>2, HelperIs, AxisFacts
  <2>3. CASE f \in ExFaces
    BY <1>1, <2>2, <2>3 DEF ExFaces
  <2>4. CASE f \in EyFaces
    BY <1>1, <2>2, <2>4 DEF EyFaces
  <2>5. CASE f \in EzFaces
    BY <1>1, <2>2, <2>5 DEF EzFaces
  <2> QED BY <2>1, <2>3, <2>4, <2>5
<1>5. CASE c[1] = "H"
  <2>1. f \in HxFaces \/ f \in HyFaces \/ f \in HzFaces
    BY <1>2, <1>5 DEF Faces
  <2>2. ASSUME NEW a \in {1, 2, 3}, NEW d \in {Low, High}, NEW i \in {1, 2, 3}, NEW v \in Vectors, NEW w \in Vectors,
               f = Helper(a, d, <<"E", i>>, v, w)
        PROVE  /\ f.axis \in Axes /\ f.side \in {Low, High} /\ f.move \in Vectors
               /\ f.sample \in Vectors /\ f.sampled \in Component /\ f.sampled[1] # c[1]
    BY <1>1, <1>3, <1>5, <2>2, HelperIs, AxisFacts
  <2>3. CASE f \in HxFaces
    BY <1>1, <2>2, <2>3 DEF HxFaces
  <2>4. CASE f \in HyFaces
    BY <1>1, <2>2, <2>4 DEF HyFaces
  <2>5. CASE f \in HzFaces
    BY <1>1, <2>2, <2>5 DEF HzFaces
  <2> QED BY <2>1, <2>3, <2>4, <2>5
<1> QED BY <1>2, <1>4, <1>5

\* The component whose points bound a face, and the cells between its corners.
Bounding(c, f) == IF c[1] = "E" THEN c ELSE f.sampled

\* Where the region of a face ends, and the cells in between.
Corner(s, c, f, side) ==
  Sum3(SpaceToIndex(Serial(s.n), Bounding(c, f), FaceCorner(s, f, side)), f.move)

Spans(s, c, f, u) ==
  \A a \in Axes : Corner(s, c, f, Low)[a] <= u[a] /\ u[a] <= Corner(s, c, f, High)[a]

\* An index of a view is that of the domain less the offset of the view.
LEMMA ViewIndex ==
  ASSUME NEW s, Placed(s), NEW g \in Views(s), NEW c \in Component, c[1] = "E",
         NEW x \in Vectors, NEW a \in Axes
  PROVE  /\ SpaceToIndex(Serial(s.n), c, x)[a] \in Int
         /\ SpaceToIndex(g, c, x)[a] = SpaceToIndex(Serial(s.n), c, x)[a] - g.off[a]
<1>1. /\ g.whole = s.n /\ g.off[a] \in Int /\ (s.n[a] = 1 => g.off[a] = 0)
  BY ViewFacts
<1>2. Stagger(c, a) \in Int /\ x[a] \in Int
  BY DEF Stagger, Vectors
<1>3. IndexOrigin(g, c, a) = g.off[a] /\ IndexOrigin(Serial(s.n), c, a) = 0
  BY SerialFacts DEF IndexOrigin
<1>4. /\ SpaceToIndex(g, c, x)[a] = IF s.n[a] = 1 THEN 0 ELSE ((x[a] - Stagger(c, a) + 1) \div 2) - g.off[a]
      /\ SpaceToIndex(Serial(s.n), c, x)[a] = IF s.n[a] = 1 THEN 0 ELSE ((x[a] - Stagger(c, a) + 1) \div 2) - 0
  BY <1>1, <1>3, SerialFacts DEF SpaceToIndex
<1> HIDE DEF Stagger
<1>5. (x[a] - Stagger(c, a) + 1) \div 2 \in Int
  BY <1>2
<1> QED BY <1>1, <1>4, <1>5

\* The targets of a view are the cells of the face it owns.
LEMMA TargetIs ==
  ASSUME NEW s, Placed(s), NEW g \in Views(s), NEW c \in Component, NEW f \in Faces(c),
         NEW v
  PROVE  v \in Targets(g, s, c, f)
           <=> /\ v \in Vectors /\ s.n[f.axis] > 1
               /\ Owned(g, c, Sum3(v, g.off)) /\ Spans(s, c, f, Sum3(v, g.off))
<1> DEFINE B == Bounding(c, f)
           low == Sum3(SpaceToIndex(g, B, FaceCorner(s, f, Low)), f.move)
           high == Sum3(SpaceToIndex(g, B, FaceCorner(s, f, High)), f.move)
           u == Sum3(v, g.off)
           L == Corner(s, c, f, Low)
           H == Corner(s, c, f, High)
<1>1. /\ f.axis \in Axes /\ f.side \in {Low, High} /\ f.move \in Vectors
      /\ f.sampled \in Component /\ f.sampled[1] # c[1]
  BY FaceFacts
<1>2. B \in Component /\ B[1] = "E"
  BY <1>1, ComponentFacts DEF Bounding
<1>3. FaceCorner(s, f, Low) \in Vectors /\ FaceCorner(s, f, High) \in Vectors
  <2>1. f.side \in Int /\ Low \in Int /\ High \in Int
    BY <1>1 DEF Low, High
  <2>2. s.center \in [Axes -> Int] /\ s.half \in [Axes -> Nat]
    BY DEF Placed
  <2>3. ASSUME NEW d \in Int
        PROVE  FaceCorner(s, f, d) \in Vectors
    <3>1. \A a \in Axes : s.center[a] + (IF a = f.axis THEN f.side ELSE d) * s.half[a] \in Int
      <4> TAKE a \in Axes
      <4>1. s.center[a] \in Int /\ s.half[a] \in Int
        BY <2>2
      <4>2. (IF a = f.axis THEN f.side ELSE d) \in Int
        BY <2>1
      <4> QED BY <4>1, <4>2
    <3> QED BY <3>1 DEF FaceCorner, Vectors
  <2> QED BY <2>1, <2>3
<1>4. /\ g.whole = s.n /\ g.n \in Sizes /\ s.n \in Sizes /\ g.off \in [Axes -> Nat]
      /\ \A a \in Axes : g.off[a] + g.n[a] <= s.n[a]
  BY ViewFacts
<1>5. \A a \in Axes : /\ g.n[a] \in Nat /\ s.n[a] \in Nat /\ g.off[a] \in Nat /\ g.n[a] > 0
                      /\ g.off[a] + g.n[a] <= s.n[a]
  <2> TAKE a \in Axes
  <2>1. g.n[a] \in Nat \ {0} /\ s.n[a] \in Nat \ {0} /\ g.off[a] \in Nat
    BY <1>4 DEF Sizes
  <2> QED BY <1>4, <2>1
<1>6. \A a \in Axes : /\ L[a] \in Int /\ H[a] \in Int
                      /\ low[a] = L[a] - g.off[a] /\ high[a] = H[a] - g.off[a]
  <2> TAKE a \in Axes
  <2>1. /\ SpaceToIndex(Serial(s.n), B, FaceCorner(s, f, Low))[a] \in Int
        /\ SpaceToIndex(g, B, FaceCorner(s, f, Low))[a]
             = SpaceToIndex(Serial(s.n), B, FaceCorner(s, f, Low))[a] - g.off[a]
        /\ SpaceToIndex(Serial(s.n), B, FaceCorner(s, f, High))[a] \in Int
        /\ SpaceToIndex(g, B, FaceCorner(s, f, High))[a]
             = SpaceToIndex(Serial(s.n), B, FaceCorner(s, f, High))[a] - g.off[a]
    BY <1>2, <1>3, ViewIndex
  <2>2. f.move[a] \in Int /\ g.off[a] \in Int
    BY <1>1, <1>5 DEF Vectors
  <2> HIDE DEF B
  <2>3. /\ L[a] = SpaceToIndex(Serial(s.n), B, FaceCorner(s, f, Low))[a] + f.move[a]
        /\ H[a] = SpaceToIndex(Serial(s.n), B, FaceCorner(s, f, High))[a] + f.move[a]
        /\ low[a] = SpaceToIndex(g, B, FaceCorner(s, f, Low))[a] + f.move[a]
        /\ high[a] = SpaceToIndex(g, B, FaceCorner(s, f, High))[a] + f.move[a]
    BY DEF Corner, Sum3, B
  <2> QED BY <2>1, <2>2, <2>3
<1>7. Targets(g, s, c, f) = IF s.n[f.axis] > 1 THEN MappedSourcePoints(g, c, low, Sum3(high, <<1, 1, 1>>)) ELSE {}
  BY <1>4 DEF Targets, Bounding
<1> HIDE DEF low, high, L, H
<1>8. \A a \in Axes : Sum3(high, <<1, 1, 1>>)[a] = high[a] + 1
  BY AxisFacts DEF Sum3
<1>9. v \in MappedSourcePoints(g, c, low, Sum3(high, <<1, 1, 1>>)) <=>
        /\ v \in (0..s.n[1]) \X (0..s.n[2]) \X (0..s.n[3])
        /\ \A a \in Axes : 0 <= v[a] /\ v[a] < Shape(g, c)[a]
        /\ \A a \in Axes : low[a] <= v[a] /\ v[a] < high[a] + 1
        /\ \A a \in Axes : a # c[2] => IF c[1] = "E" THEN v[a] < Shape(g, c)[a] - 1 ELSE v[a] >= 1
  BY <1>4, <1>8 DEF MappedSourcePoints, Within
<1>10. \A a \in Axes : Shape(g, c)[a] = IF a = c[2] THEN g.n[a] ELSE g.n[a] + 1
  BY DEF Shape
<1>11. ASSUME v \in Vectors, \A a \in Axes : 0 <= v[a] /\ v[a] < Shape(g, c)[a]
       PROVE  v \in (0..s.n[1]) \X (0..s.n[2]) \X (0..s.n[3])
  <2>1. ASSUME NEW a \in Axes
        PROVE  v[a] \in 0..s.n[a]
    <3>1. v[a] \in Int /\ 0 <= v[a] /\ v[a] < Shape(g, c)[a]
      BY <1>11 DEF Vectors
    <3>2. g.n[a] \in Nat /\ s.n[a] \in Nat /\ g.off[a] \in Nat /\ g.off[a] + g.n[a] <= s.n[a]
      BY <1>5
    <3>3. Shape(g, c)[a] = g.n[a] \/ Shape(g, c)[a] = g.n[a] + 1
      BY <1>10
    <3> QED BY <3>1, <3>2, <3>3
  <2>2. v = <<v[1], v[2], v[3]>>
    BY <1>11 DEF Vectors, Axes
  <2> QED BY <2>1, <2>2, AxisFacts
<1>12. ASSUME v \in (0..s.n[1]) \X (0..s.n[2]) \X (0..s.n[3])
       PROVE  v \in Vectors
  <2>1. s.n[1] \in Nat /\ s.n[2] \in Nat /\ s.n[3] \in Nat
    BY <1>5, AxisFacts
  <2> QED BY <1>12, <2>1 DEF Vectors, Axes
<1>13. ASSUME v \in Vectors, NEW a \in Axes
       PROVE  (/\ 0 <= v[a] /\ v[a] < Shape(g, c)[a]
               /\ low[a] <= v[a] /\ v[a] < high[a] + 1
               /\ (a # c[2] => IF c[1] = "E" THEN v[a] < Shape(g, c)[a] - 1 ELSE v[a] >= 1))
              <=> /\ LET first == g.off[a] + (IF c[1] = "H" /\ a # c[2] THEN 1 ELSE 0)
                     IN  first <= u[a] /\ u[a] < first + g.n[a]
                  /\ L[a] <= u[a] /\ u[a] <= H[a]
  <2>1. v[a] \in Int /\ u[a] = v[a] + g.off[a]
    BY <1>13 DEF Vectors, Sum3
  <2>2. c[1] \in {"E", "H"}
    BY ComponentFacts
  <2> HIDE DEF u
  <2> QED BY <1>5, <1>6, <1>10, <2>1, <2>2
<1>14. (Owned(g, c, u) /\ Spans(s, c, f, u)) <=>
         \A a \in Axes : /\ LET first == g.off[a] + (IF c[1] = "H" /\ a # c[2] THEN 1 ELSE 0)
                            IN  first <= u[a] /\ u[a] < first + g.n[a]
                         /\ L[a] <= u[a] /\ u[a] <= H[a]
  <2> HIDE DEF u
  <2> QED BY DEF Owned, Spans, L, H
<1> HIDE DEF u
<1>15. v \in MappedSourcePoints(g, c, low, Sum3(high, <<1, 1, 1>>)) <=>
         v \in Vectors /\ Owned(g, c, u) /\ Spans(s, c, f, u)
  <2>1. ASSUME v \in MappedSourcePoints(g, c, low, Sum3(high, <<1, 1, 1>>))
        PROVE  v \in Vectors /\ Owned(g, c, u) /\ Spans(s, c, f, u)
    BY <1>9, <1>12, <1>13, <1>14, <2>1
  <2>2. ASSUME v \in Vectors, Owned(g, c, u), Spans(s, c, f, u)
        PROVE  v \in MappedSourcePoints(g, c, low, Sum3(high, <<1, 1, 1>>))
    <3>1. \A a \in Axes : /\ 0 <= v[a] /\ v[a] < Shape(g, c)[a]
               /\ low[a] <= v[a] /\ v[a] < high[a] + 1
               /\ (a # c[2] => IF c[1] = "E" THEN v[a] < Shape(g, c)[a] - 1 ELSE v[a] >= 1)
      BY <1>13, <1>14, <2>2
    <3> QED BY <1>9, <1>11, <2>2, <3>1
  <2> QED BY <2>1, <2>2
<1> QED BY <1>7, <1>15 DEF u

-----------------------------------------------------------------------------
\* The table of the face helpers.

\* The other family, and what the table of the face helpers has in common.
Opposite(family) == IF family = "E" THEN "H" ELSE "E"

\* One side of a face, or the cell past the other.
Far(f, i) == IF f.side = High THEN i ELSE 0

Tabled(c, f) ==
  LET o == 6 - c[2] - f.axis
  IN  /\ f.axis \in Axes /\ f.axis # c[2] /\ o \in Axes /\ f.side \in {Low, High}
      /\ f.sampled = <<Opposite(c[1]), o>>
      /\ c[1] = "E" => /\ f.move = Zero /\ f.sample[f.axis] = Far(f, 1)
                       /\ <<c[2], f.axis>> # <<3, 2>> =>
                            Sign(c, f) = f.side * (IF f.axis = AxisB(c[2]) THEN 1 ELSE -1)
      /\ c[1] = "H" => /\ f.move[f.axis] = Far(f, 1) /\ f.move[o] = 1 /\ f.move[c[2]] = 0
                       /\ f.sample[c[2]] = 0
                       /\ <<c[2], f.axis>> \in {<<2, 3>>, <<3, 1>>, <<2, 1>>} =>
                            f.sample[f.axis] = Far(f, -1)
                       /\ Sign(c, f) = f.side * (IF f.axis = AxisB(c[2]) THEN -1 ELSE 1)

\* Every face helper follows the table.
LEMMA FaceTable ==
  ASSUME NEW c \in Component, NEW f \in Faces(c)
  PROVE  Tabled(c, f)
<1>0. c[1] \in {"E", "H"} /\ c[2] \in {1, 2, 3} /\ Axes = {1, 2, 3}
  BY ComponentFacts, AxisFacts
<1>1. /\ AxisB(1) = 2 /\ AxisB(2) = 3 /\ AxisB(3) = 1
  BY DEF AxisB
<1>2. ASSUME NEW x, NEW d, NEW g, NEW v, NEW w, f = Helper(x, d, g, v, w)
      PROVE  f.axis = x /\ f.side = d /\ f.sampled = g /\ f.move = v /\ f.sample = w
  BY <1>2, HelperIs
<1>3. Sign(c, f) = -f.side * LowSigns[c[1]][c[2]][f.axis]
  BY DEF Sign
<1>4. /\ LowSigns["E"] = << <<0, -1, 1>>, <<1, 0, -1>>, <<-1, -1, 0>> >>
      /\ LowSigns["H"] = << <<0, 1, -1>>, <<-1, 0, 1>>, <<1, -1, 0>> >>
  BY DEF LowSigns
<1>5. Low = -1 /\ High = 1
  BY DEF Low, High
<1>11. CASE c[1] = "E" /\ c[2] = 1
  <2>1. f \in ExFaces
    BY <1>11 DEF Faces
  <2> QED BY <1>0, <1>1, <1>2, <1>3, <1>4, <1>5, <1>11, <2>1 DEF ExFaces, Tabled, Opposite, Far
<1>12. CASE c[1] = "E" /\ c[2] = 2
  <2>1. f \in EyFaces
    BY <1>12 DEF Faces
  <2> QED BY <1>0, <1>1, <1>2, <1>3, <1>4, <1>5, <1>12, <2>1 DEF EyFaces, Tabled, Opposite, Far
<1>13. CASE c[1] = "E" /\ c[2] = 3
  <2>1. f \in EzFaces
    BY <1>13 DEF Faces
  <2> QED BY <1>0, <1>1, <1>2, <1>3, <1>4, <1>5, <1>13, <2>1 DEF EzFaces, Tabled, Opposite, Far
<1>14. CASE c[1] = "H" /\ c[2] = 1
  <2>1. f \in HxFaces
    BY <1>14 DEF Faces
  <2> QED BY <1>0, <1>1, <1>2, <1>3, <1>4, <1>5, <1>14, <2>1 DEF HxFaces, Tabled, Opposite, Far
<1>15. CASE c[1] = "H" /\ c[2] = 2
  <2>1. f \in HyFaces
    BY <1>15 DEF Faces
  <2> QED BY <1>0, <1>1, <1>2, <1>3, <1>4, <1>5, <1>15, <2>1 DEF HyFaces, Tabled, Opposite, Far
<1>16. CASE c[1] = "H" /\ c[2] = 3
  <2>1. f \in HzFaces
    BY <1>16 DEF Faces
  <2> QED BY <1>0, <1>1, <1>2, <1>3, <1>4, <1>5, <1>16, <2>1 DEF HzFaces, Tabled, Opposite, Far
<1> QED BY <1>0, <1>11, <1>12, <1>13, <1>14, <1>15, <1>16

\* A component has one face of each side of each axis across it.
LEMMA OneFace ==
  ASSUME NEW c \in Component
  PROVE  /\ \A x \in Axes \ {c[2]}, d \in {Low, High} : \E f \in Faces(c) : f.axis = x /\ f.side = d
         /\ \A f, g \in Faces(c) : f.axis = g.axis /\ f.side = g.side => f = g
<1>0. c[1] \in {"E", "H"} /\ c[2] \in {1, 2, 3} /\ Axes = {1, 2, 3}
  BY ComponentFacts, AxisFacts
<1>1. Low = -1 /\ High = 1
  BY DEF Low, High
<1> DEFINE Goal(S) ==
      /\ \A x \in Axes \ {c[2]}, d \in {Low, High} : \E f \in S : f.axis = x /\ f.side = d
      /\ \A f, g \in S : f.axis = g.axis /\ f.side = g.side => f = g
<1>2. ASSUME NEW a \in Axes, NEW b \in Axes, a # b, Axes \ {c[2]} = {a, b},
             NEW p, NEW q, NEW r, NEW t,
             p.axis = a /\ p.side = Low /\ q.axis = a /\ q.side = High,
             r.axis = b /\ r.side = Low /\ t.axis = b /\ t.side = High
      PROVE  Goal({p, q, r, t})
  BY <1>1, <1>2
<1> HIDE DEF Goal
<1>3. ASSUME NEW a \in Axes, NEW b \in Axes, a # b, Axes \ {c[2]} = {a, b},
             NEW p, NEW q, NEW r, NEW t, NEW p2, NEW q2, NEW r2, NEW t2, NEW p3, NEW q3, NEW r3, NEW t3
      PROVE  Goal({Helper(a, Low, p, p2, p3), Helper(a, High, q, q2, q3),
                   Helper(b, Low, r, r2, r3), Helper(b, High, t, t2, t3)})
  BY <1>2, <1>3, HelperIs
<1>11. CASE c[1] = "E" /\ c[2] = 1
  <2>1. Faces(c) = ExFaces /\ Axes \ {c[2]} = {2, 3}
    BY <1>0, <1>11 DEF Faces
  <2>2. Goal(ExFaces)
    BY <1>0, <1>3, <2>1 DEF ExFaces
  <2> QED BY <2>1, <2>2 DEF Goal
<1>12. CASE c[1] = "E" /\ c[2] = 2
  <2>1. Faces(c) = EyFaces /\ Axes \ {c[2]} = {3, 1}
    BY <1>0, <1>12 DEF Faces
  <2>2. Goal(EyFaces)
    BY <1>0, <1>3, <2>1 DEF EyFaces
  <2> QED BY <2>1, <2>2 DEF Goal
<1>13. CASE c[1] = "E" /\ c[2] = 3
  <2>1. Faces(c) = EzFaces /\ Axes \ {c[2]} = {1, 2}
    BY <1>0, <1>13 DEF Faces
  <2>2. Goal(EzFaces)
    BY <1>0, <1>3, <2>1 DEF EzFaces
  <2> QED BY <2>1, <2>2 DEF Goal
<1>14. CASE c[1] = "H" /\ c[2] = 1
  <2>1. Faces(c) = HxFaces /\ Axes \ {c[2]} = {2, 3}
    BY <1>0, <1>14 DEF Faces
  <2>2. Goal(HxFaces)
    BY <1>0, <1>3, <2>1 DEF HxFaces
  <2> QED BY <2>1, <2>2 DEF Goal
<1>15. CASE c[1] = "H" /\ c[2] = 2
  <2>1. Faces(c) = HyFaces /\ Axes \ {c[2]} = {3, 1}
    BY <1>0, <1>15 DEF Faces
  <2>2. Goal(HyFaces)
    BY <1>0, <1>3, <2>1 DEF HyFaces
  <2> QED BY <2>1, <2>2 DEF Goal
<1>16. CASE c[1] = "H" /\ c[2] = 3
  <2>1. Faces(c) = HzFaces /\ Axes \ {c[2]} = {1, 2}
    BY <1>0, <1>16 DEF Faces
  <2>2. Goal(HzFaces)
    BY <1>0, <1>3, <2>1 DEF HzFaces
  <2> QED BY <2>1, <2>2 DEF Goal
<1> QED BY <1>0, <1>11, <1>12, <1>13, <1>14, <1>15, <1>16

-----------------------------------------------------------------------------
\* The components of the wave, and the magnetic one its edges would excite.
EOf(s) == <<"E", s.e[1]>>
HOf(s) == <<"H", Third(s)>>
TOf(s) == <<"H", s.k[1]>>

\* The share of the magnetic field.
HShare(s) == -(Turn(s) * s.k[2] * s.e[2])

\* How much of the wave each component carries.
LEMMA Shares ==
  ASSUME NEW s, Placed(s), Aligned(s), NEW a \in Axes
  PROVE  /\ EDirection(s)[a] = IF a = s.e[1] THEN s.e[2] ELSE 0
         /\ HDirection(s)[a] = IF a = Third(s) THEN HShare(s) ELSE 0
         /\ s.e[2] \in {1, -1} /\ HShare(s) \in {1, -1}
<1>1. /\ \/ s.e[1] = 1 /\ s.k[1] = 3 /\ Third(s) = 2 /\ Turn(s) = -1
         \/ s.e[1] = 2 /\ s.k[1] = 1 /\ Third(s) = 3 /\ Turn(s) = -1
         \/ s.e[1] = 3 /\ s.k[1] = 1 /\ Third(s) = 2 /\ Turn(s) = 1
      /\ s.e[2] \in {1, -1} /\ s.k[2] \in {1, -1}
  BY Directions
<1>2. \A d, b : b \in Axes => Vector(d)[b] = IF b = d[1] THEN d[2] ELSE 0
  BY DEF Vector
<1>3. EDirection(s)[a] = IF a = s.e[1] THEN s.e[2] ELSE 0
  BY <1>2 DEF EDirection
<1>4. HDirection(s)[a] = Vector(s.k)[AxisB(a)] * Vector(s.e)[AxisC(a)]
                           - Vector(s.k)[AxisC(a)] * Vector(s.e)[AxisB(a)]
  BY DEF HDirection, Cross
<1>5. /\ AxisB(1) = 2 /\ AxisB(2) = 3 /\ AxisB(3) = 1
      /\ AxisC(1) = 3 /\ AxisC(2) = 1 /\ AxisC(3) = 2
  BY DEF AxisB, AxisC
<1>6. a \in {1, 2, 3} /\ 1 \in Axes /\ 2 \in Axes /\ 3 \in Axes
  BY AxisFacts
<1>7. HDirection(s)[a] = IF a = Third(s) THEN HShare(s) ELSE 0
  <2> DEFINE K(x) == IF x = s.k[1] THEN s.k[2] ELSE 0
             D(x) == IF x = s.e[1] THEN s.e[2] ELSE 0
  <2>1. HDirection(s)[a] = K(AxisB(a)) * D(AxisC(a)) - K(AxisC(a)) * D(AxisB(a))
    BY <1>2, <1>4, AxisFacts
  <2>2. /\ a = 1 => HDirection(s)[a] = K(2) * D(3) - K(3) * D(2)
        /\ a = 2 => HDirection(s)[a] = K(3) * D(1) - K(1) * D(3)
        /\ a = 3 => HDirection(s)[a] = K(1) * D(2) - K(2) * D(1)
    BY <1>5, <2>1
  <2>3. CASE s.k[2] = 1 /\ s.e[2] = 1
    BY <1>1, <1>6, <2>2, <2>3 DEF HShare
  <2>4. CASE s.k[2] = 1 /\ s.e[2] = -1
    BY <1>1, <1>6, <2>2, <2>4 DEF HShare
  <2>5. CASE s.k[2] = -1 /\ s.e[2] = 1
    BY <1>1, <1>6, <2>2, <2>5 DEF HShare
  <2>6. CASE s.k[2] = -1 /\ s.e[2] = -1
    BY <1>1, <1>6, <2>2, <2>6 DEF HShare
  <2> QED BY <1>1, <2>3, <2>4, <2>5, <2>6
<1>8. HShare(s) \in {1, -1}
  <2>1. Turn(s) \in {1, -1}
    BY <1>1
  <2> QED BY <1>1, <2>1 DEF HShare
<1> QED BY <1>1, <1>3, <1>7, <1>8

\* The faces that carry the wave.
Carries(s, c, f) == s.n[f.axis] > 1 /\ Cosine(s, f) # 0

\* The face of a component that carries the wave, in terms of the wave.
Front(s, c, f) ==
  /\ c = EOf(s) /\ f.axis = s.k[1] /\ f.sampled = HOf(s)
  /\ f.move = Zero /\ f.sample[s.k[1]] = Far(f, 1)
  /\ Sign(c, f) = f.side * Turn(s) /\ Cosine(s, f) = HShare(s)

Back(s, c, f) ==
  /\ c = HOf(s) /\ f.axis = s.k[1] /\ f.sampled = EOf(s)
  /\ f.move[s.k[1]] = Far(f, 1) /\ f.move[Third(s)] = 0 /\ f.move[s.e[1]] = 1
  /\ f.sample[s.k[1]] = Far(f, -1)
  /\ Sign(c, f) = f.side * Turn(s) /\ Cosine(s, f) = s.e[2]

Edge(s, c, f) ==
  /\ c = TOf(s) /\ f.axis = Third(s) /\ f.sampled = EOf(s)
  /\ f.move[Third(s)] = Far(f, 1) /\ f.move[s.k[1]] = 0 /\ f.move[s.e[1]] = 1
  /\ f.sample[s.k[1]] = 0
  /\ Sign(c, f) = -(f.side * Turn(s)) /\ Cosine(s, f) = s.e[2]

\* Only these three kinds of face carry the wave, and all of these do.
LEMMA Carriers ==
  ASSUME NEW s, Placed(s), Aligned(s), NEW c \in Component, NEW f \in Faces(c)
  PROVE  /\ Carries(s, c, f) => Front(s, c, f) \/ Back(s, c, f) \/ Edge(s, c, f)
         /\ \/ c = EOf(s) /\ f.axis = s.k[1]
            \/ c = HOf(s) /\ f.axis = s.k[1]
            \/ c = TOf(s) /\ f.axis = Third(s)
            => Carries(s, c, f)
<1> DEFINE e == s.e[1]
           k == s.k[1]
           m == Third(s)
           a == c[2]
           x == f.axis
           o == 6 - a - x
<1>1. /\ \/ e = 1 /\ k = 3 /\ m = 2 /\ Turn(s) = -1
         \/ e = 2 /\ k = 1 /\ m = 3 /\ Turn(s) = -1
         \/ e = 3 /\ k = 1 /\ m = 2 /\ Turn(s) = 1
  BY Directions
<1>2. c[1] \in {"E", "H"} /\ a \in {1, 2, 3} /\ c = <<c[1], a>> /\ Axes = {1, 2, 3}
  BY ComponentFacts, AxisFacts
<1>3. /\ x \in {1, 2, 3} /\ x # a /\ o \in {1, 2, 3} /\ f.side \in {1, -1}
      /\ f.sampled = <<Opposite(c[1]), o>>
      /\ c[1] = "E" => /\ f.move = Zero /\ f.sample[x] = Far(f, 1)
                       /\ <<a, x>> # <<3, 2>> => Sign(c, f) = f.side * (IF x = AxisB(a) THEN 1 ELSE -1)
      /\ c[1] = "H" => /\ f.move[x] = Far(f, 1) /\ f.move[o] = 1 /\ f.move[a] = 0
                       /\ f.sample[a] = 0
                       /\ <<a, x>> \in {<<2, 3>>, <<3, 1>>, <<2, 1>>} => f.sample[x] = Far(f, -1)
                       /\ Sign(c, f) = f.side * (IF x = AxisB(a) THEN -1 ELSE 1)
  BY FaceTable, AxisFacts DEF Tabled, Low, High
<1>4. /\ AxisB(1) = 2 /\ AxisB(2) = 3 /\ AxisB(3) = 1
  BY DEF AxisB
<1>5. s.n[e] = 1 /\ s.n[k] > 1 /\ s.n[m] > 1
  BY Directions, Extents DEF Placed
<1>6. /\ c[1] = "E" => f.sampled = <<"H", o>> /\ Cosine(s, f) = IF o = m THEN HShare(s) ELSE 0
      /\ c[1] = "H" => f.sampled = <<"E", o>> /\ Cosine(s, f) = IF o = e THEN s.e[2] ELSE 0
  BY <1>2, <1>3, Shares DEF Cosine, Opposite
<1>7. HShare(s) # 0 /\ s.e[2] # 0
  BY Shares, AxisFacts
<1> HIDE DEF e, k, m, a, x, o
<1>8. CASE c[1] = "E"
  <2>1. Carries(s, c, f) => x # e /\ o = m
    BY <1>3, <1>5, <1>6, <1>7, <1>8 DEF Carries, x
  <2>2. x # e /\ o = m => a = e /\ x = k
    BY <1>1, <1>2, <1>3 DEF o
  <2>3. a = e /\ x = k => o = m /\ Front(s, c, f) /\ Carries(s, c, f)
    <3> SUFFICES ASSUME a = e, x = k
                 PROVE  o = m /\ Front(s, c, f) /\ Carries(s, c, f)
      OBVIOUS
    <3>1. o = m /\ <<a, x>> # <<3, 2>>
      BY <1>1 DEF o
    <3>2. (IF x = AxisB(a) THEN 1 ELSE -1) = Turn(s)
      BY <1>1, <1>4
    <3>3. c = EOf(s) /\ f.axis = s.k[1] /\ f.sampled = HOf(s)
      BY <1>2, <1>6, <1>8, <3>1 DEF EOf, HOf, e, k, m, x, a, o
    <3>4. f.move = Zero /\ f.sample[s.k[1]] = Far(f, 1) /\ Sign(c, f) = f.side * Turn(s)
      BY <1>3, <1>8, <3>1, <3>2 DEF k
    <3>5. Cosine(s, f) = HShare(s)
      BY <1>6, <1>8, <3>1
    <3> QED BY <1>5, <1>7, <3>1, <3>3, <3>4, <3>5 DEF Front, Carries, k, x
  <2>4. c # HOf(s) /\ c # TOf(s) /\ (c = EOf(s) => a = e)
    BY <1>8 DEF HOf, TOf, EOf, a, e
  <2> QED BY <2>1, <2>2, <2>3, <2>4 DEF x, k
<1>9. CASE c[1] = "H"
  <2>1. Carries(s, c, f) => x # e /\ o = e
    BY <1>3, <1>5, <1>6, <1>7, <1>9 DEF Carries, x
  <2>2. x # e /\ o = e => (a = m /\ x = k) \/ (a = k /\ x = m)
    BY <1>1, <1>2, <1>3 DEF o
  <2>3. a = m /\ x = k => o = e /\ Back(s, c, f) /\ Carries(s, c, f)
    <3> SUFFICES ASSUME a = m, x = k
                 PROVE  o = e /\ Back(s, c, f) /\ Carries(s, c, f)
      OBVIOUS
    <3>1. o = e /\ <<a, x>> \in {<<2, 3>>, <<3, 1>>, <<2, 1>>}
      BY <1>1 DEF o
    <3>2. (IF x = AxisB(a) THEN -1 ELSE 1) = Turn(s)
      BY <1>1, <1>4
    <3>3. c = HOf(s) /\ f.axis = s.k[1] /\ f.sampled = EOf(s)
      BY <1>2, <1>6, <1>9, <3>1 DEF EOf, HOf, e, k, m, x, a, o
    <3>4. /\ f.move[s.k[1]] = Far(f, 1) /\ f.move[Third(s)] = 0 /\ f.move[s.e[1]] = 1
          /\ f.sample[s.k[1]] = Far(f, -1) /\ Sign(c, f) = f.side * Turn(s)
      BY <1>3, <1>9, <3>1, <3>2 DEF k, m, e
    <3>5. Cosine(s, f) = s.e[2]
      BY <1>6, <1>9, <3>1
    <3> QED BY <1>5, <1>7, <3>1, <3>3, <3>4, <3>5 DEF Back, Carries, k, x
  <2>4. a = k /\ x = m => o = e /\ Edge(s, c, f) /\ Carries(s, c, f)
    <3> SUFFICES ASSUME a = k, x = m
                 PROVE  o = e /\ Edge(s, c, f) /\ Carries(s, c, f)
      OBVIOUS
    <3>1. o = e
      BY <1>1 DEF o
    <3>2. (IF x = AxisB(a) THEN -1 ELSE 1) = -Turn(s) /\ f.side * (-Turn(s)) = -(f.side * Turn(s))
      BY <1>1, <1>3, <1>4
    <3>3. c = TOf(s) /\ f.axis = Third(s) /\ f.sampled = EOf(s)
      BY <1>2, <1>6, <1>9, <3>1 DEF EOf, TOf, e, k, m, x, a, o
    <3>4. /\ f.move[Third(s)] = Far(f, 1) /\ f.move[s.k[1]] = 0 /\ f.move[s.e[1]] = 1
          /\ f.sample[s.k[1]] = 0 /\ Sign(c, f) = -(f.side * Turn(s))
      BY <1>3, <1>9, <3>1, <3>2 DEF k, m, e
    <3>5. Cosine(s, f) = s.e[2]
      BY <1>6, <1>9, <3>1
    <3> QED BY <1>5, <1>7, <3>1, <3>3, <3>4, <3>5 DEF Edge, Carries, m, x
  <2>5. c # EOf(s) /\ (c = HOf(s) => a = m) /\ (c = TOf(s) => a = k)
    BY <1>9 DEF HOf, TOf, EOf, a, m, k
  <2> QED BY <2>1, <2>2, <2>3, <2>4, <2>5 DEF x, k, m
<1> QED BY <1>2, <1>8, <1>9

-----------------------------------------------------------------------------
\* The cells of a face that carries the wave.

\* The corners of a face in cells.
LEMMA ElectricCorner ==
  ASSUME NEW s, Placed(s), Aligned(s), NEW f, f.axis \in Axes, f.side \in {Low, High},
         NEW d \in {Low, High}, NEW a \in Axes
  PROVE  SpaceToIndex(Serial(s.n), EOf(s), FaceCorner(s, f, d))[a] =
           IF a = s.e[1] THEN 0
           ELSE IF (IF a = f.axis THEN f.side ELSE d) = Low THEN First(s, a) ELSE Last(s, a)
<1> DEFINE x == FaceCorner(s, f, d)
           t == IF a = f.axis THEN f.side ELSE d
<1>1. x[a] = s.center[a] + t * s.half[a]
  BY DEF FaceCorner
<1>2. t = -1 \/ t = 1
  BY DEF Low, High
<1>3. s.center[a] \in Int /\ s.half[a] \in Int
  BY DEF Placed
<1>4. Low = -1 /\ High = 1
  BY DEF Low, High
<1>5. Serial(s.n).whole = s.n /\ Serial(s.n).off[a] = 0
  BY SerialFacts
<1> HIDE DEF x, t
<1>6. CASE a = s.e[1]
  <2>1. s.n[a] = 1 /\ EOf(s)[1] = "E"
    BY <1>6 DEF Placed, EOf
  <2> QED BY <1>5, <1>6, <2>1 DEF SpaceToIndex, x
<1>7. CASE a # s.e[1]
  <2>1. s.n[a] # 1
    BY <1>7, Extents
  <2>2. Stagger(EOf(s), a) = 0 /\ IndexOrigin(Serial(s.n), EOf(s), a) = 0
    BY <1>5, <1>7 DEF EOf, Stagger, IndexOrigin
  <2>3. SpaceToIndex(Serial(s.n), EOf(s), x)[a] = ((x[a] - 0 + 1) \div 2) - 0
    BY <1>5, <2>1, <2>2 DEF SpaceToIndex
  <2>4. /\ First(s, a) \in Int /\ Last(s, a) \in Int
        /\ 2 * First(s, a) = s.center[a] - s.half[a] /\ 2 * Last(s, a) = s.center[a] + s.half[a]
    BY <1>7, Extents
  <2>5. CASE t = -1
    <3>1. x[a] = 2 * First(s, a)
      BY <1>1, <1>3, <2>4, <2>5
    <3> QED BY <1>4, <1>7, <2>3, <2>4, <2>5, <3>1 DEF x, t
  <2>6. CASE t = 1
    <3>1. x[a] = 2 * Last(s, a)
      BY <1>1, <1>3, <2>4, <2>6
    <3> QED BY <1>4, <1>7, <2>3, <2>4, <2>6, <3>1 DEF x, t
  <2> QED BY <1>2, <2>5, <2>6
<1> QED BY <1>6, <1>7

\* In the box along an axis.
Between(s, a, i) == First(s, a) <= i /\ i <= Last(s, a)

\* The faces in cells.
LEMMA FrontSpans ==
  ASSUME NEW s, Placed(s), Aligned(s), NEW c \in Component, NEW f \in Faces(c), Front(s, c, f),
         NEW u \in Vectors
  PROVE  Spans(s, c, f, u) <=> /\ u[s.e[1]] = 0 /\ Between(s, Third(s), u[Third(s)])
                               /\ u[s.k[1]] = IF f.side = Low THEN First(s, s.k[1]) ELSE Last(s, s.k[1])
<1> DEFINE k == s.k[1]
           m == Third(s)
           e == s.e[1]
<1>1. /\ e \in Axes /\ k \in Axes /\ m \in Axes /\ e # k /\ e # m /\ k # m
      /\ \A a \in Axes : a = e \/ a = k \/ a = m
  BY Directions
<1>2. f.axis = k /\ f.side \in {Low, High} /\ f.move = Zero /\ c = EOf(s)
  BY FaceFacts DEF Front
<1>3. Bounding(c, f) = EOf(s)
  BY <1>2 DEF Bounding, EOf
<1>4. \A d \in {Low, High}, a \in Axes :
        Corner(s, c, f, d)[a] =
          (IF a = e THEN 0 ELSE IF (IF a = k THEN f.side ELSE d) = Low THEN First(s, a) ELSE Last(s, a)) + 0
  <2> TAKE d \in {Low, High}, a \in Axes
  <2>1. f.axis \in Axes /\ f.side \in {Low, High}
    BY <1>1, <1>2
  <2>2. SpaceToIndex(Serial(s.n), EOf(s), FaceCorner(s, f, d))[a] =
          IF a = s.e[1] THEN 0
          ELSE IF (IF a = f.axis THEN f.side ELSE d) = Low THEN First(s, a) ELSE Last(s, a)
    BY <2>1, ElectricCorner
  <2>3. Corner(s, c, f, d)[a] = SpaceToIndex(Serial(s.n), EOf(s), FaceCorner(s, f, d))[a] + f.move[a]
    BY <1>3 DEF Corner, Sum3
  <2>4. f.move[a] = 0
    BY <1>2 DEF Zero
  <2> QED BY <1>2, <2>2, <2>3, <2>4
<1>5. Low # High /\ Low \in {Low, High} /\ High \in {Low, High}
  BY DEF Low, High
<1>6. /\ First(s, k) \in Int /\ Last(s, k) \in Int /\ First(s, m) \in Int /\ Last(s, m) \in Int
      /\ u[e] \in Int /\ u[k] \in Int /\ u[m] \in Int
  BY <1>1, Extents DEF Vectors
<1>7. Spans(s, c, f, u) <=>
        /\ Corner(s, c, f, Low)[e] <= u[e] /\ u[e] <= Corner(s, c, f, High)[e]
        /\ Corner(s, c, f, Low)[k] <= u[k] /\ u[k] <= Corner(s, c, f, High)[k]
        /\ Corner(s, c, f, Low)[m] <= u[m] /\ u[m] <= Corner(s, c, f, High)[m]
  BY <1>1 DEF Spans
<1> HIDE DEF e, k, m
<1>8. /\ Corner(s, c, f, Low)[e] = 0 /\ Corner(s, c, f, High)[e] = 0
      /\ Corner(s, c, f, Low)[m] = First(s, m) /\ Corner(s, c, f, High)[m] = Last(s, m)
      /\ Corner(s, c, f, Low)[k] = IF f.side = Low THEN First(s, k) ELSE Last(s, k)
      /\ Corner(s, c, f, High)[k] = IF f.side = Low THEN First(s, k) ELSE Last(s, k)
  BY <1>1, <1>4, <1>5, <1>6
<1> QED BY <1>6, <1>7, <1>8 DEF Between, e, k, m

\* The faces that feed the magnetic field, one cell further at the far side.
LEMMA BackSpans ==
  ASSUME NEW s, Placed(s), Aligned(s), NEW c \in Component, NEW f \in Faces(c), Back(s, c, f),
         NEW u \in Vectors
  PROVE  Spans(s, c, f, u) <=> /\ u[s.e[1]] = 1 /\ Between(s, Third(s), u[Third(s)])
                               /\ u[s.k[1]] = IF f.side = Low THEN First(s, s.k[1]) ELSE Last(s, s.k[1]) + 1
<1> DEFINE k == s.k[1]
           m == Third(s)
           e == s.e[1]
<1>1. /\ e \in Axes /\ k \in Axes /\ m \in Axes /\ e # k /\ e # m /\ k # m
      /\ \A a \in Axes : a = e \/ a = k \/ a = m
  BY Directions
<1>2. /\ f.axis = k /\ f.side \in {Low, High} /\ c = HOf(s) /\ f.sampled = EOf(s)
      /\ f.move[k] = Far(f, 1) /\ f.move[m] = 0 /\ f.move[e] = 1
  BY FaceFacts DEF Back
<1>3. Bounding(c, f) = EOf(s)
  BY <1>2 DEF Bounding, HOf
<1>4. \A d \in {Low, High}, a \in Axes :
        Corner(s, c, f, d)[a] =
          (IF a = e THEN 0 ELSE IF (IF a = k THEN f.side ELSE d) = Low THEN First(s, a) ELSE Last(s, a)) + f.move[a]
  <2> TAKE d \in {Low, High}, a \in Axes
  <2>1. f.axis \in Axes /\ f.side \in {Low, High}
    BY <1>1, <1>2
  <2>2. SpaceToIndex(Serial(s.n), EOf(s), FaceCorner(s, f, d))[a] =
          IF a = s.e[1] THEN 0
          ELSE IF (IF a = f.axis THEN f.side ELSE d) = Low THEN First(s, a) ELSE Last(s, a)
    BY <2>1, ElectricCorner
  <2>3. Corner(s, c, f, d)[a] = SpaceToIndex(Serial(s.n), EOf(s), FaceCorner(s, f, d))[a] + f.move[a]
    BY <1>3 DEF Corner, Sum3
  <2> QED BY <1>2, <2>2, <2>3
<1>5. Low # High /\ Low \in {Low, High} /\ High \in {Low, High}
  BY DEF Low, High
<1>6. /\ First(s, k) \in Int /\ Last(s, k) \in Int /\ First(s, m) \in Int /\ Last(s, m) \in Int
      /\ u[e] \in Int /\ u[k] \in Int /\ u[m] \in Int
  BY <1>1, Extents DEF Vectors
<1>7. Spans(s, c, f, u) <=>
        /\ Corner(s, c, f, Low)[e] <= u[e] /\ u[e] <= Corner(s, c, f, High)[e]
        /\ Corner(s, c, f, Low)[k] <= u[k] /\ u[k] <= Corner(s, c, f, High)[k]
        /\ Corner(s, c, f, Low)[m] <= u[m] /\ u[m] <= Corner(s, c, f, High)[m]
  BY <1>1 DEF Spans
<1> HIDE DEF e, k, m
<1>8. /\ Corner(s, c, f, Low)[e] = 1 /\ Corner(s, c, f, High)[e] = 1
      /\ Corner(s, c, f, Low)[m] = First(s, m) /\ Corner(s, c, f, High)[m] = Last(s, m)
      /\ Corner(s, c, f, Low)[k] = IF f.side = Low THEN First(s, k) ELSE Last(s, k) + 1
      /\ Corner(s, c, f, High)[k] = IF f.side = Low THEN First(s, k) ELSE Last(s, k) + 1
  BY <1>1, <1>2, <1>4, <1>5, <1>6 DEF Far
<1> QED BY <1>6, <1>7, <1>8 DEF Between, e, k, m

\* The faces along the beam.
LEMMA EdgeSpans ==
  ASSUME NEW s, Placed(s), Aligned(s), NEW c \in Component, NEW f \in Faces(c), Edge(s, c, f),
         NEW u \in Vectors
  PROVE  Spans(s, c, f, u) <=> /\ u[s.e[1]] = 1 /\ Between(s, s.k[1], u[s.k[1]])
                               /\ u[Third(s)] = IF f.side = Low THEN First(s, Third(s)) ELSE Last(s, Third(s)) + 1
<1> DEFINE k == s.k[1]
           m == Third(s)
           e == s.e[1]
<1>1. /\ e \in Axes /\ k \in Axes /\ m \in Axes /\ e # k /\ e # m /\ k # m
      /\ \A a \in Axes : a = e \/ a = k \/ a = m
  BY Directions
<1>2. /\ f.axis = m /\ f.side \in {Low, High} /\ c = TOf(s) /\ f.sampled = EOf(s)
      /\ f.move[m] = Far(f, 1) /\ f.move[k] = 0 /\ f.move[e] = 1
  BY FaceFacts DEF Edge
<1>3. Bounding(c, f) = EOf(s)
  BY <1>2 DEF Bounding, TOf
<1>4. \A d \in {Low, High}, a \in Axes :
        Corner(s, c, f, d)[a] =
          (IF a = e THEN 0 ELSE IF (IF a = m THEN f.side ELSE d) = Low THEN First(s, a) ELSE Last(s, a)) + f.move[a]
  <2> TAKE d \in {Low, High}, a \in Axes
  <2>1. f.axis \in Axes /\ f.side \in {Low, High}
    BY <1>1, <1>2
  <2>2. SpaceToIndex(Serial(s.n), EOf(s), FaceCorner(s, f, d))[a] =
          IF a = s.e[1] THEN 0
          ELSE IF (IF a = f.axis THEN f.side ELSE d) = Low THEN First(s, a) ELSE Last(s, a)
    BY <2>1, ElectricCorner
  <2>3. Corner(s, c, f, d)[a] = SpaceToIndex(Serial(s.n), EOf(s), FaceCorner(s, f, d))[a] + f.move[a]
    BY <1>3 DEF Corner, Sum3
  <2> QED BY <1>2, <2>2, <2>3
<1>5. Low # High /\ Low \in {Low, High} /\ High \in {Low, High}
  BY DEF Low, High
<1>6. /\ First(s, k) \in Int /\ Last(s, k) \in Int /\ First(s, m) \in Int /\ Last(s, m) \in Int
      /\ u[e] \in Int /\ u[k] \in Int /\ u[m] \in Int
  BY <1>1, Extents DEF Vectors
<1>7. Spans(s, c, f, u) <=>
        /\ Corner(s, c, f, Low)[e] <= u[e] /\ u[e] <= Corner(s, c, f, High)[e]
        /\ Corner(s, c, f, Low)[k] <= u[k] /\ u[k] <= Corner(s, c, f, High)[k]
        /\ Corner(s, c, f, Low)[m] <= u[m] /\ u[m] <= Corner(s, c, f, High)[m]
  BY <1>1 DEF Spans
<1> HIDE DEF e, k, m
<1>8. /\ Corner(s, c, f, Low)[e] = 1 /\ Corner(s, c, f, High)[e] = 1
      /\ Corner(s, c, f, Low)[k] = First(s, k) /\ Corner(s, c, f, High)[k] = Last(s, k)
      /\ Corner(s, c, f, Low)[m] = IF f.side = Low THEN First(s, m) ELSE Last(s, m) + 1
      /\ Corner(s, c, f, High)[m] = IF f.side = Low THEN First(s, m) ELSE Last(s, m) + 1
  BY <1>1, <1>2, <1>4, <1>5, <1>6 DEF Far
<1> QED BY <1>6, <1>7, <1>8 DEF Between, e, k, m

-----------------------------------------------------------------------------
\* The cells of the auxiliary grid.
Origin(s) == (AuxHalf(s) - s.k[2] * s.center[s.k[1]]) \div 2
EIndex(s, i) == s.k[2] * i + Origin(s)
HIndex(s, i) == IF s.k[2] = 1 THEN i + Origin(s) ELSE Origin(s) - i + 1
ECell(s, i) == <<0, 0, EIndex(s, i)>>
HCell(s, i) == <<1, 0, HIndex(s, i)>>

\* The auxiliary line is long enough for the box between two margins.
LEMMA OriginFacts ==
  ASSUME NEW s, Placed(s), Aligned(s)
  PROVE  /\ AuxHalf(s) \in Nat /\ AuxHalf(s) > 1 /\ Origin(s) \in Int /\ s.center[s.k[1]] \in Int
         /\ 2 * Origin(s) = AuxHalf(s) - s.k[2] * s.center[s.k[1]]
         /\ AuxHalf(s) = s.half[s.k[1]] + 2 * Pml + 4 /\ Pml \in Nat /\ s.half[s.k[1]] \in Nat
<1>1. /\ s.k[1] \in Axes /\ s.k[1] # s.e[1] /\ s.k[2] \in {1, -1}
  BY Directions
<1>2. /\ s.center[s.k[1]] \in Int /\ s.half[s.k[1]] \in Nat
      /\ (s.center[s.k[1]] - s.half[s.k[1]]) % 2 = 0
  BY <1>1 DEF Placed
<1>3. Pml \in Nat
  BY LaunchAssumption
<1>4. AuxHalf(s) = s.half[s.k[1]] + 2 * (Pml + 2)
  BY DEF AuxHalf, MaxDistance
<1>5. AuxHalf(s) = s.half[s.k[1]] + 2 * Pml + 4 /\ AuxHalf(s) \in Nat /\ AuxHalf(s) > 1
  BY <1>2, <1>3, <1>4
<1>6. CASE s.k[2] = 1
  BY <1>2, <1>3, <1>5, <1>6 DEF Origin
<1>7. CASE s.k[2] = -1
  BY <1>2, <1>3, <1>5, <1>7 DEF Origin
<1> QED BY <1>1, <1>2, <1>3, <1>5, <1>6, <1>7

\* The cell of the auxiliary line that a point of the domain samples.
LEMMA AuxIndexes ==
  ASSUME NEW s, Placed(s), Aligned(s), NEW i \in Int, NEW x
  PROVE  /\ x[s.k[1]] = 2 * i => AuxIndex(s, <<"E", 1>>, Metric(s, x)) = ECell(s, i)
         /\ x[s.k[1]] = 2 * i - 1 => AuxIndex(s, <<"H", 2>>, Metric(s, x)) = HCell(s, i)
         /\ AuxIndex(s, <<"E", 1>>, -MaxDistance(s) - 2) = <<0, 0, Pml + 1>>
<1> DEFINE N == AuxHalf(s)
           O == Origin(s)
           C == s.center[s.k[1]]
<1>1. /\ N \in Nat /\ N > 1 /\ O \in Int /\ C \in Int /\ 2 * O = N - s.k[2] * C
      /\ N = s.half[s.k[1]] + 2 * Pml + 4 /\ Pml \in Nat /\ s.half[s.k[1]] \in Nat
  BY OriginFacts
<1>2. s.k[2] \in {1, -1} /\ Axes = {1, 2, 3}
  BY Directions, AxisFacts
<1>3. AuxGrid(s).whole = <<1, 1, N>> /\ \A a \in Axes : AuxGrid(s).off[a] = 0 /\ AuxGrid(s).at[a] = 0
  BY SerialFacts DEF AuxGrid
<1>4. ASSUME NEW d \in Int
      PROVE  /\ AuxIndex(s, <<"E", 1>>, d) = <<0, 0, (d + N + 1) \div 2>>
             /\ AuxIndex(s, <<"H", 2>>, d) = <<1, 0, (d + N + 2) \div 2>>
  <2> DEFINE y == <<0, 0, d + N>>
  <2>1. /\ AuxIndex(s, <<"E", 1>>, d) = SpaceToIndex(AuxGrid(s), <<"E", 1>>, y)
        /\ AuxIndex(s, <<"H", 2>>, d) = SpaceToIndex(AuxGrid(s), <<"H", 2>>, y)
    BY DEF AuxIndex
  <2>2. /\ SpaceToIndex(AuxGrid(s), <<"E", 1>>, y) \in Vectors
        /\ SpaceToIndex(AuxGrid(s), <<"H", 2>>, y) \in Vectors
    <3>1. \A a \in Axes : y[a] \in Int
      BY <1>1, <1>2
    <3>2. \A c, a : Stagger(c, a) \in Int
      BY DEF Stagger
    <3>3. \A c : \A a \in Axes : IndexOrigin(AuxGrid(s), c, a) \in Int
      <4>1. \A a \in Axes : <<1, 1, N>>[a] \in Int
        BY <1>1, <1>2
      <4>2. \A z \in Int : 0 * z = 0
        OBVIOUS
      <4>3. ASSUME NEW c, NEW a \in Axes
            PROVE  IndexOrigin(AuxGrid(s), c, a) = 0
        <5>1. AuxGrid(s).whole[a] \in Int
          BY <1>3, <4>1
        <5>2. AuxGrid(s).off[a] = 0 /\ AuxGrid(s).at[a] * AuxGrid(s).whole[a] = 0
          BY <1>3, <4>2, <5>1
        <5> QED BY <5>2 DEF IndexOrigin
      <4> QED BY <4>3
    <3> QED BY <3>1, <3>2, <3>3 DEF SpaceToIndex, Vectors
  <2>3. /\ SpaceToIndex(AuxGrid(s), <<"E", 1>>, y)[1] = 0
        /\ SpaceToIndex(AuxGrid(s), <<"E", 1>>, y)[2] = 0
        /\ SpaceToIndex(AuxGrid(s), <<"H", 2>>, y)[1] = 1
        /\ SpaceToIndex(AuxGrid(s), <<"H", 2>>, y)[2] = 0
    BY <1>2, <1>3 DEF SpaceToIndex
  <2>4. /\ SpaceToIndex(AuxGrid(s), <<"E", 1>>, y)[3] = ((d + N - 0 + 1) \div 2) - 0
        /\ SpaceToIndex(AuxGrid(s), <<"H", 2>>, y)[3] = ((d + N - (-1) + 1) \div 2) - 0 * N
    BY <1>1, <1>2, <1>3 DEF SpaceToIndex, Stagger, IndexOrigin
  <2>5. /\ (d + N - 0 + 1) \div 2 - 0 = (d + N + 1) \div 2
        /\ (d + N - (-1) + 1) \div 2 - 0 * N = (d + N + 2) \div 2
    BY <1>1
  <2>6. <<0, 0, (d + N + 1) \div 2>> \in Vectors /\ <<1, 0, (d + N + 2) \div 2>> \in Vectors
    BY <1>1 DEF Vectors, Axes
  <2> QED BY <1>2, <2>1, <2>2, <2>3, <2>4, <2>5, <2>6, VectorEqual
<1>5. Metric(s, x) = s.k[2] * (x[s.k[1]] - C)
  BY DEF Metric
<1>6. ASSUME x[s.k[1]] = 2 * i
      PROVE  Metric(s, x) \in Int /\ (Metric(s, x) + N + 1) \div 2 = EIndex(s, i)
  <2>1. CASE s.k[2] = 1
    <3>1. Metric(s, x) = 2 * i - C /\ 2 * O = N - C
      BY <1>1, <1>5, <1>6, <2>1
    <3>2. EIndex(s, i) = i + O
      BY <1>1, <2>1 DEF EIndex
    <3>3. (2 * (i + O) + 1) \div 2 = i + O
      BY <1>1
    <3> HIDE DEF N, O, C
    <3>4. Metric(s, x) + N + 1 = 2 * (i + O) + 1 /\ Metric(s, x) \in Int
      BY <1>1, <3>1
    <3> QED BY <3>2, <3>3, <3>4
  <2>2. CASE s.k[2] = -1
    <3>1. Metric(s, x) + N + 1 = 2 * (-i + O) + 1
      BY <1>1, <1>5, <1>6, <2>2
    <3> QED BY <1>1, <1>5, <1>6, <2>2, <3>1 DEF EIndex
  <2> QED BY <1>2, <2>1, <2>2
<1>7. ASSUME x[s.k[1]] = 2 * i - 1
      PROVE  Metric(s, x) \in Int /\ (Metric(s, x) + N + 2) \div 2 = HIndex(s, i)
  <2>1. CASE s.k[2] = 1
    <3>1. Metric(s, x) = 2 * i - 1 - C /\ 2 * O = N - C
      BY <1>1, <1>5, <1>7, <2>1
    <3>2. HIndex(s, i) = i + O
      BY <1>1, <2>1 DEF HIndex
    <3>3. (2 * (i + O) + 1) \div 2 = i + O
      BY <1>1
    <3> HIDE DEF N, O, C
    <3>4. Metric(s, x) + N + 2 = 2 * (i + O) + 1 /\ Metric(s, x) \in Int
      BY <1>1, <3>1
    <3> QED BY <3>2, <3>3, <3>4
  <2>2. CASE s.k[2] = -1
    <3>1. Metric(s, x) + N + 2 = 2 * (O - i + 1) + 1
      BY <1>1, <1>5, <1>7, <2>2
    <3> QED BY <1>1, <1>5, <1>7, <2>2, <3>1 DEF HIndex
  <2> QED BY <1>2, <2>1, <2>2
<1>8. -MaxDistance(s) - 2 \in Int /\ (-MaxDistance(s) - 2 + N + 1) \div 2 = Pml + 1
  BY <1>1 DEF MaxDistance
<1> QED BY <1>4, <1>6, <1>7, <1>8 DEF ECell, HCell

\* Where the box lies in the auxiliary grid: past the source and before the end.
LEMMA IndexRange ==
  ASSUME NEW s, Placed(s), Aligned(s), NEW i \in Int
  PROVE  /\ EIndex(s, i) \in Int /\ HIndex(s, i) \in Int
         /\ IF s.k[2] = 1 THEN EIndex(s, i) = i + Origin(s) ELSE EIndex(s, i) = Origin(s) - i
         /\ Between(s, s.k[1], i) => Pml + 1 < EIndex(s, i) /\ EIndex(s, i) < AuxHalf(s)
         /\ Between(s, s.k[1], i) /\ Between(s, s.k[1], i - 1) => 1 <= HIndex(s, i) /\ HIndex(s, i) < AuxHalf(s)
<1>1. /\ AuxHalf(s) \in Nat /\ Origin(s) \in Int /\ s.center[s.k[1]] \in Int
      /\ 2 * Origin(s) = AuxHalf(s) - s.k[2] * s.center[s.k[1]]
      /\ AuxHalf(s) = s.half[s.k[1]] + 2 * Pml + 4 /\ Pml \in Nat /\ s.half[s.k[1]] \in Nat
  BY OriginFacts
<1>2. s.k[2] \in {1, -1} /\ s.k[1] \in Axes /\ s.k[1] # s.e[1]
  BY Directions
<1>3. /\ First(s, s.k[1]) \in Int /\ Last(s, s.k[1]) \in Int
      /\ 2 * First(s, s.k[1]) = s.center[s.k[1]] - s.half[s.k[1]]
      /\ 2 * Last(s, s.k[1]) = s.center[s.k[1]] + s.half[s.k[1]]
  BY <1>2, Extents
<1>4. CASE s.k[2] = 1
  BY <1>1, <1>3, <1>4 DEF EIndex, HIndex, Between
<1>5. CASE s.k[2] = -1
  BY <1>1, <1>3, <1>5 DEF EIndex, HIndex, Between
<1> QED BY <1>2, <1>4, <1>5

-----------------------------------------------------------------------------
\* The plan, cell by cell.

\* A view and the whole domain give a target the same rule.
LEMMA RuleView ==
  ASSUME NEW s, Placed(s), NEW g \in Views(s), NEW c \in Component, NEW f \in Faces(c),
         NEW v \in Vectors
  PROVE  Rule(g, s, c, f, v) = Rule(Serial(s.n), s, c, f, Sum3(v, g.off))
<1>1. g.off \in [Axes -> Nat]
  BY ViewFacts
<1>2. f.sample \in Vectors
  BY FaceFacts
<1>3. \A a \in Axes : /\ v[a] \in Int /\ g.off[a] \in Int /\ f.sample[a] \in Int
                      /\ Stagger(f.sampled, a) \in Int
  BY <1>1, <1>2 DEF Vectors, Stagger
<1>4. ASSUME NEW a \in Axes
      PROVE  2 * (Sum3(v, f.sample)[a] + g.off[a]) + Stagger(f.sampled, a)
               = 2 * (Sum3(Sum3(v, g.off), f.sample)[a] + Serial(s.n).off[a]) + Stagger(f.sampled, a)
  <2>1. Serial(s.n).off[a] = 0
    BY SerialFacts
  <2>2. /\ Sum3(v, f.sample)[a] = v[a] + f.sample[a]
        /\ Sum3(Sum3(v, g.off), f.sample)[a] = (v[a] + g.off[a]) + f.sample[a]
    BY DEF Sum3
  <2> QED BY <1>3, <2>1, <2>2
<1>5. IndexToSpace(g, f.sampled, Sum3(v, f.sample))
        = IndexToSpace(Serial(s.n), f.sampled, Sum3(Sum3(v, g.off), f.sample))
  BY <1>4 DEF IndexToSpace
<1> QED BY <1>5 DEF Rule

\* The rules a view lowers.
LEMMA LoweredIs ==
  ASSUME NEW s, Placed(s), NEW g \in Views(s), NEW r
  PROVE  r \in Lowered(g, s) <=>
           \E c \in Component : \E f \in Faces(c) : \E u \in Vectors :
             /\ Carries(s, c, f) /\ Owned(g, c, u) /\ Spans(s, c, f, u)
             /\ r = <<c, u, Rule(Serial(s.n), s, c, f, u)>>
<1>0. g.off \in [Axes -> Nat]
  BY ViewFacts
<1>1. r \in Lowered(g, s) <=>
        \E c \in Component : \E f \in Faces(c) : Cosine(s, f) # 0 /\
          \E v \in Targets(g, s, c, f) : r = <<c, Sum3(v, g.off), Rule(g, s, c, f, v)>>
  BY DEF Lowered
<1>2. ASSUME NEW c \in Component, NEW f \in Faces(c)
      PROVE  (Cosine(s, f) # 0 /\ \E v \in Targets(g, s, c, f) : r = <<c, Sum3(v, g.off), Rule(g, s, c, f, v)>>)
             <=> \E u \in Vectors :
                   /\ Carries(s, c, f) /\ Owned(g, c, u) /\ Spans(s, c, f, u)
                   /\ r = <<c, u, Rule(Serial(s.n), s, c, f, u)>>
  <2>1. ASSUME Cosine(s, f) # 0, NEW v \in Targets(g, s, c, f),
               r = <<c, Sum3(v, g.off), Rule(g, s, c, f, v)>>
        PROVE  \E u \in Vectors :
                   /\ Carries(s, c, f) /\ Owned(g, c, u) /\ Spans(s, c, f, u)
                   /\ r = <<c, u, Rule(Serial(s.n), s, c, f, u)>>
    <3>1. /\ v \in Vectors /\ s.n[f.axis] > 1
          /\ Owned(g, c, Sum3(v, g.off)) /\ Spans(s, c, f, Sum3(v, g.off))
      BY TargetIs
    <3>2. Sum3(v, g.off) \in Vectors
      BY <1>0, <3>1 DEF Sum3, Vectors
    <3>3. Rule(g, s, c, f, v) = Rule(Serial(s.n), s, c, f, Sum3(v, g.off))
      BY <3>1, RuleView
    <3> QED BY <2>1, <3>1, <3>2, <3>3 DEF Carries
  <2>2. ASSUME NEW u \in Vectors, Carries(s, c, f), Owned(g, c, u), Spans(s, c, f, u),
               r = <<c, u, Rule(Serial(s.n), s, c, f, u)>>
        PROVE  Cosine(s, f) # 0 /\ \E v \in Targets(g, s, c, f) : r = <<c, Sum3(v, g.off), Rule(g, s, c, f, v)>>
    <3> DEFINE v == [a \in Axes |-> u[a] - g.off[a]]
    <3>1. v \in Vectors /\ Sum3(v, g.off) \in Vectors /\ \A a \in Axes : Sum3(v, g.off)[a] = u[a]
      BY <1>0 DEF Sum3, Vectors
    <3> HIDE DEF v
    <3>2. Sum3(v, g.off) = u
      BY <3>1, VectorEqual
    <3>3. v \in Targets(g, s, c, f)
      BY <2>2, <3>1, <3>2, TargetIs DEF Carries
    <3>4. Rule(g, s, c, f, v) = Rule(Serial(s.n), s, c, f, u)
      BY <3>1, <3>2, RuleView
    <3> QED BY <2>2, <3>2, <3>3, <3>4 DEF Carries
  <2> QED BY <2>1, <2>2
<1> QED BY <1>1, <1>2

\* The faces that add to a cell.
Ruled(s, c, u) == {f \in Faces(c) : Carries(s, c, f) /\ Spans(s, c, f, u)}

\* The terms a view at a place gives a cell.
TermsOf(s, c, u, at) == {<<at, Rule(Serial(s.n), s, c, f, u)>> : f \in Ruled(s, c, u)}

\* The plan gives a cell the rules of its faces, lowered once, by the owner of the cell.
LEMMA PlanIs ==
  ASSUME NEW s, Placed(s), NEW c \in Component, NEW u \in Vectors, Owned(Serial(s.n), c, u)
  PROVE  \E at :
           IF Ruled(s, c, u) = {} THEN <<c, u>> \notin DOMAIN SourcePlan(s)
           ELSE /\ <<c, u>> \in DOMAIN SourcePlan(s)
                /\ SourcePlan(s)[<<c, u>>] = TermsOf(s, c, u, at)
<1> DEFINE terms == UNION {{<<r[1], r[2], g.at, r[3]>> : r \in Lowered(g, s)} : g \in Views(s)}
           R(f) == Rule(Serial(s.n), s, c, f, u)
<1>1. PICK g \in Views(s) : Owned(g, c, u)
  BY OneOwner
<1>2. \A h \in Views(s) : Owned(h, c, u) => h = g
  BY <1>1, OneOwner
<1>3. /\ DOMAIN SourcePlan(s) = {<<r[1], r[2]>> : r \in terms}
      /\ \A t \in {<<r[1], r[2]>> : r \in terms} :
           SourcePlan(s)[t] = {<<r[3], r[4]>> : r \in {r \in terms : <<r[1], r[2]>> = t}}
  BY DEF SourcePlan
<1>4. \A x : x \in terms <=> \E h \in Views(s) : \E r \in Lowered(h, s) : x = <<r[1], r[2], h.at, r[3]>>
  OBVIOUS
<1> HIDE DEF terms
<1>5. ASSUME NEW x \in terms, x[1] = c, x[2] = u
      PROVE  \E f \in Ruled(s, c, u) : x[3] = g.at /\ x[4] = R(f)
  <2>1. PICK h \in Views(s) : \E r \in Lowered(h, s) : x = <<r[1], r[2], h.at, r[3]>>
    BY <1>4
  <2>2. PICK r \in Lowered(h, s) : x = <<r[1], r[2], h.at, r[3]>>
    BY <2>1
  <2>3. PICK c2 \in Component : \E f \in Faces(c2) : \E u2 \in Vectors :
             /\ Carries(s, c2, f) /\ Owned(h, c2, u2) /\ Spans(s, c2, f, u2)
             /\ r = <<c2, u2, Rule(Serial(s.n), s, c2, f, u2)>>
    BY LoweredIs
  <2>4. PICK f \in Faces(c2) : \E u2 \in Vectors :
             /\ Carries(s, c2, f) /\ Owned(h, c2, u2) /\ Spans(s, c2, f, u2)
             /\ r = <<c2, u2, Rule(Serial(s.n), s, c2, f, u2)>>
    BY <2>3
  <2>5. PICK u2 \in Vectors :
             /\ Carries(s, c2, f) /\ Owned(h, c2, u2) /\ Spans(s, c2, f, u2)
             /\ r = <<c2, u2, Rule(Serial(s.n), s, c2, f, u2)>>
    BY <2>4
  <2>6. c2 = c /\ u2 = u
    BY <1>5, <2>2, <2>5
  <2>7. h = g
    BY <1>2, <2>5, <2>6
  <2>8. f \in Ruled(s, c, u)
    BY <2>5, <2>6 DEF Ruled
  <2> QED BY <2>2, <2>5, <2>6, <2>7, <2>8
<1>6. ASSUME NEW f \in Ruled(s, c, u)
      PROVE  <<c, u, g.at, R(f)>> \in terms
  <2>1. f \in Faces(c) /\ Carries(s, c, f) /\ Spans(s, c, f, u)
    BY DEF Ruled
  <2>2. <<c, u, R(f)>> \in Lowered(g, s)
    BY <1>1, <2>1, LoweredIs
  <2> DEFINE r == <<c, u, R(f)>>
  <2>3. <<c, u, g.at, R(f)>> = <<r[1], r[2], g.at, r[3]>>
    OBVIOUS
  <2> QED BY <1>4, <2>2, <2>3
<1> HIDE DEF R
<1>7. CASE Ruled(s, c, u) = {}
  <2>1. <<c, u>> \notin {<<r[1], r[2]>> : r \in terms}
    <3> SUFFICES ASSUME NEW r \in terms, <<c, u>> = <<r[1], r[2]>>
                 PROVE  FALSE
      OBVIOUS
    <3>1. r[1] = c /\ r[2] = u
      OBVIOUS
    <3> QED BY <1>5, <1>7, <3>1
  <2> QED BY <1>3, <1>7, <2>1
<1>8. CASE Ruled(s, c, u) # {}
  <2>1. PICK f0 \in Ruled(s, c, u) : TRUE
    BY <1>8
  <2> DEFINE r0 == <<c, u, g.at, R(f0)>>
             t == <<c, u>>
  <2>2. t \in {<<r[1], r[2]>> : r \in terms}
    <3>1. r0 \in terms /\ <<r0[1], r0[2]>> = t
      BY <1>6
    <3> QED BY <3>1
  <2>3. SourcePlan(s)[t] = {<<r[3], r[4]>> : r \in {r \in terms : <<r[1], r[2]>> = t}}
    BY <1>3, <2>2
  <2>4. ASSUME NEW y \in {<<r[3], r[4]>> : r \in {r \in terms : <<r[1], r[2]>> = t}}
        PROVE  y \in {<<g.at, R(f)>> : f \in Ruled(s, c, u)}
    <3>1. PICK r \in terms : <<r[1], r[2]>> = t /\ y = <<r[3], r[4]>>
      BY <2>4
    <3>2. r[1] = c /\ r[2] = u
      BY <3>1
    <3>3. PICK f \in Ruled(s, c, u) : r[3] = g.at /\ r[4] = R(f)
      BY <1>5, <3>2
    <3> QED BY <3>1, <3>3
  <2>5. ASSUME NEW y \in {<<g.at, R(f)>> : f \in Ruled(s, c, u)}
        PROVE  y \in {<<r[3], r[4]>> : r \in {r \in terms : <<r[1], r[2]>> = t}}
    <3>1. PICK f \in Ruled(s, c, u) : y = <<g.at, R(f)>>
      BY <2>5
    <3> DEFINE r == <<c, u, g.at, R(f)>>
    <3>2. r \in terms /\ <<r[1], r[2]>> = t /\ <<r[3], r[4]>> = y
      BY <1>6, <3>1
    <3> QED BY <3>2
  <2>6. SourcePlan(s)[t] = {<<g.at, R(f)>> : f \in Ruled(s, c, u)}
    BY <2>3, <2>4, <2>5
  <2>7. SourcePlan(s)[t] = TermsOf(s, c, u, g.at)
    BY <2>6 DEF R, TermsOf
  <2> QED BY <1>3, <1>8, <2>2, <2>7
<1> QED BY <1>7, <1>8

-----------------------------------------------------------------------------
\* The sum of one term or of two.
Term(r, A) == r[2].factor * A[r[2].sample]
Pick(s) == CHOOSE x \in s : TRUE
Sums(iter, S, A) ==
  iter = [s \in SUBSET S |-> IF s = {} THEN 0 ELSE Term(Pick(s), A) + iter[s \ {Pick(s)}]]
Partial(S, A) == CHOOSE iter : Sums(iter, S, A)

\* A sum picks its terms one after the other.
LEMMA TotalIs ==
  ASSUME NEW S, NEW A
  PROVE  Total(S, A) = Partial(S, A)[S]
BY DEF Total, SetsExt!MapThenSumSet, SetsExt!MapThenFoldSet, Partial, Sums, Pick, Term

\* The sum of one term, or of two.
LEMMA TotalTwo ==
  ASSUME NEW x, NEW y, NEW A, Term(x, A) \in Int, Term(y, A) \in Int
  PROVE  Total({x, y}, A) = IF x = y THEN Term(x, A) ELSE Term(x, A) + Term(y, A)
<1> DEFINE S == {x, y}
           T(r) == Term(r, A)
           it == [s \in SUBSET S |-> IF s = {} THEN 0
                    ELSE T(Pick(s)) + (IF s \ {Pick(s)} = {} THEN 0 ELSE T(Pick(s \ {Pick(s)})))]
           last == Partial(S, A)
<1>1. \A s \in SUBSET S : s # {} => Pick(s) \in s /\ T(Pick(s)) \in Int
  <2>1. \A s : s # {} => Pick(s) \in s
    BY DEF Pick
  <2> QED BY <2>1
<1> HIDE DEF T
<1>2. \A s \in SUBSET S : s # {} =>
        /\ s \ {Pick(s)} \in SUBSET S
        /\ s \ {Pick(s)} # {} => (s \ {Pick(s)}) \ {Pick(s \ {Pick(s)})} = {}
  <2> SUFFICES ASSUME NEW s \in SUBSET S, s # {}
               PROVE  /\ s \ {Pick(s)} \in SUBSET S
                      /\ s \ {Pick(s)} # {} => (s \ {Pick(s)}) \ {Pick(s \ {Pick(s)})} = {}
    OBVIOUS
  <2> DEFINE p == Pick(s)
             q == Pick(s \ {p})
  <2>1. p \in s
    BY <1>1
  <2>2. s \ {p} \in SUBSET S
    OBVIOUS
  <2>3. s \ {p} # {} => q \in s \ {p}
    BY <1>1, <2>2
  <2> HIDE DEF p, q
  <2>4. s \ {p} # {} => (s \ {p}) \ {q} = {}
    BY <2>1, <2>3
  <2> QED BY <2>2, <2>4 DEF p, q
<1>3. ASSUME NEW s \in SUBSET S
      PROVE  it[s] = IF s = {} THEN 0 ELSE T(Pick(s)) + it[s \ {Pick(s)}]
  <2>1. CASE s = {}
    BY <2>1
  <2>2. CASE s # {}
    <3> DEFINE r == s \ {Pick(s)}
    <3>1. r \in SUBSET S /\ (r # {} => r \ {Pick(r)} = {})
      BY <1>2, <2>2
    <3>2. it[s] = T(Pick(s)) + (IF r = {} THEN 0 ELSE T(Pick(r)))
      BY <2>2
    <3>3. it[r] = IF r = {} THEN 0 ELSE T(Pick(r)) + (IF r \ {Pick(r)} = {} THEN 0 ELSE T(Pick(r \ {Pick(r)})))
      BY <3>1
    <3>4. r # {} => T(Pick(r)) \in Int
      BY <1>1, <3>1
    <3> HIDE DEF it, r
    <3>5. it[r] = IF r = {} THEN 0 ELSE T(Pick(r))
      BY <3>1, <3>3, <3>4
    <3> QED BY <2>2, <3>2, <3>5 DEF r
  <2> QED BY <2>1, <2>2
<1>4. it = [s \in SUBSET S |-> IF s = {} THEN 0 ELSE T(Pick(s)) + it[s \ {Pick(s)}]]
  <2>1. it = [s \in SUBSET S |-> it[s]]
    OBVIOUS
  <2> HIDE DEF it
  <2> QED BY <1>3, <2>1
<1>5. Sums(it, S, A)
  BY <1>4 DEF Sums, T
<1> HIDE DEF it
<1>6. Sums(last, S, A)
  BY <1>5 DEF Partial
<1> HIDE DEF last
<1>7. \A s \in SUBSET S : last[s] = IF s = {} THEN 0 ELSE T(Pick(s)) + last[s \ {Pick(s)}]
  BY <1>6 DEF Sums, T
<1>8. {} \in SUBSET S /\ S \in SUBSET S /\ S # {} /\ last[{}] = 0
  BY <1>7
<1>9. T(x) \in Int /\ T(y) \in Int
  BY DEF T
<1>10. \A r \in S : {r} \in SUBSET S /\ {r} # {} /\ Pick({r}) = r /\ {r} \ {Pick({r})} = {}
  BY <1>1
<1>11. \A r \in S : last[{r}] = T(r)
  <2> TAKE r \in S
  <2>1. last[{r}] = T(Pick({r})) + last[{r} \ {Pick({r})}]
    BY <1>7, <1>10
  <2>2. T(r) \in Int
    BY <1>9
  <2> QED BY <1>8, <1>10, <2>1, <2>2
<1>12. last[S] = IF x = y THEN T(x) ELSE T(x) + T(y)
  <2>1. CASE x = y
    BY <1>11, <2>1
  <2>2. CASE x # y
    <3>1. last[S] = T(Pick(S)) + last[S \ {Pick(S)}] /\ Pick(S) \in S
      BY <1>1, <1>7, <1>8
    <3>2. CASE Pick(S) = x
      <4>1. S \ {Pick(S)} = {y}
        BY <2>2, <3>2
      <4> QED BY <1>9, <1>11, <2>2, <3>1, <3>2, <4>1
    <3>3. CASE Pick(S) = y
      <4>1. S \ {Pick(S)} = {x}
        BY <2>2, <3>3
      <4>2. last[S] = T(y) + T(x)
        BY <1>11, <3>1, <3>3, <4>1
      <4> QED BY <1>9, <2>2, <4>2
    <3> QED BY <3>1, <3>2, <3>3
  <2> QED BY <2>1, <2>2
<1> QED BY <1>12, TotalIs DEF T, last

-----------------------------------------------------------------------------
\* What a face adds to a cell.
Share(s, c, u, f, A) ==
  LET r == Rule(Serial(s.n), s, c, f, u)
  IN  IF f \in Ruled(s, c, u) THEN r.factor * A[r.sample] ELSE 0

\* The sum of the rules of a cell is what its two faces add.
LEMMA FaceSum ==
  ASSUME NEW s, Placed(s), NEW c \in Component, NEW u \in Vectors, Owned(Serial(s.n), c, u),
         NEW lo, NEW hi, lo.side # hi.side, Ruled(s, c, u) \subseteq {lo, hi}, NEW A,
         \A f \in Ruled(s, c, u) : Share(s, c, u, f, A) \in Int
  PROVE  LET sum == Share(s, c, u, lo, A) + Share(s, c, u, hi, A)
         IN  IF <<c, u>> \in DOMAIN SourcePlan(s) THEN Total(SourcePlan(s)[<<c, u>>], A) = sum ELSE sum = 0
<1>1. PICK at :
        IF Ruled(s, c, u) = {} THEN <<c, u>> \notin DOMAIN SourcePlan(s)
        ELSE /\ <<c, u>> \in DOMAIN SourcePlan(s)
             /\ SourcePlan(s)[<<c, u>>] = TermsOf(s, c, u, at)
  BY PlanIs
<1> DEFINE R(f) == Rule(Serial(s.n), s, c, f, u)
           W == Ruled(s, c, u)
<1> DEFINE t(f) == <<at, R(f)>>
<1>2. t(lo) # t(hi)
  <2>1. R(lo).face = <<lo.axis, lo.side>> /\ R(hi).face = <<hi.axis, hi.side>>
    BY DEF Rule
  <2>2. R(lo) # R(hi)
    BY <2>1
  <2> HIDE DEF R
  <2> QED BY <2>2
<1>3. \A f \in W : Term(t(f), A) = Share(s, c, u, f, A) /\ Term(t(f), A) \in Int
  BY DEF Term, Share
<1>4. \A f : f \notin W => Share(s, c, u, f, A) = 0
  BY DEF Share
<1>5. CASE W = {}
  BY <1>1, <1>4, <1>5
<1>6. CASE W # {}
  <2>1. <<c, u>> \in DOMAIN SourcePlan(s) /\ SourcePlan(s)[<<c, u>>] = {t(f) : f \in W}
    BY <1>1, <1>6 DEF TermsOf
  <2> HIDE DEF t, W
  <2>2. CASE lo \in W /\ hi \in W
    <3>1. {t(f) : f \in W} = {t(lo), t(hi)}
      BY <2>2 DEF W
    <3>2. Total({t(lo), t(hi)}, A) = Term(t(lo), A) + Term(t(hi), A)
      BY <1>2, <1>3, <2>2, TotalTwo
    <3> QED BY <1>3, <2>1, <2>2, <3>1, <3>2
  <2>3. CASE lo \in W /\ hi \notin W
    <3>1. {t(f) : f \in W} = {t(lo), t(lo)}
      BY <2>3 DEF W
    <3>2. Total({t(lo), t(lo)}, A) = Term(t(lo), A)
      BY <1>3, <2>3, TotalTwo
    <3>3. Share(s, c, u, hi, A) = 0 /\ Share(s, c, u, lo, A) \in Int
      BY <1>3, <1>4, <2>3
    <3>4. Total(SourcePlan(s)[<<c, u>>], A) = Share(s, c, u, lo, A)
      BY <1>3, <2>1, <2>3, <3>1, <3>2
    <3> QED BY <2>1, <3>3, <3>4
  <2>4. CASE lo \notin W /\ hi \in W
    <3>1. {t(f) : f \in W} = {t(hi), t(hi)}
      BY <2>4 DEF W
    <3>2. Total({t(hi), t(hi)}, A) = Term(t(hi), A)
      BY <1>3, <2>4, TotalTwo
    <3>3. Share(s, c, u, lo, A) = 0 /\ Share(s, c, u, hi, A) \in Int
      BY <1>3, <1>4, <2>4
    <3>4. Total(SourcePlan(s)[<<c, u>>], A) = Share(s, c, u, hi, A)
      BY <1>3, <2>1, <2>4, <3>1, <3>2
    <3> QED BY <2>1, <3>3, <3>4
  <2>5. lo \in W \/ hi \in W
    BY <1>6 DEF W
  <2> QED BY <2>2, <2>3, <2>4, <2>5
<1> QED BY <1>5, <1>6

-----------------------------------------------------------------------------
\* The wave in the cells of the domain, as the auxiliary fields A carry it.
PE(s, A, i) == s.e[2] * Amp * A[<<"E", 1>>][ECell(s, i)]
PH(s, A, i) == HShare(s) * Amp * A[<<"H", 2>>][HCell(s, i)]

\* The auxiliary line.
AuxSize(s) == <<1, 1, AuxHalf(s)>>

\* The cells of the auxiliary line.
LEMMA AuxCells ==
  ASSUME NEW s, Placed(s), Aligned(s), NEW j \in Int
  PROVE  /\ AuxSize(s) \in Sizes
         /\ 0 <= j /\ j < AuxHalf(s) => <<0, 0, j>> \in Main!Cells(AuxSize(s), <<"E", 1>>)
         /\ 0 <= j /\ j <= AuxHalf(s) => <<1, 0, j>> \in Main!Cells(AuxSize(s), <<"H", 2>>)
<1>1. AuxHalf(s) \in Nat /\ AuxHalf(s) > 1
  BY OriginFacts
<1>2. /\ <<"E", 1>> \in Component /\ <<"H", 2>> \in Component /\ Axes = {1, 2, 3}
      /\ <<"E", 1>>[2] = 1 /\ <<"H", 2>>[2] = 2
  BY AxisFacts DEF Component
<1>3. AuxSize(s) \in Sizes
  BY <1>1 DEF AuxSize, Sizes, Axes
<1>4. AuxSize(s)[1] = 1 /\ AuxSize(s)[2] = 1 /\ AuxSize(s)[3] = AuxHalf(s)
  BY DEF AuxSize
<1>5. /\ Limit(AuxSize(s), <<"E", 1>>, 1) = 1 /\ Limit(AuxSize(s), <<"E", 1>>, 2) = 2
      /\ Limit(AuxSize(s), <<"E", 1>>, 3) = AuxHalf(s) + 1
      /\ Limit(AuxSize(s), <<"H", 2>>, 1) = 2 /\ Limit(AuxSize(s), <<"H", 2>>, 2) = 1
      /\ Limit(AuxSize(s), <<"H", 2>>, 3) = AuxHalf(s) + 1
  BY <1>2, <1>4 DEF Limit
<1>6. <<0, 0, j>> \in Vectors /\ <<1, 0, j>> \in Vectors
  BY DEF Vectors, Axes
<1>7. ASSUME 0 <= j, j < AuxHalf(s)
      PROVE  \A a \in Axes : 0 <= <<0, 0, j>>[a] /\ <<0, 0, j>>[a] < Limit(AuxSize(s), <<"E", 1>>, a)
  BY <1>1, <1>2, <1>5, <1>7
<1>8. ASSUME 0 <= j, j <= AuxHalf(s)
      PROVE  \A a \in Axes : 0 <= <<1, 0, j>>[a] /\ <<1, 0, j>>[a] < Limit(AuxSize(s), <<"H", 2>>, a)
  BY <1>1, <1>2, <1>5, <1>8
<1> QED BY <1>2, <1>3, <1>6, <1>7, <1>8, CellFacts

\* The cells the box samples exist.
LEMMA Samples ==
  ASSUME NEW s, Placed(s), Aligned(s), NEW A, Typed(A, AuxSize(s)), NEW i \in Int
  PROVE  /\ Between(s, s.k[1], i) => A[<<"E", 1>>][ECell(s, i)] \in Int /\ PE(s, A, i) \in Int
         /\ Between(s, s.k[1], i) \/ Between(s, s.k[1], i - 1) =>
              A[<<"H", 2>>][HCell(s, i)] \in Int /\ PH(s, A, i) \in Int
<1> DEFINE k == s.k[1]
<1>1. <<"E", 1>> \in Component /\ <<"H", 2>> \in Component
  BY AxisFacts DEF Component
<1>2. /\ A[<<"E", 1>>] \in [Main!Cells(AuxSize(s), <<"E", 1>>) -> Values]
      /\ A[<<"H", 2>>] \in [Main!Cells(AuxSize(s), <<"H", 2>>) -> Values]
  BY <1>1 DEF Typed
<1>3. Values \subseteq Int /\ Amp \in Int /\ s.e[2] \in Int /\ HShare(s) \in Int
  BY PType, LaunchAssumption, Shares, AxisFacts DEF Values
<1>4. Pml \in Nat /\ AuxHalf(s) \in Nat /\ Origin(s) \in Int
  BY OriginFacts
<1>5. ASSUME Between(s, k, i)
      PROVE  A[<<"E", 1>>][ECell(s, i)] \in Int
  <2>1. EIndex(s, i) \in Int /\ 0 <= EIndex(s, i) /\ EIndex(s, i) < AuxHalf(s)
    BY <1>4, <1>5, IndexRange
  <2>2. ECell(s, i) \in Main!Cells(AuxSize(s), <<"E", 1>>)
    BY <2>1, AuxCells DEF ECell
  <2> QED BY <1>2, <1>3, <2>2
<1>6. ASSUME Between(s, k, i) \/ Between(s, k, i - 1)
      PROVE  A[<<"H", 2>>][HCell(s, i)] \in Int
  <2>1. HIndex(s, i) \in Int /\ 0 <= HIndex(s, i) /\ HIndex(s, i) <= AuxHalf(s)
    <3>1. s.k[2] \in {1, -1} /\ HIndex(s, i) \in Int
      BY Directions, IndexRange
    <3>2. CASE Between(s, k, i)
      <4>1. Pml + 1 < EIndex(s, i) /\ EIndex(s, i) < AuxHalf(s) /\ EIndex(s, i) \in Int
        BY <3>2, IndexRange
      <4>2. HIndex(s, i) = EIndex(s, i) \/ HIndex(s, i) = EIndex(s, i) + 1
        BY <1>4, <3>1, IndexRange DEF HIndex
      <4> QED BY <1>4, <3>1, <4>1, <4>2
    <3>3. CASE Between(s, k, i - 1)
      <4>1. Pml + 1 < EIndex(s, i - 1) /\ EIndex(s, i - 1) < AuxHalf(s) /\ EIndex(s, i - 1) \in Int
        BY <3>3, IndexRange
      <4>2. HIndex(s, i) = EIndex(s, i - 1) \/ HIndex(s, i) = EIndex(s, i - 1) + 1
        <5>1. IF s.k[2] = 1 THEN EIndex(s, i - 1) = i - 1 + Origin(s) ELSE EIndex(s, i - 1) = Origin(s) - (i - 1)
          BY IndexRange
        <5> QED BY <1>4, <3>1, <5>1 DEF HIndex
      <4> QED BY <1>4, <3>1, <4>1, <4>2
    <3> QED BY <1>6, <3>2, <3>3
  <2>2. HCell(s, i) \in Main!Cells(AuxSize(s), <<"H", 2>>)
    BY <2>1, AuxCells DEF HCell
  <2> QED BY <1>2, <1>3, <2>2
<1> QED BY <1>3, <1>5, <1>6 DEF PE, PH

-----------------------------------------------------------------------------
\* A product of signs, a rate and a sampled value.
LEMMA Products ==
  ASSUME NEW d \in Int, NEW t \in Int, NEW r \in Int, NEW h \in Int, NEW m \in Int, NEW x \in Int
  PROVE  /\ ((d * t) * r * h * m) * x = d * (t * r * (h * m * x))
         /\ ((-(d * t)) * r * h * m) * x = -(d * (t * r * (h * m * x)))
<1>1. ((d * t) * r * h * m) * x = d * (t * r * (h * m * x))
  OBVIOUS
<1>2. ((-(d * t)) * r * h * m) * x = -(((d * t) * r * h * m) * x)
  OBVIOUS
<1> QED BY <1>1, <1>2

\* Where a face samples the wave along the beam.
LEMMA SamplePoint ==
  ASSUME NEW s, Placed(s), Aligned(s), NEW c \in Component, NEW f \in Faces(c), NEW u \in Vectors
  PROVE  LET x == IndexToSpace(Serial(s.n), f.sampled, Sum3(u, f.sample))
             k == s.k[1]
         IN  /\ f.sampled = EOf(s) => x[k] = 2 * (u[k] + f.sample[k])
             /\ f.sampled = HOf(s) => x[k] = 2 * (u[k] + f.sample[k]) - 1
<1> DEFINE k == s.k[1]
<1>1. k \in Axes /\ k # s.e[1] /\ k # Third(s)
  BY Directions
<1>2. u[k] \in Int /\ f.sample[k] \in Int
  BY <1>1, FaceFacts DEF Vectors
<1>3. IndexToSpace(Serial(s.n), f.sampled, Sum3(u, f.sample))[k]
        = 2 * (u[k] + f.sample[k] + 0) + Stagger(f.sampled, k)
  BY <1>1, SerialFacts DEF IndexToSpace, Sum3
<1>4. Stagger(EOf(s), k) = 0 /\ Stagger(HOf(s), k) = -1
  BY <1>1 DEF Stagger, EOf, HOf
<1> QED BY <1>2, <1>3, <1>4

\* What a face that adds to a cell is.
LEMMA RuledSides ==
  ASSUME NEW s, Placed(s), Aligned(s), NEW c \in Component, NEW u, NEW f \in Ruled(s, c, u)
  PROVE  /\ f \in Faces(c) /\ Carries(s, c, f) /\ Spans(s, c, f, u)
         /\ f.side \in {Low, High} /\ f.side \in Int /\ Low # High /\ f.axis \in Axes
         /\ Turn(s) \in Int /\ \A a \in Axes : Rate[a] \in Int
         /\ Amp \in Int /\ s.e[2] \in Int /\ HShare(s) \in Int
<1>1. f \in Faces(c) /\ Carries(s, c, f) /\ Spans(s, c, f, u)
  BY DEF Ruled
<1>2. f.side \in {Low, High} /\ f.axis \in Axes
  BY <1>1, FaceFacts
<1>3. Low \in Int /\ High \in Int /\ Low # High
  BY DEF Low, High
<1> QED BY <1>1, <1>2, <1>3, Directions, Shares, RateType, LaunchAssumption, AxisFacts

\* The factor of a rule and the cell it samples.
LEMMA RuleParts ==
  ASSUME NEW s, NEW c, NEW f, NEW u
  PROVE  LET r == Rule(Serial(s.n), s, c, f, u)
         IN  /\ r.factor = Sign(c, f) * Rate[f.axis] * Cosine(s, f) * Amp
             /\ r.sample = AuxIndex(s, AuxComponent(c),
                             Metric(s, IndexToSpace(Serial(s.n), f.sampled, Sum3(u, f.sample))))
BY DEF Rule

\* What a front face adds to an electric cell: the magnetic field on the other side.
LEMMA FrontShare ==
  ASSUME NEW s, Placed(s), Aligned(s), NEW A, Typed(A, AuxSize(s)), NEW c \in Component,
         NEW u \in Vectors, NEW f \in Ruled(s, c, u), Front(s, c, f)
  PROVE  LET i == u[s.k[1]] + Far(f, 1)
         IN  /\ PH(s, A, i) \in Int
             /\ Share(s, c, u, f, A[AuxComponent(c)]) = f.side * (Turn(s) * Rate[s.k[1]] * PH(s, A, i))
<1> DEFINE k == s.k[1]
           i == u[k] + Far(f, 1)
           r == Rule(Serial(s.n), s, c, f, u)
           x == IndexToSpace(Serial(s.n), f.sampled, Sum3(u, f.sample))
           h == A[<<"H", 2>>][HCell(s, i)]
<1>1. /\ f \in Faces(c) /\ Spans(s, c, f, u) /\ f.side \in {Low, High} /\ f.side \in Int /\ Low # High
      /\ Turn(s) \in Int /\ (\A a \in Axes : Rate[a] \in Int) /\ Amp \in Int /\ HShare(s) \in Int
  BY RuledSides
<1>2. /\ k \in Axes /\ u[k] \in Int /\ i \in Int /\ First(s, k) \in Int /\ Last(s, k) \in Int
      /\ First(s, k) <= Last(s, k)
  BY Directions, Extents DEF Vectors, Far
<1>3. c = EOf(s) /\ f.axis = k /\ f.sampled = HOf(s) /\ f.sample[k] = Far(f, 1)
      /\ Sign(c, f) = f.side * Turn(s) /\ Cosine(s, f) = HShare(s)
  BY DEF Front
<1>4. Between(s, k, i) \/ Between(s, k, i - 1)
  <2>1. u[k] = IF f.side = Low THEN First(s, k) ELSE Last(s, k)
    BY <1>1, FrontSpans
  <2> QED BY <1>1, <1>2, <2>1 DEF Between, Far
<1>5. h \in Int /\ PH(s, A, i) \in Int
  BY <1>2, <1>4, Samples
<1>6. AuxComponent(c) = <<"H", 2>>
  BY <1>3 DEF AuxComponent, EOf
<1>7. x[k] = 2 * i - 1
  BY <1>1, <1>3, SamplePoint
<1>8. r.factor = (f.side * Turn(s)) * Rate[k] * HShare(s) * Amp /\ r.sample = HCell(s, i)
  <2>1. AuxIndex(s, <<"H", 2>>, Metric(s, x)) = HCell(s, i)
    BY <1>2, <1>7, AuxIndexes
  <2> QED BY <1>3, <1>6, <2>1, RuleParts
<1>9. Share(s, c, u, f, A[AuxComponent(c)]) = ((f.side * Turn(s)) * Rate[k] * HShare(s) * Amp) * h
  BY <1>6, <1>8 DEF Share
<1> HIDE DEF i, h
<1>10. Share(s, c, u, f, A[AuxComponent(c)]) = f.side * (Turn(s) * Rate[k] * (HShare(s) * Amp * h))
  BY <1>1, <1>2, <1>5, <1>9, Products
<1> QED BY <1>5, <1>10 DEF PH, h, i

\* What a back face adds to a magnetic cell.
LEMMA BackShare ==
  ASSUME NEW s, Placed(s), Aligned(s), NEW A, Typed(A, AuxSize(s)), NEW c \in Component,
         NEW u \in Vectors, NEW f \in Ruled(s, c, u), Back(s, c, f)
  PROVE  LET i == u[s.k[1]] + Far(f, -1)
         IN  /\ PE(s, A, i) \in Int
             /\ Share(s, c, u, f, A[AuxComponent(c)]) = f.side * (Turn(s) * Rate[s.k[1]] * PE(s, A, i))
<1> DEFINE k == s.k[1]
           i == u[k] + Far(f, -1)
           r == Rule(Serial(s.n), s, c, f, u)
           x == IndexToSpace(Serial(s.n), f.sampled, Sum3(u, f.sample))
           h == A[<<"E", 1>>][ECell(s, i)]
<1>1. /\ f \in Faces(c) /\ Spans(s, c, f, u) /\ f.side \in {Low, High} /\ f.side \in Int /\ Low # High
      /\ Turn(s) \in Int /\ (\A a \in Axes : Rate[a] \in Int) /\ Amp \in Int /\ s.e[2] \in Int
  BY RuledSides
<1>2. /\ k \in Axes /\ u[k] \in Int /\ i \in Int /\ First(s, k) \in Int /\ Last(s, k) \in Int
      /\ First(s, k) <= Last(s, k)
  BY Directions, Extents DEF Vectors, Far
<1>3. c = HOf(s) /\ f.axis = k /\ f.sampled = EOf(s) /\ f.sample[k] = Far(f, -1)
      /\ Sign(c, f) = f.side * Turn(s) /\ Cosine(s, f) = s.e[2]
  BY DEF Back
<1>4. Between(s, k, i)
  <2>1. u[k] = IF f.side = Low THEN First(s, k) ELSE Last(s, k) + 1
    BY <1>1, BackSpans
  <2> QED BY <1>1, <1>2, <2>1 DEF Between, Far
<1>5. h \in Int /\ PE(s, A, i) \in Int
  BY <1>2, <1>4, Samples
<1>6. AuxComponent(c) = <<"E", 1>>
  BY <1>3 DEF AuxComponent, HOf
<1>7. x[k] = 2 * i
  BY <1>1, <1>3, SamplePoint
<1>8. r.factor = (f.side * Turn(s)) * Rate[k] * s.e[2] * Amp /\ r.sample = ECell(s, i)
  <2>1. AuxIndex(s, <<"E", 1>>, Metric(s, x)) = ECell(s, i)
    BY <1>2, <1>7, AuxIndexes
  <2> QED BY <1>3, <1>6, <2>1, RuleParts
<1>9. Share(s, c, u, f, A[AuxComponent(c)]) = ((f.side * Turn(s)) * Rate[k] * s.e[2] * Amp) * h
  BY <1>6, <1>8 DEF Share
<1> HIDE DEF i, h
<1>10. Share(s, c, u, f, A[AuxComponent(c)]) = f.side * (Turn(s) * Rate[k] * (s.e[2] * Amp * h))
  BY <1>1, <1>2, <1>5, <1>9, Products
<1> QED BY <1>5, <1>10 DEF PE, h, i

\* What a face along the beam adds.
LEMMA EdgeShare ==
  ASSUME NEW s, Placed(s), Aligned(s), NEW A, Typed(A, AuxSize(s)), NEW c \in Component,
         NEW u \in Vectors, NEW f \in Ruled(s, c, u), Edge(s, c, f)
  PROVE  LET i == u[s.k[1]]
         IN  /\ PE(s, A, i) \in Int
             /\ Share(s, c, u, f, A[AuxComponent(c)]) = -(f.side * (Turn(s) * Rate[Third(s)] * PE(s, A, i)))
<1> DEFINE k == s.k[1]
           m == Third(s)
           i == u[k]
           r == Rule(Serial(s.n), s, c, f, u)
           x == IndexToSpace(Serial(s.n), f.sampled, Sum3(u, f.sample))
           h == A[<<"E", 1>>][ECell(s, i)]
<1>1. /\ f \in Faces(c) /\ Spans(s, c, f, u) /\ f.side \in {Low, High} /\ f.side \in Int /\ Low # High
      /\ Turn(s) \in Int /\ (\A a \in Axes : Rate[a] \in Int) /\ Amp \in Int /\ s.e[2] \in Int
  BY RuledSides
<1>2. k \in Axes /\ m \in Axes /\ i \in Int
  BY Directions DEF Vectors
<1>3. c = TOf(s) /\ f.axis = m /\ f.sampled = EOf(s) /\ f.sample[k] = 0
      /\ Sign(c, f) = -(f.side * Turn(s)) /\ Cosine(s, f) = s.e[2]
  BY DEF Edge
<1>4. Between(s, k, i)
  BY <1>1, EdgeSpans
<1>5. h \in Int /\ PE(s, A, i) \in Int
  BY <1>2, <1>4, Samples
<1>6. AuxComponent(c) = <<"E", 1>>
  BY <1>3 DEF AuxComponent, TOf
<1>7. x[k] = 2 * i
  <2>1. x[k] = 2 * (u[k] + f.sample[k])
    BY <1>1, <1>3, SamplePoint
  <2> QED BY <1>2, <1>3, <2>1
<1>8. r.factor = (-(f.side * Turn(s))) * Rate[m] * s.e[2] * Amp /\ r.sample = ECell(s, i)
  <2>1. AuxIndex(s, <<"E", 1>>, Metric(s, x)) = ECell(s, i)
    BY <1>2, <1>7, AuxIndexes
  <2>2. r.factor = Sign(c, f) * Rate[f.axis] * Cosine(s, f) * Amp
    BY RuleParts
  <2>3. r.sample = AuxIndex(s, AuxComponent(c), Metric(s, x))
    BY RuleParts
  <2> HIDE DEF r, x
  <2>4. r.factor = (-(f.side * Turn(s))) * Rate[m] * s.e[2] * Amp
    BY <1>3, <2>2
  <2> QED BY <1>6, <2>1, <2>3, <2>4
<1>9. Share(s, c, u, f, A[AuxComponent(c)]) = ((-(f.side * Turn(s))) * Rate[m] * s.e[2] * Amp) * h
  BY <1>6, <1>8 DEF Share
<1> HIDE DEF i, h
<1>10. Share(s, c, u, f, A[AuxComponent(c)]) = -(f.side * (Turn(s) * Rate[m] * (s.e[2] * Amp * h)))
  BY <1>1, <1>2, <1>5, <1>9, Products
<1> QED BY <1>5, <1>10 DEF PE, h, i

-----------------------------------------------------------------------------
\* What the plan adds to a cell, in terms of the wave.
FrontJump(s, A, i, l) ==
  IF Between(s, Third(s), l)
  THEN Turn(s) * Rate[s.k[1]] * ((IF i = Last(s, s.k[1]) THEN PH(s, A, i + 1) ELSE 0)
                                   - (IF i = First(s, s.k[1]) THEN PH(s, A, i) ELSE 0))
  ELSE 0

BackJump(s, A, i, l) ==
  IF Between(s, Third(s), l)
  THEN Turn(s) * Rate[s.k[1]] * ((IF i = Last(s, s.k[1]) + 1 THEN PE(s, A, i - 1) ELSE 0)
                                   - (IF i = First(s, s.k[1]) THEN PE(s, A, i) ELSE 0))
  ELSE 0

EdgeJump(s, A, i, l) ==
  IF Between(s, s.k[1], i)
  THEN Turn(s) * Rate[Third(s)] * ((IF l = First(s, Third(s)) THEN PE(s, A, i) ELSE 0)
                                     - (IF l = Last(s, Third(s)) + 1 THEN PE(s, A, i) ELSE 0))
  ELSE 0

Jump(s, A, c, u) ==
  LET i == u[s.k[1]]
      l == u[Third(s)]
  IN  IF c = EOf(s) THEN FrontJump(s, A, i, l)
      ELSE IF c = HOf(s) THEN BackJump(s, A, i, l)
      ELSE IF c = TOf(s) THEN EdgeJump(s, A, i, l) ELSE 0

\* The cell of an owned target across the polarisation.
LEMMA OwnedAcross ==
  ASSUME NEW s, Placed(s), Aligned(s), NEW c \in {EOf(s), HOf(s), TOf(s)}, NEW u \in Vectors,
         Owned(Serial(s.n), c, u)
  PROVE  u[s.e[1]] = IF c = EOf(s) THEN 0 ELSE 1
<1>1. s.e[1] \in Axes /\ s.n[s.e[1]] = 1 /\ s.e[1] # Third(s) /\ s.e[1] # s.k[1]
  BY Directions DEF Placed
<1>2. u[s.e[1]] \in Int /\ Serial(s.n).off[s.e[1]] = 0 /\ Serial(s.n).n = s.n
  BY <1>1, SerialFacts DEF Vectors
<1>3. LET first == 0 + (IF c[1] = "H" /\ s.e[1] # c[2] THEN 1 ELSE 0)
      IN  first <= u[s.e[1]] /\ u[s.e[1]] < first + 1
  BY <1>1, <1>2 DEF Owned
<1>4. IF c = EOf(s) THEN c[1] = "E" ELSE c[1] = "H" /\ s.e[1] # c[2]
  BY <1>1 DEF EOf, HOf, TOf
<1> QED BY <1>2, <1>3, <1>4

\* The plan of the electric cells.
LEMMA FrontJumpIs ==
  ASSUME NEW s, Placed(s), Aligned(s), NEW A, Typed(A, AuxSize(s)), NEW u \in Vectors,
         Owned(Serial(s.n), EOf(s), u)
  PROVE  LET c == EOf(s)
             j == FrontJump(s, A, u[s.k[1]], u[Third(s)])
         IN  /\ j \in Int
             /\ IF <<c, u>> \in DOMAIN SourcePlan(s)
                THEN Total(SourcePlan(s)[<<c, u>>], A[AuxComponent(c)]) = j ELSE j = 0
<1> DEFINE c == EOf(s)
           x == s.k[1]
           B == A[AuxComponent(c)]
           i == u[s.k[1]]
           l == u[Third(s)]
           k == s.k[1]
           m == Third(s)
<1>1. c \in Component /\ c # HOf(s) /\ c # TOf(s) /\ x \in Axes \ {c[2]} /\ k \in Axes /\ m \in Axes
      /\ k # s.e[1] /\ m # s.e[1]
  BY Directions DEF Component, EOf, HOf, TOf
<1>2. Low \in Int /\ High \in Int /\ Low # High /\ Low = -1 /\ High = 1
  BY DEF Low, High
<1>3. PICK lo \in Faces(c) : lo.axis = x /\ lo.side = Low
  BY <1>1, OneFace
<1>4. PICK hi \in Faces(c) : hi.axis = x /\ hi.side = High
  BY <1>1, OneFace
<1>5. \A f \in Faces(c) : Carries(s, c, f) => Front(s, c, f) /\ (f = lo \/ f = hi)
  <2> SUFFICES ASSUME NEW f \in Faces(c), Carries(s, c, f)
               PROVE  Front(s, c, f) /\ (f = lo \/ f = hi)
    OBVIOUS
  <2>1. Front(s, c, f) \/ Back(s, c, f) \/ Edge(s, c, f)
    BY <1>1, Carriers
  <2>2. Front(s, c, f) /\ f.axis = x
    BY <1>1, <2>1 DEF Front, Back, Edge
  <2>3. f.side = Low \/ f.side = High
    BY <1>1, FaceFacts
  <2> QED BY <1>1, <1>3, <1>4, <2>2, <2>3, OneFace
<1>6. /\ Carries(s, c, lo) /\ Front(s, c, lo) /\ Carries(s, c, hi) /\ Front(s, c, hi)
  <2>1. Carries(s, c, lo) /\ Carries(s, c, hi)
    BY <1>1, <1>3, <1>4, Carriers
  <2> QED BY <1>3, <1>4, <1>5, <2>1
<1>7. u[s.e[1]] = 0
  BY <1>1, OwnedAcross
<1>8. /\ lo \in Ruled(s, c, u) <=> (Between(s, m, l) /\ i = First(s, k))
      /\ hi \in Ruled(s, c, u) <=> (Between(s, m, l) /\ i = Last(s, k))
      /\ Ruled(s, c, u) \subseteq {lo, hi}
  <2>1. /\ Spans(s, c, lo, u) <=> (Between(s, m, l) /\ i = First(s, k))
        /\ Spans(s, c, hi, u) <=> (Between(s, m, l) /\ i = Last(s, k))
    BY <1>1, <1>2, <1>3, <1>4, <1>6, <1>7, FrontSpans
  <2> QED BY <1>3, <1>4, <1>5, <1>6, <2>1 DEF Ruled
<1>9. Turn(s) \in Int /\ (\A a \in Axes : Rate[a] \in Int) /\ i \in Int /\ l \in Int
      /\ First(s, k) \in Int /\ Last(s, k) \in Int /\ First(s, m) \in Int /\ Last(s, m) \in Int
      /\ First(s, k) <= Last(s, k) /\ First(s, m) <= Last(s, m)
  BY <1>1, Directions, RateType, Extents DEF Vectors
<1>10. lo \in Ruled(s, c, u) =>
         /\ PH(s, A, i) \in Int /\ Share(s, c, u, lo, B) = -(Turn(s) * Rate[k] * PH(s, A, i))
  <2>1. ASSUME lo \in Ruled(s, c, u)
        PROVE  PH(s, A, i) \in Int /\ Share(s, c, u, lo, B) = Low * (Turn(s) * Rate[k] * PH(s, A, i))
    BY <1>1, <1>2, <1>3, <1>6, <1>9, <2>1, FrontShare DEF Far
  <2> QED BY <1>1, <1>2, <1>9, <2>1
<1>11. hi \in Ruled(s, c, u) =>
         /\ PH(s, A, i + 1) \in Int /\ Share(s, c, u, hi, B) = Turn(s) * Rate[k] * PH(s, A, i + 1)
  <2>1. ASSUME hi \in Ruled(s, c, u)
        PROVE  PH(s, A, i + 1) \in Int /\ Share(s, c, u, hi, B) = High * (Turn(s) * Rate[k] * PH(s, A, i + 1))
    BY <1>1, <1>2, <1>4, <1>6, <1>9, <2>1, FrontShare DEF Far
  <2> QED BY <1>1, <1>2, <1>9, <2>1
<1>12. \A f : f \notin Ruled(s, c, u) => Share(s, c, u, f, B) = 0
  BY DEF Share
<1>13. \A f \in Ruled(s, c, u) : Share(s, c, u, f, B) \in Int
  BY <1>1, <1>8, <1>9, <1>10, <1>11
<1> DEFINE sum == Share(s, c, u, lo, B) + Share(s, c, u, hi, B)
<1>14. IF <<c, u>> \in DOMAIN SourcePlan(s) THEN Total(SourcePlan(s)[<<c, u>>], B) = sum ELSE sum = 0
  <2>1. lo.side # hi.side
    BY <1>2, <1>3, <1>4
  <2> HIDE DEF c, B
  <2> QED BY <1>1, <1>8, <1>13, <2>1, FaceSum DEF c
<1>15. FrontJump(s, A, i, l) = sum /\ sum \in Int
  <2> DEFINE L == Share(s, c, u, lo, B)
             H == Share(s, c, u, hi, B)
  <2>1. /\ L = (IF (Between(s, m, l) /\ i = First(s, k)) THEN -(Turn(s) * Rate[k] * PH(s, A, i)) ELSE 0)
        /\ ((Between(s, m, l) /\ i = First(s, k)) => PH(s, A, i) \in Int)
    BY <1>8, <1>10, <1>12
  <2>2. /\ H = (IF (Between(s, m, l) /\ i = Last(s, k)) THEN Turn(s) * Rate[k] * PH(s, A, i + 1) ELSE 0)
        /\ ((Between(s, m, l) /\ i = Last(s, k)) => PH(s, A, i + 1) \in Int)
    BY <1>8, <1>11, <1>12
  <2>3. Rate[k] \in Int /\ Rate[m] \in Int
    BY <1>1, <1>9
  <2>4. FrontJump(s, A, i, l) = L + H /\ L + H \in Int
    <3> HIDE DEF L, H, c, B, k, m
    <3> QED BY <1>9, <2>1, <2>2, <2>3 DEF FrontJump, k, m
  <2> QED BY <2>4
<1> HIDE DEF sum
<1> QED BY <1>14, <1>15

\* The plan of the magnetic cells.
LEMMA BackJumpIs ==
  ASSUME NEW s, Placed(s), Aligned(s), NEW A, Typed(A, AuxSize(s)), NEW u \in Vectors,
         Owned(Serial(s.n), HOf(s), u)
  PROVE  LET c == HOf(s)
             j == BackJump(s, A, u[s.k[1]], u[Third(s)])
         IN  /\ j \in Int
             /\ IF <<c, u>> \in DOMAIN SourcePlan(s)
                THEN Total(SourcePlan(s)[<<c, u>>], A[AuxComponent(c)]) = j ELSE j = 0
<1> DEFINE c == HOf(s)
           x == s.k[1]
           B == A[AuxComponent(c)]
           i == u[s.k[1]]
           l == u[Third(s)]
           k == s.k[1]
           m == Third(s)
<1>1. c \in Component /\ c # EOf(s) /\ c # TOf(s) /\ x \in Axes \ {c[2]} /\ k \in Axes /\ m \in Axes
      /\ k # s.e[1] /\ m # s.e[1]
  BY Directions DEF Component, EOf, HOf, TOf
<1>2. Low \in Int /\ High \in Int /\ Low # High /\ Low = -1 /\ High = 1
  BY DEF Low, High
<1>3. PICK lo \in Faces(c) : lo.axis = x /\ lo.side = Low
  BY <1>1, OneFace
<1>4. PICK hi \in Faces(c) : hi.axis = x /\ hi.side = High
  BY <1>1, OneFace
<1>5. \A f \in Faces(c) : Carries(s, c, f) => Back(s, c, f) /\ (f = lo \/ f = hi)
  <2> SUFFICES ASSUME NEW f \in Faces(c), Carries(s, c, f)
               PROVE  Back(s, c, f) /\ (f = lo \/ f = hi)
    OBVIOUS
  <2>1. Front(s, c, f) \/ Back(s, c, f) \/ Edge(s, c, f)
    BY <1>1, Carriers
  <2>2. Back(s, c, f) /\ f.axis = x
    BY <1>1, <2>1 DEF Front, Back, Edge
  <2>3. f.side = Low \/ f.side = High
    BY <1>1, FaceFacts
  <2> QED BY <1>1, <1>3, <1>4, <2>2, <2>3, OneFace
<1>6. /\ Carries(s, c, lo) /\ Back(s, c, lo) /\ Carries(s, c, hi) /\ Back(s, c, hi)
  <2>1. Carries(s, c, lo) /\ Carries(s, c, hi)
    BY <1>1, <1>3, <1>4, Carriers
  <2> QED BY <1>3, <1>4, <1>5, <2>1
<1>7. u[s.e[1]] = 1
  BY <1>1, OwnedAcross
<1>8. /\ lo \in Ruled(s, c, u) <=> (Between(s, m, l) /\ i = First(s, k))
      /\ hi \in Ruled(s, c, u) <=> (Between(s, m, l) /\ i = Last(s, k) + 1)
      /\ Ruled(s, c, u) \subseteq {lo, hi}
  <2>1. /\ Spans(s, c, lo, u) <=> (Between(s, m, l) /\ i = First(s, k))
        /\ Spans(s, c, hi, u) <=> (Between(s, m, l) /\ i = Last(s, k) + 1)
    BY <1>1, <1>2, <1>3, <1>4, <1>6, <1>7, BackSpans
  <2> QED BY <1>3, <1>4, <1>5, <1>6, <2>1 DEF Ruled
<1>9. Turn(s) \in Int /\ (\A a \in Axes : Rate[a] \in Int) /\ i \in Int /\ l \in Int
      /\ First(s, k) \in Int /\ Last(s, k) \in Int /\ First(s, m) \in Int /\ Last(s, m) \in Int
      /\ First(s, k) <= Last(s, k) /\ First(s, m) <= Last(s, m)
  BY <1>1, Directions, RateType, Extents DEF Vectors
<1>10. lo \in Ruled(s, c, u) =>
         /\ PE(s, A, i) \in Int /\ Share(s, c, u, lo, B) = -(Turn(s) * Rate[k] * PE(s, A, i))
  <2>1. ASSUME lo \in Ruled(s, c, u)
        PROVE  PE(s, A, i) \in Int /\ Share(s, c, u, lo, B) = Low * (Turn(s) * Rate[k] * PE(s, A, i))
    BY <1>1, <1>2, <1>3, <1>6, <1>9, <2>1, BackShare DEF Far
  <2> QED BY <1>1, <1>2, <1>9, <2>1
<1>11. hi \in Ruled(s, c, u) =>
         /\ PE(s, A, i - 1) \in Int /\ Share(s, c, u, hi, B) = Turn(s) * Rate[k] * PE(s, A, i - 1)
  <2>1. ASSUME hi \in Ruled(s, c, u)
        PROVE  PE(s, A, i - 1) \in Int /\ Share(s, c, u, hi, B) = High * (Turn(s) * Rate[k] * PE(s, A, i - 1))
    BY <1>1, <1>2, <1>4, <1>6, <1>9, <2>1, BackShare DEF Far
  <2> QED BY <1>1, <1>2, <1>9, <2>1
<1>12. \A f : f \notin Ruled(s, c, u) => Share(s, c, u, f, B) = 0
  BY DEF Share
<1>13. \A f \in Ruled(s, c, u) : Share(s, c, u, f, B) \in Int
  BY <1>1, <1>8, <1>9, <1>10, <1>11
<1> DEFINE sum == Share(s, c, u, lo, B) + Share(s, c, u, hi, B)
<1>14. IF <<c, u>> \in DOMAIN SourcePlan(s) THEN Total(SourcePlan(s)[<<c, u>>], B) = sum ELSE sum = 0
  <2>1. lo.side # hi.side
    BY <1>2, <1>3, <1>4
  <2> HIDE DEF c, B
  <2> QED BY <1>1, <1>8, <1>13, <2>1, FaceSum DEF c
<1>15. BackJump(s, A, i, l) = sum /\ sum \in Int
  <2> DEFINE L == Share(s, c, u, lo, B)
             H == Share(s, c, u, hi, B)
  <2>1. /\ L = (IF (Between(s, m, l) /\ i = First(s, k)) THEN -(Turn(s) * Rate[k] * PE(s, A, i)) ELSE 0)
        /\ ((Between(s, m, l) /\ i = First(s, k)) => PE(s, A, i) \in Int)
    BY <1>8, <1>10, <1>12
  <2>2. /\ H = (IF (Between(s, m, l) /\ i = Last(s, k) + 1) THEN Turn(s) * Rate[k] * PE(s, A, i - 1) ELSE 0)
        /\ ((Between(s, m, l) /\ i = Last(s, k) + 1) => PE(s, A, i - 1) \in Int)
    BY <1>8, <1>11, <1>12
  <2>3. Rate[k] \in Int /\ Rate[m] \in Int
    BY <1>1, <1>9
  <2>4. BackJump(s, A, i, l) = L + H /\ L + H \in Int
    <3> HIDE DEF L, H, c, B, k, m
    <3> QED BY <1>9, <2>1, <2>2, <2>3 DEF BackJump, k, m
  <2> QED BY <2>4
<1> HIDE DEF sum
<1> QED BY <1>14, <1>15

\* The plan of the magnetic cells along the beam.
LEMMA EdgeJumpIs ==
  ASSUME NEW s, Placed(s), Aligned(s), NEW A, Typed(A, AuxSize(s)), NEW u \in Vectors,
         Owned(Serial(s.n), TOf(s), u)
  PROVE  LET c == TOf(s)
             j == EdgeJump(s, A, u[s.k[1]], u[Third(s)])
         IN  /\ j \in Int
             /\ IF <<c, u>> \in DOMAIN SourcePlan(s)
                THEN Total(SourcePlan(s)[<<c, u>>], A[AuxComponent(c)]) = j ELSE j = 0
<1> DEFINE c == TOf(s)
           x == Third(s)
           B == A[AuxComponent(c)]
           i == u[s.k[1]]
           l == u[Third(s)]
           k == s.k[1]
           m == Third(s)
<1>1. c \in Component /\ c # EOf(s) /\ c # HOf(s) /\ x \in Axes \ {c[2]} /\ k \in Axes /\ m \in Axes
      /\ k # s.e[1] /\ m # s.e[1]
  BY Directions DEF Component, EOf, HOf, TOf
<1>2. Low \in Int /\ High \in Int /\ Low # High /\ Low = -1 /\ High = 1
  BY DEF Low, High
<1>3. PICK lo \in Faces(c) : lo.axis = x /\ lo.side = Low
  BY <1>1, OneFace
<1>4. PICK hi \in Faces(c) : hi.axis = x /\ hi.side = High
  BY <1>1, OneFace
<1>5. \A f \in Faces(c) : Carries(s, c, f) => Edge(s, c, f) /\ (f = lo \/ f = hi)
  <2> SUFFICES ASSUME NEW f \in Faces(c), Carries(s, c, f)
               PROVE  Edge(s, c, f) /\ (f = lo \/ f = hi)
    OBVIOUS
  <2>1. Front(s, c, f) \/ Back(s, c, f) \/ Edge(s, c, f)
    BY <1>1, Carriers
  <2>2. Edge(s, c, f) /\ f.axis = x
    BY <1>1, <2>1 DEF Front, Back, Edge
  <2>3. f.side = Low \/ f.side = High
    BY <1>1, FaceFacts
  <2> QED BY <1>1, <1>3, <1>4, <2>2, <2>3, OneFace
<1>6. /\ Carries(s, c, lo) /\ Edge(s, c, lo) /\ Carries(s, c, hi) /\ Edge(s, c, hi)
  <2>1. Carries(s, c, lo) /\ Carries(s, c, hi)
    BY <1>1, <1>3, <1>4, Carriers
  <2> QED BY <1>3, <1>4, <1>5, <2>1
<1>7. u[s.e[1]] = 1
  BY <1>1, OwnedAcross
<1>8. /\ lo \in Ruled(s, c, u) <=> (Between(s, k, i) /\ l = First(s, m))
      /\ hi \in Ruled(s, c, u) <=> (Between(s, k, i) /\ l = Last(s, m) + 1)
      /\ Ruled(s, c, u) \subseteq {lo, hi}
  <2>1. /\ Spans(s, c, lo, u) <=> (Between(s, k, i) /\ l = First(s, m))
        /\ Spans(s, c, hi, u) <=> (Between(s, k, i) /\ l = Last(s, m) + 1)
    BY <1>1, <1>2, <1>3, <1>4, <1>6, <1>7, EdgeSpans
  <2> QED BY <1>3, <1>4, <1>5, <1>6, <2>1 DEF Ruled
<1>9. Turn(s) \in Int /\ (\A a \in Axes : Rate[a] \in Int) /\ i \in Int /\ l \in Int
      /\ First(s, k) \in Int /\ Last(s, k) \in Int /\ First(s, m) \in Int /\ Last(s, m) \in Int
      /\ First(s, k) <= Last(s, k) /\ First(s, m) <= Last(s, m)
  BY <1>1, Directions, RateType, Extents DEF Vectors
<1>10. lo \in Ruled(s, c, u) =>
         /\ PE(s, A, i) \in Int /\ Share(s, c, u, lo, B) = Turn(s) * Rate[m] * PE(s, A, i)
  <2>1. ASSUME lo \in Ruled(s, c, u)
        PROVE  PE(s, A, i) \in Int /\ Share(s, c, u, lo, B) = -(Low * (Turn(s) * Rate[m] * PE(s, A, i)))
    BY <1>1, <1>2, <1>3, <1>6, <1>9, <2>1, EdgeShare DEF Far
  <2> QED BY <1>1, <1>2, <1>9, <2>1
<1>11. hi \in Ruled(s, c, u) =>
         /\ PE(s, A, i) \in Int /\ Share(s, c, u, hi, B) = -(Turn(s) * Rate[m] * PE(s, A, i))
  <2>1. ASSUME hi \in Ruled(s, c, u)
        PROVE  PE(s, A, i) \in Int /\ Share(s, c, u, hi, B) = -(High * (Turn(s) * Rate[m] * PE(s, A, i)))
    BY <1>1, <1>2, <1>4, <1>6, <1>9, <2>1, EdgeShare DEF Far
  <2> QED BY <1>1, <1>2, <1>9, <2>1
<1>12. \A f : f \notin Ruled(s, c, u) => Share(s, c, u, f, B) = 0
  BY DEF Share
<1>13. \A f \in Ruled(s, c, u) : Share(s, c, u, f, B) \in Int
  BY <1>1, <1>8, <1>9, <1>10, <1>11
<1> DEFINE sum == Share(s, c, u, lo, B) + Share(s, c, u, hi, B)
<1>14. IF <<c, u>> \in DOMAIN SourcePlan(s) THEN Total(SourcePlan(s)[<<c, u>>], B) = sum ELSE sum = 0
  <2>1. lo.side # hi.side
    BY <1>2, <1>3, <1>4
  <2> HIDE DEF c, B
  <2> QED BY <1>1, <1>8, <1>13, <2>1, FaceSum DEF c
<1>15. EdgeJump(s, A, i, l) = sum /\ sum \in Int
  <2> DEFINE L == Share(s, c, u, lo, B)
             H == Share(s, c, u, hi, B)
  <2>1. /\ L = (IF (Between(s, k, i) /\ l = First(s, m)) THEN Turn(s) * Rate[m] * PE(s, A, i) ELSE 0)
        /\ ((Between(s, k, i) /\ l = First(s, m)) => PE(s, A, i) \in Int)
    BY <1>8, <1>10, <1>12
  <2>2. /\ H = (IF (Between(s, k, i) /\ l = Last(s, m) + 1) THEN -(Turn(s) * Rate[m] * PE(s, A, i)) ELSE 0)
        /\ ((Between(s, k, i) /\ l = Last(s, m) + 1) => PE(s, A, i) \in Int)
    BY <1>8, <1>11, <1>12
  <2>3. Rate[k] \in Int /\ Rate[m] \in Int
    BY <1>1, <1>9
  <2>4. EdgeJump(s, A, i, l) = L + H /\ L + H \in Int
    <3> HIDE DEF L, H, c, B, k, m
    <3> QED BY <1>9, <2>1, <2>2, <2>3 DEF EdgeJump, k, m
  <2> QED BY <2>4
<1> HIDE DEF sum
<1> QED BY <1>14, <1>15

\* The plan of a cell is the jump of the wave at the box.
LEMMA JumpIs ==
  ASSUME NEW s, Placed(s), Aligned(s), NEW A, Typed(A, AuxSize(s)), NEW c \in Component,
         NEW u \in Vectors, Owned(Serial(s.n), c, u)
  PROVE  /\ Jump(s, A, c, u) \in Int
         /\ IF <<c, u>> \in DOMAIN SourcePlan(s)
            THEN Total(SourcePlan(s)[<<c, u>>], A[AuxComponent(c)]) = Jump(s, A, c, u)
            ELSE Jump(s, A, c, u) = 0
<1>0. EOf(s) # HOf(s) /\ EOf(s) # TOf(s) /\ HOf(s) # TOf(s)
  BY Directions DEF EOf, HOf, TOf
<1>1. CASE c = EOf(s)
  BY <1>1, FrontJumpIs DEF Jump
<1>2. CASE c = HOf(s)
  BY <1>0, <1>2, BackJumpIs DEF Jump
<1>3. CASE c = TOf(s)
  BY <1>0, <1>3, EdgeJumpIs DEF Jump
<1>4. CASE c \notin {EOf(s), HOf(s), TOf(s)}
  <2>1. Ruled(s, c, u) = {}
    <3> SUFFICES ASSUME NEW f \in Faces(c), Carries(s, c, f)
                 PROVE  FALSE
      BY DEF Ruled
    <3> QED BY <1>4, Carriers DEF Front, Back, Edge
  <2>2. <<c, u>> \notin DOMAIN SourcePlan(s)
    BY <2>1, PlanIs
  <2> QED BY <1>4, <2>2 DEF Jump
<1> QED BY <1>1, <1>2, <1>3, <1>4

-----------------------------------------------------------------------------
\* The axes of the wave in cyclic order.
LEMMA Turns ==
  ASSUME NEW s, Placed(s), Aligned(s)
  PROVE  LET e == s.e[1]
             k == s.k[1]
             m == Third(s)
         IN  \/ /\ Turn(s) = 1 /\ AxisB(e) = k /\ AxisC(e) = m /\ AxisB(k) = m /\ AxisC(k) = e
                /\ AxisB(m) = e /\ AxisC(m) = k
             \/ /\ Turn(s) = -1 /\ AxisB(e) = m /\ AxisC(e) = k /\ AxisB(k) = e /\ AxisC(k) = m
                /\ AxisB(m) = k /\ AxisC(m) = e
<1>1. /\ AxisB(1) = 2 /\ AxisB(2) = 3 /\ AxisB(3) = 1
      /\ AxisC(1) = 3 /\ AxisC(2) = 1 /\ AxisC(3) = 2
  BY DEF AxisB, AxisC
<1> QED BY <1>1, Directions

\* The wave in the box and nothing outside it, before the residue is taken.
RE(s, A, i, l) ==
  IF Between(s, s.k[1], i) /\ Between(s, Third(s), l) THEN PE(s, A, i) ELSE 0

\* Magnetic cells inside the box.
Behind(s, i, l) ==
  Between(s, s.k[1], i) /\ Between(s, s.k[1], i - 1) /\ Between(s, Third(s), l)

RH(s, A, i, l) == IF Behind(s, i, l) THEN PH(s, A, i) ELSE 0

\* The magnetic one half a step earlier.
Kick(s, A, i) == Turn(s) * Rate[s.k[1]] * (PE(s, A, i) - PE(s, A, i - 1))
RHPast(s, A, i, l) == IF Behind(s, i, l) THEN PH(s, A, i) - Kick(s, A, i) ELSE 0

\* The wave is made of integers.
LEMMA RawTypes ==
  ASSUME NEW s, Placed(s), Aligned(s), NEW A, Typed(A, AuxSize(s)), NEW i \in Int, NEW l
  PROVE  RE(s, A, i, l) \in Int /\ RH(s, A, i, l) \in Int /\ RHPast(s, A, i, l) \in Int
<1>1. i - 1 \in Int /\ Turn(s) \in Int /\ Rate[s.k[1]] \in Int
  BY Directions, RateType
<1>2. /\ Between(s, s.k[1], i) => PE(s, A, i) \in Int
      /\ Between(s, s.k[1], i - 1) => PE(s, A, i - 1) \in Int
      /\ Between(s, s.k[1], i) => PH(s, A, i) \in Int
  BY <1>1, Samples
<1> QED BY <1>1, <1>2 DEF RE, RH, RHPast, Behind, Kick

\* The copies at the ends of the domain do not see the box, or all of it.
LEMMA Copies ==
  ASSUME NEW s, Placed(s), Aligned(s), NEW A
  PROVE  /\ \A y \in Main!Cells(s.n, EOf(s)) :
              LET z == Mirror(s.n, EOf(s), y)
              IN  RE(s, A, z[s.k[1]], z[Third(s)]) = RE(s, A, y[s.k[1]], y[Third(s)])
         /\ \A y \in Main!Cells(s.n, HOf(s)) :
              LET z == Mirror(s.n, HOf(s), y)
              IN  RH(s, A, z[s.k[1]], z[Third(s)]) = RH(s, A, y[s.k[1]], y[Third(s)])
<1> DEFINE k == s.k[1]
           m == Third(s)
<1>1. /\ k \in Axes /\ m \in Axes /\ k # s.e[1] /\ m # s.e[1] /\ k # m
      /\ EOf(s) \in Component /\ HOf(s) \in Component /\ s.n \in Sizes
      /\ EOf(s)[1] = "E" /\ EOf(s)[2] = s.e[1] /\ HOf(s)[1] = "H" /\ HOf(s)[2] = m
  BY Directions DEF Component, EOf, HOf, Placed, Sizes
<1>2. /\ First(s, k) \in Int /\ Last(s, k) \in Int /\ First(s, m) \in Int /\ Last(s, m) \in Int
      /\ s.n[k] \in Int /\ s.n[m] \in Int /\ s.n[k] > 1 /\ s.n[m] > 1
      /\ 1 <= First(s, k) /\ Last(s, k) <= s.n[k] - 1
      /\ \/ 1 <= First(s, m) /\ Last(s, m) <= s.n[m] - 1
         \/ First(s, m) <= -1 /\ s.n[m] <= Last(s, m)
  BY <1>1, Extents
<1>3. ASSUME NEW y \in Main!Cells(s.n, EOf(s))
      PROVE  LET z == Mirror(s.n, EOf(s), y)
             IN  RE(s, A, z[k], z[m]) = RE(s, A, y[k], y[m])
  <2> DEFINE z == Mirror(s.n, EOf(s), y)
  <2>1. z[k] = (IF y[k] = s.n[k] THEN 0 ELSE y[k]) /\ z[m] = (IF y[m] = s.n[m] THEN 0 ELSE y[m])
    BY <1>1 DEF Mirror
  <2>2. Between(s, k, z[k]) <=> Between(s, k, y[k])
    BY <1>2, <2>1 DEF Between
  <2>3. Between(s, m, z[m]) <=> Between(s, m, y[m])
    BY <1>2, <2>1 DEF Between
  <2>4. Between(s, k, y[k]) => z[k] = y[k]
    BY <1>2, <2>1 DEF Between
  <2> QED BY <2>2, <2>3, <2>4 DEF RE
<1>4. ASSUME NEW y \in Main!Cells(s.n, HOf(s))
      PROVE  LET z == Mirror(s.n, HOf(s), y)
             IN  RH(s, A, z[k], z[m]) = RH(s, A, y[k], y[m])
  <2> DEFINE z == Mirror(s.n, HOf(s), y)
  <2>1. z[k] = (IF y[k] = 0 THEN s.n[k] ELSE y[k]) /\ z[m] = y[m]
    BY <1>1 DEF Mirror
  <2>2. Between(s, k, z[k]) <=> Between(s, k, y[k])
    BY <1>2, <2>1 DEF Between
  <2>3. Between(s, k, y[k]) => z[k] = y[k]
    BY <1>2, <2>1 DEF Between
  <2> QED BY <2>1, <2>2, <2>3 DEF RH, Behind
<1> QED BY <1>3, <1>4

-----------------------------------------------------------------------------
\* The curl of the wave in the box.

\* The fields the curls read are those of the wave.
SeesMagnetic(s, A, F) ==
  \A x \in Axes : \A y \in Main!Cells(s.n, <<"H", x>>) :
    F[<<"H", x>>][Mirror(s.n, <<"H", x>>, y)]
      = IF x = Third(s) THEN RH(s, A, y[s.k[1]], y[Third(s)]) % P ELSE 0

SeesElectric(s, A, F) ==
  \A x \in Axes : \A y \in Main!Cells(s.n, <<"E", x>>) :
    F[<<"E", x>>][Mirror(s.n, <<"E", x>>, y)]
      = IF x = s.e[1] THEN RE(s, A, y[s.k[1]], y[Third(s)]) % P ELSE 0

\* The electric curl of the wave.
LEMMA ElectricSwirl ==
  ASSUME NEW s, Placed(s), Aligned(s), NEW A, Typed(A, AuxSize(s)), NEW F, Typed(F, s.n),
         SeesMagnetic(s, A, F),
         NEW c \in Component, c[1] = "E", NEW v \in Main!Cells(s.n, c), Main!Active(Serial(s.n), c, v)
  PROVE  LET i == v[s.k[1]]
             l == v[Third(s)]
         IN  Swirl(F, s.n, Rate, c, v) =
               IF c = EOf(s) THEN Turn(s) * Rate[s.k[1]] * ((RH(s, A, i + 1, l) % P) - (RH(s, A, i, l) % P)) ELSE 0
<1> DEFINE e == s.e[1]
           k == s.k[1]
           m == Third(s)
           i == v[k]
           l == v[m]
           a == c[2]
           b == AxisB(a)
           d == AxisC(a)
           w == Move(v, a, 1)
           at(x, y) == F[<<"H", x>>][Mirror(s.n, <<"H", x>>, y)]
           R(y) == RH(s, A, y[k], y[m]) % P
<1>1. /\ a \in Axes /\ b \in Axes /\ d \in Axes /\ a # b /\ a # d /\ b # d /\ c = <<"E", a>>
      /\ s.n \in Sizes
  BY AxisFacts, ComponentFacts DEF Placed, Sizes
<1>2. /\ Move(w, b, 1) \in Main!Cells(s.n, <<"H", d>>) /\ w \in Main!Cells(s.n, <<"H", d>>)
      /\ Move(w, d, 1) \in Main!Cells(s.n, <<"H", b>>) /\ w \in Main!Cells(s.n, <<"H", b>>)
  BY <1>1, Stencil
<1>3. v \in Vectors
  BY <1>1, CellFacts
<1>4. /\ w[a] = v[a] + 1 /\ w[b] = v[b] /\ w[d] = v[d]
      /\ Move(w, b, 1)[a] = v[a] + 1 /\ Move(w, b, 1)[b] = v[b] + 1 /\ Move(w, b, 1)[d] = v[d]
      /\ Move(w, d, 1)[a] = v[a] + 1 /\ Move(w, d, 1)[d] = v[d] + 1 /\ Move(w, d, 1)[b] = v[b]
  BY <1>1, <1>3, Moves
<1>5. Swirl(F, s.n, Rate, c, v) = Rate[b] * (at(d, Move(w, b, 1)) - at(d, w))
                                    - Rate[d] * (at(b, Move(w, d, 1)) - at(b, w))
  BY DEF Swirl
<1> HIDE DEF at, w
<1>6. /\ at(d, Move(w, b, 1)) = IF d = m THEN R(Move(w, b, 1)) ELSE 0
      /\ at(d, w) = IF d = m THEN R(w) ELSE 0
      /\ at(b, Move(w, d, 1)) = IF b = m THEN R(Move(w, d, 1)) ELSE 0
      /\ at(b, w) = IF b = m THEN R(w) ELSE 0
  BY <1>1, <1>2 DEF at, SeesMagnetic
<1>7. e \in Axes /\ k \in Axes /\ m \in Axes /\ e # k /\ e # m /\ k # m /\ (a = e \/ a = k \/ a = m)
  BY <1>1, Directions
<1>8. \A x, y \in Int : RH(s, A, x, y) % P \in Int
  BY RawTypes, PType
<1>9. /\ \A x \in Axes : Rate[x] \in Int
      /\ i \in Int /\ l \in Int
  BY <1>3, <1>7, RateType DEF Vectors
<1>10. c = EOf(s) <=> a = e
  BY <1>1 DEF EOf
<1>11. CASE a = e
  <2>1. R(w) = RH(s, A, i, l) % P /\ RH(s, A, i, l) % P \in Int /\ RH(s, A, i + 1, l) % P \in Int
    <3>1. w[k] = i /\ w[m] = l
      BY <1>4, <1>7, <1>11, Turns
    <3>2. R(w) = RH(s, A, i, l) % P
      BY <3>1
    <3>3. i \in Int /\ i + 1 \in Int /\ l \in Int
      BY <1>9
    <3> HIDE DEF i, l
    <3> QED BY <1>8, <3>2, <3>3
  <2>2. CASE Turn(s) = 1 /\ b = k /\ d = m
    <3>1. Move(w, b, 1)[k] = i + 1 /\ Move(w, b, 1)[m] = l
      BY <1>4, <2>2
    <3>2. R(Move(w, b, 1)) = RH(s, A, i + 1, l) % P
      BY <3>1
    <3> DEFINE X == RH(s, A, i + 1, l) % P
               Y == RH(s, A, i, l) % P
    <3>3. X \in Int /\ Y \in Int /\ R(Move(w, b, 1)) = X /\ R(w) = Y
      BY <2>1, <3>2
    <3> HIDE DEF X, Y, R
    <3>4. Swirl(F, s.n, Rate, c, v) = Rate[k] * (X - Y) - Rate[m] * (0 - 0)
      BY <1>5, <1>6, <1>7, <2>2, <3>3
    <3>5. Rate[k] \in Int /\ Rate[m] \in Int
      BY <1>7, <1>9
    <3>6. Swirl(F, s.n, Rate, c, v) = Turn(s) * Rate[k] * (X - Y)
      BY <2>2, <3>3, <3>4, <3>5
    <3>7. Swirl(F, s.n, Rate, c, v) = Turn(s) * Rate[k] * ((RH(s, A, i + 1, l) % P) - (RH(s, A, i, l) % P))
      BY <3>6 DEF X, Y
    <3>8. c = EOf(s)
      BY <1>10, <1>11
    <3> QED BY <3>7, <3>8
  <2>3. CASE Turn(s) = -1 /\ b = m /\ d = k
    <3>1. Move(w, d, 1)[k] = i + 1 /\ Move(w, d, 1)[m] = l
      BY <1>4, <2>3
    <3>2. R(Move(w, d, 1)) = RH(s, A, i + 1, l) % P
      BY <3>1
    <3> DEFINE X == RH(s, A, i + 1, l) % P
               Y == RH(s, A, i, l) % P
    <3>3. X \in Int /\ Y \in Int /\ R(Move(w, d, 1)) = X /\ R(w) = Y
      BY <2>1, <3>2
    <3> HIDE DEF X, Y, R
    <3>4. Swirl(F, s.n, Rate, c, v) = Rate[m] * (0 - 0) - Rate[k] * (X - Y)
      BY <1>5, <1>6, <1>7, <2>3, <3>3
    <3>5. Rate[k] \in Int /\ Rate[m] \in Int
      BY <1>7, <1>9
    <3>6. Swirl(F, s.n, Rate, c, v) = Turn(s) * Rate[k] * (X - Y)
      BY <2>3, <3>3, <3>4, <3>5
    <3>7. Swirl(F, s.n, Rate, c, v) = Turn(s) * Rate[k] * ((RH(s, A, i + 1, l) % P) - (RH(s, A, i, l) % P))
      BY <3>6 DEF X, Y
    <3>8. c = EOf(s)
      BY <1>10, <1>11
    <3> QED BY <3>7, <3>8
  <2> QED BY <1>11, <2>2, <2>3, Turns
<1>12. CASE a = k
  <2>1. (b = m /\ d = e) \/ (b = e /\ d = m)
    BY <1>12, Turns
  <2>2. R(w) \in Int
    <3>1. w[k] \in Int /\ w[m] \in Int
      BY <1>4, <1>7, <1>9, <1>12, <2>1
    <3> QED BY <1>8, <3>1
  <2>3. CASE b = m /\ d = e
    <3>1. R(Move(w, d, 1)) = R(w)
      BY <1>4, <1>12, <2>3
    <3>2. Swirl(F, s.n, Rate, c, v) = Rate[m] * (0 - 0) - Rate[e] * (R(w) - R(w))
      BY <1>5, <1>6, <1>7, <2>3, <3>1
    <3> HIDE DEF R
    <3> QED BY <1>7, <1>9, <1>10, <1>12, <2>2, <3>2
  <2>4. CASE b = e /\ d = m
    <3>1. R(Move(w, b, 1)) = R(w)
      BY <1>4, <1>12, <2>4
    <3>2. Swirl(F, s.n, Rate, c, v) = Rate[e] * (R(w) - R(w)) - Rate[m] * (0 - 0)
      BY <1>5, <1>6, <1>7, <2>4, <3>1
    <3> HIDE DEF R
    <3> QED BY <1>7, <1>9, <1>10, <1>12, <2>2, <3>2
  <2> QED BY <2>1, <2>3, <2>4
<1>13. CASE a = m
  <2>1. b # m /\ d # m
    BY <1>1, <1>13
  <2>2. Swirl(F, s.n, Rate, c, v) = Rate[b] * (0 - 0) - Rate[d] * (0 - 0)
    BY <1>5, <1>6, <2>1
  <2> QED BY <1>1, <1>7, <1>9, <1>10, <1>13, <2>2
<1> QED BY <1>7, <1>11, <1>12, <1>13

\* The magnetic curl of the wave; at the faces along the beam it sees an edge.
LEMMA MagneticSwirl ==
  ASSUME NEW s, Placed(s), Aligned(s), NEW A, Typed(A, AuxSize(s)), NEW F, Typed(F, s.n),
         SeesElectric(s, A, F),
         NEW c \in Component, c[1] = "H", NEW v \in Main!Cells(s.n, c), Main!Active(Serial(s.n), c, v)
  PROVE  LET i == v[s.k[1]]
             l == v[Third(s)]
         IN  Swirl(F, s.n, Rate, c, v) =
               IF c = HOf(s)
               THEN Turn(s) * Rate[s.k[1]] * ((RE(s, A, i, l) % P) - (RE(s, A, i - 1, l) % P))
               ELSE IF c = TOf(s)
               THEN -(Turn(s) * Rate[Third(s)] * ((RE(s, A, i, l) % P) - (RE(s, A, i, l - 1) % P)))
               ELSE 0
<1> DEFINE e == s.e[1]
           k == s.k[1]
           m == Third(s)
           i == v[k]
           l == v[m]
           a == c[2]
           b == AxisB(a)
           d == AxisC(a)
           z == Move(Move(v, b, -1), d, -1)
           at(x, y) == F[<<"E", x>>][Mirror(s.n, <<"E", x>>, y)]
           R(y) == RE(s, A, y[k], y[m]) % P
<1>1. /\ a \in Axes /\ b \in Axes /\ d \in Axes /\ a # b /\ a # d /\ b # d /\ c = <<"H", a>>
      /\ s.n \in Sizes
  BY AxisFacts, ComponentFacts DEF Placed, Sizes
<1>2. /\ Move(v, b, -1) \in Main!Cells(s.n, <<"E", b>>) /\ z \in Main!Cells(s.n, <<"E", b>>)
      /\ Move(v, d, -1) \in Main!Cells(s.n, <<"E", d>>) /\ z \in Main!Cells(s.n, <<"E", d>>)
  BY <1>1, Stencil
<1>3. v \in Vectors
  BY <1>1, CellFacts
<1>4. /\ z[a] = v[a] /\ z[b] = v[b] - 1 /\ z[d] = v[d] - 1
      /\ Move(v, b, -1)[a] = v[a] /\ Move(v, b, -1)[b] = v[b] - 1 /\ Move(v, b, -1)[d] = v[d]
      /\ Move(v, d, -1)[a] = v[a] /\ Move(v, d, -1)[d] = v[d] - 1 /\ Move(v, d, -1)[b] = v[b]
  BY <1>1, <1>3, Moves
<1>5. Swirl(F, s.n, Rate, c, v) = Rate[d] * (at(b, Move(v, b, -1)) - at(b, z))
                                    - Rate[b] * (at(d, Move(v, d, -1)) - at(d, z))
  <2>1. c[1] # "E"
    OBVIOUS
  <2> QED BY <2>1 DEF Swirl
<1> HIDE DEF at, z
<1>6. /\ at(b, Move(v, b, -1)) = IF b = e THEN R(Move(v, b, -1)) ELSE 0
      /\ at(b, z) = IF b = e THEN R(z) ELSE 0
      /\ at(d, Move(v, d, -1)) = IF d = e THEN R(Move(v, d, -1)) ELSE 0
      /\ at(d, z) = IF d = e THEN R(z) ELSE 0
  BY <1>1, <1>2 DEF at, SeesElectric
<1>7. e \in Axes /\ k \in Axes /\ m \in Axes /\ e # k /\ e # m /\ k # m /\ (a = e \/ a = k \/ a = m)
  BY <1>1, Directions
<1>8. \A x, y \in Int : RE(s, A, x, y) % P \in Int
  BY RawTypes, PType
<1>9. /\ \A x \in Axes : Rate[x] \in Int
      /\ i \in Int /\ l \in Int /\ i - 1 \in Int /\ l - 1 \in Int
  BY <1>3, <1>7, RateType DEF Vectors
<1>10. (c = HOf(s) <=> a = m) /\ (c = TOf(s) <=> a = k) /\ HOf(s) # TOf(s)
  BY <1>1, <1>7 DEF HOf, TOf
<1>11. CASE a = m
  <2>1. CASE Turn(s) = 1 /\ b = e /\ d = k
    <3>1. Move(v, b, -1)[k] = i /\ Move(v, b, -1)[m] = l /\ z[k] = i - 1 /\ z[m] = l
      BY <1>4, <1>11, <2>1
    <3>2. R(Move(v, b, -1)) = RE(s, A, i, l) % P /\ R(z) = RE(s, A, i - 1, l) % P
      BY <3>1
    <3> DEFINE X == RE(s, A, i, l) % P
               Y == RE(s, A, i - 1, l) % P
    <3>3. X \in Int /\ Y \in Int
      <4> HIDE DEF i, l
      <4> QED BY <1>8, <1>9
    <3> HIDE DEF X, Y, R
    <3>4. Swirl(F, s.n, Rate, c, v) = Rate[k] * (X - Y) - Rate[e] * (0 - 0)
      BY <1>5, <1>6, <1>7, <2>1, <3>2 DEF X, Y
    <3>5. Rate[e] \in Int /\ Rate[k] \in Int
      BY <1>7, <1>9
    <3>6. Swirl(F, s.n, Rate, c, v) = Turn(s) * Rate[k] * (X - Y)
      BY <2>1, <3>3, <3>4, <3>5
    <3>7. Swirl(F, s.n, Rate, c, v) = Turn(s) * Rate[k] * ((RE(s, A, i, l) % P) - (RE(s, A, i - 1, l) % P))
      BY <3>6 DEF X, Y
    <3> QED BY <1>10, <1>11, <3>7
  <2>2. CASE Turn(s) = -1 /\ b = k /\ d = e
    <3>1. Move(v, d, -1)[k] = i /\ Move(v, d, -1)[m] = l /\ z[k] = i - 1 /\ z[m] = l
      BY <1>4, <1>11, <2>2
    <3>2. R(Move(v, d, -1)) = RE(s, A, i, l) % P /\ R(z) = RE(s, A, i - 1, l) % P
      BY <3>1
    <3> DEFINE X == RE(s, A, i, l) % P
               Y == RE(s, A, i - 1, l) % P
    <3>3. X \in Int /\ Y \in Int
      <4> HIDE DEF i, l
      <4> QED BY <1>8, <1>9
    <3> HIDE DEF X, Y, R
    <3>4. Swirl(F, s.n, Rate, c, v) = Rate[e] * (0 - 0) - Rate[k] * (X - Y)
      BY <1>5, <1>6, <1>7, <2>2, <3>2 DEF X, Y
    <3>5. Rate[e] \in Int /\ Rate[k] \in Int
      BY <1>7, <1>9
    <3>6. Swirl(F, s.n, Rate, c, v) = Turn(s) * Rate[k] * (X - Y)
      BY <2>2, <3>3, <3>4, <3>5
    <3>7. Swirl(F, s.n, Rate, c, v) = Turn(s) * Rate[k] * ((RE(s, A, i, l) % P) - (RE(s, A, i - 1, l) % P))
      BY <3>6 DEF X, Y
    <3> QED BY <1>10, <1>11, <3>7
  <2> QED BY <1>11, <2>1, <2>2, Turns
<1>12. CASE a = k
  <2>1. CASE Turn(s) = -1 /\ b = e /\ d = m
    <3>1. Move(v, b, -1)[k] = i /\ Move(v, b, -1)[m] = l /\ z[k] = i /\ z[m] = l - 1
      BY <1>4, <1>12, <2>1
    <3>2. R(Move(v, b, -1)) = RE(s, A, i, l) % P /\ R(z) = RE(s, A, i, l - 1) % P
      BY <3>1
    <3> DEFINE X == RE(s, A, i, l) % P
               Y == RE(s, A, i, l - 1) % P
    <3>3. X \in Int /\ Y \in Int
      <4> HIDE DEF i, l
      <4> QED BY <1>8, <1>9
    <3> HIDE DEF X, Y, R
    <3>4. Swirl(F, s.n, Rate, c, v) = Rate[m] * (X - Y) - Rate[e] * (0 - 0)
      BY <1>5, <1>6, <1>7, <2>1, <3>2 DEF X, Y
    <3>5. Rate[e] \in Int /\ Rate[m] \in Int
      BY <1>7, <1>9
    <3>6. Swirl(F, s.n, Rate, c, v) = -(Turn(s) * Rate[m] * (X - Y))
      BY <2>1, <3>3, <3>4, <3>5
    <3>7. Swirl(F, s.n, Rate, c, v) = -(Turn(s) * Rate[m] * ((RE(s, A, i, l) % P) - (RE(s, A, i, l - 1) % P)))
      BY <3>6 DEF X, Y
    <3> QED BY <1>10, <1>12, <3>7
  <2>2. CASE Turn(s) = 1 /\ b = m /\ d = e
    <3>1. Move(v, d, -1)[k] = i /\ Move(v, d, -1)[m] = l /\ z[k] = i /\ z[m] = l - 1
      BY <1>4, <1>12, <2>2
    <3>2. R(Move(v, d, -1)) = RE(s, A, i, l) % P /\ R(z) = RE(s, A, i, l - 1) % P
      BY <3>1
    <3> DEFINE X == RE(s, A, i, l) % P
               Y == RE(s, A, i, l - 1) % P
    <3>3. X \in Int /\ Y \in Int
      <4> HIDE DEF i, l
      <4> QED BY <1>8, <1>9
    <3> HIDE DEF X, Y, R
    <3>4. Swirl(F, s.n, Rate, c, v) = Rate[e] * (0 - 0) - Rate[m] * (X - Y)
      BY <1>5, <1>6, <1>7, <2>2, <3>2 DEF X, Y
    <3>5. Rate[e] \in Int /\ Rate[m] \in Int
      BY <1>7, <1>9
    <3>6. Swirl(F, s.n, Rate, c, v) = -(Turn(s) * Rate[m] * (X - Y))
      BY <2>2, <3>3, <3>4, <3>5
    <3>7. Swirl(F, s.n, Rate, c, v) = -(Turn(s) * Rate[m] * ((RE(s, A, i, l) % P) - (RE(s, A, i, l - 1) % P)))
      BY <3>6 DEF X, Y
    <3> QED BY <1>10, <1>12, <3>7
  <2> QED BY <1>12, <2>1, <2>2, Turns
<1>13. CASE a = e
  <2>1. b # e /\ d # e
    BY <1>1, <1>13
  <2>2. Swirl(F, s.n, Rate, c, v) = Rate[d] * (0 - 0) - Rate[b] * (0 - 0)
    BY <1>5, <1>6, <2>1
  <2> QED BY <1>1, <1>7, <1>9, <1>10, <1>13, <2>2
<1> QED BY <1>7, <1>11, <1>12, <1>13

-----------------------------------------------------------------------------
\* Residues.

\* A number is a multiple of the modulus and a residue.
LEMMA ModSplit ==
  ASSUME NEW x \in Int
  PROVE  \E k \in Int : \E y \in 0..(P - 1) : x = P * k + y /\ x % P = y
<1> DEFINE k == x \div P
           y == x % P
<1>1. y = x - P * k /\ y \in 0..(P - 1) /\ k \in Int
  <2>1. x % P = x - P * (x \div P)
    BY PType, SMT
  <2>2. x % P \in 0..(P - 1) /\ x \div P \in Int
    BY PType, SMT
  <2> QED BY <2>1, <2>2
<1>2. x % P = y
  OBVIOUS
<1> HIDE DEF k, y
<1>3. x = P * k + y
  BY <1>1, PType
<1> QED BY <1>1, <1>2, <1>3

\* A residue lies below the modulus.
LEMMA ModType == \A x \in Int : x % P \in 0..(P - 1)
BY ModSplit

\* Quotient and remainder determine each other.
LEMMA ModUnique ==
  ASSUME NEW x \in Int, NEW k \in Int, NEW y \in 0..(P - 1), x = P * k + y
  PROVE  x % P = y
BY PType

\* Numbers that differ by a multiple of P have one residue.
LEMMA ModCongruent ==
  ASSUME NEW x \in Int, NEW y \in Int, NEW k \in Int, x = y + P * k
  PROVE  x % P = y % P
<1>1. PICK j \in Int, z \in 0..(P - 1) : y = P * j + z /\ y % P = z
  BY ModSplit
<1>2. x = P * (j + k) + z /\ j + k \in Int
  BY <1>1, PType
<1> QED BY <1>1, <1>2, ModUnique

\* Reducing a summand first changes no residue.
LEMMA ModAdd == \A x, d \in Int : ((x % P) + d) % P = (x + d) % P
<1> SUFFICES ASSUME NEW x \in Int, NEW d \in Int PROVE ((x % P) + d) % P = (x + d) % P
  OBVIOUS
<1>1. PICK k \in Int, y \in 0..(P - 1) : x = P * k + y /\ x % P = y
  BY ModSplit
<1>2. x + d = (y + d) + P * k /\ x + d \in Int /\ y + d \in Int
  BY <1>1, PType
<1> QED BY <1>1, <1>2, ModCongruent

\* Nor does reducing a factor.
LEMMA ModTimes == \A p, x \in Int : (p * (x % P)) % P = (p * x) % P
<1> SUFFICES ASSUME NEW p \in Int, NEW x \in Int PROVE (p * (x % P)) % P = (p * x) % P
  OBVIOUS
<1>1. PICK k \in Int, y \in 0..(P - 1) : x = P * k + y /\ x % P = y
  BY ModSplit
<1>2. p * x = p * y + P * (p * k) /\ p * x \in Int /\ p * y \in Int /\ p * k \in Int
  BY <1>1, PType
<1> QED BY <1>1, <1>2, ModCongruent

\* Two phases applied one after the other commute.

-----------------------------------------------------------------------------
\* A step of the auxiliary simulation.

\* The source of the auxiliary grid, before the box.
Sourced(S) ==
  /\ DOMAIN S.points \subseteq {<< <<"E", 1>>, <<0, 0, Pml + 1>> >>}
  /\ \A t \in DOMAIN S.points : S.points[t].amp \in Int

\* A half step computes residues.
LEMMA HalfType ==
  ASSUME NEW n \in Sizes, NEW S, Typed(S.F, n), NEW r \in [Axes -> Int], NEW h \in Nat,
         NEW c \in Component, NEW v \in Main!Cells(n, c),
         \A t \in DOMAIN S.points : S.points[t].amp \in Int
  PROVE  Half(S, n, r, h, c, v) \in Values
<1>1. S.F[c] \in [Main!Cells(n, c) -> Values]
  BY DEF Typed
<1>2. Mirror(n, c, v) \in Main!Cells(n, c)
  BY <1>1, SyncComponentFacts
<1>3. \A x \in Int : x % P \in Values
  BY ModType DEF Values
<1>4. S.F[c][v] \in Values /\ S.F[c][v] \in Int /\ S.F[c][Mirror(n, c, v)] \in Values
  BY <1>1, <1>2, PType DEF Values
<1> DEFINE x == IF Main!Active(Serial(n), c, v)
                THEN (S.F[c][v] + Swirl(S.F, n, r, c, v)) % P ELSE S.F[c][v]
<1>5. x \in Values /\ x \in Int
  <2>1. CASE Main!Active(Serial(n), c, v)
    <3>1. Swirl(S.F, n, r, c, v) \in Int
      BY <2>1, SwirlType
    <3>2. S.F[c][v] + Swirl(S.F, n, r, c, v) \in Int
      BY <1>4, <3>1
    <3> QED BY <1>3, <2>1, <3>2, PType DEF Values
  <2>2. CASE ~Main!Active(Serial(n), c, v)
    BY <1>4, <2>2
  <2> QED BY <2>1, <2>2
<1> HIDE DEF x
<1>6. CASE c[1] # Main!Family(h)
  BY <1>4, <1>6 DEF Half
<1>7. CASE c[1] = Main!Family(h) /\ <<c, v>> \in DOMAIN S.points
  <2> DEFINE p == S.points[<<c, v>>]
  <2>1. p.amp \in Int
    BY <1>7
  <2>2. Half(S, n, r, h, c, v) =
          IF p.current THEN (x - 1 * p.amp * (h + 1)) % P ELSE (p.amp * (h + 1)) % P
    BY <1>7 DEF Half, x
  <2>3. x - 1 * p.amp * (h + 1) \in Int /\ p.amp * (h + 1) \in Int
    BY <1>5, <2>1
  <2> HIDE DEF p
  <2> QED BY <1>3, <2>2, <2>3
<1>8. CASE c[1] = Main!Family(h) /\ <<c, v>> \notin DOMAIN S.points
  BY <1>5, <1>8 DEF Half, x
<1> QED BY <1>6, <1>7, <1>8

\* The fields after a half step have the type of those before.
LEMMA HalfTyped ==
  ASSUME NEW n \in Sizes, NEW S, Typed(S.F, n), NEW r \in [Axes -> Int], NEW h \in Nat, NEW F,
         \A t \in DOMAIN S.points : S.points[t].amp \in Int,
         F = [c \in Component |-> [v \in Main!Cells(n, c) |-> Half(S, n, r, h, c, v)]]
  PROVE  Typed(F, n)
<1>1. \A c \in Component : \A v \in Main!Cells(n, c) : Half(S, n, r, h, c, v) \in Values
  BY HalfType
<1> QED BY <1>1 DEF Typed

\* The cells of the auxiliary line.
Ex(A, j) == A[<<"E", 1>>][<<0, 0, j>>]
Hy(A, i) == A[<<"H", 2>>][<<1, 0, i>>]

\* One step of the line: from the fields A to the fields B.
Marches(s, A, B) ==
  /\ \A j \in (Pml + 2)..(AuxHalf(s) - 1) :
       Ex(B, j) = (Ex(A, j) - Rate[s.k[1]] * (Hy(A, j + 1) - Hy(A, j))) % P
  /\ \A i \in 1..(AuxHalf(s) - 1) :
       Hy(B, i) = (Hy(A, i) - Rate[s.k[1]] * (Ex(B, i) - Ex(B, i - 1))) % P

\* The copies at the ends of the line.
LEMMA AuxMirrors ==
  ASSUME NEW s, Placed(s), Aligned(s), NEW j \in Int, 0 <= j, j < AuxHalf(s)
  PROVE  LET n == AuxSize(s)
         IN  /\ Mirror(n, <<"E", 1>>, <<0, 0, j>>) = <<0, 0, j>>
             /\ j > 0 => Mirror(n, <<"H", 2>>, <<1, 0, j>>) = <<1, 0, j>>
             /\ Mirror(n, <<"H", 2>>, <<1, 0, j + 1>>) = <<1, 0, j + 1>>
             /\ Mirror(n, <<"H", 3>>, <<1, 1, j>>) = Mirror(n, <<"H", 3>>, <<1, 0, j>>)
             /\ Mirror(n, <<"E", 3>>, <<1, 0, j>>) = Mirror(n, <<"E", 3>>, <<0, 0, j>>)
<1>1. AuxHalf(s) \in Nat /\ AuxHalf(s) > 1
  BY OriginFacts
<1>2. AuxSize(s)[1] = 1 /\ AuxSize(s)[2] = 1 /\ AuxSize(s)[3] = AuxHalf(s) /\ Axes = {1, 2, 3}
  BY AxisFacts DEF AuxSize
<1>3. \A x, y, z \in Int : <<x, y, z>> \in Vectors
  BY DEF Vectors, Axes
<1>4. ASSUME NEW c \in Component, NEW v \in Vectors
      PROVE  /\ Mirror(AuxSize(s), c, v) \in Vectors
             /\ \A a \in Axes : Mirror(AuxSize(s), c, v)[a] =
                  IF a = c[2] THEN v[a]
                  ELSE IF c[1] = "E" THEN IF v[a] = AuxSize(s)[a] THEN 0 ELSE v[a]
                                     ELSE IF v[a] = 0 THEN AuxSize(s)[a] ELSE v[a]
  <2>1. \A a \in Axes : AuxSize(s)[a] \in Int /\ v[a] \in Int
    BY <1>1, <1>2 DEF Vectors
  <2> QED BY <2>1 DEF Mirror, Vectors
<1>5. /\ <<"E", 1>> \in Component /\ <<"H", 2>> \in Component /\ <<"H", 3>> \in Component
      /\ <<"E", 3>> \in Component
  BY AxisFacts DEF Component
<1>6. /\ <<0, 0, j>> \in Vectors /\ <<1, 0, j>> \in Vectors /\ <<1, 0, j + 1>> \in Vectors
      /\ <<1, 1, j>> \in Vectors
  BY <1>3
<1>7. Mirror(AuxSize(s), <<"E", 1>>, <<0, 0, j>>) = <<0, 0, j>>
  <2> DEFINE M == Mirror(AuxSize(s), <<"E", 1>>, <<0, 0, j>>)
  <2>1. M \in Vectors /\ M[1] = 0 /\ M[2] = 0 /\ M[3] = j
    BY <1>1, <1>2, <1>4, <1>5, <1>6
  <2> QED BY <1>2, <1>6, <2>1, VectorEqual
<1>8. ASSUME j > 0
      PROVE  Mirror(AuxSize(s), <<"H", 2>>, <<1, 0, j>>) = <<1, 0, j>>
  <2> DEFINE M == Mirror(AuxSize(s), <<"H", 2>>, <<1, 0, j>>)
  <2>1. M \in Vectors /\ M[1] = 1 /\ M[2] = 0 /\ M[3] = j
    BY <1>1, <1>2, <1>4, <1>5, <1>6, <1>8
  <2> QED BY <1>2, <1>6, <2>1, VectorEqual
<1>9. Mirror(AuxSize(s), <<"H", 2>>, <<1, 0, j + 1>>) = <<1, 0, j + 1>>
  <2> DEFINE M == Mirror(AuxSize(s), <<"H", 2>>, <<1, 0, j + 1>>)
  <2>1. M \in Vectors /\ M[1] = 1 /\ M[2] = 0 /\ M[3] = j + 1
    BY <1>1, <1>2, <1>4, <1>5, <1>6
  <2> QED BY <1>2, <1>6, <2>1, VectorEqual
<1>10. Mirror(AuxSize(s), <<"H", 3>>, <<1, 1, j>>) = Mirror(AuxSize(s), <<"H", 3>>, <<1, 0, j>>)
  <2> DEFINE M == Mirror(AuxSize(s), <<"H", 3>>, <<1, 1, j>>)
             N == Mirror(AuxSize(s), <<"H", 3>>, <<1, 0, j>>)
  <2>1. M \in Vectors /\ M[1] = 1 /\ M[2] = 1 /\ M[3] = j
    BY <1>1, <1>2, <1>4, <1>5, <1>6
  <2>2. N \in Vectors /\ N[1] = 1 /\ N[2] = 1 /\ N[3] = j
    BY <1>1, <1>2, <1>4, <1>5, <1>6
  <2> HIDE DEF M, N
  <2>3. M = N
    BY <1>2, <2>1, <2>2, VectorEqual
  <2> QED BY <2>3 DEF M, N
<1>11. Mirror(AuxSize(s), <<"E", 3>>, <<1, 0, j>>) = Mirror(AuxSize(s), <<"E", 3>>, <<0, 0, j>>)
  <2> DEFINE M == Mirror(AuxSize(s), <<"E", 3>>, <<1, 0, j>>)
             N == Mirror(AuxSize(s), <<"E", 3>>, <<0, 0, j>>)
  <2>1. M \in Vectors /\ M[1] = 0 /\ M[2] = 0 /\ M[3] = j
    BY <1>1, <1>2, <1>4, <1>5, <1>6
  <2>2. N \in Vectors /\ N[1] = 0 /\ N[2] = 0 /\ N[3] = j
    BY <1>1, <1>2, <1>4, <1>5, <1>6
  <2> HIDE DEF M, N
  <2>3. M = N
    BY <1>2, <2>1, <2>2, VectorEqual
  <2> QED BY <2>3 DEF M, N
<1> QED BY <1>7, <1>8, <1>9, <1>10, <1>11

\* The auxiliary simulation updates the cells of its line.
LEMMA LineActive ==
  ASSUME NEW s, Placed(s), Aligned(s), NEW j \in Int, 0 <= j, j < AuxHalf(s)
  PROVE  LET n == AuxSize(s)
             g == Serial(AuxSize(s))
         IN  /\ <<0, 0, j>> \in Main!Cells(n, <<"E", 1>>) /\ Main!Active(g, <<"E", 1>>, <<0, 0, j>>)
             /\ j > 0 => /\ <<1, 0, j>> \in Main!Cells(n, <<"H", 2>>)
                         /\ Main!Active(g, <<"H", 2>>, <<1, 0, j>>)
<1>1. AuxSize(s)[1] = 1 /\ AuxSize(s)[2] = 1 /\ AuxSize(s)[3] = AuxHalf(s) /\ AuxSize(s) \in Sizes
  BY AuxCells DEF AuxSize
<1>2. <<"E", 1>> \in Component /\ <<"H", 2>> \in Component /\ Axes = {1, 2, 3}
  BY AxisFacts DEF Component
<1>3. <<0, 0, j>> \in Vectors /\ <<1, 0, j>> \in Vectors
  BY DEF Vectors, Axes
<1>4. \A a \in Axes : Serial(AuxSize(s)).off[a] = 0 /\ Serial(AuxSize(s)).n = AuxSize(s)
  BY SerialFacts
<1> DEFINE n == AuxSize(s)
           g == Serial(n)
<1>7. /\ g.off[1] = 0 /\ g.off[2] = 0 /\ g.off[3] = 0
      /\ g.n[1] = 1 /\ g.n[2] = 1 /\ g.n[3] = AuxHalf(s)
  BY <1>1, <1>2, <1>4
<1>8. AuxHalf(s) \in Nat
  BY OriginFacts
<1> HIDE DEF g
<1>5. Owned(g, <<"E", 1>>, <<0, 0, j>>)
  <2> DEFINE v == <<0, 0, j>>
  <2>1. v[1] = 0 /\ v[2] = 0 /\ v[3] = j
    OBVIOUS
  <2>2. <<"E", 1>>[1] # "H"
    OBVIOUS
  <2> HIDE DEF v
  <2>3. Owned(g, <<"E", 1>>, v)
    BY <1>2, <1>7, <1>8, <2>1, <2>2 DEF Owned
  <2> QED BY <2>3 DEF v
<1>6. ASSUME j > 0
      PROVE  Owned(g, <<"H", 2>>, <<1, 0, j>>)
  <2> DEFINE v == <<1, 0, j>>
             c == <<"H", 2>>
  <2>1. v[1] = 1 /\ v[2] = 0 /\ v[3] = j /\ c[1] = "H" /\ c[2] = 2
    OBVIOUS
  <2> HIDE DEF v, c
  <2>3. Owned(g, c, v)
    BY <1>2, <1>6, <1>7, <1>8, <2>1 DEF Owned
  <2> QED BY <2>3 DEF v, c
<1>9. /\ <<0, 0, j>> \in Main!Cells(n, <<"E", 1>>) /\ Main!Active(g, <<"E", 1>>, <<0, 0, j>>)
  BY <1>1, <1>2, <1>3, <1>5, ActiveOwned DEF g
<1>10. ASSUME j > 0
       PROVE  /\ <<1, 0, j>> \in Main!Cells(n, <<"H", 2>>) /\ Main!Active(g, <<"H", 2>>, <<1, 0, j>>)
  BY <1>1, <1>2, <1>3, <1>6, <1>10, ActiveOwned DEF g
<1> QED BY <1>9, <1>10 DEF g

\* The half steps of the line.
LEMMA LineElectric ==
  ASSUME NEW s, Placed(s), Aligned(s), NEW S, Typed(S.F, AuxSize(s)), Sourced(S),
         NEW h \in Nat, Main!Family(h) = "E"
  PROVE  LET n == AuxSize(s)
             r == AuxRate(s)
             R == Rate[s.k[1]]
         IN  /\ \A j \in (Pml + 2)..(AuxHalf(s) - 1) :
                  Half(S, n, r, h, <<"E", 1>>, <<0, 0, j>>)
                    = (Ex(S.F, j) - R * (Hy(S.F, j + 1) - Hy(S.F, j))) % P
             /\ \A i \in 1..(AuxHalf(s) - 1) : Half(S, n, r, h, <<"H", 2>>, <<1, 0, i>>) = Hy(S.F, i)
<1> DEFINE n == AuxSize(s)
           r == AuxRate(s)
           R == Rate[s.k[1]]
<1>1. AuxHalf(s) \in Nat /\ Pml \in Nat
  BY OriginFacts
<1>2. ASSUME NEW i \in 1..(AuxHalf(s) - 1)
      PROVE  Half(S, n, r, h, <<"H", 2>>, <<1, 0, i>>) = Hy(S.F, i)
  <2>0. i \in Int /\ 0 <= i /\ i > 0 /\ i < AuxHalf(s)
    BY <1>1
  <2>1. Mirror(n, <<"H", 2>>, <<1, 0, i>>) = <<1, 0, i>>
    BY <2>0, AuxMirrors
  <2>2. <<"H", 2>>[1] # Main!Family(h)
    OBVIOUS
  <2> QED BY <2>1, <2>2 DEF Half, Hy
<1>3. ASSUME NEW j \in (Pml + 2)..(AuxHalf(s) - 1)
      PROVE  Half(S, n, r, h, <<"E", 1>>, <<0, 0, j>>)
               = (Ex(S.F, j) - R * (Hy(S.F, j + 1) - Hy(S.F, j))) % P
  <2> DEFINE c == <<"E", 1>>
             v == <<0, 0, j>>
             w == Move(v, 1, 1)
             at(f, x, y) == S.F[<<f, x>>][Mirror(n, <<f, x>>, y)]
  <2>1. j \in Int /\ 0 <= j /\ j > 0 /\ j < AuxHalf(s) /\ j <= AuxHalf(s) /\ j # Pml + 1
    BY <1>1
  <2>2. Main!Active(Serial(n), c, v)
    BY <2>1, LineActive
  <2>3. <<c, v>> \notin DOMAIN S.points
    BY <2>1 DEF Sourced
  <2>4. Half(S, n, r, h, c, v) = (S.F[c][v] + Swirl(S.F, n, r, c, v)) % P
    BY <2>2, <2>3 DEF Half
  <2>5. w = <<1, 0, j>> /\ Move(w, 2, 1) = <<1, 1, j>> /\ Move(w, 3, 1) = <<1, 0, j + 1>>
    BY <2>1 DEF Move
  <2>6. Swirl(S.F, n, r, c, v) = r[2] * (at("H", 3, <<1, 1, j>>) - at("H", 3, <<1, 0, j>>))
                                   - r[3] * (at("H", 2, <<1, 0, j + 1>>) - at("H", 2, <<1, 0, j>>))
    <3>1. AxisB(1) = 2 /\ AxisC(1) = 3
      BY DEF AxisB, AxisC
    <3> QED BY <2>5, <3>1 DEF Swirl
  <2>7. r[2] = R /\ r[3] = R /\ R \in Int
    BY AxisFacts, Directions, RateType DEF AuxRate
  <2>8. at("H", 3, <<1, 1, j>>) = at("H", 3, <<1, 0, j>>)
    BY <2>1, AuxMirrors
  <2>9. at("H", 3, <<1, 0, j>>) \in Int
    <3>1. <<"H", 3>> \in Component /\ n \in Sizes
      BY AxisFacts, AuxCells, <2>1 DEF Component
    <3>2. <<1, 0, j>> \in Main!Cells(n, <<"H", 3>>)
      <4>1. <<1, 0, j>> \in Vectors /\ <<1, 0, j>>[1] = 1 /\ <<1, 0, j>>[2] = 0 /\ <<1, 0, j>>[3] = j
        BY <2>1 DEF Vectors, Axes
      <4>2. n[1] = 1 /\ n[2] = 1 /\ n[3] = AuxHalf(s)
        BY DEF AuxSize
      <4>3. /\ Limit(n, <<"H", 3>>, 1) = 2 /\ Limit(n, <<"H", 3>>, 2) = 2
            /\ Limit(n, <<"H", 3>>, 3) = AuxHalf(s)
        BY <4>2 DEF Limit
      <4> QED BY <1>1, <2>1, <3>1, <4>1, <4>3, AxisFacts, CellFacts
    <3>3. S.F[<<"H", 3>>] \in [Main!Cells(n, <<"H", 3>>) -> Values]
      BY <3>1 DEF Typed
    <3>4. Mirror(n, <<"H", 3>>, <<1, 0, j>>) \in Main!Cells(n, <<"H", 3>>)
      BY <3>1, <3>2, <3>3, SyncComponentFacts
    <3> QED BY <3>3, <3>4, PType DEF Values
  <2>10. at("H", 2, <<1, 0, j + 1>>) = Hy(S.F, j + 1) /\ at("H", 2, <<1, 0, j>>) = Hy(S.F, j)
    BY <2>1, AuxMirrors DEF Hy
  <2>11. Hy(S.F, j + 1) \in Int /\ Hy(S.F, j) \in Int /\ Ex(S.F, j) \in Int
    <3>1. <<0, 0, j>> \in Main!Cells(n, <<"E", 1>>) /\ <<1, 0, j>> \in Main!Cells(n, <<"H", 2>>)
      BY <2>1, AuxCells
    <3>2. <<1, 0, j + 1>> \in Main!Cells(n, <<"H", 2>>)
      <4>1. j + 1 \in Int /\ 0 <= j + 1 /\ j + 1 <= AuxHalf(s)
        BY <1>1, <2>1
      <4> QED BY <4>1, AuxCells
    <3>3. <<"E", 1>> \in Component /\ <<"H", 2>> \in Component
      BY AxisFacts DEF Component
    <3> QED BY <3>1, <3>2, <3>3, PType DEF Ex, Hy, Typed, Values
  <2> HIDE DEF at
  <2>12. Swirl(S.F, n, r, c, v) = -(R * (Hy(S.F, j + 1) - Hy(S.F, j)))
    BY <2>6, <2>7, <2>8, <2>9, <2>10, <2>11
  <2>13. S.F[c][v] = Ex(S.F, j)
    BY DEF Ex
  <2> DEFINE x == Ex(S.F, j)
             y == R * (Hy(S.F, j + 1) - Hy(S.F, j))
  <2>14. x \in Int /\ y \in Int
    BY <2>7, <2>11
  <2> HIDE DEF x, y, c, v, r, n
  <2>15. x + (-y) = x - y
    BY <2>14
  <2> QED BY <2>4, <2>12, <2>13, <2>15 DEF x, y, c, v, r, n
<1> QED BY <1>2, <1>3

\* The magnetic half step of the line; its source is electric.
LEMMA LineMagnetic ==
  ASSUME NEW s, Placed(s), Aligned(s), NEW S, Typed(S.F, AuxSize(s)), Sourced(S),
         NEW h \in Nat, Main!Family(h) = "H"
  PROVE  LET n == AuxSize(s)
             r == AuxRate(s)
             R == Rate[s.k[1]]
         IN  /\ \A j \in 0..(AuxHalf(s) - 1) : Half(S, n, r, h, <<"E", 1>>, <<0, 0, j>>) = Ex(S.F, j)
             /\ \A i \in 1..(AuxHalf(s) - 1) :
                  Half(S, n, r, h, <<"H", 2>>, <<1, 0, i>>)
                    = (Hy(S.F, i) - R * (Ex(S.F, i) - Ex(S.F, i - 1))) % P
<1> DEFINE n == AuxSize(s)
           r == AuxRate(s)
           R == Rate[s.k[1]]
<1>1. AuxHalf(s) \in Nat
  BY OriginFacts
<1>2. ASSUME NEW j \in 0..(AuxHalf(s) - 1)
      PROVE  Half(S, n, r, h, <<"E", 1>>, <<0, 0, j>>) = Ex(S.F, j)
  <2>0. j \in Int /\ 0 <= j /\ j < AuxHalf(s)
    BY <1>1
  <2>1. Mirror(n, <<"E", 1>>, <<0, 0, j>>) = <<0, 0, j>>
    BY <2>0, AuxMirrors
  <2>2. <<"E", 1>>[1] # Main!Family(h)
    OBVIOUS
  <2> QED BY <2>1, <2>2 DEF Half, Ex
<1>3. ASSUME NEW i \in 1..(AuxHalf(s) - 1)
      PROVE  Half(S, n, r, h, <<"H", 2>>, <<1, 0, i>>)
               = (Hy(S.F, i) - R * (Ex(S.F, i) - Ex(S.F, i - 1))) % P
  <2> DEFINE c == <<"H", 2>>
             v == <<1, 0, i>>
             z == Move(Move(v, 3, -1), 1, -1)
             at(f, x, y) == S.F[<<f, x>>][Mirror(n, <<f, x>>, y)]
  <2>1. /\ i \in Int /\ 0 <= i /\ i > 0 /\ i < AuxHalf(s) /\ i <= AuxHalf(s)
        /\ i - 1 \in Int /\ 0 <= i - 1 /\ i - 1 < AuxHalf(s)
    BY <1>1
  <2>2. Main!Active(Serial(n), c, v)
    BY <2>1, LineActive
  <2>3. <<c, v>> \notin DOMAIN S.points
    BY DEF Sourced
  <2>4. Half(S, n, r, h, c, v) = (S.F[c][v] + Swirl(S.F, n, r, c, v)) % P
    BY <2>2, <2>3 DEF Half
  <2>5. Move(v, 3, -1) = <<1, 0, i - 1>> /\ z = <<0, 0, i - 1>> /\ Move(v, 1, -1) = <<0, 0, i>>
    BY <2>1 DEF Move
  <2>6. Swirl(S.F, n, r, c, v) = r[1] * (at("E", 3, <<1, 0, i - 1>>) - at("E", 3, <<0, 0, i - 1>>))
                                   - r[3] * (at("E", 1, <<0, 0, i>>) - at("E", 1, <<0, 0, i - 1>>))
    <3>1. AxisB(2) = 3 /\ AxisC(2) = 1
      BY DEF AxisB, AxisC
    <3> QED BY <2>5, <3>1 DEF Swirl
  <2>7. r[1] = R /\ r[3] = R /\ R \in Int
    BY AxisFacts, Directions, RateType DEF AuxRate
  <2>8. at("E", 3, <<1, 0, i - 1>>) = at("E", 3, <<0, 0, i - 1>>)
    BY <2>1, AuxMirrors
  <2>9. at("E", 3, <<0, 0, i - 1>>) \in Int
    <3> DEFINE j == i - 1
    <3>0. j \in Int /\ 0 <= j /\ j < AuxHalf(s)
      BY <2>1
    <3> HIDE DEF j
    <3>1. <<"E", 3>> \in Component /\ n \in Sizes
      BY AxisFacts, AuxCells, <2>1 DEF Component
    <3>2. <<0, 0, j>> \in Main!Cells(n, <<"E", 3>>)
      <4>1. <<0, 0, j>> \in Vectors /\ <<0, 0, j>>[1] = 0 /\ <<0, 0, j>>[2] = 0 /\ <<0, 0, j>>[3] = j
        BY <3>0 DEF Vectors, Axes
      <4>2. n[1] = 1 /\ n[2] = 1 /\ n[3] = AuxHalf(s)
        BY DEF AuxSize
      <4>3. /\ Limit(n, <<"E", 3>>, 1) = 2 /\ Limit(n, <<"E", 3>>, 2) = 2
            /\ Limit(n, <<"E", 3>>, 3) = AuxHalf(s)
        BY <4>2 DEF Limit
      <4> QED BY <1>1, <3>0, <3>1, <4>1, <4>3, AxisFacts, CellFacts
    <3>3. S.F[<<"E", 3>>] \in [Main!Cells(n, <<"E", 3>>) -> Values]
      BY <3>1 DEF Typed
    <3>4. Mirror(n, <<"E", 3>>, <<0, 0, j>>) \in Main!Cells(n, <<"E", 3>>)
      BY <3>1, <3>2, <3>3, SyncComponentFacts
    <3> QED BY <3>3, <3>4, PType DEF Values, j
  <2>10. at("E", 1, <<0, 0, i>>) = Ex(S.F, i) /\ at("E", 1, <<0, 0, i - 1>>) = Ex(S.F, i - 1)
    BY <2>1, AuxMirrors DEF Ex
  <2>11. Ex(S.F, i) \in Int /\ Ex(S.F, i - 1) \in Int /\ Hy(S.F, i) \in Int
    <3>1. <<0, 0, i>> \in Main!Cells(n, <<"E", 1>>) /\ <<1, 0, i>> \in Main!Cells(n, <<"H", 2>>)
      BY <2>1, AuxCells
    <3>2. <<0, 0, i - 1>> \in Main!Cells(n, <<"E", 1>>)
      BY <2>1, AuxCells
    <3>3. <<"E", 1>> \in Component /\ <<"H", 2>> \in Component
      BY AxisFacts DEF Component
    <3> QED BY <3>1, <3>2, <3>3, PType DEF Ex, Hy, Typed, Values
  <2> HIDE DEF at
  <2>12. Swirl(S.F, n, r, c, v) = -(R * (Ex(S.F, i) - Ex(S.F, i - 1)))
    BY <2>6, <2>7, <2>8, <2>9, <2>10, <2>11
  <2>13. S.F[c][v] = Hy(S.F, i)
    BY DEF Hy
  <2> DEFINE x == Hy(S.F, i)
             y == R * (Ex(S.F, i) - Ex(S.F, i - 1))
  <2>14. x \in Int /\ y \in Int
    BY <2>7, <2>11
  <2> HIDE DEF x, y, c, v, r, n
  <2>15. x + (-y) = x - y
    BY <2>14
  <2> QED BY <2>4, <2>12, <2>13, <2>15 DEF x, y, c, v, r, n
<1> QED BY <1>2, <1>3

\* A whole step of the line.
LEMMA LineStep ==
  ASSUME NEW s, Placed(s), Aligned(s), NEW S, Solver(S), Typed(S.F, AuxSize(s)), Sourced(S),
         NEW h \in Nat, h % 2 = 0
  PROVE  LET b == AuxGrid(s)
             T == Nested(s)!HalfStep(Nested(s)!HalfStep(S, h, b), h + 1, b)
         IN  Solver(T) /\ Typed(T.F, AuxSize(s)) /\ Sourced(T) /\ Marches(s, S.F, T.F)
<1> DEFINE n == AuxSize(s)
           b == Serial(n)
           U == Nested(s)!HalfStep(S, h, b)
           T == Nested(s)!HalfStep(U, h + 1, b)
<1>0. b = AuxGrid(s)
  BY DEF AuxGrid, AuxSize
<1>1. n \in Sizes /\ s.k[1] \in Axes /\ h + 1 \in Nat /\ AuxRate(s) \in [Axes -> Int]
  <2>1. n \in Sizes
    <3>1. 0 \in Int
      OBVIOUS
    <3> QED BY <3>1, AuxCells
  <2> QED BY <2>1, Directions, RateType DEF AuxRate
<1>2. Main!Family(h) = "E" /\ Main!Family(h + 1) = "H"
  BY DEF Main!Family
<1>3. /\ Solver(U) /\ U.points = S.points
      /\ U.F = [c \in Component |-> [v \in Main!Cells(n, c) |-> Half(S, n, AuxRate(s), h, c, v)]]
  BY <1>1, NestedHalfStep
<1> HIDE DEF U, n
<1>4. Typed(U.F, n) /\ Sourced(U)
  <2>1. Sourced(U)
    BY <1>3 DEF Sourced
  <2>2. Typed(U.F, n)
    BY <1>1, <1>3, HalfTyped DEF Sourced, n
  <2> QED BY <2>1, <2>2
<1>5. /\ Solver(T) /\ T.points = U.points
      /\ T.F = [c \in Component |-> [v \in Main!Cells(n, c) |-> Half(U, n, AuxRate(s), h + 1, c, v)]]
  BY <1>1, <1>3, <1>4, NestedHalfStep
<1> HIDE DEF T
<1>6. Typed(T.F, n) /\ Sourced(T)
  <2>1. Sourced(T)
    BY <1>4, <1>5 DEF Sourced
  <2>2. Typed(T.F, n)
    BY <1>1, <1>4, <1>5, HalfTyped DEF Sourced, n
  <2> QED BY <2>1, <2>2
<1>7. AuxHalf(s) \in Nat /\ Pml \in Nat /\ <<"E", 1>> \in Component /\ <<"H", 2>> \in Component
  BY OriginFacts, AxisFacts DEF Component
<1>8. ASSUME NEW j \in 0..(AuxHalf(s) - 1)
      PROVE  Ex(T.F, j) = Ex(U.F, j)
  <2>0. j \in Int /\ 0 <= j /\ j < AuxHalf(s)
    BY <1>7
  <2>1. <<0, 0, j>> \in Main!Cells(n, <<"E", 1>>)
    BY <2>0, LineActive DEF n
  <2>2. Ex(T.F, j) = Half(U, n, AuxRate(s), h + 1, <<"E", 1>>, <<0, 0, j>>)
    BY <1>5, <1>7, <2>1 DEF Ex
  <2> QED BY <1>1, <1>2, <1>4, <2>2, LineMagnetic DEF n
<1>9. ASSUME NEW j \in (Pml + 2)..(AuxHalf(s) - 1)
      PROVE  Ex(T.F, j) = (Ex(S.F, j) - Rate[s.k[1]] * (Hy(S.F, j + 1) - Hy(S.F, j))) % P
  <2>1. j \in 0..(AuxHalf(s) - 1)
    BY <1>7
  <2>0. j \in Int /\ 0 <= j /\ j < AuxHalf(s)
    BY <1>7
  <2>2. <<0, 0, j>> \in Main!Cells(n, <<"E", 1>>)
    BY <2>0, LineActive DEF n
  <2>3. Ex(U.F, j) = Half(S, n, AuxRate(s), h, <<"E", 1>>, <<0, 0, j>>)
    BY <1>3, <1>7, <2>2 DEF Ex
  <2> QED BY <1>2, <1>8, <2>1, <2>3, LineElectric DEF n
<1>10. ASSUME NEW i \in 1..(AuxHalf(s) - 1)
       PROVE  Hy(T.F, i) = (Hy(S.F, i) - Rate[s.k[1]] * (Ex(T.F, i) - Ex(T.F, i - 1))) % P
  <2>1. /\ i \in Int /\ 0 <= i /\ i > 0 /\ i < AuxHalf(s) /\ i \in 0..(AuxHalf(s) - 1)
        /\ i - 1 \in 0..(AuxHalf(s) - 1)
    BY <1>7
  <2>2. <<1, 0, i>> \in Main!Cells(n, <<"H", 2>>)
    BY <2>1, LineActive DEF n
  <2>3. /\ Hy(T.F, i) = Half(U, n, AuxRate(s), h + 1, <<"H", 2>>, <<1, 0, i>>)
        /\ Hy(U.F, i) = Half(S, n, AuxRate(s), h, <<"H", 2>>, <<1, 0, i>>)
    BY <1>3, <1>5, <1>7, <2>2 DEF Hy
  <2>4. Hy(U.F, i) = Hy(S.F, i)
    BY <1>2, <2>3, LineElectric DEF n
  <2>5. Hy(T.F, i) = (Hy(U.F, i) - Rate[s.k[1]] * (Ex(U.F, i) - Ex(U.F, i - 1))) % P
    BY <1>1, <1>2, <1>4, <2>3, LineMagnetic DEF n
  <2>6. Ex(T.F, i) = Ex(U.F, i) /\ Ex(T.F, i - 1) = Ex(U.F, i - 1)
    BY <1>8, <2>1
  <2> QED BY <2>4, <2>5, <2>6
<1>11. Marches(s, S.F, T.F)
  BY <1>9, <1>10 DEF Marches
<1> QED BY <1>0, <1>5, <1>6, <1>11 DEF T, U, n

\* The signs of the directions.
LEMMA Signs ==
  ASSUME NEW T \in {1, -1}, NEW K \in {1, -1}, NEW D \in {1, -1}, NEW M \in Int, NEW R \in Int,
         NEW x \in Int, NEW y \in Int
  PROVE  LET S == -(T * K * D)
             w == R * (K * (x - y))
         IN  /\ T * R * (S * M * x - S * M * y) = -(D * M * w)
             /\ T * R * (D * M * x - D * M * y) = -(S * M * w)
             /\ S \in Int /\ w \in Int /\ S * M \in Int /\ D * M \in Int
             /\ S * M * x \in Int /\ S * M * y \in Int /\ D * M * x \in Int /\ D * M * y \in Int
<1> DEFINE z == x - y
           u == R * z
           q == M * u
<1>1. z \in Int /\ u \in Int /\ q \in Int
  OBVIOUS
<1>2. M * x - M * y = M * z /\ M * (R * z) = q /\ R * (M * z) = q
  BY <1>1
<1> DEFINE S == -(T * K * D)
           w == R * (K * (x - y))
<1>3. S \in {1, -1} /\ (K = 1 => w = u) /\ (K = -1 => w = -u)
  BY <1>1
<1>4. w \in Int /\ S \in Int /\ M * w = (IF K = 1 THEN q ELSE -q)
  BY <1>1, <1>3
<1>5. \A g \in {1, -1} : g * M * x - g * M * y = g * (M * z)
  BY <1>1
<1>6. \A g \in {1, -1} : T * R * (g * (M * z)) = T * (g * q)
  <2>1. \A g \in {1, -1} : T * R * (g * (M * z)) = T * (g * (R * (M * z)))
    BY <1>1
  <2> QED BY <1>2, <2>1
<1>7. \A g \in {1, -1} : g * M * w = g * (M * w)
  BY <1>4
<1> HIDE DEF w, q
<1>8. q \in Int
  BY <1>1
<1>9. T * R * (S * M * x - S * M * y) = T * (S * q)
  BY <1>3, <1>5, <1>6
<1>10. T * R * (D * M * x - D * M * y) = T * (D * q)
  BY <1>5, <1>6
<1>11. T * (S * q) = -(D * (IF K = 1 THEN q ELSE -q))
  BY <1>8
<1>12. T * (D * q) = -(S * (IF K = 1 THEN q ELSE -q))
  BY <1>8
<1>13. /\ S * M \in Int /\ D * M \in Int /\ S * M * x \in Int /\ S * M * y \in Int
       /\ D * M * x \in Int /\ D * M * y \in Int
  BY <1>4
<1>14. D * M * w = D * (M * w) /\ S * M * w = S * (M * w)
  BY <1>3, <1>7
<1> HIDE DEF S
<1>15. T * R * (S * M * x - S * M * y) = -(D * M * w)
  BY <1>4, <1>9, <1>11, <1>14
<1>16. T * R * (D * M * x - D * M * y) = -(S * M * w)
  BY <1>4, <1>10, <1>12, <1>14
<1> QED BY <1>4, <1>13, <1>15, <1>16 DEF S, w

\* A factor of a residue of a difference.
LEMMA ModScale ==
  ASSUME NEW p \in Int, NEW x \in Int, NEW w \in Int
  PROVE  (p * ((x - w) % P)) % P = (p * x - p * w) % P
<1>1. x - w \in Int /\ p * (x - w) = p * x - p * w
  OBVIOUS
<1> QED BY <1>1, ModTimes

\* The electric wave in the box marches as the line does.
LEMMA ElectricMarch ==
  ASSUME NEW s, Placed(s), Aligned(s), NEW A, Typed(A, AuxSize(s)), NEW B, Marches(s, A, B),
         NEW i \in Int, Between(s, s.k[1], i)
  PROVE  (PE(s, A, i) + Turn(s) * Rate[s.k[1]] * (PH(s, A, i + 1) - PH(s, A, i))) % P = PE(s, B, i) % P
<1> DEFINE T == Turn(s)
           K == s.k[2]
           D == s.e[2]
           R == Rate[s.k[1]]
           j == EIndex(s, i)
           S == -(T * K * D)
           ex == Ex(A, j)
           h1 == A[<<"H", 2>>][HCell(s, i + 1)]
           h0 == A[<<"H", 2>>][HCell(s, i)]
           w == R * (K * (h1 - h0))
<1>1. T \in {1, -1} /\ K \in {1, -1} /\ D \in {1, -1} /\ R \in Int /\ Amp \in Int
  BY Directions, RateType, LaunchAssumption
<1>2. ex \in Int /\ h1 \in Int /\ h0 \in Int
  <2>1. i + 1 \in Int /\ Between(s, s.k[1], (i + 1) - 1)
    <3>1. (i + 1) - 1 = i
      OBVIOUS
    <3> QED BY <3>1
  <2> QED BY <2>1, Samples DEF ECell, Ex
<1>3. j \in (Pml + 2)..(AuxHalf(s) - 1)
  BY IndexRange, OriginFacts
<1>4. Ex(B, j) = (ex - R * (Hy(A, j + 1) - Hy(A, j))) % P
  BY <1>3 DEF Marches
<1>5. R * (Hy(A, j + 1) - Hy(A, j)) = w
  <2>1. Origin(s) \in Int
    BY OriginFacts
  <2>2. CASE K = 1
    <3>1. HIndex(s, i + 1) = j + 1 /\ HIndex(s, i) = j
      BY <2>1, <2>2 DEF HIndex, EIndex
    <3>2. Hy(A, j + 1) = h1 /\ Hy(A, j) = h0
      BY <3>1 DEF Hy, HCell
    <3> HIDE DEF h1, h0, K
    <3> QED BY <1>2, <2>2, <3>2
  <2>3. CASE K = -1
    <3>1. HIndex(s, i + 1) = j /\ HIndex(s, i) = j + 1
      BY <2>1, <2>3 DEF HIndex, EIndex
    <3>2. Hy(A, j + 1) = h0 /\ Hy(A, j) = h1
      BY <3>1 DEF Hy, HCell
    <3> HIDE DEF h1, h0, K
    <3> QED BY <1>2, <2>3, <3>2
  <2> QED BY <1>1, <2>2, <2>3
<1>6. /\ PE(s, A, i) = D * Amp * ex /\ PE(s, B, i) = D * Amp * Ex(B, j)
      /\ PH(s, A, i + 1) = S * Amp * h1 /\ PH(s, A, i) = S * Amp * h0
  BY DEF PE, PH, ECell, Ex, HShare
<1> DEFINE lhs == PE(s, A, i) + Turn(s) * Rate[s.k[1]] * (PH(s, A, i + 1) - PH(s, A, i))
<1>7. lhs = D * Amp * ex + T * R * (S * Amp * h1 - S * Amp * h0)
  BY <1>6
<1> HIDE DEF lhs
<1>8. /\ T * R * (S * Amp * h1 - S * Amp * h0) = -(D * Amp * w)
      /\ w \in Int /\ D * Amp \in Int
  <2> HIDE DEF T, K, D, R, h1, h0
  <2> QED BY <1>1, <1>2, Signs DEF w
<1> HIDE DEF T, K, D, R, ex, h1, h0, w, S, j
<1> DEFINE p == D * Amp
<1>9. p \in Int
  BY <1>8
<1>10. lhs = p * ex + (-(p * w)) /\ PE(s, B, i) = p * ((ex - w) % P)
  BY <1>4, <1>5, <1>6, <1>7, <1>8
<1> HIDE DEF p
<1>11. lhs = p * ex - p * w
  BY <1>2, <1>8, <1>9, <1>10
<1>12. (p * ((ex - w) % P)) % P = (p * ex - p * w) % P
  BY <1>2, <1>8, <1>9, ModScale
<1>13. lhs % P = PE(s, B, i) % P
  BY <1>10, <1>11, <1>12
<1> QED BY <1>13 DEF lhs

\* So does the magnetic wave, from the electric one already moved.
LEMMA MagneticMarch ==
  ASSUME NEW s, Placed(s), Aligned(s), NEW A, Typed(A, AuxSize(s)), NEW B, Typed(B, AuxSize(s)),
         Marches(s, A, B), NEW i \in Int, Between(s, s.k[1], i), Between(s, s.k[1], i - 1)
  PROVE  PH(s, B, i) % P = (PH(s, A, i) + Kick(s, B, i)) % P
<1> DEFINE T == Turn(s)
           K == s.k[2]
           D == s.e[2]
           R == Rate[s.k[1]]
           S == -(T * K * D)
           q == HIndex(s, i)
           hy == Hy(A, q)
           e1 == B[<<"E", 1>>][ECell(s, i)]
           e0 == B[<<"E", 1>>][ECell(s, i - 1)]
           w == R * (K * (e1 - e0))
<1>1. T \in {1, -1} /\ K \in {1, -1} /\ D \in {1, -1} /\ R \in Int /\ Amp \in Int
  BY Directions, RateType, LaunchAssumption
<1>2. hy \in Int /\ e1 \in Int /\ e0 \in Int
  <2>1. i - 1 \in Int
    OBVIOUS
  <2> QED BY <2>1, Samples DEF HCell, Hy
<1>3. q \in 1..(AuxHalf(s) - 1)
  BY IndexRange, OriginFacts
<1>4. Hy(B, q) = (hy - R * (Ex(B, q) - Ex(B, q - 1))) % P
  BY <1>3 DEF Marches
<1>5. R * (Ex(B, q) - Ex(B, q - 1)) = w
  <2>1. Origin(s) \in Int
    BY OriginFacts
  <2>2. CASE K = 1
    <3>1. EIndex(s, i) = q /\ EIndex(s, i - 1) = q - 1
      BY <2>1, <2>2 DEF HIndex, EIndex
    <3>2. Ex(B, q) = e1 /\ Ex(B, q - 1) = e0
      BY <3>1 DEF Ex, ECell
    <3> HIDE DEF e1, e0, K
    <3> QED BY <1>2, <2>2, <3>2
  <2>3. CASE K = -1
    <3>1. EIndex(s, i) = q - 1 /\ EIndex(s, i - 1) = q
      BY <2>1, <2>3 DEF HIndex, EIndex
    <3>2. Ex(B, q) = e0 /\ Ex(B, q - 1) = e1
      BY <3>1 DEF Ex, ECell
    <3> HIDE DEF e1, e0, K
    <3> QED BY <1>2, <2>3, <3>2
  <2> QED BY <1>1, <2>2, <2>3
<1>6. /\ PH(s, A, i) = S * Amp * hy /\ PH(s, B, i) = S * Amp * Hy(B, q)
      /\ PE(s, B, i) = D * Amp * e1 /\ PE(s, B, i - 1) = D * Amp * e0
  BY DEF PE, PH, HCell, Hy, HShare
<1>7. Kick(s, B, i) = T * R * (D * Amp * e1 - D * Amp * e0)
  BY <1>6 DEF Kick
<1>8. /\ T * R * (D * Amp * e1 - D * Amp * e0) = -(S * Amp * w)
      /\ w \in Int /\ S * Amp \in Int
  <2> HIDE DEF T, K, D, R, e1, e0
  <2> QED BY <1>1, <1>2, Signs DEF w
<1> HIDE DEF T, K, D, R, hy, e1, e0, w, S, q
<1> DEFINE p == S * Amp
<1>9. p \in Int
  BY <1>8
<1>10. PH(s, A, i) + Kick(s, B, i) = p * hy + (-(p * w)) /\ PH(s, B, i) = p * ((hy - w) % P)
  BY <1>4, <1>5, <1>6, <1>7, <1>8
<1> HIDE DEF p
<1>11. PH(s, A, i) + Kick(s, B, i) = p * hy - p * w
  BY <1>2, <1>8, <1>9, <1>10
<1>12. (p * ((hy - w) % P)) % P = (p * hy - p * w) % P
  BY <1>2, <1>8, <1>9, ModScale
<1> QED BY <1>10, <1>11, <1>12

-----------------------------------------------------------------------------
\* The faces supply what the curl does not see.

\* An update and its sources on residues.
LEMMA ModUpdate ==
  ASSUME NEW a \in Int, NEW r \in Int, NEW x \in Int, NEW y \in Int, NEW j \in Int
  PROVE  ((((a % P) + r * ((x % P) - (y % P))) % P) + j) % P = (a + r * (x - y) + j) % P
<1>1. PICK ka \in Int, za \in 0..(P - 1) : a = P * ka + za /\ a % P = za
  BY ModSplit
<1>2. PICK kx \in Int, zx \in 0..(P - 1) : x = P * kx + zx /\ x % P = zx
  BY ModSplit
<1>3. PICK ky \in Int, zy \in 0..(P - 1) : y = P * ky + zy /\ y % P = zy
  BY ModSplit
<1>4. za \in Int /\ zx \in Int /\ zy \in Int /\ P \in Int
  BY PType
<1> DEFINE w == za + r * (zx - zy)
           k == ka + r * (kx - ky)
<1>5. w \in Int /\ k \in Int /\ w + j \in Int
  BY <1>4
<1>6. a + r * (x - y) = w + P * k
  <2>1. r * (x - y) = r * (zx - zy) + P * (r * (kx - ky))
    BY <1>2, <1>3, <1>4
  <2> DEFINE f == r * (zx - zy)
             g == r * (kx - ky)
  <2>2. f \in Int /\ g \in Int
    BY <1>4
  <2> HIDE DEF f, g
  <2>3. P * ka + za + (f + P * g) = za + f + P * (ka + g)
    BY <1>4, <2>2
  <2> QED BY <1>1, <2>1, <2>3 DEF f, g
<1>7. (((za + r * (zx - zy)) % P) + j) % P = (w + j) % P
  BY <1>5, ModAdd
<1> HIDE DEF w, k
<1>8. a + r * (x - y) + j = (w + j) + P * k
  BY <1>4, <1>5, <1>6
<1>9. a + r * (x - y) + j \in Int
  OBVIOUS
<1>10. (a + r * (x - y) + j) % P = (w + j) % P
  BY <1>5, <1>8, <1>9, ModCongruent
<1> QED BY <1>1, <1>2, <1>3, <1>7, <1>10

\* The ends of the box.
LEMMA Ends ==
  ASSUME NEW s, Placed(s), Aligned(s)
  PROVE  LET k == s.k[1]
             m == Third(s)
         IN  /\ First(s, k) \in Int /\ Last(s, k) \in Int /\ First(s, k) <= Last(s, k)
             /\ First(s, m) \in Int /\ Last(s, m) \in Int /\ First(s, m) <= Last(s, m)
             /\ Turn(s) * Rate[k] \in Int /\ Turn(s) * Rate[m] \in Int
             /\ Turn(s) \in Int /\ Rate[k] \in Int /\ Rate[m] \in Int
BY Directions, Extents, RateType

\* A step of the electric field and its faces bring the wave forward, in the box and at its
\* ends, and leave nothing outside.
LEMMA FrontStep ==
  ASSUME NEW s, Placed(s), Aligned(s), NEW A, Typed(A, AuxSize(s)), NEW B, Marches(s, A, B),
         NEW i \in Int, NEW l \in Int
  PROVE  LET r == Turn(s) * Rate[s.k[1]]
         IN  ((((RE(s, A, i, l) % P) + r * ((RH(s, A, i + 1, l) % P) - (RH(s, A, i, l) % P))) % P)
                + FrontJump(s, A, i, l)) % P
               = RE(s, B, i, l) % P
<1> DEFINE k == s.k[1]
           T == Turn(s)
           R == Rate[k]
           r == T * R
           a == RE(s, A, i, l)
           x == RH(s, A, i + 1, l)
           y == RH(s, A, i, l)
           j == FrontJump(s, A, i, l)
           Mid == Between(s, Third(s), l)
           In == Between(s, k, i)
           X == PH(s, A, i + 1)
           Y == PH(s, A, i)
           E == PE(s, A, i)
<1>1. /\ First(s, k) \in Int /\ Last(s, k) \in Int /\ First(s, k) <= Last(s, k) /\ r \in Int
      /\ T \in Int /\ R \in Int
  BY Ends
<1>2. a \in Int /\ x \in Int /\ y \in Int
  <2>1. i + 1 \in Int
    OBVIOUS
  <2> QED BY <2>1, RawTypes
<1>3. /\ In => E \in Int /\ X \in Int /\ Y \in Int
  <2>1. i + 1 \in Int /\ (i + 1) - 1 = i
    OBVIOUS
  <2> QED BY <2>1, Samples
<1>4. Between(s, k, i + 1) /\ Between(s, k, (i + 1) - 1) <=> In /\ i # Last(s, k)
  <2> DEFINE f == First(s, k)
             g == Last(s, k)
  <2>1. f \in Int /\ g \in Int /\ f <= g
    BY <1>1
  <2> HIDE DEF f, g
  <2>2. (f <= i + 1 /\ i + 1 <= g) /\ (f <= (i + 1) - 1 /\ (i + 1) - 1 <= g) <=> (f <= i /\ i <= g) /\ i # g
    BY <2>1
  <2> QED BY <2>2 DEF f, g, Between
<1>5. Between(s, k, i) /\ Between(s, k, i - 1) <=> In /\ i # First(s, k)
  <2> DEFINE f == First(s, k)
             g == Last(s, k)
  <2>1. f \in Int /\ g \in Int /\ f <= g
    BY <1>1
  <2> HIDE DEF f, g
  <2>2. (f <= i /\ i <= g) /\ (f <= i - 1 /\ i - 1 <= g) <=> (f <= i /\ i <= g) /\ i # f
    BY <2>1
  <2> QED BY <2>2 DEF f, g, Between
<1>6. i = Last(s, k) \/ i = First(s, k) => In
  BY <1>1 DEF Between
<1>7. /\ a = IF In /\ Mid THEN E ELSE 0
      /\ x = IF In /\ i # Last(s, k) /\ Mid THEN X ELSE 0
      /\ y = IF In /\ i # First(s, k) /\ Mid THEN Y ELSE 0
      /\ j = IF Mid THEN r * ((IF i = Last(s, k) THEN X ELSE 0) - (IF i = First(s, k) THEN Y ELSE 0)) ELSE 0
      /\ RE(s, B, i, l) = IF In /\ Mid THEN PE(s, B, i) ELSE 0
  BY <1>4, <1>5 DEF RE, RH, Behind, FrontJump
<1>8. In => (E + r * (X - Y)) % P = PE(s, B, i) % P
  BY ElectricMarch
<1> HIDE DEF a, x, y, j, X, Y, E, Mid, In, r, T, R, k
<1>9. CASE In /\ Mid
  <2>1. /\ x = (IF i # Last(s, k) THEN X ELSE 0) /\ y = (IF i # First(s, k) THEN Y ELSE 0) /\ a = E
        /\ j = r * ((IF i = Last(s, k) THEN X ELSE 0) - (IF i = First(s, k) THEN Y ELSE 0))
    BY <1>7, <1>9
  <2> DEFINE x2 == IF i = Last(s, k) THEN X ELSE 0
             y2 == IF i = First(s, k) THEN Y ELSE 0
  <2>2. x + x2 = X /\ y + y2 = Y /\ x2 \in Int /\ y2 \in Int
    BY <1>3, <1>9, <2>1
  <2> HIDE DEF x2, y2
  <2>3. r * (x - y) + r * (x2 - y2) = r * (X - Y)
    <3>1. X - Y = (x - y) + (x2 - y2)
      BY <1>2, <2>2
    <3> DEFINE f == x - y
               g == x2 - y2
    <3>2. f \in Int /\ g \in Int
      BY <1>2, <2>2
    <3> HIDE DEF f, g
    <3>3. r * f + r * g = r * (f + g)
      BY <1>1, <3>2
    <3> QED BY <3>1, <3>3 DEF f, g
  <2>4. j = r * (x2 - y2)
    BY <2>1 DEF x2, y2
  <2>5. j \in Int /\ r * (x - y) \in Int
    BY <1>1, <1>2, <2>2, <2>4
  <2>6. a + r * (x - y) + j = E + r * (X - Y)
    BY <1>2, <2>1, <2>3, <2>4, <2>5
  <2>7. ((((a % P) + r * ((x % P) - (y % P))) % P) + j) % P = (a + r * (x - y) + j) % P
    BY <1>1, <1>2, <2>5, ModUpdate
  <2>8. RE(s, B, i, l) = PE(s, B, i)
    BY <1>7, <1>9
  <2> QED BY <1>8, <1>9, <2>6, <2>7, <2>8 DEF a, x, y, j, r, T, R, k
<1>10. CASE ~(In /\ Mid)
  <2>1. a = 0 /\ x = 0 /\ y = 0 /\ RE(s, B, i, l) = 0
    BY <1>7, <1>10
  <2>2. j = 0
    <3>1. CASE ~Mid
      BY <1>7, <3>1
    <3>2. CASE Mid
      <4>1. j = r * (0 - 0)
        BY <1>6, <1>7, <1>10, <3>2
      <4> QED BY <1>1, <4>1
    <3> QED BY <3>1, <3>2
  <2>3. ((((a % P) + r * ((x % P) - (y % P))) % P) + j) % P = (a + r * (x - y) + j) % P
    BY <1>1, <1>2, <2>2, ModUpdate
  <2>4. a + r * (x - y) + j = 0
    BY <1>1, <2>1, <2>2
  <2> QED BY <2>1, <2>3, <2>4 DEF a, x, y, j, r, T, R, k
<1> QED BY <1>9, <1>10

\* The same of the magnetic field.
LEMMA BackStep ==
  ASSUME NEW s, Placed(s), Aligned(s), NEW A, Typed(A, AuxSize(s)), NEW i \in Int, NEW l \in Int
  PROVE  LET r == Turn(s) * Rate[s.k[1]]
         IN  ((((RHPast(s, A, i, l) % P) + r * ((RE(s, A, i, l) % P) - (RE(s, A, i - 1, l) % P))) % P)
                + BackJump(s, A, i, l)) % P
               = RH(s, A, i, l) % P
<1> DEFINE k == s.k[1]
           T == Turn(s)
           R == Rate[k]
           r == T * R
           a == RHPast(s, A, i, l)
           x == RE(s, A, i, l)
           y == RE(s, A, i - 1, l)
           j == BackJump(s, A, i, l)
           Mid == Between(s, Third(s), l)
           X == PE(s, A, i)
           Y == PE(s, A, i - 1)
           H == PH(s, A, i)
           In == Between(s, k, i)
           On == Between(s, k, i - 1)
<1>1. /\ First(s, k) \in Int /\ Last(s, k) \in Int /\ First(s, k) <= Last(s, k) /\ r \in Int
      /\ T \in Int /\ R \in Int
  BY Ends
<1>2. a \in Int /\ x \in Int /\ y \in Int
  <2>1. i - 1 \in Int
    OBVIOUS
  <2> QED BY <2>1, RawTypes
<1>3. (In => X \in Int /\ H \in Int) /\ (On => Y \in Int)
  <2>1. i - 1 \in Int
    OBVIOUS
  <2> QED BY <2>1, Samples
<1>4. (i = First(s, k) <=> In /\ ~On) /\ (i = Last(s, k) + 1 <=> On /\ ~In)
  <2> DEFINE f == First(s, k)
             g == Last(s, k)
  <2>1. (In <=> f <= i /\ i <= g) /\ (On <=> f <= i - 1 /\ i - 1 <= g)
    BY DEF Between
  <2>2. f \in Int /\ g \in Int /\ f <= g
    BY <1>1
  <2> HIDE DEF f, g, In, On
  <2>3. (i = f <=> In /\ ~On) /\ (i = g + 1 <=> On /\ ~In)
    BY <2>1, <2>2
  <2> QED BY <2>3 DEF f, g
<1>5. /\ a = IF In /\ On /\ Mid THEN H - r * (X - Y) ELSE 0
      /\ x = IF In /\ Mid THEN X ELSE 0
      /\ y = IF On /\ Mid THEN Y ELSE 0
      /\ j = IF Mid THEN r * ((IF On /\ ~In THEN Y ELSE 0) - (IF In /\ ~On THEN X ELSE 0)) ELSE 0
      /\ RH(s, A, i, l) = IF In /\ On /\ Mid THEN H ELSE 0
  BY <1>4 DEF RE, RH, RHPast, Kick, Behind, BackJump
<1> HIDE DEF a, x, y, j, X, Y, H, Mid, In, On, r, T, R, k
<1>6. j \in Int /\ a + r * (x - y) + j = RH(s, A, i, l)
  <2>1. CASE ~Mid
    <3>1. a = 0 /\ x = 0 /\ y = 0 /\ j = 0 /\ RH(s, A, i, l) = 0
      BY <1>5, <2>1
    <3> QED BY <1>1, <3>1
  <2>2. CASE Mid /\ In /\ On
    <3>1. a = H - r * (X - Y) /\ x = X /\ y = Y /\ j = r * (0 - 0) /\ RH(s, A, i, l) = H
      BY <1>5, <2>2
    <3>2. H \in Int /\ X \in Int /\ Y \in Int
      BY <1>3, <2>2
    <3> DEFINE q == r * (X - Y)
    <3>3. q \in Int /\ j = 0
      BY <1>1, <3>1, <3>2
    <3> HIDE DEF q
    <3>4. a = H - q /\ r * (x - y) = q
      BY <3>1 DEF q
    <3> QED BY <3>1, <3>2, <3>3, <3>4
  <2>3. CASE Mid /\ In /\ ~On
    <3>1. a = 0 /\ x = X /\ y = 0 /\ j = r * (0 - X) /\ RH(s, A, i, l) = 0
      BY <1>5, <2>3
    <3>2. X \in Int
      BY <1>3, <2>3
    <3> QED BY <1>1, <3>1, <3>2
  <2>4. CASE Mid /\ ~In /\ On
    <3>1. a = 0 /\ x = 0 /\ y = Y /\ j = r * (Y - 0) /\ RH(s, A, i, l) = 0
      BY <1>5, <2>4
    <3>2. Y \in Int
      BY <1>3, <2>4
    <3> QED BY <1>1, <3>1, <3>2
  <2>5. CASE Mid /\ ~In /\ ~On
    <3>1. a = 0 /\ x = 0 /\ y = 0 /\ j = r * (0 - 0) /\ RH(s, A, i, l) = 0
      BY <1>5, <2>5
    <3> QED BY <1>1, <3>1
  <2> QED BY <2>1, <2>2, <2>3, <2>4, <2>5
<1>7. ((((a % P) + r * ((x % P) - (y % P))) % P) + j) % P = (a + r * (x - y) + j) % P
  BY <1>1, <1>2, <1>6, ModUpdate
<1> QED BY <1>6, <1>7 DEF a, x, y, j, r, T, R, k

\* At the faces along the beam the plan cancels the edge the curl sees.
LEMMA EdgeStep ==
  ASSUME NEW s, Placed(s), Aligned(s), NEW A, Typed(A, AuxSize(s)), NEW i \in Int, NEW l \in Int
  PROVE  LET r == Turn(s) * Rate[Third(s)]
         IN  (((0 + (-(r * ((RE(s, A, i, l) % P) - (RE(s, A, i, l - 1) % P))))) % P)
                + EdgeJump(s, A, i, l)) % P
               = 0
<1> DEFINE k == s.k[1]
           m == Third(s)
           T == Turn(s)
           R == Rate[m]
           r == T * R
           x == RE(s, A, i, l)
           y == RE(s, A, i, l - 1)
           j == EdgeJump(s, A, i, l)
           X == PE(s, A, i)
           In == Between(s, k, i)
           Mid == Between(s, m, l)
           Low1 == Between(s, m, l - 1)
<1>1. /\ First(s, m) \in Int /\ Last(s, m) \in Int /\ First(s, m) <= Last(s, m) /\ r \in Int
      /\ T \in Int /\ R \in Int
  BY Ends
<1>2. x \in Int /\ y \in Int
  BY RawTypes
<1>3. In => X \in Int
  BY Samples
<1>4. (l = First(s, m) <=> Mid /\ ~Low1) /\ (l = Last(s, m) + 1 <=> Low1 /\ ~Mid)
  BY <1>1 DEF Between
<1>5. /\ x = IF In /\ Mid THEN X ELSE 0
      /\ y = IF In /\ Low1 THEN X ELSE 0
      /\ j = IF In THEN r * ((IF Mid /\ ~Low1 THEN X ELSE 0) - (IF Low1 /\ ~Mid THEN X ELSE 0)) ELSE 0
  BY <1>4 DEF RE, EdgeJump
<1> HIDE DEF x, y, j, X, Mid, In, Low1, r, T, R, k, m
<1>6. j = r * (x - y)
  <2>1. CASE ~In
    <3>1. x = 0 /\ y = 0 /\ j = 0
      BY <1>5, <2>1
    <3> QED BY <1>1, <3>1
  <2>2. CASE In /\ Mid /\ Low1
    <3>1. x = X /\ y = X /\ j = r * (0 - 0) /\ X \in Int
      BY <1>3, <1>5, <2>2
    <3> QED BY <1>1, <3>1
  <2>3. CASE In /\ Mid /\ ~Low1
    <3>1. x = X /\ y = 0 /\ j = r * (X - 0) /\ X \in Int
      BY <1>3, <1>5, <2>3
    <3> QED BY <1>1, <3>1
  <2>4. CASE In /\ ~Mid /\ Low1
    <3>1. x = 0 /\ y = X /\ j = r * (0 - X) /\ X \in Int
      BY <1>3, <1>5, <2>4
    <3> QED BY <1>1, <3>1
  <2>5. CASE In /\ ~Mid /\ ~Low1
    <3>1. x = 0 /\ y = 0 /\ j = r * (0 - 0)
      BY <1>5, <2>5
    <3> QED BY <1>1, <3>1
  <2> QED BY <2>1, <2>2, <2>3, <2>4, <2>5
<1> DEFINE q == -r
<1>7. q \in Int /\ j \in Int /\ 0 \in Int
  BY <1>1, <1>2, <1>6
<1>8. ((((0 % P) + q * ((x % P) - (y % P))) % P) + j) % P = (0 + q * (x - y) + j) % P
  <2> HIDE DEF q
  <2> QED BY <1>2, <1>7, ModUpdate
<1>9. 0 + q * (x - y) + j = 0
  BY <1>1, <1>2, <1>6
<1>10. 0 % P = 0
  BY PType
<1>11. q * ((x % P) - (y % P)) = -(r * ((x % P) - (y % P)))
  <2> DEFINE z == (x % P) - (y % P)
  <2>1. z \in Int
    BY <1>2, PType
  <2> HIDE DEF z
  <2>2. q * z = -(r * z)
    BY <1>1, <2>1
  <2> QED BY <2>2 DEF z
<1> HIDE DEF q
<1> QED BY <1>8, <1>9, <1>10, <1>11 DEF x, y, j, r, T, R, k, m

-----------------------------------------------------------------------------
\* The invariant.

\* Rules lie on cells a view owns.
LEMMA PlanOwned ==
  ASSUME NEW s, Placed(s), NEW c \in Component, NEW u, <<c, u>> \in DOMAIN SourcePlan(s)
  PROVE  u \in Vectors /\ Owned(Serial(s.n), c, u)
<1> DEFINE terms == UNION {{<<r[1], r[2], g.at, r[3]>> : r \in Lowered(g, s)} : g \in Views(s)}
<1>1. DOMAIN SourcePlan(s) = {<<r[1], r[2]>> : r \in terms}
  BY DEF SourcePlan
<1>2. \A x : x \in terms <=> \E h \in Views(s) : \E r \in Lowered(h, s) : x = <<r[1], r[2], h.at, r[3]>>
  OBVIOUS
<1> HIDE DEF terms
<1>3. PICK x \in terms : <<c, u>> = <<x[1], x[2]>>
  BY <1>1
<1>4. PICK h \in Views(s) : \E r \in Lowered(h, s) : x = <<r[1], r[2], h.at, r[3]>>
  BY <1>2
<1>5. PICK r \in Lowered(h, s) : x = <<r[1], r[2], h.at, r[3]>>
  BY <1>4
<1>6. PICK d \in Component : \E f \in Faces(d) : \E w \in Vectors :
           /\ Carries(s, d, f) /\ Owned(h, d, w) /\ Spans(s, d, f, w)
           /\ r = <<d, w, Rule(Serial(s.n), s, d, f, w)>>
  BY LoweredIs
<1>7. PICK f \in Faces(d) : \E w \in Vectors :
           /\ Carries(s, d, f) /\ Owned(h, d, w) /\ Spans(s, d, f, w)
           /\ r = <<d, w, Rule(Serial(s.n), s, d, f, w)>>
  BY <1>6
<1>8. PICK w \in Vectors :
           /\ Carries(s, d, f) /\ Owned(h, d, w) /\ Spans(s, d, f, w)
           /\ r = <<d, w, Rule(Serial(s.n), s, d, f, w)>>
  BY <1>7
<1>9. d = c /\ w = u
  BY <1>3, <1>5, <1>8
<1> QED BY <1>8, <1>9, OneOwner

\* A copied cell is one the step updates, and such a cell copies itself.
LEMMA MirrorActive ==
  ASSUME NEW n \in Sizes, NEW c \in Component, NEW v \in Main!Cells(n, c)
  PROVE  /\ Mirror(n, c, v) \in Main!Cells(n, c) /\ Main!Active(Serial(n), c, Mirror(n, c, v))
         /\ Main!Active(Serial(n), c, v) => Mirror(n, c, v) = v
<1>1. v \in Vectors /\ \A a \in Axes : 0 <= v[a] /\ v[a] < Limit(n, c, a)
  BY CellFacts
<1>2. \A a \in Axes : n[a] \in Int /\ n[a] > 0 /\ v[a] \in Int
  <2>1. \A a \in Axes : n[a] \in Int /\ n[a] > 0
    BY DEF Sizes
  <2>2. \A a \in Axes : v[a] \in Int
    BY <1>1 DEF Vectors
  <2> QED BY <2>1, <2>2
<1>3. Mirror(n, c, v) \in Vectors
  BY <1>2 DEF Mirror, Vectors
<1>4. \A a \in Axes : Mirror(n, c, v)[a] = IF a = c[2] THEN v[a]
                  ELSE IF c[1] = "E" THEN IF v[a] = n[a] THEN 0 ELSE v[a]
                                     ELSE IF v[a] = 0 THEN n[a] ELSE v[a]
  BY DEF Mirror
<1>5. \A a \in Axes : Serial(n).off[a] = 0 /\ Serial(n).n = n
  BY SerialFacts
<1>6. c[1] \in {"E", "H"}
  BY ComponentFacts
<1> DEFINE M == Mirror(n, c, v)
<1>7. Owned(Serial(n), c, M)
  <2>1. ASSUME NEW a \in Axes
        PROVE  LET first == 0 + (IF c[1] = "H" /\ a # c[2] THEN 1 ELSE 0)
               IN  first <= M[a] /\ M[a] < first + n[a]
    <3>1. n[a] \in Int /\ n[a] > 0 /\ v[a] \in Int /\ 0 <= v[a] /\ v[a] < Limit(n, c, a)
      BY <1>1, <1>2
    <3>2. CASE a = c[2]
      <4>1. M[a] = v[a] /\ Limit(n, c, a) = n[a]
        BY <1>4, <3>2 DEF Limit
      <4> HIDE DEF M
      <4> QED BY <3>1, <3>2, <4>1
    <3>3. CASE a # c[2] /\ c[1] = "E"
      <4>1. M[a] = (IF v[a] = n[a] THEN 0 ELSE v[a]) /\ Limit(n, c, a) = n[a] + 1
        BY <1>4, <3>3 DEF Limit
      <4> HIDE DEF M
      <4> QED BY <3>1, <3>3, <4>1
    <3>4. CASE a # c[2] /\ c[1] = "H"
      <4>1. M[a] = (IF v[a] = 0 THEN n[a] ELSE v[a]) /\ Limit(n, c, a) = n[a] + 1
        BY <1>4, <3>4 DEF Limit
      <4> HIDE DEF M
      <4> QED BY <3>1, <3>4, <4>1
    <3> QED BY <1>6, <3>2, <3>3, <3>4
  <2> HIDE DEF M
  <2> QED BY <1>5, <2>1 DEF Owned
<1>8. ASSUME Main!Active(Serial(n), c, v)
      PROVE  Mirror(n, c, v) = v
  <2>1. Owned(Serial(n), c, v)
    BY <1>1, <1>8, ActiveOwned
  <2>2. ASSUME NEW a \in Axes
        PROVE  M[a] = v[a]
    <3>1. LET first == 0 + (IF c[1] = "H" /\ a # c[2] THEN 1 ELSE 0)
          IN  first <= v[a] /\ v[a] < first + n[a]
      BY <1>5, <2>1 DEF Owned
    <3>2. n[a] \in Int /\ v[a] \in Int
      BY <1>2
    <3>3. M[a] = IF a = c[2] THEN v[a]
                  ELSE IF c[1] = "E" THEN IF v[a] = n[a] THEN 0 ELSE v[a]
                                     ELSE IF v[a] = 0 THEN n[a] ELSE v[a]
      BY <1>4
    <3> HIDE DEF M
    <3> QED BY <1>6, <3>1, <3>2, <3>3
  <2> QED BY <1>1, <1>3, <2>2, VectorEqual
<1> QED BY <1>3, <1>7, <1>8, ActiveOwned

\* What a cell holds: the wave in the box, the magnetic one maybe half a step late.
Held(s, A, late, c, v) ==
  LET i == v[s.k[1]]
      l == v[Third(s)]
  IN  IF c = EOf(s) THEN RE(s, A, i, l)
      ELSE IF c = HOf(s) THEN IF late THEN RHPast(s, A, i, l) ELSE RH(s, A, i, l)
      ELSE 0

Holds(s, A, late, F) ==
  \A c \in Component : \A v \in Main!Cells(s.n, c) :
    Main!Active(Serial(s.n), c, v) => F[c][v] = Held(s, A, late, c, v) % P

\* The fields after the sources of a family.
Fed(s, G, fam, A) ==
  [c \in Component |->
     IF c[1] # fam THEN G[c]
     ELSE [v \in DOMAIN G[c] |->
             IF <<c, v>> \in DOMAIN SourcePlan(s)
             THEN (G[c][v] + Total(SourcePlan(s)[<<c, v>>], A[AuxComponent(c)])) % P
             ELSE G[c][v]]]

\* A residue is not reduced further.
LEMMA ModSame == \A x \in Values : x \in Int /\ x % P = x
BY PType DEF Values

\* Sources add the jump of the wave.
LEMMA FedIs ==
  ASSUME NEW s, Placed(s), Aligned(s), NEW A, Typed(A, AuxSize(s)), NEW G, Typed(G, s.n), NEW fam
  PROVE  /\ Typed(Fed(s, G, fam, A), s.n)
         /\ \A c \in Component : c[1] # fam => Fed(s, G, fam, A)[c] = G[c]
         /\ \A c \in Component : c[1] = fam =>
              \A v \in Main!Cells(s.n, c) : Main!Active(Serial(s.n), c, v) =>
                Fed(s, G, fam, A)[c][v] = (G[c][v] + Jump(s, A, c, v)) % P
<1> DEFINE N == Fed(s, G, fam, A)
<1>0. s.n \in Sizes
  BY DEF Placed, Sizes
<1>1. ASSUME NEW c \in Component, c[1] # fam
      PROVE  N[c] = G[c]
  BY <1>1 DEF Fed
<1>2. ASSUME NEW c \in Component, c[1] = fam
      PROVE  N[c] = [v \in Main!Cells(s.n, c) |->
             IF <<c, v>> \in DOMAIN SourcePlan(s)
             THEN (G[c][v] + Total(SourcePlan(s)[<<c, v>>], A[AuxComponent(c)])) % P
             ELSE G[c][v]]
  <2>1. DOMAIN G[c] = Main!Cells(s.n, c)
    BY DEF Typed
  <2> QED BY <1>2, <2>1 DEF Fed
<1> HIDE DEF N
<1>3. ASSUME NEW c \in Component, NEW v \in Main!Cells(s.n, c)
      PROVE  G[c][v] \in Values /\ G[c][v] \in Int /\ G[c][v] % P = G[c][v]
  <2>1. G[c][v] \in Values
    BY DEF Typed
  <2> QED BY <2>1, ModSame
<1>4. ASSUME NEW c \in Component, c[1] = fam, NEW v \in Main!Cells(s.n, c), Main!Active(Serial(s.n), c, v)
      PROVE  N[c][v] = (G[c][v] + Jump(s, A, c, v)) % P
  <2>1. v \in Vectors /\ Owned(Serial(s.n), c, v)
    BY <1>0, <1>4, ActiveOwned
  <2>2. /\ Jump(s, A, c, v) \in Int
        /\ IF <<c, v>> \in DOMAIN SourcePlan(s)
           THEN Total(SourcePlan(s)[<<c, v>>], A[AuxComponent(c)]) = Jump(s, A, c, v)
           ELSE Jump(s, A, c, v) = 0
    BY <2>1, JumpIs
  <2>3. CASE <<c, v>> \in DOMAIN SourcePlan(s)
    BY <1>2, <1>4, <2>2, <2>3
  <2>4. CASE <<c, v>> \notin DOMAIN SourcePlan(s)
    <3>1. N[c][v] = G[c][v] /\ Jump(s, A, c, v) = 0
      BY <1>2, <1>4, <2>2, <2>4
    <3>2. G[c][v] + 0 = G[c][v]
      BY <1>3
    <3> QED BY <1>3, <3>1, <3>2
  <2> QED BY <2>3, <2>4
<1>5. ASSUME NEW c \in Component
      PROVE  N[c] \in [Main!Cells(s.n, c) -> Values]
  <2>1. CASE c[1] # fam
    BY <1>1, <2>1 DEF Typed
  <2>2. CASE c[1] = fam
    <3>1. ASSUME NEW v \in Main!Cells(s.n, c)
          PROVE  N[c][v] \in Values
      <4>1. CASE <<c, v>> \notin DOMAIN SourcePlan(s)
        <5>1. N[c][v] = G[c][v]
          BY <1>2, <2>2, <4>1
        <5> QED BY <1>3, <5>1
      <4>2. CASE <<c, v>> \in DOMAIN SourcePlan(s)
        <5>1. v \in Vectors /\ Owned(Serial(s.n), c, v)
          BY <4>2, PlanOwned
        <5>2. Main!Active(Serial(s.n), c, v) /\ Jump(s, A, c, v) \in Int
          BY <1>0, <5>1, ActiveOwned, JumpIs
        <5>3. N[c][v] = (G[c][v] + Jump(s, A, c, v)) % P
          BY <1>4, <2>2, <5>2
        <5>4. G[c][v] + Jump(s, A, c, v) \in Int
          BY <1>3, <5>2
        <5> QED BY <5>3, <5>4, ModType DEF Values
      <4> QED BY <4>1, <4>2
    <3> QED BY <1>2, <2>2, <3>1
  <2> QED BY <2>1, <2>2
<1>6. Typed(N, s.n)
  BY <1>5 DEF Typed
<1> QED BY <1>1, <1>4, <1>6 DEF N

\* What the curls see of the wave.
LEMMA Seen ==
  ASSUME NEW s, Placed(s), Aligned(s), NEW A, Typed(A, AuxSize(s)), NEW F, NEW late,
         Holds(s, A, late, F)
  PROVE  /\ SeesElectric(s, A, F)
         /\ ~late => SeesMagnetic(s, A, F)
<1>0. ASSUME NEW x \in Axes
      PROVE  /\ s.n \in Sizes /\ <<"E", x>> \in Component /\ <<"H", x>> \in Component /\ 0 % P = 0
             /\ (<<"E", x>> = EOf(s) <=> x = s.e[1]) /\ (<<"H", x>> = HOf(s) <=> x = Third(s))
             /\ <<"E", x>> # HOf(s) /\ <<"H", x>> # EOf(s)
  BY PType DEF Placed, Sizes, Component, EOf, HOf
<1>1. ASSUME NEW x \in Axes, NEW y \in Main!Cells(s.n, <<"E", x>>)
      PROVE  F[<<"E", x>>][Mirror(s.n, <<"E", x>>, y)]
                = IF x = s.e[1] THEN RE(s, A, y[s.k[1]], y[Third(s)]) % P ELSE 0
  <2> DEFINE c == <<"E", x>>
             z == Mirror(s.n, c, y)
  <2>1. z \in Main!Cells(s.n, c) /\ Main!Active(Serial(s.n), c, z)
    BY <1>0, MirrorActive
  <2>2. F[c][z] = Held(s, A, late, c, z) % P
    BY <1>0, <2>1 DEF Holds
  <2>3. CASE x = s.e[1]
    <3>1. RE(s, A, z[s.k[1]], z[Third(s)]) = RE(s, A, y[s.k[1]], y[Third(s)])
      BY <1>0, <2>3, Copies
    <3> QED BY <1>0, <2>2, <2>3, <3>1 DEF Held
  <2>4. CASE x # s.e[1]
    BY <1>0, <2>2, <2>4 DEF Held
  <2> QED BY <2>3, <2>4
<1>2. ASSUME ~late, NEW x \in Axes, NEW y \in Main!Cells(s.n, <<"H", x>>)
      PROVE  F[<<"H", x>>][Mirror(s.n, <<"H", x>>, y)]
                = IF x = Third(s) THEN RH(s, A, y[s.k[1]], y[Third(s)]) % P ELSE 0
  <2> DEFINE c == <<"H", x>>
             z == Mirror(s.n, c, y)
  <2>1. z \in Main!Cells(s.n, c) /\ Main!Active(Serial(s.n), c, z)
    BY <1>0, MirrorActive
  <2>2. F[c][z] = Held(s, A, late, c, z) % P
    BY <1>0, <2>1 DEF Holds
  <2>3. CASE x = Third(s)
    <3>1. RH(s, A, z[s.k[1]], z[Third(s)]) = RH(s, A, y[s.k[1]], y[Third(s)])
      BY <1>0, <2>3, Copies
    <3> QED BY <1>0, <1>2, <2>2, <2>3, <3>1 DEF Held
  <2>4. CASE x # Third(s)
    BY <1>0, <2>2, <2>4 DEF Held
  <2> QED BY <2>3, <2>4
<1> QED BY <1>1, <1>2 DEF SeesElectric, SeesMagnetic

\* A summand moved across a residue.
LEMMA ModShift ==
  ASSUME NEW x \in Int, NEW y \in Int, NEW d \in Int, x % P = (y + d) % P
  PROVE  (x - d) % P = y % P
<1>1. ((x % P) + (-d)) % P = (x + (-d)) % P
  BY ModAdd
<1>2. (((y + d) % P) + (-d)) % P = ((y + d) + (-d)) % P
  BY ModAdd
<1>3. x + (-d) = x - d /\ (y + d) + (-d) = y
  OBVIOUS
<1> QED BY <1>1, <1>2, <1>3

\* The electric half of a step brings the electric fields to the next wave.
LEMMA ElectricHolds ==
  ASSUME NEW s, Placed(s), Aligned(s), NEW A, Typed(A, AuxSize(s)), NEW B, Typed(B, AuxSize(s)),
         Marches(s, A, B), NEW S, Typed(S.F, s.n), DOMAIN S.points = {}, Holds(s, A, FALSE, S.F),
         NEW h \in Nat, Main!Family(h) = "E",
         NEW G, G = [c \in Component |-> [v \in Main!Cells(s.n, c) |-> Half(S, s.n, Rate, h, c, v)]]
  PROVE  Typed(Fed(s, G, "E", A), s.n) /\ Holds(s, B, TRUE, Fed(s, G, "E", A))
<1> DEFINE N == Fed(s, G, "E", A)
           r == Turn(s) * Rate[s.k[1]]
<1>0. s.n \in Sizes /\ Rate \in [Axes -> Int] /\ r \in Int
  BY LaunchAssumption, Ends DEF Placed, Sizes
<1>1. Typed(G, s.n)
  BY <1>0, HalfTyped
<1>2. Typed(N, s.n)
  BY <1>1, FedIs
<1>3. ASSUME NEW c \in Component, NEW v \in Main!Cells(s.n, c), Main!Active(Serial(s.n), c, v)
      PROVE  N[c][v] = Held(s, B, TRUE, c, v) % P
  <2> DEFINE i == v[s.k[1]]
             l == v[Third(s)]
  <2>1. v \in Vectors /\ i \in Int /\ l \in Int /\ c[1] \in {"E", "H"}
    BY <1>0, CellFacts, Directions, ComponentFacts DEF Vectors
  <2>2. S.F[c][v] = Held(s, A, FALSE, c, v) % P
    BY <1>3 DEF Holds
  <2>3. G[c][v] = Half(S, s.n, Rate, h, c, v)
    OBVIOUS
  <2>4. CASE c[1] = "H"
    <3>1. N[c][v] = G[c][v] /\ c # EOf(s)
      BY <1>1, <2>4, FedIs DEF EOf
    <3>2. G[c][v] = S.F[c][v]
      BY <1>0, <1>3, <2>3, <2>4, MirrorActive DEF Half
    <3>3. CASE c = HOf(s)
      <4>1. Held(s, A, FALSE, c, v) = RH(s, A, i, l) /\ Held(s, B, TRUE, c, v) = RHPast(s, B, i, l)
        BY <3>1, <3>3 DEF Held
      <4>2. RH(s, A, i, l) % P = RHPast(s, B, i, l) % P
        <5> HIDE DEF i, l
        <5>1. CASE ~Behind(s, i, l)
          BY <5>1 DEF RH, RHPast
        <5>2. CASE Behind(s, i, l)
          <6>1. Between(s, s.k[1], i) /\ Between(s, s.k[1], i - 1) /\ i - 1 \in Int
            BY <2>1, <5>2 DEF Behind
          <6>2. /\ PH(s, A, i) \in Int /\ PH(s, B, i) \in Int
                /\ PE(s, B, i) \in Int /\ PE(s, B, i - 1) \in Int
            BY <2>1, <6>1, Samples
          <6>3. Kick(s, B, i) \in Int
            BY <1>0, <6>2 DEF Kick
          <6>4. PH(s, B, i) % P = (PH(s, A, i) + Kick(s, B, i)) % P
            BY <2>1, <6>1, MagneticMarch
          <6>5. (PH(s, B, i) - Kick(s, B, i)) % P = PH(s, A, i) % P
            BY <6>2, <6>3, <6>4, ModShift
          <6> QED BY <5>2, <6>5 DEF RH, RHPast
        <5> QED BY <5>1, <5>2
      <4> QED BY <2>2, <3>1, <3>2, <4>1, <4>2
    <3>4. CASE c # HOf(s)
      BY <2>2, <3>1, <3>2, <3>4 DEF Held
    <3> QED BY <3>3, <3>4
  <2>5. CASE c[1] = "E"
    <3>1. N[c][v] = (G[c][v] + Jump(s, A, c, v)) % P
      BY <1>1, <1>3, <2>5, FedIs
    <3>2. G[c][v] = (S.F[c][v] + Swirl(S.F, s.n, Rate, c, v)) % P
      BY <1>3, <2>3, <2>5 DEF Half
    <3>3. Swirl(S.F, s.n, Rate, c, v) =
            IF c = EOf(s) THEN r * ((RH(s, A, i + 1, l) % P) - (RH(s, A, i, l) % P)) ELSE 0
      <4>1. SeesMagnetic(s, A, S.F)
        BY Seen
      <4> QED BY <1>3, <2>5, <4>1, ElectricSwirl
    <3>4. CASE c = EOf(s)
      <4>1. Jump(s, A, c, v) = FrontJump(s, A, i, l)
        BY <3>4 DEF Jump
      <4>2. Held(s, A, FALSE, c, v) = RE(s, A, i, l) /\ Held(s, B, TRUE, c, v) = RE(s, B, i, l)
        BY <3>4 DEF Held
      <4>3. ((((RE(s, A, i, l) % P) + r * ((RH(s, A, i + 1, l) % P) - (RH(s, A, i, l) % P))) % P)
                + FrontJump(s, A, i, l)) % P = RE(s, B, i, l) % P
        BY <2>1, FrontStep
      <4> QED BY <2>2, <3>1, <3>2, <3>3, <3>4, <4>1, <4>2, <4>3
    <3>5. CASE c # EOf(s)
      <4>1. c # HOf(s) /\ c # TOf(s)
        BY <2>5 DEF HOf, TOf
      <4>2. Jump(s, A, c, v) = 0 /\ Held(s, A, FALSE, c, v) = 0 /\ Held(s, B, TRUE, c, v) = 0
        BY <3>5, <4>1 DEF Jump, Held
      <4>3. 0 % P = 0 /\ (0 + 0) % P = 0
        BY PType
      <4> QED BY <2>2, <3>1, <3>2, <3>3, <3>5, <4>2, <4>3
    <3> QED BY <3>4, <3>5
  <2> QED BY <2>1, <2>4, <2>5
<1>4. Holds(s, B, TRUE, N)
  BY <1>3 DEF Holds
<1> QED BY <1>2, <1>4

\* The magnetic half brings the magnetic fields there.
LEMMA MagneticHolds ==
  ASSUME NEW s, Placed(s), Aligned(s), NEW A, Typed(A, AuxSize(s)),
         NEW S, Typed(S.F, s.n), DOMAIN S.points = {}, Holds(s, A, TRUE, S.F),
         NEW h \in Nat, Main!Family(h) = "H",
         NEW G, G = [c \in Component |-> [v \in Main!Cells(s.n, c) |-> Half(S, s.n, Rate, h, c, v)]]
  PROVE  Typed(Fed(s, G, "H", A), s.n) /\ Holds(s, A, FALSE, Fed(s, G, "H", A))
<1> DEFINE N == Fed(s, G, "H", A)
           r == Turn(s) * Rate[s.k[1]]
           q == Turn(s) * Rate[Third(s)]
<1>0. s.n \in Sizes /\ Rate \in [Axes -> Int] /\ r \in Int /\ q \in Int
  BY LaunchAssumption, Ends DEF Placed, Sizes
<1>1. Typed(G, s.n)
  BY <1>0, HalfTyped
<1>2. Typed(N, s.n)
  BY <1>1, FedIs
<1>3. ASSUME NEW c \in Component, NEW v \in Main!Cells(s.n, c), Main!Active(Serial(s.n), c, v)
      PROVE  N[c][v] = Held(s, A, FALSE, c, v) % P
  <2> DEFINE i == v[s.k[1]]
             l == v[Third(s)]
  <2>1. v \in Vectors /\ i \in Int /\ l \in Int /\ c[1] \in {"E", "H"}
    BY <1>0, CellFacts, Directions, ComponentFacts DEF Vectors
  <2>2. S.F[c][v] = Held(s, A, TRUE, c, v) % P
    BY <1>3 DEF Holds
  <2>3. G[c][v] = Half(S, s.n, Rate, h, c, v)
    OBVIOUS
  <2>4. CASE c[1] = "E"
    <3>1. N[c][v] = G[c][v] /\ c # HOf(s)
      BY <1>1, <2>4, FedIs DEF HOf
    <3>2. G[c][v] = S.F[c][v]
      BY <1>0, <1>3, <2>3, <2>4, MirrorActive DEF Half
    <3> QED BY <2>2, <3>1, <3>2 DEF Held
  <2>5. CASE c[1] = "H"
    <3>1. N[c][v] = (G[c][v] + Jump(s, A, c, v)) % P
      BY <1>1, <1>3, <2>5, FedIs
    <3>2. G[c][v] = (S.F[c][v] + Swirl(S.F, s.n, Rate, c, v)) % P
      BY <1>3, <2>3, <2>5 DEF Half
    <3>3. Swirl(S.F, s.n, Rate, c, v) =
            IF c = HOf(s) THEN r * ((RE(s, A, i, l) % P) - (RE(s, A, i - 1, l) % P))
            ELSE IF c = TOf(s) THEN -(q * ((RE(s, A, i, l) % P) - (RE(s, A, i, l - 1) % P)))
            ELSE 0
      <4>1. SeesElectric(s, A, S.F)
        BY Seen
      <4> QED BY <1>3, <2>5, <4>1, MagneticSwirl
    <3>4. c # EOf(s) /\ TOf(s) # HOf(s)
      BY <2>5, Directions DEF EOf, TOf, HOf
    <3>5. CASE c = HOf(s)
      <4>1. Jump(s, A, c, v) = BackJump(s, A, i, l)
        BY <3>4, <3>5 DEF Jump
      <4>2. Held(s, A, TRUE, c, v) = RHPast(s, A, i, l) /\ Held(s, A, FALSE, c, v) = RH(s, A, i, l)
        BY <3>4, <3>5 DEF Held
      <4>3. ((((RHPast(s, A, i, l) % P) + r * ((RE(s, A, i, l) % P) - (RE(s, A, i - 1, l) % P))) % P)
                + BackJump(s, A, i, l)) % P = RH(s, A, i, l) % P
        BY <2>1, BackStep
      <4> QED BY <2>2, <3>1, <3>2, <3>3, <3>5, <4>1, <4>2, <4>3
    <3>6. CASE c = TOf(s)
      <4>1. Jump(s, A, c, v) = EdgeJump(s, A, i, l)
        BY <3>4, <3>6 DEF Jump
      <4>2. Held(s, A, TRUE, c, v) = 0 /\ Held(s, A, FALSE, c, v) = 0
        BY <3>4, <3>6 DEF Held
      <4>3. (((0 + (-(q * ((RE(s, A, i, l) % P) - (RE(s, A, i, l - 1) % P))))) % P)
                + EdgeJump(s, A, i, l)) % P = 0
        BY <2>1, EdgeStep
      <4>4. 0 % P = 0
        BY PType
      <4> QED BY <2>2, <3>1, <3>2, <3>3, <3>4, <3>6, <4>1, <4>2, <4>3, <4>4
    <3>7. CASE c # HOf(s) /\ c # TOf(s)
      <4>1. Jump(s, A, c, v) = 0 /\ Held(s, A, TRUE, c, v) = 0 /\ Held(s, A, FALSE, c, v) = 0
        BY <3>4, <3>7 DEF Jump, Held
      <4>2. 0 % P = 0 /\ (0 + 0) % P = 0
        BY PType
      <4> QED BY <2>2, <3>1, <3>2, <3>3, <3>7, <4>1, <4>2
    <3> QED BY <3>5, <3>6, <3>7
  <2> QED BY <2>1, <2>4, <2>5
<1>4. Holds(s, A, FALSE, N)
  BY <1>3 DEF Holds
<1> QED BY <1>2, <1>4

\* The inductive invariant.
IInv ==
  /\ launch \in Launches /\ plan = SourcePlan(launch) /\ half \in Nat
  /\ Aligned(launch) =>
       /\ Solver(main) /\ Typed(main.F, launch.n) /\ DOMAIN main.points = {}
       /\ Solver(aux) /\ Typed(aux.F, AuxSize(launch)) /\ Sourced(aux)
       /\ Holds(launch, aux.F, half % 2 = 1, main.F)

\* Quiet fields hold the wave of a quiet line.
LEMMA QuietHolds ==
  ASSUME NEW s, Placed(s), Aligned(s), NEW A, Typed(A, AuxSize(s)), NEW F,
         \A c \in Component : \A v \in Main!Cells(AuxSize(s), c) : A[c][v] = 0,
         \A c \in Component : \A v \in Main!Cells(s.n, c) : F[c][v] = 0
  PROVE  Holds(s, A, FALSE, F)
<1>1. SUFFICES ASSUME NEW c \in Component, NEW v \in Main!Cells(s.n, c)
               PROVE  Held(s, A, FALSE, c, v) % P = 0
  BY DEF Holds
<1> DEFINE i == v[s.k[1]]
           l == v[Third(s)]
<1>2. i \in Int /\ <<"E", 1>> \in Component /\ <<"H", 2>> \in Component
  <2>1. v \in Vectors
    BY CellFacts DEF Placed, Sizes
  <2> QED BY <2>1, AxisFacts, Directions DEF Vectors, Component
<1>3. 0 % P = 0
  BY PType
<1>4. ASSUME Between(s, s.k[1], i)
      PROVE  PE(s, A, i) = 0
  <2> DEFINE j == EIndex(s, i)
  <2>1. j \in Int /\ 0 <= j /\ j < AuxHalf(s)
    <3>1. j \in Int /\ Pml + 1 < j /\ j < AuxHalf(s) /\ Pml \in Nat
      BY <1>2, <1>4, IndexRange, OriginFacts
    <3> HIDE DEF j
    <3> QED BY <3>1, OriginFacts
  <2>2. ECell(s, i) \in Main!Cells(AuxSize(s), <<"E", 1>>)
    BY <2>1, AuxCells DEF ECell
  <2>3. A[<<"E", 1>>][ECell(s, i)] = 0 /\ s.e[2] * Amp \in Int
    BY <1>2, <2>2, Directions, LaunchAssumption
  <2> QED BY <2>3 DEF PE
<1>5. ASSUME Behind(s, i, l)
      PROVE  PH(s, A, i) = 0
  <2> DEFINE j == HIndex(s, i)
  <2>1. j \in Int /\ 0 <= j /\ j <= AuxHalf(s)
    <3>1. j \in Int /\ 1 <= j /\ j < AuxHalf(s)
      BY <1>2, <1>5, IndexRange DEF Behind
    <3> HIDE DEF j
    <3> QED BY <3>1, OriginFacts
  <2>2. HCell(s, i) \in Main!Cells(AuxSize(s), <<"H", 2>>)
    BY <2>1, AuxCells DEF HCell
  <2>3. A[<<"H", 2>>][HCell(s, i)] = 0 /\ HShare(s) * Amp \in Int
    <3>1. HShare(s) \in {1, -1}
      BY AxisFacts, Shares
    <3> QED BY <1>2, <2>2, <3>1, LaunchAssumption
  <2> QED BY <2>3 DEF PH
<1>6. Held(s, A, FALSE, c, v) = 0
  BY <1>4, <1>5 DEF Held, RE, RH
<1> QED BY <1>3, <1>6

\* What Quiet makes.
LEMMA QuietFacts ==
  ASSUME NEW g, NEW q, g.n \in Sizes
  PROVE  LET S == Quiet(g, q)
         IN  /\ Solver(S) /\ Typed(S.F, g.n) /\ S.points = Main!PointSources(g, q)
             /\ \A c \in Component : \A v \in Main!Cells(g.n, c) : S.F[c][v] = 0
<1> DEFINE Z == [c \in Component |-> [v \in Main!Cells(g.n, c) |-> 0]]
           p == Main!PointSources(g, q)
           S == Quiet(g, q)
<1>1. S = [F |-> Z, Q |-> <<>>, points |-> p]
  BY DEF Quiet
<1>2. 0 \in Values
  BY PType DEF Values
<1>3. Typed(Z, g.n) /\ \A c \in Component : \A v \in Main!Cells(g.n, c) : Z[c][v] = 0
  BY <1>2 DEF Typed
<1>4. DOMAIN <<>> = {}
  OBVIOUS
<1> HIDE DEF Z, p, S
<1>5. S.F = Z /\ S.Q = <<>> /\ S.points = p /\ DOMAIN S = {"F", "Q", "points"}
  BY <1>1
<1> QED BY <1>3, <1>4, <1>5 DEF Solver, S, p

\* No point sources, no points.
LEMMA NoPoints == \A g : DOMAIN Main!PointSources(g, <<>>) = {}
BY DEF Main!PointSources

\* The one source of the auxiliary simulation stands before the box.
LEMMA LinePoints ==
  ASSUME NEW s, Placed(s), Aligned(s), NEW S, S.points = Main!PointSources(AuxGrid(s), <<AuxSource(s)>>)
  PROVE  Sourced(S)
<1> DEFINE g == AuxGrid(s)
           q == <<AuxSource(s)>>
           kept == {i \in DOMAIN q : /\ ~Main!Elsewhere(g, q[i])
                                     /\ Main!Active(g, q[i].c, Main!Target(g, q[i]))}
           at(i) == <<q[i].c, Main!Target(g, q[i])>>
           pick(t) == CHOOSE i \in kept : at(i) = t /\ \A j \in kept : at(j) = t => j <= i
<1>1. S.points = [t \in {at(i) : i \in kept} |-> q[pick(t)]]
  BY DEF Main!PointSources, Main!Kept
<1>2. \A i \in kept : i = 1
  OBVIOUS
<1>3. q[1] = AuxSource(s)
  OBVIOUS
<1>4. AuxSource(s).c = <<"E", 1>> /\ AuxSource(s).amp = 1 /\ AuxSource(s).v = <<0, 0, Pml + 1>>
  <2>1. AuxIndex(s, <<"E", 1>>, -MaxDistance(s) - 2) = <<0, 0, Pml + 1>>
    BY AuxIndexes
  <2> QED BY <2>1 DEF AuxSource
<1>5. Main!Target(g, AuxSource(s)) = <<0, 0, Pml + 1>>
  <2>1. \A a \in Axes : Main!IndexOrigin(g, <<"E", 1>>, a) = 0
    BY SerialFacts DEF Main!IndexOrigin, AuxGrid
  <2>2. Main!Target(g, AuxSource(s)) = [a \in Axes |-> <<0, 0, Pml + 1>>[a] - 0]
    BY <1>4, <2>1, Names DEF Main!Target
  <2>3. Pml + 1 \in Int
    BY LaunchAssumption
  <2>4. \A a \in Axes : <<0, 0, Pml + 1>>[a] - 0 = <<0, 0, Pml + 1>>[a]
    BY <2>3, AxisFacts
  <2>5. <<0, 0, Pml + 1>> = [a \in Axes |-> <<0, 0, Pml + 1>>[a]]
    BY DEF Axes
  <2> QED BY <2>2, <2>4, <2>5
<1>6. at(1) = << <<"E", 1>>, <<0, 0, Pml + 1>> >>
  BY <1>3, <1>4, <1>5
<1> HIDE DEF kept, at, q
<1>7. ASSUME NEW t \in {at(i) : i \in kept}
      PROVE  t = at(1) /\ S.points[t].amp = 1
  <2>1. 1 \in kept /\ t = at(1)
    BY <1>2, <1>7
  <2>2. \E i \in kept : at(i) = t /\ \A j \in kept : at(j) = t => j <= i
    BY <1>2, <2>1
  <2>3. pick(t) \in kept
    BY <2>2
  <2> HIDE DEF pick
  <2>4. S.points[t] = q[1]
    BY <1>1, <1>2, <2>3, <1>7
  <2> QED BY <1>3, <1>4, <2>1, <2>4 DEF q
<1>8. DOMAIN S.points = {at(i) : i \in kept}
  BY <1>1
<1> QED BY <1>6, <1>7, <1>8 DEF Sourced

\* The invariant holds when a launch begins: nothing has been radiated.
LEMMA InitIInv == Init => IInv
<1> SUFFICES ASSUME Init PROVE IInv
  OBVIOUS
<1>1. launch \in Launches /\ plan = SourcePlan(launch) /\ half = 0 /\ Placed(launch)
  BY LaunchAssumption DEF Init
<1>2. ASSUME Aligned(launch)
      PROVE  /\ Solver(main) /\ Typed(main.F, launch.n) /\ DOMAIN main.points = {}
             /\ Solver(aux) /\ Typed(aux.F, AuxSize(launch)) /\ Sourced(aux)
             /\ Holds(launch, aux.F, half % 2 = 1, main.F)
  <2>1. launch.n \in Sizes /\ AuxSize(launch) \in Sizes
    <3>1. 0 \in Int
      OBVIOUS
    <3> QED BY <1>1, <1>2, <3>1, AuxCells DEF Placed, Sizes
  <2>2. Serial(launch.n).n = launch.n /\ AuxGrid(launch).n = AuxSize(launch)
    BY DEF Serial, AuxGrid, AuxSize
  <2>3. /\ Solver(main) /\ Typed(main.F, launch.n) /\ DOMAIN main.points = {}
        /\ \A c \in Component : \A v \in Main!Cells(launch.n, c) : main.F[c][v] = 0
    BY <2>1, <2>2, QuietFacts, NoPoints DEF Init
  <2>4. /\ Solver(aux) /\ Typed(aux.F, AuxSize(launch))
        /\ aux.points = Main!PointSources(AuxGrid(launch), <<AuxSource(launch)>>)
        /\ \A c \in Component : \A v \in Main!Cells(AuxSize(launch), c) : aux.F[c][v] = 0
    BY <2>1, <2>2, QuietFacts DEF Init
  <2>5. Sourced(aux)
    BY <1>1, <1>2, <2>4, LinePoints
  <2>6. Holds(launch, aux.F, FALSE, main.F)
    BY <1>1, <1>2, <2>3, <2>4, QuietHolds
  <2>7. (half % 2 = 1) = FALSE
    BY <1>1
  <2> QED BY <2>3, <2>4, <2>5, <2>6, <2>7
<1> QED BY <1>1, <1>2 DEF IInv

\* The sources of a family, as the plan of the launch gives them.
LEMMA InjectedIs ==
  ASSUME plan = SourcePlan(launch), NEW F, NEW fam, NEW A
  PROVE  Injected(F, fam, A) = Fed(launch, F, fam, A)
BY DEF Injected, Fed

\* Injecting into the fields leaves the rest of a solver.
LEMMA Replaced ==
  ASSUME NEW S, Solver(S), NEW X
  PROVE  LET T == [S EXCEPT !.F = X]
         IN  Solver(T) /\ T.F = X /\ T.points = S.points
BY DEF Solver

\* The electric half of a step keeps the invariant: sources, then the line.
LEMMA ElectricIInv == IInv /\ Electric => IInv'
<1> SUFFICES ASSUME IInv, Electric PROVE IInv'
  OBVIOUS
<1>1. /\ launch \in Launches /\ plan = SourcePlan(launch) /\ half \in Nat /\ half % 2 = 0
      /\ launch' = launch /\ plan' = plan /\ half' = half + 1 /\ Placed(launch)
      /\ aux' = AuxStep /\ main' = [MainHalf EXCEPT !.F = Injected(@, "E", aux.F)]
  BY LaunchAssumption DEF IInv, Electric
<1>2. half' \in Nat /\ (half' % 2 = 1) = TRUE /\ (half % 2 = 1) = FALSE
  BY <1>1
<1>3. ASSUME Aligned(launch)
      PROVE  /\ Solver(main') /\ Typed(main'.F, launch.n) /\ DOMAIN main'.points = {}
             /\ Solver(aux') /\ Typed(aux'.F, AuxSize(launch)) /\ Sourced(aux')
             /\ Holds(launch, aux'.F, TRUE, main'.F)
  <2>1. /\ Solver(main) /\ Typed(main.F, launch.n) /\ DOMAIN main.points = {}
        /\ Solver(aux) /\ Typed(aux.F, AuxSize(launch)) /\ Sourced(aux)
        /\ Holds(launch, aux.F, FALSE, main.F)
    BY <1>2, <1>3 DEF IInv
  <2>2. Solver(aux') /\ Typed(aux'.F, AuxSize(launch)) /\ Sourced(aux') /\ Marches(launch, aux.F, aux'.F)
    BY <1>1, <1>3, <2>1, LineStep DEF AuxStep
  <2>3. launch.n \in Sizes /\ Main!Family(half) = "E"
    BY <1>1 DEF Placed, Sizes, Main!Family
  <2> DEFINE T == MainHalf
             N == Fed(launch, T.F, "E", aux.F)
  <2>4. /\ Solver(T) /\ T.points = main.points
        /\ T.F = [c \in Component |-> [v \in Main!Cells(launch.n, c) |-> Half(main, launch.n, Rate, half, c, v)]]
    BY <1>1, <2>1, <2>3, MainHalfStep DEF MainHalf
  <2> HIDE DEF T
  <2>5. Typed(N, launch.n) /\ Holds(launch, aux'.F, TRUE, N)
    <3> DEFINE G == T.F
    <3>1. G = [c \in Component |-> [v \in Main!Cells(launch.n, c) |-> Half(main, launch.n, Rate, half, c, v)]]
      BY <2>4
    <3>2. Placed(launch) /\ half \in Nat
      BY <1>1
    <3> HIDE DEF G
    <3>3. /\ Typed(Fed(launch, G, "E", aux.F), launch.n)
          /\ Holds(launch, aux'.F, TRUE, Fed(launch, G, "E", aux.F))
      BY <1>3, <2>1, <2>2, <2>3, <3>1, <3>2, ElectricHolds, Zenon
    <3> QED BY <3>3 DEF G
  <2>6. main' = [T EXCEPT !.F = N]
    BY <1>1, InjectedIs DEF T
  <2>7. Solver(main') /\ main'.F = N /\ main'.points = T.points
    <3> HIDE DEF N
    <3> QED BY <2>4, <2>6, Replaced
  <2> QED BY <2>1, <2>2, <2>4, <2>5, <2>7
<1> QED BY <1>1, <1>2, <1>3 DEF IInv

\* The magnetic half keeps it: the line has moved already.
LEMMA MagneticIInv == IInv /\ Magnetic => IInv'
<1> SUFFICES ASSUME IInv, Magnetic PROVE IInv'
  OBVIOUS
<1>1. /\ launch \in Launches /\ plan = SourcePlan(launch) /\ half \in Nat /\ half % 2 = 1
      /\ launch' = launch /\ plan' = plan /\ half' = half + 1 /\ Placed(launch)
      /\ aux' = aux /\ main' = [MainHalf EXCEPT !.F = Injected(@, "H", aux.F)]
  BY LaunchAssumption DEF IInv, Magnetic
<1>2. half' \in Nat /\ (half' % 2 = 1) = FALSE /\ (half % 2 = 1) = TRUE
  BY <1>1
<1>3. ASSUME Aligned(launch)
      PROVE  /\ Solver(main') /\ Typed(main'.F, launch.n) /\ DOMAIN main'.points = {}
             /\ Solver(aux) /\ Typed(aux.F, AuxSize(launch)) /\ Sourced(aux)
             /\ Holds(launch, aux.F, FALSE, main'.F)
  <2>1. /\ Solver(main) /\ Typed(main.F, launch.n) /\ DOMAIN main.points = {}
        /\ Solver(aux) /\ Typed(aux.F, AuxSize(launch)) /\ Sourced(aux)
        /\ Holds(launch, aux.F, TRUE, main.F)
    BY <1>2, <1>3 DEF IInv
  <2>3. launch.n \in Sizes /\ Main!Family(half) = "H"
    BY <1>1 DEF Placed, Sizes, Main!Family
  <2> DEFINE T == MainHalf
             N == Fed(launch, T.F, "H", aux.F)
  <2>4. /\ Solver(T) /\ T.points = main.points
        /\ T.F = [c \in Component |-> [v \in Main!Cells(launch.n, c) |-> Half(main, launch.n, Rate, half, c, v)]]
    BY <1>1, <2>1, <2>3, MainHalfStep DEF MainHalf
  <2> HIDE DEF T
  <2>5. Typed(N, launch.n) /\ Holds(launch, aux.F, FALSE, N)
    <3> DEFINE G == T.F
    <3>1. G = [c \in Component |-> [v \in Main!Cells(launch.n, c) |-> Half(main, launch.n, Rate, half, c, v)]]
      BY <2>4
    <3>2. Placed(launch) /\ half \in Nat
      BY <1>1
    <3> HIDE DEF G
    <3>3. /\ Typed(Fed(launch, G, "H", aux.F), launch.n)
          /\ Holds(launch, aux.F, FALSE, Fed(launch, G, "H", aux.F))
      BY <1>3, <2>1, <2>3, <3>1, <3>2, MagneticHolds, Zenon
    <3> QED BY <3>3 DEF G
  <2>6. main' = [T EXCEPT !.F = N]
    BY <1>1, InjectedIs DEF T
  <2>7. Solver(main') /\ main'.F = N /\ main'.points = T.points
    <3> HIDE DEF N
    <3> QED BY <2>4, <2>6, Replaced
  <2> QED BY <2>1, <2>4, <2>5, <2>7
<1> QED BY <1>1, <1>2, <1>3 DEF IInv

\* So does every step.
LEMMA NextIInv == IInv /\ [Next]_vars => IInv'
<1>1. IInv /\ UNCHANGED vars => IInv'
  BY DEF IInv, vars
<1> QED BY <1>1, ElectricIInv, MagneticIInv DEF Next

\* In every launch the cells the step updates hold the wave of the auxiliary line inside the box
\* and nothing outside it, the magnetic ones half a step late between the halves.
THEOREM Inductive == Spec => []IInv
BY InitIInv, NextIInv, PTL DEF Spec

\* The box in cells.
LEMMA Zone ==
  ASSUME NEW s, Placed(s), Aligned(s), NEW c \in Component, NEW v \in Vectors
  PROVE  LET x == IndexToSpace(Serial(s.n), c, v)
             i == v[s.k[1]]
             l == v[Third(s)]
         IN  /\ c = EOf(s) => /\ InTotalZone(s, x) <=> Between(s, s.k[1], i) /\ Between(s, Third(s), l)
                              /\ x[s.k[1]] = 2 * i
             /\ c = HOf(s) => /\ InTotalZone(s, x) <=> Behind(s, i, l)
                              /\ x[s.k[1]] = 2 * i - 1
<1> DEFINE x == IndexToSpace(Serial(s.n), c, v)
           e == s.e[1]
           k == s.k[1]
           m == Third(s)
           i == v[k]
           l == v[m]
           In(a) == s.n[a] = 1 \/ (s.center[a] - s.half[a] <= x[a] /\ x[a] <= s.center[a] + s.half[a])
<1>1. /\ e \in Axes /\ k \in Axes /\ m \in Axes /\ e # k /\ e # m /\ k # m
      /\ \A a \in Axes : a = e \/ a = k \/ a = m
  BY Directions
<1>2. i \in Int /\ l \in Int
  BY <1>1 DEF Vectors
<1>3. s.n[e] = 1
  BY DEF Placed
<1>4. \A a \in {k, m} : /\ 2 * First(s, a) = s.center[a] - s.half[a]
                        /\ 2 * Last(s, a) = s.center[a] + s.half[a]
                        /\ First(s, a) \in Int /\ Last(s, a) \in Int /\ s.n[a] # 1
  <2> SUFFICES ASSUME NEW a \in Axes, a # e
               PROVE  /\ 2 * First(s, a) = s.center[a] - s.half[a]
                      /\ 2 * Last(s, a) = s.center[a] + s.half[a]
                      /\ First(s, a) \in Int /\ Last(s, a) \in Int /\ s.n[a] # 1
    BY <1>1
  <2>1. s.n[a] \in Nat /\ s.n[a] > 1
    BY Extents
  <2>2. s.n[a] # 1
    BY <2>1
  <2> QED BY <2>2, Extents
<1>5. \A a \in Axes : x[a] = 2 * v[a] + Stagger(c, a)
  <2>1. \A a \in Axes : x[a] = 2 * (v[a] + 0) + Stagger(c, a)
    BY SerialFacts DEF IndexToSpace
  <2>2. \A a \in Axes : v[a] + 0 = v[a]
    BY DEF Vectors
  <2> QED BY <2>1, <2>2
<1>6. InTotalZone(s, x) <=> In(k) /\ In(m)
  BY <1>1, <1>3 DEF InTotalZone
<1> HIDE DEF x, i, l, In
<1>7. ASSUME c = EOf(s)
      PROVE  /\ InTotalZone(s, x) <=> Between(s, k, i) /\ Between(s, m, l)
             /\ x[k] = 2 * i
  <2>1. Stagger(c, k) = 0 /\ Stagger(c, m) = 0
    BY <1>1, <1>7 DEF Stagger, EOf
  <2>2. x[k] = 2 * i /\ x[m] = 2 * l
    BY <1>1, <1>2, <1>5, <2>1 DEF i, l
  <2>3. In(k) <=> Between(s, k, i)
    <3>1. In(k) <=> 2 * First(s, k) <= 2 * i /\ 2 * i <= 2 * Last(s, k)
      BY <1>4, <2>2 DEF In
    <3> QED BY <1>2, <1>4, <3>1 DEF Between
  <2>4. In(m) <=> Between(s, m, l)
    <3>1. In(m) <=> 2 * First(s, m) <= 2 * l /\ 2 * l <= 2 * Last(s, m)
      BY <1>4, <2>2 DEF In
    <3> QED BY <1>2, <1>4, <3>1 DEF Between
  <2> QED BY <1>6, <2>2, <2>3, <2>4
<1>8. ASSUME c = HOf(s)
      PROVE  /\ InTotalZone(s, x) <=> Behind(s, i, l)
             /\ x[k] = 2 * i - 1
  <2>1. Stagger(c, k) = -1 /\ Stagger(c, m) = 0
    BY <1>1, <1>8 DEF Stagger, HOf
  <2>2. x[k] = 2 * i - 1 /\ x[m] = 2 * l
    BY <1>1, <1>2, <1>5, <2>1 DEF i, l
  <2>3. In(k) <=> Between(s, k, i) /\ Between(s, k, i - 1)
    <3>1. In(k) <=> 2 * First(s, k) <= 2 * i - 1 /\ 2 * i - 1 <= 2 * Last(s, k)
      BY <1>4, <2>2 DEF In
    <3> QED BY <1>2, <1>4, <3>1 DEF Between
  <2>4. In(m) <=> Between(s, m, l)
    <3>1. In(m) <=> 2 * First(s, m) <= 2 * l /\ 2 * l <= 2 * Last(s, m)
      BY <1>4, <2>2 DEF In
    <3> QED BY <1>2, <1>4, <3>1 DEF Between
  <2> QED BY <1>6, <2>2, <2>3, <2>4 DEF Behind
<1> QED BY <1>7, <1>8 DEF x, i, l

\* A cell of the box, and one outside it.
LEMMA HeldIs ==
  ASSUME IInv, Aligned(launch), NEW c \in Component, Current(c), NEW v \in Updated(c)
  PROVE  /\ ~InTotalZone(launch, Point(c, v)) => main.F[c][v] = 0
         /\ InTotalZone(launch, Point(c, v)) => main.F[c][v] = Incident(launch, c, Point(c, v))
<1> DEFINE s == launch
           A == aux.F
           x == Point(c, v)
           i == v[s.k[1]]
           l == v[Third(s)]
           late == half % 2 = 1
<1>1. /\ Placed(s) /\ Typed(main.F, s.n) /\ Typed(A, AuxSize(s)) /\ Holds(s, A, late, main.F)
      /\ half \in Nat
  BY LaunchAssumption DEF IInv
<1>2. s.n \in Sizes /\ 0 % P = 0
  BY <1>1, PType DEF Placed, Sizes
<1>3. v \in Main!Cells(s.n, c) /\ Main!Active(Serial(s.n), c, v)
  BY <1>1 DEF Updated, Typed
<1>4. v \in Vectors /\ c = <<c[1], c[2]>> /\ c[1] \in {"E", "H"} /\ c[2] \in Axes
  BY <1>2, <1>3, CellFacts, ComponentFacts
<1>5. main.F[c][v] = Held(s, A, late, c, v) % P
  BY <1>1, <1>3 DEF Holds
<1>6. c[1] = "H" => ~late
  <2>1. c[1] = "H" => half % 2 = 0
    BY DEF Current
  <2> QED BY <2>1
<1>7. x = IndexToSpace(Serial(s.n), c, v)
  BY DEF Point
<1>8. i \in Int /\ l \in Int
  BY <1>1, <1>4, Directions DEF Vectors
<1> HIDE DEF x, late
<1>9. CASE c = EOf(s)
  <2>1. c # HOf(s) /\ c[1] = "E" /\ c[2] = s.e[1]
    BY <1>9 DEF EOf, HOf
  <2>2. /\ InTotalZone(s, x) <=> Between(s, s.k[1], i) /\ Between(s, Third(s), l)
        /\ x[s.k[1]] = 2 * i
    BY <1>1, <1>4, <1>7, <1>9, Zone
  <2>3. main.F[c][v] = RE(s, A, i, l) % P
    BY <1>5, <1>9 DEF Held
  <2>4. AuxIndex(s, <<"E", 1>>, Metric(s, x)) = ECell(s, i)
    BY <1>1, <1>8, <2>2, AuxIndexes
  <2>5. EDirection(s)[c[2]] = s.e[2] /\ s.e[2] # 0
    BY <1>1, <1>4, <2>1, Shares
  <2>6. Incident(s, c, x) = PE(s, A, i) % P
    BY <2>1, <2>4, <2>5 DEF Incident, PE
  <2>7. ~InTotalZone(s, x) => main.F[c][v] = 0
    BY <1>2, <2>2, <2>3 DEF RE
  <2>8. InTotalZone(s, x) => main.F[c][v] = Incident(s, c, x)
    BY <2>2, <2>3, <2>6 DEF RE
  <2> QED BY <2>7, <2>8 DEF x
<1>10. CASE c = HOf(s)
  <2>1. c # EOf(s) /\ c[1] = "H" /\ c[2] = Third(s)
    BY <1>10 DEF EOf, HOf
  <2>2. /\ InTotalZone(s, x) <=> Behind(s, i, l)
        /\ x[s.k[1]] = 2 * i - 1
    BY <1>1, <1>4, <1>7, <1>10, Zone
  <2>3. main.F[c][v] = RH(s, A, i, l) % P
    BY <1>5, <1>6, <1>10, <2>1 DEF Held
  <2>4. AuxIndex(s, <<"H", 2>>, Metric(s, x)) = HCell(s, i)
    BY <1>1, <1>8, <2>2, AuxIndexes
  <2>5. HDirection(s)[c[2]] = HShare(s) /\ HShare(s) # 0
    BY <1>1, <1>4, <2>1, Shares
  <2>6. Incident(s, c, x) = PH(s, A, i) % P
    BY <2>1, <2>4, <2>5 DEF Incident, PH
  <2>7. ~InTotalZone(s, x) => main.F[c][v] = 0
    BY <1>2, <2>2, <2>3 DEF RH
  <2>8. InTotalZone(s, x) => main.F[c][v] = Incident(s, c, x)
    BY <2>2, <2>3, <2>6 DEF RH
  <2> QED BY <2>7, <2>8 DEF x
<1>11. CASE c # EOf(s) /\ c # HOf(s)
  <2>1. main.F[c][v] = 0
    BY <1>2, <1>5, <1>11 DEF Held
  <2>2. CASE c[1] = "E"
    <3>1. c[2] # s.e[1]
      BY <1>4, <1>11, <2>2 DEF EOf
    <3>2. EDirection(s)[c[2]] = 0
      BY <1>1, <1>4, <3>1, Shares
    <3>3. Incident(s, c, x) = 0
      BY <2>2, <3>2 DEF Incident
    <3> QED BY <2>1, <3>3 DEF x
  <2>3. CASE c[1] = "H"
    <3>1. c[2] # Third(s)
      BY <1>4, <1>11, <2>3 DEF HOf
    <3>2. HDirection(s)[c[2]] = 0
      BY <1>1, <1>4, <3>1, Shares
    <3>3. Incident(s, c, x) = 0
      BY <2>3, <3>2 DEF Incident
    <3> QED BY <2>1, <3>3 DEF x
  <2> QED BY <1>4, <2>2, <2>3
<1> QED BY <1>9, <1>10, <1>11

\* TotalFieldScatteredField radiates nothing outside its box, at any step, on one process or
\* two, for every sheet, cut, box, rate, amplitude and sense of the three directions whose face
\* helpers agree.
THEOREM ScatteredFieldIsZero == Spec => [](Aligned(launch) => ScatteredZoneEmpty)
<1>1. IInv => (Aligned(launch) => ScatteredZoneEmpty)
  BY HeldIs DEF ScatteredZoneEmpty
<1> QED BY <1>1, Inductive, PTL

\* Inside the box the field is the incident wave of the auxiliary solver, cell for cell and
\* step for step, under the same conditions.
THEOREM TotalFieldIsIncident == Spec => [](Aligned(launch) => TotalZoneIncident)
<1>1. IInv => (Aligned(launch) => TotalZoneIncident)
  BY HeldIs DEF TotalZoneIncident
<1> QED BY <1>1, Inductive, PTL
=============================================================================
