------------------------------ MODULE TfsfLaunch ------------------------------
(***************************************************************************)
(* TotalFieldScatteredField: the faces of a box are lowered to rules that  *)
(* add, to a field cell, an incident value sampled from an auxiliary one-  *)
(* dimensional simulation, on the whole domain or on the views of two      *)
(* ranks.  The main and the auxiliary solver are both the solver of        *)
(* YeeGrid: the program nests a TorchSimulation in a TorchSimulation.      *)
(*                                                                         *)
(* The waves travel along an axis, the faces lie on whole cells, and the   *)
(* medium is empty.  The matched cell of the auxiliary grid is then the    *)
(* main cell along the wave, its points are the sampled points, and the    *)
(* interpolation weights are 1 and 0.                                      *)
(***************************************************************************)
EXTENDS CartesianGrid

CONSTANTS
  P,         \* the prime modulus of field values
  Rate,      \* dt / dr of each axis
  Amp,       \* amplitude of the source
  Pml,       \* cells of the auxiliary absorber (50 in the code), past which no
             \* step of the run can see
  Steps,     \* steps taken
  Launches   \* [n, cuts, k, e, center, half]: cells, the <<axis, cut>> of two
             \* ranks or none, direction and polarisation as <<axis, sign>>, and
             \* the box in half cells

\* A box is a cell off the planes of the domain, or wider than it across the
\* beam; its faces lie on whole cells.
Clear(s, a) == 2 <= s.center[a] - s.half[a] /\ s.center[a] + s.half[a] <= 2 * s.n[a] - 2
Spanned(s, a) == s.center[a] - s.half[a] <= -2 /\ 2 * s.n[a] <= s.center[a] + s.half[a]

Placed(s) ==
  /\ s.n \in [Axes -> Nat \ {0}] /\ s.center \in [Axes -> Int] /\ s.half \in [Axes -> Nat]
  /\ s.k \in Axes \X {1, -1} /\ s.e \in Axes \X {1, -1} /\ s.k[1] # s.e[1]
  /\ s.n[s.e[1]] = 1
  /\ \A a \in Axes \ {s.e[1]} :
       /\ s.n[a] > 1
       /\ (s.center[a] - s.half[a]) % 2 = 0
       /\ Clear(s, a) \/ (a # s.k[1] /\ Spanned(s, a))
  /\ \/ s.cuts = <<>>
     \/ \E a \in Axes \ {s.e[1]} : \E i \in 1..(s.n[a] - 1) : s.cuts = <<a, i>>

ASSUME LaunchAssumption ==
  /\ P \in Nat \ {0, 1} /\ Rate \in [Axes -> Int] /\ Amp \in Int /\ Pml \in Nat
  /\ Steps \in Nat
  /\ \A s \in Launches : Placed(s)

VARIABLES
  launch,    \* the source and its domain
  plan,      \* TorchTransparentBatch: component -> target -> terms
  main,      \* fields of the simulation
  aux,       \* fields of the auxiliary simulation
  half       \* half steps done

vars == <<launch, plan, main, aux, half>>

Vector(d) == [a \in Axes |-> IF a = d[1] THEN d[2] ELSE 0]

\* h_direction: the cross product of k and e.
Cross(u, v) == [a \in Axes |-> u[AxisB(a)] * v[AxisC(a)] - u[AxisC(a)] * v[AxisB(a)]]

EDirection(s) == Vector(s.e)
HDirection(s) == Cross(Vector(s.k), Vector(s.e))

Absolute(x) == IF x < 0 THEN -x ELSE x

\* Distance from the centre along the beam, in half cells.
Metric(s, x) == s.k[2] * (x[s.k[1]] - s.center[s.k[1]])

(***************************************************************************)
(* _get_auxiliary_spec: a line of cells along z, with its hard Ex source   *)
(* one cell before the box.                                                *)
(***************************************************************************)
MaxDistance(s) == s.half[s.k[1]]

AuxHalf(s) == MaxDistance(s) + 2 * (Pml + 2)
AuxGrid(s) == Serial(<<1, 1, AuxHalf(s)>>)

AuxIndex(s, c, distance) == SpaceToIndex(AuxGrid(s), c, <<0, 0, distance + AuxHalf(s)>>)

AuxSource(s) ==
  [c |-> <<"E", 1>>, v |-> AuxIndex(s, <<"E", 1>>, -MaxDistance(s) - 2),
   amp |-> 1, current |-> FALSE]

SetsExt == INSTANCE FiniteSetsExt

One(c, v) == 1
NoPole == <<0, 0, 0>>

Main == INSTANCE YeeGrid WITH
  Bloch <- <<1, 1, 1>>, Inverse <- One, Drude <- {}, PoleA <- NoPole, PoleC <- NoPole,
  Frozen <- {}, FrozenValue <- 0

Nested(s) == INSTANCE YeeGrid WITH
  Rate <- <<Rate[s.k[1]], Rate[s.k[1]], Rate[s.k[1]]>>,
  Bloch <- <<1, 1, 1>>, Inverse <- One, Drude <- {}, PoleA <- NoPole, PoleC <- NoPole,
  Frozen <- {}, FrozenValue <- 0

(***************************************************************************)
(* The face helpers.  Each names the face, the component it samples, the   *)
(* shift of the target indices against those of the component whose points *)
(* bound the face, and the shift from the target to the sampled index.     *)
(***************************************************************************)
Low == -1
High == 1

Helper(axis, side, sampled, move, sample) ==
  [axis |-> axis, side |-> side, sampled |-> sampled, move |-> move, sample |-> sample]

ExFaces ==
  { Helper(2, Low,  <<"H", 3>>, Zero, <<1, 0, 0>>),
    Helper(2, High, <<"H", 3>>, Zero, <<1, 1, 0>>),
    Helper(3, Low,  <<"H", 2>>, Zero, <<1, 0, 0>>),
    Helper(3, High, <<"H", 2>>, Zero, <<1, 0, 1>>) }

EyFaces ==
  { Helper(3, Low,  <<"H", 1>>, Zero, <<0, 1, 0>>),
    Helper(3, High, <<"H", 1>>, Zero, <<0, 1, 1>>),
    Helper(1, Low,  <<"H", 3>>, Zero, <<0, 1, 0>>),
    Helper(1, High, <<"H", 3>>, Zero, <<1, 1, 0>>) }

EzFaces ==
  { Helper(1, Low,  <<"H", 2>>, Zero, <<0, 0, 1>>),
    Helper(1, High, <<"H", 2>>, Zero, <<1, 0, 1>>),
    Helper(2, Low,  <<"H", 1>>, Zero, <<0, 0, 1>>),
    Helper(2, High, <<"H", 1>>, Zero, <<0, 1, 1>>) }

HxFaces ==
  { Helper(2, Low,  <<"E", 3>>, <<0, 0, 1>>, <<0, 0, -1>>),
    Helper(2, High, <<"E", 3>>, <<0, 1, 1>>, <<0, -1, -1>>),
    Helper(3, Low,  <<"E", 2>>, <<0, 1, 0>>, <<0, -1, -1>>),
    Helper(3, High, <<"E", 2>>, <<0, 1, 1>>, <<0, -1, 0>>) }

HyFaces ==
  { Helper(3, Low,  <<"E", 1>>, <<1, 0, 0>>, <<-1, 0, 0>>),
    Helper(3, High, <<"E", 1>>, <<1, 0, 1>>, <<-1, 0, -1>>),
    Helper(1, Low,  <<"E", 3>>, <<0, 0, 1>>, <<0, 0, -1>>),
    Helper(1, High, <<"E", 3>>, <<1, 0, 1>>, <<-1, 0, -1>>) }

HzFaces ==
  { Helper(1, Low,  <<"E", 2>>, <<0, 1, 0>>, <<0, -1, 0>>),
    Helper(1, High, <<"E", 2>>, <<1, 1, 0>>, <<-1, -1, 0>>),
    Helper(2, Low,  <<"E", 1>>, <<1, 0, 0>>, <<0, -1, 0>>),
    Helper(2, High, <<"E", 1>>, <<1, 1, 0>>, <<-1, -1, 0>>) }

Faces(c) ==
  IF c[1] = "E" THEN <<ExFaces, EyFaces, EzFaces>>[c[2]] ELSE <<HxFaces, HyFaces, HzFaces>>[c[2]]

\* signs: of the low faces across each axis; the high ones have the opposite.
LowSigns ==
  [E |-> << <<0, -1, 1>>, <<1, 0, -1>>, <<-1, -1, 0>> >>,
   H |-> << <<0, 1, -1>>, <<-1, 0, 1>>, <<1, -1, 0>> >>]

Sign(c, f) == -f.side * LowSigns[c[1]][c[2]][f.axis]

\* The share of the wave that the sampled component carries.
Cosine(s, f) ==
  IF f.sampled[1] = "H" THEN HDirection(s)[f.sampled[2]] ELSE EDirection(s)[f.sampled[2]]

(***************************************************************************)
(* The indices between two corners of a face, and the part of them that    *)
(* lies in the array without its ghosts and wrap copies.                   *)
(***************************************************************************)
FaceCorner(s, f, side) ==
  [a \in Axes |-> s.center[a] + (IF a = f.axis THEN f.side ELSE side) * s.half[a]]

\* Mutant: the high end of an electric face is not trimmed.
MappedUntrimmed(g, c, low, high) ==
  {v \in (0..g.whole[1]) \X (0..g.whole[2]) \X (0..g.whole[3]) :
     /\ Within(v, Shape(g, c))
     /\ \A a \in Axes : low[a] <= v[a] /\ v[a] < high[a]
     /\ \A a \in Axes \ {c[2]} : c[1] = "H" => v[a] >= 1}

MappedSourcePoints(g, c, low, high) ==
  {v \in (0..g.whole[1]) \X (0..g.whole[2]) \X (0..g.whole[3]) :
     /\ Within(v, Shape(g, c))
     /\ \A a \in Axes : low[a] <= v[a] /\ v[a] < high[a]
     /\ \A a \in Axes \ {c[2]} : IF c[1] = "E" THEN v[a] < Shape(g, c)[a] - 1 ELSE v[a] >= 1}

Targets(g, s, c, f) ==
  LET bounds == IF c[1] = "E" THEN c ELSE f.sampled
      low    == Sum3(SpaceToIndex(g, bounds, FaceCorner(s, f, Low)), f.move)
      high   == Sum3(SpaceToIndex(g, bounds, FaceCorner(s, f, High)), f.move)
  IN  IF g.whole[f.axis] > 1
        THEN MappedSourcePoints(g, c, low, Sum3(high, <<1, 1, 1>>))
        ELSE {}

AuxComponent(c) == IF c[1] = "E" THEN <<"H", 2>> ELSE <<"E", 1>>

\* A rule: the incident value to sample and its factor.
Rule(g, s, c, f, v) ==
  [face   |-> <<f.axis, f.side>>,
   sample |-> AuxIndex(s, AuxComponent(c),
                       Metric(s, IndexToSpace(g, f.sampled, Sum3(v, f.sample)))),
   factor |-> Sign(c, f) * Rate[f.axis] * Cosine(s, f) * Amp]

\* The rules of a view, at targets of the whole domain.
Lowered(g, s) ==
  UNION {UNION {{<<c, Sum3(v, g.off), Rule(g, s, c, f, v)>> : v \in Targets(g, s, c, f)} :
                  f \in {f \in Faces(c) : Cosine(s, f) # 0}} : c \in Component}

Views(s) ==
  IF s.cuts = <<>> THEN {Serial(s.n)}
  ELSE {RankLocal(s.n, s.cuts[1], s.cuts[2], r) : r \in {0, 1}}

\* TorchTransparentBatch: the terms of each target, of every view.
SourcePlan(s) ==
  LET terms == UNION {{<<r[1], r[2], g.at, r[3]>> : r \in Lowered(g, s)} : g \in Views(s)}
  IN  [t \in {<<r[1], r[2]>> : r \in terms} |->
         {<<r[3], r[4]>> : r \in {r \in terms : <<r[1], r[2]>> = t}}]

\* sources.apply of one family.
Total(terms, A) ==
  SetsExt!MapThenSumSet(LAMBDA r : r[2].factor * A[r[2].sample], terms)

Injected(F, family, A) ==
  [c \in Component |->
     IF c[1] # family THEN F[c]
     ELSE [v \in DOMAIN F[c] |->
             IF <<c, v>> \in DOMAIN plan
               THEN (F[c][v] + Total(plan[<<c, v>>], A[AuxComponent(c)])) % P
               ELSE F[c][v]]]
-----------------------------------------------------------------------------
Quiet(g, sources) ==
  [F |-> [c \in Component |-> [v \in Main!Cells(g.n, c) |-> 0]], Q |-> <<>>,
   points |-> Main!PointSources(g, sources)]

Init ==
  /\ launch \in Launches
  /\ plan = SourcePlan(launch)
  /\ main = Quiet(Serial(launch.n), <<>>)
  /\ aux = Quiet(AuxGrid(launch), <<AuxSource(launch)>>)
  /\ half = 0

MainHalf == Main!HalfStep(main, half, Serial(launch.n))

AuxStep ==
  LET box == AuxGrid(launch)
  IN  Nested(launch)!HalfStep(Nested(launch)!HalfStep(aux, half, box), half + 1, box)

\* Mutant: the auxiliary fields advance before the electric faces read them.
ElectricLate ==
  /\ half < 2 * Steps /\ half % 2 = 0
  /\ aux' = AuxStep
  /\ main' = [MainHalf EXCEPT !.F = Injected(@, "E", aux'.F)]
  /\ half' = half + 1
  /\ UNCHANGED <<launch, plan>>

\* The electric half of a step, its sources, and the auxiliary step after them.
Electric ==
  /\ half < 2 * Steps /\ half % 2 = 0
  /\ main' = [MainHalf EXCEPT !.F = Injected(@, "E", aux.F)]
  /\ aux' = AuxStep
  /\ half' = half + 1
  /\ UNCHANGED <<launch, plan>>

Magnetic ==
  /\ half < 2 * Steps /\ half % 2 = 1
  /\ main' = [MainHalf EXCEPT !.F = Injected(@, "H", aux.F)]
  /\ half' = half + 1
  /\ UNCHANGED <<launch, plan, aux>>

Next == Electric \/ Magnetic

Spec == Init /\ [][Next]_vars
-----------------------------------------------------------------------------
\* The box of the source in half cells; an axis of one cell lies in it whole.
InTotalZone(s, x) ==
  \A a \in Axes : \/ s.n[a] = 1
                  \/ s.center[a] - s.half[a] <= x[a] /\ x[a] <= s.center[a] + s.half[a]

\* The incident field at a point, which the auxiliary fields carry.
Incident(s, c, x) ==
  LET share == IF c[1] = "E" THEN EDirection(s)[c[2]] ELSE HDirection(s)[c[2]]
      A     == IF c[1] = "E" THEN <<"E", 1>> ELSE <<"H", 2>>
  IN  IF share = 0 THEN 0
      ELSE (share * Amp * aux.F[A][AuxIndex(s, A, Metric(s, x))]) % P

\* The cells of the components that have reached the time of the auxiliary ones.
Current(c) == c[1] = "E" \/ half % 2 = 0

Point(c, v) == IndexToSpace(Serial(launch.n), c, v)

Updated(c) == {v \in DOMAIN main.F[c] : Main!Active(Serial(launch.n), c, v)}

\* Outside the box nothing of the wave is left, on whichever rank the faces lie.
ScatteredZoneEmpty ==
  \A c \in {c \in Component : Current(c)} : \A v \in Updated(c) :
    ~InTotalZone(launch, Point(c, v)) => main.F[c][v] = 0

\* Inside it the fields are the incident wave, at every cell and half step.
TotalZoneIncident ==
  \A c \in {c \in Component : Current(c)} : \A v \in Updated(c) :
    InTotalZone(launch, Point(c, v)) => main.F[c][v] = Incident(launch, c, Point(c, v))
=============================================================================
