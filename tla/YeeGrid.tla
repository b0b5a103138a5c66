------------------------------- MODULE YeeGrid -------------------------------
(***************************************************************************)
(* The arithmetic of one leapfrog step of TorchSimulation on a periodic    *)
(* Yee box, as pure operators over a box of cells.  A box is a view of     *)
(* CartesianGrid: the whole domain, or the slab of a rank.                 *)
(*                                                                         *)
(* Field values are residues modulo the prime P.  Every update of the code *)
(* is affine in the fields, so residues tell right cells, signs, scales    *)
(* and orders from wrong ones; rounding is not modelled.  A Bloch factor   *)
(* exp(i*k*L) is a unit of the residues, its conjugate the inverse unit.   *)
(***************************************************************************)
EXTENDS CartesianGrid, Sequences

CONSTANTS
  P,               \* the prime modulus of field values
  Rate,            \* Rate[a]: dt / dr along axis a
  Bloch,           \* Bloch[a]: the factor across the whole domain along a
  Inverse(_, _),   \* Inverse(c, v): inv_eps / inv_mu of c at global cell v
  Drude,           \* the <<c, v>> (c electric) held by a one-pole material
  PoleA, PoleC,    \* its recurrence coefficients a[0..2] and c[0..2]
  Frozen,          \* the <<c, v>> held by a Const material
  FrozenValue      \* and the value it holds

ASSUME GridAssumption ==
  /\ P \in Nat \ {0, 1}
  /\ \A a \in Axes : /\ Rate[a] \in 0..(P - 1) /\ Bloch[a] \in 1..(P - 1)
                     /\ \E u \in 1..(P - 1) : (u * Bloch[a]) % P = 1
  /\ PoleA \in [1..3 -> Int] /\ PoleC \in [1..3 -> Int] /\ FrozenValue \in 0..(P - 1)
  /\ \A d \in Drude \cup Frozen : d \in Component \X (Nat \X Nat \X Nat)
  /\ \A d \in Drude : d[1][1] = "E"
  /\ Drude \cap Frozen = {}

Cells(n, c) ==
  LET s == Shape(Serial(n), c)
  IN  (0..(s[1] - 1)) \X (0..(s[2] - 1)) \X (0..(s[3] - 1))

At(v, a, i) == [v EXCEPT ![a] = i]
Shift(v, a, k) == [v EXCEPT ![a] = @ + k]
Global(b, v) == <<v[1] + b.off[1], v[2] + b.off[2], v[3] + b.off[3]>>

\* The cells a solver updates; the remaining planes are ghosts or wrap copies.
Active(b, c, v) ==
  \A a \in Axes \ {c[2]} : IF c[1] = "E" THEN v[a] < b.n[a] ELSE v[a] >= 1

Conjugate(w) == CHOOSE u \in 1..(P - 1) : (u * w) % P = 1

\* Phase picked up by a value carried from the low to the high end ("E") or back.
WrapPhase(family, a) == IF family = "E" THEN Bloch[a] ELSE Conjugate(Bloch[a])

(***************************************************************************)
(* Boundary synchronisation: electric high planes are copies of the low    *)
(* ones, magnetic low planes of the high ones.  The axes are taken in      *)
(* order, so an edge receives both phases; axis skip is left to the halo.  *)
(***************************************************************************)
SyncAxis(f, b, c, a, skip) ==
  IF a \in {c[2], skip} THEN f
  ELSE LET to   == IF c[1] = "E" THEN b.n[a] ELSE 0
           from == IF c[1] = "E" THEN 0 ELSE b.n[a]
       IN  [v \in DOMAIN f |->
              IF v[a] = to THEN (WrapPhase(c[1], a) * f[At(v, a, from)]) % P
                           ELSE f[v]]

SyncComponent(f, b, c, skip) ==
  SyncAxis(SyncAxis(SyncAxis(f, b, c, 1, skip), b, c, 2, skip), b, c, 3, skip)

Sync(F, family, b, skip) ==
  [c \in Component |->
     IF c[1] = family THEN SyncComponent(F[c], b, c, skip) ELSE F[c]]

(***************************************************************************)
(* dt times the curl that drives a component, from the stencil offsets.    *)
(***************************************************************************)
ElectricCurl(F, a, v) ==
  LET b == AxisB(a)
      c == AxisC(a)
      w == Shift(v, a, 1)
  IN  Rate[b] * (F[<<"H", c>>][Shift(w, b, 1)] - F[<<"H", c>>][w])
    - Rate[c] * (F[<<"H", b>>][Shift(w, c, 1)] - F[<<"H", b>>][w])

MagneticCurl(F, a, v) ==
  LET b == AxisB(a)
      c == AxisC(a)
      w == Shift(Shift(v, b, -1), c, -1)
  IN  Rate[c] * (F[<<"E", b>>][Shift(v, b, -1)] - F[<<"E", b>>][w])
    - Rate[b] * (F[<<"E", c>>][Shift(v, c, -1)] - F[<<"E", c>>][w])

Curl(F, c, v) == IF c[1] = "E" THEN ElectricCurl(F, c[2], v)
                               ELSE MagneticCurl(F, c[2], v)

\* The dense coefficient plane is zero on cells another bucket owns.
DenseInverse(c, g) == IF <<c, g>> \in Drude \cup Frozen THEN 0 ELSE Inverse(c, g)

Dense(F, family, b) ==
  [c \in Component |->
     IF c[1] # family THEN F[c]
     ELSE [v \in Cells(b.n, c) |->
             IF Active(b, c, v)
             THEN (F[c][v] + DenseInverse(c, Global(b, v)) * Curl(F, c, v)) % P
             ELSE F[c][v]]]

(***************************************************************************)
(* The material update that follows the dense one.  A one-pole cell is     *)
(* recomputed from the curl of the completed fields; Q gives the           *)
(* <<previous, current>> polarisation of each such cell of the box.        *)
(***************************************************************************)
Local(b, g) == <<g[1] - b.off[1], g[2] - b.off[2], g[3] - b.off[3]>>

\* The cells of a box it updates itself, seen from the global grid.
Owns(b, c, g) == Local(b, g) \in Cells(b.n, c) /\ Active(b, c, Local(b, g))

PoleCells(b) == {<<d[1], Local(b, d[2])>> : d \in {e \in Drude : Owns(b, e[1], e[2])}}

PoleNext(q, e) == (PoleA[1] * q[1] + PoleA[2] * q[2] + PoleA[3] * e) % P

PoleField(q, e, curl) ==
  (PoleC[1] * curl + PoleC[2] * (PoleNext(q, e) - q[2]) + PoleC[3] * e) % P

Materials(S, family, b) ==
  [S EXCEPT
   !.F = [c \in Component |->
            IF c[1] # family THEN S.F[c]
            ELSE [v \in Cells(b.n, c) |->
                    IF <<c, v>> \in DOMAIN S.Q
                    THEN PoleField(S.Q[<<c, v>>], S.F[c][v], Curl(S.F, c, v))
                    ELSE IF Active(b, c, v) /\ <<c, Global(b, v)>> \in Frozen
                    THEN FrozenValue
                    ELSE S.F[c][v]]],
   !.Q = IF family = "H" THEN S.Q
         ELSE [d \in DOMAIN S.Q |->
                 <<S.Q[d][2], PoleNext(S.Q[d], S.F[d[1]][d[2]])>>]]

(***************************************************************************)
(* Point sources [c, v, amp, current]: component, global cell, amplitude,  *)
(* and whether it adds to the field, as a current, or overwrites it.  Each *)
(* view lowers all of them, and skips those it takes for another's.        *)
(***************************************************************************)
PointSource == [c : Component, v : Nat \X Nat \X Nat, amp : Int, current : BOOLEAN]

Target(b, s) == [a \in Axes |-> s.v[a] - IndexOrigin(b, s.c, a)]

\* _COMPONENT_SHAPE_OFFSETS: those of the magnetic components are inverted.
PointShape(n, c) ==
  [a \in Axes |-> IF (c[1] = "E") = (a # c[2]) THEN n[a] + 1 ELSE n[a]]

\* _is_valid_nonlocal_point_target.
Elsewhere(b, s) ==
  /\ b.n # b.whole
  /\ ~Within(Target(b, s), PointShape(b.n, s.c))
  /\ Within(Global(b, Target(b, s)), PointShape(b.whole, s.c))

\* A target kept must lie in the array: otherwise the construction raises.
Lowers(b, s) == Elsewhere(b, s) \/ Within(Target(b, s), Shape(b, s.c))

\* prepare_sources drops a record whose target no bucket of the view owns.
Kept(b, s) == ~Elsewhere(b, s) /\ Active(b, s.c, Target(b, s))

\* The batch of a view: of the sources of one cell the last one counts.
PointSources(b, sources) ==
  LET kept  == {i \in DOMAIN sources : Kept(b, sources[i])}
      at(i) == <<sources[i].c, Target(b, sources[i])>>
  IN  [t \in {at(i) : i \in kept} |->
         sources[CHOOSE i \in kept : at(i) = t /\ \A j \in kept : at(j) = t => j <= i]]

\* The waveform is sampled at the end of half step h, at time h + 1 in units of
\* dt / 2.
Excite(F, points, family, b, h) ==
  [c \in Component |->
     IF c[1] # family THEN F[c]
     ELSE [v \in Cells(b.n, c) |->
             IF <<c, v>> \notin DOMAIN points THEN F[c][v]
             ELSE LET s == points[<<c, v>>]
                  IN  (IF s.current
                       THEN F[c][v] - Inverse(c, Global(b, v)) * s.amp * (h + 1)
                       ELSE s.amp * (h + 1)) % P]]

(***************************************************************************)
(* Half step h of a box: electric when h is even.  Synced is what precedes *)
(* the dense update and Completed what follows it; HalfStep joins them     *)
(* when there is no halo.                                                  *)
(***************************************************************************)
Fields(S, F) == [S EXCEPT !.F = F]
Family(h) == IF h % 2 = 0 THEN "E" ELSE "H"
Other(family) == IF family = "E" THEN "H" ELSE "E"

Synced(S, h, b, skip) == Fields(S, Sync(S.F, Other(Family(h)), b, skip))
Densed(S, h, b) == Fields(S, Dense(S.F, Family(h), b))

Completed(S, h, b) ==
  LET M == Materials(S, Family(h), b)
  IN  Fields(M, Excite(M.F, S.points, Family(h), b, h))

HalfStep(S, h, b) == Completed(Densed(Synced(S, h, b, 0), h, b), h, b)

\* The single-process solver: its state after each half step of a run.
Trajectory(S, b, steps) ==
  LET at[h \in 0..(2 * steps)] ==
        IF h = 0 THEN S ELSE HalfStep(at[h - 1], h - 1, b)
  IN  at
=============================================================================
