---------------------------- MODULE MaterialModels ----------------------------
(***************************************************************************)
(* What the materials of a scene make of one cell: the object on top of a  *)
(* point and, under an absorber, the one beneath it, the execution model   *)
(* of the cell, its coefficients, the grading of the absorbers and the     *)
(* stencil of its curl.                                                    *)
(*                                                                         *)
(* Coefficients are residues modulo the prime P.  A material is a record   *)
(* [type, poles, points, invEps, invMu, coef]; coef is the part of its     *)
(* coefficient row after the first column.  An absorber has a thickness d  *)
(* in half cells and grade[a][depth], its coefficients along axis a at a   *)
(* depth from its outer face.  A scene is [n, objects, bloch, stable,      *)
(* sources]: an object, [boxes, mat], fills boxes in half cells; bloch are *)
(* the phases across the domain, or <<>>; the CPML coefficients of the     *)
(* components in stable pass _cpml_residual_is_numerically_stable; a       *)
(* source has a center and half its extent, in half cells.                 *)
(***************************************************************************)
EXTENDS CartesianGrid, MaterialRecurrences

CONSTANT Rate   \* Rate[a]: dt / dr along axis a

\* The grid of a view: boundary wraps and dense curl.
NoInverse(c, v) == 0
Grid(phases) ==
  INSTANCE YeeGrid WITH Bloch <- phases, Inverse <- NoInverse, Drude <- {},
    PoleA <- <<>>, PoleC <- <<>>, Frozen <- {}, FrozenValue <- 0

Phases(s) == IF s.bloch = <<>> THEN <<1, 1, 1>> ELSE s.bloch

\* C-order index of a cell of an array.  It is linear, so that of a shift is the
\* shift of the index.
Flat(shape, v) == (v[1] * shape[2] + v[2]) * shape[3] + v[3]
Unflat(shape, i) ==
  << i \div (shape[2] * shape[3]), (i \div shape[3]) % shape[2], i % shape[3] >>
Total(shape) == shape[1] * shape[2] * shape[3]

InBounds(shape, c, v) ==
  \A a \in Axes \ {c[2]} : IF c[1] = "E" THEN v[a] < shape[a] - 1 ELSE v[a] >= 1

\* Flat indices of the cells a solver updates.
ActiveTargets(g, c) ==
  LET shape == Shape(g, c)
  IN  {i \in 0..(Total(shape) - 1) : InBounds(shape, c, Unflat(shape, i))}

(***************************************************************************)
(* The two signed differences of a component's curl.                       *)
(***************************************************************************)
Unit(a) == [Zero EXCEPT ![a] = 1]
Minus(d) == [a \in Axes |-> -d[a]]

Term(source, positive, negative, axis, sign) ==
  [source |-> source, positive |-> positive, negative |-> negative,
   axis |-> axis, sign |-> sign]

Stencil(c) ==
  LET a == Unit(c[2])
      y == AxisB(c[2])
      z == AxisC(c[2])
      corner == Minus(Sum3(Unit(y), Unit(z)))
  IN  IF c[1] = "E"
      THEN << Term(<<"H", z>>, Sum3(a, Unit(y)), a, y, 1),
              Term(<<"H", y>>, Sum3(a, Unit(z)), a, z, -1) >>
      ELSE << Term(<<"E", y>>, Minus(Unit(y)), corner, z, 1),
              Term(<<"E", z>>, Minus(Unit(z)), corner, y, -1) >>

\* Absorbers take the term along the first of the other axes first.
PmlTerms(c) == IF c[1] = "E" THEN Stencil(c) ELSE Reverse(Stencil(c))

\* Flat indices, in the array of the term's source, of the two points of target i.
StencilIndices(g, c, term, i) ==
  LET source == Shape(g, term.source)
      base   == Flat(source, Unflat(Shape(g, c), i))
  IN  << base + Flat(source, term.positive), base + Flat(source, term.negative) >>

(***************************************************************************)
(* Geometry: the object on top of a point and, under an absorber, the one  *)
(* below it; 0 for none.  The first object is the default medium.          *)
(***************************************************************************)
Inside(o, x) == \E b \in o.boxes : \A a \in Axes : b[1][a] <= x[a] /\ x[a] <= b[2][a]

On(s, x, limit) == Max({i \in 1..limit : i = 1 \/ Inside(s.objects[i], x)})

Absorbers == {"upml", "cpml"}

Key(s, x) ==
  LET top == On(s, x, Len(s.objects))
  IN  << top, IF s.objects[top].mat.type \in Absorbers THEN On(s, x, top - 1) ELSE 0 >>

Material(s, i) == s.objects[i].mat

(***************************************************************************)
(* _model_and_state and the order of signatures: by name, then by width.   *)
(***************************************************************************)
Models == << "const", "cpml", "dcp-ade", "dcp-plrc", "dcp-rc", "dielectric", "dm2",
             "drude", "dummy", "lorentz", "upml" >>

DispersiveModels == {"dcp-ade", "dcp-plrc", "dcp-rc", "drude", "lorentz"}

ModelAndState(m, c) ==
  CASE m.type \in {"const", "dummy", "dielectric"} -> << m.type, 0, 0 >>
    [] m.type = "upml" -> << "upml", 1, 0 >>
    [] m.type = "cpml" -> << "cpml", 2, 0 >>
    [] OTHER -> IF c[1] = "H" THEN << "dielectric", 0, 0 >>
                ELSE << m.type, m.poles, m.points >>

Rank(model) == CHOOSE i \in DOMAIN Models : Models[i] = model

SignatureBefore(p, q) ==
  \/ Rank(p[1]) < Rank(q[1])
  \/ p[1] = q[1] /\ p[2] < q[2]
  \/ p[1] = q[1] /\ p[2] = q[2] /\ p[3] < q[3]

StateWidth(sig) ==
  CASE sig[1] \in {"drude", "lorentz"} -> 2 * sig[2]
    [] sig[1] = "dcp-ade" -> 1 + 2 * sig[2] + 2 * sig[3]
    [] sig[1] \in {"dcp-plrc", "dcp-rc"} -> sig[2] + 2 * sig[3]
    [] OTHER -> sig[2] + sig[3]

\* A coefficient row: the inverse of the base medium, which is the one beneath
\* when there is one, and what the model adds.
CoefficientRow(s, key, c) ==
  LET m    == Material(s, key[1])
      base == IF key[2] = 0 THEN m ELSE Material(s, key[2])
  IN  << IF c[1] = "E" THEN base.invEps ELSE base.invMu,
         IF ModelAndState(m, c)[1] = "dielectric" THEN <<>> ELSE m.coef >>

(***************************************************************************)
(* Absorber grading by position.  An axis thinner than the absorber is not *)
(* graded; depth counts half cells from the nearer outer face.             *)
(***************************************************************************)
Graded(s, m, x, a) ==
  s.n[a] >= m.d /\ (x[a] <= m.d \/ x[a] >= 2 * s.n[a] - m.d)

Depth(s, m, x, a) == IF x[a] <= m.d THEN x[a] ELSE 2 * s.n[a] - x[a]

\* What an ungraded axis contributes.
Neutral(m) ==
  IF m.type = "cpml" THEN [b |-> 1, c |-> 0, kappa |-> 1]
  ELSE [ratio |-> 1, gain |-> 1, share |-> Reciprocal(2), plus |-> 2, minus |-> 2]

Profile(s, m, x, a) ==
  IF Graded(s, m, x, a) THEN m.grade[a][Depth(s, m, x, a)] ELSE Neutral(m)

\* The cell coefficients: base, first, second and own axis.
PmlCell(s, m, c, x, base) ==
  [base |-> base, own |-> Profile(s, m, x, c[2]),
   curl |-> << Profile(s, m, x, AxisB(c[2])), Profile(s, m, x, AxisC(c[2])) >>]

(***************************************************************************)
(* The memory of a cell, by the signature of its model, and its update.    *)
(***************************************************************************)
Zeros(n) == [i \in 1..n |-> 0]

Stateful == DispersiveModels \cup Absorbers

ZeroRow(sig) ==
  CASE sig[1] \in {"drude", "lorentz"} ->
         [previous |-> Zeros(sig[2]), current |-> Zeros(sig[2])]
    [] sig[1] = "dcp-ade" ->
         [field |-> 0, poleOld |-> Zeros(sig[2]), poleNow |-> Zeros(sig[2]),
          pointOld |-> Zeros(sig[3]), pointNow |-> Zeros(sig[3])]
    [] sig[1] \in {"dcp-plrc", "dcp-rc"} ->
         [pole |-> Zeros(sig[2]), point |-> [i \in 1..sig[3] |-> <<0, 0>>]]
    [] OTHER -> Zeros(sig[2])

Recurrence(sig, k, row, e, curl) ==
  CASE sig[1] \in {"drude", "lorentz"} -> TwoLevel(k, row, e, curl)
    [] sig[1] = "dcp-ade" -> DcpAde(k, row, e, curl)
    [] OTHER -> Convolution(k, row, e, curl)

\* Absorbers subtract the magnetic terms, taken in the other order.
Direction(c) == IF c[1] = "E" THEN 1 ELSE -1

AbsorberUpdate(sig, k, row, e, t, direction) ==
  IF sig[1] = "upml" THEN Upml(k, row, e, t, direction)
                     ELSE Cpml(k, row, e, t, direction)
=============================================================================
