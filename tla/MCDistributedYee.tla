--------------------------- MODULE MCDistributedYee ---------------------------
(***************************************************************************)
(* Model checking instance of DistributedYee.  One step of the code is an  *)
(* affine map of the fields, so on a line of cells agreement on the zero   *)
(* arrays and on a unit impulse in every cell is agreement on all fields.  *)
(* Uneven slabs of a thicker box are run from one generic set of arrays.   *)
(***************************************************************************)
EXTENDS DistributedYee

MCRate == <<2, 3, 4>>
MCBloch == <<3, 5, 2>>
MCInverse(c, v) == 1 + ((v[1] + 2 * v[2] + 3 * v[3] + c[2]) % 4)

\* One-pole cells at the wrap and on both sides of a cut at 2.
MCDrude ==
  {<<<<"E", 2>>, <<0, 0, 0>>>>, <<<<"E", 1>>, <<2, 0, 0>>>>,
   <<<<"E", 3>>, <<2, 0, 0>>>>, <<<<"E", 3>>, <<0, 2, 0>>>>,
   <<<<"E", 1>>, <<0, 1, 0>>>>, <<<<"E", 2>>, <<0, 0, 2>>>>}
MCPoleA == <<2, 3, 1>>
MCPoleC == <<1, 4, 6>>
MCFrozen == {<<<<"E", 3>>, <<1, 0, 0>>>>, <<<<"H", 2>>, <<2, 0, 1>>>>}

Along(axis, i) == At(<<0, 0, 0>>, axis, i)

\* Two currents at the cut, of which the second counts, and a hard source
\* below it.
ElectricSources(axis) ==
  << [c |-> <<"E", AxisB(axis)>>, v |-> Along(axis, 2), amp |-> 5, current |-> FALSE],
     [c |-> <<"E", AxisB(axis)>>, v |-> Along(axis, 2), amp |-> 3, current |-> TRUE],
     [c |-> <<"E", axis>>, v |-> Along(axis, 1), amp |-> 2, current |-> FALSE] >>

\* A magnetic source on the plane i of a box with two cells across.
MagneticSource(axis, across, i) ==
  [c |-> <<"H", 6 - axis - across>>, v |-> At(Along(axis, i), across, 1), amp |-> 2,
   current |-> FALSE]

\* A line of cells along the split axis; the other axes are one cell wide.
Line(axis, length, cut) ==
  [n |-> At(<<1, 1, 1>>, axis, length), axis |-> axis, cut |-> cut,
   sources |-> ElectricSources(axis)]

ZeroFields(n) == [c \in Component |-> [v \in Cells(n, c) |-> 0]]

Impulses(n) ==
  {ZeroFields(n)} \cup
  UNION {{[ZeroFields(n) EXCEPT ![c][v] = 1] : v \in Cells(n, c)} : c \in Component}

\* Arrays without a pattern that a wrong cell could hide in.
Generic(n) ==
  [c \in Component |->
     [v \in Cells(n, c) |->
        (7 * v[1] * v[1] + 11 * v[2] + 3 * v[3] + 5 * v[1] * v[3] + 9 * c[2]
          + IF c[1] = "E" THEN 2 ELSE 17) % P]]

\* Magnetic sources are lowered as intended only from plane length - cut up to
\* the cut: see LostSources.
Thick(axis, across, length, cut) ==
  [n |-> At(At(<<1, 1, 1>>, axis, length), across, 2), axis |-> axis, cut |-> cut,
   sources |-> ElectricSources(axis)
                 \o IF length - cut < cut THEN <<MagneticSource(axis, across, 2)>> ELSE <<>>]

MCHostFields(n) ==
  IF \E a, b \in Axes : a # b /\ n[a] > 1 /\ n[b] > 1 THEN {Generic(n)} ELSE Impulses(n)

Pairs == {q \in Axes \X Axes : q[1] # q[2]}

MCPartitions ==
  {Line(a, 4, 2) : a \in Axes}
    \cup {Thick(q[1], q[2], 5, cut) : q \in Pairs, cut \in {2, 3}}

\* Magnetic sources on the plane of the cut and beyond it.
LostSources ==
  {[Thick(q[1], q[2], 4, 2) EXCEPT !.sources = <<MagneticSource(q[1], q[2], i)>>] :
     q \in Pairs, i \in {2, 3}}
=============================================================================
