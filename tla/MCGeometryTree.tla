---------------------------- MODULE MCGeometryTree ----------------------------
(***************************************************************************)
(* Scenes of up to eight objects of every shape on even coordinates, looked  *)
(* up at every point of a lattice that also holds the cuts beside them.    *)
(***************************************************************************)
EXTENDS GeometryTree

Dr == 2

Medium(c) == [kind |-> "medium", compound |-> c]
Solid(kind, center, half) ==
  [kind |-> kind, compound |-> FALSE, center |-> center, half |-> half]
Ball(center, radius) ==
  [kind |-> "sphere", compound |-> FALSE, center |-> center, radius |-> radius]
Frustum(center, axis, sign, height, radius, radius2) ==
  [kind |-> "cone", compound |-> FALSE, center |-> center, axis |-> axis,
   sign |-> sign, height |-> height, radius |-> radius, radius2 |-> radius2]
Pml(center, half, d, faces) ==
  InitShell([kind |-> "shell", compound |-> TRUE, center |-> center, half |-> half,
             d |-> d, faces |-> faces, slabs |-> {}], Dr)

AllFaces == Axes \X {"plus", "minus"}
Origin == <<0, 0, 0>>

\* A line of solids, boxed by an absorbing shell over the domain.
Line ==
  << Medium(FALSE), Solid("block", <<-4, 0, 0>>, <<2, 2, 2>>), Ball(<<0, 0, 0>>, 2),
     Frustum(<<4, 0, 0>>, 3, -1, 2, 2, 0), Solid("ellipsoid", <<4, 4, 0>>, <<2, 2, 4>>),
     Pml(Origin, <<6, 6, 6>>, 2, AllFaces) >>

\* Nested and touching solids, a shell inside them and an unbounded slab.
Nested ==
  << Medium(FALSE), Solid("block", Origin, <<4, 4, 4>>), Pml(<<0, 2, 0>>, <<4, 2, 2>>, 2, AllFaces),
     Ball(<<-4, -4, 0>>, 2), Solid("block", <<4, -4, 0>>, <<2, 2, Inf>>), Ball(<<4, -4, -4>>, 4) >>

\* The default medium is not first, and compounds lie on compounds.
LateMedium ==
  << Ball(<<-4, 0, 0>>, 2), Medium(FALSE), Pml(<<-4, 0, 0>>, <<2, 2, 2>>, 1, AllFaces),
     Pml(<<-2, 0, 0>>, <<4, 2, 0>>, 1, {<<1, "minus">>, <<2, "plus">>}),
     Frustum(<<4, 0, 2>>, 1, 1, 2, 2, 4) >>

\* Objects in a corner each, which several axes separate equally well.
Corners ==
  << Medium(FALSE), Ball(<<-4, -4, -4>>, 2), Ball(<<-4, 4, 4>>, 1), Ball(<<4, 4, -4>>, 2),
     Solid("block", <<4, -4, 4>>, <<2, 2, 2>>), Ball(<<-4, -4, 4>>, 0) >>

\* A row of grains on a rod, cut several times along the same axis.
Row ==
  << Medium(FALSE), Solid("block", Origin, <<6, 1, 1>>) >>
     \o [i \in 1..6 |-> Ball(<<-7 + 2 * i, IF i = 4 THEN 4 ELSE 0, 0>>, IF i = 3 THEN 1 ELSE 0)]

\* Every order of three solids that touch, overlap or hold one another.
Solids == {Ball(<<-4, 0, 0>>, 2), Ball(Origin, 2), Solid("block", <<0, 4, 0>>, <<2, 2, 2>>),
           Solid("block", <<-2, 2, 0>>, <<4, 4, 2>>), Pml(<<4, 0, 0>>, <<2, 2, 2>>, 2, AllFaces)}

Triples == {<<Medium(FALSE)>> \o t : t \in {t \in Solids \X Solids \X Solids :
                                              t[1] # t[2] /\ t[2] # t[3] /\ t[1] # t[3]}}

MCScenes == {Line, Nested, LateMedium, Corners, Row} \cup Triples

Axis(from, to, step) == [i \in 1..((to - from) \div step + 1) |-> from + (i - 1) * step]

MCGrids ==
  { [x |-> Axis(-6, 6, 2), y |-> Axis(-4, 4, 4), z |-> Axis(-4, 4, 4), start |-> 0, stop |-> 63],
    [x |-> Axis(-5, 5, 1), y |-> Axis(0, 1, 1), z |-> <<-1, 0, 1, 3>>, start |-> 20, stop |-> 85],
    [x |-> <<0>>, y |-> <<0>>, z |-> <<-4, -1, 0, 1>>, start |-> 3, stop |-> 3] }

MCPoints ==
  ((-6..6) \X {-5, -4, -1, 0, 1, 4} \X {-4, -1, 0, 1, 3, 4}) \cup {<<Inf, Inf, Inf>>}
=============================================================================
