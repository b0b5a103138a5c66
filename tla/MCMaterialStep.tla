---------------------------- MODULE MCMaterialStep ----------------------------
(***************************************************************************)
(* Model checking instance of MaterialStep: four small scenes, six         *)
(* configurations, generic coefficients and fields.  The coefficients are  *)
(* arbitrary residues: only where the code fixes one (the neutral end of a *)
(* grading) has it its value.                                              *)
(***************************************************************************)
EXTENDS MaterialStep

MCRate == <<2, 3, 4>>

Box(low, high) == << low, high >>
Everywhere == { Box(<<-9, -9, -9>>, <<99, 99, 99>>) }
Between(a, low, high) ==
  { Box([<<-9, -9, -9>> EXCEPT ![a] = low], [<<99, 99, 99>> EXCEPT ![a] = high]) }

Medium(type, poles, points, eps, mu, coef) ==
  [type |-> type, poles |-> poles, points |-> points, invEps |-> eps, invMu |-> mu,
   coef |-> coef, d |-> 0, grade |-> <<>>]
Dielectric(eps, mu) == Medium("dielectric", 0, 0, eps, mu, <<>>)
TwoLevelCoef(i) == [a |-> << <<i, 3, 5>>, <<2, i + 1, 7>> >>, c |-> <<3, i + 4, 2>>]
Twin(type, eps, mu, i) == Medium(type, 2, 0, eps, mu, TwoLevelCoef(i))
Recursive(type, eps, mu, i) ==
  Medium(type, 1, 1, eps, mu,
         [a |-> << <<i, 2, 9>> >>, b |-> << << <<3, i>>, <<i + 2, 4>>, <<5, 6>> >> >>,
          c |-> <<2, i + 1, 8>>])
Ade(eps, mu) ==
  Medium("dcp-ade", 1, 1, eps, mu,
         [a |-> << <<4, 7, 2>> >>, b |-> << <<3, 5, 8, 6, 9>> >>, c |-> <<2, 3, 11, 4>>])

\* grade[a][depth]: lossy at the face, only stretched inside, neutral at the end.
CpmlLayer(thick, first) ==
  [Medium("cpml", 0, 0, 1, 1, <<>>) EXCEPT !.d = thick,
     !.grade = [a \in Axes |-> [depth \in 0..thick |->
       IF depth = thick THEN [b |-> 5 + a, c |-> 0, kappa |-> 1]
       ELSE [b |-> first + depth + a, c |-> IF depth = 1 THEN 0 ELSE 3 + a,
             kappa |-> IF depth = 0 THEN 1 ELSE 4 + a]]]]
UpmlLayer(thick) ==
  [Medium("upml", 0, 0, 1, 1, <<>>) EXCEPT !.d = thick,
     !.grade = [a \in Axes |-> [depth \in 0..thick |->
       [ratio |-> 3 + depth + a, gain |-> 2 + a, share |-> 6 + depth, plus |-> 5 + a,
        minus |-> 4 + depth]]]]

Object(boxes, mat) == [boxes |-> boxes, mat |-> mat]
Scene(n, bloch, stable, sources, objects) ==
  [n |-> n, bloch |-> bloch, stable |-> stable, sources |-> sources, objects |-> objects]
Source(center, extent) == [center |-> center, half |-> extent]

\* Every dispersive model side by side, two metals of one model, a mirror.
Mixture ==
  Scene(<<6, 2, 1>>, <<>>, {}, << Source(<<5, 2, 1>>, <<0, 0, 0>>) >>,
        << Object(Everywhere, Dielectric(2, 3)),
           Object(Between(1, 0, 2), Twin("drude", 4, 1, 6)),
           Object(Between(2, 2, 3), Twin("drude", 5, 2, 9)),
           Object(Between(1, 3, 4), Twin("lorentz", 3, 2, 8)),
           Object(Between(1, 5, 6), Recursive("dcp-plrc", 6, 4, 3)),
           Object(Between(1, 7, 8), Recursive("dcp-rc", 2, 5, 4)),
           Object(Between(1, 9, 10), Ade(7, 3)),
           Object(Between(1, 11, 11), Medium("const", 0, 0, 0, 0, 5)),
           Object(Between(1, 12, 12), Medium("dummy", 0, 0, 0, 0, <<>>)) >>)

\* A CPML around two media; a metal is buried where the absorber is.
Shielded ==
  Scene(<<4, 4, 1>>, <<>>, Component \ {<<"E", 1>>, <<"H", 3>>}, <<>>,
        << Object(Everywhere, Dielectric(2, 3)),
           Object(Between(1, 3, 5), Dielectric(5, 2)),
           Object(Between(2, 3, 4), Twin("drude", 4, 1, 6)),
           Object(Between(1, -1, 2) \cup Between(1, 6, 9) \cup Between(2, -1, 2)
                    \cup Between(2, 6, 9), CpmlLayer(2, 3)) >>)

\* Two absorbers of different thickness, one uniaxial.
Uniaxial ==
  Scene(<<5, 2, 1>>, <<>>, Component, << Source(<<4, 1, 1>>, <<2, 1, 0>>) >>,
        << Object(Everywhere, Dielectric(2, 3)),
           Object(Between(2, 1, 2), Dielectric(5, 2)),
           Object(Between(1, -1, 3), UpmlLayer(2)),
           Object(Between(1, 6, 10), CpmlLayer(3, 7)) >>)

\* A periodic crystal with phases along all axes.
Crystal ==
  Scene(<<2, 2, 2>>, <<3, 5, 2>>, {}, <<>>,
        << Object(Everywhere, Dielectric(2, 3)),
           Object(Between(1, 1, 2), Twin("lorentz", 4, 1, 6)),
           Object(Between(3, 2, 3), Twin("drude", 3, 4, 5)) >>)

MCScenes == << Mixture, Shielded, Uniaxial, Crystal >>

Run(compiled, policy, tile, scope) ==
  [compiled |-> compiled, policy |-> policy, tile |-> tile, scope |-> scope,
   distributed |-> FALSE]

MCConfigs ==
  << Run(FALSE, "auto", 4, "off"), Run(FALSE, "dense", 4, "off"),
     Run(FALSE, "tiled", 5, "off"), Run(TRUE, "tiled", 3, "combined"),
     Run(TRUE, "auto", 4, "two-level"), Run(TRUE, "auto", 4, "combined") >>

Order(first, second, axis, cut) ==
  [weights |-> <<first, second>>, axis |-> axis, cut |-> cut]

MCOrders ==
  { Order(1, 1, 0, 0), Order(3, 1, 0, 0), Order(1, 4, 1, 0), Order(2, 1, 2, 0),
    Order(1, 1, 1, 3) }

\* Arrays without a pattern that a wrong cell could hide in.
MCHostFields(s) ==
  [c \in Component |->
     LET shape == Shape(Serial(s.n), c)
     IN  [v \in (0..(shape[1] - 1)) \X (0..(shape[2] - 1)) \X (0..(shape[3] - 1)) |->
            (7 * v[1] * v[1] + 11 * v[2] + 3 * v[3] + 5 * v[1] * v[3] + 9 * c[2]
              + IF c[1] = "E" THEN 2 ELSE 17) % P]]
=============================================================================
