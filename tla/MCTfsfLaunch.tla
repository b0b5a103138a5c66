---------------------------- MODULE MCTfsfLaunch ----------------------------
(***************************************************************************)
(* Sheets of one cell across the polarisation, for every direction in the  *)
(* plane, on one process and on two ranks whose cut crosses the box.       *)
(***************************************************************************)
EXTENDS TfsfLaunch

Cells == 7

Sheet(a) == [b \in Axes |-> IF b = a THEN 1 ELSE Cells]

\* A box of three by four cells, off the middle of the sheet.
MCCenter(a) == [b \in Axes |-> IF b = a THEN 1 ELSE IF b = AxisB(a) THEN 7 ELSE 6]
MCHalf(a) == [b \in Axes |-> IF b = a THEN 0 ELSE IF b = AxisB(a) THEN 3 ELSE 4]

LaunchOf(a, sign, b, direction, cuts) ==
  [n |-> Sheet(a), cuts |-> cuts, k |-> <<b, direction>>, e |-> <<a, sign>>,
   center |-> MCCenter(a), half |-> MCHalf(a)]

Sheets == {p \in Axes \X Axes : p[1] # p[2]}

\* A box wider than the domain: the wave fills it across.
Wide(l) == [l EXCEPT !.half = [a \in Axes |-> IF a \in {l.e[1], l.k[1]} THEN @[a] ELSE @[a] + 18]]

\* The <<polarisation, direction>> of the waves whose helpers disagree: along y
\* polarised along z (a row of signs), along z polarised along y and along y
\* polarised along x (sampled points).
Broken == {<<3, 2>>, <<2, 3>>, <<1, 2>>}

Cuts(p) == {<<>>, <<p[2], 4>>} \cup {<<b, 3>> : b \in Axes \ {p[1], p[2]}}

Narrow ==
  UNION {{LaunchOf(p[1], sign, p[2], direction, cuts) :
            sign \in {1, -1}, direction \in {1, -1}, cuts \in Cuts(p)} : p \in Sheets \ Broken}

MCLaunches == Narrow \cup {Wide(l) : l \in Narrow}

AlongYPolarisedZ == {LaunchOf(3, 1, 2, direction, <<>>) : direction \in {1, -1}}
AlongZPolarisedY == {LaunchOf(2, 1, 3, direction, <<>>) : direction \in {1, -1}}

MCRate == <<5, 7, 11>>
=============================================================================
