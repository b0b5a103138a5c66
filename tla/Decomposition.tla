---------------------------- MODULE Decomposition ----------------------------
(***************************************************************************)
(* choose_two_gpu_decomposition: the axis and the cell at which a scene is *)
(* cut in two, by the estimated cost of the two parts.  An order is what   *)
(* the caller asks for, [weights, axis, cut]: the relative speeds of the   *)
(* devices, and an axis and a cut, or 0 to leave them open.                *)
(*                                                                         *)
(* Costs are in twentieths, and times the product of the weights; domains  *)
(* have at most 32 cells along an axis, so no cross section is sampled.    *)
(* Ties of the estimate are exact: the code's are up to rounding.          *)
(***************************************************************************)
EXTENDS ExecutionPlan

MaterialWeight(type) ==
  CASE type = "dummy" -> 2
    [] type = "const" -> 5
    [] type = "dielectric" -> 20
    [] type \in {"upml", "drude"} -> 60
    [] type \in {"cpml", "lorentz"} -> 70
    [] type \in {"dcp-ade", "dcp-plrc", "dcp-rc"} -> 90
    [] type = "dm2" -> 240
    [] OTHER -> 40

\* The cost of the plane of cells i: by the object at the centre of each.
PlaneCost(s, axis, i) ==
  LET plane == {v \in (0..(s.n[1] - 1)) \X (0..(s.n[2] - 1)) \X (0..(s.n[3] - 1)) : v[axis] = i}
      centre(v) == [a \in Axes |-> 2 * v[a] + 1]
      weight(v) == MaterialWeight(Material(s, On(s, centre(v), Len(s.objects))).type)
  IN  FoldSet(LAMBDA v, sum : sum + weight(v), 0, plane)

\* The cost of the cells below a cut; all of them for the length of the axis.
CostBelow(s, axis, cut) == SumOf([i \in 1..cut |-> PlaneCost(s, axis, i - 1)])

\* The sources within a cell of the plane of the cut.
SourceCrossings(s, axis, cut) ==
  LET distance(o) == o.center[axis] - 2 * cut
      near(o) == distance(o) <= o.half[axis] + 2 /\ -distance(o) <= o.half[axis] + 2
  IN  Cardinality({i \in DOMAIN s.sources : near(s.sources[i])})

CrossSection(s, axis) == (s.n[1] * s.n[2] * s.n[3]) \div s.n[axis]

Larger(x, y) == IF x >= y THEN x ELSE y

\* Mutant: a faster device makes its part look dearer.
PredictedCrossed(s, weights, axis, cut) ==
  LET below == CostBelow(s, axis, cut)
      above == CostBelow(s, axis, s.n[axis]) - below
      surface == IF axis = 1 THEN 16 ELSE 64
  IN  (weights[1] + weights[2]) * Larger(below * weights[1], above * weights[2])
        + 20 * weights[1] * weights[2] * CrossSection(s, axis)
             * (surface + 16 * SourceCrossings(s, axis, cut))

Predicted(s, weights, axis, cut) ==
  LET below == CostBelow(s, axis, cut)
      above == CostBelow(s, axis, s.n[axis]) - below
      surface == IF axis = 1 THEN 16 ELSE 64
  IN  (weights[1] + weights[2]) * Larger(below * weights[2], above * weights[1])
        + 20 * weights[1] * weights[2] * CrossSection(s, axis)
             * (surface + 16 * SourceCrossings(s, axis, cut))

\* A forced axis of fewer than four cells leaves nothing to choose from.
SplitAxes(s, order) ==
  {a \in IF order.axis = 0 THEN Axes ELSE {order.axis} : s.n[a] >= 4}

Cuts(s, order, axis) == IF order.cut = 0 THEN 2..(s.n[axis] - 2) ELSE {order.cut}

\* Without an axis, or with a forced cut too near an end of one, it raises.
Decomposable(s, order) ==
  /\ SplitAxes(s, order) # {}
  /\ \A a \in SplitAxes(s, order) :
       \A cut \in Cuts(s, order, a) : 1 < cut /\ cut < s.n[a] - 1

\* The least estimate; among equal ones the first axis, then the lowest cut.
Choose(s, order) ==
  LET costs == [x \in UNION {{a} \X Cuts(s, order, a) : a \in SplitAxes(s, order)} |->
                  Predicted(s, order.weights, x[1], x[2])]
      best  == {x \in DOMAIN costs : \A y \in DOMAIN costs : costs[x] <= costs[y]}
  IN  CHOOSE x \in best : \A y \in best : x = y \/ PairBefore(x, y)
=============================================================================
