---------------------------- MODULE CartesianGrid ----------------------------
(***************************************************************************)
(* The coordinates of the Yee grid: Cartesian of geometry.py, the views of *)
(* it that rank_local_space gives two ranks, and the conversions between   *)
(* an index of a component's array and a point of space.                   *)
(*                                                                         *)
(* Space is measured in half cells of each axis, from the low corner of    *)
(* the domain, so every point of every component is an integer.            *)
(***************************************************************************)
EXTENDS Integers

Axes == 1..3
Component == {"E", "H"} \X Axes

\* The two other axes, in cyclic order: Ex is driven by Hz along y, Hy along z.
AxisB(a) == (a % 3) + 1
AxisC(a) == ((a + 1) % 3) + 1

Sum3(u, v) == [a \in Axes |-> u[a] + v[a]]
Zero == [a \in Axes |-> 0]

\* A grid: the cells of the domain, the cells of the view, the offset of the
\* view, and its place among the views (my_cart_idx).
Serial(n) == [whole |-> n, n |-> n, off |-> Zero, at |-> Zero]

\* The view of a rank when the domain is cut along an axis.
RankLocal(n, axis, cut, rank) ==
  [whole |-> n,
   n     |-> [n EXCEPT ![axis] = IF rank = 0 THEN cut ELSE n[axis] - cut],
   off   |-> IF rank = 0 THEN Zero ELSE [Zero EXCEPT ![axis] = cut],
   at    |-> [Zero EXCEPT ![axis] = rank]]

\* A component has n cells along its own axis and n + 1 planes along the others.
Shape(g, c) == [a \in Axes |-> IF a = c[2] THEN g.n[a] ELSE g.n[a] + 1]

Within(v, shape) == \A a \in Axes : 0 <= v[a] /\ v[a] < shape[a]

\* Where index 0 of a component lies, in half cells from the corner of the view.
Stagger(c, a) ==
  IF c[1] = "E" THEN IF a = c[2] THEN 1 ELSE 0
                ELSE IF a = c[2] THEN 0 ELSE -1

\* Mutant: the second view is laid over the low end of the domain.
IndexToSpaceOver(g, c, v) == [a \in Axes |-> 2 * v[a] + Stagger(c, a)]

IndexToSpace(g, c, v) == [a \in Axes |-> 2 * (v[a] + g.off[a]) + Stagger(c, a)]

\* What the conversion takes for the offset of the view.  The magnetic ones
\* multiply the place among the views by general_field_size, which remains the
\* size of the whole domain in a rank's view.
IndexOrigin(g, c, a) == IF c[1] = "E" THEN g.off[a] ELSE g.at[a] * g.whole[a]

\* The nearest index; an axis of one cell has only one.
SpaceToIndex(g, c, x) ==
  [a \in Axes |->
     IF g.whole[a] = 1 THEN IF c[1] = "H" /\ a # c[2] THEN 1 ELSE 0
     ELSE ((x[a] - Stagger(c, a) + 1) \div 2) - IndexOrigin(g, c, a)]
=============================================================================
