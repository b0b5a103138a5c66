------------------------------ MODULE GeomShapes ------------------------------
(***************************************************************************)
(* Boxes and shapes of pygeom.py on an integer lattice.  A point maps the  *)
(* three axes to coordinates, and Inf stands for the floating point        *)
(* infinity: it lies beyond every finite coordinate and absorbs an offset. *)
(*                                                                         *)
(* A shape is a record as the tree sees it after init(): its kind, whether *)
(* its material is a Compound, and its dimensions as half sizes, so that   *)
(* no coordinate is halved.  Axes of blocks, ellipsoids and cones are      *)
(* Cartesian; rounding is not modelled.                                    *)
(***************************************************************************)
EXTENDS Integers, FiniteSets

CONSTANT Inf

ASSUME InfAssumption == Inf \in Nat

Axes == 1..3

Square(x) == x * x

\* inf + d = inf.
Offset(x, d) == IF x \in {Inf, -Inf} THEN x ELSE x + d

(***************************************************************************)
(* GeomBox: closed on every side.                                          *)
(***************************************************************************)
InBox(b, p) == \A a \in Axes : b.low[a] <= p[a] /\ p[a] <= b.high[a]

Between(x, low, high) == low <= x /\ x <= high

\* Mutant: a box that holds the other one whole is taken for a separate one.
OverlapCorners(b, c) ==
  \A a \in Axes : Between(c.low[a], b.low[a], b.high[a]) \/ Between(c.high[a], b.low[a], b.high[a])

Overlap(b, c) ==
  \A a \in Axes :
    \/ Between(c.low[a], b.low[a], b.high[a])
    \/ Between(c.high[a], b.low[a], b.high[a])
    \/ Between(b.low[a], c.low[a], c.high[a])

\* GeomBox.divide: the part below x and the part above it, which share x.
Below(b, a, x) == [b EXCEPT !.high = [@ EXCEPT ![a] = x]]

\* Mutant: the upper part starts past the cut.
AboveCut(b, a, x) == [b EXCEPT !.low = [@ EXCEPT ![a] = x + 2]]

Above(b, a, x) == [b EXCEPT !.low = [@ EXCEPT ![a] = x]]

Everywhere == [low |-> [a \in Axes |-> -Inf], high |-> [a \in Axes |-> Inf]]

(***************************************************************************)
(* Shell.init: an axis not thicker than one cell is widened to it and      *)
(* keeps no face; each remaining face is a slab of the given thickness     *)
(* measured inward from the outer surface.                                 *)
(***************************************************************************)
ShellHalf(s, dr) == [a \in Axes |-> IF 2 * s.half[a] < dr THEN dr \div 2 ELSE s.half[a]]

ShellSlab(s, half, face) ==
  LET a == face[1]
      low == [k \in Axes |-> s.center[k] - half[k]]
      high == [k \in Axes |-> s.center[k] + half[k]]
  IN  IF face[2] = "plus"
        THEN [low |-> [low EXCEPT ![a] = high[a] - s.d], high |-> high]
        ELSE [low |-> low, high |-> [high EXCEPT ![a] = low[a] + s.d]]

InitShell(s, dr) ==
  LET half == ShellHalf(s, dr)
  IN  [s EXCEPT !.half = half,
                !.slabs = {ShellSlab(s, half, f) :
                             f \in {f \in s.faces : 2 * half[f[1]] > dr}}]

(***************************************************************************)
(* in_object of each shape, and its geom_box.                              *)
(***************************************************************************)
Finite(p) == \A a \in Axes : p[a] \notin {Inf, -Inf}

From(s, p) == [a \in Axes |-> p[a] - s.center[a]]

InBlock(s, p) ==
  Finite(p) /\ \A a \in Axes : s.half[a] = Inf \/ Between(From(s, p)[a], -s.half[a], s.half[a])

InEllipsoid(s, p) ==
  LET r == From(s, p)
      q(a, b, c) == Square(r[a] * s.half[b] * s.half[c])
  IN  Finite(p) /\ q(1, 2, 3) + q(2, 3, 1) + q(3, 1, 2)
                     <= Square(s.half[1] * s.half[2] * s.half[3])

InSphere(s, p) ==
  LET r == From(s, p)
  IN  Square(r[1]) + Square(r[2]) + Square(r[3]) <= Square(s.radius)

\* The radius grows linearly from radius at the tail to radius2 at the tip; an
\* infinite coordinate projects to nan, which is inside nothing.
InCone(s, p) ==
  LET r    == From(s, p)
      proj == s.sign * r[s.axis]
      wide == 2 * s.height * s.radius + (proj + s.height) * (s.radius2 - s.radius)
      perp == Square(r[1]) + Square(r[2]) + Square(r[3]) - Square(proj)
  IN  /\ Finite(p)
      /\ Between(proj, -s.height, s.height)
      /\ perp * Square(2 * s.height) <= Square(wide)

InShell(s, p) == \E b \in s.slabs : InBox(b, p)

InObject(s, p) ==
  \/ s.kind = "medium"    /\ InBox(Everywhere, p)
  \/ s.kind = "block"     /\ InBlock(s, p)
  \/ s.kind = "ellipsoid" /\ InEllipsoid(s, p)
  \/ s.kind = "sphere"    /\ InSphere(s, p)
  \/ s.kind = "cone"      /\ InCone(s, p)
  \/ s.kind = "shell"     /\ InShell(s, p)

Around(center, low, high) ==
  [low |-> [a \in Axes |-> Offset(-low[a], center[a])],
   high |-> [a \in Axes |-> Offset(high[a], center[a])]]

Wider(x, y) == IF x >= y THEN x ELSE y

\* The union of the boxes of the two end discs.
ConeBox(s) ==
  LET reach == [a \in Axes |-> IF a = s.axis THEN s.height ELSE Wider(s.radius, s.radius2)]
  IN  Around(s.center, reach, reach)

GeomBox(s) ==
  IF s.kind = "medium" THEN Everywhere
  ELSE IF s.kind = "cone" THEN ConeBox(s)
  ELSE IF s.kind = "sphere"
         THEN Around(s.center, [a \in Axes |-> s.radius], [a \in Axes |-> s.radius])
  ELSE Around(s.center, s.half, s.half)
=============================================================================
