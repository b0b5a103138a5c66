------------------------- MODULE MaterialRecurrences -------------------------
(***************************************************************************)
(* The update of one cell by the model of its material, as functions of    *)
(* its coefficients k, its memory, its field e and what drives it: the     *)
(* new field and the new memory.  Values are residues modulo P; curls and  *)
(* differences are scaled by the time step.                                *)
(***************************************************************************)
EXTENDS Integers, Sequences, SequencesExt

CONSTANT P   \* the prime modulus of field values

Reciprocal(k) == CHOOSE u \in 1..(P - 1) : (u * k) % P = 1

SumOf(seq) == FoldLeft(+, 0, seq)

\* Drude and Lorentz: the polarisations at the previous and current step.
TwoLevel(k, row, e, curl) ==
  LET work == [i \in DOMAIN row.current |->
                 (k.a[i][1] * row.previous[i] + k.a[i][2] * row.current[i]
                   + k.a[i][3] * e) % P]
      response == SumOf([i \in DOMAIN work |-> work[i] - row.current[i]])
  IN  [field |-> (k.c[1] * curl + k.c[2] * response + k.c[3] * e) % P,
       row   |-> [previous |-> row.current, current |-> work]]

\* Drude and critical-point poles by auxiliary differential equations: two
\* levels of each and the field before the last.
DcpAde(k, row, e, curl) ==
  LET fall(a, old, now) == [i \in DOMAIN now |-> now[i] - a[i][2] * now[i] - a[i][1] * old[i]]
      response == SumOf(fall(k.a, row.poleOld, row.poleNow))
                    + SumOf(fall(k.b, row.pointOld, row.pointNow))
      field == (k.c[1] * curl + k.c[2] * response + k.c[3] * row.field + k.c[4] * e) % P
      combo == row.field + 2 * e + field
      pole  == [i \in DOMAIN row.poleNow |->
                  (k.a[i][1] * row.poleOld[i] + k.a[i][2] * row.poleNow[i]
                    + k.a[i][3] * combo) % P]
      point == [i \in DOMAIN row.pointNow |->
                  (k.b[i][1] * row.pointOld[i] + k.b[i][2] * row.pointNow[i]
                    + k.b[i][3] * row.field + k.b[i][4] * e + k.b[i][5] * field) % P]
  IN  [field |-> field,
       row   |-> [field |-> e, poleOld |-> row.poleNow, poleNow |-> pole,
                  pointOld |-> row.pointNow, pointNow |-> point]]

\* Recursive convolution: real poles, complex critical points <<re, im>>.
Convolution(k, row, e, curl) ==
  LET response == SumOf(row.pole) + SumOf([i \in DOMAIN row.point |-> row.point[i][1]])
      field == (k.c[1] * curl + k.c[2] * e + k.c[3] * response) % P
      pole  == [i \in DOMAIN row.pole |->
                  (k.a[i][1] * field + k.a[i][2] * e + k.a[i][3] * row.pole[i]) % P]
      point == [i \in DOMAIN row.point |->
                  LET b  == k.b[i]
                      re == row.point[i][1]
                      im == row.point[i][2]
                  IN  << (b[1][1] * field + b[2][1] * e + b[3][1] * re - b[3][2] * im) % P,
                         (b[1][2] * field + b[2][2] * e + b[3][1] * im + b[3][2] * re) % P >>]
  IN  [field |-> field, row |-> [pole |-> pole, point |-> point]]

\* Absorbers take the two differences t[1] and t[2] of the curl, which is their
\* difference times the direction.
Upml(k, row, e, t, direction) ==
  LET memory == (k.curl[1].ratio * row[1] + k.curl[1].gain * (t[1] - t[2]) * direction) % P
      drive  == k.own.plus * memory - k.own.minus * row[1]
  IN  [field |-> (k.curl[2].ratio * e + k.curl[2].share * k.base * drive) % P,
       row   |-> <<memory>>]

Psi(g, psi, t) == (g.b * psi + g.c * t) % P

Cpml(k, row, e, t, direction) ==
  LET psi == [i \in 1..2 |-> Psi(k.curl[i], row[i], t[i])]
      stretched(i) == Reciprocal(k.curl[i].kappa) * t[i] + psi[i]
  IN  [field |-> (e + k.base * direction * (stretched(1) - stretched(2))) % P,
       row   |-> psi]

\* One axis of a CPML cell, on top of the dense update by the plain curl.
CpmlResidual(k, psi, e, t, direction, sign) ==
  LET next == Psi(k, psi, t)
  IN  [field |-> (e + k.base * direction * sign * (k.excess * t + next)) % P,
       psi   |-> next]
=============================================================================
