---------------------------- MODULE MCDm2Corrector ----------------------------
\* Model checking instance: two buckets, two iterations, so that a packed body
\* of three overshoots the limit, and two steps, so that the second starts from
\* every outcome of the first.
EXTENDS Dm2Corrector

MCSizes == <<2, 1>>
=============================================================================
