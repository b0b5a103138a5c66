---------------------------- MODULE MCSimulationRun ----------------------------
\* Model checking instance of a simulation and of one of its probe rings, which
\* its state counts only: each moves while the other rests as it was created.
EXTENDS SimulationRun, ProbeRing

RunAndRingInit == Init /\ RingInit

RunAndRingNext ==
  \/ RingInit /\ Next /\ UNCHANGED ringVars
  \/ Init /\ RingNext /\ UNCHANGED vars

RunAndRingSpec == RunAndRingInit /\ [][RunAndRingNext]_<<vars, ringVars>>
=============================================================================
