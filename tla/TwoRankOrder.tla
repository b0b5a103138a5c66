----------------------------- MODULE TwoRankOrder -----------------------------
(***************************************************************************)
(* What the halo exchange promises to the physics: each rank completes its *)
(* half steps in order, a rank never completes a half step before the      *)
(* other has completed the preceding one, and a rank whose advance raised  *)
(* completes nothing more.  No messages, buffers or phases appear here.    *)
(***************************************************************************)
EXTENDS Integers

CONSTANT Steps   \* full steps of one advance() call

VARIABLES
  half,     \* half[r]: half steps rank r has completed
  raised    \* raised[r]: advance() of rank r ended in an exception

vars == <<half, raised>>

Ranks == {0, 1}
Peer(r) == 1 - r

Init ==
  /\ half = [r \in Ranks |-> 0]
  /\ raised = [r \in Ranks |-> FALSE]

Complete(r) ==
  /\ ~raised[r]
  /\ half[r] < 2 * Steps
  /\ half[r] <= half[Peer(r)]
  /\ half' = [half EXCEPT ![r] = @ + 1]
  /\ UNCHANGED raised

Raise(r) ==
  /\ ~raised[r]
  /\ half[r] < 2 * Steps
  /\ raised' = [raised EXCEPT ![r] = TRUE]
  /\ UNCHANGED half

Next == \E r \in Ranks : Complete(r) \/ Raise(r)

Spec == Init /\ [][Next]_vars
=============================================================================
