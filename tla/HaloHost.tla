-------------------------------- MODULE HaloHost --------------------------------
(***************************************************************************)
(* The hosts of the two ranks inside advance().  A host queues the stages  *)
(* of a half step on its device one after the other and blocks on none of  *)
(* them: it may return from its last advance() with every transfer still   *)
(* pending, or raise while the device is many half steps behind.  The host *)
(* keeps exchange._phase; the devices follow HaloProtocol.                 *)
(***************************************************************************)
EXTENDS HaloProtocol

VARIABLES
  issued,    \* issued[r]: half steps host r has queued; all: advance() returned
  stage,     \* stage[r]: what host r has queued of the current one, as pc[r]
  phase      \* phase[r]: exchange._phase, "none" exactly when _works is None

host == <<issued, stage, phase>>
hostVars == <<control, host>>

\* The electric update of an even half step consumes magnetic halos.
PhaseOf(h) == IF h % 2 = 0 THEN "magnetic" ELSE "electric"

\* Host r is inside advance(), or about to call it again.
Hosting(r) == ~raised[r] /\ issued[r] < 2 * Steps

\* Stages in the order they are queued and carried out.
Place(h, s) == 4 * h + (CASE s = "idle" -> 0 [] s = "launched" -> 1
                          [] s = "computed" -> 2 [] s = "corrected" -> 3)

HostInit ==
  /\ HaloInit
  /\ issued = [r \in Ranks |-> 0]
  /\ stage = [r \in Ranks |-> "idle"]
  /\ phase = [r \in Ranks |-> "none"]

-----------------------------------------------------------------------------
\* begin(): queue the packing, launch the batch and remember its phase.
IssueBegin(r) ==
  /\ Hosting(r) /\ stage[r] = "idle"
  /\ phase[r] = "none"
  /\ stage' = [stage EXCEPT ![r] = "launched"]
  /\ phase' = [phase EXCEPT ![r] = PhaseOf(issued[r])]
  /\ UNCHANGED <<control, issued>>

\* Queue the dense update.
IssueCompute(r) ==
  /\ Hosting(r) /\ stage[r] = "launched"
  /\ stage' = [stage EXCEPT ![r] = "computed"]
  /\ UNCHANGED <<control, issued, phase>>

\* Variant of IssueFinish with a plausible error: the exchange is not released.
IssueFinishHeld(r) ==
  /\ Hosting(r) /\ stage[r] = "computed"
  /\ phase[r] = PhaseOf(issued[r])
  /\ stage' = [stage EXCEPT ![r] = "corrected"]
  /\ UNCHANGED <<control, issued, phase>>

\* finish(): make the stream wait for the works, queue correction and ghosts.
IssueFinish(r) ==
  /\ Hosting(r) /\ stage[r] = "computed"
  /\ phase[r] = PhaseOf(issued[r])
  /\ stage' = [stage EXCEPT ![r] = "corrected"]
  /\ phase' = [phase EXCEPT ![r] = "none"]
  /\ UNCHANGED <<control, issued>>

\* Queue materials, sources, probes and the count.
IssuePost(r) ==
  /\ Hosting(r) /\ stage[r] = "corrected"
  /\ stage' = [stage EXCEPT ![r] = "idle"]
  /\ issued' = [issued EXCEPT ![r] = @ + 1]
  /\ UNCHANGED <<control, phase>>

\* An exception outside finish() leaves the exchange as it is; finish() clears
\* it on the way out.  advance() aborts the group in both cases.
HostFails(r) ==
  /\ Hosting(r)
  /\ Fail(r)
  /\ phase' = IF stage[r] = "computed" THEN [phase EXCEPT ![r] = "none"] ELSE phase
  /\ UNCHANGED <<issued, stage>>

\* The device carries out the next stage its host has queued.
Execute(r) ==
  /\ Place(half[r], pc[r]) < Place(issued[r], stage[r])
  /\ HaloBegin(r) \/ HaloCompute(r) \/ HaloFinish(r) \/ HaloPost(r)
  /\ UNCHANGED host

Transfer(r) == HaloDeliver(r) /\ UNCHANGED host

\* Variant of TimeOut with a plausible error: the loss of a peer goes unseen.
TimeOutAlive(r) ==
  /\ sending[r] \/ awaiting[r]
  /\ ~raised[Peer(r)]
  /\ Fail(r)
  /\ UNCHANGED host

\* A transfer that does not complete in time fails the rank, whether its host
\* is still inside advance() or has returned.
TimeOut(r) ==
  /\ sending[r] \/ awaiting[r]
  /\ Fail(r)
  /\ UNCHANGED host

HostTerminated == (\A r \in Ranks : ~Running(r)) /\ UNCHANGED hostVars

HostNext ==
  \/ \E r \in Ranks : \/ IssueBegin(r) \/ IssueCompute(r) \/ IssueFinish(r) \/ IssuePost(r)
                      \/ HostFails(r) \/ Execute(r) \/ Transfer(r) \/ TimeOut(r)
  \/ HostTerminated

HostSpec == HostInit /\ [][HostNext]_hostVars

\* Hosts and devices go on, transfers between two live ranks complete, and one
\* that cannot complete reaches the timeout.
Fairness ==
  \A r \in Ranks : /\ WF_hostVars(IssueBegin(r)) /\ WF_hostVars(IssueCompute(r))
                   /\ WF_hostVars(IssueFinish(r)) /\ WF_hostVars(IssuePost(r))
                   /\ WF_hostVars(Execute(r)) /\ WF_hostVars(Transfer(r))
                   /\ WF_hostVars(TimeOut(r))

FairSpec == HostSpec /\ Fairness

-----------------------------------------------------------------------------
\* begin() never finds an exchange active and finish() never finds another
\* phase, in any half step of any advance() call whose group is not aborted.
NeverRefused ==
  \A r \in Ranks : Hosting(r) =>
    /\ stage[r] = "idle" => phase[r] = "none"
    /\ stage[r] = "computed" => phase[r] = PhaseOf(issued[r])

\* What makes it inductive: an exchange is active from begin() to finish().
HostIInv ==
  /\ raised \in [Ranks -> BOOLEAN]
  /\ issued \in [Ranks -> Nat]
  /\ stage \in [Ranks -> {"idle", "launched", "computed", "corrected"}]
  /\ phase \in [Ranks -> {"none", "magnetic", "electric"}]
  /\ \A r \in Ranks : ~raised[r] =>
       phase[r] = IF stage[r] \in {"idle", "corrected"} THEN "none" ELSE PhaseOf(issued[r])

\* The work of every advance() call ends on both ranks: completed by the device,
\* or given up with the group.
AdvanceReturns == <>(\A r \in Ranks : ~Running(r))
=============================================================================
