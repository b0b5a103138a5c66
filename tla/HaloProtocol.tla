----------------------------- MODULE HaloProtocol -----------------------------
(***************************************************************************)
(* What the devices of two ranks carry out during advance() around         *)
(* TorchHaloExchange.begin() and finish(), with the NCCL transfers between *)
(* them.  The ranks run concurrently and share nothing but the transfers.  *)
(*                                                                         *)
(* The state here is that of the streams: wait() in finish() holds the     *)
(* stream that runs the correction, not the host that queued it.  Module   *)
(* HaloHost adds the hosts, which queue this work and may have returned    *)
(* from advance() long before it is done.                                  *)
(*                                                                         *)
(* NCCL point-to-point operations carry no tag: a send meets the peer's    *)
(* next receive.  A batch posts one send and one receive per component;    *)
(* they go out in one group, so one flag stands for each direction.        *)
(* Fields and buffers are added by module DistributedYee.                  *)
(***************************************************************************)
EXTENDS Integers

CONSTANT Steps   \* full steps of all advance() calls, the same on both ranks

ASSUME StepsAssumption == Steps \in Nat \ {0}

VARIABLES
  half,      \* half[r]: half steps completed; step_count is half[r] \div 2
  pc,        \* pc[r]: where device r is inside the current half step
  sending,   \* sending[r]: r posted a send the peer has not received
  awaiting,  \* awaiting[r]: r posted a receive that has not completed
  raised     \* raised[r]: rank r failed, in advance() or by the group's timeout,
             \* and aborted its group

control == <<half, pc, sending, awaiting, raised>>

Ranks == {0, 1}
Peer(r) == 1 - r

\* Device r has work of advance() left to do.
Running(r) == ~raised[r] /\ half[r] < 2 * Steps

HaloInit ==
  /\ half = [r \in Ranks |-> 0]
  /\ pc = [r \in Ranks |-> "idle"]
  /\ sending = [r \in Ranks |-> FALSE]
  /\ awaiting = [r \in Ranks |-> FALSE]
  /\ raised = [r \in Ranks |-> FALSE]

-----------------------------------------------------------------------------
\* Synchronise the unsplit boundaries, pack and start the batch.
HaloBegin(r) ==
  /\ Running(r) /\ pc[r] = "idle"
  /\ pc' = [pc EXCEPT ![r] = "launched"]
  /\ sending' = [sending EXCEPT ![r] = TRUE]
  /\ awaiting' = [awaiting EXCEPT ![r] = TRUE]
  /\ UNCHANGED <<half, raised>>

\* The dense update overlaps the transfers.
HaloCompute(r) ==
  /\ Running(r) /\ pc[r] = "launched"
  /\ pc' = [pc EXCEPT ![r] = "computed"]
  /\ UNCHANGED <<half, sending, awaiting, raised>>

\* The peer's send meets this rank's receive.
HaloDeliver(r) ==
  /\ ~raised[r] /\ ~raised[Peer(r)]
  /\ awaiting[r] /\ sending[Peer(r)]
  /\ awaiting' = [awaiting EXCEPT ![r] = FALSE]
  /\ sending' = [sending EXCEPT ![Peer(r)] = FALSE]
  /\ UNCHANGED <<half, pc, raised>>

\* Variant of HaloFinish with a plausible error: the works are not waited for.
FinishEarly(r) ==
  /\ Running(r) /\ pc[r] = "computed"
  /\ pc' = [pc EXCEPT ![r] = "corrected"]
  /\ UNCHANGED <<half, sending, awaiting, raised>>

\* The stream has waited for every work of the batch: correct the boundary,
\* fill the ghosts.
HaloFinish(r) ==
  /\ Running(r) /\ pc[r] = "computed"
  /\ ~sending[r] /\ ~awaiting[r]
  /\ pc' = [pc EXCEPT ![r] = "corrected"]
  /\ UNCHANGED <<half, sending, awaiting, raised>>

\* Materials, sources and probes; the magnetic half also counts the step.
HaloPost(r) ==
  /\ Running(r) /\ pc[r] = "corrected"
  /\ pc' = [pc EXCEPT ![r] = "idle"]
  /\ half' = [half EXCEPT ![r] = @ + 1]
  /\ UNCHANGED <<sending, awaiting, raised>>

\* An exception on the host, which may be far ahead of its device, or the
\* group's timeout aborts the group wherever the device is.  What an aborted
\* device still computes is void and not followed.
Fail(r) ==
  /\ Running(r)
  /\ raised' = [raised EXCEPT ![r] = TRUE]
  /\ UNCHANGED <<half, pc, sending, awaiting>>

HaloTerminated == (\A r \in Ranks : ~Running(r)) /\ UNCHANGED control

HaloNext ==
  \/ \E r \in Ranks : \/ HaloBegin(r) \/ HaloCompute(r) \/ HaloDeliver(r)
                      \/ HaloFinish(r) \/ HaloPost(r) \/ Fail(r)
  \/ HaloTerminated

HaloSpec == HaloInit /\ [][HaloNext]_control

-----------------------------------------------------------------------------
\* The values each variable ranges over.
TypeOK ==
  /\ half \in [Ranks -> 0..(2 * Steps)]
  /\ pc \in [Ranks -> {"idle", "launched", "computed", "corrected"}]
  /\ sending \in [Ranks -> BOOLEAN]
  /\ awaiting \in [Ranks -> BOOLEAN]
  /\ raised \in [Ranks -> BOOLEAN]

\* A send that can meet a receive carries the plane the receiver is waiting
\* for: that of the same half step.  Nothing in the messages enforces it.
HaloMatch ==
  \A r \in Ranks :
    sending[Peer(r)] /\ awaiting[r] /\ ~raised[r] /\ ~raised[Peer(r)]
      => half[Peer(r)] = half[r]

\* A batch is complete before the next begins, so a persistent send buffer is
\* never repacked under a transfer that still reads it.
BuffersQuiet ==
  \A r \in Ranks : pc[r] \in {"idle", "corrected"} => ~sending[r] /\ ~awaiting[r]

\* A device completes the work of advance() beside a failed peer only if the
\* peer holds every halo of the last half step.  A host that returned from
\* advance() knows nothing of the kind until its device has completed.
CompletesWithPeer ==
  \A r \in Ranks :
    half[r] = 2 * Steps /\ raised[Peer(r)]
      => /\ half[Peer(r)] = 2 * Steps - 1
         /\ pc[Peer(r)] # "idle"
         /\ ~sending[Peer(r)] /\ ~awaiting[Peer(r)]

\* The strengthening that makes the above inductive: ranks in the same half
\* step have either exchanged a direction or not, and a rank one half step
\* ahead left the other with a delivered batch.
SameHalf(r) ==
  half[r] = half[Peer(r)] =>
    /\ pc[r] # "idle" /\ pc[Peer(r)] # "idle" => (sending[r] <=> awaiting[Peer(r)])
    /\ pc[r] # "idle" /\ pc[Peer(r)] = "idle" => sending[r] /\ awaiting[r]

Ahead(r) ==
  half[r] > half[Peer(r)] =>
    /\ half[r] = half[Peer(r)] + 1
    /\ pc[Peer(r)] # "idle"
    /\ ~sending[Peer(r)] /\ ~awaiting[Peer(r)]
    /\ pc[r] # "idle" => sending[r] /\ awaiting[r]

Quiet(r) ==
  /\ pc[r] \in {"idle", "corrected"} => ~sending[r] /\ ~awaiting[r]
  /\ half[r] = 2 * Steps => pc[r] = "idle" /\ ~raised[r]

\* All of it: the inductive invariant of DistributedYeeProofs.
HaloIInv ==
  /\ TypeOK
  /\ \A r \in Ranks : SameHalf(r) /\ Ahead(r) /\ Quiet(r)

Order == INSTANCE TwoRankOrder
\* The protocol implements the order the physics relies on: no rank completes a
\* half step before the other has completed the preceding one.
OrderSpec == Order!Spec
=============================================================================
