-------------------------- MODULE DistributedSession --------------------------
(***************************************************************************)
(* The life of one TorchDistributedSimulation on two ranks that run the    *)
(* same program: construction, capture_cuda_graphs, load_checkpoint,       *)
(* load_checkpoint_file, advance by a step and global_field_snapshot, as   *)
(* the sequence of collectives and rank-local steps each of them is.  The  *)
(* ranks share nothing else: what a rank knows of the other is what a      *)
(* collective told it.  The halo exchanges of a step are one collective    *)
(* here; module HaloProtocol opens it.                                     *)
(***************************************************************************)
EXTENDS Naturals, Sequences, FiniteSets

CONSTANTS
  Program,      \* the calls of the application, in order
  Sessions      \* what the two ranks can be started with and given to load

Ranks == {0, 1}
Peer(r) == 1 - r

CallNames == {"construct", "capture", "load", "loadFile", "advance", "snapshot"}

\* One simulation per session, constructed first.
ASSUME ProgramAssumption ==
  /\ Program \in Seq(CallNames)
  /\ Len(Program) > 0
  /\ \A k \in DOMAIN Program : Program[k] = "construct" <=> k = 1

\* The calls that load a checkpoint, and what a checkpoint is to a rank: a header
\* the ranks vote on, what of its body does not fit, and its step count.
Loads == {k \in DOMAIN Program : Program[k] \in {"load", "loadFile"}}
Files == [header : BOOLEAN, body : {"good", "state", "probes"}, clock : Nat]

ASSUME SessionAssumption ==
  \A g \in Sessions : /\ DOMAIN g = Ranks
                       /\ \A r \in Ranks : g[r].file \in [Loads -> Files]

VARIABLES
  given,     \* given[r]: precision, split and, for each load, the file of rank r
  call,      \* call[r]: index of the current call in Program
  step,      \* step[r]: index of the current step of that call
  waiting,   \* waiting[r]: r posted the collective of its step
  status,    \* status[r]: "running", "finished" or "raised"
  captured,  \* captured[r]: r holds CUDA graphs
  holds,     \* holds[r]: the load whose fields r has, 0 for none, and whether the
             \* auxiliaries and probe rings are whole and of the same load
  clock      \* clock[r]: the step count of r

vars == <<given, call, step, waiting, status, captured, holds, clock>>

Collectives ==
  {"init", "contract", "weights", "identity", "barrier", "reduce", "halo", "gather"}

\* The steps of each call, in source order.  load_checkpoint_file is reached
\* through __getattr__: the restore of the local simulation, without a vote.
Calls ==
  [construct |-> <<"check", "init", "contract", "precise", "weights", "select",
                   "identity", "agree", "build">>,
   capture   |-> <<"barrier", "record", "barrier">>,
   load      |-> <<"reduce", "accept", "restore">>,
   loadFile  |-> <<"restore">>,
   advance   |-> <<"halo", "update">>,
   snapshot  |-> <<"gather">>]

\* Variants of Script with plausible errors: no barrier after the capture, no
\* comparison of the decompositions, no vote on the checkpoint.
ScriptUnfenced(c) == [Calls EXCEPT !.capture = <<"barrier", "record">>][c]
ScriptUncompared(c) ==
  [Calls EXCEPT !.construct = <<"check", "init", "contract", "precise", "weights",
                                "select", "identity", "build">>][c]
ScriptUnvoted(c) == [Calls EXCEPT !.load = <<"restore">>][c]

Script(c) == Calls[c]

Call(r) == Program[call[r]]
Step(r) == Script(Call(r))[step[r]]
Running(r) == status[r] = "running"
File(r) == given[r].file[call[r]]

Init ==
  /\ given \in Sessions
  /\ call = [r \in Ranks |-> 1]
  /\ step = [r \in Ranks |-> 1]
  /\ waiting = [r \in Ranks |-> FALSE]
  /\ status = [r \in Ranks |-> "running"]
  /\ captured = [r \in Ranks |-> FALSE]
  /\ holds = [r \in Ranks |-> [fields |-> 0, whole |-> TRUE]]
  /\ clock = [r \in Ranks |-> 0]

-----------------------------------------------------------------------------
\* Variant of Move with a plausible error: the program has no last call.
MoveOpen(R, over) ==
  /\ call' = [r \in Ranks |-> IF r \in over THEN call[r] + 1 ELSE call[r]]
  /\ step' = [r \in Ranks |-> IF r \in over THEN 1
                              ELSE IF r \in R THEN step[r] + 1 ELSE step[r]]
  /\ UNCHANGED status

\* The ranks in R go a step further, those in over to the next call or out of
\* the program.
Move(R, over) ==
  /\ call' = [r \in Ranks |-> IF r \in over /\ call[r] < Len(Program)
                              THEN call[r] + 1 ELSE call[r]]
  /\ step' = [r \in Ranks |-> IF r \in over THEN 1
                              ELSE IF r \in R THEN step[r] + 1 ELSE step[r]]
  /\ status' = [r \in Ranks |-> IF r \in over /\ call[r] = Len(Program)
                                THEN "finished" ELSE status[r]]

Advance(R) == Move(R, {r \in R : step[r] = Len(Script(Call(r)))})

Raise(r) ==
  /\ status' = [status EXCEPT ![r] = "raised"]
  /\ UNCHANGED <<call, step>>

At(r, s) == Running(r) /\ Step(r) = s

\* A rank enters a collective and blocks.
Post(r) ==
  /\ Running(r) /\ Step(r) \in Collectives /\ ~waiting[r]
  /\ waiting' = [waiting EXCEPT ![r] = TRUE]
  /\ UNCHANGED <<given, call, step, status, captured, holds, clock>>

\* The group matches collectives by order alone; both ranks leave together.
Meet ==
  /\ \A r \in Ranks : Running(r) /\ waiting[r]
  /\ waiting' = [r \in Ranks |-> FALSE]
  /\ Advance(Ranks)
  /\ UNCHANGED <<given, captured, holds, clock>>

\* Variant of TimeOut with a plausible error: a lost peer is not noticed.
TimeOutAlive(r) ==
  /\ Running(r) /\ waiting[r] /\ Running(Peer(r))
  /\ waiting' = [waiting EXCEPT ![r] = FALSE]
  /\ Raise(r)
  /\ UNCHANGED <<given, captured, holds, clock>>

\* A collective whose peer is gone, or late, ends in the group's timeout.
TimeOut(r) ==
  /\ Running(r) /\ waiting[r]
  /\ waiting' = [waiting EXCEPT ![r] = FALSE]
  /\ Raise(r)
  /\ UNCHANGED <<given, captured, holds, clock>>

\* Every rank compares what it gathered with its own value.
Compare(r) ==
  /\ At(r, "precise") \/ At(r, "agree")
  /\ IF \A q \in Ranks :
          IF Step(r) = "precise" THEN given[q].precision = given[r].precision
                                 ELSE given[q].split = given[r].split
     THEN Advance({r}) ELSE Raise(r)
  /\ UNCHANGED <<given, waiting, captured, holds, clock>>

\* The launch checks, selecting the decomposition and building the local
\* simulation can raise on one rank.
Construct(r) ==
  /\ At(r, "check") \/ At(r, "select") \/ At(r, "build")
  /\ Advance({r}) \/ Raise(r)
  /\ UNCHANGED <<given, waiting, captured, holds, clock>>

\* The local capture restores the state it disturbed, whether or not it raises.
Record(r) ==
  /\ At(r, "record")
  /\ \/ Advance({r}) /\ captured' = [captured EXCEPT ![r] = TRUE]
     \/ Raise(r) /\ UNCHANGED captured
  /\ UNCHANGED <<given, waiting, holds, clock>>

\* Variant of FailAdvance with a plausible error: the exception is swallowed.
FailAdvanceCaught(r) ==
  /\ At(r, "halo") /\ ~waiting[r]
  /\ Move({r}, {r})
  /\ UNCHANGED <<given, waiting, captured, holds, clock>>

\* A rank-local exception of the computation before a halo.
FailAdvance(r) ==
  /\ At(r, "halo") /\ ~waiting[r]
  /\ Raise(r)
  /\ UNCHANGED <<given, waiting, captured, holds, clock>>

\* The computation after the last halo ends the step, unless it raises.
Update(r) ==
  /\ At(r, "update")
  /\ \/ Advance({r}) /\ clock' = [clock EXCEPT ![r] = @ + 1]
     \/ Raise(r) /\ UNCHANGED clock
  /\ UNCHANGED <<given, waiting, captured, holds>>

\* Variant of Accept with a plausible error: a rank judges its own header.
AcceptOwn(r) ==
  /\ At(r, "accept")
  /\ IF File(r).header THEN Advance({r}) ELSE Move({r}, {r}) \/ Raise(r)
  /\ UNCHANGED <<given, waiting, captured, holds, clock>>

HeadersGood(k) == \A q \in Ranks : given[q].file[k].header

\* One bad header on any rank refuses the checkpoint on both; the application
\* sees the same error on both ranks and may carry on with its next call.
Accept(r) ==
  /\ At(r, "accept")
  /\ IF HeadersGood(call[r]) THEN Advance({r}) ELSE Move({r}, {r}) \/ Raise(r)
  /\ UNCHANGED <<given, waiting, captured, holds, clock>>

\* Variant of Restore with a plausible error: the step count is copied last.
RestoreCountLast(r) ==
  /\ At(r, "restore")
  /\ Advance({r}) \/ (File(r).body # "good" /\ Raise(r))
  /\ IF File(r).body = "state" THEN UNCHANGED holds
     ELSE holds' = [holds EXCEPT ![r] = [fields |-> call[r], whole |-> File(r).body = "good"]]
  /\ clock' = [clock EXCEPT ![r] = IF File(r).body = "good" THEN File(r).clock ELSE @]
  /\ UNCHANGED <<given, waiting, captured>>

\* The local restore, the last step of both loads, validates on its own: before
\* any copy for the state, after the state and its step count were copied for
\* auxiliaries and probes.  A refusal is an ordinary ValueError that aborts
\* nothing: the application may catch it on this rank and carry on.
Restore(r) ==
  /\ At(r, "restore")
  /\ Advance({r}) \/ (File(r).body # "good" /\ Raise(r))
  /\ IF File(r).body = "state" THEN UNCHANGED <<holds, clock>>
     ELSE /\ holds' = [holds EXCEPT ![r] = [fields |-> call[r], whole |-> File(r).body = "good"]]
          /\ clock' = [clock EXCEPT ![r] = File(r).clock]
  /\ UNCHANGED <<given, waiting, captured>>

Terminated == (\A r \in Ranks : ~Running(r)) /\ UNCHANGED vars

Next ==
  \/ Meet
  \/ \E r \in Ranks : \/ Post(r) \/ TimeOut(r) \/ Compare(r) \/ Construct(r)
                      \/ Record(r) \/ FailAdvance(r) \/ Update(r) \/ Accept(r)
                      \/ Restore(r)
  \/ Terminated

Spec == Init /\ [][Next]_vars

\* Ranks execute their steps; the group's timeout ends every wait.
Fairness ==
  /\ WF_vars(Meet)
  /\ \A r \in Ranks : /\ WF_vars(Post(r)) /\ WF_vars(Compare(r)) /\ WF_vars(Construct(r))
                      /\ WF_vars(Record(r)) /\ WF_vars(Update(r)) /\ WF_vars(Accept(r))
                      /\ WF_vars(Restore(r)) /\ WF_vars(TimeOut(r))

FairSpec == Spec /\ Fairness

-----------------------------------------------------------------------------
\* Every rank is at a step of a call of its program, and its flags are flags.
TypeOK ==
  /\ given \in Sessions
  /\ call \in [Ranks -> 1..Len(Program)]
  /\ step \in [Ranks -> Nat]
  /\ \A r \in Ranks : step[r] \in 1..Len(Script(Call(r)))
  /\ waiting \in [Ranks -> BOOLEAN]
  /\ status \in [Ranks -> {"running", "finished", "raised"}]
  /\ captured \in [Ranks -> BOOLEAN]
  /\ holds \in [Ranks -> [fields : Nat, whole : BOOLEAN]]
  /\ clock \in [Ranks -> Nat]

\* Call k returned on rank r without an exception.
Returned(r, k) == call[r] > k \/ (call[r] = k /\ status[r] = "finished")

SamePrecision == given[0].precision = given[1].precision
SameSplit == given[0].split = given[1].split

\* A rank builds its slab only if both ranks run at one precision and cut the
\* domain at one place: a mismatch stops construction on both.
BuildsAgree ==
  \A r \in Ranks : call[r] > 1 \/ Step(r) = "build" =>
    SamePrecision /\ SameSplit

\* capture_cuda_graphs() returns on a rank only if both ranks hold their graphs.
CaptureAgrees ==
  \A r \in Ranks : \A k \in DOMAIN Program :
    Program[k] = "capture" /\ Returned(r, k) => captured[0] /\ captured[1]

\* The group matches collectives by their order alone: two ranks that wait for
\* one another wait in the same collective of the same call, after any failure,
\* refusal or exception that was handled on the way.
CollectivesMatch ==
  waiting[0] /\ waiting[1] => call[0] = call[1] /\ step[0] = step[1]

\* A checkpoint whose header is bad on one rank is restored by neither.
BadHeaderRestoresNothing ==
  \A k \in Loads : Program[k] = "load" /\ ~HeadersGood(k) =>
    \A r \in Ranks : holds[r].fields # k

\* Both ranks wait for the halo of a step.
Meeting == \A r \in Ranks : waiting[r] /\ Step(r) = "halo"

\* A load that comes to its restore, and one that both ranks accept.
Attempted(k) == Program[k] = "loadFile" \/ HeadersGood(k)
Accepted(k) == Attempted(k) /\ \A r \in Ranks : given[r].file[k].body = "good"

\* Ranks that step on together hold one and the same whole checkpoint, unless a
\* rank refused the body of a load and none that both accepted followed: the
\* one way to mix checkpoints, which nothing stops, and what mends it.
MixedOnlyAfterRefusal ==
  Meeting /\ (holds[0] # holds[1] \/ ~holds[0].whole) =>
    \E k \in Loads :
      /\ k < call[0] /\ Attempted(k) /\ ~Accepted(k)
      /\ \A i \in Loads : k < i /\ i < call[0] => ~Accepted(i)

\* Ranks that step on together with the fields of one load are at one step if
\* its checkpoints are of one: no refused header, no body refused before or
\* half way and no load past the vote brings fields without their step count.
StepsAgree ==
  Meeting /\ holds[0].fields = holds[1].fields
    /\ (holds[0].fields # 0 => given[0].file[holds[0].fields].clock
                              = given[1].file[holds[0].fields].clock)
    => clock[0] = clock[1]

(***************************************************************************)
(* The inductive invariant.  A rank has passed a step when it is beyond    *)
(* it; refused checkpoints let it pass the restore without restoring.      *)
(***************************************************************************)
Passed(r, k, s) ==
  call[r] > k \/ (call[r] = k /\ (step[r] > s \/ status[r] = "finished"))

\* The heart: no rank is ever a collective ahead of the other.
Lockstep ==
  \A k \in DOMAIN Program : \A s \in 1..Len(Script(Program[k])) :
    Script(Program[k])[s] \in Collectives => (Passed(0, k, s) <=> Passed(1, k, s))

\* Ranks wait in collectives, and a finished one has left its last call.
Resting ==
  \A r \in Ranks : /\ waiting[r] => Running(r) /\ Step(r) \in Collectives
                   /\ status[r] = "finished" => call[r] = Len(Program)

\* What a rank learnt from the steps it passed.
Compared ==
  \A r \in Ranks : /\ Passed(r, 1, 4) => SamePrecision
                   /\ Passed(r, 1, 8) => SameSplit

Recorded ==
  \A r \in Ranks : \A k \in DOMAIN Program :
    Program[k] = "capture" /\ Passed(r, k, 2) => captured[r]

\* Rank r came through the restore of call k, and took fields from it.
Restores(r, k) == \/ Program[k] = "loadFile" /\ Passed(r, k, 1)
                  \/ Program[k] = "load" /\ Passed(r, k, 3) /\ HeadersGood(k)

Took(r, k) == Restores(r, k) /\ given[r].file[k].body # "state"

\* Only a load that was attempted is held.
HeldAttempted ==
  \A r \in Ranks : holds[r].fields # 0 =>
    holds[r].fields \in Loads /\ Attempted(holds[r].fields)

\* Rank r holds the last load it took fields from.
LastTaken(r) ==
  /\ \A k \in Loads : Took(r, k) => k <= holds[r].fields
  /\ IF holds[r].fields = 0 THEN holds[r].whole
     ELSE /\ holds[r].fields \in Loads /\ Took(r, holds[r].fields)
          /\ holds[r].whole <=> given[r].file[holds[r].fields].body = "good"

\* So does every rank that did not raise; a rank comes to the restore of a load
\* only past the vote.
RestoresTold ==
  \A r \in Ranks : /\ Call(r) = "load" /\ step[r] = 3 => HeadersGood(call[r])
                   /\ status[r] # "raised" => LastTaken(r)

\* The ranks pass the collectives together, and know of one another what these
\* told them.
Coupled ==
  /\ TypeOK
  /\ Lockstep
  /\ Resting
  /\ Compared
  /\ Recorded
  /\ HeldAttempted
  /\ RestoresTold

\* The steps a rank has taken since the load it holds, and the clock they give:
\* what that load told it and one more for each of them.
Stepped(r) ==
  {k \in DOMAIN Program : Program[k] = "advance" /\ Passed(r, k, 2) /\ k > holds[r].fields}

ClockOf(r) ==
  (IF holds[r].fields = 0 THEN 0 ELSE given[r].file[holds[r].fields].clock)
    + Cardinality(Stepped(r))

Clocked == \A r \in Ranks : status[r] # "raised" => clock[r] = ClockOf(r)

IInv == Coupled /\ Clocked

\* Every rank's program ends, whatever the other rank does.
SessionEnds == <>(\A r \in Ranks : ~Running(r))

\* "validates all ranks collectively before any state is restored": when
\* load_checkpoint raises on a rank, no rank has restored that checkpoint.
RestoreAllOrNone ==
  \A r \in Ranks :
    status[r] = "raised" /\ Call(r) = "load" /\ Step(r) = "restore" =>
      \A q \in Ranks : holds[q].fields # call[r]
=============================================================================
