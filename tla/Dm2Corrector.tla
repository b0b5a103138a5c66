----------------------------- MODULE Dm2Corrector -----------------------------
(***************************************************************************)
(* The Maxwell-Bloch corrector: TorchSimulation._update_dm2() solves every *)
(* DM2 bucket by one of three implementations of one fixed-point iteration *)
(* and then asserts that every cell converged.  "chunked" runs masked      *)
(* chunks, "functional" a while_loop over separate carries, "packed" a     *)
(* while_loop over one tensor in which iteration count and outcome share a *)
(* code.                                                                   *)
(*                                                                         *)
(* An iteration of a cell reads nothing of the other cells, so its values  *)
(* are named by the number of updates applied to it, 0 being the value     *)
(* before the step; when and how its error settles is chosen beforehand.   *)
(***************************************************************************)
EXTENDS Integers, Sequences

CONSTANTS
  Sizes,           \* Sizes[b]: target_count of bucket b
  MaxIterations,   \* DM2_MAX_ITERATIONS
  PerChunk,        \* DM2_ITERATIONS_PER_CHUNK
  PerCondition,    \* DM2_PACKED_ITERATIONS_PER_CONDITION
  MaxSteps         \* bound: electric half steps in one behaviour

ASSUME SizeAssumption == Sizes \in Seq(Nat \ {0}) /\ Sizes # <<>>
ASSUME IterationAssumption ==
  /\ MaxIterations \in Nat \ {0} /\ PerChunk \in Nat \ {0} /\ PerCondition \in Nat \ {0}
  /\ (MaxIterations \div PerChunk) * PerChunk = MaxIterations
ASSUME BoundAssumption == MaxSteps \in Nat

VARIABLES
  path,         \* the implementation in use
  fate,         \* fate[c]: the error of cell c turns small or nan at update at
  pc,           \* "idle", "prepare", "loop" or "check"
  bucket,       \* the bucket being solved
  turn,         \* iterations so far; since the last condition in "packed"
  applied,      \* applied[c]: updates in the working values e_new, u_new
  active,       \* masked paths: cells that still iterate
  invalid,      \* masked paths: cells whose error was nan
  count,        \* masked paths: iterations of each cell (chunked: in _iterations itself)
  code,         \* packed path: see Encode
  committed,    \* committed[c]: updates in the field and in u
  status,       \* _dm2_status: 0 converged, 1 invalid, 2 not converged
  iterations,   \* _dm2_iterations
  outcome,      \* "none" until the step's assertions ran, then "ok" or "raised"
  steps         \* half steps begun

work == <<turn, applied, active, invalid, count, code>>
results == <<committed, status, iterations>>
vars == <<path, fate, pc, bucket, work, results, outcome, steps>>

Buckets == 1..Len(Sizes)
Cells == UNION {{b} \X (1..Sizes[b]) : b \in Buckets}
Paths == {"chunked", "functional", "packed"}

\* A fate beyond the last iteration, of whatever kind, is no convergence.
Never == [at |-> MaxIterations + 1, kind |-> "small"]
Fates == [at : 1..MaxIterations, kind : {"small", "nan"}] \cup {Never}

Current(c) == c[1] = bucket

Init ==
  /\ path \in Paths
  /\ fate = [c \in Cells |-> Never]
  /\ pc = "idle" /\ bucket = 1 /\ turn = 0 /\ steps = 0
  /\ applied = [c \in Cells |-> 0]
  /\ active = [c \in Cells |-> FALSE] /\ invalid = active
  /\ count = [c \in Cells |-> 0] /\ code = count
  /\ committed = [c \in Cells |-> 0]
  /\ status = [c \in Cells |-> 0] /\ iterations = status
  /\ outcome = "none"

-----------------------------------------------------------------------------
\* The next electric half step, also after one that raised. Field and u are named
\* afresh: what the last step committed is now the value before the step.
BeginStep ==
  /\ pc = "idle" /\ steps < MaxSteps
  /\ steps' = steps + 1
  /\ fate' \in [Cells -> Fates]
  /\ committed' = [c \in Cells |-> 0]
  /\ bucket' = 1 /\ pc' = "prepare" /\ outcome' = "none"
  /\ UNCHANGED <<path, work, status, iterations>>

\* Variant of Prepare with a plausible error: the status of the last step stays.
PrepareKeepsStatus ==
  /\ pc = "prepare"
  /\ applied' = [c \in Cells |-> IF Current(c) THEN 0 ELSE applied[c]]
  /\ active' = [c \in Cells |-> Current(c) \/ active[c]]
  /\ invalid' = [c \in Cells |-> ~Current(c) /\ invalid[c]]
  /\ count' = [c \in Cells |-> IF Current(c) THEN 0 ELSE count[c]]
  /\ code' = [c \in Cells |-> IF Current(c) THEN 0 ELSE code[c]]
  /\ turn' = 0 /\ pc' = "loop"
  /\ UNCHANGED <<path, fate, bucket, results, outcome, steps>>

\* The working values start from the field; the chunked path also resets the
\* status in place, the others when they commit.
Prepare ==
  /\ pc = "prepare"
  /\ applied' = [c \in Cells |-> IF Current(c) THEN 0 ELSE applied[c]]
  /\ active' = [c \in Cells |-> Current(c) \/ active[c]]
  /\ invalid' = [c \in Cells |-> ~Current(c) /\ invalid[c]]
  /\ count' = [c \in Cells |-> IF Current(c) THEN 0 ELSE count[c]]
  /\ code' = [c \in Cells |-> IF Current(c) THEN 0 ELSE code[c]]
  /\ status' = [c \in Cells |-> IF Current(c) /\ path = "chunked" THEN 0 ELSE status[c]]
  /\ turn' = 0 /\ pc' = "loop"
  /\ UNCHANGED <<path, fate, bucket, committed, iterations, outcome, steps>>

Error(c) == IF applied[c] + 1 = fate[c].at THEN fate[c].kind ELSE "large"

\* One iteration under masks: only active cells move, settle or fail.
IterateMasked ==
  /\ LET moves(c) == Current(c) /\ active[c]
     IN  /\ applied' = [c \in Cells |-> IF moves(c) THEN applied[c] + 1 ELSE applied[c]]
         /\ count' = [c \in Cells |-> IF moves(c) THEN count[c] + 1 ELSE count[c]]
         /\ invalid' = [c \in Cells |-> invalid[c] \/ (moves(c) /\ Error(c) = "nan")]
         /\ active' = [c \in Cells |-> active[c] /\ (moves(c) => Error(c) = "large")]
  /\ turn' = turn + 1
  /\ UNCHANGED code

\* A code counts iterations while a cell is active, and ends as the negated
\* count, moved beyond every count when the error was not a number.
Offset == MaxIterations + 1

Encode(n, kind) == IF kind = "nan" THEN -(Offset + n) ELSE -n

\* Variant of Unsettled with a plausible error: exhausted cells keep the loop alive.
UnsettledForever(k) == k >= 0

Unsettled(k) == k >= 0 /\ k < MaxIterations

IteratePacked ==
  /\ LET moves(c) == Current(c) /\ code[c] >= 0 /\ code[c] < MaxIterations
     IN  /\ applied' = [c \in Cells |-> IF moves(c) THEN applied[c] + 1 ELSE applied[c]]
         /\ code' = [c \in Cells |->
              IF ~moves(c) THEN code[c]
              ELSE IF Error(c) = "large" THEN code[c] + 1
              ELSE Encode(code[c] + 1, Error(c))]
  /\ turn' = (turn + 1) % PerCondition
  /\ UNCHANGED <<active, invalid, count>>

\* Chunks run in full; a while_loop asks its condition before each body, and a
\* packed body is PerCondition iterations long.
Goes ==
  \/ path = "chunked" /\ turn < (MaxIterations \div PerChunk) * PerChunk
  \/ path = "functional" /\ turn < MaxIterations /\ \E c \in Cells : Current(c) /\ active[c]
  \/ path = "packed" /\ (turn # 0 \/ \E c \in Cells : Current(c) /\ Unsettled(code[c]))

Iterate ==
  /\ pc = "loop" /\ Goes
  /\ IF path = "packed" THEN IteratePacked ELSE IterateMasked
  /\ UNCHANGED <<path, fate, pc, bucket, results, outcome, steps>>

-----------------------------------------------------------------------------
\* Variant of CodeInvalid with a plausible error: the code of the last count is
\* taken for a failure.
CodeInvalidEarly(k) == k <= -MaxIterations

CodeInvalid(k) == k <= -Offset

CodeStatus(k) == IF k >= MaxIterations THEN 2 ELSE IF CodeInvalid(k) THEN 1 ELSE 0

CodeCount(k) == IF k >= MaxIterations THEN k ELSE IF CodeInvalid(k) THEN -k - Offset ELSE -k

\* Masks in the order they are filled; the chunked path fills the reset status.
MaskStatus(c) == IF active[c] THEN 2
                 ELSE IF invalid[c] THEN 1
                 ELSE IF path = "chunked" THEN status[c] ELSE 0

\* Converged cells commit, the others keep field and u of before the step.
Finalize ==
  /\ pc = "loop" /\ ~Goes
  /\ status' = [c \in Cells |->
       IF ~Current(c) THEN status[c]
       ELSE IF path = "packed" THEN CodeStatus(code[c]) ELSE MaskStatus(c)]
  /\ iterations' = [c \in Cells |->
       IF ~Current(c) THEN iterations[c]
       ELSE IF path = "packed" THEN CodeCount(code[c]) ELSE count[c]]
  /\ committed' = [c \in Cells |->
       IF Current(c) /\ (IF path = "packed" THEN CodeStatus(code[c]) = 0
                         ELSE ~invalid[c] /\ ~active[c])
       THEN applied[c] ELSE committed[c]]
  /\ IF bucket = Len(Sizes) THEN pc' = "check" /\ UNCHANGED bucket
                            ELSE pc' = "prepare" /\ bucket' = bucket + 1
  /\ UNCHANGED <<path, fate, work, outcome, steps>>

\* The assertions look at all buckets once all have committed.
Check ==
  /\ pc = "check"
  /\ outcome' = IF \E c \in Cells : status[c] \in {1, 2} THEN "raised" ELSE "ok"
  /\ pc' = "idle"
  /\ UNCHANGED <<path, fate, bucket, work, results, steps>>

Terminated == pc = "idle" /\ steps = MaxSteps /\ UNCHANGED vars

Next == BeginStep \/ Prepare \/ Iterate \/ Finalize \/ Check \/ Terminated

Spec == Init /\ [][Next]_vars

\* The device runs the loop it was given.
FairSpec == Spec /\ WF_vars(Prepare \/ Iterate \/ Finalize \/ Check)

-----------------------------------------------------------------------------
\* What the native corrector does with one cell, alone.
Converges(c) == fate[c].at <= MaxIterations /\ fate[c].kind = "small"
Fails(c) == fate[c].at <= MaxIterations /\ fate[c].kind = "nan"

\* A bucket of this step has committed.
Solved(c) == steps > 0 /\ (c[1] < bucket \/ pc \in {"check", "idle"})

\* Whichever implementation solved its bucket, and however long its neighbours
\* iterated, a cell holds the result of its own iteration: committed exactly
\* when it converged, with its own count and status.
CommitsOwnResult ==
  \A c \in Cells : Solved(c) =>
    /\ status[c] = IF Converges(c) THEN 0 ELSE IF Fails(c) THEN 1 ELSE 2
    /\ iterations[c] = IF Converges(c) \/ Fails(c) THEN fate[c].at ELSE MaxIterations
    /\ committed[c] = IF Converges(c) THEN fate[c].at ELSE 0

\* The step is accepted if and only if every cell of every bucket converged.
FailureReported ==
  outcome # "none" => (outcome = "ok" <=> \A c \in Cells : Converges(c))

\* No fate of any cell keeps the corrector from returning.
StepReturns == (pc # "idle") ~> (pc = "idle")

(***************************************************************************)
(* The inductive invariant.                                                *)
(***************************************************************************)
TypeOK ==
  /\ path \in Paths /\ fate \in [Cells -> Fates]
  /\ pc \in {"idle", "prepare", "loop", "check"}
  /\ bucket \in Buckets /\ turn \in Int /\ steps \in Nat
  /\ applied \in [Cells -> Nat] /\ count \in [Cells -> Nat]
  /\ active \in [Cells -> BOOLEAN] /\ invalid \in [Cells -> BOOLEAN]
  /\ code \in [Cells -> Int] /\ committed \in [Cells -> Nat]
  /\ status \in [Cells -> 0..2] /\ iterations \in [Cells -> Int]
  /\ outcome \in {"none", "ok", "raised"}

\* A cell of the current bucket either iterates with the others or stopped at
\* its own fate.
MaskedCell(c) ==
  /\ count[c] = applied[c]
  /\ IF active[c] THEN applied[c] = turn /\ turn < fate[c].at /\ ~invalid[c]
     ELSE /\ applied[c] = fate[c].at /\ fate[c].at <= MaxIterations
          /\ invalid[c] <=> fate[c].kind = "nan"

\* The packed code says the same: it is the count, or it encodes the fate.
PackedCell(c) ==
  /\ applied[c] <= MaxIterations
  /\ \/ code[c] = applied[c] /\ applied[c] < fate[c].at
     \/ applied[c] = fate[c].at /\ code[c] = Encode(fate[c].at, fate[c].kind)

IInv ==
  /\ TypeOK
  /\ pc = "loop" => \A c \in Cells : Current(c) =>
       /\ IF path = "packed" THEN PackedCell(c) ELSE MaskedCell(c) /\ turn <= MaxIterations
       /\ path = "chunked" => status[c] = 0
  /\ \A c \in Cells : ~Solved(c) => committed[c] = 0
  /\ pc = "check" => bucket = Len(Sizes)
  /\ pc # "idle" => outcome = "none" /\ steps > 0
  /\ CommitsOwnResult
  /\ FailureReported
=============================================================================
