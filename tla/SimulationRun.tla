----------------------------- MODULE SimulationRun -----------------------------
(***************************************************************************)
(* One TorchSimulation and its process: the stages of a step, exceptions   *)
(* between any two of them, checkpoints in memory and on file, restores,   *)
(* CUDA graph capture with its rollback, and crashes.  The live buffers    *)
(* are counters: what matters is which updates they have seen.             *)
(***************************************************************************)
EXTENDS Naturals, Sequences

CONSTANTS
  MaxStep,     \* bound: updates of either family in one behaviour
  MaxFaults,   \* bound: exceptions in one behaviour
  Drift        \* error of the source_time in a checkpoint of an older runtime

ASSUME BoundAssumption == MaxStep \in Nat /\ MaxFaults \in Nat /\ Drift \in Nat

VARIABLES
  live,      \* fields, auxiliary solver, clocks and probe rings
  pc,        \* "idle", a stage of the step, or where load or capture is
  before,    \* live when the current or last call began
  outcome,   \* the last call that ended: "refused" load, "capture" or "other"
  source,    \* the checkpoint being restored
  kept,      \* {} or the checkpoint the application holds in memory
  file,      \* the checkpoint on disk, {} while there is none or a torn one
  graphs,    \* _cuda_graphs is not empty
  tainted,   \* a call raised after it changed live, and nothing mended it
  faults     \* exceptions so far

vars == <<live, pc, before, outcome, source, kept, file, graphs, tainted, faults>>

\* Updates of E, of H and of the auxiliary solver, the two clocks, and samples
\* in the probe rings, of which each half step records one.
Fresh == [e |-> 0, h |-> 0, aux |-> 0, step |-> 0, time |-> 0, ring |-> 0]

\* A checkpoint holds the buffers; fit is what is wrong with it for the
\* simulation that loads it, if anything.
Fits == {"good", "metadata", "state", "auxiliaries", "probes"}
Checkpoint == [live |-> live, tainted |-> tainted, fit |-> "good"]

Init ==
  /\ live = Fresh /\ before = Fresh
  /\ pc = "idle"
  /\ outcome = "other"
  /\ source = {} /\ kept = {}
  /\ file = {}
  /\ graphs = FALSE /\ tainted = FALSE /\ faults = 0

Idle == pc = "idle"

Fault == faults < MaxFaults /\ faults' = faults + 1

\* A call ends; what it began with is remembered only where a property asks.
Return(call) ==
  /\ pc' = "idle"
  /\ outcome' = call
  /\ before' = IF call \in {"refused", "capture"} THEN before ELSE live'
  /\ source' = {}

-----------------------------------------------------------------------------
\* Variant of Stages with a plausible error: the incident field lags a step.
StagesLate == <<"electric", "source_e", "record_e", "magnetic", "source_h",
                "record_h", "auxiliaries", "count">>

\* advance(): one step, stage by stage.
Stages == <<"electric", "source_e", "auxiliaries", "record_e",
            "magnetic", "source_h", "record_h", "count">>

Effect(stage, l) ==
  CASE stage = "electric"    -> [l EXCEPT !.e = @ + 1]
    [] stage = "auxiliaries" -> [l EXCEPT !.aux = @ + 1]
    [] stage = "record_e"    -> [l EXCEPT !.ring = @ + 1]
    [] stage = "magnetic"    -> [l EXCEPT !.h = @ + 1]
    [] stage = "record_h"    -> [l EXCEPT !.ring = @ + 1]
    [] stage = "count"       -> [l EXCEPT !.step = @ + 1, !.time = l.step + 1]
    [] OTHER                 -> l

BeginStep ==
  /\ Idle /\ live.e < MaxStep /\ live.h < MaxStep
  /\ pc' = Stages[1]
  /\ before' = live
  /\ UNCHANGED <<live, outcome, source, kept, file, graphs, tainted, faults>>

RunStage ==
  \E i \in DOMAIN Stages :
    /\ pc = Stages[i]
    /\ live' = Effect(pc, live)
    /\ IF i = Len(Stages) THEN Return("other")
       ELSE pc' = Stages[i + 1] /\ UNCHANGED <<before, outcome, source>>
    /\ UNCHANGED <<kept, file, graphs, tainted, faults>>

\* A stage raises, before or after its effect: the DM2 assertion follows the
\* electric update.  Nothing is undone.
FailStage ==
  \E i \in DOMAIN Stages :
    /\ pc = Stages[i]
    /\ Fault
    /\ live' \in {live, Effect(pc, live)}
    /\ Return("other")
    /\ tainted' = (tainted \/ live' # before)
    /\ UNCHANGED <<kept, file, graphs>>

-----------------------------------------------------------------------------
\* checkpoint() clones the buffers.
Keep ==
  /\ Idle
  /\ kept' = {Checkpoint}
  /\ UNCHANGED <<live, pc, before, outcome, source, file, graphs, tainted, faults>>

\* save_checkpoint() truncates the file, then writes it.
Save ==
  /\ Idle
  /\ file' = {}
  /\ pc' = "saving"
  /\ UNCHANGED <<live, before, outcome, source, kept, graphs, tainted, faults>>

Saved ==
  /\ pc = "saving"
  /\ file' = {Checkpoint}
  /\ live' = live /\ Return("other")
  /\ UNCHANGED <<kept, graphs, tainted, faults>>

\* Writing raises; the truncated file is what is left.
FailSave ==
  /\ pc = "saving"
  /\ Fault
  /\ live' = live /\ Return("other")
  /\ UNCHANGED <<kept, file, graphs, tainted>>

\* load_checkpoint() and load_checkpoint_file(), of a checkpoint that may have
\* been taken from another simulation or by an older runtime.  One that fails
\* half way counts as a fault.
BeginLoad ==
  /\ Idle
  /\ \E c \in kept \cup file, fit \in Fits, late \in {0, Drift} :
       /\ fit \in {"auxiliaries", "probes"} => faults < MaxFaults
       /\ source' = {[live |-> [c.live EXCEPT !.time = @ + late],
                       tainted |-> c.tainted, fit |-> fit]}
  /\ pc' = "validate"
  /\ before' = live
  /\ UNCHANGED <<live, outcome, kept, file, graphs, tainted, faults>>

\* Variant of Validate with a plausible error: the fields are copied as they are
\* found to fit, before the mismatch is met.
ValidateWhileCopying ==
  /\ pc = "validate"
  /\ \E c \in source :
       IF c.fit \in {"metadata", "state"}
       THEN /\ live' = IF c.fit = "state" THEN [live EXCEPT !.e = c.live.e] ELSE live
            /\ Return("refused")
       ELSE pc' = "copy" /\ UNCHANGED <<live, before, outcome, source>>
  /\ UNCHANGED <<kept, file, graphs, tainted, faults>>

\* Metadata, keys, shapes and dtypes of the state are checked before any copy.
Validate ==
  /\ pc = "validate"
  /\ live' = live
  /\ \E c \in source : IF c.fit \in {"metadata", "state"} THEN Return("refused")
                       ELSE pc' = "copy" /\ UNCHANGED <<before, outcome, source>>
  /\ UNCHANGED <<kept, file, graphs, tainted, faults>>

\* Fields, material state, step count and the clock as it was saved.
CopyState ==
  /\ pc = "copy"
  /\ \E c \in source :
       live' = [c.live EXCEPT !.aux = live.aux, !.ring = live.ring]
  /\ pc' = "copy_auxiliaries"
  /\ tainted' = TRUE
  /\ UNCHANGED <<before, outcome, source, kept, file, graphs, faults>>

\* Variant of CopyAuxiliaries with a plausible error: the saved clock is trusted.
CopyAuxiliariesRaw ==
  /\ pc = "copy_auxiliaries"
  /\ \E c \in source :
       IF c.fit = "auxiliaries" THEN Fault /\ live' = live /\ Return("other")
       ELSE /\ UNCHANGED faults
            /\ live' = [live EXCEPT !.aux = c.live.aux]
            /\ pc' = "copy_probes" /\ UNCHANGED <<before, outcome, source>>
  /\ UNCHANGED <<kept, file, graphs, tainted>>

\* An auxiliary solver validates its own part, after the fields were copied;
\* then source_time is derived from the restored step count.
CopyAuxiliaries ==
  /\ pc = "copy_auxiliaries"
  /\ \E c \in source :
       IF c.fit = "auxiliaries" THEN Fault /\ live' = live /\ Return("other")
       ELSE /\ UNCHANGED faults
            /\ live' = [live EXCEPT !.aux = c.live.aux, !.time = live.step]
            /\ pc' = "copy_probes" /\ UNCHANGED <<before, outcome, source>>
  /\ UNCHANGED <<kept, file, graphs, tainted>>

\* The probe rings come last and each is validated as it is copied: a mismatch
\* raises with some of them restored.
CopyProbes ==
  /\ pc = "copy_probes"
  /\ \E c \in source :
       IF c.fit = "probes"
       THEN /\ live' \in {live, [live EXCEPT !.ring = c.live.ring]}
            /\ Fault /\ UNCHANGED tainted
       ELSE /\ live' = [live EXCEPT !.ring = c.live.ring]
            /\ tainted' = c.tainted /\ UNCHANGED faults
  /\ Return("other")
  /\ UNCHANGED <<kept, file, graphs>>

-----------------------------------------------------------------------------
\* capture_cuda_graphs(): run the compute regions once, record them, restore.
BeginCapture ==
  /\ Idle /\ ~graphs
  /\ before' = live
  /\ source' = {Checkpoint}
  /\ pc' = "warm"
  /\ UNCHANGED <<live, outcome, kept, file, graphs, tainted, faults>>

\* Warming up runs both compute regions; an exception may come in between.
WarmUp ==
  /\ pc = "warm"
  /\ \/ /\ live' = Effect("magnetic", Effect("electric", live))
        /\ pc' = "record" /\ UNCHANGED faults
     \/ /\ live' \in {live, Effect("electric", live)}
        /\ pc' = "rollback" /\ Fault
  /\ UNCHANGED <<before, outcome, source, kept, file, graphs, tainted>>

RecordGraphs ==
  /\ pc = "record"
  /\ \/ pc' = "restore" /\ UNCHANGED faults
     \/ pc' = "rollback" /\ Fault
  /\ UNCHANGED <<live, before, outcome, source, kept, file, graphs, tainted>>

\* load_checkpoint() of the state captured just before always fits; its clock
\* becomes canonical, as in every load.
Canonical(l) == [l EXCEPT !.time = l.step]

RestoreCapture ==
  /\ pc = "restore"
  /\ \E c \in source :
       \/ /\ live' = Canonical(c.live)
          /\ graphs' = TRUE
          /\ Return("capture") /\ UNCHANGED faults
       \/ /\ live' \in {live, Canonical(c.live)}
          /\ pc' = "rollback" /\ Fault
          /\ UNCHANGED <<before, outcome, source, graphs>>
  /\ UNCHANGED <<kept, file, tainted>>

\* Variant of Rollback with a plausible error: only the graphs are dropped.
RollbackGraphsOnly ==
  /\ pc = "rollback"
  /\ live' = live /\ Return("capture")
  /\ UNCHANGED <<kept, file, graphs, tainted, faults>>

\* The exception of the capture is raised whether or not the rollback fails.
Rollback ==
  /\ pc = "rollback"
  /\ \/ /\ \E c \in source : live' = Canonical(c.live)
        /\ Return("capture") /\ UNCHANGED tainted
     \/ /\ live' = live
        /\ Return("other") /\ tainted' = TRUE
  /\ UNCHANGED <<kept, file, graphs, faults>>

\* The process dies; only the file is left.
Crash ==
  /\ live' = Fresh /\ before' = Fresh
  /\ pc' = "idle" /\ outcome' = "other"
  /\ source' = {} /\ kept' = {}
  /\ graphs' = FALSE /\ tainted' = FALSE
  /\ UNCHANGED <<file, faults>>

Next ==
  \/ BeginStep \/ RunStage \/ FailStage
  \/ Keep \/ Save \/ Saved \/ FailSave
  \/ BeginLoad \/ Validate \/ CopyState \/ CopyAuxiliaries \/ CopyProbes
  \/ BeginCapture \/ WarmUp \/ RecordGraphs \/ RestoreCapture \/ Rollback
  \/ Crash

Spec == Init /\ [][Next]_vars

-----------------------------------------------------------------------------
\* Fields, auxiliary solver, clocks and probe rings agree on the number of steps.
Sound(l) ==
  /\ l.e = l.step /\ l.h = l.step /\ l.aux = l.step
  /\ l.time = l.step
  /\ l.ring = 2 * l.step

\* Between calls that did not fail half way the buffers are in phase, across
\* restores, captures, older checkpoints and crashes.
InPhase == Idle /\ ~tainted => Sound(live)

\* The incident field is that of the main solver's time: the electric sources
\* read it before the auxiliary step, the magnetic ones after.
IncidentInPhase ==
  ~tainted => /\ pc = "source_e" => live.aux = live.step
              /\ pc = "source_h" => live.aux = live.step + 1

\* "Unsupported versions or a different execution plan fail without partial
\* restoration", and so does a state that does not fit.
RefusedLoadIntact == Idle /\ outcome = "refused" => live = before

\* Capturing graphs is invisible in a sound state, in success and, unless the
\* rollback itself fails, in failure.
CaptureTransparent ==
  Idle /\ outcome = "capture" /\ ~tainted => live = before

(***************************************************************************)
(* The inductive invariant says where each buffer is while a call runs.    *)
(***************************************************************************)
Buffers == [e : Nat, h : Nat, aux : Nat, step : Nat, time : Nat, ring : Nat]
Checkpoints == [live : Buffers, tainted : BOOLEAN, fit : Fits]

AtMostOne(held) == held \subseteq Checkpoints /\ \A c, d \in held : c = d

Loading == {"validate", "copy", "copy_auxiliaries", "copy_probes"}
Capturing == {"warm", "record", "restore", "rollback"}
StageNames == {Stages[i] : i \in DOMAIN Stages}

\* Buffers and checkpoints are what their names say, and at most one checkpoint
\* is held in each place.
TypeOK ==
  /\ live \in Buffers /\ before \in Buffers
  /\ pc \in {"idle", "saving"} \cup Loading \cup Capturing \cup StageNames
  /\ outcome \in {"refused", "capture", "other"}
  /\ AtMostOne(source) /\ AtMostOne(kept) /\ AtMostOne(file)
  /\ graphs \in BOOLEAN /\ tainted \in BOOLEAN /\ faults \in 0..MaxFaults

\* Buffers that stand before a stage of a step.
Before(stage, l) ==
  /\ l.time = l.step
  /\ l.e = IF stage = "electric" THEN l.step ELSE l.step + 1
  /\ l.aux = IF stage \in {"electric", "source_e", "auxiliaries"} THEN l.step ELSE l.step + 1
  /\ l.h = IF stage \in {"source_h", "record_h", "count"} THEN l.step + 1 ELSE l.step
  /\ l.ring = IF stage = "count" THEN 2 * l.step + 2
              ELSE IF stage \in {"magnetic", "source_h", "record_h"} THEN 2 * l.step + 1
              ELSE 2 * l.step

\* A step begun from sound buffers moves them one stage after the other.
Stepping ==
  pc \in StageNames /\ ~tainted => Sound(before) /\ Before(pc, live)

\* Outside a step, and until a load or a capture has touched them, the buffers
\* are sound; a load has not touched them before its first copy.
Untouched ==
  /\ pc \in {"idle", "saving", "validate", "copy", "warm"} /\ ~tainted => Sound(live)
  /\ pc = "validate" => live = before

\* A checkpoint not tainted holds sound buffers; only the clock of one being
\* loaded may have drifted.
Kept == \A c \in kept \cup file : ~c.tainted => Sound(c.live)
Fetched ==
  \A c \in source : ~c.tainted => Sound(Canonical(c.live))

\* What is copied so far agrees with the checkpoint; what is not counts as taint.
Copying ==
  pc \in {"copy_auxiliaries", "copy_probes"} =>
    /\ tainted
    /\ \A c \in source :
         /\ live.e = c.live.e /\ live.h = c.live.h /\ live.step = c.live.step
         /\ pc = "copy_probes" => live.aux = c.live.aux /\ live.time = live.step

\* A capture can return to what it found.
Returning ==
  pc \in Capturing => \A c \in source : c.live = before /\ c.tainted = tainted
                                      /\ (~tainted => Sound(before))

IInv ==
  /\ TypeOK
  /\ Stepping
  /\ Untouched
  /\ Kept
  /\ Fetched
  /\ Copying
  /\ Returning
  /\ RefusedLoadIntact
  /\ CaptureTransparent
=============================================================================
