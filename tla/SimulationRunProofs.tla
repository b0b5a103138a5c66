--------------------------- MODULE SimulationRunProofs ---------------------------
(***************************************************************************)
(* Proofs about SimulationRun for every bound on steps and exceptions and  *)
(* every drift of an old clock: IInv is inductive, and between calls the   *)
(* buffers are in phase, a refused load changed nothing and a capture left *)
(* no trace.                                                               *)
(***************************************************************************)
EXTENDS SimulationRun, ProbeRing, SequenceTheorems, TLAPS

\* The stages of a step, one by one.
LEMMA StageList ==
  /\ DOMAIN Stages = 1..8 /\ Len(Stages) = 8
  /\ Stages[1] = "electric" /\ Stages[2] = "source_e" /\ Stages[3] = "auxiliaries"
  /\ Stages[4] = "record_e" /\ Stages[5] = "magnetic" /\ Stages[6] = "source_h"
  /\ Stages[7] = "record_h" /\ Stages[8] = "count"
BY DEF Stages

LEMMA StageSet ==
  StageNames = {"electric", "source_e", "auxiliaries", "record_e",
                "magnetic", "source_h", "record_h", "count"}
<1>1. \A i \in 1..8 : i = 1 \/ i = 2 \/ i = 3 \/ i = 4 \/ i = 5 \/ i = 6 \/ i = 7 \/ i = 8
  OBVIOUS
<1>2. 1 \in 1..8 /\ 2 \in 1..8 /\ 3 \in 1..8 /\ 4 \in 1..8 /\ 5 \in 1..8 /\ 6 \in 1..8
      /\ 7 \in 1..8 /\ 8 \in 1..8
  OBVIOUS
<1>3. ASSUME NEW s \in StageNames
      PROVE  s \in {"electric", "source_e", "auxiliaries", "record_e",
                    "magnetic", "source_h", "record_h", "count"}
  <2>1. PICK i \in 1..8 : s = Stages[i]
    BY StageList DEF StageNames
  <2> QED BY <1>1, <2>1, StageList
<1>4. ASSUME NEW s \in {"electric", "source_e", "auxiliaries", "record_e",
                        "magnetic", "source_h", "record_h", "count"}
      PROVE  s \in StageNames
  BY <1>2, StageList DEF StageNames
<1> QED BY <1>3, <1>4

\* What each stage does to the buffers, all of them written out.
LEMMA EffectShape ==
  ASSUME NEW l \in Buffers, NEW stage, NEW m, m = Effect(stage, l)
  PROVE  /\ m \in Buffers
         /\ m.e = IF stage = "electric" THEN l.e + 1 ELSE l.e
         /\ m.aux = IF stage = "auxiliaries" THEN l.aux + 1 ELSE l.aux
         /\ m.h = IF stage = "magnetic" THEN l.h + 1 ELSE l.h
         /\ m.ring = IF stage \in {"record_e", "record_h"} THEN l.ring + 1 ELSE l.ring
         /\ m.step = IF stage = "count" THEN l.step + 1 ELSE l.step
         /\ m.time = IF stage = "count" THEN l.step + 1 ELSE l.time
<1>1. CASE stage = "electric"
  <2>1. m = [l EXCEPT !.e = @ + 1]
    BY <1>1 DEF Effect
  <2> QED BY <1>1, <2>1 DEF Buffers
<1>2. CASE stage = "auxiliaries"
  <2>1. m = [l EXCEPT !.aux = @ + 1]
    BY <1>2 DEF Effect
  <2> QED BY <1>2, <2>1 DEF Buffers
<1>3. CASE stage \in {"record_e", "record_h"}
  <2>1. m = [l EXCEPT !.ring = @ + 1]
    BY <1>3 DEF Effect
  <2> QED BY <1>3, <2>1 DEF Buffers
<1>4. CASE stage = "magnetic"
  <2>1. m = [l EXCEPT !.h = @ + 1]
    BY <1>4 DEF Effect
  <2> QED BY <1>4, <2>1 DEF Buffers
<1>5. CASE stage = "count"
  <2>1. m = [l EXCEPT !.step = @ + 1, !.time = l.step + 1]
    BY <1>5 DEF Effect
  <2>2. m = [e |-> l.e, h |-> l.h, aux |-> l.aux, step |-> l.step + 1,
             time |-> l.step + 1, ring |-> l.ring]
    BY <2>1 DEF Buffers
  <2> QED BY <1>5, <2>2 DEF Buffers
<1>6. CASE stage \notin {"electric", "auxiliaries", "record_e", "record_h", "magnetic", "count"}
  <2>1. m = l
    BY <1>6 DEF Effect
  <2>2. /\ stage # "electric" /\ stage # "auxiliaries" /\ stage # "magnetic" /\ stage # "count"
        /\ stage # "record_e" /\ stage # "record_h"
    BY <1>6
  <2> QED BY <2>1, <2>2
<1> QED BY <1>1, <1>2, <1>3, <1>4, <1>5, <1>6

\* A stage run on buffers that stand before it leaves them before the next, and
\* the last stage leaves them sound.
LEMMA StageEffect ==
  ASSUME NEW i \in DOMAIN Stages, NEW l \in Buffers, Before(Stages[i], l),
         NEW m, m = Effect(Stages[i], l)
  PROVE  /\ i < 8 => Before(Stages[i + 1], m)
         /\ i = 8 => Sound(m)
<1>1. i = 1 \/ i = 2 \/ i = 3 \/ i = 4 \/ i = 5 \/ i = 6 \/ i = 7 \/ i = 8
  BY StageList
<1>2. /\ m.e = IF Stages[i] = "electric" THEN l.e + 1 ELSE l.e
      /\ m.aux = IF Stages[i] = "auxiliaries" THEN l.aux + 1 ELSE l.aux
      /\ m.h = IF Stages[i] = "magnetic" THEN l.h + 1 ELSE l.h
      /\ m.ring = IF Stages[i] \in {"record_e", "record_h"} THEN l.ring + 1 ELSE l.ring
      /\ m.step = IF Stages[i] = "count" THEN l.step + 1 ELSE l.step
      /\ m.time = IF Stages[i] = "count" THEN l.step + 1 ELSE l.time
  BY EffectShape
<1>3. l.e \in Nat /\ l.h \in Nat /\ l.aux \in Nat /\ l.step \in Nat /\ l.time \in Nat /\ l.ring \in Nat
  BY DEF Buffers
<1>4. CASE i = 1
  BY <1>2, <1>3, <1>4, StageList DEF Before
<1>5. CASE i = 2
  BY <1>2, <1>3, <1>5, StageList DEF Before
<1>6. CASE i = 3
  BY <1>2, <1>3, <1>6, StageList DEF Before
<1>7. CASE i = 4
  BY <1>2, <1>3, <1>7, StageList DEF Before
<1>8. CASE i = 5
  BY <1>2, <1>3, <1>8, StageList DEF Before
<1>9. CASE i = 6
  BY <1>2, <1>3, <1>9, StageList DEF Before
<1>10. CASE i = 7
  BY <1>2, <1>3, <1>10, StageList DEF Before
<1>11. CASE i = 8
  BY <1>2, <1>3, <1>11, StageList DEF Before, Sound
<1> QED BY <1>1, <1>4, <1>5, <1>6, <1>7, <1>8, <1>9, <1>10, <1>11

\* A canonical clock changes nothing in sound buffers.
LEMMA CanonicalSound ==
  ASSUME NEW l \in Buffers
  PROVE  /\ Canonical(l) \in Buffers
         /\ Sound(l) => Canonical(l) = l
<1>1. Canonical(l) = [e |-> l.e, h |-> l.h, aux |-> l.aux, step |-> l.step, time |-> l.step, ring |-> l.ring]
  BY DEF Canonical, Buffers
<1>2. l = [e |-> l.e, h |-> l.h, aux |-> l.aux, step |-> l.step, time |-> l.time, ring |-> l.ring]
  BY DEF Buffers
<1> QED BY <1>1, <1>2 DEF Sound, Buffers

\* A checkpoint taken of the live buffers is one, alone in its place, and sound
\* unless the run is tainted.
LEMMA Taken ==
  ASSUME TypeOK
  PROVE  /\ AtMostOne({Checkpoint}) /\ AtMostOne({})
         /\ Checkpoint.live = live /\ Checkpoint.tainted = tainted
BY DEF TypeOK, Checkpoint, Checkpoints, Fits, AtMostOne

\* The buffers of a new process are sound.
LEMMA FreshSound == Fresh \in Buffers /\ Sound(Fresh)
BY DEF Fresh, Buffers, Sound

\* Which places of the program are which.
LEMMA Places ==
  /\ "idle" \notin StageNames /\ "saving" \notin StageNames
  /\ \A p \in Loading \cup Capturing : p \notin StageNames /\ p \notin {"idle", "saving"}
  /\ \A p \in Loading : p \notin Capturing
BY StageSet DEF Loading, Capturing

\* A step preserves the invariant, whether it ends or is cut off by an exception.
LEMMA StepIInv ==
  ASSUME IInv, BeginStep \/ RunStage \/ FailStage
  PROVE  IInv'
<1>1. TypeOK /\ Stepping /\ Untouched /\ Kept /\ Fetched
  BY DEF IInv
<1>2. CASE BeginStep
  <2>1. /\ pc = "idle" /\ pc' = "electric" /\ before' = live
        /\ UNCHANGED <<live, outcome, source, kept, file, graphs, tainted, faults>>
    BY <1>2, StageList DEF BeginStep, Idle
  <2>2. TypeOK'
    BY <1>1, <2>1, StageSet DEF TypeOK
  <2>3. Stepping'
    BY <1>1, <2>1 DEF Stepping, Untouched, Sound, Before
  <2>4. Kept' /\ Fetched'
    BY <1>1, <2>1 DEF Kept, Fetched
  <2>5. Untouched' /\ Copying' /\ Returning' /\ RefusedLoadIntact' /\ CaptureTransparent'
    BY <2>1 DEF Untouched, Copying, Returning, Capturing, RefusedLoadIntact,
         CaptureTransparent, Idle
  <2> QED BY <2>2, <2>3, <2>4, <2>5 DEF IInv
<1>3. CASE RunStage
  <2>1. PICK i \in DOMAIN Stages :
          /\ pc = Stages[i]
          /\ live' = Effect(pc, live)
          /\ IF i = Len(Stages) THEN Return("other")
             ELSE pc' = Stages[i + 1] /\ UNCHANGED <<before, outcome, source>>
          /\ UNCHANGED <<kept, file, graphs, tainted, faults>>
    BY <1>3 DEF RunStage
  <2>2. i \in 1..8 /\ Len(Stages) = 8 /\ pc \in StageNames
    BY <2>1, StageList DEF StageNames
  <2>3. live' \in Buffers
    BY <1>1, <2>1, EffectShape DEF TypeOK
  <2>4. Kept'
    BY <1>1, <2>1 DEF Kept
  <2>5. ~tainted => /\ Sound(before)
                    /\ i < 8 => Before(Stages[i + 1], live')
                    /\ i = 8 => Sound(live')
    BY <1>1, <2>1, <2>2, StageEffect DEF TypeOK, Stepping
  <2>6. CASE i = 8
    <3>1. pc' = "idle" /\ outcome' = "other" /\ before' = live' /\ source' = {}
      BY <2>1, <2>2, <2>6 DEF Return
    <3>2. TypeOK'
      BY <1>1, <2>1, <2>3, <3>1 DEF TypeOK, AtMostOne
    <3>3. Untouched'
      BY <2>1, <2>5, <2>6, <3>1 DEF Untouched
    <3>4. Stepping' /\ Fetched' /\ Copying' /\ Returning' /\ RefusedLoadIntact'
          /\ CaptureTransparent'
      BY <3>1, Places DEF Stepping, Fetched, Copying, Returning, Capturing, RefusedLoadIntact,
           CaptureTransparent, Idle
    <3> QED BY <2>4, <3>2, <3>3, <3>4 DEF IInv
  <2>7. CASE i # 8
    <3>1. /\ pc' = Stages[i + 1] /\ pc' \in StageNames
          /\ UNCHANGED <<before, outcome, source>>
      BY <2>1, <2>2, <2>7, StageList DEF StageNames
    <3>2. TypeOK'
      BY <1>1, <2>1, <2>3, <3>1 DEF TypeOK
    <3>3. Stepping'
      BY <2>1, <2>2, <2>5, <2>7, <3>1 DEF Stepping
    <3>4. Fetched'
      BY <1>1, <3>1 DEF Fetched
    <3>5. Untouched' /\ Copying' /\ Returning' /\ RefusedLoadIntact' /\ CaptureTransparent'
      BY <3>1, StageSet DEF Untouched, Copying, Returning, Capturing, RefusedLoadIntact,
           CaptureTransparent, Idle
    <3> QED BY <2>4, <3>2, <3>3, <3>4, <3>5 DEF IInv
  <2> QED BY <2>6, <2>7
<1>4. CASE FailStage
  <2>1. PICK i \in DOMAIN Stages :
          /\ pc = Stages[i]
          /\ Fault
          /\ live' \in {live, Effect(pc, live)}
          /\ Return("other")
          /\ tainted' = (tainted \/ live' # before)
          /\ UNCHANGED <<kept, file, graphs>>
    BY <1>4 DEF FailStage
  <2>2. pc \in StageNames
    BY <2>1 DEF StageNames
  <2>3. pc' = "idle" /\ outcome' = "other" /\ before' = live' /\ source' = {}
    BY <2>1 DEF Return
  <2>4. live' \in Buffers /\ tainted' \in BOOLEAN /\ faults' \in 0..MaxFaults
    <3>1. live' \in Buffers
      BY <1>1, <2>1, EffectShape DEF TypeOK
    <3>2. faults' \in 0..MaxFaults
      BY <1>1, <2>1, BoundAssumption DEF TypeOK, Fault
    <3> QED BY <2>1, <3>1, <3>2 DEF TypeOK
  <2>5. TypeOK'
    BY <1>1, <2>1, <2>3, <2>4 DEF TypeOK, AtMostOne
  <2>6. Untouched'
    <3>1. ~tainted' => Sound(live')
      BY <1>1, <2>1, <2>2 DEF Stepping
    <3> QED BY <2>3, <3>1 DEF Untouched
  <2>7. Kept'
    BY <1>1, <2>1 DEF Kept
  <2>8. Stepping' /\ Fetched' /\ Copying' /\ Returning' /\ RefusedLoadIntact'
        /\ CaptureTransparent'
    BY <2>3, Places DEF Stepping, Fetched, Copying, Returning, Capturing, RefusedLoadIntact,
         CaptureTransparent, Idle
  <2> QED BY <2>5, <2>6, <2>7, <2>8 DEF IInv
<1> QED BY <1>2, <1>3, <1>4

\* Keeping and saving a checkpoint, and a save that fails, preserve the invariant:
\* what is taken is sound unless the run is tainted.
LEMMA FileIInv ==
  ASSUME IInv, Keep \/ Save \/ Saved \/ FailSave
  PROVE  IInv'
<1>1. TypeOK /\ Untouched /\ Kept /\ Fetched /\ RefusedLoadIntact /\ CaptureTransparent
  BY DEF IInv
<1>2. CASE Keep
  <2>1. /\ pc = "idle" /\ pc' = "idle" /\ kept' = {Checkpoint}
        /\ UNCHANGED <<live, before, outcome, source, file, graphs, tainted, faults>>
    BY <1>2 DEF Keep, Idle
  <2>2. TypeOK'
    BY <1>1, <2>1, Taken DEF TypeOK
  <2>3. Kept'
    BY <1>1, <2>1, Taken DEF Kept, Untouched
  <2>4. Untouched' /\ Fetched' /\ RefusedLoadIntact' /\ CaptureTransparent'
    BY <1>1, <2>1 DEF Untouched, Fetched, RefusedLoadIntact, CaptureTransparent, Idle
  <2>5. Stepping' /\ Copying' /\ Returning'
    BY <2>1, Places DEF Stepping, Copying, Returning, Capturing
  <2> QED BY <2>2, <2>3, <2>4, <2>5 DEF IInv
<1>3. CASE Save
  <2>1. /\ pc = "idle" /\ pc' = "saving" /\ file' = {}
        /\ UNCHANGED <<live, before, outcome, source, kept, graphs, tainted, faults>>
    BY <1>3 DEF Save, Idle
  <2>2. TypeOK'
    BY <1>1, <2>1, Taken DEF TypeOK
  <2>3. Untouched' /\ Kept' /\ Fetched'
    BY <1>1, <2>1 DEF Untouched, Kept, Fetched
  <2>4. Stepping' /\ Copying' /\ Returning' /\ RefusedLoadIntact' /\ CaptureTransparent'
    BY <2>1, Places DEF Stepping, Copying, Returning, Capturing, RefusedLoadIntact,
         CaptureTransparent, Idle
  <2> QED BY <2>2, <2>3, <2>4 DEF IInv
<1>4. CASE Saved \/ FailSave
  <2>1. /\ pc = "saving" /\ pc' = "idle" /\ outcome' = "other" /\ before' = live
        /\ live' = live /\ source' = {} /\ file' \in {file, {Checkpoint}}
        /\ UNCHANGED <<kept, graphs, tainted>>
    BY <1>4 DEF Saved, FailSave, Return
  <2>2. faults' \in 0..MaxFaults
    BY <1>1, <1>4, BoundAssumption DEF Saved, FailSave, Fault, TypeOK
  <2>3. TypeOK'
    BY <1>1, <2>1, <2>2, Taken DEF TypeOK
  <2>4. Kept'
    BY <1>1, <2>1, Taken DEF Kept, Untouched
  <2>5. Untouched'
    BY <1>1, <2>1 DEF Untouched
  <2>6. Stepping' /\ Fetched' /\ Copying' /\ Returning' /\ RefusedLoadIntact'
        /\ CaptureTransparent'
    BY <2>1, Places DEF Stepping, Fetched, Copying, Returning, Capturing, RefusedLoadIntact,
         CaptureTransparent, Idle
  <2> QED BY <2>3, <2>4, <2>5, <2>6 DEF IInv
<1> QED BY <1>2, <1>3, <1>4

\* Every step of a load preserves the invariant: it is refused before it touched
\* the buffers, or taints the run until the last ring is copied.
LEMMA LoadIInv ==
  ASSUME IInv, BeginLoad \/ Validate \/ CopyState \/ CopyAuxiliaries \/ CopyProbes
  PROVE  IInv'
<1>1. TypeOK /\ Untouched /\ Kept /\ Fetched /\ Copying
  BY DEF IInv
<1>2. CASE BeginLoad
  <2>1. /\ pc = "idle" /\ pc' = "validate" /\ before' = live
        /\ UNCHANGED <<live, outcome, kept, file, graphs, tainted, faults>>
    BY <1>2 DEF BeginLoad, Idle
  <2>2. PICK c \in kept \cup file, fit \in Fits, late \in {0, Drift} :
          source' = {[live |-> [c.live EXCEPT !.time = @ + late],
                      tainted |-> c.tainted, fit |-> fit]}
    BY <1>2 DEF BeginLoad
  <2> DEFINE d == [live |-> [c.live EXCEPT !.time = @ + late], tainted |-> c.tainted, fit |-> fit]
  <2>3. c \in Checkpoints
    BY <1>1 DEF TypeOK, AtMostOne
  <2>4. [c.live EXCEPT !.time = @ + late] \in Buffers
    <3>1. c.live \in Buffers /\ late \in Nat
      BY <2>3, BoundAssumption DEF Checkpoints
    <3> QED BY <3>1 DEF Buffers
  <2>5. d \in Checkpoints
    BY <2>3, <2>4 DEF Checkpoints
  <2>6. TypeOK'
    BY <1>1, <2>1, <2>2, <2>5 DEF TypeOK, AtMostOne, Loading
  <2>7. Fetched'
    <3>1. SUFFICES ASSUME ~c.tainted
                   PROVE  Sound(Canonical(d.live))
      BY <2>2 DEF Fetched
    <3>2. Sound(c.live)
      BY <1>1, <3>1 DEF Kept
    <3>3. d.live = [c.live EXCEPT !.time = @ + late]
      OBVIOUS
    <3> HIDE DEF d
    <3>4. c.live \in Buffers
      BY <2>3 DEF Checkpoints
    <3> QED BY <3>2, <3>3, <3>4 DEF Canonical, Sound, Buffers
  <2>8. Untouched' /\ Kept'
    BY <1>1, <2>1 DEF Untouched, Kept
  <2>9. Stepping' /\ Copying' /\ Returning' /\ RefusedLoadIntact' /\ CaptureTransparent'
    BY <2>1, Places DEF Stepping, Loading, Copying, Returning, Capturing, RefusedLoadIntact,
         CaptureTransparent, Idle
  <2> QED BY <2>6, <2>7, <2>8, <2>9 DEF IInv
<1>3. CASE Validate
  <2>1. /\ pc = "validate" /\ live' = live
        /\ UNCHANGED <<kept, file, graphs, tainted, faults>>
    BY <1>3 DEF Validate
  <2>2. Kept'
    BY <1>1, <2>1 DEF Kept
  <2>3. CASE Return("refused")
    <3>1. pc' = "idle" /\ outcome' = "refused" /\ before' = before /\ source' = {}
      BY <2>3 DEF Return
    <3>2. TypeOK'
      BY <1>1, <2>1, <3>1, Taken DEF TypeOK
    <3>3. Untouched' /\ RefusedLoadIntact'
      BY <1>1, <2>1, <3>1 DEF Untouched, RefusedLoadIntact
    <3>4. Stepping' /\ Fetched' /\ Copying' /\ Returning' /\ CaptureTransparent'
      BY <3>1, Places DEF Stepping, Fetched, Copying, Returning, Capturing, CaptureTransparent
    <3> QED BY <2>2, <3>2, <3>3, <3>4 DEF IInv
  <2>4. CASE pc' = "copy" /\ UNCHANGED <<before, outcome, source>>
    <3>1. TypeOK'
      BY <1>1, <2>1, <2>4 DEF TypeOK, Loading
    <3>2. Untouched' /\ Fetched'
      BY <1>1, <2>1, <2>4 DEF Untouched, Fetched
    <3>3. Stepping' /\ Copying' /\ Returning' /\ RefusedLoadIntact' /\ CaptureTransparent'
      BY <2>4, Places DEF Stepping, Loading, Copying, Returning, Capturing, RefusedLoadIntact,
           CaptureTransparent, Idle
    <3> QED BY <2>2, <3>1, <3>2, <3>3 DEF IInv
  <2> QED BY <1>3, <2>3, <2>4 DEF Validate
<1>4. CASE CopyState
  <2>1. PICK c \in source : live' = [c.live EXCEPT !.aux = live.aux, !.ring = live.ring]
    BY <1>4 DEF CopyState
  <2>2. /\ pc' = "copy_auxiliaries" /\ tainted' = TRUE
        /\ UNCHANGED <<before, outcome, source, kept, file, graphs, faults>>
    BY <1>4 DEF CopyState
  <2>3. c.live \in Buffers /\ \A d \in source : d = c
    BY <1>1 DEF TypeOK, AtMostOne, Checkpoints
  <2>4. live' = [e |-> c.live.e, h |-> c.live.h, aux |-> live.aux, step |-> c.live.step,
                 time |-> c.live.time, ring |-> live.ring]
    BY <2>1, <2>3 DEF Buffers
  <2>5. live' \in Buffers
    BY <1>1, <2>3, <2>4 DEF TypeOK, Buffers
  <2>6. TypeOK'
    BY <1>1, <2>2, <2>5 DEF TypeOK, Loading
  <2>7. Copying'
    BY <2>2, <2>3, <2>4 DEF Copying
  <2>8. Kept' /\ Fetched'
    BY <1>1, <2>2 DEF Kept, Fetched
  <2>9. Stepping' /\ Untouched' /\ Returning' /\ RefusedLoadIntact' /\ CaptureTransparent'
    BY <2>2 DEF Stepping, Untouched, Returning, Capturing, RefusedLoadIntact,
         CaptureTransparent, Idle
  <2> QED BY <2>6, <2>7, <2>8, <2>9 DEF IInv
<1>5. CASE CopyAuxiliaries
  <2>1. pc = "copy_auxiliaries" /\ tainted /\ UNCHANGED <<kept, file, graphs, tainted>>
    BY <1>1, <1>5 DEF CopyAuxiliaries, Copying
  <2>2. PICK c \in source :
          IF c.fit = "auxiliaries" THEN Fault /\ live' = live /\ Return("other")
          ELSE /\ UNCHANGED faults
               /\ live' = [live EXCEPT !.aux = c.live.aux, !.time = live.step]
               /\ pc' = "copy_probes" /\ UNCHANGED <<before, outcome, source>>
    BY <1>5 DEF CopyAuxiliaries
  <2>3. Kept'
    BY <1>1, <2>1 DEF Kept
  <2>4. CASE Fault /\ live' = live /\ Return("other")
    <3>1. pc' = "idle" /\ outcome' = "other" /\ before' = live' /\ source' = {}
      BY <2>4 DEF Return
    <3>2. faults' \in 0..MaxFaults
      BY <1>1, <2>4, BoundAssumption DEF Fault, TypeOK
    <3>3. TypeOK'
      BY <1>1, <2>1, <2>4, <3>1, <3>2, Taken DEF TypeOK
    <3>4. Stepping' /\ Untouched' /\ Fetched' /\ Copying' /\ Returning' /\ RefusedLoadIntact'
          /\ CaptureTransparent'
      BY <2>1, <3>1, Places DEF Stepping, Untouched, Fetched, Copying, Returning, Capturing,
           RefusedLoadIntact, CaptureTransparent
    <3> QED BY <2>3, <3>3, <3>4 DEF IInv
  <2>5. CASE /\ UNCHANGED faults
             /\ live' = [live EXCEPT !.aux = c.live.aux, !.time = live.step]
             /\ pc' = "copy_probes" /\ UNCHANGED <<before, outcome, source>>
    <3>1. live \in Buffers /\ c.live \in Buffers /\ \A d \in source : d = c
      BY <1>1 DEF TypeOK, AtMostOne, Checkpoints
    <3>2. live' = [e |-> live.e, h |-> live.h, aux |-> c.live.aux, step |-> live.step,
                   time |-> live.step, ring |-> live.ring]
      BY <2>5, <3>1 DEF Buffers
    <3>3. live' \in Buffers
      BY <3>1, <3>2 DEF Buffers
    <3>4. TypeOK'
      BY <1>1, <2>1, <2>5, <3>3 DEF TypeOK, Loading
    <3>5. Copying'
      BY <1>1, <2>1, <2>5, <3>1, <3>2 DEF Copying
    <3>6. Fetched'
      BY <1>1, <2>5 DEF Fetched
    <3>7. Stepping' /\ Untouched' /\ Returning' /\ RefusedLoadIntact' /\ CaptureTransparent'
      BY <2>1, <2>5 DEF Stepping, Untouched, Returning, Capturing, RefusedLoadIntact,
           CaptureTransparent, Idle
    <3> QED BY <2>3, <3>4, <3>5, <3>6, <3>7 DEF IInv
  <2> QED BY <2>2, <2>4, <2>5
<1>6. CASE CopyProbes
  <2>1. /\ pc = "copy_probes" /\ tainted /\ UNCHANGED <<kept, file, graphs>>
        /\ pc' = "idle" /\ outcome' = "other" /\ before' = live' /\ source' = {}
    BY <1>1, <1>6 DEF CopyProbes, Copying, Return
  <2>2. PICK c \in source :
          IF c.fit = "probes"
          THEN /\ live' \in {live, [live EXCEPT !.ring = c.live.ring]}
               /\ Fault /\ UNCHANGED tainted
          ELSE /\ live' = [live EXCEPT !.ring = c.live.ring]
               /\ tainted' = c.tainted /\ UNCHANGED faults
    BY <1>6 DEF CopyProbes
  <2>3. live \in Buffers /\ c \in Checkpoints /\ c.live \in Buffers /\ c.tainted \in BOOLEAN
    BY <1>1 DEF TypeOK, AtMostOne, Checkpoints
  <2>4. [live EXCEPT !.ring = c.live.ring] =
          [e |-> live.e, h |-> live.h, aux |-> live.aux, step |-> live.step,
           time |-> live.time, ring |-> c.live.ring]
    BY <2>3 DEF Buffers
  <2>5. live' \in Buffers /\ tainted' \in BOOLEAN
    BY <2>1, <2>2, <2>3, <2>4 DEF Buffers
  <2>6. faults' \in 0..MaxFaults
    BY <1>1, <2>2, BoundAssumption DEF Fault, TypeOK
  <2>7. TypeOK'
    BY <1>1, <2>1, <2>5, <2>6, Taken DEF TypeOK
  <2>8. Untouched'
    <3>1. SUFFICES ASSUME ~tainted' PROVE Sound(live')
      BY <2>1 DEF Untouched
    <3>2. live' = [live EXCEPT !.ring = c.live.ring] /\ ~c.tainted
      BY <2>1, <2>2, <3>1
    <3>3. Sound(Canonical(c.live))
      BY <1>1, <3>2 DEF Fetched
    <3>4. /\ c.live.e = c.live.step /\ c.live.h = c.live.step /\ c.live.aux = c.live.step
          /\ c.live.ring = 2 * c.live.step
      BY <2>3, <3>3 DEF Canonical, Sound, Buffers
    <3>5. /\ live.e = c.live.e /\ live.h = c.live.h /\ live.step = c.live.step
          /\ live.aux = c.live.aux /\ live.time = live.step
      BY <1>1, <2>1 DEF Copying
    <3> QED BY <2>4, <3>2, <3>4, <3>5 DEF Sound
  <2>9. Kept'
    BY <1>1, <2>1 DEF Kept
  <2>10. Stepping' /\ Fetched' /\ Copying' /\ Returning' /\ RefusedLoadIntact'
         /\ CaptureTransparent'
    BY <2>1, Places DEF Stepping, Fetched, Copying, Returning, Capturing, RefusedLoadIntact,
         CaptureTransparent
  <2> QED BY <2>7, <2>8, <2>9, <2>10 DEF IInv
<1> QED BY <1>2, <1>3, <1>4, <1>5, <1>6

\* Every step of a capture preserves the invariant: what it began with is kept
\* aside until the buffers are as they were, or the run is tainted.
LEMMA CaptureIInv ==
  ASSUME IInv, BeginCapture \/ WarmUp \/ RecordGraphs \/ RestoreCapture \/ Rollback
  PROVE  IInv'
<1>1. TypeOK /\ Untouched /\ Kept /\ Fetched /\ Returning
  BY DEF IInv
<1>2. CASE BeginCapture
  <2>1. /\ pc = "idle" /\ pc' = "warm" /\ before' = live /\ source' = {Checkpoint}
        /\ UNCHANGED <<live, outcome, kept, file, graphs, tainted, faults>>
    BY <1>2 DEF BeginCapture, Idle
  <2>2. TypeOK'
    BY <1>1, <2>1, Taken DEF TypeOK, Capturing
  <2>3. Untouched' /\ Kept'
    BY <1>1, <2>1 DEF Untouched, Kept
  <2>4. Returning'
    BY <1>1, <2>1, Taken DEF Returning, Untouched
  <2>5. Fetched'
    <3>1. ~tainted => Canonical(live) = live /\ Sound(live)
      BY <1>1, <2>1, CanonicalSound DEF Untouched, TypeOK
    <3> QED BY <1>1, <2>1, <3>1, Taken DEF Fetched
  <2>6. Stepping' /\ Copying' /\ RefusedLoadIntact' /\ CaptureTransparent'
    BY <2>1, Places DEF Stepping, Copying, Capturing, RefusedLoadIntact, CaptureTransparent, Idle
  <2> QED BY <2>2, <2>3, <2>4, <2>5, <2>6 DEF IInv
<1>3. ASSUME pc \in Capturing, pc' \in {"record", "restore", "rollback"}, live' \in Buffers,
             faults' \in 0..MaxFaults, UNCHANGED <<before, outcome, source, kept, file, tainted>>,
             graphs' \in BOOLEAN
      PROVE  IInv'
  <2>1. TypeOK'
    BY <1>1, <1>3 DEF TypeOK, Capturing
  <2>2. Kept' /\ Fetched'
    BY <1>1, <1>3 DEF Kept, Fetched
  <2>3. Returning'
    BY <1>1, <1>3 DEF Returning
  <2>4. Stepping' /\ Untouched' /\ Copying' /\ RefusedLoadIntact' /\ CaptureTransparent'
    BY <1>3, Places DEF Stepping, Untouched, Copying, Capturing, RefusedLoadIntact,
         CaptureTransparent, Idle
  <2> QED BY <2>1, <2>2, <2>3, <2>4 DEF IInv
<1>4. ASSUME pc \in Capturing, NEW c \in source, live' = Canonical(c.live), Return("capture"),
             graphs' \in BOOLEAN, UNCHANGED <<kept, file, tainted, faults>>
      PROVE  IInv'
  <2>1. pc' = "idle" /\ outcome' = "capture" /\ before' = before /\ source' = {}
    BY <1>4 DEF Return
  <2>2. c.live \in Buffers /\ c.live = before /\ (~tainted => Sound(before))
    BY <1>1, <1>4 DEF TypeOK, AtMostOne, Checkpoints, Returning
  <2>3. live' \in Buffers /\ (~tainted => live' = before)
    BY <1>4, <2>2, CanonicalSound
  <2>4. TypeOK'
    BY <1>1, <1>4, <2>1, <2>3, Taken DEF TypeOK
  <2>5. Untouched' /\ CaptureTransparent'
    BY <1>4, <2>1, <2>2, <2>3 DEF Untouched, CaptureTransparent
  <2>6. Kept'
    BY <1>1, <1>4 DEF Kept
  <2>7. Stepping' /\ Fetched' /\ Copying' /\ Returning' /\ RefusedLoadIntact'
    BY <2>1, Places DEF Stepping, Fetched, Copying, Returning, Capturing, RefusedLoadIntact
  <2> QED BY <2>4, <2>5, <2>6, <2>7 DEF IInv
<1>5. ASSUME Fault
      PROVE  faults' \in 0..MaxFaults
  BY <1>1, <1>5, BoundAssumption DEF Fault, TypeOK
<1>6. CASE WarmUp
  <2>1. /\ pc \in Capturing /\ pc' \in {"record", "rollback"} /\ graphs' = graphs
        /\ UNCHANGED <<before, outcome, source, kept, file, tainted>>
        /\ faults' = faults \/ Fault
    BY <1>6 DEF WarmUp, Capturing
  <2>2. \/ live' = Effect("magnetic", Effect("electric", live))
        \/ live' \in {live, Effect("electric", live)}
    BY <1>6 DEF WarmUp
  <2>3. live' \in Buffers
    BY <1>1, <2>2, EffectShape DEF TypeOK
  <2> QED BY <1>1, <1>3, <1>5, <2>1, <2>3 DEF TypeOK
<1>7. CASE RecordGraphs
  <2>1. /\ pc \in Capturing /\ pc' \in {"restore", "rollback"} /\ graphs' = graphs /\ live' = live
        /\ UNCHANGED <<before, outcome, source, kept, file, tainted>>
        /\ faults' = faults \/ Fault
    BY <1>7 DEF RecordGraphs, Capturing
  <2> QED BY <1>1, <1>3, <1>5, <2>1 DEF TypeOK
<1>8. CASE RestoreCapture
  <2>1. pc \in Capturing /\ UNCHANGED <<kept, file, tainted>>
    BY <1>8 DEF RestoreCapture, Capturing
  <2>2. PICK c \in source :
          \/ /\ live' = Canonical(c.live)
             /\ graphs' = TRUE
             /\ Return("capture") /\ UNCHANGED faults
          \/ /\ live' \in {live, Canonical(c.live)}
             /\ pc' = "rollback" /\ Fault
             /\ UNCHANGED <<before, outcome, source, graphs>>
    BY <1>8 DEF RestoreCapture
  <2>3. live' \in Buffers
    BY <1>1, <2>2, CanonicalSound DEF TypeOK, AtMostOne, Checkpoints
  <2>4. CASE pc' = "rollback"
    BY <1>1, <1>3, <1>5, <2>1, <2>2, <2>3, <2>4 DEF TypeOK, Return
  <2>5. CASE pc' # "rollback"
    BY <1>4, <2>1, <2>2, <2>5
  <2> QED BY <2>4, <2>5
<1>9. CASE Rollback
  <2>1. pc \in Capturing /\ UNCHANGED <<kept, file, graphs, faults>>
    BY <1>9 DEF Rollback, Capturing
  <2>2. CASE (\E c \in source : live' = Canonical(c.live)) /\ Return("capture") /\ tainted' = tainted
    <3>1. PICK c \in source : live' = Canonical(c.live)
      BY <2>2
    <3> QED BY <1>1, <1>4, <2>1, <2>2, <3>1 DEF TypeOK
  <2>3. CASE live' = live /\ Return("other") /\ tainted' = TRUE
    <3>1. pc' = "idle" /\ outcome' = "other" /\ before' = live' /\ source' = {}
      BY <2>3 DEF Return
    <3>2. TypeOK'
      BY <1>1, <2>1, <2>3, <3>1, Taken DEF TypeOK
    <3>3. Kept'
      BY <1>1, <2>1 DEF Kept
    <3>4. Stepping' /\ Untouched' /\ Fetched' /\ Copying' /\ Returning' /\ RefusedLoadIntact'
          /\ CaptureTransparent'
      BY <2>3, <3>1, Places DEF Stepping, Untouched, Fetched, Copying, Returning, Capturing,
           RefusedLoadIntact, CaptureTransparent
    <3> QED BY <3>2, <3>3, <3>4 DEF IInv
  <2> QED BY <1>9, <2>2, <2>3 DEF Rollback
<1> QED BY <1>2, <1>6, <1>7, <1>8, <1>9

\* The buffers of a new process are sound, and a process that dies leaves one.
LEMMA InitIInv == Init => IInv
<1> SUFFICES ASSUME Init PROVE IInv
  OBVIOUS
<1>1. TypeOK
  <2>1. 0 \in 0..MaxFaults
    BY BoundAssumption
  <2> QED BY <2>1, FreshSound DEF Init, TypeOK, AtMostOne
<1>2. Untouched
  BY FreshSound DEF Init, Untouched
<1>3. Stepping /\ Kept /\ Fetched /\ Copying /\ Returning /\ RefusedLoadIntact /\ CaptureTransparent
  BY Places DEF Init, Stepping, Kept, Fetched, Copying, Returning, Capturing,
       RefusedLoadIntact, CaptureTransparent
<1> QED BY <1>1, <1>2, <1>3 DEF IInv

LEMMA CrashIInv == IInv /\ Crash => IInv'
<1> SUFFICES ASSUME IInv, Crash PROVE IInv'
  OBVIOUS
<1>1. TypeOK'
  BY FreshSound DEF IInv, Crash, TypeOK, AtMostOne
<1>2. Untouched'
  BY FreshSound DEF Crash, Untouched
<1>3. Kept'
  BY DEF IInv, Kept, Crash
<1>4. Stepping' /\ Fetched' /\ Copying' /\ Returning' /\ RefusedLoadIntact' /\ CaptureTransparent'
  BY Places DEF Crash, Stepping, Fetched, Copying, Returning, Capturing, RefusedLoadIntact,
       CaptureTransparent
<1> QED BY <1>1, <1>2, <1>3, <1>4 DEF IInv

\* Every step of the run preserves the invariant.
LEMMA NextIInv == IInv /\ [Next]_vars => IInv'
<1> SUFFICES ASSUME IInv, [Next]_vars PROVE IInv'
  OBVIOUS
<1>1. CASE UNCHANGED vars
  BY <1>1 DEF vars, IInv, TypeOK, Stepping, Untouched, Kept, Fetched, Copying, Returning,
       RefusedLoadIntact, CaptureTransparent, Idle
<1> QED BY <1>1, StepIInv, FileIInv, LoadIInv, CaptureIInv, CrashIInv DEF Next

\* Types, what each call has touched, and what the checkpoints hold, for every
\* bound and every drift of an old clock.
THEOREM Inductive == Spec => []IInv
BY InitIInv, NextIInv, PTL DEF Spec

\* Between calls of a run that is not tainted the fields, the auxiliary solver,
\* the clocks and the rings of TorchSimulation are in phase.
THEOREM InPhaseHolds == Spec => []InPhase
<1>1. IInv => InPhase
  BY DEF IInv, Untouched, InPhase, Idle
<1> QED BY <1>1, Inductive, PTL

\* advance() samples the incident field at the time of its main solver.
THEOREM IncidentInPhaseHolds == Spec => []IncidentInPhase
<1>1. IInv => IncidentInPhase
  BY StageSet DEF IInv, Stepping, Before, IncidentInPhase
<1> QED BY <1>1, Inductive, PTL

\* A load_checkpoint() refused by its metadata or its state changed no buffer.
THEOREM RefusedLoadIntactHolds == Spec => []RefusedLoadIntact
<1>1. IInv => RefusedLoadIntact
  BY DEF IInv
<1> QED BY <1>1, Inductive, PTL

\* capture_cuda_graphs() leaves sound buffers as it found them.
THEOREM CaptureTransparentHolds == Spec => []CaptureTransparent
<1>1. IInv => CaptureTransparent
  BY DEF IInv
<1> QED BY <1>1, Inductive, PTL
-----------------------------------------------------------------------------
(***************************************************************************)
(* The probe ring, for every capacity and set of samples.                  *)
(***************************************************************************)
\* The remainder by the capacity is a slot.
LEMMA SlotInRange ==
  ASSUME NEW k \in Nat
  PROVE  k % Capacity \in Slots
BY CapacityAssumption DEF Slots

\* A count that has not reached the capacity is its own slot.
LEMMA SlotBelow ==
  ASSUME NEW k \in Slots
  PROVE  k % Capacity = k
BY CapacityAssumption DEF Slots

\* A count is its quotient and remainder by the capacity.
LEMMA SlotQuotient ==
  ASSUME NEW k \in Nat
  PROVE  /\ k \div Capacity \in Nat
         /\ k = Capacity * (k \div Capacity) + (k % Capacity)
BY CapacityAssumption

\* Of two decompositions of one count, neither has the smaller quotient.
LEMMA SlotNotLess ==
  ASSUME NEW q \in Nat, NEW r \in Slots, NEW d \in Nat, NEW m \in Slots,
         Capacity * q + r = Capacity * d + m
  PROVE  ~(d < q)
<1> SUFFICES ASSUME d < q
             PROVE  FALSE
  OBVIOUS
<1>1. PICK e \in Nat : q = d + 1 + e
  <2>1. q - d - 1 \in Nat /\ q = d + 1 + (q - d - 1)
    OBVIOUS
  <2> QED
    BY <2>1
<1>2. Capacity * q = Capacity * d + Capacity + Capacity * e
  BY <1>1, CapacityAssumption
<1>3. Capacity * e \in Nat /\ Capacity * d \in Nat
  BY CapacityAssumption
<1> QED
  BY <1>2, <1>3, CapacityAssumption DEF Slots

\* So the slot of a count is the remainder of any decomposition of it.
LEMMA SlotUnique ==
  ASSUME NEW q \in Nat, NEW r \in Slots
  PROVE  (Capacity * q + r) % Capacity = r
<1>1. PICK k \in Nat : k = Capacity * q + r
  BY CapacityAssumption DEF Slots
<1>2. PICK d \in Nat, m \in Slots : d = k \div Capacity /\ m = k % Capacity
  BY SlotQuotient, SlotInRange
<1>3. Capacity * q + r = Capacity * d + m
  BY <1>1, <1>2, SlotQuotient
<1>4. d = q
  BY <1>3, SlotNotLess
<1> QED
  BY <1>1, <1>2, <1>3, <1>4, CapacityAssumption DEF Slots

\* The cursor walks the slots in order and starts over after the last one.
LEMMA SlotNext ==
  ASSUME NEW k \in Nat
  PROVE  (k + 1) % Capacity =
           IF k % Capacity = Capacity - 1 THEN 0 ELSE (k % Capacity) + 1
<1>1. PICK d \in Nat, m \in Slots : m = k % Capacity /\ k = Capacity * d + m
  BY SlotQuotient, SlotInRange
<1>2. CASE m = Capacity - 1
  <2>1. k + 1 = Capacity * (d + 1) + 0
    BY <1>1, <1>2, CapacityAssumption DEF Slots
  <2> QED
    BY <1>1, <1>2, <2>1, SlotUnique, CapacityAssumption DEF Slots
<1>3. CASE m # Capacity - 1
  <2>1. k + 1 = Capacity * d + (m + 1) /\ m + 1 \in Slots
    BY <1>1, <1>3, CapacityAssumption DEF Slots
  <2> QED
    BY <1>1, <1>3, <2>1, SlotUnique
<1> QED
  BY <1>2, <1>3

\* The slot reached from slot a by b more records.
LEMMA SlotWrap ==
  ASSUME NEW a \in Slots, NEW b \in Slots
  PROVE  (b + a) % Capacity = IF a + b < Capacity THEN a + b ELSE a + b - Capacity
<1>1. CASE a + b < Capacity
  <2>1. a + b \in Slots /\ b + a = a + b
    BY <1>1, CapacityAssumption DEF Slots
  <2> QED
    BY <1>1, <2>1, SlotBelow
<1>2. CASE ~(a + b < Capacity)
  <2>1. b + a = Capacity * 1 + (a + b - Capacity) /\ a + b - Capacity \in Slots
    BY <1>2, CapacityAssumption DEF Slots
  <2> QED
    BY <1>2, <2>1, SlotUnique
<1> QED
  BY <1>1, <1>2

-----------------------------------------------------------------------------
\* A ring that has not wrapped is drained from slot 0.
LEMMA DrainedShort ==
  ASSUME NEW ring \in Ring, NEW count \in 0..Capacity
  PROVE  Drained(ring, count) = [i \in 1..count |-> ring[i - 1]]
<1>1. Least(count, Capacity) = count /\ Start(count) = 0
  BY CapacityAssumption DEF Least, Start
<1>2. ASSUME NEW i \in 1..count
      PROVE  ((i - 1) + 0) % Capacity = i - 1
  <2>1. i - 1 \in Slots /\ (i - 1) + 0 = i - 1
    BY CapacityAssumption DEF Slots
  <2> QED
    BY <2>1, SlotBelow
<1> QED
  BY <1>1, <1>2 DEF Drained

\* A full ring is drained from the slot the next record overwrites.
LEMMA DrainedFull ==
  ASSUME NEW ring \in Ring, NEW count \in Nat, count >= Capacity
  PROVE  LET p == count % Capacity
         IN  /\ Drained(ring, count) = [i \in 1..Capacity |->
                  ring[IF p + i <= Capacity THEN p + (i - 1) ELSE p + (i - 1) - Capacity]]
             /\ p \in Slots
<1> DEFINE p == count % Capacity
<1>1. p \in Slots
  BY SlotInRange
<1>2. Least(count, Capacity) = Capacity
  BY CapacityAssumption DEF Least
<1>3. Start(count) = p
  <2>1. CASE count = Capacity
    <3>1. Capacity = Capacity * 1 + 0 /\ 0 \in Slots
      BY CapacityAssumption DEF Slots
    <3> QED
      BY <2>1, <3>1, SlotUnique DEF Start
  <2> QED
    BY <2>1, CapacityAssumption DEF Start
<1>4. ASSUME NEW i \in 1..Capacity
      PROVE  ((i - 1) + p) % Capacity =
               IF p + i <= Capacity THEN p + (i - 1) ELSE p + (i - 1) - Capacity
  <2> HIDE DEF p
  <2>1. i - 1 \in Slots /\ p \in Int
    BY <1>1, CapacityAssumption DEF Slots
  <2>2. ((i - 1) + p) % Capacity =
           IF p + (i - 1) < Capacity THEN p + (i - 1) ELSE p + (i - 1) - Capacity
    BY <1>1, <2>1, SlotWrap
  <2>3. p + i <= Capacity <=> p + (i - 1) < Capacity
    BY <2>1, CapacityAssumption
  <2> QED
    BY <2>2, <2>3
<1> QED
  BY <1>1, <1>2, <1>3, <1>4 DEF Drained

\* What a flush would return changes by a record as the log's does: a ring
\* with room appends the sample,
LEMMA RecordWithRoom ==
  ASSUME NEW ring \in Ring, NEW count \in Nat, NEW s \in Samples,
         NEW next \in Ring, next = [ring EXCEPT ![Slot(count)] = s],
         count < Capacity
  PROVE  /\ Len(Drained(ring, count)) < Capacity
         /\ Drained(next, count + 1) = Append(Drained(ring, count), s)
         /\ Dropped(count + 1) = Dropped(count)
<1>1. count \in Slots /\ count \in 0..Capacity /\ count + 1 \in 0..Capacity
  BY CapacityAssumption DEF Slots
<1>2. Slot(count) = count
  BY <1>1, SlotBelow DEF Slot
<1>3. Drained(ring, count) = [i \in 1..count |-> ring[i - 1]]
  BY <1>1, DrainedShort
<1>4. Drained(next, count + 1) = [i \in 1..(count + 1) |-> next[i - 1]]
  BY <1>1, DrainedShort
<1>5. \A i \in 1..(count + 1) : i - 1 \in Slots
  BY CapacityAssumption DEF Slots
<1>6. \A i \in 1..(count + 1) : next[i - 1] = IF i = count + 1 THEN s ELSE ring[i - 1]
  BY <1>1, <1>2, <1>5 DEF Ring
<1>7. \A i \in 1..count : ring[i - 1] \in Samples \cup {NoSample}
  <2>1. \A i \in 1..count : i \in 1..(count + 1)
    OBVIOUS
  <2> QED
    BY <1>5, <2>1 DEF Ring
<1>8. Drained(ring, count) \in Seq(Samples \cup {NoSample}) /\ Len(Drained(ring, count)) = count
  BY <1>3, <1>7
<1>9. /\ Drained(next, count + 1) \in Seq(Samples \cup {NoSample})
      /\ Len(Drained(next, count + 1)) = count + 1
  <2>1. \A i \in 1..(count + 1) : next[i - 1] \in Samples \cup {NoSample}
    BY <1>5 DEF Ring
  <2> QED
    BY <1>4, <2>1
<1>10. Drained(next, count + 1) = Append(Drained(ring, count), s)
  <2>1. \A i \in 1..(count + 1) :
           Append(Drained(ring, count), s)[i] = IF i = count + 1 THEN s ELSE ring[i - 1]
    BY <1>3, <1>8, AppendProperties
  <2>2. \A i \in 1..(count + 1) :
           Drained(next, count + 1)[i] = Append(Drained(ring, count), s)[i]
    BY <1>4, <1>6, <2>1
  <2>3. /\ Append(Drained(ring, count), s) \in Seq(Samples \cup {NoSample})
        /\ Len(Append(Drained(ring, count), s)) = count + 1
    BY <1>8, AppendProperties
  <2> QED
    BY <1>9, <2>2, <2>3, SeqEqual
<1>11. count < Capacity /\ ~(count > Capacity) /\ ~(count + 1 > Capacity)
  BY CapacityAssumption
<1> QED
  BY <1>8, <1>10, <1>11 DEF Dropped

\* and a full ring drops its oldest sample for it.
LEMMA RecordWhenFull ==
  ASSUME NEW ring \in Ring, NEW count \in Nat, NEW s \in Samples,
         NEW next \in Ring, next = [ring EXCEPT ![Slot(count)] = s],
         count >= Capacity
  PROVE  /\ Len(Drained(ring, count)) = Capacity
         /\ Drained(next, count + 1) = Append(Tail(Drained(ring, count)), s)
         /\ Dropped(count + 1) = Dropped(count) + 1
<1> DEFINE from(k, i) == IF k + i <= Capacity THEN k + (i - 1) ELSE k + (i - 1) - Capacity
<1>1. PICK p \in Slots : p = count % Capacity
  BY SlotInRange
<1>2. PICK q \in Slots : q = (count + 1) % Capacity
  BY SlotInRange
<1>3. q = IF p = Capacity - 1 THEN 0 ELSE p + 1
  BY <1>1, <1>2, SlotNext
<1>4. Drained(ring, count) = [i \in 1..Capacity |-> ring[from(p, i)]]
  BY <1>1, DrainedFull
<1>5. Drained(next, count + 1) = [i \in 1..Capacity |-> next[from(q, i)]]
  <2>1. count + 1 \in Nat /\ count + 1 >= Capacity
    BY CapacityAssumption
  <2>2. Drained(next, count + 1) =
          [i \in 1..Capacity |-> next[from((count + 1) % Capacity, i)]]
    BY <2>1, DrainedFull
  <2> QED
    BY <1>2, <2>2
<1>6. \A i \in 1..Capacity : from(p, i) \in Slots /\ from(q, i) \in Slots
  BY CapacityAssumption DEF Slots
<1>7. \A i \in 1..Capacity : IF i = Capacity THEN from(q, i) = p
                             ELSE from(q, i) = from(p, i + 1) /\ from(q, i) # p
  BY <1>3, CapacityAssumption DEF Slots
<1> HIDE DEF from
<1>8. \A i \in 1..Capacity :
         next[from(q, i)] = IF i = Capacity THEN s ELSE ring[from(p, i + 1)]
  BY <1>1, <1>6, <1>7 DEF Ring, Slot
<1>9. \A i \in 1..Capacity : ring[from(p, i)] \in Samples \cup {NoSample}
  BY <1>6 DEF Ring
<1>10. /\ Drained(ring, count) \in Seq(Samples \cup {NoSample})
       /\ Len(Drained(ring, count)) = Capacity
  BY <1>4, <1>9, CapacityAssumption
<1>11. /\ Tail(Drained(ring, count)) \in Seq(Samples \cup {NoSample})
       /\ Len(Tail(Drained(ring, count))) = Capacity - 1
       /\ \A i \in 1..(Capacity - 1) :
            Tail(Drained(ring, count))[i] = ring[from(p, i + 1)]
  <2>1. Drained(ring, count) # <<>>
    BY <1>10, CapacityAssumption
  <2>2. \A i \in 1..(Capacity - 1) : i + 1 \in 1..Capacity
    BY CapacityAssumption
  <2>3. /\ Tail(Drained(ring, count)) \in Seq(Samples \cup {NoSample})
        /\ Len(Tail(Drained(ring, count))) = Len(Drained(ring, count)) - 1
        /\ \A i \in 1..Len(Tail(Drained(ring, count))) :
             Tail(Drained(ring, count))[i] = Drained(ring, count)[i + 1]
    BY <1>10, <2>1, HeadTailProperties
  <2>4. Len(Tail(Drained(ring, count))) = Capacity - 1
    BY <1>10, <2>3
  <2>5. \A i \in 1..(Capacity - 1) :
           Tail(Drained(ring, count))[i] = ring[from(p, i + 1)]
    BY <1>4, <2>2, <2>3, <2>4
  <2> QED
    BY <2>3, <2>4, <2>5
<1>12. Drained(next, count + 1) = Append(Tail(Drained(ring, count)), s)
  <2> DEFINE appended == Append(Tail(Drained(ring, count)), s)
  <2>1. \A i \in 1..Capacity : next[from(q, i)] \in Samples \cup {NoSample}
    BY <1>6 DEF Ring
  <2>2. /\ Drained(next, count + 1) \in Seq(Samples \cup {NoSample})
        /\ Len(Drained(next, count + 1)) = Capacity
    BY <1>5, <2>1, CapacityAssumption
  <2>3. /\ appended \in Seq(Samples \cup {NoSample})
        /\ Len(appended) = Capacity
        /\ \A i \in 1..Capacity :
             appended[i] = IF i = Capacity THEN s ELSE ring[from(p, i + 1)]
    BY <1>11, AppendProperties, CapacityAssumption
  <2>4. \A i \in 1..Capacity : Drained(next, count + 1)[i] = appended[i]
    BY <1>5, <1>8, <2>3
  <2> QED
    BY <2>2, <2>3, <2>4, SeqEqual
<1>13. Dropped(count + 1) = Dropped(count) + 1
  BY CapacityAssumption DEF Dropped
<1> QED
  BY <1>10, <1>12, <1>13

-----------------------------------------------------------------------------
\* The initial ring satisfies the invariant.
LEMMA RingInitInvariant == RingInit => RingInvariant
BY DEF RingInit, RingInvariant, RingTypeOK, Ring, Written, FlushesSamples, Slots

\* A record fills the slot the cursor leaves behind.
LEMMA RecordWrites ==
  ASSUME NEW ring \in Ring, NEW count \in Nat, NEW s \in Samples, Written(ring, count)
  PROVE  /\ [ring EXCEPT ![Slot(count)] = s] \in Ring
         /\ Written([ring EXCEPT ![Slot(count)] = s], count + 1)
<1>1. Slot(count) \in Slots
  BY SlotInRange DEF Slot
<1>2. ASSUME NEW k \in Slots, k < count + 1, k # Slot(count)
      PROVE  k < count
  <2>1. count \in Slots => Slot(count) = count
    BY SlotBelow DEF Slot
  <2> QED
    BY <1>2, <2>1, CapacityAssumption DEF Slots
<1> QED
  BY <1>1, <1>2 DEF Ring, Written

\* A flush reads behind the cursor only.
LEMMA DrainsWritten ==
  ASSUME NEW ring \in Ring, NEW count \in Nat, Written(ring, count)
  PROVE  \A i \in DOMAIN Drained(ring, count) : Drained(ring, count)[i] \in Samples
<1>1. CASE count < Capacity
  <2>1. count \in 0..Capacity
    BY <1>1, CapacityAssumption
  <2>2. Drained(ring, count) = [i \in 1..count |-> ring[i - 1]]
    BY <2>1, DrainedShort
  <2>3. \A i \in 1..count : i - 1 \in Slots /\ i - 1 < count
    BY <1>1, CapacityAssumption DEF Slots
  <2> QED
    BY <2>2, <2>3 DEF Written
<1>2. CASE count >= Capacity
  <2> DEFINE at(i) == ((i - 1) + Start(count)) % Capacity
  <2>1. \A i \in 1..Least(count, Capacity) : at(i) \in Slots
    <3>1. Start(count) \in Nat
      BY SlotInRange DEF Start, Slots
    <3>2. Least(count, Capacity) \in Nat
      BY CapacityAssumption DEF Least
    <3>3. \A i \in 1..Least(count, Capacity) : (i - 1) + Start(count) \in Nat
      BY <3>1, <3>2
    <3> QED
      BY <3>3, SlotInRange
  <2>2. \A k \in Slots : k < count
    BY <1>2, CapacityAssumption DEF Slots
  <2> QED
    BY <2>1, <2>2 DEF Drained, Written
<1> QED
  BY <1>1, <1>2, CapacityAssumption

\* Every operation of the ring preserves the invariant.
LEMMA RingNextInvariant == RingInvariant /\ [RingNext]_ringVars => RingInvariant'
<1> SUFFICES ASSUME RingInvariant, [RingNext]_ringVars
             PROVE  RingInvariant'
  OBVIOUS
<1> USE DEF RingInvariant, RingTypeOK
<1>1. CASE record
  <2>1. PICK s \in Samples : samples' = [samples EXCEPT ![Slot(write_count)] = s]
    BY <1>1 DEF record
  <2>2. samples' \in Ring /\ Written(samples', write_count')
    BY <1>1, <2>1, RecordWrites DEF record
  <2> QED
    BY <1>1, <2>2 DEF record, FlushesSamples
<1>2. CASE flush
  <2>1. FlushesSamples'
    BY <1>2, DrainsWritten DEF flush, FlushesSamples
  <2>2. Written(samples', write_count')
    BY <1>2 DEF flush, Written, Slots
  <2> QED
    BY <1>2, <2>1, <2>2 DEF flush
<1>3. CASE checkpoint
  BY <1>3 DEF checkpoint, FlushesSamples
<1>4. CASE load_checkpoint
  BY <1>4 DEF load_checkpoint, FlushesSamples
<1>5. CASE UNCHANGED ringVars
  BY <1>5 DEF ringVars, FlushesSamples
<1> QED
  BY <1>1, <1>2, <1>3, <1>4, <1>5 DEF RingNext

\* The invariant holds in every reachable state of a ring of any capacity.
THEOREM RingInductive == RingSpec => []RingInvariant
BY RingInitInvariant, RingNextInvariant, PTL DEF RingSpec

\* flush() never hands a slot to the host that no record() filled.
THEOREM FlushesSamplesHolds == RingSpec => []FlushesSamples
<1>1. RingInvariant => FlushesSamples
  BY DEF RingInvariant
<1> QED
  BY <1>1, RingInductive, PTL

\* A _TorchProbeRing of any capacity behaves as the abstract log:
\* flushes are chronological, complete up to the counted losses, and a
\* restored checkpoint brings back exactly the log it was taken from.
THEOREM ImplementsLog == RingSpec => LogSpec
<1>1. RingInit => Log!Init
  <2> SUFFICES ASSUME RingInit
               PROVE  Log!Init
    OBVIOUS
  <2>1. Least(0, Capacity) = 0 /\ Dropped(0) = 0
    BY CapacityAssumption DEF Least, Dropped
  <2>2. Drained(samples, 0) = <<>>
    BY <2>1 DEF Drained
  <2> QED
    BY <2>1, <2>2 DEF RingInit, Log!Init, Log!EmptyBatch
<1>2. RingInvariant /\ [RingNext]_ringVars => [Log!Next]_(Log!vars)
  <2> SUFFICES ASSUME RingInvariant, [RingNext]_ringVars
               PROVE  [Log!Next]_(Log!vars)
    OBVIOUS
  <2>1. CASE record
    <3>1. PICK s \in Samples : samples' = [samples EXCEPT ![Slot(write_count)] = s]
      BY <2>1 DEF record
    <3>2. /\ samples \in Ring /\ write_count \in Nat /\ samples' \in Ring
          /\ write_count' = write_count + 1 /\ total_count' = total_count + 1
          /\ saved' = saved /\ batch' = batch
      BY <2>1, <3>1, RecordWrites DEF record, RingInvariant, RingTypeOK
    <3> DEFINE old == Drained(samples, write_count)
    <3>3. IF Len(old) < Capacity
          THEN /\ Drained(samples', write_count + 1) = Append(old, s)
               /\ Dropped(write_count + 1) = Dropped(write_count)
          ELSE /\ Drained(samples', write_count + 1) = Append(Tail(old), s)
               /\ Dropped(write_count + 1) = Dropped(write_count) + 1
      <4>1. CASE write_count < Capacity
        BY <3>1, <3>2, <4>1, RecordWithRoom
      <4>2. CASE write_count >= Capacity
        <5>1. /\ Len(old) = Capacity
              /\ Drained(samples', write_count + 1) = Append(Tail(old), s)
              /\ Dropped(write_count + 1) = Dropped(write_count) + 1
          BY <3>1, <3>2, <4>2, RecordWhenFull
        <5>2. ~(Capacity < Capacity)
          BY CapacityAssumption
        <5> QED
          BY <5>1, <5>2
      <4> QED
        BY <3>2, <4>1, <4>2, CapacityAssumption
    <3>4. Log!Record
      BY <3>1, <3>2, <3>3 DEF Log!Record
    <3> QED
      BY <3>4 DEF Log!Next
  <2>2. CASE flush
    <3>1. Drained(samples, 0) = <<>> /\ Dropped(0) = 0
      BY CapacityAssumption DEF Drained, Least, Dropped
    <3> QED
      BY <2>2, <3>1 DEF flush, Log!Next, Log!Flush
  <2>3. CASE checkpoint
    BY <2>3 DEF checkpoint, Log!Next, Log!Save
  <2>4. CASE load_checkpoint
    BY <2>4 DEF load_checkpoint, Log!Next, Log!Restore
  <2>5. CASE UNCHANGED ringVars
    BY <2>5 DEF ringVars, Log!vars
  <2> QED
    BY <2>1, <2>2, <2>3, <2>4, <2>5 DEF RingNext
<1> QED
  BY <1>1, <1>2, RingInductive, PTL DEF RingSpec, LogSpec, Log!Spec
==================================================================================
