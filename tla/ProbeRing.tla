------------------------------- MODULE ProbeRing -------------------------------
(***************************************************************************)
(* One _TorchProbeRing: a device ring of Capacity slots written by record, *)
(* drained by flush, cloned by checkpoint and overwritten in place by      *)
(* load_checkpoint.  A sample stands for one time and its field value,     *)
(* which always share a slot.                                              *)
(***************************************************************************)
EXTENDS Integers, Sequences

CONSTANTS
  Capacity,    \* spec.capacity
  Samples,     \* what a record can write
  NoSample,    \* the zeros a slot starts with
  MaxTotal     \* bound: samples taken in one behaviour

ASSUME CapacityAssumption == Capacity \in Nat \ {0}
ASSUME SampleAssumption == NoSample \notin Samples
ASSUME TotalAssumption == MaxTotal \in Nat

VARIABLES
  samples,       \* samples[slot]: ring contents
  write_count,   \* samples since the last flush
  total_count,   \* samples in all
  saved,         \* {} or the singleton of a checkpoint mapping
  batch          \* the TorchProbeSamples of the last flush

ringVars == <<samples, write_count, total_count, saved, batch>>

Slots == 0..(Capacity - 1)
Least(a, b) == IF a < b THEN a ELSE b

\* Variant of Slot with a plausible error: the cursor moves before the write.
SlotAhead(count) == (count + 1) % Capacity

Slot(count) == count % Capacity

\* Variant of Start with a plausible error: an overwritten ring is not rotated.
StartUnrotated(count) == 0

\* Where flush() starts reading, what it returns and what it counts as lost.
Start(count) == IF count > Capacity THEN count % Capacity ELSE 0

Drained(ring, count) ==
  [i \in 1..Least(count, Capacity) |-> ring[((i - 1) + Start(count)) % Capacity]]

Dropped(count) == IF count > Capacity THEN count - Capacity ELSE 0

RingInit ==
  /\ samples = [s \in Slots |-> NoSample]
  /\ write_count = 0
  /\ total_count = 0
  /\ saved = {}
  /\ batch = [samples |-> <<>>, dropped |-> 0, total |-> 0]

record ==
  /\ total_count < MaxTotal
  /\ \E s \in Samples : samples' = [samples EXCEPT ![Slot(write_count)] = s]
  /\ write_count' = write_count + 1
  /\ total_count' = total_count + 1
  /\ UNCHANGED <<saved, batch>>

\* The cursor is reset; total_count and the stale slots stay.
flush ==
  /\ batch' = [samples |-> Drained(samples, write_count),
               dropped |-> Dropped(write_count), total |-> total_count]
  /\ write_count' = 0
  /\ UNCHANGED <<samples, total_count, saved>>

checkpoint ==
  /\ saved' = {[samples |-> samples, write_count |-> write_count,
                total_count |-> total_count]}
  /\ UNCHANGED <<samples, write_count, total_count, batch>>

\* The saved tensors are copied into the live buffers.
load_checkpoint ==
  /\ \E c \in saved : /\ samples' = c.samples
                      /\ write_count' = c.write_count
                      /\ total_count' = c.total_count
  /\ UNCHANGED <<saved, batch>>

RingNext == record \/ flush \/ checkpoint \/ load_checkpoint

RingSpec == RingInit /\ [][RingNext]_ringVars

-----------------------------------------------------------------------------
Ring == [Slots -> Samples \cup {NoSample}]

\* The buffers and a saved copy of them are a ring and two counters.
RingTypeOK ==
  /\ samples \in Ring /\ write_count \in Nat /\ total_count \in Nat
  /\ saved \subseteq [samples : Ring, write_count : Nat, total_count : Nat]

\* A flush never returns a slot that no record has filled, whatever the mix of
\* overwrites, flushes and restored checkpoints that precedes it.
FlushesSamples == \A i \in DOMAIN batch.samples : batch.samples[i] \in Samples

\* Slots behind the cursor hold samples: what makes FlushesSamples inductive.
Written(ring, count) == \A s \in Slots : s < count => ring[s] \in Samples

\* The inductive invariant: a live or saved ring holds samples behind its cursor.
RingInvariant ==
  /\ RingTypeOK
  /\ Written(samples, write_count)
  /\ \A c \in saved : Written(c.samples, c.write_count)
  /\ FlushesSamples

Log == INSTANCE ProbeLog WITH
         pending <- Drained(samples, write_count),
         dropped <- Dropped(write_count),
         total <- total_count,
         saved <- {[pending |-> Drained(c.samples, c.write_count),
                    dropped |-> Dropped(c.write_count),
                    total |-> c.total_count] : c \in saved}
\* The ring implements the log: the chronological order of a flush, the count of
\* lost samples and what a restored checkpoint brings back.
LogSpec == Log!Spec
=============================================================================
