------------------------------- MODULE ProbeLog -------------------------------
(***************************************************************************)
(* What a probe promises: a flush returns, in the order they were taken,   *)
(* the last Capacity samples since the previous flush, how many older ones *)
(* were lost and how many samples were ever taken.  A checkpoint is the    *)
(* whole log; restoring it takes back every sample and flush since.        *)
(***************************************************************************)
EXTENDS Integers, Sequences

CONSTANTS Capacity, Samples

VARIABLES
  pending,   \* the samples a flush would return, oldest first
  dropped,   \* how many older ones were overwritten since the last flush
  total,     \* how many samples were taken in all
  saved,     \* {} or the singleton of a checkpoint
  batch      \* the batch the last flush returned

vars == <<pending, dropped, total, saved, batch>>

EmptyBatch == [samples |-> <<>>, dropped |-> 0, total |-> 0]

Init ==
  /\ pending = <<>>
  /\ dropped = 0
  /\ total = 0
  /\ saved = {}
  /\ batch = EmptyBatch

Record ==
  \E s \in Samples :
    /\ IF Len(pending) < Capacity
       THEN pending' = Append(pending, s) /\ UNCHANGED dropped
       ELSE pending' = Append(Tail(pending), s) /\ dropped' = dropped + 1
    /\ total' = total + 1
    /\ UNCHANGED <<saved, batch>>

Flush ==
  /\ batch' = [samples |-> pending, dropped |-> dropped, total |-> total]
  /\ pending' = <<>>
  /\ dropped' = 0
  /\ UNCHANGED <<total, saved>>

Save ==
  /\ saved' = {[pending |-> pending, dropped |-> dropped, total |-> total]}
  /\ UNCHANGED <<pending, dropped, total, batch>>

Restore ==
  \E c \in saved :
    /\ pending' = c.pending
    /\ dropped' = c.dropped
    /\ total' = c.total
    /\ UNCHANGED <<saved, batch>>

Next == Record \/ Flush \/ Save \/ Restore

Spec == Init /\ [][Next]_vars
=============================================================================
