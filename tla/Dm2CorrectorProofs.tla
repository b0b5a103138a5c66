-------------------------- MODULE Dm2CorrectorProofs --------------------------
(***************************************************************************)
(* For every list of buckets, every iteration limit and every packing of   *)
(* iterations, each implementation of the Maxwell-Bloch corrector commits  *)
(* to a cell the result of that cell's own iteration.                      *)
(***************************************************************************)
EXTENDS Dm2Corrector, TLAPS

\* What the rest uses of a fate: where it falls and of which kind it is.
LEMMA FateType ==
  \A f \in Fates : f.at \in 1..(MaxIterations + 1) /\ f.kind \in {"small", "nan"}
BY IterationAssumption DEF Fates, Never

LEMMA NeverIsFate == Never \in Fates
BY DEF Fates

LEMMA BucketBounds == Len(Sizes) \in Nat /\ 1 \in Buckets /\ Buckets = 1..Len(Sizes)
BY SizeAssumption DEF Buckets

LEMMA CellBucket == \A c \in Cells : c[1] \in Buckets
BY DEF Cells

-----------------------------------------------------------------------------
\* The corrector starts idle: nothing is solved.
LEMMA InitInv == Init => IInv
BY NeverIsFate, BucketBounds
   DEF Init, IInv, TypeOK, Solved, CommitsOwnResult, FailureReported

LEMMA BeginStepInv == IInv /\ BeginStep => IInv'
<1> SUFFICES ASSUME IInv, BeginStep PROVE IInv'
  OBVIOUS
<1> USE DEF IInv, BeginStep, work, results
<1>1. TypeOK'
  BY BucketBounds DEF TypeOK
<1>2. \A c \in Cells : ~Solved(c)'
  BY CellBucket, BucketBounds DEF Solved
<1>3. (\A c \in Cells : ~Solved(c) => committed[c] = 0)' /\ CommitsOwnResult'
  BY <1>2 DEF CommitsOwnResult
<1> QED
  BY <1>1, <1>3 DEF FailureReported, TypeOK

LEMMA PrepareInv == IInv /\ Prepare => IInv'
<1> SUFFICES ASSUME IInv, Prepare PROVE IInv'
  OBVIOUS
<1> USE DEF IInv, Prepare
<1>1. TypeOK'
  BY DEF TypeOK
<1>2. \A c \in Cells : Solved(c)' <=> Solved(c)
  BY DEF Solved
<1>3. ASSUME NEW c \in Cells, Current(c)
      PROVE  /\ IF path = "packed" THEN PackedCell(c)' ELSE MaskedCell(c)' /\ turn' <= MaxIterations
             /\ path = "chunked" => status'[c] = 0
  <2>1. fate[c].at >= 1 /\ fate[c].at \in Int
    BY FateType DEF TypeOK
  <2>2. /\ applied'[c] = 0 /\ count'[c] = 0 /\ code'[c] = 0 /\ turn' = 0 /\ fate' = fate
        /\ active'[c] /\ ~invalid'[c] /\ (path = "chunked" => status'[c] = 0)
    BY <1>3
  <2> QED
    BY <2>1, <2>2, IterationAssumption DEF PackedCell, MaskedCell
<1>4. \A c \in Cells : Solved(c) => status'[c] = status[c]
  <2>1. \A c \in Cells : Solved(c) => c[1] < bucket /\ c[1] \in Int
    BY CellBucket, BucketBounds DEF Solved
  <2>2. \A c \in Cells : Solved(c) => ~Current(c)
    BY <2>1 DEF Current, TypeOK, Buckets
  <2> QED
    BY <2>2
<1>5. CommitsOwnResult'
  BY <1>2, <1>4 DEF CommitsOwnResult, Converges, Fails
<1>6. (\A c \in Cells : ~Solved(c) => committed[c] = 0)'
  BY <1>2
<1> QED
  BY <1>1, <1>3, <1>5, <1>6 DEF FailureReported, Current

-----------------------------------------------------------------------------
\* A masked iteration moves the active cells and leaves the others at their fate.
LEMMA IterateMaskedCell ==
  ASSUME TypeOK, NEW c \in Cells, Current(c), MaskedCell(c), IterateMasked,
         fate' = fate, turn < MaxIterations
  PROVE  MaskedCell(c)'
<1>1. fate[c].at \in 1..(MaxIterations + 1) /\ fate[c].kind \in {"small", "nan"}
  BY FateType DEF TypeOK
<1>2. CASE ~active[c]
  BY <1>1, <1>2 DEF MaskedCell, IterateMasked, TypeOK
<1>3. CASE active[c]
  <2>1. /\ applied'[c] = applied[c] + 1 /\ count'[c] = count[c] + 1
        /\ turn' = turn + 1
        /\ active'[c] = (Error(c) = "large")
        /\ invalid'[c] = (invalid[c] \/ Error(c) = "nan")
    BY <1>3 DEF IterateMasked, TypeOK
  <2>2. CASE applied[c] + 1 = fate[c].at
    BY <1>1, <1>3, <2>1, <2>2, IterationAssumption DEF MaskedCell, Error, TypeOK
  <2>3. CASE applied[c] + 1 # fate[c].at
    BY <1>1, <1>3, <2>1, <2>3, IterationAssumption DEF MaskedCell, Error, TypeOK
  <2> QED
    BY <2>2, <2>3
<1> QED
  BY <1>2, <1>3

\* A packed iteration counts an unsettled cell, or replaces its count by its fate.
LEMMA IteratePackedCell ==
  ASSUME TypeOK, NEW c \in Cells, Current(c), PackedCell(c), IteratePacked, fate' = fate
  PROVE  PackedCell(c)'
<1>1. fate[c].at \in 1..(MaxIterations + 1) /\ fate[c].kind \in {"small", "nan"}
  BY FateType DEF TypeOK
<1>2. CASE ~(code[c] >= 0 /\ code[c] < MaxIterations)
  BY <1>2 DEF PackedCell, IteratePacked, TypeOK
<1>3. CASE code[c] >= 0 /\ code[c] < MaxIterations
  <2>1. code[c] = applied[c] /\ applied[c] < fate[c].at
    BY <1>1, <1>3, IterationAssumption DEF PackedCell, Encode, Offset, TypeOK
  <2>2. /\ applied'[c] = applied[c] + 1
        /\ code'[c] = IF Error(c) = "large" THEN code[c] + 1
                      ELSE Encode(code[c] + 1, Error(c))
    BY <1>3 DEF IteratePacked, TypeOK
  <2> QED
    BY <1>1, <1>3, <2>1, <2>2, IterationAssumption DEF PackedCell, Error, TypeOK
<1> QED
  BY <1>2, <1>3

LEMMA ChunksCoverLimit == (MaxIterations \div PerChunk) * PerChunk = MaxIterations
BY IterationAssumption

LEMMA IterateInv == IInv /\ Iterate => IInv'
<1> SUFFICES ASSUME IInv, Iterate PROVE IInv'
  OBVIOUS
<1>0. TypeOK /\ pc = "loop" /\ pc' = "loop" /\ fate' = fate /\ path' = path /\ bucket' = bucket
      /\ status' = status /\ committed' = committed /\ iterations' = iterations
      /\ outcome' = outcome /\ steps' = steps
  BY DEF IInv, Iterate, results
<1>1. TypeOK'
  <2>1. CASE path = "packed"
    <3>1. IteratePacked
      BY <2>1 DEF Iterate
    <3>2. turn' \in Int
      BY <3>1, IterationAssumption DEF IteratePacked, IInv, TypeOK
    <3>3. applied' \in [Cells -> Nat] /\ code' \in [Cells -> Int]
      BY <3>1, IterationAssumption DEF IteratePacked, IInv, TypeOK, Encode, Offset
    <3> QED
      BY <1>0, <3>1, <3>2, <3>3 DEF TypeOK, IteratePacked
  <2>2. CASE path # "packed"
    <3>1. IterateMasked
      BY <2>2 DEF Iterate
    <3> QED
      BY <1>0, <3>1 DEF TypeOK, IterateMasked
  <2> QED
    BY <2>1, <2>2
<1>2. \A c \in Cells : Solved(c)' <=> Solved(c)
  BY <1>0 DEF Solved
<1>3. ASSUME NEW c \in Cells, Current(c)
      PROVE  IF path = "packed" THEN PackedCell(c)' ELSE MaskedCell(c)' /\ turn' <= MaxIterations
  <2>1. CASE path = "packed"
    BY <1>0, <1>3, <2>1, IteratePackedCell DEF IInv, Iterate
  <2>2. CASE path # "packed"
    <3>1. turn < MaxIterations
      BY <1>0, <2>2, ChunksCoverLimit DEF Iterate, Goes, TypeOK, Paths
    <3>2. IterateMasked /\ MaskedCell(c)
      BY <1>0, <1>3, <2>2 DEF IInv, Iterate
    <3>3. turn' <= MaxIterations
      BY <1>0, <3>1, <3>2, IterationAssumption DEF IterateMasked, TypeOK
    <3> QED
      BY <1>0, <1>3, <2>2, <3>1, <3>2, <3>3, IterateMaskedCell
  <2> QED
    BY <2>1, <2>2
<1>4. CommitsOwnResult'
  BY <1>0, <1>2 DEF IInv, CommitsOwnResult, Converges, Fails
<1>5. \A c \in Cells : Current(c)' <=> Current(c)
  BY <1>0 DEF Current
<1> QED
  BY <1>0, <1>1, <1>2, <1>3, <1>4, <1>5 DEF IInv, FailureReported

-----------------------------------------------------------------------------
\* When the loop ends, masks and code say which fate the cell had.
LEMMA FinalizeCell ==
  ASSUME IInv, Finalize, NEW c \in Cells, Current(c)
  PROVE  /\ status'[c] = IF Converges(c) THEN 0 ELSE IF Fails(c) THEN 1 ELSE 2
         /\ iterations'[c] = IF Converges(c) \/ Fails(c) THEN fate[c].at ELSE MaxIterations
         /\ committed'[c] = IF Converges(c) THEN fate[c].at ELSE 0
<1>0. TypeOK /\ pc = "loop" /\ committed[c] = 0
  BY CellBucket, BucketBounds DEF IInv, Finalize, Solved, Current, TypeOK
<1>1. fate[c].at \in 1..(MaxIterations + 1) /\ fate[c].kind \in {"small", "nan"}
  BY <1>0, FateType DEF TypeOK
<1>2. CASE path = "packed"
  <2>1. PackedCell(c) /\ ~Unsettled(code[c])
    BY <1>0, <1>2 DEF IInv, Finalize, Goes
  <2>2. /\ status'[c] = CodeStatus(code[c]) /\ iterations'[c] = CodeCount(code[c])
        /\ committed'[c] = IF CodeStatus(code[c]) = 0 THEN applied[c] ELSE 0
    BY <1>0, <1>2 DEF Finalize, TypeOK
  <2>3. CASE code[c] = applied[c] /\ applied[c] < fate[c].at
    BY <1>0, <1>1, <2>1, <2>2, <2>3, IterationAssumption
       DEF PackedCell, Unsettled, CodeStatus, CodeCount, CodeInvalid, Offset,
           Converges, Fails, TypeOK
  <2>4. CASE applied[c] = fate[c].at /\ code[c] = Encode(fate[c].at, fate[c].kind)
    BY <1>0, <1>1, <2>1, <2>2, <2>4, IterationAssumption
       DEF PackedCell, Encode, CodeStatus, CodeCount, CodeInvalid, Offset,
           Converges, Fails, TypeOK
  <2> QED
    BY <2>1, <2>3, <2>4 DEF PackedCell
<1>3. CASE path # "packed"
  <2>1. MaskedCell(c) /\ turn <= MaxIterations /\ (path = "chunked" => status[c] = 0)
    BY <1>0, <1>3 DEF IInv
  <2>2. active[c] => turn = MaxIterations
    BY <1>0, <1>3, <2>1, ChunksCoverLimit, IterationAssumption
       DEF Finalize, Goes, TypeOK, Paths
  <2>3. /\ status'[c] = MaskStatus(c) /\ iterations'[c] = count[c]
        /\ committed'[c] = IF ~invalid[c] /\ ~active[c] THEN applied[c] ELSE 0
    BY <1>0, <1>3 DEF Finalize, TypeOK
  <2>4. MaskStatus(c) = IF active[c] THEN 2 ELSE IF invalid[c] THEN 1 ELSE 0
    BY <2>1 DEF MaskStatus
  <2>5. CASE active[c]
    BY <1>0, <1>1, <2>1, <2>2, <2>3, <2>4, <2>5, IterationAssumption
       DEF MaskedCell, Converges, Fails, TypeOK
  <2>6. CASE ~active[c]
    BY <1>0, <1>1, <2>1, <2>3, <2>4, <2>6, IterationAssumption
       DEF MaskedCell, Converges, Fails, TypeOK
  <2> QED
    BY <2>5, <2>6
<1> QED
  BY <1>2, <1>3

LEMMA FinalizeInv == IInv /\ Finalize => IInv'
<1> SUFFICES ASSUME IInv, Finalize PROVE IInv'
  OBVIOUS
<1>0. /\ TypeOK /\ pc = "loop" /\ fate' = fate /\ path' = path /\ outcome' = outcome
      /\ steps' = steps /\ steps > 0 /\ outcome = "none" /\ pc' \in {"prepare", "check"}
      /\ pc' = "check" => bucket = Len(Sizes) /\ bucket' = bucket
      /\ pc' = "prepare" => bucket # Len(Sizes) /\ bucket' = bucket + 1
  BY DEF IInv, Finalize
<1>1. ASSUME NEW c \in Cells, ~Current(c)
      PROVE  /\ status'[c] = status[c] /\ iterations'[c] = iterations[c]
             /\ committed'[c] = committed[c]
             /\ Solved(c)' <=> Solved(c)
  <2>1. c[1] \in Int /\ c[1] <= Len(Sizes) /\ c[1] # bucket
    BY <1>1, CellBucket, BucketBounds DEF Current
  <2>2. Solved(c)' <=> Solved(c)
    BY <1>0, <2>1, BucketBounds DEF Solved, TypeOK
  <2> QED
    BY <1>0, <1>1, <2>2 DEF Finalize, TypeOK
<1>2. ASSUME NEW c \in Cells, Current(c)
      PROVE  Solved(c)'
  BY <1>0, <1>2, CellBucket, BucketBounds DEF Solved, Current, TypeOK
<1>3. TypeOK'
  <2>1. bucket' \in Buckets
    BY <1>0, BucketBounds DEF TypeOK
  <2>2. ASSUME NEW c \in Cells
        PROVE  status'[c] \in 0..2 /\ iterations'[c] \in Int /\ committed'[c] \in Nat
    <3>1. fate[c].at \in Nat
      BY <1>0, FateType, IterationAssumption DEF TypeOK
    <3>2. CASE Current(c)
      BY <2>2, <3>1, <3>2, FinalizeCell, IterationAssumption
    <3>3. CASE ~Current(c)
      BY <1>0, <1>1, <2>2, <3>3 DEF TypeOK
    <3> QED
      BY <3>2, <3>3
  <2>3. /\ status' = [c \in Cells |-> status'[c]]
        /\ iterations' = [c \in Cells |-> iterations'[c]]
        /\ committed' = [c \in Cells |-> committed'[c]]
    BY DEF Finalize
  <2>4. status' \in [Cells -> 0..2] /\ iterations' \in [Cells -> Int]
        /\ committed' \in [Cells -> Nat]
    BY <2>2, <2>3
  <2> QED
    BY <1>0, <2>1, <2>4 DEF TypeOK, Finalize, work
<1>4. CommitsOwnResult'
  <2> SUFFICES ASSUME NEW c \in Cells, Solved(c)'
               PROVE  /\ status'[c] = IF Converges(c) THEN 0 ELSE IF Fails(c) THEN 1 ELSE 2
                      /\ iterations'[c] = IF Converges(c) \/ Fails(c)
                                          THEN fate[c].at ELSE MaxIterations
                      /\ committed'[c] = IF Converges(c) THEN fate[c].at ELSE 0
    BY <1>0 DEF CommitsOwnResult, Converges, Fails
  <2>1. CASE Current(c)
    BY <2>1, FinalizeCell
  <2>2. CASE ~Current(c)
    BY <1>1, <2>2 DEF IInv, CommitsOwnResult
  <2> QED
    BY <2>1, <2>2
<1>5. \A c \in Cells : ~Solved(c)' => committed'[c] = 0
  BY <1>1, <1>2 DEF IInv
<1> QED
  BY <1>0, <1>3, <1>4, <1>5 DEF IInv, FailureReported

\* The statuses of all cells decide the outcome.
LEMMA CheckInv == IInv /\ Check => IInv'
<1> SUFFICES ASSUME IInv, Check PROVE IInv'
  OBVIOUS
<1> USE DEF IInv, Check, work, results
<1>1. TypeOK'
  BY DEF TypeOK
<1>2. \A c \in Cells : Solved(c) /\ Solved(c)'
  BY DEF Solved
<1>3. CommitsOwnResult'
  BY <1>2 DEF CommitsOwnResult, Converges, Fails
<1>4. \A c \in Cells : (status[c] \in {1, 2}) <=> ~Converges(c)
  BY <1>2 DEF CommitsOwnResult
<1>5. FailureReported'
  BY <1>4 DEF FailureReported, Converges
<1> QED
  BY <1>1, <1>2, <1>3, <1>5

-----------------------------------------------------------------------------
\* The invariant of the three implementations (torch_dm2.py), for every
\* constant: a masked cell is at the iteration all active cells are at or at its
\* own fate, and a packed code is a count or encodes the fate it ended with.
THEOREM Inductive == Spec => []IInv
<1>1. IInv /\ [Next]_vars => IInv'
  <2> SUFFICES ASSUME IInv, [Next]_vars PROVE IInv'
    OBVIOUS
  <2>1. CASE Terminated \/ UNCHANGED vars
    <3>1. UNCHANGED vars
      BY <2>1 DEF Terminated
    <3> QED
      BY <3>1 DEF vars, work, results, IInv, TypeOK, Current, PackedCell, MaskedCell,
                  Solved, CommitsOwnResult, FailureReported, Converges, Fails
  <2> QED
    BY <2>1, BeginStepInv, PrepareInv, IterateInv, FinalizeInv, CheckInv DEF Next
<1> QED
  BY <1>1, InitInv, PTL DEF Spec

\* Masks and packed codes lose nothing: a solved cell has the status, the count
\* and the committed value of its own iteration, in each implementation.
THEOREM CommitsOwnResultSafe == Spec => []CommitsOwnResult
<1>1. IInv => CommitsOwnResult
  BY DEF IInv
<1> QED
  BY <1>1, Inductive, PTL

\* _update_dm2() accepts a step exactly when every cell of it converged.
THEOREM FailureReportedSafe == Spec => []FailureReported
<1>1. IInv => FailureReported
  BY DEF IInv
<1> QED
  BY <1>1, Inductive, PTL
=============================================================================
