------------------------ MODULE DistributedSessionProofs ------------------------
(***************************************************************************)
(* Proofs about DistributedSession for every program, runtime, decomposition *)
(* and checkpoints: IInv is inductive, and its parts give the safety properties *)
(* of the session.  The steps of the ranks are of five shapes: waiting,    *)
(* raising, going a step further alone, leaving a refused load, and        *)
(* meeting; the lemmas say of each which steps are passed by it.           *)
(***************************************************************************)
EXTENDS DistributedSession, FiniteSetTheorems, TLAPS

\* The scripts of Calls, by name.
LEMMA Scripts ==
  /\ Script("construct") = <<"check", "init", "contract", "precise", "weights", "select",
                             "identity", "agree", "build">>
  /\ Script("capture") = <<"barrier", "record", "barrier">>
  /\ Script("load") = <<"reduce", "accept", "restore">>
  /\ Script("loadFile") = <<"restore">>
  /\ Script("advance") = <<"halo", "update">>
  /\ Script("snapshot") = <<"gather">>
BY DEF Script, Calls

\* The steps of a construction that the invariant speaks of.
LEMMA ConstructSteps ==
  /\ Len(Script("construct")) = 9
  /\ \A s \in 1..9 :
       /\ Script("construct")[s] = "precise" => s = 4
       /\ Script("construct")[s] = "agree" => s = 8
       /\ Script("construct")[s] = "build" => s = 9
       /\ Script("construct")[s] \in {"check", "select"} => s \in {1, 6}
       /\ Script("construct")[s] \notin {"record", "accept", "restore", "halo", "update"}
<1> DEFINE S == Script("construct")
<1>1. S = <<"check", "init", "contract", "precise", "weights", "select",
            "identity", "agree", "build">>
  BY Scripts
<1>2. /\ S[1] = "check" /\ S[2] = "init" /\ S[3] = "contract" /\ S[4] = "precise"
      /\ S[5] = "weights" /\ S[6] = "select" /\ S[7] = "identity" /\ S[8] = "agree"
      /\ S[9] = "build" /\ Len(S) = 9
  BY <1>1
<1> HIDE DEF S
<1>3. \A s \in 1..9 : s = 1 \/ s = 2 \/ s = 3 \/ s = 4 \/ s = 5 \/ s = 6 \/ s = 7 \/ s = 8 \/ s = 9
  OBVIOUS
<1> SUFFICES ASSUME NEW s \in 1..9
             PROVE  /\ S[s] = "precise" => s = 4
                    /\ S[s] = "agree" => s = 8
                    /\ S[s] = "build" => s = 9
                    /\ S[s] \in {"check", "select"} => s \in {1, 6}
                    /\ S[s] \notin {"record", "accept", "restore", "halo", "update"}
  BY <1>2 DEF S
<1> QED BY <1>2, <1>3

\* Every script has steps, and where the local steps of each kind are.
LEMMA ScriptSteps ==
  ASSUME NEW c \in CallNames
  PROVE  /\ Len(Script(c)) \in Nat \ {0}
         /\ \A s \in 1..Len(Script(c)) :
              /\ Script(c)[s] = "precise" => c = "construct" /\ s = 4
              /\ Script(c)[s] = "agree" => c = "construct" /\ s = 8
              /\ Script(c)[s] = "build" => c = "construct" /\ s = 9
              /\ Script(c)[s] = "record" => c = "capture" /\ s = 2
              /\ Script(c)[s] = "accept" => c = "load" /\ s = 2
              /\ Script(c)[s] = "restore" => (c = "load" /\ s = 3) \/ (c = "loadFile" /\ s = 1)
              /\ Script(c)[s] = "halo" => c = "advance" /\ s = 1
              /\ Script(c)[s] = "update" => c = "advance" /\ s = 2
              /\ Script(c)[s] \in {"check", "select"} => c = "construct" /\ s \in {1, 6}
<1>1. CASE c = "construct"
  BY <1>1, ConstructSteps
<1>2. CASE c = "capture"
  <2>1. /\ Len(Script(c)) = 3 /\ Script(c)[1] = "barrier" /\ Script(c)[2] = "record"
        /\ Script(c)[3] = "barrier"
    BY <1>2, Scripts
  <2>2. \A s \in 1..Len(Script(c)) : s = 1 \/ s = 2 \/ s = 3
    BY <2>1
  <2> QED BY <1>2, <2>1, <2>2
<1>3. CASE c = "load"
  <2>1. /\ Len(Script(c)) = 3 /\ Script(c)[1] = "reduce" /\ Script(c)[2] = "accept"
        /\ Script(c)[3] = "restore"
    BY <1>3, Scripts
  <2>2. \A s \in 1..Len(Script(c)) : s = 1 \/ s = 2 \/ s = 3
    BY <2>1
  <2> QED BY <1>3, <2>1, <2>2
<1>4. CASE c = "loadFile"
  BY <1>4, Scripts
<1>5. CASE c = "advance"
  <2>1. Len(Script(c)) = 2 /\ Script(c)[1] = "halo" /\ Script(c)[2] = "update"
    BY <1>5, Scripts
  <2>2. \A s \in 1..Len(Script(c)) : s = 1 \/ s = 2
    BY <2>1
  <2> QED BY <1>5, <2>1, <2>2
<1>6. CASE c = "snapshot"
  BY <1>6, Scripts
<1> QED BY <1>1, <1>2, <1>3, <1>4, <1>5, <1>6 DEF CallNames
\* A call of the program and a step of its script are what they should be.
LEMMA Position ==
  ASSUME TypeOK, NEW r \in Ranks
  PROVE  /\ Len(Program) \in Nat \ {0}
         /\ DOMAIN Program = 1..Len(Program)
         /\ \A k \in DOMAIN Program : Program[k] \in CallNames
         /\ \A k \in DOMAIN Program : Len(Script(Program[k])) \in Nat \ {0}
         /\ call[r] \in DOMAIN Program
         /\ Call(r) \in CallNames
         /\ Call(r) = Program[call[r]]
         /\ step[r] \in 1..Len(Script(Call(r)))
         /\ Step(r) = Script(Call(r))[step[r]]
<1>1. /\ Len(Program) \in Nat \ {0}
      /\ DOMAIN Program = 1..Len(Program)
      /\ \A k \in DOMAIN Program : Program[k] \in CallNames
  BY ProgramAssumption
<1>2. \A k \in DOMAIN Program : Len(Script(Program[k])) \in Nat \ {0}
  BY <1>1, ScriptSteps
<1>3. call[r] \in DOMAIN Program
  BY <1>1 DEF TypeOK
<1> QED BY <1>1, <1>2, <1>3 DEF TypeOK, Call, Step

\* Going further keeps every rank at a step of a call of its program.
LEMMA MoveTyped ==
  ASSUME TypeOK, NEW R \in SUBSET Ranks, NEW over \in SUBSET R, Move(R, over),
         \A r \in R \ over : step[r] < Len(Script(Call(r)))
  PROVE  /\ call' \in [Ranks -> 1..Len(Program)]
         /\ step' \in [Ranks -> Nat]
         /\ \A r \in Ranks : step'[r] \in 1..Len(Script(Program[call'[r]]))
         /\ status' \in [Ranks -> {"running", "finished", "raised"}]
<1>1. call' \in [Ranks -> 1..Len(Program)]
  <2>1. \A r \in Ranks : call[r] \in 1..Len(Program) /\ Len(Program) \in Nat
    BY Position DEF TypeOK
  <2> QED BY <2>1 DEF Move
<1>2. step' \in [Ranks -> Nat]
  BY DEF Move, TypeOK
<1>3. status' \in [Ranks -> {"running", "finished", "raised"}]
  BY DEF Move, TypeOK
<1>4. ASSUME NEW r \in Ranks
      PROVE  step'[r] \in 1..Len(Script(Program[call'[r]]))
  <2>1. call'[r] \in DOMAIN Program /\ Len(Script(Program[call'[r]])) \in Nat \ {0}
    BY <1>1, Position
  <2>2. CASE r \in over
    BY <2>1, <2>2 DEF Move
  <2>3. CASE r \in R \ over
    <3>1. call'[r] = call[r] /\ step'[r] = step[r] + 1
      BY <2>3 DEF Move
    <3>2. step[r] \in 1..Len(Script(Call(r))) /\ step[r] < Len(Script(Call(r)))
      BY <2>3, Position
    <3> QED BY <3>1, <3>2, <2>1 DEF Call
  <2>4. CASE r \notin R
    <3>1. call'[r] = call[r] /\ step'[r] = step[r]
      BY <2>4 DEF Move
    <3> QED BY <3>1, Position DEF Call
  <2> QED BY <2>2, <2>3, <2>4
<1> QED BY <1>1, <1>2, <1>3, <1>4

\* What going further passes: the rest of a call that is left, or one step.
LEMMA MovePassed ==
  ASSUME TypeOK, NEW R \in SUBSET Ranks, NEW over \in SUBSET R, Move(R, over),
         \A r \in R : Running(r),
         NEW r \in Ranks, NEW k \in DOMAIN Program,
         NEW s \in 1..Len(Script(Program[k]))
  PROVE  Passed(r, k, s)' <=> \/ Passed(r, k, s)
                              \/ r \in over /\ k = call[r]
                              \/ r \in R \ over /\ k = call[r] /\ s = step[r]
<1>1. /\ k \in Nat /\ k <= Len(Program) /\ Len(Program) \in Nat /\ s \in Nat /\ s >= 1
      /\ call[r] \in Nat /\ call[r] >= 1 /\ call[r] <= Len(Program) /\ step[r] \in Nat
  BY Position DEF TypeOK
<1>2. CASE r \in over
  <2>1. status[r] = "running"
    BY <1>2 DEF Running
  <2>2. step'[r] = 1
    BY <1>2 DEF Move
  <2>3. CASE call[r] < Len(Program)
    <3>1. call'[r] = call[r] + 1 /\ status'[r] = "running"
      BY <1>1, <1>2, <2>1, <2>3 DEF Move
    <3> QED BY <1>1, <1>2, <2>2, <3>1 DEF Passed
  <2>4. CASE call[r] = Len(Program)
    <3>1. call'[r] = call[r] /\ status'[r] = "finished"
      BY <1>1, <1>2, <2>4 DEF Move
    <3> QED BY <1>1, <1>2, <2>2, <2>4, <3>1 DEF Passed
  <2> QED BY <1>1, <2>3, <2>4
<1>3. CASE r \in R \ over
  <2>1. status[r] = "running"
    BY <1>3 DEF Running
  <2>2. call'[r] = call[r] /\ step'[r] = step[r] + 1 /\ status'[r] = "running"
    BY <1>3, <2>1 DEF Move
  <2> QED BY <1>1, <1>3, <2>1, <2>2 DEF Passed
<1>4. CASE r \notin R
  <2>1. call'[r] = call[r] /\ step'[r] = step[r] /\ status'[r] = status[r]
    BY <1>4 DEF Move
  <2> QED BY <1>4, <2>1 DEF Passed
<1> QED BY <1>2, <1>3, <1>4

\* Advance is a case of Move that keeps to the scripts and passes one step.
LEMMA AdvanceTyped ==
  ASSUME TypeOK, NEW R \in SUBSET Ranks, Advance(R)
  PROVE  /\ call' \in [Ranks -> 1..Len(Program)]
         /\ step' \in [Ranks -> Nat]
         /\ \A r \in Ranks : step'[r] \in 1..Len(Script(Program[call'[r]]))
         /\ status' \in [Ranks -> {"running", "finished", "raised"}]
<1> DEFINE over == {r \in R : step[r] = Len(Script(Call(r)))}
<1>1. over \in SUBSET R /\ Move(R, over)
  BY DEF Advance
<1>2. \A r \in R \ over : step[r] < Len(Script(Call(r)))
  <2> SUFFICES ASSUME NEW r \in R \ over
               PROVE  step[r] < Len(Script(Call(r)))
    OBVIOUS
  <2>1. /\ step[r] \in 1..Len(Script(Call(r))) /\ Len(Script(Call(r))) \in Nat
        /\ step[r] # Len(Script(Call(r)))
    BY Position
  <2> QED BY <2>1
<1> HIDE DEF over
<1> QED BY <1>1, <1>2, MoveTyped

LEMMA AdvancePassed ==
  ASSUME TypeOK, NEW R \in SUBSET Ranks, Advance(R), \A r \in R : Running(r),
         NEW r \in Ranks, NEW k \in DOMAIN Program,
         NEW s \in 1..Len(Script(Program[k]))
  PROVE  Passed(r, k, s)' <=> Passed(r, k, s) \/ (r \in R /\ k = call[r] /\ s = step[r])
<1> DEFINE over == {q \in R : step[q] = Len(Script(Call(q)))}
<1>1. over \in SUBSET R /\ Move(R, over)
  BY DEF Advance
<1>2. r \in over /\ k = call[r] => step[r] = Len(Script(Program[k]))
  BY DEF Call
<1> HIDE DEF over
<1>3. Passed(r, k, s)' <=> \/ Passed(r, k, s)
                           \/ r \in over /\ k = call[r]
                           \/ r \in R \ over /\ k = call[r] /\ s = step[r]
  BY <1>1, MovePassed
<1>4. CASE r \in over /\ k = call[r]
  <2>1. s \in Nat /\ step[r] \in Nat /\ (s < step[r] \/ s = step[r])
    BY <1>2, <1>4, Position DEF TypeOK
  <2>2. s < step[r] => Passed(r, k, s)
    BY <1>4, <2>1 DEF Passed
  <2> QED BY <1>1, <1>3, <1>4, <2>1, <2>2
<1>5. CASE ~(r \in over /\ k = call[r])
  BY <1>1, <1>3, <1>5
<1> QED BY <1>4, <1>5

\* Advancing leaves no rank raised that was not, and the others alone.
LEMMA AdvanceStatus ==
  ASSUME TypeOK, NEW R \in SUBSET Ranks, Advance(R), \A r \in R : Running(r)
  PROVE  \A r \in Ranks :
           /\ status'[r] = "raised" <=> status[r] = "raised"
           /\ r \notin R => call'[r] = call[r] /\ step'[r] = step[r] /\ status'[r] = status[r]
BY DEF Advance, Move, TypeOK, Running

\* Raising passes nothing.
LEMMA RaisePassed ==
  ASSUME TypeOK, NEW q \in Ranks, Running(q), Raise(q), NEW r \in Ranks, NEW k, NEW s
  PROVE  /\ Passed(r, k, s)' <=> Passed(r, k, s)
         /\ status'[r] = "finished" <=> status[r] = "finished"
         /\ status'[r] # "raised" => status[r] # "raised"
BY DEF Raise, TypeOK, Running, Passed

\* A rank that waits has not passed its step, and no step of a rank is passed
\* before it comes to it.
LEMMA NotPassed ==
  ASSUME TypeOK, NEW r \in Ranks, Running(r)
  PROVE  ~Passed(r, call[r], step[r])
BY DEF Passed, TypeOK, Running

\* Two ranks that wait do so at the same step: a collective that one has passed
\* the other has passed too.
LEMMA SamePlace ==
  ASSUME TypeOK, Lockstep, Resting, waiting[0], waiting[1]
  PROVE  call[0] = call[1] /\ step[0] = step[1]
<1>1. /\ 0 \in Ranks /\ 1 \in Ranks
      /\ Running(0) /\ Step(0) \in Collectives /\ Running(1) /\ Step(1) \in Collectives
  BY DEF Resting, Ranks
<1>2. /\ call[0] \in DOMAIN Program /\ step[0] \in 1..Len(Script(Program[call[0]]))
      /\ Script(Program[call[0]])[step[0]] \in Collectives
      /\ call[1] \in DOMAIN Program /\ step[1] \in 1..Len(Script(Program[call[1]]))
      /\ Script(Program[call[1]])[step[1]] \in Collectives
  BY <1>1, Position
<1>3. ~Passed(0, call[0], step[0]) /\ ~Passed(1, call[1], step[1])
  BY <1>1, NotPassed
<1>4. ~Passed(1, call[0], step[0]) /\ ~Passed(0, call[1], step[1])
  BY <1>2, <1>3 DEF Lockstep
<1>5. /\ call[0] \in Nat /\ call[1] \in Nat /\ step[0] \in Nat /\ step[1] \in Nat
  BY <1>1, Position DEF TypeOK
<1> QED BY <1>4, <1>5 DEF Passed

\* The places of the steps the invariant speaks of.
LEMMA Places ==
  ASSUME NEW k \in DOMAIN Program
  PROVE  /\ Program[k] \in CallNames
         /\ Program[k] = "construct" <=> k = 1
         /\ 1 \in DOMAIN Program
         /\ Program[1] = "construct"
         /\ Program[k] = "construct" =>
              /\ 4 \in 1..Len(Script(Program[k])) /\ Script(Program[k])[4] = "precise"
              /\ 8 \in 1..Len(Script(Program[k])) /\ Script(Program[k])[8] = "agree"
         /\ Program[k] = "capture" =>
              /\ 2 \in 1..Len(Script(Program[k])) /\ Script(Program[k])[2] = "record"
              /\ 3 \in 1..Len(Script(Program[k])) /\ Script(Program[k])[3] = "barrier"
              /\ Len(Script(Program[k])) = 3
         /\ Program[k] = "load" =>
              /\ 3 \in 1..Len(Script(Program[k])) /\ Script(Program[k])[3] = "restore"
              /\ Script(Program[k])[2] = "accept" /\ Len(Script(Program[k])) = 3
         /\ Program[k] = "loadFile" =>
              1 \in 1..Len(Script(Program[k])) /\ Script(Program[k])[1] = "restore"
<1>1. /\ Program[k] \in CallNames
      /\ Program[k] = "construct" <=> k = 1
      /\ 1 \in DOMAIN Program
      /\ Program[1] = "construct"
  BY ProgramAssumption
<1>2. /\ Len(Script("construct")) = 9 /\ Script("construct")[4] = "precise"
      /\ Script("construct")[8] = "agree"
  BY Scripts
<1>3. Len(Script("capture")) = 3 /\ Script("capture")[2] = "record" /\ Script("capture")[3] = "barrier"
  BY Scripts
<1>4. Len(Script("load")) = 3 /\ Script("load")[3] = "restore" /\ Script("load")[2] = "accept"
  BY Scripts
<1>5. Len(Script("loadFile")) = 1 /\ Script("loadFile")[1] = "restore"
  BY Scripts
<1> QED BY <1>1, <1>2, <1>3, <1>4, <1>5

\* A local step, or a meeting of both ranks, keeps them in lockstep.
LEMMA LocalLockstep ==
  ASSUME TypeOK, Lockstep, NEW q \in Ranks, Running(q), Step(q) \notin Collectives,
         Advance({q})
  PROVE  Lockstep'
<1> SUFFICES ASSUME NEW k \in DOMAIN Program, NEW s \in 1..Len(Script(Program[k])),
                    Script(Program[k])[s] \in Collectives
             PROVE  Passed(0, k, s)' <=> Passed(1, k, s)'
  BY DEF Lockstep
<1>1. \A r \in Ranks : Passed(r, k, s)' <=> Passed(r, k, s) \/ (r \in {q} /\ k = call[r] /\ s = step[r])
  BY AdvancePassed
<1>2. ~(k = call[q] /\ s = step[q])
  BY Position
<1>3. \A r \in Ranks : Passed(r, k, s)' <=> Passed(r, k, s)
  BY <1>1, <1>2
<1> QED BY <1>3 DEF Lockstep, Ranks

LEMMA MeetLockstep ==
  ASSUME TypeOK, Lockstep, Resting, waiting[0], waiting[1], Advance(Ranks)
  PROVE  Lockstep'
<1>1. /\ 0 \in Ranks /\ 1 \in Ranks /\ \A r \in Ranks : Running(r)
  BY DEF Resting, Ranks
<1>2. call[0] = call[1] /\ step[0] = step[1]
  BY SamePlace
<1> SUFFICES ASSUME NEW k \in DOMAIN Program, NEW s \in 1..Len(Script(Program[k])),
                    Script(Program[k])[s] \in Collectives
             PROVE  Passed(0, k, s)' <=> Passed(1, k, s)'
  BY DEF Lockstep
<1>3. \A r \in Ranks : Passed(r, k, s)' <=> Passed(r, k, s) \/ (k = call[r] /\ s = step[r])
  BY <1>1, AdvancePassed
<1> QED BY <1>1, <1>2, <1>3 DEF Lockstep

\* Leaving a refused load passes no collective: the vote lies behind it.
LEMMA LeaveLockstep ==
  ASSUME TypeOK, Lockstep, NEW q \in Ranks, At(q, "accept"), Move({q}, {q})
  PROVE  Lockstep'
<1>1. Running(q) /\ Program[call[q]] = "load" /\ step[q] = 2 /\ call[q] \in DOMAIN Program
  BY Position, ScriptSteps DEF At
<1> SUFFICES ASSUME NEW k \in DOMAIN Program, NEW s \in 1..Len(Script(Program[k])),
                    Script(Program[k])[s] \in Collectives
             PROVE  Passed(0, k, s)' <=> Passed(1, k, s)'
  BY DEF Lockstep
<1>2. \A r \in Ranks : Passed(r, k, s)' <=> Passed(r, k, s) \/ (r \in {q} /\ k = call[r])
  BY <1>1, MovePassed
<1>3. k = call[q] => Passed(q, k, s)
  <2> SUFFICES ASSUME k = call[q] PROVE Passed(q, k, s)
    OBVIOUS
  <2>1. Script("load")[2] = "accept" /\ Script("load")[3] = "restore" /\ Len(Script("load")) = 3
    BY Scripts
  <2>2. s # 2 /\ s # 3 /\ s \in 1..3
    BY <1>1, <2>1 DEF Collectives
  <2> QED BY <1>1, <2>2 DEF Passed
<1>4. \A r \in Ranks : Passed(r, k, s)' <=> Passed(r, k, s)
  BY <1>2, <1>3
<1> QED BY <1>4 DEF Lockstep, Ranks

\* What a rank is given to load is a checkpoint file.
LEMMA FileTyped ==
  ASSUME TypeOK, NEW r \in Ranks, NEW k \in Loads
  PROVE  /\ given[r].file[k].header \in BOOLEAN
         /\ given[r].file[k].body \in {"good", "state", "probes"}
         /\ given[r].file[k].clock \in Nat
<1>1. given[r].file \in [Loads -> Files]
  BY SessionAssumption DEF TypeOK
<1> QED BY <1>1 DEF Files

\* A step is passed only in a call that a rank has come to.
LEMMA PassedAt ==
  ASSUME TypeOK, NEW r \in Ranks, NEW k \in DOMAIN Program, NEW s, Passed(r, k, s)
  PROVE  k <= call[r]
BY Position DEF TypeOK, Passed

\* What the restore of a rank at that step leaves it with.
Filled(r) ==
  IF File(r).body = "state" THEN holds[r]
  ELSE [fields |-> call[r], whole |-> File(r).body = "good"]

\* Restores take place in loads and in loaded files.
LEMMA RestoreAt ==
  ASSUME TypeOK, NEW r \in Ranks, Step(r) = "restore"
  PROVE  /\ Program[call[r]] = "loadFile" \/ (Program[call[r]] = "load" /\ step[r] = 3)
         /\ call[r] \in Loads /\ call[r] \in Nat \ {0}
<1>1. /\ Call(r) = Program[call[r]] /\ Call(r) \in CallNames
      /\ step[r] \in 1..Len(Script(Call(r))) /\ Script(Call(r))[step[r]] = "restore"
  BY Position
<1>2. (Call(r) = "load" /\ step[r] = 3) \/ (Call(r) = "loadFile" /\ step[r] = 1)
  BY <1>1, ScriptSteps
<1>3. call[r] \in DOMAIN Program /\ DOMAIN Program = 1..Len(Program) /\ Len(Program) \in Nat
  BY Position
<1> QED BY <1>1, <1>2, <1>3 DEF Loads

\* What advancing restores: the checkpoint of each rank whose step is a restore.
LEMMA AdvanceRestores ==
  ASSUME TypeOK, NEW R \in SUBSET Ranks, Advance(R), \A r \in R : Running(r),
         given' = given, NEW r \in Ranks, NEW k \in DOMAIN Program
  PROVE  Restores(r, k)' <=> \/ Restores(r, k)
                             \/ /\ r \in R /\ k = call[r] /\ Step(r) = "restore"
                                /\ Program[k] = "loadFile" \/ HeadersGood(k)
<1>1. ASSUME NEW s \in 1..Len(Script(Program[k]))
      PROVE  Passed(r, k, s)' <=> Passed(r, k, s) \/ (r \in R /\ k = call[r] /\ s = step[r])
  BY <1>1, AdvancePassed
<1>2. k = call[r] => Step(r) = Script(Program[k])[step[r]]
  BY Position
<1>3. HeadersGood(k)' <=> HeadersGood(k)
  BY DEF HeadersGood
<1>4. CASE Program[k] = "loadFile"
  <2>1. /\ Len(Script(Program[k])) = 1 /\ 1 \in 1..Len(Script(Program[k]))
        /\ Script(Program[k])[1] = "restore"
    BY <1>4, Scripts
  <2>2. Passed(r, k, 1)' <=> Passed(r, k, 1) \/ (r \in R /\ k = call[r] /\ 1 = step[r])
    BY <1>1, <2>1
  <2>3. r \in R /\ k = call[r] => step[r] = 1 /\ Step(r) = "restore"
    BY <1>2, <2>1, Position
  <2> QED BY <1>4, <2>2, <2>3 DEF Restores
<1>5. CASE Program[k] = "load"
  <2>1. 3 \in 1..Len(Script(Program[k])) /\ Script(Program[k])[3] = "restore"
    BY <1>5, Places
  <2>2. Passed(r, k, 3)' <=> Passed(r, k, 3) \/ (r \in R /\ k = call[r] /\ 3 = step[r])
    BY <1>1, <2>1
  <2>3. r \in R /\ k = call[r] => (step[r] = 3 <=> Step(r) = "restore")
    BY <1>2, <1>5, <2>1, Position, ScriptSteps
  <2> QED BY <1>3, <1>5, <2>2, <2>3 DEF Restores
<1>6. CASE Program[k] \notin {"load", "loadFile"}
  <2>1. r \in R /\ k = call[r] => Step(r) # "restore"
    BY <1>6, RestoreAt
  <2> QED BY <1>6, <2>1 DEF Restores
<1> QED BY <1>4, <1>5, <1>6

\* A rank that takes nothing holds what it held.
LEMMA SameTaken ==
  ASSUME given' = given, NEW r \in Ranks, LastTaken(r), holds'[r] = holds[r],
         \A k \in Loads : Took(r, k)' <=> Took(r, k)
  PROVE  LastTaken(r)'
<1> DEFINE f == holds[r].fields
<1>1. holds'[r].fields = f /\ holds'[r].whole = holds[r].whole
  OBVIOUS
<1>2. f \in Loads => (Took(r, holds[r].fields)' <=> Took(r, f))
  <2> SUFFICES ASSUME f \in Loads PROVE Took(r, holds[r].fields)' <=> Took(r, f)
    OBVIOUS
  <2>1. PICK k \in Loads : k = f
    OBVIOUS
  <2>2. Took(r, holds[r].fields)' <=> Took(r, k)'
    BY <1>1, <2>1 DEF Took, Restores, Passed, HeadersGood
  <2> QED BY <2>1, <2>2
<1> QED BY <1>1, <1>2 DEF LastTaken

\* The places where the parts of the invariant look, and the facts that bound
\* them, after some ranks advanced by a step each.
LEMMA AdvanceCoupled ==
  ASSUME Coupled, NEW R \in SUBSET Ranks, Advance(R), \A r \in R : Running(r),
         Lockstep',
         given' = given,
         waiting' \in [Ranks -> BOOLEAN],
         \A r \in Ranks : waiting'[r] => waiting[r] /\ r \notin R,
         captured' \in [Ranks -> BOOLEAN],
         \A r \in Ranks : captured[r] \/ (r \in R /\ Step(r) = "record") => captured'[r],
         holds' \in [Ranks -> [fields : Nat, whole : BOOLEAN]],
         \A r \in Ranks : holds'[r] = IF r \in R /\ Step(r) = "restore" THEN Filled(r)
                                                                       ELSE holds[r],
         clock' \in [Ranks -> Nat],
         \A r \in R : /\ Step(r) = "precise" => SamePrecision
                      /\ Step(r) = "agree" => SameSplit
                      /\ Step(r) = "accept" => HeadersGood(call[r])
  PROVE  Coupled'
<1> USE DEF Coupled
<1>1. TypeOK'
  <2>1. /\ call' \in [Ranks -> 1..Len(Program)]
        /\ step' \in [Ranks -> Nat]
        /\ \A r \in Ranks : step'[r] \in 1..Len(Script(Program[call'[r]]))
        /\ status' \in [Ranks -> {"running", "finished", "raised"}]
    BY AdvanceTyped
  <2> QED BY <2>1 DEF TypeOK, Call
<1>2. /\ \A r \in Ranks : status'[r] = "raised" <=> status[r] = "raised"
      /\ \A r \in Ranks \ R : /\ call'[r] = call[r] /\ step'[r] = step[r]
                              /\ status'[r] = status[r]
  BY AdvanceStatus
<1>3. Resting'
  <2> SUFFICES ASSUME NEW r \in Ranks
               PROVE  /\ waiting'[r] => status'[r] = "running" /\ Step(r)' \in Collectives
                      /\ status'[r] = "finished" => call'[r] = Len(Program)
    BY DEF Resting, Running, Collectives
  <2>1. CASE r \in R
    <3>1. status[r] = "running" /\ call[r] \in 1..Len(Program) /\ Len(Program) \in Nat
      BY <2>1, Position DEF Running
    <3>2. status'[r] = "finished" => call'[r] = Len(Program)
      BY <3>1 DEF Advance, Move
    <3> QED BY <2>1, <3>2
  <2>2. CASE r \notin R
    BY <1>2, <2>2 DEF Resting, Running, Step, Call
  <2> QED BY <2>1, <2>2
<1>4. ASSUME NEW r \in Ranks, NEW k \in DOMAIN Program, NEW s \in 1..Len(Script(Program[k]))
      PROVE  Passed(r, k, s)' <=> Passed(r, k, s) \/ (r \in R /\ k = call[r] /\ s = step[r])
  BY <1>4, AdvancePassed
<1>5. ASSUME NEW r \in R, NEW k \in DOMAIN Program, k = call[r]
      PROVE  Step(r) = Script(Program[k])[step[r]]
  BY <1>5, Position
<1>6. Compared'
  <2> SUFFICES ASSUME NEW r \in Ranks
               PROVE  /\ Passed(r, 1, 4)' => SamePrecision
                      /\ Passed(r, 1, 8)' => SameSplit
    BY DEF Compared, SamePrecision, SameSplit
  <2>1. /\ 1 \in DOMAIN Program
        /\ 4 \in 1..Len(Script(Program[1])) /\ Script(Program[1])[4] = "precise"
        /\ 8 \in 1..Len(Script(Program[1])) /\ Script(Program[1])[8] = "agree"
    BY Places, Position
  <2>2. Passed(r, 1, 4)' => SamePrecision
    <3>1. Passed(r, 1, 4)' <=> Passed(r, 1, 4) \/ (r \in R /\ 1 = call[r] /\ 4 = step[r])
      BY <1>4, <2>1
    <3>2. ASSUME r \in R, 1 = call[r], 4 = step[r]
          PROVE  Step(r) = "precise"
      <4>1. Step(r) = Script(Program[1])[step[r]]
        BY <1>5, <2>1, <3>2
      <4> QED BY <2>1, <3>2, <4>1
    <3>3. Passed(r, 1, 4) => SamePrecision
      BY DEF Compared
    <3> QED BY <3>1, <3>2, <3>3
  <2>3. Passed(r, 1, 8)' => SameSplit
    <3>1. Passed(r, 1, 8)' <=> Passed(r, 1, 8) \/ (r \in R /\ 1 = call[r] /\ 8 = step[r])
      BY <1>4, <2>1
    <3>2. ASSUME r \in R, 1 = call[r], 8 = step[r]
          PROVE  Step(r) = "agree"
      <4>1. Step(r) = Script(Program[1])[step[r]]
        BY <1>5, <2>1, <3>2
      <4> QED BY <2>1, <3>2, <4>1
    <3>3. Passed(r, 1, 8) => SameSplit
      BY DEF Compared
    <3> QED BY <3>1, <3>2, <3>3
  <2> QED BY <2>2, <2>3
<1>7. Recorded'
  <2> SUFFICES ASSUME NEW r \in Ranks, NEW k \in DOMAIN Program,
                      Program[k] = "capture", Passed(r, k, 2)'
               PROVE  captured'[r]
    BY DEF Recorded
  <2>1. 2 \in 1..Len(Script(Program[k])) /\ Script(Program[k])[2] = "record"
    BY Places
  <2>2. Passed(r, k, 2) \/ (r \in R /\ k = call[r] /\ 2 = step[r])
    BY <1>4, <2>1
  <2> QED BY <1>5, <2>1, <2>2 DEF Recorded
<1>8. \A r \in Ranks : Step(r) = "restore" =>
        Program[call[r]] = "loadFile" \/ HeadersGood(call[r])
  BY RestoreAt DEF RestoresTold, Call
<1>9. HeldAttempted'
  <2> SUFFICES ASSUME NEW r \in Ranks, holds'[r].fields # 0
               PROVE  holds'[r].fields \in Loads /\ Attempted(holds'[r].fields)
    BY DEF HeldAttempted, Attempted, HeadersGood
  <2>1. CASE holds'[r] = holds[r]
    BY <2>1 DEF HeldAttempted
  <2>2. CASE r \in R /\ Step(r) = "restore" /\ holds'[r] # holds[r]
    <3>1. holds'[r].fields = call[r]
      BY <2>2 DEF Filled
    <3> QED BY <1>8, <2>2, <3>1, RestoreAt DEF Attempted
  <2> QED BY <2>1, <2>2
<1>10. ASSUME NEW r \in Ranks, Program[call'[r]] = "load", step'[r] = 3
       PROVE  HeadersGood(call'[r])
  <2>1. CASE r \notin R
    BY <1>2, <1>10, <2>1 DEF RestoresTold, Call
  <2>2. CASE r \in R
    <3>1. /\ call[r] \in Nat /\ Len(Program) \in Nat /\ step[r] \in Nat
          /\ step[r] \in 1..Len(Script(Call(r))) /\ Call(r) = Program[call[r]]
          /\ call[r] \in DOMAIN Program
      BY Position DEF TypeOK
    <3>2. call'[r] = call[r] /\ step'[r] = step[r] + 1
      BY <1>10, <2>2, <3>1 DEF Advance, Move
    <3>3. Program[call[r]] = "load" /\ step[r] = 2
      BY <1>10, <3>1, <3>2
    <3>4. Step(r) = "accept"
      BY <1>5, <2>2, <3>1, <3>3, Places
    <3> QED BY <2>2, <3>2, <3>4
  <2> QED BY <2>1, <2>2
<1>11. ASSUME NEW r \in Ranks, status'[r] # "raised"
       PROVE  LastTaken(r)'
  <2>1. LastTaken(r)
    BY <1>2, <1>11 DEF RestoresTold
  <2>2. ASSUME NEW k \in Loads
        PROVE  Took(r, k)' <=> \/ Took(r, k)
                               \/ /\ r \in R /\ k = call[r] /\ Step(r) = "restore"
                                  /\ File(r).body # "state"
    <3>1. k \in DOMAIN Program
      BY DEF Loads
    <3>2. Restores(r, k)' <=> \/ Restores(r, k)
                              \/ /\ r \in R /\ k = call[r] /\ Step(r) = "restore"
                                 /\ Program[k] = "loadFile" \/ HeadersGood(k)
      BY <3>1, AdvanceRestores
    <3> QED BY <1>8, <3>2 DEF Took, File
  <2>3. CASE r \in R /\ Step(r) = "restore" /\ File(r).body # "state"
    <3>1. holds'[r] = [fields |-> call[r], whole |-> given[r].file[call[r]].body = "good"]
      BY <2>3 DEF Filled, File
    <3>2. holds'[r].fields = call[r] /\ holds'[r].whole = (given[r].file[call[r]].body = "good")
      BY <3>1
    <3>3. call[r] \in Loads /\ call[r] \in Nat \ {0}
      BY <2>3, RestoreAt
    <3>4. ASSUME NEW k \in Loads, Took(r, k)'
          PROVE  k <= call[r]
      <4>1. k \in DOMAIN Program /\ (Took(r, k) \/ k = call[r])
        BY <2>2, <3>4 DEF Loads
      <4> QED BY <3>3, <4>1, PassedAt DEF Took, Restores
    <3>5. PICK c \in Loads : c = call[r]
      BY <3>3
    <3>6. Took(r, c)'
      BY <2>2, <2>3, <3>5
    <3>7. Took(r, holds[r].fields)'
      BY <3>2, <3>5, <3>6 DEF Took, Restores, HeadersGood, Passed
    <3>8. holds'[r].whole <=> given'[r].file[holds'[r].fields].body = "good"
      BY <3>2
    <3> QED BY <3>2, <3>3, <3>4, <3>7, <3>8 DEF LastTaken
  <2>4. CASE ~(r \in R /\ Step(r) = "restore" /\ File(r).body # "state")
    <3>1. holds'[r] = holds[r]
      BY <2>4 DEF Filled
    <3>2. \A k \in Loads : Took(r, k)' <=> Took(r, k)
      BY <2>2, <2>4
    <3> QED BY <2>1, <3>1, <3>2, SameTaken
  <2> QED BY <2>3, <2>4
<1>12. RestoresTold'
  BY <1>10, <1>11 DEF RestoresTold, HeadersGood, Call
<1> QED BY <1>1, <1>3, <1>6, <1>7, <1>9, <1>12

\* A rank that raises passes nothing, and tells the other nothing.
LEMMA RaiseCoupled ==
  ASSUME Coupled, NEW q \in Ranks, Running(q), Raise(q),
         given' = given, captured' = captured,
         waiting' \in [Ranks -> BOOLEAN],
         \A r \in Ranks : waiting'[r] => waiting[r] /\ r # q,
         holds' \in [Ranks -> [fields : Nat, whole : BOOLEAN]],
         \A r \in Ranks : r # q => holds'[r] = holds[r],
         \/ holds'[q] = holds[q]
         \/ holds'[q].fields = call[q] /\ call[q] \in Loads /\ Attempted(call[q]),
         clock' \in [Ranks -> Nat]
  PROVE  Coupled'
<1> USE DEF Coupled
<1>1. /\ call' = call /\ step' = step /\ status'[q] = "raised"
      /\ \A r \in Ranks : r # q => status'[r] = status[r]
      /\ status' \in [Ranks -> {"running", "finished", "raised"}]
  BY DEF Raise, TypeOK
<1>2. TypeOK'
  BY <1>1 DEF TypeOK, Call
<1>3. \A r \in Ranks : \A k, s : Passed(r, k, s)' <=> Passed(r, k, s)
  BY RaisePassed
<1>4. Lockstep'
  <2>1. 0 \in Ranks /\ 1 \in Ranks
    BY DEF Ranks
  <2> SUFFICES ASSUME NEW k \in DOMAIN Program, NEW s \in 1..Len(Script(Program[k])),
                      Script(Program[k])[s] \in Collectives
               PROVE  Passed(0, k, s)' <=> Passed(1, k, s)'
    BY DEF Lockstep
  <2> QED BY <1>3, <2>1 DEF Lockstep
<1>5. Resting'
  BY <1>1 DEF Resting, Running, Step, Call
<1>6. Compared' /\ Recorded'
  BY <1>3 DEF Compared, SamePrecision, SameSplit, Recorded
<1>7. RestoresTold'
  <2>1. ASSUME NEW r \in Ranks, NEW k \in Loads
        PROVE  Took(r, k)' <=> Took(r, k)
    BY <1>3 DEF Took, Restores, HeadersGood
  <2>2. ASSUME NEW r \in Ranks, status'[r] # "raised"
        PROVE  LastTaken(r)'
    <3>1. r # q /\ status[r] # "raised"
      BY <1>1, <2>2
    <3>2. LastTaken(r) /\ holds'[r] = holds[r]
      BY <3>1 DEF RestoresTold
    <3> QED BY <2>1, <3>2, SameTaken
  <2>3. ASSUME NEW r \in Ranks, Program[call'[r]] = "load", step'[r] = 3
        PROVE  HeadersGood(call'[r])
    BY <1>1, <2>3 DEF RestoresTold, Call
  <2> QED BY <2>2, <2>3 DEF RestoresTold, HeadersGood, Call
<1>8. HeldAttempted'
  <2> SUFFICES ASSUME NEW r \in Ranks, holds'[r].fields # 0
               PROVE  holds'[r].fields \in Loads /\ Attempted(holds'[r].fields)
    BY DEF HeldAttempted, Attempted, HeadersGood
  <2> QED BY DEF HeldAttempted
<1> QED BY <1>2, <1>4, <1>5, <1>6, <1>7, <1>8

\* Leaving a refused load passes the rest of it, and restores nothing.
LEMMA LeavePassed ==
  ASSUME TypeOK, NEW q \in Ranks, At(q, "accept"), Move({q}, {q}),
         ~HeadersGood(call[q]), given' = given, NEW r \in Ranks, NEW k \in DOMAIN Program
  PROVE  /\ \A s \in 1..Len(Script(Program[k])) :
              Passed(r, k, s)' <=> Passed(r, k, s) \/ (r = q /\ k = call[r])
         /\ Program[call[q]] = "load"
         /\ Restores(r, k)' <=> Restores(r, k)
<1>1. Running(q) /\ Program[call[q]] = "load"
  BY Position, ScriptSteps DEF At
<1>2. ASSUME NEW s \in 1..Len(Script(Program[k]))
      PROVE  Passed(r, k, s)' <=> Passed(r, k, s) \/ (r = q /\ k = call[r])
  BY <1>1, <1>2, MovePassed
<1>3. HeadersGood(k)' <=> HeadersGood(k)
  BY DEF HeadersGood
<1>4. CASE Program[k] = "loadFile"
  <2>1. 1 \in 1..Len(Script(Program[k]))
    BY <1>4, Places
  <2> QED BY <1>1, <1>2, <1>4, <2>1 DEF Restores
<1>5. CASE Program[k] # "loadFile"
  <2>1. Program[k] = "load" => 3 \in 1..Len(Script(Program[k]))
    BY Places
  <2>2. HeadersGood(k) => ~(r = q /\ k = call[r])
    OBVIOUS
  <2>3. HeadersGood(k) /\ Program[k] = "load" => (Passed(r, k, 3)' <=> Passed(r, k, 3))
    BY <1>2, <2>1, <2>2
  <2>4. ASSUME Program[k] = "load"
        PROVE  Restores(r, k)' <=> Restores(r, k)
    BY <1>3, <2>3, <2>4 DEF Restores
  <2>5. ASSUME Program[k] # "load"
        PROVE  Restores(r, k)' <=> Restores(r, k)
    BY <1>5, <2>5 DEF Restores
  <2> QED BY <1>1, <1>2, <2>4, <2>5
<1> QED BY <1>1, <1>2, <1>4, <1>5

\* A rank that goes on after a refused load has passed a restore that holds
\* nothing.
LEMMA LeaveCoupled ==
  ASSUME Coupled, NEW q \in Ranks, At(q, "accept"), Move({q}, {q}),
         ~HeadersGood(call[q]), UNCHANGED <<given, waiting, captured, holds, clock>>
  PROVE  Coupled'
<1> USE DEF Coupled
<1>1. /\ Running(q) /\ Program[call[q]] = "load" /\ step[q] = 2 /\ Step(q) = "accept"
      /\ call[q] \in DOMAIN Program /\ call[q] \in 1..Len(Program) /\ Len(Program) \in Nat
  BY Position, ScriptSteps DEF At
<1>2. TypeOK'
  <2>1. /\ call' \in [Ranks -> 1..Len(Program)]
        /\ step' \in [Ranks -> Nat]
        /\ \A r \in Ranks : step'[r] \in 1..Len(Script(Program[call'[r]]))
        /\ status' \in [Ranks -> {"running", "finished", "raised"}]
    BY MoveTyped
  <2> QED BY <2>1 DEF TypeOK, Call
<1>3. Lockstep'
  BY LeaveLockstep
<1>4. /\ \A r \in Ranks : r # q => call'[r] = call[r] /\ step'[r] = step[r] /\ status'[r] = status[r]
      /\ step'[q] = 1 /\ status'[q] # "raised" /\ status[q] # "raised"
      /\ status'[q] = "finished" => call'[q] = Len(Program)
      /\ \A r \in Ranks : call'[r] = call[r] \/ call'[r] = call[r] + 1
  BY <1>1, <1>2 DEF Move, Running, TypeOK
<1>5. ~waiting[q]
  BY <1>1 DEF Resting, Collectives
<1>6. Resting'
  <2> SUFFICES ASSUME NEW r \in Ranks
               PROVE  /\ waiting'[r] => status'[r] = "running" /\ Step(r)' \in Collectives
                      /\ status'[r] = "finished" => call'[r] = Len(Program)
    BY DEF Resting, Running, Collectives
  <2> QED BY <1>4, <1>5 DEF Resting, Running, Step, Call
<1>7. ASSUME NEW r \in Ranks, NEW k \in DOMAIN Program, NEW s \in 1..Len(Script(Program[k]))
      PROVE  Passed(r, k, s)' <=> Passed(r, k, s) \/ (r = q /\ k = call[r])
  BY <1>1, <1>7, MovePassed
<1>8. Compared'
  <2>1. /\ 1 \in DOMAIN Program /\ Program[1] = "construct"
        /\ 4 \in 1..Len(Script(Program[1])) /\ 8 \in 1..Len(Script(Program[1]))
    BY <1>1, Places
  <2> SUFFICES ASSUME NEW r \in Ranks
               PROVE  /\ Passed(r, 1, 4)' => SamePrecision
                      /\ Passed(r, 1, 8)' => SameSplit
    BY DEF Compared, SamePrecision, SameSplit
  <2>2. Passed(r, 1, 4)' <=> Passed(r, 1, 4)
    BY <1>1, <1>7, <2>1
  <2>3. Passed(r, 1, 8)' <=> Passed(r, 1, 8)
    BY <1>1, <1>7, <2>1
  <2> QED BY <2>2, <2>3 DEF Compared
<1>9. Recorded'
  <2> SUFFICES ASSUME NEW r \in Ranks, NEW k \in DOMAIN Program,
                      Program[k] = "capture", Passed(r, k, 2)'
               PROVE  captured[r]
    BY DEF Recorded
  <2>1. 2 \in 1..Len(Script(Program[k]))
    BY Places
  <2> QED BY <1>1, <1>7, <2>1 DEF Recorded
<1>10. ASSUME NEW r \in Ranks, NEW k \in DOMAIN Program
       PROVE  Restores(r, k)' <=> Restores(r, k)
  BY <1>10, LeavePassed
<1>11. RestoresTold'
  <2>1. ASSUME NEW r \in Ranks, Program[call'[r]] = "load", step'[r] = 3
        PROVE  HeadersGood(call'[r])
    BY <1>4, <2>1 DEF RestoresTold, Call
  <2>2. ASSUME NEW r \in Ranks, status'[r] # "raised"
        PROVE  LastTaken(r)'
    <3>1. LastTaken(r) /\ holds'[r] = holds[r]
      BY <1>4, <2>2 DEF RestoresTold
    <3>2. \A k \in Loads : Took(r, k)' <=> Took(r, k)
      BY <1>10 DEF Took, Loads
    <3> QED BY <3>1, <3>2, SameTaken
  <2> QED BY <2>1, <2>2 DEF RestoresTold, HeadersGood, Call
<1>12. HeldAttempted'
  BY DEF HeldAttempted, Attempted, HeadersGood
<1> QED BY <1>2, <1>3, <1>6, <1>8, <1>9, <1>11, <1>12

\* The initial states satisfy the invariant: no step is passed.
LEMMA InitCoupled == Init => Coupled
<1> SUFFICES ASSUME Init PROVE Coupled
  OBVIOUS
<1> USE DEF Init
<1>1. /\ Len(Program) \in Nat \ {0} /\ DOMAIN Program = 1..Len(Program)
      /\ 1 \in DOMAIN Program /\ Program[1] = "construct"
  BY ProgramAssumption
<1>2. Len(Script("construct")) = 9 /\ Script("construct")[1] = "check"
  BY Scripts
<1>3. \A r \in Ranks : Call(r) = "construct"
  BY <1>1 DEF Call
<1>4. TypeOK
  BY <1>1, <1>2, <1>3 DEF TypeOK
<1>5. ASSUME NEW r \in Ranks, NEW k \in DOMAIN Program, NEW s \in Nat \ {0}
      PROVE  ~Passed(r, k, s)
  BY <1>1, <1>5 DEF Passed
<1>6. Lockstep
  BY <1>1, <1>5, ScriptSteps, ProgramAssumption DEF Lockstep, Ranks
<1>7. Resting /\ HeldAttempted
  BY DEF Resting, HeldAttempted
<1>8. Compared /\ Recorded
  <2>1. ASSUME NEW r \in Ranks, NEW k \in DOMAIN Program
        PROVE  ~Passed(r, k, 2) /\ ~Passed(r, k, 4) /\ ~Passed(r, k, 8)
    BY <1>5
  <2> QED BY <1>1, <2>1 DEF Compared, Recorded
<1>9. RestoresTold
  <2>1. \A r \in Ranks, k \in Loads : ~Took(r, k)
    BY <1>5 DEF Took, Restores, Loads
  <2>2. \A r \in Ranks : LastTaken(r)
    BY <2>1 DEF LastTaken
  <2> QED BY <1>3, <2>2 DEF RestoresTold
<1> QED BY <1>4, <1>6, <1>7, <1>8, <1>9 DEF Coupled

\* Every step of the session preserves the invariant.
LEMMA NextCoupled == Coupled /\ [Next]_vars => Coupled'
<1> SUFFICES ASSUME Coupled, [Next]_vars
             PROVE  Coupled'
  OBVIOUS
<1>1. TypeOK /\ Lockstep /\ Resting /\ RestoresTold
  BY DEF Coupled
<1>2. \A r \in Ranks : Running(r) /\ Step(r) \notin Collectives => ~waiting[r]
  BY <1>1 DEF Resting
<1>3. ASSUME NEW r \in Ranks, Post(r)
      PROVE  Coupled'
  <2>1. UNCHANGED <<given, call, step, status, captured, holds, clock>>
    BY <1>3 DEF Post
  <2>2. TypeOK'
    BY <1>1, <1>3, <2>1 DEF Post, TypeOK, Call
  <2>3. Resting'
    BY <1>1, <1>3, <2>1 DEF Post, Resting, Running, Step, Call, TypeOK
  <2>4. \A q, k, s : Passed(q, k, s)' <=> Passed(q, k, s)
    BY <2>1 DEF Passed
  <2>5. Lockstep'
    BY <1>1, <2>4 DEF Lockstep
  <2>6. Compared' /\ Recorded'
    BY <2>1, <2>4 DEF Coupled, Compared, SamePrecision, SameSplit, Recorded
  <2>7. \A q \in Ranks, k \in Loads : Took(q, k)' <=> Took(q, k)
    BY <2>1, <2>4 DEF Took, Restores, HeadersGood
  <2>8. RestoresTold'
    <3>1. ASSUME NEW q \in Ranks, LastTaken(q)
          PROVE  LastTaken(q)'
      BY <2>1, <2>7, <3>1, SameTaken
    <3> QED BY <1>1, <2>1, <3>1 DEF RestoresTold, HeadersGood, Call
  <2>9. HeldAttempted'
    BY <2>1 DEF Coupled, HeldAttempted, Attempted, HeadersGood
  <2> QED BY <2>2, <2>3, <2>5, <2>6, <2>8, <2>9 DEF Coupled
<1>4. ASSUME Meet
      PROVE  Coupled'
  <2>1. /\ waiting[0] /\ waiting[1] /\ Advance(Ranks) /\ \A r \in Ranks : Running(r)
        /\ given' = given /\ captured' = captured /\ holds' = holds /\ clock' = clock
        /\ waiting' = [r \in Ranks |-> FALSE]
    BY <1>4 DEF Meet, Ranks
  <2>2. Lockstep'
    BY <1>1, <2>1, MeetLockstep
  <2>3. \A r \in Ranks : Step(r) \notin {"record", "restore", "precise", "agree", "accept"}
    BY <1>1, <2>1 DEF Resting, Collectives, Ranks
  <2> QED BY <1>1, <2>1, <2>2, <2>3, AdvanceCoupled DEF TypeOK
<1>5. ASSUME NEW r \in Ranks, TimeOut(r)
      PROVE  Coupled'
  BY <1>1, <1>5, RaiseCoupled DEF TimeOut, TypeOK
<1>6. ASSUME NEW r \in Ranks, Running(r), Step(r) \notin Collectives, Raise(r),
             UNCHANGED <<given, waiting, captured, holds, clock>>
      PROVE  Coupled'
  BY <1>1, <1>2, <1>6, RaiseCoupled DEF TypeOK
<1>7. ASSUME NEW r \in Ranks, Running(r), Step(r) \notin Collectives, Advance({r}),
             Step(r) \notin {"record", "restore"},
             UNCHANGED <<given, waiting, captured, holds>>, clock' \in [Ranks -> Nat],
             Step(r) = "precise" => SamePrecision,
             Step(r) = "agree" => SameSplit,
             Step(r) = "accept" => HeadersGood(call[r])
      PROVE  Coupled'
  <2>1. Lockstep'
    BY <1>1, <1>7, LocalLockstep
  <2> QED BY <1>1, <1>2, <1>7, <2>1, AdvanceCoupled DEF TypeOK
<1>8. ASSUME NEW r \in Ranks, Compare(r)
      PROVE  Coupled'
  <2>1. /\ Running(r) /\ Step(r) \in {"precise", "agree"} /\ Step(r) \notin Collectives
        /\ UNCHANGED <<given, waiting, captured, holds, clock>>
    BY <1>8 DEF Compare, At, Collectives
  <2>2. CASE Raise(r)
    BY <1>6, <2>1, <2>2
  <2>3. CASE Advance({r}) /\ \A q \in Ranks :
               IF Step(r) = "precise" THEN given[q].precision = given[r].precision
                                      ELSE given[q].split = given[r].split
    <3>1. /\ Step(r) = "precise" => SamePrecision
          /\ Step(r) = "agree" => SameSplit
      BY <2>3 DEF Ranks, SamePrecision, SameSplit
    <3> QED BY <1>1, <1>7, <2>1, <2>3, <3>1 DEF TypeOK
  <2> QED BY <1>8, <2>2, <2>3 DEF Compare
<1>9. ASSUME NEW r \in Ranks, Construct(r)
      PROVE  Coupled'
  <2>1. /\ Running(r) /\ Step(r) \in {"check", "select", "build"} /\ Step(r) \notin Collectives
        /\ UNCHANGED <<given, waiting, captured, holds, clock>>
        /\ Advance({r}) \/ Raise(r)
    BY <1>9 DEF Construct, At, Collectives
  <2> QED BY <1>1, <1>6, <1>7, <2>1 DEF TypeOK
<1>10. ASSUME NEW r \in Ranks, Record(r)
       PROVE  Coupled'
  <2>1. /\ Running(r) /\ Step(r) = "record" /\ Step(r) \notin Collectives
        /\ UNCHANGED <<given, waiting, holds, clock>>
    BY <1>10 DEF Record, At, Collectives
  <2>2. CASE Raise(r) /\ UNCHANGED captured
    BY <1>6, <2>1, <2>2
  <2>3. CASE Advance({r}) /\ captured' = [captured EXCEPT ![r] = TRUE]
    <3>1. Lockstep'
      BY <1>1, <2>1, <2>3, LocalLockstep
    <3> QED BY <1>1, <1>2, <2>1, <2>3, <3>1, AdvanceCoupled DEF TypeOK
  <2> QED BY <1>10, <2>2, <2>3 DEF Record
<1>11. ASSUME NEW r \in Ranks, FailAdvance(r)
       PROVE  Coupled'
  BY <1>1, <1>11, RaiseCoupled DEF FailAdvance, At, TypeOK
<1>12. ASSUME NEW r \in Ranks, Update(r)
       PROVE  Coupled'
  <2>1. /\ Running(r) /\ Step(r) = "update" /\ Step(r) \notin Collectives
        /\ UNCHANGED <<given, waiting, captured, holds>>
    BY <1>12 DEF Update, At, Collectives
  <2>2. CASE Raise(r) /\ UNCHANGED clock
    BY <1>6, <2>1, <2>2
  <2>3. CASE Advance({r}) /\ clock' = [clock EXCEPT ![r] = @ + 1]
    <3>1. clock' \in [Ranks -> Nat]
      BY <1>1, <2>3 DEF TypeOK
    <3> QED BY <1>7, <2>1, <2>3, <3>1
  <2> QED BY <1>12, <2>2, <2>3 DEF Update
<1>13. ASSUME NEW r \in Ranks, Accept(r)
       PROVE  Coupled'
  <2>1. /\ Running(r) /\ Step(r) = "accept" /\ Step(r) \notin Collectives /\ At(r, "accept")
        /\ UNCHANGED <<given, waiting, captured, holds, clock>>
    BY <1>13 DEF Accept, At, Collectives
  <2>2. CASE Raise(r)
    BY <1>6, <2>1, <2>2
  <2>3. CASE HeadersGood(call[r]) /\ Advance({r})
    BY <1>1, <1>7, <2>1, <2>3 DEF TypeOK
  <2>4. CASE ~HeadersGood(call[r]) /\ Move({r}, {r})
    BY <2>1, <2>4, LeaveCoupled
  <2> QED BY <1>13, <2>2, <2>3, <2>4 DEF Accept
<1>14. ASSUME NEW r \in Ranks, Restore(r)
       PROVE  Coupled'
  <2>1. /\ Running(r) /\ Step(r) = "restore" /\ Step(r) \notin Collectives /\ ~waiting[r]
        /\ UNCHANGED <<given, waiting, captured>>
    BY <1>2, <1>14 DEF Restore, At, Collectives
  <2>2. /\ call[r] \in Loads /\ call[r] \in Nat
        /\ File(r).clock \in Nat /\ Attempted(call[r])
    BY <1>1, <2>1, RestoreAt, FileTyped DEF RestoresTold, Call, File, Attempted
  <2>3. /\ clock' \in [Ranks -> Nat]
        /\ holds' \in [Ranks -> [fields : Nat, whole : BOOLEAN]]
        /\ \A q \in Ranks : holds'[q] = IF q = r THEN Filled(q) ELSE holds[q]
    <3>1. /\ Filled(r) \in [fields : Nat, whole : BOOLEAN]
          /\ holds \in [Ranks -> [fields : Nat, whole : BOOLEAN]] /\ clock \in [Ranks -> Nat]
      BY <1>1, <2>2 DEF Filled, TypeOK
    <3>2. CASE File(r).body = "state"
      BY <1>14, <3>1, <3>2 DEF Restore, Filled
    <3>3. CASE File(r).body # "state"
      <4>1. holds' = [holds EXCEPT ![r] = Filled(r)] /\ clock' = [clock EXCEPT ![r] = File(r).clock]
        BY <1>14, <3>3 DEF Restore, Filled
      <4> QED BY <2>2, <3>1, <4>1
    <3> QED BY <3>2, <3>3
  <2>4. CASE Advance({r})
    <3>1. Lockstep'
      BY <1>1, <2>1, <2>4, LocalLockstep
    <3>2. \A q \in Ranks : holds'[q] = IF q \in {r} /\ Step(q) = "restore" THEN Filled(q)
                                                                        ELSE holds[q]
      BY <2>1, <2>3
    <3> QED BY <1>1, <2>1, <2>3, <2>4, <3>1, <3>2, AdvanceCoupled DEF TypeOK
  <2>5. CASE Raise(r)
    <3>1. \/ holds'[r] = holds[r]
          \/ holds'[r].fields = call[r] /\ call[r] \in Loads /\ Attempted(call[r])
      BY <2>2, <2>3 DEF Filled
    <3>2. /\ \A q \in Ranks : q # r => holds'[q] = holds[q]
          /\ \A q \in Ranks : waiting'[q] => waiting[q] /\ q # r
      BY <2>1, <2>3
    <3> QED BY <1>1, <2>1, <2>3, <2>5, <3>1, <3>2, RaiseCoupled DEF TypeOK
  <2> QED BY <1>14, <2>4, <2>5 DEF Restore
<1>15. CASE UNCHANGED vars
  <2>1. UNCHANGED <<given, call, step, waiting, status, captured, holds, clock>>
    BY <1>15 DEF vars
  <2> QED BY <2>1 DEF Coupled, TypeOK, Lockstep, Resting, Compared, SamePrecision, SameSplit, Recorded, RestoresTold, HeldAttempted,
       Attempted, LastTaken, Took, Restores, HeadersGood, Passed, Running, Step, Call
<1> QED
  BY <1>3, <1>4, <1>5, <1>8, <1>9, <1>10, <1>11, <1>12, <1>13, <1>14, <1>15
  DEF Next, Terminated

\* The steps since the last restore are finitely many.
LEMMA SteppedFinite ==
  ASSUME TypeOK, NEW r \in Ranks
  PROVE  IsFiniteSet(Stepped(r)) /\ Cardinality(Stepped(r)) \in Nat
<1>1. Len(Program) \in Nat /\ DOMAIN Program = 1..Len(Program)
  BY Position
<1>2. IsFiniteSet(DOMAIN Program)
  BY <1>1, FS_Interval
<1>3. Stepped(r) \in SUBSET (DOMAIN Program)
  BY DEF Stepped
<1> HIDE DEF Stepped
<1> QED BY <1>2, <1>3, FS_Subset, FS_CardinalityType

\* The clock a rank's steps give it changes only by a restore or a step.
LEMMA SameClock ==
  ASSUME given' = given, NEW r \in Ranks, holds'[r] = holds[r],
         \A k \in DOMAIN Program : Program[k] = "advance" => (Passed(r, k, 2)' <=> Passed(r, k, 2))
  PROVE  ClockOf(r)' = ClockOf(r)
<1>1. Stepped(r)' = Stepped(r)
  BY DEF Stepped
<1> QED BY <1>1 DEF ClockOf

\* A rank that steps or restores has the clock its steps give it, as have those
\* that do neither.
LEMMA AdvanceClocked ==
  ASSUME TypeOK, RestoresTold, Clocked,
         NEW R \in SUBSET Ranks, Advance(R), \A r \in R : Running(r), given' = given,
         \A r \in Ranks : holds'[r] = IF r \in R /\ Step(r) = "restore" THEN Filled(r)
                                                                       ELSE holds[r],
         \A r \in Ranks : clock'[r] = IF r \in R /\ Step(r) = "update" THEN clock[r] + 1
                                      ELSE IF /\ r \in R /\ Step(r) = "restore"
                                              /\ File(r).body # "state"
                                           THEN File(r).clock ELSE clock[r]
  PROVE  Clocked'
<1> SUFFICES ASSUME NEW r \in Ranks, status'[r] # "raised"
             PROVE  clock'[r] = ClockOf(r)'
  BY DEF Clocked
<1>1. clock[r] = ClockOf(r) /\ LastTaken(r)
  BY AdvanceStatus DEF Clocked, RestoresTold
<1>2. ASSUME NEW k \in DOMAIN Program, Program[k] = "advance"
      PROVE  /\ Passed(r, k, 2)' <=> \/ Passed(r, k, 2)
                                     \/ r \in R /\ k = call[r] /\ Step(r) = "update"
             /\ k = call[r] => (step[r] = 2 <=> Step(r) = "update")
  <2>1. 2 \in 1..Len(Script(Program[k])) /\ Script(Program[k])[2] = "update"
    BY <1>2, Scripts
  <2>2. Passed(r, k, 2)' <=> Passed(r, k, 2) \/ (r \in R /\ k = call[r] /\ 2 = step[r])
    BY <2>1, AdvancePassed
  <2>3. k = call[r] => (step[r] = 2 <=> Step(r) = "update")
    BY <1>2, <2>1, Position, ScriptSteps
  <2> QED BY <2>2, <2>3
<1>3. PICK c \in DOMAIN Program : c = call[r]
  BY Position
<1>4. DOMAIN Program \subseteq Nat
  BY Position
<1>5. CASE r \in R /\ Step(r) = "update"
  <2>1. Program[c] = "advance" /\ step[r] = 2 /\ Running(r)
    BY <1>3, <1>5, Position, ScriptSteps
  <2>2. holds'[r] = holds[r]
    BY <1>5
  <2>3. c > holds[r].fields
    <3>1. c \in 1..Len(Program)
      BY Position
    <3>2. CASE holds[r].fields = 0
      BY <3>1, <3>2
    <3>3. CASE holds[r].fields # 0
      <4>1. holds[r].fields \in Loads /\ Took(r, holds[r].fields)
        BY <1>1, <3>3 DEF LastTaken
      <4>2. holds[r].fields \in DOMAIN Program /\ holds[r].fields # c
        BY <2>1, <4>1 DEF Loads
      <4>3. holds[r].fields <= c
        BY <1>3, <4>1, <4>2, PassedAt DEF Took, Restores
      <4> QED BY <1>4, <4>2, <4>3
    <3> QED BY <3>2, <3>3
  <2>4. ~Passed(r, c, 2)
    BY <1>3, <2>1, NotPassed
  <2>5. Stepped(r)' = Stepped(r) \cup {c}
    BY <1>2, <1>3, <1>5, <2>1, <2>2, <2>3 DEF Stepped
  <2>6. c \notin Stepped(r)
    BY <2>4 DEF Stepped
  <2>7. Cardinality(Stepped(r))' = Cardinality(Stepped(r)) + 1
    BY <2>5, <2>6, SteppedFinite, FS_AddElement
  <2>8. ASSUME holds[r].fields # 0
        PROVE  given[r].file[holds[r].fields].clock \in Nat
    BY <1>1, <2>8, FileTyped DEF LastTaken
  <2>9. ClockOf(r)' = ClockOf(r) + 1
    BY <2>2, <2>7, <2>8, SteppedFinite DEF ClockOf
  <2> QED BY <1>1, <1>5, <2>9
<1>6. CASE r \in R /\ Step(r) = "restore" /\ File(r).body # "state"
  <2>1. holds'[r].fields = c /\ c # 0
    <3>1. holds'[r] = [fields |-> call[r], whole |-> File(r).body = "good"]
      BY <1>6 DEF Filled
    <3> QED BY <1>3, <1>6, <3>1, RestoreAt
  <2>2. ASSUME NEW k \in DOMAIN Program, Program[k] = "advance", Passed(r, k, 2)'
        PROVE  ~(k > c)
    <3>1. Passed(r, k, 2)
      BY <1>2, <1>6, <2>2
    <3> QED BY <1>3, <1>4, <3>1, PassedAt
  <2>3. Stepped(r)' = {}
    BY <2>1, <2>2 DEF Stepped
  <2>4. ClockOf(r)' = File(r).clock + 0
    BY <1>3, <2>1, <2>3, FS_EmptySet DEF ClockOf, File
  <2>5. File(r).clock \in Nat
    BY <1>6, RestoreAt, FileTyped DEF File
  <2> QED BY <1>6, <2>4, <2>5
<1>7. CASE ~(r \in R /\ Step(r) \in {"update", "restore"})
           \/ (r \in R /\ Step(r) = "restore" /\ File(r).body = "state")
  <2>1. holds'[r] = holds[r] /\ clock'[r] = clock[r]
    BY <1>7 DEF Filled
  <2>2. ClockOf(r)' = ClockOf(r)
    BY <1>2, <1>7, <2>1, SameClock
  <2> QED BY <1>1, <2>1, <2>2
<1> QED BY <1>5, <1>6, <1>7

\* A rank that raises leaves the clock of the other alone; its own is void.
LEMMA RaiseClocked ==
  ASSUME TypeOK, Clocked, NEW q \in Ranks, Running(q), Raise(q), given' = given,
         \A r \in Ranks : r # q => holds'[r] = holds[r] /\ clock'[r] = clock[r]
  PROVE  Clocked'
<1> SUFFICES ASSUME NEW r \in Ranks, status'[r] # "raised"
             PROVE  clock'[r] = ClockOf(r)'
  BY DEF Clocked
<1>1. r # q /\ status[r] # "raised"
  BY RaisePassed DEF Raise, TypeOK
<1>2. \A k, s : Passed(r, k, s)' <=> Passed(r, k, s)
  BY RaisePassed
<1>3. ClockOf(r)' = ClockOf(r)
  BY <1>1, <1>2, SameClock
<1> QED BY <1>1, <1>3 DEF Clocked

\* No step has been taken at first, and every clock is at zero.
LEMMA InitClocked == Init => Clocked
<1> SUFFICES ASSUME Init, NEW r \in Ranks
             PROVE  clock[r] = ClockOf(r)
  BY DEF Clocked
<1>1. \A k \in DOMAIN Program : ~Passed(r, k, 1) /\ ~Passed(r, k, 2) /\ ~Passed(r, k, 3)
  BY ProgramAssumption DEF Init, Passed
<1>2. Stepped(r) = {} /\ holds[r].fields = 0
  BY <1>1 DEF Stepped, Init
<1> QED BY <1>2, FS_EmptySet DEF ClockOf, Init

\* Every step keeps the clocks at what the steps and restores before it give.
LEMMA NextClocked == Coupled /\ Clocked /\ [Next]_vars => Clocked'
<1> SUFFICES ASSUME Coupled, Clocked, [Next]_vars
             PROVE  Clocked'
  OBVIOUS
<1>1. TypeOK /\ Resting /\ RestoresTold
  BY DEF Coupled
<1>2. ASSUME UNCHANGED <<given, call, step, status, holds, clock>>
      PROVE  Clocked'
  <2> SUFFICES ASSUME NEW r \in Ranks, status[r] # "raised"
               PROVE  clock[r] = ClockOf(r)'
    BY <1>2 DEF Clocked
  <2>1. \A k, s : Passed(r, k, s)' <=> Passed(r, k, s)
    BY <1>2 DEF Passed
  <2>2. ClockOf(r)' = ClockOf(r)
    BY <1>2, <2>1, SameClock
  <2> QED BY <2>2 DEF Clocked
<1>3. ASSUME NEW r \in Ranks, Running(r), Raise(r), given' = given,
             \A q \in Ranks : q # r => holds'[q] = holds[q] /\ clock'[q] = clock[q]
      PROVE  Clocked'
  BY <1>1, <1>3, RaiseClocked
<1>4. ASSUME NEW R \in SUBSET Ranks, Advance(R), \A r \in R : Running(r), given' = given,
             UNCHANGED <<holds, clock>>, \A r \in R : Step(r) \notin {"update", "restore"}
      PROVE  Clocked'
  BY <1>1, <1>4, AdvanceClocked
<1>5. ASSUME Meet
      PROVE  Clocked'
  <2>1. /\ Advance(Ranks) /\ \A r \in Ranks : Running(r) /\ waiting[r]
        /\ given' = given /\ UNCHANGED <<holds, clock>>
    BY <1>5 DEF Meet
  <2>2. \A r \in Ranks : Step(r) \notin {"update", "restore"}
    BY <1>1, <2>1 DEF Resting, Collectives
  <2> QED BY <1>4, <2>1, <2>2
<1>6. ASSUME NEW r \in Ranks, Post(r)
      PROVE  Clocked'
  BY <1>2, <1>6 DEF Post
<1>7. ASSUME NEW r \in Ranks, TimeOut(r) \/ FailAdvance(r)
      PROVE  Clocked'
  BY <1>3, <1>7 DEF TimeOut, FailAdvance, At
<1>8. ASSUME NEW r \in Ranks, Compare(r) \/ Construct(r) \/ Record(r)
      PROVE  Clocked'
  <2>1. /\ Running(r) /\ Step(r) \notin {"update", "restore"} /\ given' = given /\ UNCHANGED <<holds, clock>>
        /\ Advance({r}) \/ Raise(r)
    BY <1>8 DEF Compare, Construct, Record, At
  <2> QED BY <1>3, <1>4, <2>1
<1>9. ASSUME NEW r \in Ranks, Update(r)
      PROVE  Clocked'
  <2>1. Running(r) /\ Step(r) = "update" /\ given' = given /\ holds' = holds
    BY <1>9 DEF Update, At
  <2>2. CASE Raise(r) /\ UNCHANGED clock
    BY <1>3, <2>1, <2>2
  <2>3. CASE Advance({r}) /\ clock' = [clock EXCEPT ![r] = @ + 1]
    <3>1. \A q \in Ranks : clock'[q] = IF q \in {r} /\ Step(q) = "update" THEN clock[q] + 1
                                       ELSE IF /\ q \in {r} /\ Step(q) = "restore"
                                               /\ File(q).body # "state"
                                            THEN File(q).clock ELSE clock[q]
      BY <1>1, <2>1, <2>3 DEF TypeOK
    <3>2. \A q \in Ranks : holds'[q] = IF q \in {r} /\ Step(q) = "restore" THEN Filled(q)
                                                                        ELSE holds[q]
      BY <2>1
    <3> QED BY <1>1, <2>1, <2>3, <3>1, <3>2, AdvanceClocked
  <2> QED BY <1>9, <2>2, <2>3 DEF Update
<1>10. ASSUME NEW r \in Ranks, Accept(r)
       PROVE  Clocked'
  <2>1. /\ At(r, "accept") /\ Running(r) /\ Step(r) \notin {"update", "restore"}
        /\ given' = given /\ UNCHANGED <<holds, clock>>
    BY <1>10 DEF Accept, At
  <2>2. CASE Advance({r}) \/ Raise(r)
    BY <1>3, <1>4, <2>1, <2>2
  <2>3. CASE ~HeadersGood(call[r]) /\ Move({r}, {r})
    <3> SUFFICES ASSUME NEW q \in Ranks, status'[q] # "raised"
                 PROVE  clock'[q] = ClockOf(q)'
      BY DEF Clocked
    <3>1. status[q] # "raised"
      BY <1>1, <2>1, <2>3 DEF Move, Running, TypeOK
    <3>2. ASSUME NEW k \in DOMAIN Program, Program[k] = "advance"
          PROVE  Passed(q, k, 2)' <=> Passed(q, k, 2)
      <4>1. 2 \in 1..Len(Script(Program[k]))
        BY <3>2, Scripts
      <4> QED BY <1>1, <2>1, <2>3, <3>2, <4>1, LeavePassed
    <3>3. ClockOf(q)' = ClockOf(q)
      BY <2>1, <3>2, SameClock
    <3> QED BY <2>1, <3>1, <3>3 DEF Clocked
  <2> QED BY <1>10, <2>2, <2>3 DEF Accept
<1>11. ASSUME NEW r \in Ranks, Restore(r)
       PROVE  Clocked'
  <2>1. Running(r) /\ Step(r) = "restore" /\ given' = given
    BY <1>11 DEF Restore, At
  <2>2. \A q \in Ranks :
          /\ holds'[q] = IF q = r THEN Filled(q) ELSE holds[q]
          /\ clock'[q] = IF q = r /\ File(q).body # "state" THEN File(q).clock ELSE clock[q]
    BY <1>1, <1>11 DEF Restore, Filled, TypeOK
  <2>3. CASE Advance({r})
    <3>1. /\ \A q \in Ranks : holds'[q] = IF q \in {r} /\ Step(q) = "restore" THEN Filled(q)
                                                                           ELSE holds[q]
          /\ \A q \in Ranks : clock'[q] = IF q \in {r} /\ Step(q) = "update" THEN clock[q] + 1
                                          ELSE IF /\ q \in {r} /\ Step(q) = "restore"
                                                  /\ File(q).body # "state"
                                               THEN File(q).clock ELSE clock[q]
      BY <2>1, <2>2
    <3> QED BY <1>1, <2>1, <2>3, <3>1, AdvanceClocked
  <2>4. CASE Raise(r)
    BY <1>3, <2>1, <2>2, <2>4
  <2> QED BY <1>11, <2>3, <2>4 DEF Restore
<1>12. CASE UNCHANGED vars
  BY <1>2, <1>12 DEF vars
<1> QED
  BY <1>5, <1>6, <1>7, <1>8, <1>9, <1>10, <1>11, <1>12 DEF Next, Terminated

\* A rank is never a collective ahead of the other, knows of the other what the
\* collectives it passed told it, and counts every step since its last restore,
\* in every session of every program.
THEOREM Inductive == Spec => []IInv
<1>1. Init => IInv
  BY InitCoupled, InitClocked DEF IInv
<1>2. IInv /\ [Next]_vars => IInv'
  BY NextCoupled, NextClocked DEF IInv
<1> QED BY <1>1, <1>2, PTL DEF Spec

\* The part of the invariant about what the ranks know of one another.
LEMMA CoupledHolds == Spec => []Coupled
<1>1. IInv => Coupled
  BY DEF IInv
<1> QED BY <1>1, Inductive, PTL

\* The collectives of the two ranks are matched: ranks that wait for one another
\* wait in the same collective of the same call (torch_distributed.py).
THEOREM CollectivesMatchHolds == Spec => []CollectivesMatch
<1>1. Coupled => CollectivesMatch
  BY SamePlace DEF Coupled, CollectivesMatch
<1> QED BY <1>1, CoupledHolds, PTL

\* No rank builds its slab unless the precisions and the decompositions of both
\* agree: building comes after both comparisons, each of which stops a mismatch.
THEOREM BuildsAgreeHolds == Spec => []BuildsAgree
<1>1. Coupled => BuildsAgree
  <2> SUFFICES ASSUME Coupled, NEW r \in Ranks, call[r] > 1 \/ Step(r) = "build"
               PROVE  SamePrecision /\ SameSplit
    BY DEF BuildsAgree
  <2>1. call[r] \in DOMAIN Program /\ Program[1] = "construct"
    BY Position, ProgramAssumption DEF Coupled
  <2>2. Passed(r, 1, 4) /\ Passed(r, 1, 8)
    <3>1. CASE call[r] > 1
      BY <3>1 DEF Passed
    <3>2. CASE Step(r) = "build"
      <4>1. /\ Program[call[r]] \in CallNames /\ step[r] \in 1..Len(Script(Program[call[r]]))
            /\ Script(Program[call[r]])[step[r]] = "build"
        BY <3>2, Position DEF Coupled
      <4>2. Program[call[r]] = "construct" /\ step[r] = 9
        BY <4>1, ScriptSteps
      <4>3. call[r] = 1
        BY <2>1, <4>2, ProgramAssumption
      <4> QED BY <4>2, <4>3 DEF Passed
    <3> QED BY <3>1, <3>2
  <2> QED BY <2>2 DEF Coupled, Compared
<1> QED BY <1>1, CoupledHolds, PTL

\* capture_cuda_graphs() returns on no rank before both have recorded: the rank
\* that returned passed the last barrier, and so did the other, after recording.
THEOREM CaptureAgreesHolds == Spec => []CaptureAgrees
<1>1. Coupled => CaptureAgrees
  <2> SUFFICES ASSUME Coupled, NEW r \in Ranks, NEW k \in DOMAIN Program,
                      Program[k] = "capture", Returned(r, k)
               PROVE  \A q \in Ranks : captured[q]
    BY DEF CaptureAgrees, Ranks
  <2>1. /\ 3 \in 1..Len(Script(Program[k]))
        /\ Script(Program[k])[3] \in Collectives
    BY Scripts DEF Collectives
  <2>2. Passed(r, k, 3)
    BY DEF Returned, Passed
  <2>3. \A q \in Ranks : Passed(q, k, 3)
    BY <2>1, <2>2 DEF Coupled, Lockstep, Ranks
  <2>4. \A q \in Ranks : Passed(q, k, 2)
    BY <2>3 DEF Passed, Coupled, TypeOK
  <2> QED BY <2>4 DEF Coupled, Recorded
<1> QED BY <1>1, CoupledHolds, PTL

\* One bad header refuses the checkpoint on both ranks before either restores,
\* wherever load_checkpoint() stands in the program: no rank ever holds it.
THEOREM BadHeaderRestoresNothingHolds == Spec => []BadHeaderRestoresNothing
<1>1. Coupled => BadHeaderRestoresNothing
  <2> SUFFICES ASSUME Coupled, NEW k \in Loads, Program[k] = "load", ~HeadersGood(k),
                      NEW r \in Ranks, holds[r].fields = k
               PROVE  FALSE
    BY DEF BadHeaderRestoresNothing
  <2>1. k # 0
    BY ProgramAssumption DEF Loads
  <2> QED BY <2>1 DEF Coupled, HeldAttempted, Attempted
<1> QED BY <1>1, CoupledHolds, PTL

\* Ranks that wait for the halo of a step are in one call, and passed the same
\* steps: none of them raised.
LEMMA MeetingPassed ==
  ASSUME Coupled, Meeting
  PROVE  /\ call[0] = call[1] /\ call[0] \in DOMAIN Program /\ call[0] \in Nat
         /\ Program[call[0]] = "advance"
         /\ \A r \in Ranks : status[r] = "running" /\ call[r] = call[0]
         /\ \A k, s : Passed(0, k, s) <=> Passed(1, k, s)
<1>1. 0 \in Ranks /\ 1 \in Ranks /\ waiting[0] /\ waiting[1] /\ Step(0) = "halo"
  BY DEF Meeting, Ranks
<1>2. call[0] = call[1] /\ step[0] = step[1]
  BY <1>1, SamePlace DEF Coupled
<1>3. status[0] = "running" /\ status[1] = "running"
  BY <1>1 DEF Coupled, Resting, Running
<1>4. call[0] \in DOMAIN Program /\ DOMAIN Program \subseteq Nat
  BY <1>1, Position DEF Coupled
<1>5. Program[call[0]] = "advance"
  BY <1>1, Position, ScriptSteps DEF Coupled
<1>6. \A k, s : Passed(0, k, s) <=> Passed(1, k, s)
  BY <1>2, <1>3 DEF Passed
<1> QED BY <1>2, <1>3, <1>4, <1>5, <1>6 DEF Ranks

\* Of ranks that meet, each came through the restore of just the loads that were
\* attempted before.
LEMMA MeetingRestores ==
  ASSUME Coupled, Meeting, NEW r \in Ranks, NEW k \in Loads
  PROVE  Restores(r, k) <=> k < call[0] /\ Attempted(k)
<1>1. /\ k \in DOMAIN Program /\ DOMAIN Program \subseteq Nat
      /\ Program[k] = "load" \/ Program[k] = "loadFile"
  BY ProgramAssumption DEF Loads
<1>2. /\ call[r] = call[0] /\ call[0] \in Nat /\ k # call[0] /\ status[r] = "running"
  BY <1>1, MeetingPassed
<1>3. ASSUME NEW s PROVE Passed(r, k, s) <=> k < call[0]
  BY <1>1, <1>2 DEF Passed
<1> QED BY <1>1, <1>3 DEF Restores, Attempted

\* The load a rank holds that some rank refused in part is the cause of a mix: it
\* was not accepted, and no load that was came after it.
LEMMA RefusalFound ==
  ASSUME Coupled, Meeting, NEW r \in Ranks, NEW q \in Ranks, holds[r].fields # 0,
         given[q].file[holds[r].fields].body # "good"
  PROVE  \E k \in Loads :
           /\ k < call[0] /\ Attempted(k) /\ ~Accepted(k)
           /\ \A i \in Loads : k < i /\ i < call[0] => ~Accepted(i)
<1>1. LastTaken(r)
  BY MeetingPassed DEF Coupled, RestoresTold
<1>2. PICK k \in Loads : k = holds[r].fields /\ Took(r, k)
  BY <1>1 DEF LastTaken
<1>3. k < call[0] /\ Attempted(k) /\ ~Accepted(k)
  BY <1>2, MeetingRestores DEF Took, Accepted
<1>4. ASSUME NEW i \in Loads, k < i, i < call[0], Accepted(i)
      PROVE  FALSE
  <2>1. Restores(r, i) /\ given[r].file[i].body # "state"
    BY <1>4, MeetingRestores DEF Accepted
  <2>2. i <= k
    BY <1>1, <1>2, <2>1 DEF LastTaken, Took
  <2>3. i \in Nat /\ k \in Nat
    BY ProgramAssumption DEF Loads
  <2> QED BY <1>4, <2>2, <2>3
<1> QED BY <1>3, <1>4

\* Ranks that step on together with unlike or half restored checkpoints come from
\* a load whose body a rank refused and that no accepted load followed: they
\* passed the same restores, and each holds the last one it took fields from.
THEOREM MixedOnlyAfterRefusalHolds == Spec => []MixedOnlyAfterRefusal
<1>1. Coupled => MixedOnlyAfterRefusal
  <2> SUFFICES ASSUME Coupled, Meeting, holds[0] # holds[1] \/ ~holds[0].whole
               PROVE  \E r, q \in Ranks :
                        /\ holds[r].fields # 0
                        /\ given[q].file[holds[r].fields].body # "good"
    BY RefusalFound DEF MixedOnlyAfterRefusal
  <2>1. 0 \in Ranks /\ 1 \in Ranks /\ LastTaken(0) /\ LastTaken(1)
    BY MeetingPassed DEF Coupled, RestoresTold, Ranks
  <2>2. ASSUME NEW r \in Ranks, LastTaken(r), ~holds[r].whole
        PROVE  holds[r].fields # 0 /\ given[r].file[holds[r].fields].body # "good"
    BY <2>2 DEF LastTaken
  <2>3. ASSUME NEW r \in Ranks, NEW q \in Ranks, LastTaken(r), LastTaken(q),
               holds[q].fields < holds[r].fields
        PROVE  holds[r].fields # 0 /\ given[q].file[holds[r].fields].body # "good"
    <3>1. holds[q].fields \in Nat /\ holds[r].fields \in Nat
      BY DEF Coupled, TypeOK
    <3>2. PICK k \in Loads : k = holds[r].fields /\ Took(r, k)
      BY <2>3, <3>1 DEF LastTaken
    <3>3. Restores(q, k)
      BY <3>2, MeetingRestores DEF Took
    <3>4. ~Took(q, k)
      BY <2>3, <3>1, <3>2 DEF LastTaken
    <3> QED BY <2>3, <3>1, <3>2, <3>3, <3>4 DEF Took
  <2>4. CASE holds[0].fields # holds[1].fields
    <3>1. holds[0].fields \in Nat /\ holds[1].fields \in Nat
      BY <2>1 DEF Coupled, TypeOK
    <3>2. holds[0].fields < holds[1].fields \/ holds[1].fields < holds[0].fields
      BY <2>4, <3>1
    <3> QED BY <2>1, <2>3, <3>2
  <2>5. CASE holds[0].fields = holds[1].fields
    <3>1. ~holds[0].whole \/ ~holds[1].whole
      <4>1. \A x, y \in [fields : Nat, whole : BOOLEAN] :
              x.fields = y.fields /\ x.whole /\ y.whole => x = y
        OBVIOUS
      <4>2. holds[0] \in [fields : Nat, whole : BOOLEAN] /\ holds[1] \in [fields : Nat, whole : BOOLEAN]
        BY <2>1 DEF Coupled, TypeOK
      <4> QED BY <2>5, <4>1, <4>2
    <3> QED BY <2>1, <2>2, <3>1
  <2> QED BY <2>4, <2>5
<1> QED BY <1>1, CoupledHolds, PTL

\* Ranks that step on together with the fields of one load are at one step when
\* its checkpoints are of one: each counted from there, whatever was refused in
\* part, caught or handled on the way.
THEOREM StepsAgreeHolds == Spec => []StepsAgree
<1>1. IInv => StepsAgree
  <2> SUFFICES ASSUME IInv, Meeting, holds[0].fields = holds[1].fields,
                      holds[0].fields # 0 => given[0].file[holds[0].fields].clock
                                            = given[1].file[holds[0].fields].clock
               PROVE  clock[0] = clock[1]
    BY DEF StepsAgree
  <2>1. \A r \in Ranks : status[r] = "running"
    BY MeetingPassed DEF IInv
  <2>2. \A k, s : Passed(0, k, s) <=> Passed(1, k, s)
    BY MeetingPassed DEF IInv
  <2>3. Stepped(0) = Stepped(1)
    BY <2>2 DEF Stepped
  <2>4. ClockOf(0) = ClockOf(1)
    BY <2>3 DEF ClockOf
  <2> QED BY <2>1, <2>4 DEF IInv, Clocked, Ranks
<1> QED BY <1>1, Inductive, PTL
================================================================================
