---------------------------- MODULE DistributedYee ----------------------------
(***************************************************************************)
(* TorchDistributedSimulation.advance() with its fields: the two slabs of  *)
(* a split box step under the control of HaloProtocol and exchange one     *)
(* plane per tangential component.  The dense update runs on stale ghosts  *)
(* while the halo travels; finish() repairs it with the difference the     *)
(* halo makes.  The slabs must agree with the unsplit solver.              *)
(***************************************************************************)
EXTENDS YeeGrid, HaloProtocol

CONSTANTS
  Partitions,     \* the [n, axis, cut, sources] considered: grid, split axis, cell
                  \* of the cut, point sources
  HostFields(_)   \* the sets of global arrays given to load_host_fields()

ASSUME PartitionAssumption ==
  /\ \A p \in Partitions : /\ p.n \in [Axes -> Nat \ {0}] /\ p.axis \in Axes
                           /\ p.cut \in 2..(p.n[p.axis] - 2)
                           /\ p.sources \in Seq(PointSource)

\* Coefficients and fields are given for the cells of the grid.
ASSUME ArrayAssumption ==
  \A p \in Partitions :
    /\ \A c \in Component : \A v \in Cells(p.n, c) : Inverse(c, v) \in Int
    /\ \A F \in HostFields(p.n) :
         /\ DOMAIN F = Component
         /\ \A c \in Component : F[c] \in [Cells(p.n, c) -> 0..(P - 1)]

VARIABLES
  split,    \* the TwoGpuDecomposition, equal on both ranks
  serial,   \* the states of the single-process solver from the same arrays
  slab,     \* slab[r]: fields and polarisations of rank r
  send,     \* send[r][c]: persistent send buffer of component c
  receive   \* receive[r][c]: persistent receive buffer

data == <<split, serial, slab, send, receive>>
vars == <<data, control>>

Whole == Serial(split.n)

\* The slab of rank r.
Box(p, r) == RankLocal(p.n, p.axis, p.cut, r)

Slab(r) == Box(split, r)

\* The components exchanged along the split axis, and the cells of one plane.
HaloComponents(family) == {<<family, a>> : a \in Axes \ {split.axis}}
Plane(p, c) == {v \in Cells(p.n, c) : v[p.axis] = 0}

Transverse(p) == {c \in Component : c[2] # p.axis}

\* What a rank sends in a phase and where it puts what it receives.
Carried(h) == Other(Family(h))
SendIndex(r, family) == IF family = "H" THEN Slab(r).n[split.axis] ELSE 0
ReceiveIndex(r, family) == IF family = "H" THEN 0 ELSE Slab(r).n[split.axis]

\* A plane that crosses the global boundary takes the Bloch phase.
WrapFactor(r, family) ==
  IF (family = "H" /\ r = 1) \/ (family = "E" /\ r = 0)
  THEN WrapPhase(family, split.axis) ELSE 1

-----------------------------------------------------------------------------
\* Each rank copies its slice, ghosts included, of the global arrays.
LoadHostFields(F, p, r) ==
  [c \in Component |->
     [v \in Cells(Box(p, r).n, c) |-> F[c][Global(Box(p, r), v)]]]

Start(F, b, sources) ==
  [F |-> F, Q |-> [d \in PoleCells(b) |-> <<0, 0>>], points |-> PointSources(b, sources)]

Init ==
  /\ HaloInit
  /\ split \in {p \in Partitions : \A r \in Ranks, i \in DOMAIN p.sources :
                                    Lowers(Box(p, r), p.sources[i])}
  /\ \E F \in HostFields(split.n) :
       /\ serial = Trajectory(Start(F, Whole, split.sources), Whole, Steps)
       /\ slab = [r \in Ranks |->
                     Start(LoadHostFields(F, split, r), Slab(r), split.sources)]
  /\ send = [r \in Ranks |-> [c \in Transverse(split) |-> [v \in Plane(split, c) |-> 0]]]
  /\ receive = send

\* Wrap the unsplit axes, then pack and post the boundary planes.
Begin(r) ==
  /\ HaloBegin(r)
  /\ LET family == Carried(half[r])
         synced == Synced(slab[r], half[r], Slab(r), split.axis)
         packed == [c \in HaloComponents(family) |->
                      [v \in Plane(split, c) |->
                         (WrapFactor(r, family)
                           * synced.F[c][At(v, split.axis, SendIndex(r, family))]) % P]]
     IN  /\ slab' = [slab EXCEPT ![r] = synced]
         /\ send' = [send EXCEPT ![r] = [c \in DOMAIN @ |->
                       IF c[1] = family THEN packed[c] ELSE @[c]]]
  /\ UNCHANGED <<split, serial, receive>>

\* Update every active cell, those next to the cut from the old ghosts.
Compute(r) ==
  /\ HaloCompute(r)
  /\ slab' = [slab EXCEPT ![r] = Densed(@, half[r], Slab(r))]
  /\ UNCHANGED <<split, serial, send, receive>>

\* The transfers write the receive buffers the peer's batch is meant for:
\* those of the phase the receiving rank posted.
Deliver(r) ==
  /\ HaloDeliver(r)
  /\ receive' = [receive EXCEPT ![r] = [c \in DOMAIN @ |->
                   IF c[1] = Carried(half[r])
                   THEN send[Peer(r)][<<Carried(half[Peer(r)]), c[2]>>] ELSE @[c]]]
  /\ UNCHANGED <<split, serial, slab, send>>

-----------------------------------------------------------------------------
\* Variant of GhostDelta with a plausible error: the old ghost is not subtracted.
GhostDeltaUnpaired(r, g, v) == receive[r][g][At(v, split.axis, 0)]

\* The change the halo brings to the ghost plane that drives component c.
GhostDelta(r, g, v) ==
  receive[r][g][At(v, split.axis, 0)]
    - slab[r].F[g][At(v, split.axis, ReceiveIndex(r, g[1]))]

\* The axis that is neither the component's own nor the split one.
Third(a) == 6 - a - split.axis

BoundaryCorrection(r, family) ==
  [c \in Component |->
     IF c[1] # family \/ c[2] = split.axis THEN slab[r].F[c]
     ELSE LET a    == c[2]
              t    == Third(a)
              g    == <<Other(family), t>>
              edge == IF family = "E" THEN 0 ELSE Slab(r).n[split.axis]
              sign == IF split.axis = AxisC(a) THEN 1 ELSE -1
          IN  [v \in Cells(Slab(r).n, c) |->
                 IF v[split.axis] = edge /\ Active(Slab(r), c, v)
                 THEN (slab[r].F[c][v]
                        + DenseInverse(c, Global(Slab(r), v)) * sign * Rate[split.axis]
                          * GhostDelta(r, g, IF family = "E" THEN Shift(v, a, 1)
                                                             ELSE Shift(v, t, -1))) % P
                 ELSE slab[r].F[c][v]]]

FillGhosts(F, r, family) ==
  [c \in Component |->
     IF c \notin HaloComponents(family) THEN F[c]
     ELSE [v \in DOMAIN F[c] |->
             IF v[split.axis] = ReceiveIndex(r, family)
             THEN receive[r][c][At(v, split.axis, 0)] ELSE F[c][v]]]

\* Wait, correct the boundary with the old ghosts, then replace them.
Finish(r) ==
  /\ HaloFinish(r)
  /\ slab' = [slab EXCEPT ![r] =
                Fields(@, FillGhosts(BoundaryCorrection(r, Family(half[r])),
                                     r, Carried(half[r])))]
  /\ UNCHANGED <<split, serial, send, receive>>

\* Materials and sources run on the completed half step.
Post(r) ==
  /\ HaloPost(r)
  /\ slab' = [slab EXCEPT ![r] = Completed(@, half[r], Slab(r))]
  /\ UNCHANGED <<split, serial, send, receive>>

Terminated == HaloTerminated /\ UNCHANGED data

\* A rank that raises contributes no further state, so failures are left out.
Next ==
  \/ \E r \in Ranks : Begin(r) \/ Compute(r) \/ Deliver(r) \/ Finish(r) \/ Post(r)
  \/ Terminated

Spec == Init /\ [][Next]_vars

-----------------------------------------------------------------------------
\* Whenever a rank is between half steps, every cell it updates holds what the
\* single-process solver holds after the same number of half steps, and so
\* does every polarisation: halo, correction and overlap are invisible.
OwnedMatchesSerial ==
  \A r \in Ranks : pc[r] = "idle" =>
    LET now == serial[half[r]]
    IN  /\ \A c \in Component : \A v \in Cells(Slab(r).n, c) :
             Active(Slab(r), c, v) => slab[r].F[c][v] = now.F[c][Global(Slab(r), v)]
        /\ \A d \in DOMAIN slab[r].Q :
             slab[r].Q[d] = now.Q[<<d[1], Global(Slab(r), d[2])>>]

\* A probe on the outer plane that a wrap fills is moved to the cell it images.
ProbeCell(c, g) ==
  IF c[2] = split.axis THEN g
  ELSE IF c[1] = "E" /\ g[split.axis] = split.n[split.axis] THEN At(g, split.axis, 0)
  ELSE IF c[1] = "H" /\ g[split.axis] = 0 THEN At(g, split.axis, split.n[split.axis])
  ELSE g

\* Variant of ProbeOwner with a plausible error: both families cut alike.
ProbeOwnerLow(c, g) == IF ProbeCell(c, g)[split.axis] < split.cut THEN 0 ELSE 1

\* The rank that records a probe at global cell g.
ProbeOwner(c, g) ==
  LET at == ProbeCell(c, g)[split.axis]
  IN  IF c[1] = "E" \/ c[2] = split.axis THEN (IF at < split.cut THEN 0 ELSE 1)
                                         ELSE (IF at <= split.cut THEN 0 ELSE 1)

\* Every probe is recorded by its rank as the single-process solver holds it in
\* that half step, on wrap planes of the other axes and in their corners too.
ProbesMatchSerial ==
  \A c \in Component : \A g \in Cells(split.n, c) :
    LET r == ProbeOwner(c, g)
        v == Local(Slab(r), ProbeCell(c, g))
    IN  /\ v \in Cells(Slab(r).n, c)
        /\ pc[r] = "idle" => slab[r].F[c][v] = serial[half[r]].F[c][ProbeCell(c, g)]

\* Variant of Gathered with a plausible error: both families cut alike.
GatheredLow(r, c, v) ==
  c[2] # split.axis => (r = 0 => v[split.axis] < Slab(0).n[split.axis])

\* The part of a slab global_field_snapshot() takes from rank r: the shared
\* plane comes from the rank that updates it, the outer one from the other.
Gathered(r, c, v) ==
  c[2] # split.axis =>
    IF c[1] = "E" THEN r = 0 => v[split.axis] < Slab(0).n[split.axis]
                  ELSE r = 1 => v[split.axis] >= 1

\* The snapshot: joined along the split axis, rank 0 first.
Snapshot(c) ==
  [g \in Cells(split.n, c) |->
     LET r == CHOOSE r \in Ranks : \E v \in Cells(Slab(r).n, c) :
                Gathered(r, c, v) /\ Global(Slab(r), v) = g
     IN  slab[r].F[c][Local(Slab(r), g)]]

\* A snapshot taken after a whole number of steps is array for array, wrap
\* planes included, the one of the single-process solver.
SnapshotMatchesSerial ==
  half[0] = half[1] /\ half[0] % 2 = 0 /\ (\A r \in Ranks : pc[r] = "idle")
    => \A c \in Component : Snapshot(c) = serial[half[0]].F[c]

\* A magnetic source beyond the plane of the cut is lowered by neither rank, as
\* LostSources shows; the proofs are about the partitions without one.
MagneticBelowCut(p) ==
  \A i \in DOMAIN p.sources : p.sources[i].c[1] = "H" => p.sources[i].v[p.axis] < p.cut

(***************************************************************************)
(* The strengthening that makes these inductive.  Wrapped(h) are the       *)
(* fields half step h of the single-process solver reads, Driven(h) what   *)
(* its dense update makes of them.                                         *)
(***************************************************************************)
Wrapped(h) == Sync(serial[h].F, Carried(h), Whole, 0)
Driven(h) == Dense(Wrapped(h), Family(h), Whole)

\* The plane a rank receives, and the one of them that its peer updates.
Ghost(r, c, v) == c[2] # split.axis /\ v[split.axis] = ReceiveIndex(r, c[1])
Shared(r, c, v) == Ghost(r, c, v) /\ (r = 0 <=> c[1] = "E")

\* What a slab holds between half steps, while the halo travels, after the
\* dense update, and after the correction.
Settled(F, r, h) ==
  \A c \in Component : \A v \in Cells(Slab(r).n, c) :
    ~Shared(r, c, v) => F[c][v] = serial[h].F[c][Global(Slab(r), v)]

Launched(F, r, h) ==
  \A c \in Component : \A v \in Cells(Slab(r).n, c) :
    /\ c[1] = Carried(h) /\ ~Ghost(r, c, v) => F[c][v] = Wrapped(h)[c][Global(Slab(r), v)]
    /\ c[1] = Family(h) /\ ~Shared(r, c, v) => F[c][v] = serial[h].F[c][Global(Slab(r), v)]

Updated(F, r, h) ==
  \A c \in Component : \A v \in Cells(Slab(r).n, c) :
    LET g == Global(Slab(r), v)
    IN  /\ c[1] = Carried(h) /\ ~Ghost(r, c, v) => F[c][v] = Wrapped(h)[c][g]
        /\ c[1] = Family(h) /\ ~Shared(r, c, v) =>
             F[c][v] = IF Active(Slab(r), c, v)
                       THEN (serial[h].F[c][g] + DenseInverse(c, g) * Curl(F, c, v)) % P
                       ELSE serial[h].F[c][g]

Repaired(F, r, h) ==
  \A c \in Component : \A v \in Cells(Slab(r).n, c) :
    c[1] = Carried(h) \/ ~Shared(r, c, v) => F[c][v] = Driven(h)[c][Global(Slab(r), v)]

Coupled(r) ==
  /\ pc[r] = "idle" => Settled(slab[r].F, r, half[r])
  /\ pc[r] = "launched" => Launched(slab[r].F, r, half[r])
  /\ pc[r] = "computed" => Updated(slab[r].F, r, half[r])
  /\ pc[r] = "corrected" => Repaired(slab[r].F, r, half[r])

\* What is on its way to a ghost plane, and what has arrived for it.
Image(h, r, c, v) ==
  Wrapped(h)[c][Global(Slab(r), At(v, split.axis, ReceiveIndex(r, c[1])))]

InFlight(r) ==
  \A c \in HaloComponents(Carried(half[r])) : \A v \in Plane(split, c) :
    /\ sending[r] => send[r][c][v] = Image(half[r], Peer(r), c, v)
    /\ pc[r] \in {"launched", "computed"} /\ ~awaiting[r]
         => receive[r][c][v] = Image(half[r], r, c, v)

IsFields(F, n) == \A c \in Component : F[c] \in [Cells(n, c) -> 0..(P - 1)]

IsState(S, b) ==
  /\ S = [F |-> S.F, Q |-> S.Q, points |-> S.points]
  /\ IsFields(S.F, b.n)
  /\ S.Q \in [PoleCells(b) -> Int \X Int]
  /\ S.points = PointSources(b, split.sources)

\* The single-process run, and the shapes of the slabs and buffers.
Typed ==
  /\ split \in Partitions
  /\ \A h \in 0..(2 * Steps) : IsState(serial[h], Whole)
  /\ \A h \in 0..(2 * Steps - 1) : serial[h + 1] = HalfStep(serial[h], h, Whole)
  /\ DOMAIN slab = Ranks
  /\ \A r \in Ranks : IsState(slab[r], Slab(r))
  /\ \A r \in Ranks : \A d \in DOMAIN slab[r].Q :
       slab[r].Q[d] = serial[half[r]].Q[<<d[1], Global(Slab(r), d[2])>>]
  /\ DOMAIN send = Ranks /\ DOMAIN receive = Ranks
  /\ \A r \in Ranks : DOMAIN send[r] = Transverse(split) /\ DOMAIN receive[r] = Transverse(split)

IInv ==
  /\ HaloIInv
  /\ MagneticBelowCut(split)
  /\ Typed
  /\ \A r \in Ranks : Coupled(r) /\ InFlight(r)
=============================================================================
