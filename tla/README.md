# Formal models of GMES

GMES simulates Maxwell's equations by the finite-difference time-domain method.
This directory holds TLA+ specifications of its Torch runtime (`gmes/torch_*.py`) and of
what that runtime is built from: geometry, materials and sources (`gmes/pygeom.py`,
`gmes/geometry.py`, `gmes/material.py`, `gmes/source.py`). TLC configurations check them
on small instances, and theorems that TLAPS proves hold for every value of the
constants. `PROJECT.json` maps every definition to the source lines it models and lists
the runs, mutants, findings, hazards and theorems; `src/` below stands for the root of
the repository.

## The system

| Part | State | Operations | Talks to |
|---|---|---|---|
| Geometry tree (`pygeom.py`) | a binary tree of boxes with lists of objects | `branch_out`, `object_of_point`, `lower_grid` | planner, materials |
| Grid (`geometry.py`) | the shape of the domain and the view a rank has of it | index and space conversions | all that follow |
| Planner (`torch_plan.py`) | immutable buckets, stencils, region keys, residual axes, dense plane | `build` | geometry tree, materials |
| Sources (`source.py`, `torch_source.py`) | point batches, transparent batches with auxiliary simulations | lowering, `apply`, `step_auxiliaries` | fields |
| `TorchSimulation` (`torch_fdtd.py`) | six field tensors, material state, `step_count`, `source_time`, captured graphs | `advance`, `capture_cuda_graphs`, `checkpoint`, `load_checkpoint`, `load_host_fields`, `save_checkpoint` | plan, sources, probes, halo exchange |
| Dispersive buckets, absorbers, DM2 (`torch_dispersive.py`, `torch_fdtd.py`, `torch_dm2.py`) | polarisations, CPML memory, arenas of grouped buckets, solver status | updates of a half step | fields |
| `TorchProbeBuffer` (`torch_output.py`) | device rings with `write_count`, `total_count` | `record`, `flush`, `checkpoint`, `load_checkpoint` | fields |
| `TorchHaloExchange` (`torch_distributed.py`) | send and receive buffers, `_works`, `_phase` | `begin`, `finish` | the peer rank, through NCCL |
| `TorchDistributedSimulation` (`torch_distributed.py`) | decomposition, rank, local simulation | choice of the cut, construction handshake, `advance`, `capture_cuda_graphs`, `load_checkpoint`, `load_host_fields`, `global_field_snapshot` | the peer rank, through collectives |

A step is a leapfrog: synchronise the magnetic boundaries, update the electric
fields, materials, sources and probes, then the same for the magnetic fields, then
count. On two ranks each half step also sends one plane per tangential component
to the peer, and the dense update runs while the planes travel.

What is hard about it, and what makes each part correct:

* the halo transfers carry no tag, overlap with the update that should consume them, and
  a rank can run half a step ahead of the other: a plane must always meet the half step
  it was sent for, and the overlapped update must be repaired to what one domain computes;
* hosts only queue work: one may have returned from `advance` while its device, or the
  peer, is half steps behind;
* a rank can raise anywhere, alone, while the other waits in a transfer or a collective:
  nobody may wait for ever, or meet the other in the wrong collective; a program that
  handles the exception may go on from what the failed call left;
* a step, a restore and a capture each change several pieces of state one after the
  other, with exceptions possible in between;
* rings are overwritten, flushed and restored in any order;
* each cell belongs to one material by the order of a list of overlapping shapes, found
  through a tree that cuts space beside the shapes, then through a tile of a grid;
* the cells are executed in buckets, layouts and groups that name them by position: only
  a difference between neighbours tells a wrong row from the right one;
* the faces of a total-field box come from 24 hand-written helpers, with signs,
  shifts and trimming of their own, on every rank;
* the iterations of a DM2 cell stop one by one, in loops shared by all cells.

## Modules

| Module | Models | Correspondence |
|---|---|---|
| `TwoRankOrder` | abstract | what the exchange promises: each rank completes half steps in order, at most one ahead of the other |
| `HaloProtocol` | what the devices of two ranks carry out of `advance`, `begin`, `finish` | `HaloBegin`, `HaloCompute`, `HaloFinish`, `HaloPost` are the parts of a half step on the stream; `HaloDeliver` is NCCL; `Fail` an exception of the host or the timeout, at any point. `sending` and `awaiting` are the works in flight |
| `HaloHost` | the hosts that queue that work | `IssueBegin`, `IssueCompute`, `IssueFinish`, `IssuePost` are the calls of a half step, none of which waits for the device; `Execute` and `Transfer` let the device follow. `phase` is `_phase`, `issued` counts through any number of `advance` calls |
| `CartesianGrid` | index and space conversions of the Yee grid and of a rank's view | `IndexToSpace`, `SpaceToIndex`, `RankLocal` after `geometry.py` and `rank_local_space` |
| `YeeGrid` | arithmetic of a half step on a box | operators named after what the code computes; one box is the whole domain or a slab; point sources are lowered per view |
| `DistributedYee` | `HaloProtocol` with fields | `Begin`, `Compute`, `Deliver`, `Finish`, `Post`: the same actions, with packing, the dense update, the boundary correction and the ghost fill |
| `ProbeLog`, `ProbeRing` | abstract log and `_TorchProbeRing` | one action per method |
| `DistributedSession` | the life of a `TorchDistributedSimulation` | `Calls` lists each method as collectives and local steps, in source order; `holds` is what a restore left on a rank |
| `SimulationRun` | one simulation and its process | stages of `advance`, restore and capture, with failures between them and crashes |
| `Dm2Corrector` | the three solvers of the Maxwell-Bloch buckets and the assertions after them | `Prepare`, `Iterate`, `Finalize` per bucket, `Check` per step; `path` says which solver runs |
| `GeomShapes` | shapes and boxes | `InObject` and `GeomBox` per shape, `Overlap`, `Below` and `Above` of boxes, of `pygeom.py` |
| `GeometryTree` | `GeomBoxTree` | `Branch` and `KeepLeaf` are `branch_out`; `Descend`, `SkipEmpty`, `OpenLeaf` are `_leaf_tiles`; `Paint` is one object of `lower_grid` |
| `TfsfLaunch` | `TotalFieldScatteredField` and `TorchTransparentBatch` | the helpers as records; `Electric`, `Magnetic` are the half steps around `step_auxiliaries` |
| `MaterialRecurrences` | the update of one cell by each model | one operator per recurrence of `torch_dispersive.py` and per absorber of `torch_fdtd.py` |
| `MaterialModels` | what the materials make of one cell | object lookup, signature, coefficient row, grading, stencil |
| `ExecutionPlan` | `TorchExecutionPlanner` | buckets, layouts, policies, residual axes, dense plane |
| `Decomposition` | `choose_two_gpu_decomposition` | cost profile, crossings, candidate cuts, refusals |
| `CellwiseUpdate` | abstract | every cell follows the recurrence of its own material, as if alone |
| `MaterialStep` | a half step as a plan executes it, checkpoints between configurations, the split of a plan | `Electric`, `Magnetic`, `Carry`, `Split`; `mem` are the buffers the configuration selects |
| `*Proofs` | theorems about `HaloProtocol`, `HaloHost` and `DistributedYee` (`DistributedYeeProofs`), `MaterialStep` (`MaterialStepProofs`, and `CellwiseProofs` for the refinement), `SimulationRun` and `ProbeRing` (`SimulationRunProofs`), `TfsfLaunch`, `DistributedSession`, `Dm2Corrector`, `GeometryTree` | |
| `MC*` | instances for TLC | |

How they compose. `HaloHost` extends `HaloProtocol`, whose actions its devices take, and
implements it; `HaloProtocol` implements `TwoRankOrder`, `ProbeRing` implements `ProbeLog`, `MaterialStep` implements `CellwiseUpdate`. `DistributedYee` extends
`HaloProtocol` (its control is literally that module's actions) and `YeeGrid`.
`TfsfLaunch` instantiates `YeeGrid` twice, as the program nests a simulation in a
simulation. `MaterialStep` extends `Decomposition`, which extends `ExecutionPlan`, which
extends `MaterialModels`: a cut is chosen, and both slabs planned, by the definitions that
plan the whole domain. `DistributedSession` treats the exchanges of a step as one
collective: what happens inside is `HaloProtocol`.

### Abstractions

* **Field values** are residues modulo a prime. The modelled updates are affine in
  the fields, so a wrong cell, sign, scale or order shows; rounding does not. A
  Bloch factor is a unit of the residues and its conjugate the inverse unit. Coefficients
  of materials are arbitrary residues, except where the code fixes one (the neutral
  end of a grading).
* **Coordinates** are integers: half cells in the grid, a lattice in the geometry tree, where
  `Small` is the clearance of a cut and `Inf` the floating-point infinity. Shapes are
  axis-aligned.
* **Host and stream** of a rank are two processes in `HaloHost`: `Work.wait()` on CUDA
  (`torch_distributed.py:597`) makes the stream wait and not the host. The host queues
  stages in order and the stream executes them in that order. When the host raises or the
  group times out, the group is aborted; what the stream still computes is void and not
  followed. `HaloProtocol` and `DistributedYee` are about the streams alone.
* **A batch is one flag per direction**: the two sends and two receives of a phase go
  out in one NCCL group and complete together.
* **Live buffers in `SimulationRun`** are counters of the updates they have seen; `Drift`
  is the error of `source_time` in checkpoints of older runtimes.
* **A program** in `DistributedSession` is one sequence of calls that both ranks make.
  A refused header, raised on every rank, and a refused body, an ordinary `ValueError` of
  one rank that aborts nothing, may each be handled: the rank goes on with its next call. Any
  other exception ends the program of its rank: `advance` and `capture_cuda_graphs` have aborted
  the group by then, and a construction that raised leaves no simulation to go on with. `load_checkpoint_file` is a
  call of its own: the facade passes it to the local simulation without a vote.
* **A checkpoint in `DistributedSession`** is what its rank makes of it: a good or bad header, a
  body that fits, that is refused before any copy, or after the fields were copied, and a step
  count.
* **A checkpoint in `MaterialStep`** is the logical content of `TorchSimulationState`. The
  simulation's own checkpoint adds an identity of the plan and is refused by other
  layouts; the state's is not.
* **A DM2 iteration** is named by its number: `fate` chooses for each cell when its error
  turns small or nan, or that it never does. Floating point decides which fate occurs;
  masks, codes, limits and commits must be right for each.
* **A transparent source** in `TfsfLaunch` travels along an axis between faces on whole
  cells in an empty medium, where the interpolation weights are 1 and 0. The absorbers at the
  ends of the auxiliary line are left out, the cells they take are not: the box samples none of
  them, and the incident wave is what the line carries between them.
* Compiled, fused and graph-replayed paths are taken to compute what the eager path
  computes, except where a compiled plan changes the plan itself (`MaterialStep`).
  Failures are left out of `DistributedYee`: a rank that raised adds no state.

## Runs

| Run | Question | Bounds and why they are enough |
|---|---|---|
| `halo_protocol` | Do transfers match, are buffers quiet, is no phase refused, and does the work of `advance` end, whatever the interleaving, the lead of the hosts and the failures? | 3 steps: six half steps, so both phases follow each other in the middle, start and end, and a host can be any number of them ahead. The same is proved for every number of steps |
| `distributed_yee` | Do two overlapped slabs compute what one domain computes, in every cell, probe and snapshot? | 2 steps, so every correction feeds another. All three axes; a line of 4 cells cut in the middle with a unit impulse in every cell and the zero arrays, which is every field by linearity; boxes of 5 cells with cuts 2 and 3 and both thick transverse directions with generic fields. Materials and sources sit at the wrap and at both sides of the cut, three sources of which two share a cell |
| `distributed_session` | Do ranks that differ, fail alone or carry on after a refusal meet in the same collectives, agree on what was done, know when their checkpoints mix, and end? | one program of nine calls in which every call occurs, with three loads, one past the vote, and an advance after each, so that a mix can arise, survive a step and be mended; two precisions, two cuts, two step counts; 2,040 sessions: every pair of ranks with five, three and three checkpoints for the loads |
| `simulation_run` | Do fields, auxiliaries, clocks and rings stay in phase? Does a ring implement the log? | two updates per family, two exceptions, so a failure can follow a failure; checkpoints in memory and on file that fit, or misfit in one of four ways. A ring of capacity 3, two sample values, seven samples: two overwrites of the whole ring, flush and restore anywhere. The simulation counts what its rings hold and the ring does not look at the simulation, so each moves while the other rests |
| `dm2_corrector` | Do the three solvers give each cell its own result, and return? | a bucket of two cells and one of one; every combination of fates; a limit of two iterations, which a packed body of three overshoots; two steps, so that the second starts from every outcome of the first |
| `geometry_tree` | Do tree lookup and tiled lowering agree with a scan of the list? | five scenes of up to eight objects of every shape, and all 60 orders of three out of five solids that touch, overlap or hold one another; every point of a lattice that also holds the cuts; three tiles, one of them empty |
| `tfsf_launch` | Is the wave inside the box the incident one, and nothing outside? | sheets of 7 by 7 cells, both signs of direction and polarisation, on one process and on two ranks cut across the box and along it, with boxes narrower and wider than the domain; 7 steps, in which the front crosses box and cut. The auxiliary absorber is 8 cells instead of 50: no step of the run sees past it. The same is proved for every sheet, box and number of steps |
| `material_step` | Do plans, layouts, groups and residual axes compute the recurrence of each cell, carry its memory, and split into the two ranks' plans? | four scenes of at most 20 cells that hold every model, both absorbers, buried objects and Bloch phases; six configurations; two steps, so that memory is written and read, with loads between configurations after any half step; five orders of weights, axes and cuts |
| `tfsf_sign_row` | as `tfsf_launch`, for waves along y polarised along z | violated, see below |
| `tfsf_sampled_point` | as `tfsf_launch`, for waves along z polarised along y | violated, see below |
| `magnetic_source_lost` | as `distributed_yee`, for magnetic point sources on the cut and beyond it | violated, see below |
| `restore_all_or_none` | Is the documented collective validation of a checkpoint complete? | as `distributed_session`; violated, see below |

Bounds are `Steps`, `MaxTotal`, `MaxStep`, `MaxFaults` and `MaxSteps`, and the sizes of the scenes
in the `MC` modules; all are constants set in the cfg. No symmetry is used: ranks differ in
what they own, and so do axes and objects.

Two instances leave out inputs for which the program is wrong: `tfsf_launch` the directions of
`tfsf_sign_row` and `tfsf_sampled_point`, and waves along y polarised along x, which meet the
second slip at another line (finding 3); `distributed_yee` magnetic sources outside the planes
from `N - cut` to the cut, which `magnetic_source_lost` has.

### Fairness

`HaloHost` assumes weak fairness of each call the host makes inside `advance`, of the device that
executes what is queued, of a transfer between two live ranks, and of the timeout of a
transfer that does not complete: the process group is
created with a timeout and asynchronous error handling (`torch_distributed.py:388-396`).
`DistributedSession` assumes the same of collectives. No fairness is assumed of
rank-local exceptions. `Dm2Corrector` assumes that the device goes on with the loop it was
given, and `GeometryTree` that a recursion that can go on does. The other modules are
checked for safety only.

### Findings

1. `docs/torch-execution.md:71-72` says a distributed checkpoint "validates all ranks
   collectively before any state is restored". The vote in `load_checkpoint`
   (`torch_distributed.py:947-962`) covers the header; local state, auxiliaries and probes
   are validated on each rank alone, after it, and the probes after the fields were
   copied. `RestoreAllOrNone` states the document, and TLC finds both ranks voting valid and
   one restoring its state while the other refuses its body. The refusal is an ordinary
   `ValueError` that does not abort the group, so a program that handles it can step on with
   the two ranks at different checkpoints. `MixedOnlyAfterRefusal` states what holds, and is
   proved: ranks that step on together hold one and the same whole checkpoint, unless a rank
   refused a body and no load that both accepted came after it.
2. The sign row of Ez (`source.py:818`) has the signs of its two y faces swapped. TLC shows a
   wave along y polarised along z that differs inside the box from the incident one in the
   second step (`tfsf_sign_row`).
3. The Hx helpers of the z faces (`source.py:1464` and `1496`) sample Ey on the wrong side of
   their target. TLC shows a wave along z polarised along y that differs inside the box from
   the incident one in the second step (`tfsf_sampled_point`). The Hz helper of the -y face
   makes the same slip (`source.py:1720`); it concerns waves along y polarised along x, which
   have no run of their own. With each of the three lines corrected in the model, the launches
   of its own direction pass and those of the other two still fail.
4. `docs/torch-execution.md:52-53` says point sources are filtered by the ownership maps of
   probes and faces. The filter they really have inverts the shapes of the magnetic
   components (`source.py:65`) and tests a global range shifted by the size of the whole
   domain (`geometry.py:707`): a magnetic source on the plane of the cut or beyond it is
   skipped by both ranks (`magnetic_source_lost`).

### Observed, without a document to contradict

* A probe on the outer plane of the split axis is moved by `_localize_probes` to the cell
  the plane images. It records that cell fresh and without Bloch phase, where a
  single-process simulation records the wrap copy, half a step old and phased.
  `ProbesMatchSerial` therefore compares with the imaged cell.
* `save_checkpoint` truncates the file before writing, so a crash in between loses the
  previous checkpoint too.
* Checkpoints of different step counts, one per rank, pass the vote: nothing compares the
  counts, and the ranks then step from different times. So do ranks of which one refused
  a body. `StepsAgree` states what holds: ranks with the fields of one load, whose
  checkpoints are of one step, are at one step.
* A cone or cylinder of infinite height gets a bounding box of nan; `ShapeAssumption` asks for
  ordered boxes and so excludes it.

## Proofs

Eight modules hold theorems. In each, an invariant checked by a run is seldom inductive, and
`IInv` says what is missing.

`DistributedYeeProofs` begins with the halo protocol, for every `Steps`: `HaloMatch` speaks of a
send that meets a receive, and says nothing that keeps a fast rank from posting two batches.
`HaloIInv` adds how the
ranks can differ: in the same half step a direction is pending on both sides or on
neither (`SameHalf`); a rank ahead is ahead by one and left the other with a delivered
batch (`Ahead`); and no work is left between batches (`Quiet`).
From it follow `HaloMatch`, `BuffersQuiet`, `CompletesWithPeer` and the refinement of
`TwoRankOrder`, where `HaloPost` is a completed half step and everything but exceptions
stutters. `HostImplementsHalo` carries all of it over to hosts that run ahead of their
devices: what a host queues, its device carries out as `HaloProtocol` does, or the group is
aborted. `NeverRefused` is about the hosts, for every number of half steps queued in any number of
`advance` calls; `HostIInv` says that an exchange is active exactly from `begin` to `finish`
while the group is not aborted. An `advance` that raised outside `finish` may leave it active: its
group is aborted, so the claim ends there. The only assumption is that `Steps` is positive.

It goes on with the fields, for every grid, cut, axis, coefficient array, initial field, Bloch
phase and number of steps: two overlapped slabs are one domain. `IInv` says what a slab holds in
each stage of a half step. Between half steps it is the single-process solver's fields
except on the planes its peer keeps (`Settled`); after `begin` it is wrapped and its ghosts
are old (`Launched`); after the dense update each cell is what the update makes of it from
the slab's own, still old ghosts (`Updated`); after `finish` it is the solver's dense update,
ghosts included, before materials and sources (`Repaired`); and a batch in flight, or
arrived, is the image that the peer's ghosts need (`InFlight`). The lemmas are: the two wraps of a component
commute, so a slab wraps its own axes as the grid does; a packed plane is the image the
peer lacks, with its phase; the correction by the difference of the ghosts makes of a
dense update what the update from new ghosts would have been, since the curl is linear;
materials and sources then act cell by cell. That a delivered batch belongs to the half
step that awaits it is `HaloMatch` of the protocol: every step of the
fields is a step or a stutter of that protocol (`ProtocolStep`). From `IInv` follow
`OwnedMatchesSerial`, `ProbesMatchSerial` and `SnapshotMatchesSerial`.
The theorems assume `MagneticBelowCut`, that no magnetic point source lies on the plane of
the cut or beyond it; without it they are false, which is `magnetic_source_lost`.
`GridAssumption`, `PartitionAssumption` and `ArrayAssumption` are units for the Bloch phases,
arrays of residues, and cuts that leave two cells, as the decomposition grants.

`Dm2CorrectorProofs`, for every list of buckets, iteration limit and packing. That a
solved cell has its own result is not inductive; `IInv` says what a cell holds inside the
loop. Under masks it is at the iteration all active cells are at, or stopped at its fate
(`MaskedCell`); a packed code is the count or encodes the fate (`PackedCell`). The
assumption that chunks add up to the limit is `DM2_MAX_ITERATIONS // DM2_ITERATIONS_PER_CHUNK`
without remainder.

`GeometryTreeProofs`, for every set of scenes, tiles and points, every infinity and
clearance. `ShapeAssumption` is what `geom_box` owes the tree: an ordered box that holds
the points of its shape; it is evaluated on the checked scenes. A node lists the objects
that reach into its box, and nothing else (`NodesComplete`); a cut lies strictly inside
the box and leaves both halves fewer objects (`DivisionsShrink`), which bounds the
recursion; and a lowered tile is what a scan of the whole list gives (`LoweringCorrect`).
The last needs that the maps of a half-painted tile are the scan of the objects painted
so far, that a list shortened to what reaches a box gives the same answer inside it
(`ShortListSuffices`), and that the pieces of work left cover the rest of the tile once.
`LookupCorrect` is about `object_of_point`, a recursive function: it ends because both
halves of a node list fewer objects than the node, and the leaf it ends in is a node of the
tree that holds the point.

`DistributedSessionProofs`, for every program that starts with its one construction, and
every set of precisions, cuts and step counts. The heart is `Lockstep`: a collective that
one rank has passed, the other has passed. Two ranks that wait are then at the same step
(`SamePlace`), which is `CollectivesMatch` and carries the induction through `Meet`; local
steps and refused headers pass no collective. `Compared`, `Recorded` and `RestoresTold`
say what a rank knows from the steps it passed, and give `BuildsAgree`, `CaptureAgrees` and
`BadHeaderRestoresNothing`. `RestoresTold` adds that a rank which has not raised holds the last
load it took fields from (`LastTaken`), refused and handled bodies included. Ranks that meet in
a halo came through the restores of the same loads (`MeetingRestores`), so if they hold different or
half checkpoints, one of them refused a body that no accepted load followed: the load that the
other holds, or its own half (`RefusalFound`, `MixedOnlyAfterRefusal`). `Clocked` adds where
the step count of a rank comes from: the clock of the load it holds, half restored or whole, and the
`advance` calls it passed since. Ranks that meet have passed the same calls, so those with the
fields of one load of one step are at one step (`StepsAgree`).

`SimulationRunProofs`, for every bound on steps and exceptions and every drift. `IInv` says
where each buffer is before each stage of a step (`Stepping`), that what a load or a
capture has not reached is sound (`Untouched`), what it has copied and what it can go back
to (`Copying`, `Returning`), and that checkpoints not tainted are sound, up to the clock of an old
one (`Kept`, `Fetched`). `InPhase`, `IncidentInPhase`, `RefusedLoadIntact` and
`CaptureTransparent` follow.

The probe ring, in `SimulationRunProofs` too, for every `Capacity`, sample set and bound: slots
behind the cursor hold samples (`RingInvariant`), so `FlushesSamples`; and the ring implements
`ProbeLog`. The second
rests on arithmetic of the remainder (`SlotUnique`, `SlotNext`, `SlotWrap`) and on what one
record does to the drained sequence, with room (`RecordWithRoom`) and without
(`RecordWhenFull`).

`MaterialStepProofs`, for every sequence of scenes and configurations and every set of
orders. `IInv` is small: the simulation is the one its configuration constructs for the
scene, and a split is what the choice made of an order. The work is in the operators, and, for
the memory, in the stages of a half step.

* `CutsMonotone`. The cost below a cut is a sum over its planes that grows with the cut
  (`CostGrows`), and what an exchange costs depends on the cut but on no weight. Moving a cut
  up changes the estimate by a difference that can only fall as the first device gets
  relatively faster (`FurtherGains`, `EstimateGains`, arithmetic of integers with products of
  the weights), so the lowest minimum cannot move down.
* `PlansTakenApart`. A set of buckets, keys or rows listed in its order lists every element
  (`PlacesAreOneToOne`: places in a finite total order are one to one), so a bucket gives each
  of its cells the coefficients and the grading of the cell's own point (`BucketHolds`), and
  each active cell is in a bucket (`PlanGathers`). What a plan does to a cell is therefore a
  function of the point the cell stands for (`TreatmentIs`). Flat indices are one to one
  (`FlatInverse`), so the updated cells of a view are a box (`HomesAreRegion`), and the boxes of
  the two ranks partition that of the whole domain (`RegionsPartition`).
* `CheckpointsLoad`. That a checkpoint loads elsewhere needs `Inhabited`: fields are arrays
  of their shapes, each row of a buffer is memory of its bucket's model, and a curl axis of a
  CPML cell that the plain update treats already (`PlainAxis`) keeps zero. It is inductive with
  `IInv`, one lemma for each stage: the wrap, the dense phase, an absorber bucket of either
  kind, an execution, the constants, and a load (`SyncTyped`, `DensePhaseTyped`,
  `RunAbsorberHeld`, `RunResidualHeld`, `RunEntryHeld`, `ApplyConstantsTyped`, `BuffersHeld`).
  They rest on what a plan furnishes (`BucketFurnished`): each target's coefficients are of
  the bucket's model, and a stencil read through flat indices stays inside its array
  (`GatherTyped`). No layout names more cells than the bucket has rows (`WriteFew`), each cell of a
  tile being in one tile; every dispersive bucket is in one execution (`EntriesAre`). Buckets, rows and
  cells do not depend on the configuration (`BucketsAlike`), and a residual axis leaves
  out exactly the plain rows (`ResidualIs`), so the zeros another configuration asks for are there.
  `Inhabited` itself was checked with TLC on the bounds of `material_step` before it was proved.

`SceneAssumption` says that a scene has cells and finitely many sources, that its objects
have materials among the modelled ones with as many coefficients as poles and points, that
the default medium is no absorber, which is how `GeomBoxTree` is filled, and that the loaded
arrays have the components' shapes. Loaded values and the value of a constant material are
residues, as every other value of a field then is (`FieldsReduced`). `ResidueAssumption` makes the modulus one that 2 and the
stretchings of a CPML divide, as they do among the floating-point numbers it stands for; Bloch
phases divide likewise. `ConfigAssumption` lists the options of a single process, with tiles
of at least one cell, and `OrderAssumption` has positive weights.

`CellwiseProofs`, under the same assumptions: `ConfigurationsAgree`, the refinement of
`CellwiseUpdate`. For every scene, configuration and chain of loads and restores, a half step
gives each cell what its own model makes of its own coefficients, memory and neighbours.

* Each phase completes the buckets it owns and leaves the others as they were: of every cell of a
  completed bucket, field and memory are the recurrence's values from the stage before
  (`FieldStage`). The dense phase completes the buckets without memory (`DensePhaseStage`); the
  absorber phase completes its dense buckets one by one, and its sparse ones as the plain update
  and two residual axes, which together are the CPML update (`CpmlParts`); the dispersive phase
  completes the arenas of one or two buckets (`RunEntryStage`), and the constants theirs.
* The writes commute, because buckets part the cells (`BucketsPartition`), rows of an arena are
  rows of one bucket each (`EntryRow`), and a tiled bucket read slot by slot is the bucket
  in order (`TiledOrder`).
* What a row reads through flat indices is what the cell's stencil reads through vectors
  (`ShiftIsSum`, `CurlOfPair`). What its dense plane and its bucket hold is what the cell's
  own point gives it (`BucketOwns`). On an axis of one cell, where the planner drops
  the difference, the wrap has made both planes equal (`PhaseCurlIs`, `SyncFlush`).
* What a simulation saved from one layout and another restored is the memory of each cell,
  whichever buffers hold it (`MemoryGiven`).
* `HalfStepDone` joins the phases, `UpdatedIs` compares a completed bucket with the abstract
  update, and `ElectricCellwise`, `MagneticCellwise` and `CarryKeeps` map the steps.

The proof corrected the model once: `Buckets` bounded the number of buckets of a component by
the number of models, where the planner makes one bucket for each signature, poles and
points included (`torch_fdtd.py:463-464`). Every scene of `material_step` stays below that bound,
so TLC could not tell.

Folds are defined by recursion on sets through `CHOOSE`. The proofs show that this recursion
has a solution, and what it sums to, by an induction written as the least counterexample of
a set of naturals (`SetInduction`), which needs no operator parameter.

`TfsfLaunchProofs`, for every sheet of one cell across the polarisation, every box on whole cells
that stays off the planes of the sheet or is wider than it across the beam, every cut, amplitude,
rate, length of the auxiliary absorber and number of steps (`LaunchAssumption`, evaluated by the three
runs). The theorems speak of a launch that is `Aligned`: a beam along z polarised along x, or along
x with either polarisation, in either sense. These are the directions whose face helpers agree;
the helpers of each of the other three are wrong (findings 2 and 3), so no theorem can include
them. Outside the box nothing is radiated (`ScatteredFieldIsZero`), and
inside it the field is the wave of the auxiliary solver (`TotalFieldIsIncident`).

* Neither property is inductive: they say nothing of the magnetic field between the halves of a
  step, when it is half a step behind the line. `IInv` has every cell the step updates hold the
  wave inside the box and zero outside (`Held`), the magnetic one the wave of half a step before
  (`RHPast`) in between. TLC checked it on the bounds of `tfsf_launch` before it was proved.
* The auxiliary line obeys the discrete wave equation between its source and its end
  (`LineStep`), and all that the box samples lies there (`IndexRange`). The nested solver and the main
  one are the same operators (`NestedSame`), and a half step is the curl of the cells that the
  boundary planes copy (`MainHalfStep`, `NestedHalfStep`). A copy sees all of the box or
  nothing of it (`Copies`, `Seen`), which is what the condition on boxes is for.
* Every helper follows one table (`FaceTable`), and in an aligned launch three kinds of
  face carry the wave (`Carriers`): those that feed the electric field (`Front`), the magnetic field
  (`Back`), and those along the beam, which feed the magnetic component the wave has not (`Edge`).
* A target belongs to one view (`OneOwner`), and a view lowers for it the rule of the whole domain
  (`RuleView`), so the plan of two ranks is that of one (`PlanIs`). A cell has at most one rule of
  each side of an axis, and their sum is the jump of the wave at the box (`FaceSum`, `JumpIs`).
* Curl and jump together are then the next wave, in the box, at its ends and outside
  (`FrontStep`, `BackStep`); along the beam the jump cancels the edge the curl sees (`EdgeStep`).

Only model-checked: `AdvanceReturns`, `SessionEnds`, `StepReturns` and `LoweringReturns`, since
liveness under fairness is out of the prover's reach. Every other property of a passing run is
stated by a theorem.

## Not modelled

* Total-field boxes in domains with three thick axes; the launches are sheets.
* `GaussianBeam`'s transverse envelope and warm-up, waveforms, oblique directions and the
  interpolation of auxiliary samples between cells.
* The formulas that turn physical parameters and grading polynomials into coefficients, and the
  arithmetic of a DM2 iteration: floating point without control.
* `_cpml_residual_is_numerically_stable`, an input of the scene in `ExecutionPlan`; domains above
  32 cells along an axis, whose cross section the decomposition samples; ties of estimates
  that rounding decides.
* The launch cost of a CUDA device in the choice of a layout, byte estimates and decision texts.
* Compiled, fused and graph-replayed kernels as code of their own; `torch.compile` caches and
  validation of settings.
* The encoding of checkpoint files, the write of probe texts and spectra, plotting, file
  export, release utilities, benchmarks and examples.
* The facade's `flush_probes` and diagnostics, which touch no shared state.
* Rotated shapes, floating-point nan and pickling of the geometry tree.

## Plan

The order the modules were written in: halo protocol, distributed step, probe ring, session,
run, DM2 corrector; then geometry tree, grid, transparent and point sources, material
models, execution plan, decomposition and material step; then the proofs of the geometry
tree, the session and the run; then those of the distributed step, of the plan, of the
half step as a plan executes it, and of the transparent source. What is left, most useful first:

1. Total-field boxes in domains with three thick axes, where faces across the polarisation carry
   the wave too.
2. `GaussianBeam` over `TfsfLaunch`: the envelope scales each rule, and its warm-up precedes
   the run.
3. The fused and graph-replayed paths as refinements of `MaterialStep`.
