----------------------------- MODULE MaterialStep -----------------------------
(***************************************************************************)
(* The half steps of TorchSimulation as its plan executes them: the dense  *)
(* phase, then the absorbers bucket by bucket, then the dispersive buckets *)
(* or the groups of two an overlay makes of them, then the constants.      *)
(* Memory lies in the buffers the configuration selects; a checkpoint of   *)
(* TorchSimulationState is their logical content, and may be loaded by the *)
(* state of another configuration.  The simulation's own checkpoint adds   *)
(* an identity of the plan to it and is refused by other layouts.          *)
(***************************************************************************)
EXTENDS Decomposition

CONSTANTS
  Steps,         \* full steps of a run
  Scenes,        \* the sequence of scenes considered
  Configs,       \* the sequence of runtime configurations of one process
  Orders,        \* the decompositions asked for, see Decomposition
  HostFields(_)  \* the arrays given to load_host_fields() for a scene

\* Residues modulo P; 2 and the stretchings of a CPML divide them.
Divides(k) == \E u \in 1..(P - 1) : (u * k) % P = 1

ASSUME ResidueAssumption ==
  /\ P \in Nat \ {0, 1} /\ Divides(2)
  /\ \A a \in Axes : Rate[a] \in Int

\* The coefficients that a model adds to a cell, and those of a graded layer.
Coefficients(m) ==
  LET Two == Int \X Int
      Three == Int \X Int \X Int
      Four == Int \X Int \X Int \X Int
      Five == Int \X Int \X Int \X Int \X Int
  IN  CASE m.type \in {"drude", "lorentz"} -> [a : [1..m.poles -> Three], c : Three]
        [] m.type = "dcp-ade" ->
             [a : [1..m.poles -> Three], b : [1..m.points -> Five], c : Four]
        [] m.type \in {"dcp-plrc", "dcp-rc"} ->
             [a : [1..m.poles -> Three], b : [1..m.points -> Two \X Two \X Two], c : Three]
        [] m.type = "const" -> 0..(P - 1)
        [] OTHER -> {m.coef}

Gradings(type) ==
  IF type = "cpml" THEN [b : Int, c : Int, kappa : {k \in Int : Divides(k)}]
  ELSE [ratio : Int, gain : Int, share : Int, plus : Int, minus : Int]

Typed(m) ==
  /\ m.type \in Range(Models) /\ m.poles \in Nat /\ m.points \in Nat
  /\ m.invEps \in Int /\ m.invMu \in Int
  /\ m.coef \in Coefficients(m)
  /\ m.type \in Absorbers =>
       /\ m.d \in Nat
       /\ \A a \in Axes : \A depth \in 0..m.d : m.grade[a][depth] \in Gradings(m.type)

\* The cells of a component's array, and values in them.
CellsOf(s, c) ==
  LET shape == Shape(Serial(s.n), c)
  IN  (0..(shape[1] - 1)) \X (0..(shape[2] - 1)) \X (0..(shape[3] - 1))

Arrays(s, G) == DOMAIN G = Component /\ \A c \in Component : G[c] \in [CellsOf(s, c) -> Int]

\* The values of fields are residues.
Reduced(s, G) == \A c \in Component : \A v \in CellsOf(s, c) : G[c][v] \in 0..(P - 1)

\* The first object is the default medium, which is no absorber.
WellFormed(s) ==
  /\ s.n \in [Axes -> Nat \ {0}]
  /\ IsFiniteSet(DOMAIN s.sources)
  /\ Len(s.objects) \in Nat \ {0} /\ DOMAIN s.objects = 1..Len(s.objects)
  /\ \A j \in DOMAIN s.objects : Typed(Material(s, j))
  /\ Material(s, 1).type \notin Absorbers
  /\ \A a \in Axes : Phases(s)[a] \in {k \in Int : Divides(k)}
  /\ Arrays(s, HostFields(s)) /\ Reduced(s, HostFields(s))

ASSUME SceneAssumption == \A i \in DOMAIN Scenes : WellFormed(Scenes[i])

ASSUME ConfigAssumption ==
  \A i \in DOMAIN Configs :
    /\ Configs[i].compiled \in BOOLEAN /\ Configs[i].tile \in Nat \ {0}
    /\ Configs[i].policy \in {"auto", "dense", "compact", "tiled"}
    /\ Configs[i].scope \in {"off", "two-level", "dcp-convolution", "combined"}
    /\ ~Configs[i].distributed

ASSUME OrderAssumption ==
  Orders \subseteq [weights : (Nat \ {0}) \X (Nat \ {0}), axis : Axes \cup {0}, cut : Nat]

VARIABLES
  scene,    \* the index of the scene
  sim,      \* the simulation: what its construction fixed, see Construct
  half,     \* half steps done; the next one is electric when it is even
  F,        \* F[c][v]: the fields
  mem,      \* the buffers: [dispersive, absorber, axis]
  split     \* once the scene is given to two ranks, [order, axis, cut]

vars == <<scene, sim, half, F, mem, split>>

This == Scenes[scene]

\* A bucket is named by its component and its place; these are all of a plan.
Buckets(plan) == UNION {{<<c, o>> : o \in DOMAIN plan[c].buckets} : c \in Component}

BucketOf(plan, d) == plan[d[1]].buckets[d[2]]
ModelOf(plan, d) == BucketOf(plan, d).signature[1]

(***************************************************************************)
(* The overlay: two dispersive buckets next to each other, of two models   *)
(* with one recurrence and equal pole counts, share an arena.              *)
(***************************************************************************)
GroupRecurrence(model) ==
  CASE model \in {"drude", "lorentz"} -> "two-level"
    [] model \in {"dcp-plrc", "dcp-rc"} -> "dcp-convolution"
    [] OTHER -> "none"

MatchingPair(plan, scope, d, e) ==
  LET sd == BucketOf(plan, d).signature
      se == BucketOf(plan, e).signature
  IN  /\ GroupRecurrence(sd[1]) # "none"
      /\ GroupRecurrence(sd[1]) = GroupRecurrence(se[1])
      /\ scope \in {"combined", GroupRecurrence(sd[1])}
      /\ d[1] = e[1] /\ sd[2] = se[2] /\ sd[3] = se[3]
      /\ sd[1] # se[1]

\* The order of the components of a family, and of the buckets of each.
BucketBefore(d, e) == d[1][2] < e[1][2] \/ (d[1] = e[1] /\ d[2] < e[2])
InOrder(buckets) == Ordered(buckets, BucketBefore)

\* The dispersive buckets in that order; all are electric.
Descriptors(plan) == InOrder({d \in Buckets(plan) : ModelOf(plan, d) \in DispersiveModels})

Grouping(k) == k.scope # "off" /\ k.policy = "auto" /\ k.compiled /\ ~k.distributed

\* Which descriptors of a sequence join the one before them.
Joins(plan, k, seq) ==
  LET joins[j \in DOMAIN seq] ==
        /\ Grouping(k) /\ j > 1
        /\ ~joins[j - 1]
        /\ MatchingPair(plan, k.scope, seq[j - 1], seq[j])
  IN  joins

\* The executions: sequences of one bucket or of the two that share an arena.
Entries(plan, k) ==
  LET seq   == Descriptors(plan)
      joins == Joins(plan, k, seq)
      heads == Ordered({j \in DOMAIN seq : ~joins[j]}, Before)
      pair(j) == j + 1 \in DOMAIN seq /\ joins[j + 1]
  IN  [i \in DOMAIN heads |-> IF pair(heads[i]) THEN << seq[heads[i]], seq[heads[i] + 1] >>
                                               ELSE << seq[heads[i]] >>]

\* The rows of an execution: its buckets' rows one after the other.
BucketRows(plan, d) == [k \in DOMAIN BucketOf(plan, d).targets |-> <<d, k>>]

ArenaRows(plan, entry) ==
  IF Len(entry) = 1 THEN BucketRows(plan, entry[1])
                    ELSE BucketRows(plan, entry[1]) \o BucketRows(plan, entry[2])

Sparse(plan, d) == BucketOf(plan, d).residual # <<>>

(***************************************************************************)
(* What the construction of a simulation fixes: its plan, the executions   *)
(* and their rows, the place of the memory of each dispersive row, and the *)
(* bucket and row of each cell with memory.                                *)
(***************************************************************************)
Construct(options, plan) ==
  LET entries  == Entries(plan, options)
      arena    == [entry \in Range(entries) |-> ArenaRows(plan, entry)]
      stateful == {d \in Buckets(plan) : ModelOf(plan, d) \in Stateful}
      targets(d) == BucketOf(plan, d).targets
  IN  [options |-> options, plan |-> plan, entries |-> entries, arena |-> arena,
       stateful |-> stateful,
       dense |-> {d \in stateful : ModelOf(plan, d) \in Absorbers /\ ~Sparse(plan, d)},
       sparse |-> {d \in stateful : Sparse(plan, d)},
       place |-> [d \in {d \in stateful : ModelOf(plan, d) \in DispersiveModels} |->
                    [i \in DOMAIN targets(d) |->
                       LET entry == CHOOSE e \in Range(entries) : d \in Range(e)
                       IN  << entry, Position(arena[entry], <<d, i>>) >>]],
       cells |-> [x \in UNION {{<<d[1], targets(d)[i]>> : i \in DOMAIN targets(d)} :
                                d \in stateful} |->
                    LET d == CHOOSE d \in stateful : d[1] = x[1] /\ x[2] \in Range(targets(d))
                    IN  << d, Position(targets(d), x[2]) >>]]

Simulations ==
  [s \in DOMAIN Scenes |->
     [k \in DOMAIN Configs |->
        Construct(Configs[k], Plan(Scenes[s], Configs[k], Serial(Scenes[s].n)))]]

ShapeOf(c) == Shape(Serial(This.n), c)

(***************************************************************************)
(* The logical content of the buffers, and buffers for a logical content.  *)
(* A sparse axis keeps only its active rows; the others are zero.          *)
(***************************************************************************)
\* Mutant: the active rows are stored as if they were the first ones.
LogicalAxisPacked(residual, count, values) ==
  [k \in 1..count |-> IF k <= Len(values) THEN values[k] ELSE 0]

LogicalAxis(residual, count, values) ==
  [k \in 1..count |-> IF k \in Range(residual.positions)
                      THEN values[Position(residual.positions, k)] ELSE 0]

LogicalRow(M, d, i) ==
  LET b == BucketOf(sim.plan, d)
      lane(a) == LogicalAxis(b.residual[a], Len(b.targets), M.axis[<<d, a>>])
  IN  IF d \in DOMAIN sim.place
      THEN M.dispersive[sim.place[d][i][1]][sim.place[d][i][2]]
      ELSE IF d \in sim.dense THEN M.absorber[d][i] ELSE << lane(1)[i], lane(2)[i] >>

Logical ==
  [d \in sim.stateful |-> [i \in DOMAIN BucketOf(sim.plan, d).targets |-> LogicalRow(mem, d, i)]]

Buffers(of, logical) ==
  [dispersive |-> [entry \in DOMAIN of.arena |->
                     LET rows == of.arena[entry]
                     IN  [j \in DOMAIN rows |-> logical[rows[j][1]][rows[j][2]]]],
   absorber |-> [d \in of.dense |-> logical[d]],
   axis |-> [x \in of.sparse \X {1, 2} |->
               LET positions == BucketOf(of.plan, x[1]).residual[x[2]].positions
               IN  [i \in DOMAIN positions |-> logical[x[1]][positions[i]][x[2]]]]]

\* TorchSimulationState.load_checkpoint: the same buckets and rows, and nothing
\* on inactive rows.
Accepts(to, logical) ==
  /\ DOMAIN logical = to.stateful
  /\ \A d \in DOMAIN logical : Len(logical[d]) = Len(BucketOf(to.plan, d).targets)
  /\ \A d \in to.sparse, a \in 1..2 :
       \A i \in DOMAIN logical[d] \ Range(BucketOf(to.plan, d).residual[a].positions) :
         logical[d][i][a] = 0

Blank(of) ==
  [d \in of.stateful |->
     [i \in DOMAIN BucketOf(of.plan, d).targets |-> ZeroRow(BucketOf(of.plan, d).signature)]]

Init ==
  /\ scene \in DOMAIN Scenes
  /\ sim \in Range(Simulations[scene])
  /\ half = 0
  /\ F = HostFields(This)
  /\ mem = Buffers(sim, Blank(sim))
  /\ split = <<>>

(***************************************************************************)
(* Gathering from flattened arrays, and writing to them.                   *)
(***************************************************************************)
GatherDifference(G, c, term, i) ==
  LET at == StencilIndices(Serial(This.n), c, term, i)
      value(j) == G[term.source][Unflat(ShapeOf(term.source), at[j])]
  IN  Rate[term.axis] * (value(1) - value(2))

IndexedCurl(G, c, i) ==
  Stencil(c)[1].sign * GatherDifference(G, c, Stencil(c)[1], i)
    + Stencil(c)[2].sign * GatherDifference(G, c, Stencil(c)[2], i)

FieldAt(G, c, i) == G[c][Unflat(ShapeOf(c), i)]

Scatter(G, c, targets, values) ==
  LET rows(v) == {k \in DOMAIN targets : targets[k] = Flat(ShapeOf(c), v)}
  IN  [G EXCEPT ![c] = [v \in DOMAIN G[c] |-> IF rows(v) = {} THEN G[c][v]
                                             ELSE values[Max(rows(v))]]]

\* The cells a bucket writes, in the order its layout names them.
TiledTargets(b, tile) ==
  LET slots == [p \in 1..(Len(b.origins) * tile) |->
                  LET t == (p - 1) \div tile + 1
                  IN  <<b.origins[t] + ((p - 1) % tile), b.tileRegions[t][(p - 1) % tile]>>]
      owned == Ordered({p \in DOMAIN slots : slots[p][2] > 0}, Before)
  IN  [p \in DOMAIN owned |-> slots[owned[p]][1]]

WriteTargets(b, tile) ==
  CASE b.policy = "dense" -> Ordered(Range(b.targets), Before)
    [] b.policy = "compact" -> b.targets
    [] OTHER -> TiledTargets(b, tile)

(***************************************************************************)
(* The stages of a half step.  S is [F, mem].                              *)
(***************************************************************************)
\* A compiled plan leaves the differences along an axis of one cell out.
Collapsed == sim.options.compiled /\ This.n[3] = 1 /\ This.bloch = <<>>

PhaseCurl(G, c, v) ==
  LET diff(t) == IF Collapsed /\ t.axis = 3 THEN 0
                 ELSE t.sign * Rate[t.axis] * (G[t.source][Sum3(v, t.positive)]
                                                 - G[t.source][Sum3(v, t.negative)])
  IN  diff(Stencil(c)[1]) + diff(Stencil(c)[2])

DensePhase(S, family) ==
  LET updated(c) ==
        [v \in DOMAIN S.F[c] |->
           IF InBounds(ShapeOf(c), c, v)
           THEN (S.F[c][v] + sim.plan[c].dense[Flat(ShapeOf(c), v)] * PhaseCurl(S.F, c, v)) % P
           ELSE S.F[c][v]]
  IN  [S EXCEPT !.F = [c \in Component |-> IF c[1] = family THEN updated(c) ELSE S.F[c]]]

RunAbsorber(S, d) ==
  LET b   == BucketOf(sim.plan, d)
      c   == d[1]
      t(i) == [j \in 1..2 |-> GatherDifference(S.F, c, PmlTerms(c)[j], i)]
      out == [k \in DOMAIN b.targets |->
                AbsorberUpdate(b.signature, b.cells[k], S.mem.absorber[d][k],
                               FieldAt(S.F, c, b.targets[k]), t(b.targets[k]), Direction(c))]
  IN  [F |-> Scatter(S.F, c, b.targets, [k \in DOMAIN out |-> out[k].field]),
       mem |-> [S.mem EXCEPT !.absorber[d] = [k \in DOMAIN out |-> out[k].row]]]

RunResidual(S, d, a) ==
  LET r   == BucketOf(sim.plan, d).residual[a]
      c   == d[1]
      out == [k \in DOMAIN r.targets |->
                CpmlResidual(r.parameters[k], S.mem.axis[<<d, a>>][k],
                             FieldAt(S.F, c, r.targets[k]),
                             GatherDifference(S.F, c, PmlTerms(c)[a], r.targets[k]),
                             Direction(c), IF a = 1 THEN 1 ELSE -1)]
  IN  [F |-> Scatter(S.F, c, r.targets, [k \in DOMAIN out |-> out[k].field]),
       mem |-> [S.mem EXCEPT !.axis[<<d, a>>] = [k \in DOMAIN out |-> out[k].psi]]]

RunAny(S, d) == IF d \in sim.sparse THEN RunResidual(RunResidual(S, d, 1), d, 2)
                                    ELSE RunAbsorber(S, d)

AbsorberPhase(S, family) ==
  LET seq == InOrder({d \in sim.dense \cup sim.sparse : d[1][1] = family})
      after[i \in 0..Len(seq)] == IF i = 0 THEN S ELSE RunAny(after[i - 1], seq[i])
  IN  after[Len(seq)]

\* One bucket, or the two of an arena, from the curl of the indexed sources.
RunEntry(S, entry) ==
  LET c    == entry[1][1]
      rows == sim.arena[entry]
      row(j) == LET b == BucketOf(sim.plan, rows[j][1])
                    k == rows[j][2]
                IN  Recurrence(b.signature, TargetRow(b, k)[2], S.mem.dispersive[entry][j],
                               FieldAt(S.F, c, b.targets[k]), IndexedCurl(S.F, c, b.targets[k]))
      out  == [j \in DOMAIN rows |-> row(j)]
      targets == IF Len(entry) = 1
                 THEN WriteTargets(BucketOf(sim.plan, entry[1]), sim.options.tile)
                 ELSE BucketOf(sim.plan, entry[1]).targets \o BucketOf(sim.plan, entry[2]).targets
  IN  [F |-> Scatter(S.F, c, targets, [j \in DOMAIN out |-> out[j].field]),
       mem |-> [S.mem EXCEPT !.dispersive[entry] = [j \in DOMAIN out |-> out[j].row]]]

DispersivePhase(S) ==
  LET after[i \in 0..Len(sim.entries)] ==
        IF i = 0 THEN S ELSE RunEntry(after[i - 1], sim.entries[i])
  IN  after[Len(sim.entries)]

ApplyConstants(S, family) ==
  LET held(c) == sim.plan[c].constants
      applied(c) == Scatter(S.F, c, [k \in DOMAIN held(c) |-> held(c)[k][1]],
                            [k \in DOMAIN held(c) |-> held(c)[k][2]])[c]
  IN  [S EXCEPT !.F = [c \in Component |-> IF c[1] = family THEN applied(c) ELSE S.F[c]]]

Wrapped(family) ==
  [F |-> Grid(Phases(This))!Sync(F, IF family = "E" THEN "H" ELSE "E", Serial(This.n), 0),
   mem |-> mem]

Becomes(S) ==
  /\ split = <<>>
  /\ half < 2 * Steps
  /\ F' = S.F
  /\ mem' = S.mem
  /\ half' = half + 1
  /\ UNCHANGED <<scene, sim, split>>

Electric ==
  /\ half % 2 = 0
  /\ \E S \in {DensePhase(Wrapped("E"), "E")} :
       \E T \in {AbsorberPhase(S, "E")} :
         Becomes(ApplyConstants(DispersivePhase(T), "E"))

Magnetic ==
  /\ half % 2 = 1
  /\ \E S \in {DensePhase(Wrapped("H"), "H")} :
       Becomes(ApplyConstants(AbsorberPhase(S, "H"), "H"))

\* The state of a simulation of another configuration loads the checkpoint of this one's.
Carry(k) ==
  /\ half % 2 = 0 /\ half > 0 /\ half < 2 * Steps
  /\ split = <<>>
  /\ Configs[k] # sim.options
  /\ \E to \in {Simulations[scene][k]} :
       \E saved \in {Logical} :
         /\ Accepts(to, saved)
         /\ mem' = Buffers(to, saved)
         /\ sim' = to
  /\ UNCHANGED <<scene, half, F, split>>

Chosen(order) ==
  [order |-> order, axis |-> Choose(This, order)[1], cut |-> Choose(This, order)[2]]

\* The scene is given to two ranks instead: DistributedYee has their steps.
Split(order) ==
  /\ split = <<>>
  /\ half = 0
  /\ Decomposable(This, order)
  /\ split' = Chosen(order)
  /\ UNCHANGED <<scene, sim, half, F, mem>>

Terminated == (half = 2 * Steps \/ split # <<>>) /\ UNCHANGED vars

Next ==
  \/ Electric
  \/ Magnetic
  \/ \E k \in DOMAIN Configs : Carry(k)
  \/ \E order \in Orders : Split(order)
  \/ Terminated

Spec == Init /\ [][Next]_vars

-----------------------------------------------------------------------------
\* The memory of a cell of a model, as its update leaves it.
MemoryRows(sig) ==
  LET poles == [1..sig[2] -> Int]
      points == [1..sig[3] -> Int]
  IN  CASE sig[1] \in {"drude", "lorentz"} -> [previous : poles, current : poles]
        [] sig[1] = "dcp-ade" -> [field : Int, poleOld : poles, poleNow : poles,
                                  pointOld : points, pointNow : points]
        [] sig[1] \in {"dcp-plrc", "dcp-rc"} -> [pole : poles, point : [1..sig[3] -> Int \X Int]]
        [] OTHER -> poles

\* A curl axis that the plain update already treats keeps no memory.
PlainAxis(cell, a) == cell.curl[a].c = 0 /\ cell.curl[a].kappa = 1

Remembers(b, k, row) ==
  /\ row \in MemoryRows(b.signature)
  /\ b.signature[1] = "cpml" => \A a \in 1..2 : PlainAxis(b.cells[k], a) => row[a] = 0

Buffered(of, M) ==
  /\ M = [dispersive |-> M.dispersive, absorber |-> M.absorber, axis |-> M.axis]
  /\ DOMAIN M.dispersive = DOMAIN of.arena
  /\ \A entry \in DOMAIN of.arena :
       LET rows == of.arena[entry]
       IN  \A j \in DOMAIN rows :
             Remembers(BucketOf(of.plan, rows[j][1]), rows[j][2], M.dispersive[entry][j])
  /\ DOMAIN M.absorber = of.dense
  /\ \A d \in of.dense : \A k \in DOMAIN BucketOf(of.plan, d).targets :
       Remembers(BucketOf(of.plan, d), k, M.absorber[d][k])
  /\ DOMAIN M.axis = of.sparse \X {1, 2}
  /\ \A d \in of.sparse, a \in 1..2 :
       \A j \in DOMAIN BucketOf(of.plan, d).residual[a].positions : M.axis[<<d, a>>][j] \in Int

\* IInv: the simulation is the one constructed for the scene, a split is what the
\* choice made of an order that has one, and fields and memory are what the updates
\* leave.
SplitChosen ==
  split # <<>> => \E order \in Orders : Decomposable(This, order) /\ split = Chosen(order)

IInv ==
  /\ scene \in DOMAIN Scenes
  /\ sim \in Range(Simulations[scene])
  /\ SplitChosen

Inhabited == Arrays(This, F) /\ Buffered(sim, mem)

\* Every configuration computes the half steps of CellwiseUpdate and keeps each
\* cell's memory, whatever buckets, layouts, groups and residual axes it uses,
\* and loading the checkpoint of another one changes nothing.
Memory ==
  [x \in DOMAIN sim.cells |-> LogicalRow(mem, sim.cells[x][1], sim.cells[x][2])]

Cellwise == INSTANCE CellwiseUpdate WITH memory <- Memory
CellwiseSpec == Cellwise!Spec

\* The state checkpoint of one configuration is accepted by every other: in particular
\* what the full CPML layout stores on rows a sparse axis leaves out is zero.
CheckpointsPortable ==
  \A saved \in {Logical} : \A to \in Range(Simulations[scene]) : Accepts(to, saved)

(***************************************************************************)
(* The plans of the two ranks, each made from its own view of the grid,    *)
(* are the plan of the undivided scene taken apart: every updated cell is  *)
(* in a bucket of exactly one rank, with the same model, coefficients and  *)
(* absorber grading, and each rank has two cells along the axis.           *)
(***************************************************************************)
Treatment(plan, g, c) ==
  LET homes == UNION {{<<o, k>> : k \in DOMAIN plan[c].buckets[o].targets} :
                      o \in DOMAIN plan[c].buckets}
      bucket(x) == plan[c].buckets[x[1]]
      at(x) == Sum3(Unflat(Shape(g, c), bucket(x).targets[x[2]]), g.off)
      what(x) == << bucket(x).signature, TargetRow(bucket(x), x[2]),
                    IF bucket(x).cells = <<>> THEN <<>> ELSE bucket(x).cells[x[2]] >>
  IN  {<<at(x), what(x)>> : x \in homes}

PlacesOf(treatment) == {t[1] : t \in treatment}

RanksPartition ==
  split # <<>> =>
    LET view(r) == RankLocal(This.n, split.axis, split.cut, r)
        options == [sim.options EXCEPT !.distributed = TRUE]
    IN  /\ \A r \in {0, 1} : view(r).n[split.axis] >= 2
        /\ \A plans \in {[r \in {0, 1} |-> Plan(This, options, view(r))]} :
             \A c \in Component :
               \A parts \in {[r \in {0, 1} |-> Treatment(plans[r], view(r), c)]} :
                 /\ PlacesOf(parts[0]) \cap PlacesOf(parts[1]) = {}
                 /\ parts[0] \cup parts[1] = Treatment(sim.plan, Serial(This.n), c)

\* A relatively faster first device never gets fewer cells: the choice of the
\* cut is monotone in the weights, with surfaces and sources in the estimate.
HeavierGetsMore ==
  split # <<>> /\ split.order.cut = 0 =>
    \A o \in Orders :
      o.weights[1] * split.order.weights[2] >= split.order.weights[1] * o.weights[2]
        => Choose(This, [o EXCEPT !.axis = split.axis, !.cut = 0])[2] >= split.cut
=============================================================================
