---------------------------- MODULE ExecutionPlan ----------------------------
(***************************************************************************)
(* TorchExecutionPlanner: the cells of a view of the grid are gathered,    *)
(* per component, into buckets of one execution model each; a bucket has a *)
(* dense, a compact and a tiled layout and, for CPML, sparse residual axes *)
(* over the dense coefficient plane.  options is [compiled, policy, tile,  *)
(* scope, distributed]: the runtime settings that select among them.       *)
(***************************************************************************)
EXTENDS MaterialModels

\* The elements of a set in the ascending order of a strict total order on it.
Ordered(S, Less(_, _)) ==
  LET place == [e \in S |-> Cardinality({x \in S : Less(x, e)}) + 1]
  IN  [k \in 1..Cardinality(S) |-> CHOOSE e \in S : place[e] = k]

Before(p, q) == p < q
PairBefore(p, q) == p[1] < q[1] \/ (p[1] = q[1] /\ p[2] < q[2])

\* The distinct elements of a sequence, where they occur first.
Distinct(seq) ==
  LET first == Ordered({k \in DOMAIN seq : \A j \in DOMAIN seq : j < k => seq[j] # seq[k]}, Before)
  IN  [i \in DOMAIN first |-> seq[first[i]]]

\* Mutant: rows that are stretched without loss are taken for plain ones.
LossyOnly(targets, cells, axis) ==
  LET rows == Ordered({k \in DOMAIN targets : cells[k].curl[axis].c # 0}, Before)
  IN  [axis |-> axis, positions |-> rows,
       targets |-> [k \in DOMAIN rows |-> targets[rows[k]]],
       parameters |-> [k \in DOMAIN rows |->
          LET p == cells[rows[k]].curl[axis]
          IN  [base |-> cells[rows[k]].base, b |-> p.b, c |-> p.c,
               excess |-> Reciprocal(p.kappa) - 1]]]

\* The rows of one curl axis that differ from the plain update.
Residual(targets, cells, axis) ==
  LET rows == Ordered({k \in DOMAIN targets : \/ cells[k].curl[axis].c # 0
                                              \/ cells[k].curl[axis].kappa # 1}, Before)
  IN  [axis |-> axis, positions |-> rows,
       targets |-> [k \in DOMAIN rows |-> targets[rows[k]]],
       parameters |-> [k \in DOMAIN rows |->
          LET p == cells[rows[k]].curl[axis]
          IN  [base |-> cells[rows[k]].base, b |-> p.b, c |-> p.c,
               excess |-> Reciprocal(p.kappa) - 1]]]

(***************************************************************************)
(* _select_policy on a CPU, in hundredths.  A compiled run keeps the       *)
(* dispersive models from the layouts that need a full-field temporary.    *)
(***************************************************************************)
Layouts == << "dense", "compact", "tiled" >>

Costs(count, active, tileCells, width) ==
  [dense   |-> active * (100 + 10 * width) + 25600,
   compact |-> count * (215 + 18 * width) + 25600,
   tiled   |-> tileCells * (120 + 12 * width) + 29440]

SelectPolicy(options, sig, count, active, tileCells) ==
  IF options.policy # "auto" THEN options.policy
  ELSE LET cost == Costs(count, active, tileCells, StateWidth(sig))
           selectable == IF options.compiled /\ sig[1] \in DispersiveModels
                         THEN {"compact"} ELSE Range(Layouts)
       IN  Layouts[Min({i \in DOMAIN Layouts : /\ Layouts[i] \in selectable
                          /\ \A l \in selectable : cost[Layouts[i]] <= cost[l]})]

SparseResidual(s, options, c) ==
  options.compiled /\ ~options.distributed /\ c \in s.stable
-----------------------------------------------------------------------------
Position(seq, e) == CHOOSE k \in DOMAIN seq : seq[k] = e

\* The point, the objects and the model of a flat index of a component's array.
PointAt(g, c, i) == IndexToSpace(g, c, Unflat(Shape(g, c), i))
KeyAt(s, g, c, i) == Key(s, PointAt(g, c, i))
ModelAt(s, g, c, i) == ModelAndState(Material(s, KeyAt(s, g, c, i)[1]), c)

\* The cells of a bucket, the regions they lie in, and the coefficients of those.
Regions(s, g, c, targets) ==
  LET cellKeys == [k \in DOMAIN targets |-> KeyAt(s, g, c, targets[k])]
      keys     == Ordered(Range(cellKeys), PairBefore)
  IN  [targets |-> targets, keys |-> keys,
       regions |-> [k \in DOMAIN targets |-> Position(keys, cellKeys[k])],
       keyRows |-> [r \in DOMAIN keys |-> CoefficientRow(s, keys[r], c)]]

\* The bucket of these cells: one coefficient row for equal regions, absorber
\* cells, residual axes, and the layout chosen among those of active cells.
BucketPlan(s, options, g, c, sig, active, q) ==
  LET targets   == q.targets
      rows      == Distinct(q.keyRows)
      rowOf     == [r \in DOMAIN q.keys |-> Position(rows, q.keyRows[r])]
      cells     == IF sig[1] \notin Absorbers THEN <<>>
                   ELSE [k \in DOMAIN targets |->
                           PmlCell(s, Material(s, q.keys[q.regions[k]][1]), c,
                                   PointAt(g, c, targets[k]), rows[rowOf[q.regions[k]]][1])]
      tiles     == Ordered({targets[k] \div options.tile : k \in DOMAIN targets}, Before)
      policy    == SelectPolicy(options, sig, Len(targets), active,
                                Len(tiles) * options.tile)
      tiled     == IF policy = "tiled" THEN DOMAIN tiles ELSE {}
  IN  [signature |-> sig, policy |-> policy, targets |-> targets, keys |-> q.keys,
       regions |-> q.regions, rows |-> rows, rowOf |-> rowOf, cells |-> cells,
       residual |-> IF sig[1] = "cpml" /\ SparseResidual(s, options, c)
                    THEN [axis \in 1..2 |-> Residual(targets, cells, axis)] ELSE <<>>,
       origins |-> [t \in tiled |-> tiles[t] * options.tile],
       tileRegions |->
         [t \in tiled |-> [o \in 0..(options.tile - 1) |->
            LET i == tiles[t] * options.tile + o
            IN  IF i \in Range(targets) THEN q.regions[Position(targets, i)] ELSE 0]]]

Bucket(s, options, g, c, sig, active) ==
  BucketPlan(s, options, g, c, sig, Cardinality(active),
             Regions(s, g, c, Ordered({i \in active : ModelAt(s, g, c, i) = sig}, Before)))

\* The coefficient row of the k-th cell of a bucket.
TargetRow(b, k) == b.rows[b.rowOf[b.regions[k]]]

\* The cells a solver updates densely, and their coefficients.
DenseInverse(b, k) ==
  IF b.signature[1] = "dielectric" THEN TargetRow(b, k)[1]
  ELSE IF b.residual # <<>> THEN b.cells[k].base ELSE 0

\* The plan of an array of this shape from its buckets.
Planes(shape, buckets) ==
  LET owner(i) == {o \in DOMAIN buckets : i \in Range(buckets[o].targets)}
      inverse(i) == LET o == CHOOSE o \in owner(i) : TRUE
                    IN  DenseInverse(buckets[o], Position(buckets[o].targets, i))
      constant == UNION {{<<buckets[o].targets[k], TargetRow(buckets[o], k)[2]>> :
                            k \in DOMAIN buckets[o].targets} :
                         o \in {o \in DOMAIN buckets : buckets[o].signature[1] = "const"}}
  IN  [shape |-> shape, buckets |-> buckets,
       dense |-> [i \in 0..(Total(shape) - 1) |-> IF owner(i) = {} THEN 0 ELSE inverse(i)],
       constants |-> Ordered(constant, PairBefore)]

ComponentPlan(s, options, g, c) ==
  LET active == ActiveTargets(g, c)
      sigs   == Ordered({ModelAt(s, g, c, i) : i \in active}, SignatureBefore)
  IN  Planes(Shape(g, c), [o \in DOMAIN sigs |-> Bucket(s, options, g, c, sigs[o], active)])

\* All component plans of a view.
Plan(s, options, g) == [c \in Component |-> ComponentPlan(s, options, g, c)]
=============================================================================
