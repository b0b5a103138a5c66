----------------------------- MODULE GeometryTree -----------------------------
(***************************************************************************)
(* GeomBoxTree: built by branch_out, one node per step, and then used by   *)
(* lower_grid to map a tile of a rectilinear grid to indices of the        *)
(* geometry list, leaf by leaf and, within a leaf, object by object.       *)
(*                                                                         *)
(* The geometry list of a node keeps the order of the scene, so it is the  *)
(* set of its indices in the scene; a node is named by its path from the   *)
(* root.  The recursions of branch_out and of _leaf_tiles are the stacks   *)
(* branching and work.                                                     *)
(***************************************************************************)
EXTENDS GeomShapes, Sequences

CONSTANTS
  Scenes,      \* geometry lists, after init() of every object
  Grids,       \* [x |-> axis, y |-> .., z |-> ..] of coordinates, and a tile
  Points,      \* points that are looked up one by one
  Small        \* the clearance between an object and a cut (1e-7)

VARIABLES
  scene,       \* the geometry list
  grid,        \* the tile that lower_grid is asked for
  tree,        \* path -> [box, list, cut]
  branching,   \* paths that branch_out has still to visit
  work,        \* _leaf_tiles: <<path, positions>> still to descend into
  leaf,        \* the tile of the leaf being painted, its objects, and those to come
  material,    \* material_ids
  underlying   \* underlying_ids

vars == <<scene, grid, tree, branching, work, leaf, material, underlying>>

None == -1

Box(s, i) == GeomBox(s[i])
Contains(s, i, p) == InObject(s[i], p)
Compound(s, i) == s[i].compound

\* The positions of a tile are the C-order indices of its grid points.
Tile(g) == g.start .. (g.stop - 1)

PointAt(g, q) ==
  LET nz == Len(g.z)
      plane == Len(g.y) * nz
  IN  << g.x[(q \div plane) + 1], g.y[((q % plane) \div nz) + 1],
         g.z[((q % plane) % nz) + 1] >>

ASSUME SceneAssumption ==
  /\ Small \in Nat
  /\ \A s \in Scenes :
       /\ Len(s) \in Nat /\ DOMAIN s = 1..Len(s)
       /\ \E i \in DOMAIN s : s[i].kind = "medium" /\ s[i].compound = FALSE
       /\ \A i \in DOMAIN s : s[i].compound \in BOOLEAN

(***************************************************************************)
(* What geom_box promises of every shape, the ones a user adds included.   *)
(***************************************************************************)
Boxes == [low : [Axes -> -Inf .. Inf], high : [Axes -> -Inf .. Inf]]

ASSUME ShapeAssumption ==
  \A s \in Scenes : \A i \in DOMAIN s :
    /\ GeomBox(s[i]) \in Boxes
    /\ \A a \in Axes : GeomBox(s[i]).low[a] <= GeomBox(s[i]).high[a]
    /\ \A p \in Points : InObject(s[i], p) => InBox(GeomBox(s[i]), p)

ASSUME PointAssumption ==
  /\ \A p \in Points : p \in [Axes -> -Inf .. Inf]
  /\ \A g \in Grids : /\ g.start \in Nat /\ g.stop \in Nat
                       /\ \A q \in Tile(g) : PointAt(g, q) \in Points

First(list) == CHOOSE i \in list : \A j \in list : i <= j
Last(list) == CHOOSE i \in list : \A j \in list : j <= i

(***************************************************************************)
(* find_object: the last object that holds the point; the first one is not *)
(* asked.                                                                  *)
(***************************************************************************)
FindObject(s, list, p) ==
  LET hits == {i \in list \ {First(list)} : Contains(s, i, p)}
  IN  IF hits = {} THEN First(list) ELSE Last(hits)

(***************************************************************************)
(* find_best_partition and divide_geom_box_tree.  A cut is <<axis, phase,  *)
(* index>>: just above an object (phase 0) or just below it (phase 1).     *)
(***************************************************************************)
CutCoordinate(s, c) ==
  IF c[2] = 0 THEN Offset(Box(s, c[3]).high[c[1]], Small)
              ELSE Offset(Box(s, c[3]).low[c[1]], -Small)

\* The larger of the numbers of objects on the two sides of a cut.
Worst(s, list, c) ==
  LET x  == CutCoordinate(s, c)
      n1 == Cardinality({i \in list : Box(s, i).low[c[1]] <= x})
      n2 == Cardinality({i \in list : Box(s, i).high[c[1]] >= x})
  IN  IF n1 >= n2 THEN n1 ELSE n2

Cuts(list) == Axes \X {0, 1} \X list

\* The order in which the loops try the cuts.
Before(c, d) ==
  \/ c[1] < d[1]
  \/ c[1] = d[1] /\ (c[2] < d[2] \/ (c[2] = d[2] /\ c[3] < d[3]))

\* Mutant: a cut that only ties is taken.
Ties(s, list, c) == Worst(s, list, c) <= Cardinality(list)

Improves(s, list, c) == Worst(s, list, c) < Cardinality(list)

\* Only a strict improvement replaces the best cut so far.
BestCut(s, list, c) ==
  /\ Improves(s, list, c)
  /\ \A d \in Cuts(list) \ {c} :
       \/ Worst(s, list, d) > Worst(s, list, c)
       \/ Worst(s, list, d) = Worst(s, list, c) /\ Before(c, d)

Overlapping(s, list, b) == {i \in list : Overlap(b, Box(s, i))}

Node(b, list) == [box |-> b, list |-> list, cut |-> <<>>]

Left(n) == Append(n, 1)
Right(n) == Append(n, 2)

IsLeaf(n) == tree[n].cut = <<>>

\* branch_out on a node that some cut improves ...
Divide(n, c) ==
  LET x  == CutCoordinate(scene, c)
      b1 == Below(tree[n].box, c[1], x)
      b2 == Above(tree[n].box, c[1], x)
  IN  tree' = [m \in DOMAIN tree \cup {Left(n), Right(n)} |->
                 IF m = n THEN [tree[n] EXCEPT !.cut = <<c[1], x>>]
                 ELSE IF m = Left(n) THEN Node(b1, Overlapping(scene, tree[n].list, b1))
                 ELSE IF m = Right(n) THEN Node(b2, Overlapping(scene, tree[n].list, b2))
                 ELSE tree[m]]

Branch ==
  /\ branching # <<>>
  /\ LET n == Head(branching)
     IN  \E c \in Cuts(tree[n].list) :
           /\ BestCut(scene, tree[n].list, c)
           /\ Divide(n, c)
           /\ branching' = <<Left(n), Right(n)>> \o Tail(branching)
  /\ UNCHANGED <<scene, grid, work, leaf, material, underlying>>

\* ... and on one that none does, which stays a leaf.
KeepLeaf ==
  /\ branching # <<>>
  /\ \A c \in Cuts(tree[Head(branching)].list) : ~Improves(scene, tree[Head(branching)].list, c)
  /\ branching' = Tail(branching)
  /\ UNCHANGED <<scene, grid, tree, work, leaf, material, underlying>>

(***************************************************************************)
(* lower_grid                                                              *)
(***************************************************************************)
Idle == [tile |-> {}, list |-> {}, rest |-> {}]

\* The leaf under a stack entry, with the positions that reached it; its first
\* object is the background of all of them.
OpenLeaf(n, tile) ==
  /\ leaf' = [tile |-> tile, list |-> tree[n].list,
               rest |-> tree[n].list \ {First(tree[n].list)}]
  /\ material' = [q \in DOMAIN material |->
                    IF q \in tile THEN First(tree[n].list) ELSE material[q]]
  /\ work' = Tail(work)
  /\ UNCHANGED underlying

\* Mutant: what the first child refuses recurses on the node, not on the second.
DescendAgain(n, tile) ==
  LET t1 == {q \in tile : InBox(tree[Left(n)].box, PointAt(grid, q))}
  IN  /\ work' = <<<<Left(n), t1>>, <<n, tile \ t1>>>> \o Tail(work)
      /\ UNCHANGED <<leaf, material, underlying>>

\* A position on the face that two children share goes to the first of them.
Descend(n, tile) ==
  LET t1 == {q \in tile : InBox(tree[Left(n)].box, PointAt(grid, q))}
      t2 == {q \in tile \ t1 : InBox(tree[Right(n)].box, PointAt(grid, q))}
  IN  /\ work' = <<<<Left(n), t1>>, <<Right(n), t2>>>> \o Tail(work)
      /\ UNCHANGED <<leaf, material, underlying>>

SkipEmpty(tile) ==
  /\ tile = {}
  /\ work' = Tail(work)
  /\ UNCHANGED <<leaf, material, underlying>>

LeafTiles ==
  /\ branching = <<>> /\ leaf.rest = {} /\ work # <<>>
  /\ LET n == Head(work)[1]
         tile == Head(work)[2]
     IN  \/ SkipEmpty(tile)
         \/ tile # {} /\ IsLeaf(n) /\ OpenLeaf(n, tile)
         \/ tile # {} /\ ~IsLeaf(n) /\ Descend(n, tile)
  /\ UNCHANGED <<scene, grid, tree, branching>>

\* Mutant: what lies under an earlier compound outlives the object that hides it.
PaintOver ==
  /\ leaf.rest # {}
  /\ LET i == First(leaf.rest)
         hit == {q \in leaf.tile : Contains(scene, i, PointAt(grid, q))}
     IN  /\ leaf' = [leaf EXCEPT !.rest = @ \ {i}]
         /\ underlying' = [q \in DOMAIN underlying |->
                             IF q \in hit /\ Compound(scene, i) THEN material[q] ELSE underlying[q]]
         /\ material' = [q \in DOMAIN material |-> IF q \in hit THEN i ELSE material[q]]
  /\ UNCHANGED <<scene, grid, tree, branching, work>>

\* One object of the leaf over those painted before it.
Paint ==
  /\ leaf.rest # {}
  /\ LET i == First(leaf.rest)
         hit == {q \in leaf.tile : Contains(scene, i, PointAt(grid, q))}
     IN  /\ leaf' = [leaf EXCEPT !.rest = @ \ {i}]
         /\ underlying' = [q \in DOMAIN underlying |->
                             IF q \notin hit THEN underlying[q]
                             ELSE IF Compound(scene, i) THEN material[q] ELSE None]
         /\ material' = [q \in DOMAIN material |-> IF q \in hit THEN i ELSE material[q]]
  /\ UNCHANGED <<scene, grid, tree, branching, work>>

Lowered == branching = <<>> /\ work = <<>> /\ leaf.rest = {}

Init ==
  /\ scene \in Scenes
  /\ grid \in Grids
  /\ tree = [n \in {<<>>} |-> Node(Everywhere, DOMAIN scene)]
  /\ branching = <<<<>>>>
  /\ work = <<<<<<>>, Tile(grid)>>>>
  /\ leaf = Idle
  /\ material = [q \in Tile(grid) |-> None]
  /\ underlying = [q \in Tile(grid) |-> None]

Next == Branch \/ KeepLeaf \/ LeafTiles \/ Paint

Spec == Init /\ [][Next]_vars /\ WF_vars(Next)
-----------------------------------------------------------------------------
(***************************************************************************)
(* The pointwise lookup of the finished tree.                              *)
(***************************************************************************)
NoLeaf == <<0>>

\* tree_search: the leaf a point reaches, or none where both halves refuse it.
TreeSearch(p) ==
  LET from[n \in DOMAIN tree] ==
        IF IsLeaf(n) THEN n
        ELSE IF InBox(tree[Left(n)].box, p) THEN from[Left(n)]
        ELSE IF InBox(tree[Right(n)].box, p) THEN from[Right(n)]
        ELSE NoLeaf
  IN  from[<<>>]

\* find_object of the objects before i.  An empty list raises in the code.
Beneath(s, list, i, p) ==
  LET before == {j \in list : j < i}
  IN  IF before = {} THEN None ELSE FindObject(s, before, p)

\* object_of_point: the object on top and, when it is a compound, the one below.
ObjectOfPoint(s, list, p) ==
  LET i == FindObject(s, list, p)
  IN  <<i, IF Compound(s, i) THEN Beneath(s, list, i, p) ELSE None>>
-----------------------------------------------------------------------------
\* Type invariant: nodes carry boxes and indices of the scene, and the tile maps
\* hold an index or None at every position.
TypeOK ==
  /\ scene \in Scenes /\ grid \in Grids
  /\ \A n \in DOMAIN tree :
       /\ tree[n].box \in Boxes
       /\ tree[n].list \subseteq DOMAIN scene
  /\ leaf.rest \subseteq leaf.list /\ leaf.list \subseteq DOMAIN scene
  /\ leaf.tile \subseteq Tile(grid)
  /\ material \in [Tile(grid) -> DOMAIN scene \cup {None}]
  /\ underlying \in [Tile(grid) -> DOMAIN scene \cup {None}]

\* Two closed boxes have a point in common.
Meets(b, c) == \A a \in Axes : b.low[a] <= c.high[a] /\ c.low[a] <= b.high[a]

\* However often a node was divided, and wherever a cut fell among overlapping
\* boxes, its list has every object of the scene that reaches into its box, and
\* none that does not.
LeafComplete ==
  \A n \in DOMAIN tree :
    tree[n].list = {i \in DOMAIN scene : Meets(tree[n].box, Box(scene, i))}

\* A cut falls strictly inside the box it divides and leaves both halves fewer
\* objects than the node has: no half is empty, inverted, or divided for ever.
CutsShrink ==
  \A n \in DOMAIN tree : ~IsLeaf(n) =>
    /\ \E a \in Axes : /\ tree[n].box.low[a] < tree[Left(n)].box.high[a]
                       /\ tree[Left(n)].box.high[a] = tree[Right(n)].box.low[a]
                       /\ tree[Right(n)].box.low[a] < tree[n].box.high[a]
    /\ \A m \in {Left(n), Right(n)} : Cardinality(tree[m].list) < Cardinality(tree[n].list)

\* The lowered tile says of every grid point what a scan of the whole geometry
\* list says of it: the object on top, and what lies under a compound.
LoweringMatchesScan ==
  Lowered => \A q \in Tile(grid) :
    <<material[q], underlying[q]>> = ObjectOfPoint(scene, DOMAIN scene, PointAt(grid, q))

\* The tree answers a point, the sentinel at infinity included, as a scan of the
\* whole geometry list does, on whichever side of shared faces it lies.
LookupMatchesScan ==
  Lowered => \A p \in Points :
    /\ TreeSearch(p) # NoLeaf
    /\ ObjectOfPoint(scene, tree[TreeSearch(p)].list, p) = ObjectOfPoint(scene, DOMAIN scene, p)

\* lower_grid returns: every branch of the recursion ends.
LoweringReturns == <>Lowered
=============================================================================
