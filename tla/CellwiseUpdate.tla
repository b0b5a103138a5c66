---------------------------- MODULE CellwiseUpdate ----------------------------
(***************************************************************************)
(* What a half step promises: every cell the solver updates follows the    *)
(* recurrence of its own material, from the fields of the other family and *)
(* its own memory, as if it were alone.  No buckets, layouts or orders.    *)
(* The corrector of two-level cells (dm2) is a stage of its own.           *)
(***************************************************************************)
EXTENDS MaterialModels

CONSTANTS
  Steps,         \* full steps of a run
  Scenes,        \* the sequence of scenes considered
  HostFields(_)  \* the arrays given to load_host_fields() for a scene

VARIABLES
  scene,     \* the index of the scene
  half,      \* half steps done; the next one is electric when it is even
  F,         \* F[c][v]: the fields
  memory     \* memory[<<c, i>>]: the memory of the cell with flat index i

vars == <<scene, half, F, memory>>

Cell(s, c, i) ==
  LET x   == IndexToSpace(Serial(s.n), c, Unflat(Shape(Serial(s.n), c), i))
      key == Key(s, x)
      row == CoefficientRow(s, key, c)
      sig == ModelAndState(Material(s, key[1]), c)
  IN  [sig |-> sig, base |-> row[1], coef |-> row[2],
       pml |-> IF sig[1] \in Absorbers
               THEN PmlCell(s, Material(s, key[1]), c, x, row[1]) ELSE <<>>]

\* The cells that are updated.
CellMap ==
  [s \in DOMAIN Scenes |-> [c \in Component |->
     [i \in ActiveTargets(Serial(Scenes[s].n), c) |-> Cell(Scenes[s], c, i)]]]

This == Scenes[scene]
ShapeOf(c) == Shape(Serial(This.n), c)

Remembered(s) ==
  {d \in UNION {{<<c, i>> : i \in DOMAIN CellMap[s][c]} : c \in Component} :
     CellMap[s][d[1]][d[2]].sig[1] \in Stateful}

Init ==
  /\ scene \in DOMAIN Scenes
  /\ half = 0
  /\ F = HostFields(This)
  /\ memory = [d \in Remembered(scene) |-> ZeroRow(CellMap[scene][d[1]][d[2]].sig)]

\* The two differences a cell takes from its stencil, G being synchronised.
Differences(G, c, v) ==
  [j \in 1..2 |->
     LET t == PmlTerms(c)[j]
     IN  Rate[t.axis] * (G[t.source][Sum3(v, t.positive)] - G[t.source][Sum3(v, t.negative)])]

\* The new field and memory of one cell.
Updated(G, c, v) ==
  LET i    == Flat(ShapeOf(c), v)
      cell == CellMap[scene][c][i]
      e    == G[c][v]
      curl == Grid(Phases(This))!Curl(G, c, v)
  IN  CASE cell.sig[1] = "dielectric" -> [field |-> (e + cell.base * curl) % P]
        [] cell.sig[1] = "const" -> [field |-> cell.coef]
        [] cell.sig[1] \in {"dummy", "dm2"} -> [field |-> e]
        [] cell.sig[1] \in Absorbers ->
             AbsorberUpdate(cell.sig, cell.pml, memory[<<c, i>>], e, Differences(G, c, v),
                            Direction(c))
        [] OTHER -> Recurrence(cell.sig, cell.coef, memory[<<c, i>>], e, curl)

\* The fields of the other family are wrapped first.
Wrapped(family) ==
  Grid(Phases(This))!Sync(F, IF family = "E" THEN "H" ELSE "E", Serial(This.n), 0)

HalfStep(family) ==
  /\ half < 2 * Steps
  /\ half' = half + 1
  /\ \E G \in {Wrapped(family)} :
       /\ F' = [c \in Component |->
                  [v \in DOMAIN F[c] |->
                     IF c[1] = family /\ Flat(ShapeOf(c), v) \in DOMAIN CellMap[scene][c]
                     THEN Updated(G, c, v).field ELSE G[c][v]]]
       /\ memory' = [d \in DOMAIN memory |->
                       IF d[1][1] = family
                       THEN Updated(G, d[1], Unflat(ShapeOf(d[1]), d[2])).row ELSE memory[d]]
  /\ UNCHANGED scene

Electric == half % 2 = 0 /\ HalfStep("E")
Magnetic == half % 2 = 1 /\ HalfStep("H")

Next == Electric \/ Magnetic

Spec == Init /\ [][Next]_vars
=============================================================================
