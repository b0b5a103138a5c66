SPECIFICATION Spec
CONSTANTS
  Inf = 1000
  Small = 1
  Scenes <- MCScenes
  Grids <- MCGrids
  Points <- MCPoints
INVARIANTS
  LeafComplete
  CutsShrink
  LookupMatchesScan
  LoweringMatchesScan
PROPERTY LoweringReturns
CHECK_DEADLOCK FALSE
