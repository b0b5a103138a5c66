SPECIFICATION Spec
CONSTANTS
  P = 31
  Rate <- MCRate
  Steps = 2
  Scenes <- MCScenes
  Configs <- MCConfigs
  Orders <- MCOrders
  HostFields <- MCHostFields
INVARIANTS
  CheckpointsPortable
  RanksPartition
  HeavierGetsMore
PROPERTIES
  CellwiseSpec
