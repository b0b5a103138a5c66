SPECIFICATION FairSpec
CONSTANTS
  Program <- MCProgram
  Sessions <- MCSessions
INVARIANTS
  IInv
  BuildsAgree
  CaptureAgrees
  BadHeaderRestoresNothing
  MixedOnlyAfterRefusal
  CollectivesMatch
  StepsAgree
PROPERTY SessionEnds
