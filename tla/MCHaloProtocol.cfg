SPECIFICATION FairSpec
CONSTANT Steps = 3
INVARIANTS
  HaloIInv
  HaloMatch
  NeverRefused
  BuffersQuiet
  CompletesWithPeer
PROPERTIES
  OrderSpec
  AdvanceReturns
