SPECIFICATION FairSpec
CONSTANTS
  Sizes <- MCSizes
  MaxIterations = 2
  PerChunk = 1
  PerCondition = 3
  MaxSteps = 2
INVARIANTS
  IInv
  CommitsOwnResult
  FailureReported
PROPERTY StepReturns
