SPECIFICATION RunAndRingSpec
CONSTANTS
  MaxStep = 2
  MaxFaults = 2
  Drift = 1
  Capacity = 3
  Samples = {a, b}
  NoSample = none
  MaxTotal = 7
INVARIANTS
  InPhase
  IncidentInPhase
  RefusedLoadIntact
  CaptureTransparent
  RingInvariant
  FlushesSamples
PROPERTY LogSpec
