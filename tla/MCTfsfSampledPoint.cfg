SPECIFICATION Spec
CONSTANTS
  P = 97
  Rate <- MCRate
  Amp = 3
  Pml = 8
  Steps = 7
  Launches <- AlongZPolarisedY
INVARIANT TotalZoneIncident
CHECK_DEADLOCK FALSE
