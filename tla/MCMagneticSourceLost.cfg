SPECIFICATION Spec
CONSTANTS
  P = 31
  Rate <- MCRate
  Bloch <- MCBloch
  Inverse <- MCInverse
  Drude <- MCDrude
  PoleA <- MCPoleA
  PoleC <- MCPoleC
  Frozen <- MCFrozen
  FrozenValue = 5
  Steps = 2
  Partitions <- LostSources
  HostFields <- MCHostFields
INVARIANT OwnedMatchesSerial
