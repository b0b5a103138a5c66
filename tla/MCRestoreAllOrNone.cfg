SPECIFICATION Spec
CONSTANTS
  Program <- MCProgram
  Sessions <- MCSessions
INVARIANT RestoreAllOrNone
