SPECIFICATION Spec
CONSTANTS
  Values <- ThreeValues
  Names <- TwoNames
  MaxBatch = 2
  MaxItems = 3
  MaxCalls = 4
INVARIANTS
  RestoreInvisible
  ReadsAsPromised
