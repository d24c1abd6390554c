CONSTANTS
  Names = {n1, n2}
  Storages = {s1, s2, s3, s4, s5, s6, s7, s8}
  Inputs <- MCInputs
  MaxTokens = 2
  MaxLength = 3
  None = None
SYMMETRY MCNamesSymmetry
SPECIFICATION Spec
INVARIANTS
  TypeOK
  KeyValueAlike
  CopiesInBounds
  KeysMatchValues
  SingleLaneInOrder
PROPERTY ImplementsChunkLog
