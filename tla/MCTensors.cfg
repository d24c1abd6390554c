SPECIFICATION Spec
CONSTANTS
  Half = 8
  Arguments <- MCArguments
INVARIANTS
  TypeOK
  ViewKeepsCount
  ReshapeIsExact
  OffsetsAreDistinct
