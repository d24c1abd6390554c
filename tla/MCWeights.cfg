CONSTANTS
  Names = {w, b}
  Sizes = {1, 2}
  Foreign <- MCForeign
  Half = 8
  MaxBytes = 3
  MaxExports = 2
  Torn = Torn
  None = None
SYMMETRY MCSymmetry
SPECIFICATION Spec
INVARIANTS
  TypeOK
  ReadsInside
  LoadsWhatWasAdded
