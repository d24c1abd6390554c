CONSTANTS
  Layers = 1
  Biased <- MCBiased
  HeadDim = 2
  MaxRuns = 3
  MaxRows = 1
  None = None
SPECIFICATION Spec
INVARIANT RotatedToItsPosition
