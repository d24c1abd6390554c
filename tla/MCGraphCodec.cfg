CONSTANTS
  x = x
  y = y
  relu = relu
  Strings = {x, y, relu}
  AttrNames = {a}
  AttrValues <- MCAttrValues
  Documents <- MCDocuments
  Places = 3
  Precision = 2
  MaxInt = 255
  Exact = 128
  Spacings = {1, 2}
  MinNormal = 222
  V1 = V1
  NoString = NoString
  Missing = Missing
  Wrong = Wrong
  NonFinite = NonFinite
  Malformed = Malformed
  None = None
SPECIFICATION Spec
INVARIANT
  TypeOK
PROPERTIES
  WritesAreAccepted
  OnlyDoublesDrift
  SecondTripIsExact
