CONSTANTS
  Registries = {r1, r2}
  Libraries = {triton, other}
  Plugins = {triton}
  Types = {add, mul}
  Host = Host
  None = None
  MaxOpens = 4
SYMMETRY MCSymmetry
SPECIFICATION Spec
INVARIANT FactoriesAreMapped
