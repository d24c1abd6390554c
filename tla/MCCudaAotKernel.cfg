CONSTANTS
  Threads = {t1, t2}
  Kernels = {add, linear, bare}
  Embedded = {add, linear}
  MaxModules = 3
  None = None
SYMMETRY MCSymmetry
SPECIFICATION Spec
INVARIANTS
  TypeOK
  LaunchesLoadedFunction
  ExtraModulesAreBounded
