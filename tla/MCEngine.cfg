CONSTANTS
  Layers = 2
  Biased <- MCBiased
  HeadDim = 2
  MaxRuns = 4
  MaxRows = 2
  None = None
SPECIFICATION Spec
INVARIANTS
  TypeOK
  NamesResolve
  LayersInLockstep
  DriftIsBounded
  WritesAreFresh
  ContextsNest
PROPERTIES
  PromptLeavesCache
  CacheSeesAppends
