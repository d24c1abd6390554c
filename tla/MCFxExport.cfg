SPECIFICATION FxSpec
CONSTANTS
  Half = 1024
  Modules <- MCModules
  RootParams <- MCRootParams
  ViewTargets <- MCViewTargets
  InputNames = {"x", "p"}
  Examples <- MCExamples
  Batches = {1, 2, 64}
  HalfInt = 32
  MaxColumns = 16
  MaxCalls = 3
CHECK_DEADLOCK FALSE
INVARIANTS
  FxTypeOK
  PluginIsExact
  Faithful
  ExampleRuns
