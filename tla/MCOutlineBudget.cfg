SPECIFICATION Spec
CONSTANTS
  Files <- MCFiles
  Dir <- MCDir
  EntryNamed = {1}
  ContextNamed = {6}
  TestPaths = {7}
  Auxiliary = {4}
  Module <- MCModule
  Outlines <- MCOutlines
  UsedNames = {{}, {1}, {2}}
  UsedModules = {{}, {"a"}, {"client"}}
  Budgets = {4, 9, 12, 14, 20}
  HeaderBytes = 1
  Radix = 2
INVARIANTS
  TypeOK
  FitsBudget
  RequiredFit
  OmissionTrue
  ReferencesFollowed
