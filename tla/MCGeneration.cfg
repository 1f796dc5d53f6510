SPECIFICATION Spec
CONSTANTS
  Paths = {p1}
  BatchCounts = {0, 2}
  MaxRuns = 2
  MaxFailures = 1
INVARIANTS
  TypeOK
  RunInputsCurrent
  ArtifactFresh
  BatchInputs
  SuiteUnmixed
  RecoveryFlagged
  RecoveredNotEmpty
  SuccessMeansPublished
PROPERTIES
  SuitePublication
  EveryRunEnds
