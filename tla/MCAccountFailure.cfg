SPECIFICATION Spec
CONSTANTS
  Paths = {p1}
  BatchCounts = {0}
  MaxRuns = 1
  MaxFailures = 1
PROPERTIES
  AccountFailureFatal
