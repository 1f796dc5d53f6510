CONSTANTS
  Names <- MCNames
  Needles <- MCNeedles
  Logs <- MCLogs
  MaxRecord = 4
  PipeSize = 2
SPECIFICATION Spec
INVARIANTS
  TypeOK
  IndexComplete
  ForExact
PROPERTIES
  IndexEnds
