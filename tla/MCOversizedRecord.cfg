CONSTANTS
  Names <- MCNames
  Needles <- MCNeedles
  Logs <- MCLongLogs
  MaxRecord = 4
  PipeSize = 1
SPECIFICATION Spec
PROPERTIES
  ScanEnds
