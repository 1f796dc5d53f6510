SPECIFICATION Spec
CONSTANTS
  MaxSymbols = 4
  MaxSitesEach = 3
  Surfaces <- AllSurfaces
  SymbolLimits = {0, 1, 2, 3}
  SiteLimits = {0, 1, 2, 3}
INVARIANTS
  TypeOK
  CapsHold
  NothingLost
  ClosedWhenFull
  EntriesDistinct
  MergeRestoresSurface
PROPERTIES
  Progress
