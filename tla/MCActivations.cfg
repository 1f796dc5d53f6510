SPECIFICATION Spec
CONSTANTS
  MaxSymbols = 2
  MaxSitesEach = 1
  Surfaces <- TwoSymbols
  SymbolLimits = {1}
  SiteLimits = {0}
INVARIANTS
  ActivationsDistinct
