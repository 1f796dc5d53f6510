SPECIFICATION Spec
CONSTANTS
  Deps <- MCDeps
  Ecosystem <- MCEcosystem
  Unresolvable = {"bad"}
  Provides <- MCProvides
  Activations <- MCActivations
  Seeded = {"hex"}
  DefaultAlias <- MCDefaultAlias
  Locals = {"l", "x", "y", "E"}
  None = "none"
  Requests <- MCRequests
  Trees <- MCTrees
INVARIANTS
  TypeOK
  SurfaceComplete
  EveryRequestAnswered
  ActivationSitesOnce
