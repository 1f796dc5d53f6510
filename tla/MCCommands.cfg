CONSTANTS
  Fold <- MCFold
  Indexed = {"npm", "gem"}
  Outputs <- MCOutputs
  GenCommands <- MCGen
  CorpusCommands <- MCCorpus
  CheckCommands <- MCCheck
  MaxCommands = 2
  Products <- MCProducts
  Runnable = {"npm"}
  Releases = {"1", "2"}
SPECIFICATION Spec
INVARIANTS
  TypeOK
  ResultsMeasured
  ExitTruthful
  SuitesKept
