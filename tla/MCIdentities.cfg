CONSTANTS
  Fold <- MCFold
  Indexed = {"npm", "gem"}
  Outputs = {}
  GenCommands <- MCConfusable
  CorpusCommands = {}
  CheckCommands = {}
  MaxCommands = 2
  Products = {{"a.test.js"}}
  Runnable = {"npm"}
  Releases = {"1", "2"}
SPECIFICATION Spec
PROPERTIES
  IdentitiesDistinct
