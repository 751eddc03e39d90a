\* A plugin disabled while a reload is in progress.
CONSTANTS
  Ids = {1}
  Prefixes <- MCPrefixes
  Claims <- MCClaims
  Instances = {x1, x2}
  Loaders = {l1}
  Togglers = {t1}
  Searchers = {}
  DisableStrikes = 1
  Nobody = Nobody
SPECIFICATION Spec
PROPERTY ReloadKeepsMode
SYMMETRY ManagerSymmetry
CHECK_DEADLOCK FALSE
