\* Overlapping reloads, a toggle and Shutdown of one plugin; two plugins that
\* contend for a prefix, a reload and a search.
CONSTANTS
  Ids = {1, 2}
  Prefixes <- MCPrefixes
  Claims <- MCClaims
  Instances = {x1, x2, x3, x4}
  Loaders = {l1, l2}
  Togglers = {t1}
  Searchers = {s1}
  DisableStrikes = 2
  Nobody = Nobody
SPECIFICATION Spec
INVARIANTS TypeOK BackgroundFollowsMode NoRuntimeLeaks IndexFollowsTable
PROPERTY ReloadKeepsUserChoice
CONSTRAINT Scenarios
SYMMETRY ManagerSymmetry
CHECK_DEADLOCK FALSE
