\* Two goroutines on any of two sources, failures and a restart.
CONSTANTS
  s1 = s1
  s2 = s2
  r1 = r1
  r2 = r2
  w1 = w1
  w2 = w2
  Sources = {s1, s2}
  Roots = {r1, r2}
  RootOf <- OneRootEach
  Workers = {w1, w2}
  Owned <- EveryOne
  Trees <- OneTreeChanges
  MaxCrashes = 1
SYMMETRY WorkerSymmetry
SPECIFICATION Spec
INVARIANTS TypeOK SearchFollowsConfig ScanningIsTrue CacheFollowsConfig
PROPERTY LayersActAsOne
CHECK_DEADLOCK FALSE
