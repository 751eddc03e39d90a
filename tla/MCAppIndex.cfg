\* Warmup, two possible rescans, an update, a failure and a restart.
CONSTANTS
  Warm = Warm
  Rescanners = {r1, r2}
  Searchers = {q1}
  MaxVersion = 2
  IconOf <- MCIcons
  MaxFaults = 1
  MaxRestarts = 1
SPECIFICATION FairSpec
INVARIANTS TypeOK SavedIsSearched CachedIconServes
PROPERTIES NeverGoesBack CatchesUp
CHECK_DEADLOCK FALSE
