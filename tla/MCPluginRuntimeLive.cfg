\* A caller, a background task, one Shutdown call; liveness.
CONSTANTS
  Hosts = {h1}
  Viewers = {}
  Timers = {t1}
  Closers = {k1}
  NoOne = NoOne
  TaskLimit = 1
  StrikeCap = 0
SPECIFICATION FairSpec
PROPERTIES EveryCallReturns EveryShutdownReturns TimersEnd
CHECK_DEADLOCK FALSE
