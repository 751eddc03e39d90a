\* One caller: its deadline may pass between dispatch and prepareVM.
CONSTANTS
  Hosts = {h1}
  Viewers = {}
  Timers = {}
  Closers = {k1}
  NoOne = NoOne
  TaskLimit = 1
  StrikeCap = 0
SPECIFICATION FairSpec
PROPERTY ExpiredJsStops
CHECK_DEADLOCK FALSE
