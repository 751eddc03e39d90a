\* Two callers, one of which opens views, and two Shutdown calls.
CONSTANTS
  Hosts = {h1, h2}
  Viewers = {h1}
  Timers = {}
  Closers = {k1, k2}
  NoOne = NoOne
  TaskLimit = 1
  StrikeCap = 1
SPECIFICATION Spec
INVARIANTS TypeOK ShutdownInterruptPending RuntimeInv
PROPERTY PromiseKept
CHECK_DEADLOCK FALSE
