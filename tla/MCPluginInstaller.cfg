\* Three versions, a user and the auto-upgrade of each of two starts.
CONSTANTS
  Versions = {1, 2, 3}
  u1 = u1
  up = up
  Users = {u1}
  Upgrader = up
  MaxRestarts = 1
SPECIFICATION Spec
INVARIANTS TypeOK InstalledLoads LoadedIsInstalled RollbackSurvives
PROPERTY UpgradeSparesLocal
CHECK_DEADLOCK FALSE
