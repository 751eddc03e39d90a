\* Six things the user does, one reload of the plugin.
CONSTANTS
  Nil = Nil
  Blank = ""
  Queries <- MCQueries
  Actions <- MCActions
  ViewActions = {"view"}
  ListActions = {"list"}
  Ids <- MCIds
  Found <- MCFound
  ListOf <- MCListOf
  MaxInputs = 6
  MaxReloads = 1
SPECIFICATION Spec
INVARIANTS TypeOK HiddenIsBlank NoOrphanSession ShownPageHasSession
CHECK_DEADLOCK FALSE
