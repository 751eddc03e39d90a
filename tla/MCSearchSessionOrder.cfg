\* Two searches whose results are stored in the other order.
CONSTANTS
  Nil = Nil
  Blank = ""
  Queries <- MCQueries
  Actions <- MCActions
  ViewActions = {"view"}
  ListActions = {"list"}
  Ids <- MCIds
  Found <- MCFound
  ListOf <- MCListOf
  MaxInputs = 4
  MaxReloads = 0
SPECIFICATION Spec
INVARIANT LastIsMostRecent
CHECK_DEADLOCK FALSE
