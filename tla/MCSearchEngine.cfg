\* Two searches at a time, an activation of an application and of a result that
\* a plugin answers twice, one failure; and every expression of at most four
\* characters, or five with two numbers.
CONSTANTS
  Largest = 30
  Value <- MCValue
  Zeros = {0}
  Finites <- MCFinites
  Apply <- MCApply
  Negated <- MCNegated
  Word <- MCWord
  Literal <- MCLiteral
  Longest = 5
  Searches = {s1, s2}
  Typed <- MCTyped
  Apps <- MCApps
  Folders <- MCFolders
  Fuzzy <- MCFuzzy
  Commands <- MCCommands
  Activated <- MCActivated
  Limit = 3
  Boost <- MCBoost
  MaxRecords = 1
  MaxFaults = 1
SPECIFICATION Spec
INVARIANTS TypeOK OutIsMerge RankSeesUsage 
CONSTRAINT Scenarios
SYMMETRY Interchangeable
CHECK_DEADLOCK FALSE
