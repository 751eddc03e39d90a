\* Two calls at a time, four lists of which one cannot be read and one has a
\* stamp in another notation, failures and a restart.
CONSTANTS
  Fetchers = {f1, f2}
  MaxList = 4
  Readable = {1, 2, 4}
  Canonical = {1, 3, 4}
  Catalogue <- MCCatalogue
  HostVersion = 1
  MaxFaults = 1
  MaxRestarts = 1
SPECIFICATION FairSpec
INVARIANTS TypeOK StampVouches AnswersRecent OffersBest
PROPERTY CacheSettles
CHECK_DEADLOCK FALSE
