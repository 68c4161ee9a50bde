SPECIFICATION MCSpec
CONSTANTS
  Searches = {s1, s2, s3}
  Versions = {v1, v2}
  StaleAfter = 1
  Ttl = 2
  MaxTime = 3
  NoEntry = NoEntry
  NoResponse = NoResponse
  Modes = {"overlapping", "serial"}
CHECK_DEADLOCK FALSE
SYMMETRY SearchSymmetry
INVARIANTS
  TypeOK
  HitIsRecent
  EntryIsCommitted
  ConflictMeansCached
  EntryAddsUp
PROPERTIES
  SerialSearches
