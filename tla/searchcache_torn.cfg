SPECIFICATION MCSpec
CONSTANTS
  Searches = {s1, s2, s3}
  Versions = {v1, v2}
  StaleAfter = 1
  Ttl = 2
  MaxTime = 2
  NoEntry = NoEntry
  NoResponse = NoResponse
  Modes = {"overlapping"}
CHECK_DEADLOCK FALSE
SYMMETRY SearchSymmetry
INVARIANTS
  FlagAgrees
