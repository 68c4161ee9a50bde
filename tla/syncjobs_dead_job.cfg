SPECIFICATION MCSpec
CONSTANTS
  Requests = {r1, r2}
  Workers = {w1}
  Targets = {t1}
  Known = {t1}
  Links = {l1}
  Configured = {l1}
  MaxAttempts = 1
  MaxFaults = 0
  NoJob = NoJob
  NoLink = NoLink
  Browsers = {}
  Environments = {"any"}
CHECK_DEADLOCK FALSE
PROPERTIES
  ReusedJobIsAlive
