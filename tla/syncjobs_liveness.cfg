SPECIFICATION MCFairSpec
CONSTANTS
  Requests = {r1, r2}
  Workers = {w1, w2}
  Targets = {t1}
  Known = {t1}
  Links = {l1}
  Configured = {l1}
  MaxAttempts = 2
  MaxFaults = 1
  NoJob = NoJob
  NoLink = NoLink
  Browsers = {r1}
  Environments = {"any", "operators"}
CHECK_DEADLOCK FALSE
PROPERTIES
  AcceptedJobResolves
  WorkersReturn
  OperatorsSettle
  VerdictShown
