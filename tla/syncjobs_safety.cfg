SPECIFICATION MCSpec
CONSTANTS
  Requests = {r1, r2, r3}
  Workers = {w1, w2}
  Targets = {t1, t2}
  Known = {t1}
  Links = {l1, l2}
  Configured = {l1}
  MaxAttempts = 2
  MaxFaults = 1
  NoJob = NoJob
  NoLink = NoLink
  Browsers = {}
  Environments = {"any", "serial"}
CHECK_DEADLOCK FALSE
SYMMETRY ProcessSymmetry
INVARIANTS
  TypeOK
  ExclusiveExecution
  ActiveRowBacked
  RefreshAtomic
  AcceptedJobRecorded
  SerialReusesJob
PROPERTIES
  VerdictStands
  LifecycleSpec
