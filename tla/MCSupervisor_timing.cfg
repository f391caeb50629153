\* One service with room in every clock: doubling backoff, ageing failures.
CONSTANTS
  NumServices = 1
  Pids = {p1, p2}
  NoPid = NoPid
  Autorestart <- One
  HealthChecked <- One
  HealthInterval = 2
  BackoffMin = 1
  BackoffMax = 3
  kGraceSec = 2
  kStableSec = 3
  kMaxFailures = 2
  kFailureWindow = 4
  MaxTasks = 2
SPECIFICATION Spec
SYMMETRY PidSymmetry
INVARIANTS BreakerHolds QuarantineEarned
PROPERTIES RelaunchJustified
