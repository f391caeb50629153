\* Two services, one autorestarted and health-checked, one neither.
CONSTANTS
  NumServices = 2
  Pids = {p1, p2}
  NoPid = NoPid
  Autorestart <- One
  HealthChecked <- One
  HealthInterval = 1
  BackoffMin = 1
  BackoffMax = 1
  kGraceSec = 1
  kStableSec = 1
  kMaxFailures = 1
  kFailureWindow = 1
  MaxTasks = 1
SPECIFICATION Spec
SYMMETRY PidSymmetry
INVARIANTS TypeOK OneOwnerPerChild NoLostExit NoLostTask UptimeAgrees HealthOfChild ShutdownSignalsAll NoOrphans
