\* Two services and one pid under fairness, with operator restarts.
CONSTANTS
  NumServices = 2
  Pids = {p1}
  NoPid = NoPid
  Autorestart <- One
  HealthChecked = {}
  HealthInterval = 0
  BackoffMin = 1
  BackoffMax = 1
  kGraceSec = 1
  kStableSec = 0
  kMaxFailures = 1
  kFailureWindow = 0
  MaxTasks = 1
SPECIFICATION FairSpec
PROPERTIES ShutdownCompletes BackoffRetried
