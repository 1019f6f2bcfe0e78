SPECIFICATION FairSpec
CONSTANTS
  Clouds <- MCClouds
  RetryCount = 1
  DhcpTries = 1
  BindAttempts = 2
  Timeout = 2
  Functions <- AllFunctions
  MaxFailures = 2
  MaxChanges = 1
  MaxAsked = 3
  MaxRounds = 2
CHECK_DEADLOCK FALSE
INVARIANTS TypeOK DriveIsWhole NotMissed SteadyReads HealthReports NothingLeft
PROPERTY DiscoveryEnds
