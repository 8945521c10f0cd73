CONSTANTS
  Symbols = {s1, s2, s3}
  s1 = s1
  s2 = s2
  s3 = s3
  TrackedSets <- SomeTracked
  MaxDeliveries = 1
  WatchdogEnabled = TRUE
  Faults = {"consumerEnqueue", "watchdogCrash"}
  DispatchCap = 2
SPECIFICATION FairSpec
PROPERTY EveryFailedDispatchRetried
CHECK_DEADLOCK FALSE
