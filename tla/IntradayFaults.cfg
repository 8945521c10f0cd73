CONSTANTS
  Symbols = {s1, s2, s3}
  s1 = s1
  s2 = s2
  s3 = s3
  TrackedSets <- SomeTracked
  MaxDeliveries = 2
  WatchdogEnabled = TRUE
  Faults = {"fetch", "batch", "consumerEnqueue", "subscriberCrash", "outcomeWrite", "watchdogCrash"}
  DispatchCap = 2
SPECIFICATION FairSpec
INVARIANT DispatchedOnFreshPrices
PROPERTY SentOnce
PROPERTY RunIsResolved
PROPERTY FailedDispatchRetried
CHECK_DEADLOCK FALSE
