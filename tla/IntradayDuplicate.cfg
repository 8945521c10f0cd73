CONSTANTS
  Symbols = {s1, s2, s3}
  s1 = s1
  s2 = s2
  s3 = s3
  TrackedSets <- SomeTracked
  MaxDeliveries = 2
  WatchdogEnabled = FALSE
  Faults = {}
  DispatchCap = 2
SPECIFICATION Spec
INVARIANT DispatchedOnce
CHECK_DEADLOCK FALSE
