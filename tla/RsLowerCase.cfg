CONSTANTS
  a = a
  b = b
  Pairs = {a, b}
  Intervals = {"DAILY"}
  MaxDeliveries = 2
  Scenes <- LowerCase
  MaxAttempts = 3
  MaxFaults = 0
SPECIFICATION FairSpec
PROPERTY EventFollowsRun
CHECK_DEADLOCK FALSE
