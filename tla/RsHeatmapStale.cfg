CONSTANTS
  a = a
  b = b
  Pairs = {a, b}
  Intervals = {"DAILY"}
  MaxDeliveries = 2
  Scenes <- MCScenes
  MaxAttempts = 3
  MaxFaults = 1
SPECIFICATION FairSpec
INVARIANT HeatmapsAreComplete
CHECK_DEADLOCK FALSE
