CONSTANTS
  a = a
  b = b
  Pairs = {a, b}
  Intervals = {"DAILY", "WEEKLY"}
  MaxDeliveries = 2
  Scenes <- MCScenes
  MaxAttempts = 3
  MaxFaults = 0
SPECIFICATION FairSpec
INVARIANT FinalMeansFinished
CHECK_DEADLOCK FALSE
