CONSTANTS
  a = a
  b = b
  Pairs = {a, b}
  Intervals = {"DAILY"}
  MaxDeliveries = 2
  Scenes <- MCScenes
  MaxAttempts = 2
  MaxFaults = 2
SPECIFICATION FairSpec
INVARIANT FinalMeansFinished
INVARIANT FinalStatusHonest
INVARIANT HeatmapAfterWrites
PROPERTY RunFinishes
CHECK_DEADLOCK FALSE
