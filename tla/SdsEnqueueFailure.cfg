SPECIFICATION FairSpec
CONSTANTS
  daily = daily
  weekly = weekly
  s1 = s1
  s2 = s2
  Intervals = {daily}
  Symbols = {s1, s2}
  SymbolSets <- TwoSymbols
  SequenceLetter = "A"
  FallbackEnabled = FALSE
  Faults = {"taskEnqueue"}
  MaxDeliveries = 1
  MaxAttempts = 1
  DispatchCap = 2
CHECK_DEADLOCK FALSE
PROPERTY
  RunReachesCompletion
