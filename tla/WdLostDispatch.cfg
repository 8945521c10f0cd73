SPECIFICATION WdFairSpec
CONSTANTS
  daily = daily
  weekly = weekly
  s1 = s1
  s2 = s2
  Intervals = {daily}
  Symbols = {s1}
  SymbolSets <- OneSymbol
  SequenceLetter = "B"
  FallbackEnabled = FALSE
  Faults = {"dispatcherCrash"}
  MaxDeliveries = 1
  MaxAttempts = 2
  DispatchCap = 2
CHECK_DEADLOCK FALSE
PROPERTY
  ClaimedIsDispatched
