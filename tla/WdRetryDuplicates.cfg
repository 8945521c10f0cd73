SPECIFICATION WdSpec
CONSTANTS
  daily = daily
  weekly = weekly
  s1 = s1
  s2 = s2
  Intervals = {daily, weekly}
  Symbols = {s1}
  SymbolSets <- OneSymbol
  SequenceLetter = "B"
  FallbackEnabled = FALSE
  Faults = {"consumerEnqueue"}
  MaxDeliveries = 1
  MaxAttempts = 1
  DispatchCap = 2
CHECK_DEADLOCK FALSE
INVARIANT
  AtMostOnceDispatch
