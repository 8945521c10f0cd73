SPECIFICATION FairSpec
CONSTANTS
  daily = daily
  weekly = weekly
  s1 = s1
  s2 = s2
  Intervals = {daily}
  Symbols = {s1}
  SymbolSets <- OneSymbol
  SequenceLetter = "A"
  FallbackEnabled = TRUE
  Faults = {"workerCrash"}
  MaxDeliveries = 2
  MaxAttempts = 2
  DispatchCap = 2
CHECK_DEADLOCK FALSE
INVARIANTS
  RunCheckPending
PROPERTY
  SequenceResolves
