SPECIFICATION Spec
CONSTANTS
  daily = daily
  weekly = weekly
  s1 = s1
  s2 = s2
  Intervals = {daily}
  Symbols = {s1}
  SymbolSets <- OneSymbol
  SequenceLetter = "A"
  FallbackEnabled = FALSE
  Faults = {}
  MaxDeliveries = 2
  MaxAttempts = 1
  DispatchCap = 2
CHECK_DEADLOCK FALSE
PROPERTY
  TerminalRunStays
