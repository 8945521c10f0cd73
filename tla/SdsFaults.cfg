SPECIFICATION Spec
CONSTANTS
  daily = daily
  weekly = weekly
  s1 = s1
  s2 = s2
  Intervals = {daily, weekly}
  Symbols = {s1, s2}
  SymbolSets <- TwoSymbols
  SequenceLetter = "B"
  FallbackEnabled = FALSE
  Faults = {"taskEnqueue", "consumerEnqueue", "subscriberCrash", "workerCrash", "dispatcherCrash"}
  MaxDeliveries = 1
  MaxAttempts = 2
  DispatchCap = 2
CHECK_DEADLOCK FALSE
SYMMETRY FullSymmetry
INVARIANTS
  AtMostOnceDispatch
  FanInComplete
  OutcomeHonest
  SequenceClaimPending
PROPERTY
  ImplementsFanIn
