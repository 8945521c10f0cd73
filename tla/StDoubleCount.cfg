CONSTANTS
  Symbols = {s1, s2}
  s1 = s1
  s2 = s2
  MaxStarts = 1
  MaxAttempts = 3
  Faults = {"work"}
SPECIFICATION Spec
SYMMETRY SymbolSymmetry
INVARIANT CompletionWaitsForJobs
CHECK_DEADLOCK FALSE
