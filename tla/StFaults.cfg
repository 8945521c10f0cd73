CONSTANTS
  Symbols = {s1, s2}
  s1 = s1
  s2 = s2
  MaxStarts = 2
  MaxAttempts = 2
  Faults = {"jobEnqueue", "starterCrash", "crashAfterCount", "transaction"}
SPECIFICATION Spec
SYMMETRY SymbolSymmetry
INVARIANT IngestAtMostOnce
INVARIANT CompletionNotEarly
PROPERTY FinalStatusStays
CHECK_DEADLOCK FALSE
