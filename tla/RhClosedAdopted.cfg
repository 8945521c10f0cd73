CONSTANTS
  MaxRequests = 3
  MaxConnects = 4
  StreakLimit = 2
  MaxFaults = 2
SPECIFICATION Spec
INVARIANT RecoverGivesUsable
CHECK_DEADLOCK FALSE
