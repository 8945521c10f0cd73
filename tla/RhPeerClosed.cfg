CONSTANTS
  MaxRequests = 3
  MaxConnects = 4
  StreakLimit = 2
  MaxFaults = 2
SPECIFICATION Spec
PROPERTY PeerKeepsSession
CHECK_DEADLOCK FALSE
