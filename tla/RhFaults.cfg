CONSTANTS
  MaxRequests = 3
  MaxConnects = 4
  StreakLimit = 2
  MaxFaults = 2
SPECIFICATION FairSpec
INVARIANT NoSessionLeaks
INVARIANT QuietRequestServed
INVARIANT CredentialNotStranded
PROPERTY RequestAnswered
CHECK_DEADLOCK FALSE
