CONSTANTS
  t1 = t1
  t2 = t2
  t3 = t3
  Tickets = {t1, t2, t3}
  p1 = p1
  p2 = p2
  Passes = {p1, p2}
  c1 = c1
  c2 = c2
  Contracts = {c1}
  Scenes <- MCScenes
  None = None
  MaxFaults = 1
SPECIFICATION FairSpec
INVARIANT OnePosition
INVARIANT DuplicateReported
INVARIANT CancelledHasNoPosition
INVARIANT GroupHoldsFilled
PROPERTY ImplementsTicketLife
PROPERTY TicketResolved
CHECK_DEADLOCK FALSE
