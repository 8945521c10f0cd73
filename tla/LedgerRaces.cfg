CONSTANTS
  t1 = t1
  t2 = t2
  Trades = {t1, t2}
  Side <- ShortAndLong
  Prices = {1, 2}
  Faults = {"crash", "runUpdate"}
SPECIFICATION Spec
INVARIANTS
  CashMatchesPnl
  GoverningRunHonest
PROPERTIES
  FinalTradeFrozen
  ExitedRunStays
CHECK_DEADLOCK FALSE
