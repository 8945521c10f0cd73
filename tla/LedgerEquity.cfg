CONSTANTS
  t1 = t1
  t2 = t2
  Trades = {t2}
  Side <- ShortAndLong
  Prices = {1, 2}
  Faults = {}
SPECIFICATION Spec
INVARIANT FlatEquityIsCash
CHECK_DEADLOCK FALSE
