CONSTANTS
  t1 = t1
  t2 = t2
  Trades = {t1}
  Side <- ShortAndLong
  Prices = {1, 2}
  Faults = {"crash", "runUpdate"}
SPECIFICATION FairSpec
PROPERTY GoverningRunFinalized
CHECK_DEADLOCK FALSE
