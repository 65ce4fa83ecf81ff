\* Two requests that lock a trade and the item in opposite orders
SPECIFICATION FairSpec
CONSTANTS
  w1 = w1  w2 = w2  None = None
  Workers <- TwoWorkers
  Budget = 4
  MaxTx = 2
  Quantities = {1}
  Prices = {10, 14}
  Fees = {3}
  Dates = {1}
PROPERTY EveryRequestEnds
CHECK_DEADLOCK FALSE
