\* One request at a time, up to five requests, three trades with fees, two prices and two dates
SPECIFICATION Spec
CONSTANTS
  w1 = w1  w2 = w2  None = None
  Workers <- OneWorker
  Budget = 5
  MaxTx = 3
  Quantities = {1, 2}
  Prices = {10, 15}
  Fees = {1}
  Dates = {1, 2}
INVARIANT TypeOK
INVARIANT StoredMatchesReplay
INVARIANT AsOfHoldingsAgree
INVARIANT MoneyConserved
CHECK_DEADLOCK FALSE
