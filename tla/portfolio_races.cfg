\* Two requests at a time on one item, up to six: what a race damages the next request repairs
SPECIFICATION Spec
CONSTANTS
  w1 = w1  w2 = w2  None = None
  Workers <- TwoWorkers
  Budget = 6
  MaxTx = 2
  Quantities = {1, 2}
  Prices = {10}
  Fees = {3}
  Dates = {1}
SYMMETRY Interchangeable
PROPERTY SoloRequestRepairs
CHECK_DEADLOCK FALSE
