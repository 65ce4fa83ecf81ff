\* The job stores the OTHER prices of two items with one code
SPECIFICATION Spec
CONSTANTS
  fund = fund  gold = gold  w1 = w1  w2 = w2  None = None
  Accounts <- TwoAccounts
  Listed <- QuotedItem
  Unlisted <- OtherItem
  Entries <- SomeEntries
  Workers <- TwoWorkers
  LastMonth = 3
  CatchUp = 3
  Budget = 3
  Edits = 1
SYMMETRY Interchangeable
PROPERTY SharedCodesAccepted
CHECK_DEADLOCK FALSE
