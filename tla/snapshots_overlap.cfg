\* Two transactions at a time over three months: job, manual snapshot, account deletion, late entries
SPECIFICATION Spec
CONSTANTS
  fund = fund  gold = gold  w1 = w1  w2 = w2  None = None
  Accounts <- TwoAccounts
  Listed <- QuotedItem
  Unlisted <- OtherItem
  Entries <- SomeEntries
  Workers <- TwoWorkers
  LastMonth = 3
  CatchUp = 3
  Budget = 3
  Edits = 1
SYMMETRY Interchangeable
INVARIANT TypeOK
INVARIANT PricesSerialiseRuns
INVARIANT NoRowsOfTheDeleted
PROPERTY CalmRunRepairs
PROPERTY OldMonthsStay
PROPERTY CatchUpLeavesNoGap
CHECK_DEADLOCK FALSE
