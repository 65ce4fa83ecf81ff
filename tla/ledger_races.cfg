\* Three requests on three accounts, two at a time: what a race cannot break
SPECIFICATION Spec
CONSTANTS
  a1 = a1  a2 = a2  a3 = a3  w1 = w1  w2 = w2  None = None
  Accounts <- ThreeAccounts
  Assets <- OneAsset
  Workers <- TwoWorkers
  MaxTx = 2
  Amounts = {1}
  Dates = {1, 2}
  Budget = 3
SYMMETRY Interchangeable
INVARIANT IInv
INVARIANT LedgersCloseUnlessRaced
INVARIANT PagesAgree
INVARIANT DeadTakeTheirRows
PROPERTY DeletionKeepsOthers
CHECK_DEADLOCK FALSE
