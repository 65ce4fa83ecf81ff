\* The books of the demo household and any three requests on them
SPECIFICATION Spec
CONSTANTS
  wallet = wallet  broker = broker  pension = pension  spare = spare
  salary = salary  food = food  other = other  rent = rent  gold = gold  coin = coin
  phone = phone  None = None
  Accounts <- FourAccounts  Categories <- ThreeCategories  Items <- TwoItems  Fixed = {rent, phone}
  Wallet <- wallet  Broker <- broker  Pension <- pension
  Salary <- salary  Food <- food  Rent <- rent  Gold <- gold
  MaxTx = 6
  MaxTrades = 3
  Amount = 5
  Prices = {1, 2}
  ThisMonth = 2
  Dates = {1}
  Namings <- SomeNamings
  Budget = 3
INVARIANT TypeOK
INVARIANT BalancesAgree
INVARIANT MonthFiguresAgree
INVARIANT WealthAddsUp
CHECK_DEADLOCK FALSE
