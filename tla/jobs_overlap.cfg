\* Jobs of two instances, a user's refresh and a visitor of the demo
SPECIFICATION FairSpec
CONSTANTS
  apple = apple  samsung = samsung  p1 = p1  p2 = p2  None = None
  Instances <- TwoInstances
  USPairs <- American
  KRPairs <- Korean
  ChunkSize = 1
  MaxQuote = 1
  Triggered = {"refresh_usd_krw", "refresh_us_prices", "manual", "bootstrap_demo", "reset_demo"}
  Budget = 3
INVARIANT TypeOK
 
PROPERTY RefreshedPricesAreCurrent
PROPERTY EveryRunEnds
CHECK_DEADLOCK FALSE
