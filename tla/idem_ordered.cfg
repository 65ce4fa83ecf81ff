\* Two attempts over two keys, paths and bodies; get_db commits before the
\* response reaches the middleware
SPECIFICATION FairSpec
CONSTANTS
  r1 = r1  r2 = r2  r3 = r3  k1 = k1  k2 = k2
  c1 = c1  c2 = c2  b1 = b1  b2 = b2  i1 = i1  i2 = i2
  None = None
  Requests <- TwoRequests
  Keys <- TwoKeys
  Calls = {c1, c2}
  Bodies = {b1, b2}
  Instances = {i1}
  TeardownFirst = TRUE
INVARIANT IInv
 
INVARIANT ReplayMatchesRequest
PROPERTY ImplementsContract
PROPERTY EveryRequestAnswered
CHECK_DEADLOCK FALSE
