\* Three attempts on one key from two processes; get_db's commit overlaps the
\* middleware's tail
SPECIFICATION Spec
CONSTANTS
  r1 = r1  r2 = r2  r3 = r3  k1 = k1  k2 = k2
  c1 = c1  c2 = c2  b1 = b1  b2 = b2  i1 = i1  i2 = i2
  None = None
  Requests <- ThreeRequests
  Keys <- OneKey
  Calls = {c1}
  Bodies = {b1}
  Instances = {i1, i2}
  TeardownFirst = FALSE
SYMMETRY Interchangeable
INVARIANT TypeOK
INVARIANT OneExecutionPerKey
INVARIANT OneEffectPerKey
 
 
CHECK_DEADLOCK FALSE
