SPECIFICATION FairSpec
CONSTANTS
  Threads = {t1, t2, t3}
  Addrs = {a1, a2, a3, a4, a5}
  Null = Null
  Sizes = {2, 3}
  DefaultSize = 2
  TlsSize = 1
  MayFail = TRUE
  FirstToo = FALSE
INVARIANTS TypeOK StacksSeparate NoWaiterForgotten FreesExact
PROPERTIES StartsEnd
\* Threads may all be at rest, or gone.
CHECK_DEADLOCK FALSE
