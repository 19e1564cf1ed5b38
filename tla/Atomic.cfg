SPECIFICATION FairSpec
CONSTANTS
  Tasks = {t1, t2}
  Wakers = {w1, w2}
  None = None
  Hosts = {"native", "polyfill"}
  Helpers = {h1, h2}
  PoolLimit = 1
INVARIANTS TypeOK AwakeBeforePoll OneActivation HelperExclusive
PROPERTIES ImplementsFairContract
\* All futures may finish and all wakers be dropped: the system then rests.
CHECK_DEADLOCK FALSE
