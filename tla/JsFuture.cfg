SPECIFICATION FairSpec
CONSTANTS
  Tasks = {t1, t2}
  Foreign = {p}
  Futures = {f}
  MaxCalls = 2
  MaxMade = 2
  Aborts = TRUE
  Stream = Stream
  None = None
INVARIANTS TypeOK CallbacksValid Delivered
PROPERTIES AwaitEnds
\* All tasks may be done: the system then rests.
CHECK_DEADLOCK FALSE
