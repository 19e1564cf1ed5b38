SPECIFICATION FairSpec
CONSTANTS
  Tasks = {t1, t2, t3}
  None = None
  Failures = {"unwind", "abort"}
  MaxClones = 1
INVARIANTS TypeOK WakeNotLost QueuedOnce TickOwed CountsExact
PROPERTIES ImplementsContract PolledUnlessAbandoned TickEnds
\* All futures may finish and all wakers be dropped: the system then rests.
CHECK_DEADLOCK FALSE
