SPECIFICATION FairSpec
CONSTANTS
  Closures = {f, m, b}
  Mutable = {m, b}
  Owned = {f, m}
  Deeds = {"drop"}
  Reinit = TRUE
  Schedule = TRUE
  MaxDepth = 3
INVARIANTS TypeOK CountExact
PROPERTIES FreedOnce StaleUntouched NoLeak ImplementsContract
\* Every closure may be dropped and forsaken: the system then rests.
CHECK_DEADLOCK FALSE
