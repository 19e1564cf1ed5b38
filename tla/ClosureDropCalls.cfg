SPECIFICATION Spec
CONSTANTS
  Closures = {f}
  Mutable = {}
  Owned = {f}
  Deeds = {"call"}
  Reinit = FALSE
  Schedule = FALSE
  MaxDepth = 3
INVARIANTS NoUseAfterFree
\* Every closure may be dropped and forsaken: the system then rests.
CHECK_DEADLOCK FALSE
