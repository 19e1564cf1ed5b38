SPECIFICATION Spec
CONSTANTS
  Closures = {f}
  Mutable = {}
  Owned = {f}
  Deeds = {}
  Reinit = FALSE
  Schedule = TRUE
  MaxDepth = 3
INVARIANTS NoStaleCall
\* Every closure may be dropped and forsaken: the system then rests.
CHECK_DEADLOCK FALSE
