SPECIFICATION Spec
CONSTANTS
  c = c
  p = p
  None = None
  Objects = {c, p}
  parent <- parents
  Unwinds = {TRUE, FALSE}
  Asyncs = {a}
  MaxDepth = 2
  MaxLost = 1
  Early = TRUE
INVARIANT PointersValid
\* All objects may be gone and all calls over: the system then rests.
CHECK_DEADLOCK FALSE
