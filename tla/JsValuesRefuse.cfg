SPECIFICATION Spec
CONSTANTS
  Values = {v, w}
  Undefined = Undefined
  Null = Null
  Modes = {"heap"}
  Top = 3
  Chunk = 1
  MaxSlots = 3
  MaxArgs = 2
  EarlyFailure = TRUE
INVARIANT StackPointerKept
