SPECIFICATION Spec
CONSTANTS
  Values = {v, w}
  Undefined = Undefined
  Null = Null
  Modes = {"externref", "heap"}
  Top = 3
  Chunk = 1
  MaxSlots = 3
  MaxArgs = 2
  EarlyFailure = FALSE
INVARIANTS TypeOK HandlesHold NothingKept
PROPERTIES ImplementsContract
