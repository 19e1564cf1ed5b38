SPECIFICATION Spec
CONSTANTS
  None = None
  Settings <- AllSettings
  MaxInstance = 4
  MaxDepth = 6
INVARIANTS TypeOK DeadStaysDead PoisonExact HookBeforeRefusal
\* The bound on instances leaves a call that needs a new one waiting.
CHECK_DEADLOCK FALSE
