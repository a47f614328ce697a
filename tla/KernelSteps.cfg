SPECIFICATION Spec
CONSTANTS
  MaxProcesses = 3
  MaxWaiting = 0
  MaxWaiters = 0
  Null = Null
  Code = {"console"}
  Console = "console"
  Ptrs = {}
  InteractiveSlice = 1
  BackgroundSlice = 2
  Results = {0}
  Calls = {"fork", "exit", "yield", "kill_other", "exec_null"}
INVARIANTS
  TypeOK
  ProcessorInUse
PROPERTIES
  ContextIntegrity
CHECK_DEADLOCK FALSE
