SPECIFICATION Spec
CONSTANTS
  MaxProcesses = 3
  MaxWaiting = 2
  MaxWaiters = 1
  Null = Null
  Code = {"console"}
  Console = "console"
  Ptrs = {}
  InteractiveSlice = 0
  BackgroundSlice = 0
  Results = {0}
  Calls = {"fork", "fork_wait", "exit", "wait"}
INVARIANTS
  NoLostWakeup
PROPERTIES
  AnsweredAtItsEnd
VIEW Tables
CHECK_DEADLOCK FALSE
