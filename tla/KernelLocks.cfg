SPECIFICATION Spec
CONSTANTS
  MaxProcesses = 3
  MaxWaiting = 0
  MaxWaiters = 0
  Null = Null
  Code = {"console"}
  Console = "console"
  Ptrs = {"a"}
  InteractiveSlice = 0
  BackgroundSlice = 1
  Results = {0}
  Calls = {"fork", "exit", "share", "unshare", "lock", "unlock"}
INVARIANTS
  ParentsAlive
PROPERTIES
  SharedWithinFamily
VIEW Tables
CHECK_DEADLOCK FALSE
