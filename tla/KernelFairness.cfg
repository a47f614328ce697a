SPECIFICATION FairSpec
CONSTANTS
  MaxProcesses = 3
  MaxWaiting = 0
  MaxWaiters = 0
  Null = Null
  Code = {"console"}
  Console = "console"
  Ptrs = {}
  InteractiveSlice = 1
  BackgroundSlice = 6
  Results = {0}
  Calls = {"fork", "yield", "exec"}
PROPERTIES
  ContextIntegrity
  NoStarvation
