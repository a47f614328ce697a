SPECIFICATION FairConsoleSpec
CONSTANTS
  MaxProcesses = 3
  MaxWaiting = 2
  MaxWaiters = 1
  Null = Null
  Code <- Addresses
  Console = "prompt"
  Ptrs = {}
  InteractiveSlice = 1
  BackgroundSlice = 1
  Results = {0}
  Calls = {}
  Programs = {"P3", "P4"}
  Lines <- SomeLines
  KeepRoom = TRUE
INVARIANTS
  OneConsole
  ForegroundFirst
  
PROPERTIES
  PromptComesBack
CHECK_DEADLOCK FALSE
