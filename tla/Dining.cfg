SPECIFICATION FairDinnerSpec
CONSTANTS
  MaxProcesses = 3
  MaxWaiting = 2
  MaxWaiters = 1
  Null = Null
  Code <- Labels
  Console = "main_dp"
  Ptrs = {"arbitrator"}
  InteractiveSlice = 1
  BackgroundSlice = 6
  Results = {0}
  Calls = {}
  Philosophers = 2
  Rounds = 2
  arbitrator = "arbitrator"
INVARIANTS
  EveryRoundAMeal
  SeatsTakenOnce
  TableInOrder
PROPERTIES
  LockIsMutex
  DinnerEnds
CHECK_DEADLOCK FALSE
