SPECIFICATION Spec
CONSTANTS
  BitsPerWord = 128
  WordBits = 32
  DiskBlocks = 18
  MaxInodes = 7
  MaxInodeBlocks = 2
  DirectoryBlocks = 1
  MaxFiles = 6
  MaxOpenFiles = 5
  Procs = {p, q}
  Names = {"a", "b", "c"}
  Paths <- RootOnly
  Modes = {2}
  Contents <- OneBlock
  DirtyStack = FALSE
  Reserve = 2
  Calls = {"open", "close", "rm", "rmdir", "mount", "exit"}
  p = p
  q = q
INVARIANTS
  TypeOK
  OpenOnce
  DevicesStayPut
SYMMETRY ProcsAlike
CHECK_DEADLOCK FALSE
