SPECIFICATION Spec
CONSTANTS
  BitsPerWord = 128
  WordBits = 32
  DiskBlocks = 24
  MaxInodes = 8
  MaxInodeBlocks = 3
  DirectoryBlocks = 1
  MaxFiles = 6
  MaxOpenFiles = 5
  Procs = {p, q}
  Names = {"a", "b"}
  Paths <- RootOnly
  Modes = {1}
  Contents <- OneBlock
  DirtyStack = FALSE
  Reserve = 2
  Calls = {"open", "close"}
  p = p
  q = q
INVARIANTS
  ExclusiveAccess
CHECK_DEADLOCK FALSE
